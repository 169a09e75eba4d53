SPECIFICATION FairSpec
CONSTANTS
    c1 = c1
    Cmds = {c1}
    Requests = {"history", "prompt", "approve"}
    MaxEvents = 1
    MaxStream = 1
    KeepsUp = TRUE
    Oversized = FALSE
    None = None
PROPERTY CompletionArrives
