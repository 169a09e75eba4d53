SPECIFICATION Spec
CONSTANTS
    c1 = c1
    c2 = c2
    Cmds = {c1, c2}
    Requests = {"history", "prompt", "abort"}
    MaxEvents = 3
    MaxStream = 1
    KeepsUp = FALSE
    Oversized = FALSE
    None = None
INVARIANT StrictlyIncreasing
