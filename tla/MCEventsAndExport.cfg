SPECIFICATION TrafficSpec
CONSTANTS
    c1 = c1
    c2 = c2
    Cmds = {c1, c2}
    Requests = {"get", "history", "prompt", "abort", "change"}
    MaxEvents = 2
    MaxStream = 2
    KeepsUp = TRUE
    Oversized = FALSE
    None = None
    a = a
    Exported = {a, b}
    MaxExports = 2
    MaxRevisions = 2
    MaxMoves = 1
    MaxTransfers = 1
    NoFile = NoFile
CHECK_DEADLOCK FALSE
INVARIANTS
    ExportAsShown
    CopiesRemoved
    ExportStoppable
PROPERTIES NoSilentLoss CompletionArrives
