SPECIFICATION Spec
CONSTANTS
    c1 = c1
    c2 = c2
    Cmds = {c1, c2}
    Requests = {"get", "history", "prompt", "abort", "change", "approve", "cancel", "leave"}
    MaxEvents = 2
    MaxStream = 2
    KeepsUp = FALSE
    Oversized = TRUE
    None = None
SYMMETRY Symmetry
CHECK_DEADLOCK FALSE
INVARIANTS
    FramesInOrder
    StreamsExact
    ListenerIsObserved
