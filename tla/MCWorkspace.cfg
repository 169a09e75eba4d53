CONSTANTS
    None = None
    Inline = 1
    Prompts = {p1}
    InitialLog <- ALog
    Limit = 2
    MaxTurns = 2
    MaxUpdates = 3
    MaxForks = 1
    MaxWire = 2
    Mutations = {"navigate", "fork", "clone"}
    MaxAsks = 2
    OlderWhileLoading = FALSE
SPECIFICATION WorkspaceSpec
INVARIANTS
    ViewCurrent
    ReferencesFetchable
    PagesJoin
    SettledViewIsBranch
    AnswerAwaited
    FramesAccepted
CHECK_DEADLOCK FALSE
