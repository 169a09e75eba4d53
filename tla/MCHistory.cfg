CONSTANTS
    None = None
    Inline = 1
    Prompts = {}
    InitialLog <- ShellLog
    Limit = 2
    MaxTurns = 1
    MaxUpdates = 0
    MaxForks = 1
    MaxWire = 2
    Mutations = {"fork"}
    MaxAsks = 3
    OlderWhileLoading = FALSE
SPECIFICATION WorkspaceSpec
INVARIANTS
    HistoryRenderable
CHECK_DEADLOCK FALSE
