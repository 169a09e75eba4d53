SPECIFICATION ConnectionSpec
CONSTANTS
    Kinds <- MCKinds
    Projects = {p1}
    Commands = {c1}
    NodeVersions <- MCVersions
    NodeCapabilities <- MCCapabilities
    Offers <- MCOffers
    MaxRequests = 3
    MaxTracked = 2
    PipeSize = 1
    None = None
    Base = 3
    PrefixBytes = 2
    MaxFrameBytes = 5
    Payloads <- MCPayloads
    MaxFrames = 3
    TotalBytes = 4
    ChunkBytes = 2
    MaxCredit = 10
    MaxOutstanding = 2
    MaxDepth = 2
    MaxItems = 2
    MaxString = 12
    MaxKey = 2
    MaxTotal = 20
    Keys <- MCKeys
    Leaves <- MCLeaves
    MaxWraps = 3
    MaxText = 4
    NotTime = NotTime
    Unset = Unset
    MaxName = 4
    MaxAutoName = 3
    MaxMessage = 2
    MaxTranscript = 5
    MaxInline = 1
    MaxContent = 2
    MaxParts = 2
    MaxIdentifier = 1
CHECK_DEADLOCK FALSE
INVARIANTS PeersAgree CommandsTruthful FramesExact TransferExact AnswersServed
PROPERTIES Copied EveryWaitEnds
