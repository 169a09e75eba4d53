SPECIFICATION OnDiskSpec
CONSTANTS
    p = p
    q = q
    r = r
    x1 = x1
    x2 = x2
    e1 = e1
    e2 = e2
    None = None
    Files = {1, 2, 3, 4}
    OnDisk = {1, 2, 3}
    ParentOf <- Family3
    Projects = {p, q, r}
    ProjectOf <- OwnProjects
    Ops = {x1, x2}
    Kinds = {"autoName", "delete"}
    Entries = {e1}
    Live = {2}
    MaxAttempts = 2
    MaxFaults = 2
    Nodes = {n1}
    Disk = Disk
    Categories = {1, 2}
    MaxChanges = 2
    Spellings = {1, 2, 3}
    Canonical <- Resolve
    Sessions = {s1, s2, s3}
    Times = {1, 2}
    ScanLimit = 2
    MaxProjects = 1
    Names = {1, 2, 3}
    MaxChildren = 2
    MaxVanished = 1
    Paths = {1, 2, 3, 4}
    IdAt <- HeaderIds
    ParentPath <- HeaderParents
    Loadable = {13}
    MaxWrites = 2
    NoPath = NoPath
    MaxConnects = 3
CHECK_DEADLOCK FALSE
INVARIANTS DeletionsClean AnswersRight StoppedIsReleased HostingRight
PROPERTIES KeepsEntries ApprovalRight WorkEnds
