SPECIFICATION Spec
CONSTANTS
    p = p
    q = q
    r = r
    x1 = x1
    e1 = e1
    None = None
    Files = {1, 2, 3}
    OnDisk = {1, 2, 3}
    ParentOf <- Family3
    Projects = {p, q}
    ProjectOf <- OneProject
    Ops = {x1}
    Kinds = {"delete"}
    Entries = {}
    Live = {}
    MaxAttempts = 2
    MaxFaults = 0
CHECK_DEADLOCK FALSE
INVARIANT ConflictMeansChanged
