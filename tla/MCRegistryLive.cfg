CONSTANTS
    a = a
    b = b
    d = d
    e = e
    p = p
    q = q
    None = None
    Ids = {a, b}
    InitialIds = {a}
    Projects = {p}
    ProjectOf <- TwoProjects
    Cmds = {c1}
    Admins = {x1}
    Aliases = {direct}
    Watchers = {}
    Contended = {a}
    Protected = {p}
    MaxOpen = 1
    QueueBound = 1
SPECIFICATION LiveSpec
PROPERTIES BusyEnds LocksReleased ShutdownReleasesAll
