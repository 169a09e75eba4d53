SPECIFICATION ConcernsSpec
CONSTANTS
    a = a
    b = b
    d = d
    e = e
    p = p
    q = q
    None = None
    Ids = {a, b, d, e}
    InitialIds = {a, b, e}
    Projects = {p, q}
    ProjectOf <- TwoProjects
    Cmds = {c1, c2}
    Admins = {x1, x2}
    Aliases = {direct, link}
    Watchers = {w1}
    Contended = {d}
    Protected = {p}
    MaxOpen = 2
    QueueBound = 2
SYMMETRY Symmetry
INVARIANTS TypeOK LeaseMatchesRegistry RuntimesBounded ActiveWillSettle
    MutationAlone AdministrationAlone TrustedNotRestricted
PROPERTIES BusySessionsStay AnsweredOnce
