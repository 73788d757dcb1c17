\* Every failure, a stop command and a cleanup pass at any moment.
SPECIFICATION Spec
CONSTANTS
    c1 = c1
    c2 = c2
    c3 = c3
    p1 = p1
    p2 = p2
    None = None
    Conns = {c1, c2}
    Projects = {p1, p2}
    Provisioners = {}
    MaxPerUser = 1
    GracePeriod = 60
    Override <- NoOverride
    InitialModes <- RunBesideLogins
    Events = {"crash", "enderCrash", "runTimeout", "leaveTimeout", "call", "enderCall", "inspect", "remove", "hook", "grace", "lifetime", "vanish"}
    Stoppers = {"stop"}
    Cleaners = {"cleanup"}
SYMMETRY ProjectNames
INVARIANTS
    TypeOK
    RowNamesItsContainer
    SessionLimit
    NoPhantomConnections
    GraceOnlyWhenIdle
CHECK_DEADLOCK FALSE
