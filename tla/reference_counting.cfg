\* Connections alone, any of which may be killed: reference counting is exact.
SPECIFICATION Spec
CONSTANTS
    c1 = c1
    c2 = c2
    c3 = c3
    p1 = p1
    p2 = p2
    None = None
    Conns = {c1, c2, c3}
    Projects = {p1, p2}
    Provisioners = {}
    MaxPerUser = 0
    GracePeriod = 60
    Override <- NoOverride
    InitialModes <- UniformModes
    Events = {"crash", "leaveTimeout", "grace"}
    Stoppers = {}
    Cleaners = {}
SYMMETRY Connections
INVARIANTS
    CountIsExact
    AttachedKept
    IdleSessionsExpire
PROPERTIES
    SharesSessions
    PersistentKept
CHECK_DEADLOCK FALSE
