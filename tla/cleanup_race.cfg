\* A cleanup pass acts on rows it read before a reconnect.
SPECIFICATION Spec
CONSTANTS
    c1 = c1
    c2 = c2
    c3 = c3
    p1 = p1
    p2 = p2
    None = None
    Conns = {c1, c2}
    Projects = {p1}
    Provisioners = {}
    MaxPerUser = 0
    GracePeriod = 60
    Override <- NoOverride
    InitialModes <- GraceModes
    Events = {"grace"}
    Stoppers = {}
    Cleaners = {"cleanup"}
INVARIANT AttachedKept
CHECK_DEADLOCK FALSE
