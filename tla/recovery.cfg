\* Cleanup passes repeat and their calls work.
SPECIFICATION FairSpec
CONSTANTS
    c1 = c1
    c2 = c2
    c3 = c3
    p1 = p1
    p2 = p2
    None = None
    Conns = {c1, c2}
    Projects = {p1}
    Provisioners = {c2}
    MaxPerUser = 0
    GracePeriod = 60
    Override <- NoOverride
    InitialModes <- GraceModes
    Events = {"crash", "leaveTimeout", "call", "inspect", "hook", "grace", "lifetime", "vanish"}
    Stoppers = {}
    Cleaners = {"cleanup"}
PROPERTIES
    ConnectionsSettle
    SessionsEnd
CHECK_DEADLOCK FALSE
