\* Two logins to a project with two services, and everybody who interferes.
SPECIFICATION FairSpec
CONSTANTS
    None = None
    l1 = l1
    l2 = l2
    g1 = g1
    s1 = s1
    d1 = d1
    Logins = {l1, l2}
    Legacy = {g1}
    Stoppers = {s1}
    Cleaners = {d1}
    Services = 2
    Harms = 1
    Malformed = {}
INVARIANTS
    TypeOK
    WholeOrNothing
    OwnEnvironment
PROPERTY OrphansGo
CHECK_DEADLOCK FALSE
