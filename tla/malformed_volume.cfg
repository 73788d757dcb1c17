\* The second of two services has a malformed volume.
SPECIFICATION FairSpec
CONSTANTS
    None = None
    l1 = l1
    l2 = l2
    g1 = g1
    s1 = s1
    d1 = d1
    Logins = {l1}
    Legacy = {}
    Stoppers = {}
    Cleaners = {}
    Services = 2
    Harms = 1
    Malformed = {2}
INVARIANT ServicesRemoved
CHECK_DEADLOCK FALSE
