\* Logins and two remove-user commands, each of which may be killed.
SPECIFICATION FairSpec
CONSTANTS
    l1 = l1
    l2 = l2
    l3 = l3
    r1 = r1
    r2 = r2
    p1 = p1
    p2 = p2
    Logins = {l1, l2}
    Removers = {r1, r2}
    Forced = {r1}
    Projects = {p1}
INVARIANTS
    ExclusiveWithKey
    RemovedWithoutSessions
PROPERTY WaitersServed
CHECK_DEADLOCK FALSE
