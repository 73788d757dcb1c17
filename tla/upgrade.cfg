\* Two processes, from every version, with two interruptions.
SPECIFICATION FairSpec
CONSTANTS
    a = a
    b = b
    n = n
    Procs = {a, b}
    Names = {n}
    Starts = {0, 1, 2, 3, 4, 5, 6, 7, 8}
    Kills = 2
INVARIANTS
    TypeOK
    OpenedIsCurrent
    UpgradedRows
PROPERTY DatabaseOpens
CHECK_DEADLOCK FALSE
