\* Two creates, a shell, a run, a switch-branch and an rm, two at a time.
SPECIFICATION Spec
CONSTANTS
    None = None
    c1 = c1
    c2 = c2
    s1 = s1
    r1 = r1
    w1 = w1
    x1 = x1
    b1 = b1
    b2 = b2
    Creators = {c1, c2}
    Shells = {s1}
    Runs = {r1}
    Switchers = {w1}
    Removers = {x1}
    Branches = {b1, b2}
    Overlap = 2
    Harms = 1
SYMMETRY Alike
INVARIANTS
    TypeOK
    CheckoutOfRow
    InitializedIsReady
    FilesOfSession
PROPERTY
    OnCreateOnce
CHECK_DEADLOCK FALSE
