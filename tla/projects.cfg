\* Two adds, two updates and a remove, two at a time, on two names.
SPECIFICATION Spec
CONSTANTS
    None = None
    a1 = a1
    a2 = a2
    u1 = u1
    u2 = u2
    m1 = m1
    n1 = n1
    n2 = n2
    f1 = f1
    f2 = f2
    Adders = {a1, a2}
    Updaters = {u1, u2}
    Removers = {m1}
    Names = {n1, n2}
    Podfiles = {f1, f2}
    Overlap = 2
    Harms = 1
SYMMETRY Alike
INVARIANTS
    TypeOK
    ImageOfEntry
    CloneOfEntry

    
CHECK_DEADLOCK FALSE
