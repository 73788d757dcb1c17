\* Two server-setup commands, each run again and again, with three harms.
SPECIFICATION Spec
CONSTANTS
    None = None
    s1 = s1
    s2 = s2
    Setups = {s1, s2}
    Harms = 3
SYMMETRY Alike
INVARIANTS
    SshdStarts
    SettingsKept
PROPERTY
    TakesEffect
CHECK_DEADLOCK FALSE
