\* Chains of up to three files, and every way in which three files extend one another.
SPECIFICATION Spec
CONSTANTS
    None = None
    Malformed = Malformed
    Missing = Missing
    Looping = Looping
    Endless = Endless
    Scalars = {"base", "shell", "strategy"}
    Keys = {"k"}
    Refs = {"r1", "r2", "r3"}
    Shorthands = {"r1"}
    MaxDepth = 2
    LastPort = 4
    Reach = 2
    Problems <- MCProblems
INVARIANTS
    TypeOK
    AnswerIsRight
    MergedRight
    PortsAsPromised
PROPERTY
    Answers
CHECK_DEADLOCK FALSE
