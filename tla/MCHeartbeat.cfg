CONSTANTS
    Senders = {s1, s2}
    Identities = {i1, i2}
    ErrorTypes = {e1}
    None = None
    Ephemeral = TRUE
    MaxTime = 2
    MaxCycles = 2
SPECIFICATION Spec
SYMMETRY Symmetry
INVARIANTS TypeOK OnlyThisCycle NewestDecides
PROPERTY NoRecordAfterClose
CHECK_DEADLOCK FALSE
