CONSTANTS
    Exceptions = {e1, e2, e3}
    exc = e1
    None = None
    Sayings <- OneOrBoth
    MaxDepth = 2
SPECIFICATION Spec
SYMMETRY Symmetry
INVARIANTS EvidenceDecides ProofsAreFound OnlyProvenTransients
CHECK_DEADLOCK FALSE
