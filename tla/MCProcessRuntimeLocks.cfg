CONSTANTS
    Threads = {t1, t2}
    None = None
    Lost = Lost
    MaxForks = 1
    MaxCalls = 4
SPECIFICATION Spec
SYMMETRY Symmetry
INVARIANT InheritedLocksAreDiscarded
CHECK_DEADLOCK FALSE
