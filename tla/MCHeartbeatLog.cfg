CONSTANTS
    Senders = {s1, s2}
    Identities = {i1}
    ErrorTypes = {e1, e2}
    None = None
    Interval = 2
    MaxTime = 5
    MaxBeats = 6
SPECIFICATION Spec
INVARIANT WarningsAreSpaced
PROPERTY NoSilentFailure
CHECK_DEADLOCK FALSE
