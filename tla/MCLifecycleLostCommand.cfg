CONSTANTS
    Callers = {c1, c2}
    Workers = {w1, w2}
    Exits = {e1}
    Identities = {i1}
    None = None
    MaxAttempts = 2
    RetryEnabled = TRUE
    DeregisterOnExit = TRUE
    WaitOverflows = "never"
    MaxCalls = 4
    MaxFailures = 3
SPECIFICATION Spec
INVARIANT NoCommandIsLost
CHECK_DEADLOCK FALSE
