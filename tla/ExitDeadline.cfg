CONSTANTS
    Callers = {c1, c2}
    Workers = {w1}
    Exits = {e1}
    Identities = {i1}
    None = None
    MaxAttempts = 2
    RetryEnabled = TRUE
    DeregisterOnExit = TRUE
    WaitOverflows = "always"
    MaxCalls = 2
    MaxFailures = 2
    Timeouts = {0, 1, 3}
    Fallback = 2
    Grace = 1
    WaitMax = 3
    MaxAge = 4
SPECIFICATION TimedSpec
PROPERTIES ShutdownIsBounded GivesUpOnlyOnOverrun
CHECK_DEADLOCK FALSE
