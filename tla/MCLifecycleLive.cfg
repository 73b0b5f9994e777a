CONSTANTS
    Callers = {c1, c2}
    Workers = {w1}
    Exits = {e1}
    Identities = {i1}
    None = None
    MaxAttempts = 2
    RetryEnabled = TRUE
    DeregisterOnExit = FALSE
    WaitOverflows = "never"
    MaxCalls = 3
    MaxFailures = 2
SPECIFICATION FairSpec
PROPERTIES RecoversFromTransients CallsReturn HealthIsHonest
CHECK_DEADLOCK FALSE
