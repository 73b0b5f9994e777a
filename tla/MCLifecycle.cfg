CONSTANTS
    Callers = {c1, c2}
    Workers = {w1, w2}
    Exits = {e1}
    Identities = {i1, i2}
    None = None
    MaxAttempts = 2
    RetryEnabled = TRUE
    DeregisterOnExit = TRUE
    WaitOverflows = "recovery"
    MaxCalls = 4
    MaxFailures = 3
SPECIFICATION Spec
SYMMETRY Symmetry
INVARIANTS TypeOK OneOperation OneNamingRpc ServerMatchesRuntime ExitNeverBlocksOnRpc CleanExitLeavesNothing NoStaleError NoWakeupIsMissed
PROPERTIES ExitIsFinal ImplementsService
CHECK_DEADLOCK FALSE
