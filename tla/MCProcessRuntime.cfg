CONSTANTS
    Threads = {t1, t2}
    None = None
    Lost = Lost
    MaxForks = 2
    MaxCalls = 4
SPECIFICATION FairSpec
INVARIANTS RuntimeIsCurrent OneRuntimePerProcess OneClient RecoveryYieldsToCommands RecoveryIsNotSkipped
PROPERTY CallsEnd
CHECK_DEADLOCK FALSE
