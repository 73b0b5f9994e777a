CONSTANTS
    Callers = {c1, c2}
    Apps = {a1, a2}
    Extensions = {"x1", "x2"}
    None = None
    BaseConfig <- MCBaseConfig
    Overrides <- MCOverrides
    Loggers <- MCLoggers
    UserPaths = {"/users"}
    MaxInits = 2
    MaxFailures = 2
SPECIFICATION Spec
SYMMETRY Symmetry
INVARIANTS TypeOK InstalledComplete LoggerIsOfOneCall SdkIsSilent CleanedUpOnce
PROPERTY StateIsNeverReplaced
