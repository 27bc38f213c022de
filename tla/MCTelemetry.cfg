CONSTANTS
    MaxRetries = 11
    MaxStats = 2
    KlogLoadFails = TRUE
SPECIFICATION Spec
INVARIANTS TypeOK AttemptsSerialised DumpReleasedBeforeBoot
PROPERTIES StatsCarryBootId
