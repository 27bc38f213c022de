CONSTANTS
    MaxRetries = 11
    MaxStats = 2
    KlogLoadFails = FALSE
SPECIFICATION Spec
INVARIANT AttemptAlwaysPending
