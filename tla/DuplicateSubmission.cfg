SPECIFICATION Spec
CONSTANTS
    PoolMessages <- JobsOnly
    Difficulties = {1}
    Keys = {k1}
    StrongKey = k1
    NTimes = {t1}
    OtherRoots = {}
    Hash <- MCHash
    MayQuit = FALSE
    MaxReceived = 2
    MaxSolutions = 3
    MaxClock = 2
    MaxSession = 1
    MaxDelay = 1
INVARIANT NoDuplicateSubmission
