SPECIFICATION Spec
CONSTANTS
    PoolMessages <- AllMessages
    Difficulties = {0}
    Keys = {k1}
    StrongKey = k1
    NTimes = {t1}
    OtherRoots = {}
    Hash <- MCHash
    MayQuit = FALSE
    MaxReceived = 4
    MaxSolutions = 0
    MaxClock = 1
    MaxSession = 2
    MaxDelay = 3
INVARIANTS
    TypeOK
    ExtraNonceOfSession
    CleanFlagHonoured
    DistributesLatest
