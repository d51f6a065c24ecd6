SPECIFICATION FairSpec
CONSTANTS
    PoolMessages <- JobsOnly
    Difficulties = {1}
    Keys = {k1}
    StrongKey = k1
    NTimes = {t1}
    OtherRoots = {}
    Hash <- MCHash
    MayQuit = TRUE
    MaxReceived = 2
    MaxSolutions = 1
    MaxClock = 1
    MaxSession = 1
    MaxDelay = 1
PROPERTIES
    ConsumersStop
    JobsBecomeActive
