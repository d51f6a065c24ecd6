SPECIFICATION ResponsivePoolSpec
CONSTANTS
    PoolMessages <- JobsOnly
    Difficulties = {1}
    Keys = {k1}
    StrongKey = k1
    NTimes = {t1}
    OtherRoots = {}
    Hash <- MCHash
    MayQuit = TRUE
    MaxReceived = 0
    MaxSolutions = 0
    MaxClock = 1
    MaxSession = 2
    MaxDelay = 1
PROPERTY QuitTerminates
