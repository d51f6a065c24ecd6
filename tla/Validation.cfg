SPECIFICATION Spec
CONSTANTS
    PoolMessages <- PlainMessages
    Difficulties = {3}
    Keys = {k1}
    StrongKey = k1
    NTimes = {t1}
    OtherRoots <- ForeignRoots
    Hash <- MCHash
    MayQuit = FALSE
    MaxReceived = 3
    MaxSolutions = 3
    MaxClock = 2
    MaxSession = 1
    MaxDelay = 1
INVARIANTS
    ResponsesCounted
    SolutionsAccounted
    DuplicatesOnlyAcrossJobs
    SubmittedSharesMeetDifficulty
CONSTRAINT FewForeignRoots
