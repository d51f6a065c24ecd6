SPECIFICATION PoolSpec
CONSTANTS
    Modes <- AllModes
    Height <- TwoBlocks
    MaxAux = 2
    MaxErrors = 1
    MaxShares = 1
    N = 3
    MaxCalls = 2
INVARIANTS
    PoolTypeOK
    CallersAnsweredRightly
    AuxUpdateReachesJob
PROPERTIES
    JobFollowsChain
    AuxFollowsChain
    EveryShareRecorded
    EveryCallAnswered
CHECK_DEADLOCK FALSE
