SPECIFICATION PoolSpec
CONSTANTS
    Modes <- OnlyCombined
    Height <- OneBlock
    MaxAux = 2
    MaxErrors = 0
    MaxShares = 1
    N = 1
    MaxCalls = 0
INVARIANT ProofFitsShare
CHECK_DEADLOCK FALSE
