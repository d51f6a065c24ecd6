SPECIFICATION ServerSpec
CONSTANTS
    Clients = {c1}
    Difficulties = {200, 300}
    Initial = 200
    Nonces = {0, 197, 198, 200}
    Weight <- Weights
    BlockNonces = {0}
    Texts <- AllTexts
    HexTexts = {"0", "197", "198", "200", "200 upper"}
    LowerCase <- LowerCases
    Decoded <- Decodings
    Addresses = {"a", "b"}
    ValidAddresses = {"a"}
    MaxAuthorize = 2
    MaxJobs = 2
    MaxConnects = 2
    MaxInFlight = 2
    MaxCredits = 2
    CheckThreshold = 2
    InvalidPercent = 50
    Miners = {m1, m2}
    InitialDifficulty = 6
    Minimum = 4
    Maximum = 10
    TargetTime = 2
    RetargetTime = 2
    Variance = 30
    Flags = {20}
    MaxTime = 5
INVARIANT
    CreditsValidAddress
CHECK_DEADLOCK FALSE
