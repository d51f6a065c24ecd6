SPECIFICATION ReceivingSpec
CONSTANTS
    N = 1
    Reachable = {0}
    Flaky = {}
    MaxDelay = 3
    Senders = {0}
    Packets <- TwoPackets
    MaxPackets = 2
    ReadSize = 5
    MaxSize = 6
    SolutionSize = 4
    MaxSkip = 1
    MaxMessages = 1
    TempSize = 5
INVARIANT HandshakeEndsBetweenPackets
CHECK_DEADLOCK FALSE
