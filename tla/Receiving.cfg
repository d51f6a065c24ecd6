SPECIFICATION ReceivingSpec
CONSTANTS
    N = 3
    Reachable = {1, 2}
    Flaky = {0, 1}
    MaxDelay = 3
    Senders = {2}
    Packets <- FourPackets
    MaxPackets = 2
    ReadSize = 5
    MaxSize = 6
    SolutionSize = 4
    MaxSkip = 1
    MaxMessages = 5
    TempSize = 5
INVARIANTS
    ConnectedArePolled
    DisconnectedWillRetry
    SolutionsAsSent
    RetriesWithEmptyBuffer
    MessagesAsSent
PROPERTIES
    SurvivesWholeAnswers
    ReachablePeersReconnect
CHECK_DEADLOCK FALSE
