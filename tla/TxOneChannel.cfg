SPECIFICATION OrderSpec
CONSTANTS
    r1 = r1
    r2 = r2
    r3 = r3
    a = a
    b = b
    NoRequest = NoRequest
    Requests <- ThreeRequests
    ChannelOrder <- OneChannel
    QueueSize = 2
    DropOldest = TRUE
    TTL = 1
    Grace = 1
    MaxRetries = 1
    BudgetMayRaise = FALSE
SYMMETRY Symmetry3
VIEW WithoutAir
INVARIANTS
    NothingLost
    FirstAttemptsInOrder
PROPERTIES
    StopAnswersEveryone
