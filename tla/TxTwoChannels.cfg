SPECIFICATION OrderSpec
CONSTANTS
    r1 = r1
    r2 = r2
    r3 = r3
    a = a
    b = b
    NoRequest = NoRequest
    Requests <- TwoRequests
    ChannelOrder <- TwoChannels
    QueueSize = 1
    DropOldest = FALSE
    TTL = 1
    Grace = 1
    MaxRetries = 2
    BudgetMayRaise = FALSE
SYMMETRY Symmetry2
INVARIANTS
    RefusedNeverOnAir
    OnAirAtMostOnce
    AirtimeAccounted
    RoundRobinFair
PROPERTIES
    SendsOnlyLive
    KeepsPromise
