SPECIFICATION FairSpec
CONSTANTS
    r1 = r1
    r2 = r2
    r3 = r3
    a = a
    b = b
    NoRequest = NoRequest
    Requests <- TwoRequests
    ChannelOrder <- OneChannel
    QueueSize = 1
    DropOldest = TRUE
    TTL = 1
    Grace = 1
    MaxRetries = 1
    BudgetMayRaise = TRUE
CHECK_DEADLOCK FALSE
PROPERTIES
    EveryCallReturns
    StopFinishes
