SPECIFICATION FairSpec
CONSTANTS
    Window = 9
    RespawnMax = 2
    NapTicks = 3
    RxTimeout = 4
    SpikeAfter = 2
    AckThreshold = 2
    CrashThreshold = 2
    RestartThreshold = 2
    RestartTicks = 4
INVARIANTS
    RespawnBudget
    FedBetweenDelays
PROPERTIES
    EscalatesInSilence
    Replaced
