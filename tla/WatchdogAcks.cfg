SPECIFICATION Spec
CONSTANTS
    Window = 9
    RespawnMax = 2
    NapTicks = 3
    RxTimeout = 8
    SpikeAfter = 4
    AckThreshold = 3
    CrashThreshold = 2
    RestartThreshold = 2
    RestartTicks = 4
PROPERTY AccusedByOwnTimeouts
