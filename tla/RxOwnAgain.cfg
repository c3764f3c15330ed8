SPECIFICATION RecordedSpec
CONSTANTS
    a = a
    s = s
    own = own
    other = other
    Absent = Absent
    Contents = {own, other}
    OwnContents = {own}
    Radios = {a}
    Slots = {s}
    RuleSets <- Plain
    Identity = TRUE
    BridgeEchoTTL = 1
    DemodTTL = 1
    EchoTTL = 2
    EngineTTL = 3
    SeenTTL = 4
    MaxHeard = 2
    MaxClock = 2
    MaxInjects = 1
    MaxPackets = 2
    MaxUpdates = 0
INVARIANTS
    OwnNotForwardedAgain
CHECK_DEADLOCK FALSE
