SPECIFICATION Spec
CONSTANTS
    a = a
    s = s
    own = own
    other = other
    Absent = Absent
    Contents = {own, other}
    OwnContents = {own}
    Radios = {a}
    Slots = {s}
    RuleSets <- RuleLists
    Identity = TRUE
    BridgeEchoTTL = 1
    DemodTTL = 1
    EchoTTL = 1
    EngineTTL = 2
    SeenTTL = 2
    MaxHeard = 2
    MaxClock = 1
    MaxInjects = 1
    MaxPackets = 2
    MaxUpdates = 1
INVARIANTS
    HandoverInOrder
    OncePerAntenna
    NestingBounded
CHECK_DEADLOCK FALSE
