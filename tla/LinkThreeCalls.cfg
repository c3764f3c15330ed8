SPECIFICATION Spec
CONSTANTS
    a1 = a1
    a2 = a2
    a3 = a3
    t1 = t1
    t2 = t2
    t3 = t3
    None = None
    Attempts <- ThreeAttempts
    Tokens <- ThreeTokens
SYMMETRY Symmetry3
INVARIANTS
    OutcomesTrue
    NoStaleRegistration
    EchoOnlyOfEmitted
    OverUnlessCutShort
PROPERTIES
    KeepsLink
CHECK_DEADLOCK FALSE
