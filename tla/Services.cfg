CONSTANTS
    Explored = {"router", "inbox", "room", "identities", "repeater",
             "requests", "retention", "upgrade", "contacts", "daemon",
             "calibration", "radio", "access", "charts", "settings",
             "policy", "limits", "records", "radioset"}
    t1 = t1
    t2 = t2
    p1 = p1
    r1 = r1
    r2 = r2
    m1 = m1
    m2 = m2
    c1 = c1
    k1 = k1
    k2 = k2
    k3 = k3
    n1 = n1
    n2 = n2
    w1 = w1
    w2 = w2
    Absent = Absent
SPECIFICATION Spec
INVARIANTS
    AskedAndAnswered
    NothingLeftBehind
    GivenOnceInOrder
    
    ChargesAccounted
    CopiesAgree
    EverythingOwned
    RememberedExactly
    ForwardedCounted
    CountedOnce
    RadioShared
SYMMETRY Symmetry
CHECK_DEADLOCK FALSE
