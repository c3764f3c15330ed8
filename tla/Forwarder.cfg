SPECIFICATION FairSpec
CONSTANTS
    g1 = g1
    g2 = g2
    None = None
    Groups <- TwoGroups
INVARIANTS
    OwnsEveryProcess
    StoppedMeansStopped
PROPERTIES
    StopReturns
    DeadRadioReplaced
    AddressSettles
