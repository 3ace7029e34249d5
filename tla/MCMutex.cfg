CONSTANTS
    t1 = t1
    t2 = t2
    t3 = t3
    Tasks = {t1, t2, t3}
    CanBlock = {t1, t2}
    NoTask = NoTask
    MaxDepth = 2
SPECIFICATION FairSpec
INVARIANTS
    MutualExclusion
    OwnerAndDepthExact
    NoLostWakeup
PROPERTIES
    HandoffHappens
