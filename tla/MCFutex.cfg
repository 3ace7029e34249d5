CONSTANTS
    t1 = t1
    t2 = t2
    k1 = k1
    k2 = k2
    b1 = b1
    Tasks = {t1, t2}
    Keys = {k1, k2}
    NoKey = NoKey
    Values = {0, 1}
    Bits = {b1}
    Timeouts = {"zero", "finite", "never"}
    Counts = {0, 1}
    Signalled = {t1}
SPECIFICATION FairSpec
INVARIANTS
    SleeperFindable
    ReturnHonest
    NoStrandedSleeper
PROPERTIES
    WaitEnds
