CONSTANTS
    c1 = c1
    c2 = c2
    f1 = f1
    CPUs = {c1, c2}
    NoCPU = NoCPU
    Frames = {f1}
    NoFrame = NoFrame
    MaxPages = 1
    Reclaimers = {c1, c2}
    Flushers = {c2}
    Rounds = 2
    MaxGen = 2
SPECIFICATION FairSpec
INVARIANTS
    FlushedAll
    TlbCoherent
    FramesAccounted
PROPERTIES
    FlushEnds
