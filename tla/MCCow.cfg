CONSTANTS
    v1 = v1
    v2 = v2
    v3 = v3
    f1 = f1
    f2 = f2
    f3 = f3
    VMs = {v1, v2, v3}
    Threads <- TwoAndOnes
    Pages = {1}
    Frames = {f1, f2, f3}
    NoFrame = NoFrame
    Values = {0, 1}
    First = v1
SPECIFICATION Spec
SYMMETRY Symmetry
INVARIANTS
    RefExact
    
    
