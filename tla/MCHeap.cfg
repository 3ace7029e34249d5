CONSTANTS
    HEADER = 4
    MIN_BLOCK = 2
    CANARY_OVERHEAD = 1
    ALIGN = 2
    PAGE_SIZE = 16
    INITIAL_SIZE = 32
    MaxAddr = 64
    Sizes = {1, 4, 9, 18, 24}
SPECIFICATION Spec
INVARIANTS
    Tiled
    Backed
    EndReserved
