SPECIFICATION StubsSpec
CONSTANTS
    Handles = {h1, h2}
    Values = {x1, x2}
    Free = Free
    Uninit = Uninit
    Panic = Panic
    NeedsDrop = FALSE
    AlignOfT = 8
    AlignOfPtr = 8
    DEFAULT_CAPACITY = 2
    MIN_NON_ZERO_CAP = 1
    MaxCap = 3
    MaxArg = 2
    MaxIter = 2
    SizeMod = 32
    ElemSize = 2
    C_DEFAULT_CAPACITY = 4
    C_MAX_MALLOC_SIZE = 7
    NB_DEFAULT_CAPACITY = 2
    NB_MAX_MALLOC_SIZE = 6
    MaxLen = 7
    MaxYields = 3
    UINT16_MAX = 6
    Inputs = {0, 1, 2, 3, 4, 5, 6}
SYMMETRY Symmetry
INVARIANTS  WritesInBuffer
PROPERTIES BehavesAsVec  AssertsOnlyPastCapacity 
