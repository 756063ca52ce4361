SPECIFICATION Spec
CONSTANTS
    Handles = {h1, h2}
    Values = {x1, x2, x3}
    Free = Free
    Uninit = Uninit
    Panic = Panic
    NeedsDrop = TRUE
    AlignOfT = 8
    AlignOfPtr = 8
    DEFAULT_CAPACITY = 2
    MIN_NON_ZERO_CAP = 1
    MaxCap = 3
    MaxArg = 2
    MaxIter = 2
SYMMETRY Symmetry
INVARIANT DropsOnce
