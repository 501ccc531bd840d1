CONSTANTS
    N = 32
    LimbBytes = 2
    Group = 2
    InterSz = 22
    OutSz = 44
    MiniReduce = FALSE
    Inputs <- Zeros32
    Texts = {}
SPECIFICATION Spec
INVARIANTS
    SpecZeroVector
