CONSTANTS
    N = 3
    LimbBytes = 1
    Group = 2
    InterSz = 3
    OutSz = 5
    MiniReduce = FALSE
    Inputs <- Inputs3
    Texts <- Texts3
SPECIFICATION Spec
INVARIANTS
    TypeOK
    EncodeInBounds
    RoundTrip
PROPERTIES
    Implements
