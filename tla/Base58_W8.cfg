CONSTANTS
    N = 8
    LimbBytes = 2
    Group = 2
    InterSz = 6
    OutSz = 11
    MiniReduce = TRUE
    Inputs <- Inputs8
    Texts <- Texts8
SPECIFICATION Spec
INVARIANTS
    TypeOK
    EncodeInBounds
    RoundTrip
PROPERTIES
    Implements
