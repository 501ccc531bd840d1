CONSTANTS
    N = 3
    LimbBytes = 1
    Group = 2
    InterSz = 3
    OutSz = 5
    MiniReduce = FALSE
    Inputs = {}
    Texts <- TextsBelowSpan
SPECIFICATION Spec
INVARIANTS
    DecodeTotal
