CONSTANTS
    N = 64
    Inputs <- Inputs64
    Texts <- Texts64
    OtherInputs <- Others
SPECIFICATION Spec
INVARIANTS
    TypeOK
    NoOverflow
    TestEncode64
PROPERTIES
    Implements
    CallsReturn
