CONSTANTS
    N = 32
    Inputs <- Inputs32
    Texts <- Texts32
    OtherInputs <- Others
SPECIFICATION Spec
INVARIANTS
    TypeOK
    NoOverflow
    TestEncode32
    TestDecode32
PROPERTIES
    Implements
    CallsReturn
