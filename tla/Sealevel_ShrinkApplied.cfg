CONSTANTS
    InitAccounts <- AccountsLanding
    InstrData <- Instr1
    ProgramIDs <- Programs1
    ByteVals = {0, 255}
    MaxWrites = 0
    MaxCalls = 1
    ReaderSkipsCount = TRUE
SPECIFICATION Spec
CHECK_DEADLOCK FALSE
INVARIANT ShrinkNeverApplied
