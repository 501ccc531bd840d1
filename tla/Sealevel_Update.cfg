CONSTANTS
    InitAccounts <- AccountsLoop
    InstrData <- Instr1
    ProgramIDs <- Programs1
    ByteVals = {0, 255}
    MaxWrites = 1
    MaxCalls = 1
    ReaderSkipsCount = TRUE
SPECIFICATION Spec
CHECK_DEADLOCK FALSE
INVARIANTS
    DuplicateNeverMutated
PROPERTY
    UpdateReturns
