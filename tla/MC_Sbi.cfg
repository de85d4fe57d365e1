CONSTANTS
    Xlen = 4
    Shift = 4
    Calls <- MC_Calls
    Times <- MC_Times
    StaleA1 <- MC_StaleA1
    Bytes <- MC_Bytes
    MaxCalls = 3
    MaxRx = 2
    BitOr <- MC_BitOr
SPECIFICATION Spec
INVARIANTS
    TypeOK
    TxInOrder
    RxExact
    TimerProgrammed
PROPERTIES
    
    PutcharReturns
