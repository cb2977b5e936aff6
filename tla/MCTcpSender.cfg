SPECIFICATION FairSpec

CONSTANTS
    N = 4
    RetxThresh = 2
    DataRetries = 1
    Window = 4
    AckLimit = 2
    UseEcn = TRUE

CHECK_DEADLOCK FALSE

INVARIANTS AssertionsHold Armed Truthful RecoveryPoint
PROPERTY Ends
