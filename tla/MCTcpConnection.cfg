SPECIFICATION FairSpec

CONSTANTS
    Nodes = {a, b}
    SynRetries = 2
    DataRetries = 1
    QueueLimit = 2
    ClosesEarly = FALSE

CHECK_DEADLOCK FALSE

INVARIANTS Armed Released FinAcknowledged
PROPERTY Ends
