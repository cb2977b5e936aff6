SPECIFICATION FairSpec

CONSTANTS
    SegmentSize = 2
    InitialCwnd = 10
    InitialSsThresh = 1000
    Bdps = {6, 60}
    Alphas = {85, 130}
    MaxAcked = 1
    Duplex = TRUE
    MaxWindow = 32

INVARIANTS Floor PendingFresh
PROPERTIES Retained Converges
