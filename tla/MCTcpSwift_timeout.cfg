SPECIFICATION Spec

CONSTANTS
    SegmentSize = 2
    InitialCwnd = 10
    InitialSsThresh = 1000
    Bdps = {6, 60}
    Alphas = {85, 130}
    MaxAcked = 1
    Duplex = FALSE
    MaxWindow = 32

PROPERTY TimeoutRetention
