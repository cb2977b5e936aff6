CONSTANTS
    SystemCount = 3
    Links <- PairLinks
    Delay <- ZeroDelay
    Half = 2
    InitialEvents = 1
    OldUids = 1
    MaxEvents = 2
SPECIFICATION GlobalSpec
INVARIANTS
    NeverDequeueEmpty
    PublicForward
PROPERTIES
    Termination
