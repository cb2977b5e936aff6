CONSTANTS
    SystemCount = 2
    Links <- PairLinks
    Delay <- PairDelay
    Half = 3
    InitialEvents = 2
    OldUids = 1
    MaxEvents = 3
SPECIFICATION RestartSpec
INVARIANTS
    PublicConsistent
