CONSTANTS
    NodeCount = 4
    ChannelCount = 3
    MaxDelay = 1
    m_maxThreads = 3
SPECIFICATION Spec
INVARIANTS
    SystemsAreComponents
PROPERTIES
    HalfIsCut
    Termination
