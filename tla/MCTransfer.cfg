SPECIFICATION Spec
CONSTANTS
    SystemCount = 2
    Node = {"a", "b"}
    NodeSystem <- MCNodeSystem
    NoContext = NoContext
    MaxTime = 1
    InitialEvents = 3
    MaxEvents = 5
INVARIANTS Conserved InitializationOrder CancelTakesEffect
