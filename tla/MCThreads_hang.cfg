CONSTANTS
    SystemCount = 1
    ThreadCount = 3
    Period = 1
    MaxRounds = 1
SPECIFICATION Spec
PROPERTIES
    Termination
