CONSTANTS
    SystemCount = 2
    ThreadCount = 3
    Period = 2
    MaxRounds = 2
SPECIFICATION Spec
INVARIANTS
    TypeOK
    StageExclusive
    Lockstep
    IndexBounded
PROPERTIES
    NoLateProcessing
    StagesSpec
    Termination
