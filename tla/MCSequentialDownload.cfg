SPECIFICATION Spec
CONSTANTS
    Length = 3
    SaveInterval = 2
    MaxAttempts = 2
    MaxRuns = 2
INVARIANTS
    TypeOK
    CheckpointIsStable
    PrefixIsData
    DoneIsWhole
    BoundedLoss
PROPERTIES
    OnlyRetryForgets
CHECK_DEADLOCK FALSE
