SPECIFICATION Spec
CONSTANTS
    Length = 2
    SaveInterval = 2
    MaxAttempts = 1
    MaxRuns = 1
INVARIANTS
    PauseInterruptsRead
CHECK_DEADLOCK FALSE
