SPECIFICATION Spec
CONSTANTS
    q1 = q1
    q2 = q2
    Producers = {q1}
    Idle = Idle
    Commands = {"Pause", "Unpause", "SetMaxConcurrent", "AddDownload"}
    ControlCapacity = 4
    NormalCapacity = 1
    MaxSends = 3
INVARIANTS
    LastRequestWins
CHECK_DEADLOCK FALSE
