SPECIFICATION FairSpec
CONSTANTS
    q1 = q1
    q2 = q2
    Producers = {q1, q2}
    Idle = Idle
    Commands = {"Pause", "Unpause", "SetMaxConcurrent", "AddDownload"}
    ControlCapacity = 2
    NormalCapacity = 1
    MaxSends = 2
INVARIANTS
    TypeOK
    CountsExact
    OwedIsComing
PROPERTIES
    Delivered
CHECK_DEADLOCK FALSE
