SPECIFICATION FairSpec
CONSTANTS
    w1 = w1
    w2 = w2
    w3 = w3
    Ids = {w1, w2, w3}
    MaxAttempts <- MCAttempts
    MaxInFlight = 2
    MaxTime = 1
    U32Max = 2
    SequenceSpace = 2
INVARIANTS
    TypeOK
    PlacesAndLeases
    BudgetKept
PROPERTIES
    QueueOrderKept
    RetryComesBack
    ImplementsLifecycle
