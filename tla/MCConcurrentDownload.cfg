SPECIFICATION FairSpec
CONSTANTS
    PieceCount = 2
    PieceUnits = 2
    Block = 1
    RangeFloor = 1
    Split = 2
    MaxTries = 2
    MaxMirrorFailures = 3
    NoControl = NoControl
    Options <- MCOptions
INVARIANTS
    TypeOK
    ClaimsAreStable
    CreditIsWritten
    Accounting
PROPERTIES
    ProgressKept
    HaltEnds
CHECK_DEADLOCK FALSE
