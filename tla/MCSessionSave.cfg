SPECIFICATION FairSpec
CONSTANTS
    a = a
    b = b
    NoGid = NoGid
    NoResult = NoResult
    NoFile = NoFile
    Gids = {a, b}
    MetadataOf <- NoMetadata
    HasFallback = {}
    StartPaused = {}
    InitialMax = 1
    KeepAlive = TRUE
    Inodes = {1, 2, 3, 4}
    Instances <- Mixed
INVARIANTS
    TypeOK
    SavesAreComplete
    WholeUnlessShared
PROPERTIES
    SavedInTime
CHECK_DEADLOCK FALSE
