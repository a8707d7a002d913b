SPECIFICATION Spec
CONSTANTS
    d = d
    e = e
    m = m
    p = p
    NoGid = NoGid
    NoResult = NoResult
    Gids = {d, m, p}
    MetadataOf <- MCMetadataOf
    HasFallback = {p}
    StartPaused = {p}
    InitialQueue <- QueueMP
    InitialMax = 0
    Limits = {1}
    Unspawnable = {p}
    KeepAlive = FALSE
    Ops = {"Add", "Pause", "Unpause", "Remove", "PauseAll", "UnpauseAll", "SetMaxConcurrent",
           "ChangeOption", "Shutdown", "ForceShutdown", "Signal", "Timeout", "Handle"}
    MaxOps = 2
INVARIANTS
    TypeOK
    OneHome
    Accounted
    ExitedIsQuiet
PROPERTIES
    ImplementsLifecycle
CHECK_DEADLOCK FALSE
