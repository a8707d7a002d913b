SPECIFICATION FairSpec
CONSTANTS
    d = d
    e = e
    m = m
    p = p
    NoGid = NoGid
    NoResult = NoResult
    Gids = {m, p}
    MetadataOf <- MCMetadataOf
    HasFallback = {}
    StartPaused = {}
    InitialQueue <- QueueMP
    InitialMax = 1
    Limits = {1, 2}
    Unspawnable = {}
    KeepAlive = TRUE
    Ops = {"Pause", "Unpause", "Remove", "SetMaxConcurrent", "Timeout", "Shutdown", "ForceShutdown", "Signal"}
    MaxOps = 2
PROPERTIES
    FreeSlotIsUsed
    PauseStopsTask
    PayloadSettled
    HaltEnds
CHECK_DEADLOCK FALSE
