SPECIFICATION Spec
CONSTANTS
    d = d
    e = e
    m = m
    p = p
    NoGid = NoGid
    NoResult = NoResult
    Gids = {d}
    MetadataOf <- MCMetadataOf
    HasFallback = {}
    StartPaused = {}
    InitialQueue <- QueueD
    InitialMax = 1
    Limits = {1}
    Unspawnable = {}
    KeepAlive = TRUE
    Ops = {"ChangeOption"}
    MaxOps = 1
INVARIANTS
    RestartResumes
CHECK_DEADLOCK FALSE
