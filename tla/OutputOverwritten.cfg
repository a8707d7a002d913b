SPECIFICATION Spec
CONSTANTS
    h = h
    k = k
    m = m
    t = t
    NoEntry = NoEntry
    Https = {h, k}
    Metalinks = {}
    Torrents = {}
    Desired <- DesiredOne
    Layout <- LayoutTwo
    MaxNumber = 3
    Uris <- TwoEach
    Order <- OrderPair
    Policies <- OnlyPlain
    Found <- FoundNothing
INVARIANTS
    NothingOverwritten
CHECK_DEADLOCK FALSE
