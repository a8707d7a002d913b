SPECIFICATION FairSpec
CONSTANTS
    h = h
    k = k
    m = m
    t = t
    NoEntry = NoEntry
    Https = {h}
    Metalinks = {m}
    Torrents = {t}
    Desired <- DesiredOne
    Layout <- LayoutTwo
    MaxNumber = 3
    Uris <- TwoForMetalinks
    Order <- OrderThree
    Policies <- Corners
    Found <- FoundOne
INVARIANTS
    TypeOK
    Exclusive
    ClaimsMatch
    HaltForgets
PROPERTIES
    AllocationAnswered
CHECK_DEADLOCK FALSE
