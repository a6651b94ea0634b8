\* One product in two locations: what its stock should count.
SPECIFICATION SyncSpec
CONSTANTS
    p1 = p1
    p2 = p2
    Product = {p1}
    Linked = {}
    Location = {main, shop}
    Caller = {s1}
    Count <- Levels
    Change <- Quantities
    Ids <- One
    Asked = {0, 1}
    Dated = FALSE
    MaxTime = 1
    MaxRows = 3
INVARIANTS EveryLocationCounts
