\* One request at a time, any write between its queries, crashes and refusals
\* anywhere, rows dated by the server.
SPECIFICATION SyncSpec
CONSTANTS
    p1 = p1
    p2 = p2
    Product = {p1, p2}
    Linked = {p1, p2}
    Location = {main, shop}
    Caller = {s1}
    Count <- Levels
    Change <- Quantities
    Ids <- Both
    Asked = {0}
    Dated = FALSE
    MaxTime = 1
    MaxRows = 2
INVARIANTS SyncTypeOK SyncedStockIsCurrent PastStaysTold
SYMMETRY ProductSymmetry
