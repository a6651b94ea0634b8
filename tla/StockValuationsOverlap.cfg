\* Two requests in flight, rows dated by clients too, prices that change.
SPECIFICATION Spec
CONSTANTS
    Product = {p1}
    Location = {main, shop}
    FirstOnes = {main, shop}
    Slot = {s1, s2}
    Count <- Levels
    Change <- Quantities
    Price = {1, 3}
    Dated = TRUE
    PricesChange = TRUE
    DayLength = 1
    Window = {1, 2}
    MaxTime = 1
    MaxRows = 1
INVARIANTS TypeOK TotalsAddUp
PROPERTIES StoredIsFinal
SYMMETRY Alike
