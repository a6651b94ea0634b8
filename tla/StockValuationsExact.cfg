\* One request at a time, rows dated by the server, prices that change, a location added.
SPECIFICATION Spec
CONSTANTS
    Product = {p1}
    Location = {main, shop}
    FirstOnes = {main}
    Slot = {s1}
    Count <- Levels
    Change <- Quantities
    Price = {1, 3}
    Dated = FALSE
    PricesChange = TRUE
    DayLength = 2
    Window = {2}
    MaxTime = 3
    MaxRows = 2
INVARIANTS ClosedDaysAreExact
