\* Two requests in flight: overlapping syncs, marks and clears.
SPECIFICATION Spec
CONSTANTS
  r1 = r1
  r2 = r2
  i1 = i1
  i2 = i2
  Request = {r1, r2}
  Invoice = {i1}
  MaxTime = 4
  MinInterval = 2
  DayLength = 2
  ResetOffset = 1
  Lookback = {2}
  MinFrom = 1
  Dating = {"prompt", "ahead", "late", "undated"}
SYMMETRY Symmetric
INVARIANTS TypeOK NothingSkipped GoneStaysOut QuotaRespected
