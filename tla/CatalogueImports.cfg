\* Two imports in flight, users and crashes at any moment.
SPECIFICATION Spec
CONSTANTS
  Request = {r1, r2}
  Import = {"first", "renamed", "shelf"}
  Source <- Sources
  Fetched <- Catalogues
  Sku = {"a", "b", "c"}
  None = "none"
  Price = {0, 1}
  NoPrice = NoPrice
  MaxImports = 3
  MaxEvents = 1
SYMMETRY SlotSymmetry
INVARIANTS TypeOK ImportedIsCurrent OneGetsThrough
PROPERTIES RefusalsExplained
CHECK_DEADLOCK FALSE
