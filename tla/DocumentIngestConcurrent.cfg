\* Two ingests in flight, edits and faults at any moment.
SPECIFICATION Spec
CONSTANTS
  r1 = r1
  r2 = r2
  Request = {r1, r2}
  Document = {"invoice", "delivery"}
  Ref = {"A", "B"}
  NoRef = "none"
  Sent <- SharedDocs
  Catalogue <- UnpricedCatalog
  Price = {0}
  NoPrice = NoPrice
  EditsOverlap = TRUE
  FaultyCreate = TRUE
  MaxBatches = 3
SYMMETRY SlotSymmetry
INVARIANTS TypeOK BookedOncePerOverlap
