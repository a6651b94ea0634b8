\* One request at a time, edits between requests, crashes anywhere.
SPECIFICATION Spec
CONSTANTS
  r1 = r1
  r2 = r2
  Request = {r1}
  Document = {"invoice", "delivery", "credit", "scrap"}
  Ref = {"A", "B"}
  NoRef = "none"
  Sent <- SerialDocs
  Catalogue <- Catalog
  Price = {0, 1}
  NoPrice = NoPrice
  EditsOverlap = FALSE
  FaultyCreate = FALSE
  MaxBatches = 1
INVARIANTS BatchIsComplete BookedOnLinkedProduct
PROPERTIES SalePriceProtects
