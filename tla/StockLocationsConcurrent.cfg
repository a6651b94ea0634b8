\* Two requests in flight, every PATCH, listings, scripts and crashes.
SPECIFICATION FairSpec
CONSTANTS
  Request = {r1, r2}
  Code <- Codes
  MainCode = "MAIN"
  Keep = keep
  PatchFlag <- AnyFlag
INVARIANTS TypeOK DuplicateDefaultsExplained
PROPERTIES DuplicateDefaultsSettle PromiseKept
