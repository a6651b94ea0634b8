\* Two tenants, two requests in flight, logins, logouts, restarts at any moment.
SPECIFICATION Spec
CONSTANTS
  Request = {r1, r2}
  Tenant = {t1, t2}
  a1 = a1
  a2 = a2
  None = None
  Reloaded <- FromStore
  Pages = 2
  MaxRequests = 2
  MaxSets = 2
  MaxStarts = 1
SYMMETRY Symmetry
INVARIANTS TypeOK AnsweredIsStored UsesOwnLatest PagesOfOwnAccount NoPageWithoutSession
CHECK_DEADLOCK FALSE
