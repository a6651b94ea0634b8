\* One address and one email, two tenants, scripts and restarts beside the logins.
SPECIFICATION Spec
CONSTANTS
  Ip = {"ip"}
  Email = {"e"}
  None = "none"
  MaxAttempts = 2
  Window = 2
  Second = 2
  MaxTime = 3
  Request = {r1}
  Code = {"default", "other"}
  BootCode = "default"
  BootEmail = "e"
  Db = {"db1", "db2"}
  BootDb = "db1"
  Password = {"p1", "p2"}
  BootPassword = "p1"
  Ephemeral = TRUE
  Ttl = 2
  MaxLogins = 4
  MaxScripts = 1
  MaxStarts = 2
INVARIANTS TypeOK BurstsBounded RefusedOnlyWhenFull RetryAfterIsEnough SessionsAgeOut GuessedTenantWasOnly RefusedStartExplained
CHECK_DEADLOCK FALSE
