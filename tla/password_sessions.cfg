SPECIFICATION Spec
CONSTANTS
  identityTokenTTL = 1
  resetFreshness = 0
  MaxClock = 3
  MaxTokens = 1
  MaxRevocations = 1
  MaxKeys = 2
  Owner = l1
  Logins = {l1, l2}
  Setters = {s1}
  passwordLockAfter = 3
  MaxUncounted = 1
  MaxSets = 1
  MaxFailures = 1
INVARIANTS TypeOK RevokedTokensAreRefused GuessesBeforeLock
PROPERTIES AcceptanceEndsOnce OwnerGetsIn
CHECK_DEADLOCK FALSE
