SPECIFICATION FairSpec
CONSTANTS
  Clients = {c1, c2}
  Keys = {k1}
  NoKey = NoKey
  Bodies = {b1, b2}
  NoHash = NoHash
  Owners = {"none", "customer"}
  MaxCrashes = 1
  MaxFailures = 2
  MaxKeyless = 1
  UniqueKeyColumn = FALSE
CHECK_DEADLOCK FALSE
INVARIANTS TypeOK OneChargePerKey AnswersMatchRequest
PROPERTIES RetriesAreAnswered
