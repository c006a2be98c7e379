SPECIFICATION FairSpec
CONSTANTS
  Txns = {t1}
  Jobs = {j1}
  Admins = {a1}
  KindOf <- Subscriptions
  NoTxn = NoTxn
  NoJob = NoJob
  MaxTriggers = 1
  MaxCrashes = 1
  MaxFailures = 3
  MaxLockLosses = 1
  MaxRefunds = 2
CHECK_DEADLOCK FALSE
PROPERTIES StampedDebtIsPaid
