SPECIFICATION FairSpec
CONSTANTS
  Txns = {t1}
  Jobs = {j1}
  Admins = {a1}
  KindOf <- Vouchers
  NoTxn = NoTxn
  NoJob = NoJob
  MaxTriggers = 1
  MaxCrashes = 1
  MaxFailures = 0
  MaxLockLosses = 0
  MaxRefunds = 2
CHECK_DEADLOCK FALSE
PROPERTIES DebtIsPaid
