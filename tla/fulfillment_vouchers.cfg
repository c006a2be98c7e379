SPECIFICATION Spec
CONSTANTS
  Txns = {t1}
  Jobs = {j1, j2}
  Admins = {a1, a2}
  KindOf <- Vouchers
  NoTxn = NoTxn
  NoJob = NoJob
  MaxTriggers = 2
  MaxCrashes = 1
  MaxFailures = 2
  MaxLockLosses = 0
  MaxRefunds = 4
CHECK_DEADLOCK FALSE
SYMMETRY SlotSymmetry
INVARIANTS TypeOK OneVoucherPerPayment RefundsAreExplained
 
