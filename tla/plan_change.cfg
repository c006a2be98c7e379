SPECIFICATION Spec
CONSTANTS
  p1 = p1
  p2 = p2
  Subs = {s1, s2}
  Plans = {p1, p2}
  Txns = {t1}
  Jobs = {j1, j2}
  Requests = {r1, r2}
  NoPlan = NoPlan
  NoSub = NoSub
  NoTxn = NoTxn
  Price <- Prices
  Period <- Periods
  Lossy <- LossyAmounts
  MaxChanges = 2
  MaxFailures = 1
  MaxRunning = 2
SYMMETRY Symmetric
INVARIANTS TypeOK ChangesArePaid OnePurchasePerPayment SessionFollowsPlan
PROPERTIES UnderpaidIsExplained
CHECK_DEADLOCK FALSE
