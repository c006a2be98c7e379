SPECIFICATION Spec
CONSTANTS
  Emails = {E}
  Purchases = {t1, t2}
  Calls = {c1, c2}
  MaxStarted = 3
  MaxCustomers = 3
SYMMETRY CallSymmetry
INVARIANTS TypeOK OneCustomerPerPhone
PROPERTIES ClaimsStand TiersRise
CHECK_DEADLOCK FALSE
