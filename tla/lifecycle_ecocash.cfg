SPECIFICATION RequestSpec
CONSTANTS
  Txns = {1, 2, 3}
  PhoneOf <- SomePhones
  CorrelatorOf <- SomeCorrelators
  Handlers = {h1}
  Gateway = "ecocash"
  MaxPayments = 2
  MaxCrashes = 0
  MaxWebhooks = 1
  NoTxn = NoTxn
  NoEvent = NoEvent
CHECK_DEADLOCK FALSE
INVARIANTS CompletionsFollowCaptures
