SPECIFICATION FairSpec
CONSTANTS
  Txns = {1}
  PhoneOf <- SomePhones
  CorrelatorOf <- SomeCorrelators
  Handlers = {h1}
  Gateway = "paynow"
  MaxPayments = 1
  MaxCrashes = 1
  MaxWebhooks = 2
  NoTxn = NoTxn
  NoEvent = NoEvent
INVARIANTS CompletedMeansCaptured
PROPERTIES EventuallySettled
