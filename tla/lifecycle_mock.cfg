SPECIFICATION Spec
CONSTANTS
  Txns = {1}
  PhoneOf <- SomePhones
  CorrelatorOf <- SomeCorrelators
  Handlers = {h1, h2}
  Gateway = "mock"
  MaxPayments = 1
  MaxCrashes = 1
  MaxWebhooks = 2
  NoTxn = NoTxn
  NoEvent = NoEvent
SYMMETRY HandlerSymmetry
INVARIANTS TypeOK OneTriggerPerCapture CompletionsAreSeen
PROPERTIES ImplementsRow
