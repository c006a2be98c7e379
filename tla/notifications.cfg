SPECIFICATION Spec
CONSTANTS
  Fulfillments = {f1, f2}
  Admins = {a1}
  Conns = 2
  BatchSize = 1
  maxNotificationRetries = 2
  PushSender = TRUE
  MaxRows = 2
  MaxFailures = 2
INVARIANTS TypeOK DeliveriesCounted LiveDevicesStayEnabled
PROPERTIES SentMessagesRest FailedIsRetried
CHECK_DEADLOCK FALSE
