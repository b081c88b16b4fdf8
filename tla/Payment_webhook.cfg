SPECIFICATION PaymentFairSpec
CONSTANTS
  Intents = {i1}
  Hooks = {h1, h2}
  Polls = {p1}
  NONE = NONE
  ConfirmServed = FALSE
  MaxDeclines = 1
  MaxCrashes = 1
INVARIANTS
  SucceededIsCharged
  ChargeIsRecorded
  OneHandlerPerEvent
PROPERTIES
  EventsSettle
  ChargeIsTried
CHECK_DEADLOCK FALSE
