SPECIFICATION Spec
CONSTANTS
  Intents = {i1}
  Hooks = {h1}
  Polls = {p1, p2}
  Rooms = {r1, r2}
  NONE = NONE
  ConfirmServed = TRUE
  MaxDeclines = 1
  MaxCrashes = 1
SYMMETRY Symmetry
INVARIANTS
  CheckoutTypeOK
  NoFreeRooms
  OneConfirmation
  FailureIsReal
  ShownIsReserved
PROPERTIES
  ImplementsPurchase
CHECK_DEADLOCK FALSE
