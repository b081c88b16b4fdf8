SPECIFICATION Spec
CONSTANTS
  s1 = s1
  s2 = s2
  Sessions = {s1, s2}
  Rooms = {rA, rB}
  Reservations = {h1, h2, h3}
  Intents = {i1}
  Refs = {f1}
  Txs = {t1}
  NONE = NONE
  CheckIn <- MCCheckIn
  CheckOut <- MCCheckOut
  MaxCrashes = 1
  IntentsLinked = TRUE
  ExpiryWired = TRUE
  FindSeesDeleted = FALSE
SYMMETRY Symmetry
PROPERTY ImplementsLedger
CHECK_DEADLOCK FALSE
