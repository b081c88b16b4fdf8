SPECIFICATION LinkedSpec
CONSTANTS
  s1 = s1
  s2 = s2
  Sessions = {s1, s2}
  Rooms = {rA, rB}
  Reservations = {h1, h2, h3}
  Intents = {i1, i2}
  Refs = {f1, f2}
  Txs = {t1, t2}
  NONE = NONE
  CheckIn <- MCCheckIn
  CheckOut <- MCCheckOutLate
  MaxCrashes = 0
  IntentsLinked = TRUE
  ExpiryWired = FALSE
  FindSeesDeleted = FALSE
SYMMETRY Symmetry
INVARIANT NoRoomConfirmedTwice
CHECK_DEADLOCK FALSE
