SPECIFICATION LinkedSpec
CONSTANTS
  s1 = s1
  s2 = s2
  Sessions = {s1, s2}
  Rooms = {rA, rB}
  Reservations = {h1, h2}
  Intents = {i1, i2}
  Refs = {f1, f2}
  Txs = {t1, t2}
  NONE = NONE
  CheckIn <- MCCheckIn
  CheckOut <- MCCheckOut
  MaxCrashes = 1
  IntentsLinked = TRUE
  ExpiryWired = FALSE
  FindSeesDeleted = TRUE
SYMMETRY Symmetry
INVARIANTS
  ReferencesUnique
CHECK_DEADLOCK FALSE
