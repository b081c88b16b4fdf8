SPECIFICATION FairSpec
CONSTANTS
  s1 = s1
  s2 = s2
  Sessions = {s1}
  Rooms = {rA}
  Reservations = {h1, h2}
  Intents = {i1}
  Refs = {f1}
  Txs = {t1, t2}
  NONE = NONE
  CheckIn <- MCCheckIn
  CheckOut <- MCCheckOut
  MaxCrashes = 1
  IntentsLinked = TRUE
  ExpiryWired = TRUE
  FindSeesDeleted = FALSE
PROPERTIES
  SessionsEnd
  TransactionsEnd
CHECK_DEADLOCK FALSE
