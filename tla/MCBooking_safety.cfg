SPECIFICATION Spec
CONSTANTS
  s1 = s1
  s2 = s2
  Sessions = {s1, s2}
  Rooms = {rA, rB}
  Reservations = {h1, h2, h3}
  Intents = {i1}
  Refs = {f1}
  Txs = {t1, t2}
  NONE = NONE
  CheckIn <- MCCheckIn
  CheckOut <- MCCheckOut
  MaxCrashes = 0
  IntentsLinked = TRUE
  ExpiryWired = TRUE
  FindSeesDeleted = FALSE
SYMMETRY Symmetry
INVARIANTS
  TypeOK
  NoDoubleBooking
  ExclusionInv
  ConfirmedIsCompleted
  OkMeansConfirmed
PROPERTIES
  ConfirmedIsFinal
  SwitchIsAtomic
CHECK_DEADLOCK FALSE
