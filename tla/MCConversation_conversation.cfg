SPECIFICATION Spec
CONSTANTS
  Messages = {m1, m2}
  Workers = {w1, w2, w3}
  NONE = NONE
  MaxMessages = 2
  MaxTries = 2
  MaxCrashes = 1
  MaxSlow = 1
SYMMETRY Symmetry
INVARIANTS
  TypeOK
  OneAtATime
  OneReplyPerCrash
  ProcessedIsAnswered
PROPERTIES
  BlockedStaysBlocked
CHECK_DEADLOCK FALSE
