SPECIFICATION Spec
CONSTANTS
  c1 = c1
  q1 = q1
  r1 = r1
  r2 = r2
  r3 = r3
  Events = {c1, q1}
  Runs = {j1, j2}
  Recipients = {r1, r2, r3}
  Workers = {w1, w2}
  NONE = NONE
  Consumed <- MCConsumed
  Type <- MCType
  To <- MCTo
  MaxFaults = 2
SYMMETRY Symmetry
INVARIANTS
  NoticesTypeOK
  SendsPerFault
  RowsAreTrue
  NothingIsLost
CHECK_DEADLOCK FALSE
