SPECIFICATION TrialsFairSpec
CONSTANTS
  admin = admin
  Properties = {p1}
  Processes = {t1, t2}
  TrialDays = 2
  Events <- MCEvents
  Runs = {}
  Recipients = {admin}
  Workers = {w1}
  NONE = NONE
  Consumed = {}
  Type <- MCType
  To <- MCTo
  MaxFaults = 1
INVARIANTS
  TrialsTypeOK
  SuspendedWasWarned
  AccountsHaveProperties
PROPERTIES
  TrialsEnd
CHECK_DEADLOCK FALSE
