SPECIFICATION Spec
CONSTANTS
  a = a
  b = b
  ma = ma
  mb = mb
  again = again
  j = j
  Msg = {ma, mb, again}
  Scan = {a, b}
  Project = {j}
  Proc = {p1, p2}
  scanOf <- MCScanOf
  projectOf <- MCProjectOf
  Limit = 2
  Signing = {p1}
  MaxCrashes = 1
  None = None
INVARIANTS TypeOK PermitsAccounted RunningIsWorkedOn
PROPERTIES OutcomeStands TasksEnd
CHECK_DEADLOCK FALSE
