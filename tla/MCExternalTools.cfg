SPECIFICATION Spec
CONSTANTS
  Installer = {a, b}
  Scan = {s}
  File = {f, g}
  Forced = {b}
  Places <- MCPlaces
  ToolsDir = "tools"
  Workers = 2
  First <- MCFirst
  Absent = Absent
  Torn = Torn
  None = None
INVARIANTS TypeOK OnlyVerified NeverSilent ToldTheTruth SuccessMeansInstalled
PROPERTIES OpenGrepReplaced ScansEnd
CHECK_DEADLOCK FALSE
