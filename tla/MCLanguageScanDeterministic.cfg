SPECIFICATION LSpec
CONSTANTS
  Dirs <- MCDirs
  Languages <- MCLanguages
  Statements <- MCStatements
  Assignments <- MCAssignments
  MaxUses = 2
  MaxEdits = 1
INVARIANT OutputIsDeterministic
CHECK_DEADLOCK FALSE
