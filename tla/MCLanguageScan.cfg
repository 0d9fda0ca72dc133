SPECIFICATION LSpec
CONSTANTS
  Dirs <- MCDirs
  Languages <- MCLanguages
  Statements <- MCStatements
  Assignments <- MCAssignments
  MaxUses = 2
  MaxEdits = 1
INVARIANTS CheckedIsUsed AlarmsAreRight SizesAreOwn  EditsAreLocal
CHECK_DEADLOCK FALSE
