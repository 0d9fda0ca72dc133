SPECIFICATION Spec
CONSTANTS
  Path <- MCPath
  Above <- MCAbove
  Entries <- MCEntries
  NumLayers = 2
  Size = {1, 2, 3}
  FileCap = 2
  MaxTotal = 4
  MaxEntries = 2
  None = None
INVARIANTS TypeOK FilesAttributed DiskWithinBudget ExtractsUnion
CHECK_DEADLOCK FALSE
