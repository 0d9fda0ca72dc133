SPECIFICATION Spec
CONSTANTS
  Archive <- MCArchive
  Corrupt = {"corrupt"}
  Contents <- MCContents
  Depths <- MCDepths
  DefaultDepth = 2
  MaxBytes = 6
  MaxEntries = 5
  MaxEntryBytes = 2
INVARIANTS TypeOK CoverageFlagged
CHECK_DEADLOCK FALSE
