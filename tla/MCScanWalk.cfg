SPECIFICATION Spec
CONSTANTS
  Tree <- MCTree
  Options <- MCOptions
  Scanner <- MCScanner
  NoScanner = NoScanner
  Universals <- MCUniversals
  PassOf <- MCPassOf
  Emits <- MCEmits
  FastMax = 3
  NumCPU = 4
  PoolCap = 2
INVARIANTS TypeOK OneOwner CollectedComplete
PROPERTIES OthersStillScanned ImplementsSequentialScan
CHECK_DEADLOCK FALSE
