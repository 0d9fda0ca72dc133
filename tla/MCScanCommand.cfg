SPECIFICATION Spec
CONSTANTS
  updater = updater
  checker = checker
  Proc = {updater, checker}
  Commands <- MCCommands
  Toolsets <- MCToolsets
  ImageSites = {1, 2}
  finds <- MCFinds
  Trees <- MCTrees
  Baselines <- MCBaselines
  Inode = {i1, i2, i3}
  MaxEdits = 1
  Torn = Torn
  None = None
INVARIANTS TypeOK GateSound MissingToolIsLoud AcknowledgedStaysSo ReadsWholeBaselines PushedWasWritten
CHECK_DEADLOCK FALSE
