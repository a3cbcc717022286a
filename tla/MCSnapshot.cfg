SPECIFICATION Spec
CONSTANTS
  PageBytes = 8
  MaxRep = 5
  Esc = 8
  Models = {"48K", "128K", "PLUS2A"}
  Cpus <- MCCpus
  Pages <- MCPages
  Banks = {0, 2}
  Selects = {0, 2, 5, 39}
  Junk = {0, 8}
  Cuts = {20, 58, 1000}
  Edits <- MCEdits
  MaxWork = 3
INVARIANT
  LoadRestores
PROPERTIES
  SaveIsInvisible
  FailedLoadKeepsMemory
CHECK_DEADLOCK FALSE
