SPECIFICATION Spec
CONSTANTS
  Procs = {p1}
  Chunks = 3
  MaxBuilds = 3
  Windows = TRUE
  None = none
INVARIANTS TypeOK OutputWhole SuccessMeansBuilt TmpRemoved
PROPERTIES OnlyRenamed BuildsEnd
CHECK_DEADLOCK FALSE
