SPECIFICATION Spec
CONSTANTS
  Procs = {p1, p2}
  Chunks = 2
  MaxBuilds = 2
  Windows = FALSE
  None = none
INVARIANT OutputWhole
CHECK_DEADLOCK FALSE
