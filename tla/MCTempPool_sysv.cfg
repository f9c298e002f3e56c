SPECIFICATION Spec
CONSTANTS
  Value = {v1, v2}
  Junk = junk
  Optimize = TRUE
  NumArgRegs = 2
  Shadow = 0
  ArgCap = 3
  TempMax = 8
  MaxNest = 4
  OpLevels = 2
  MaxArgs = 3
  MaxFrames = 3
INVARIANTS TypeOK OperandsIntact CallAligned StackAgrees NothingLeft
PROPERTIES ConstructsBalanced Implements
SYMMETRY Symmetry
