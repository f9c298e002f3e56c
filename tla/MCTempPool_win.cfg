SPECIFICATION Spec
CONSTANTS
  Value = {v1, v2}
  Junk = junk
  Optimize = FALSE
  NumArgRegs = 1
  Shadow = 4
  ArgCap = 2
  TempMax = 3
  MaxNest = 4
  OpLevels = 2
  MaxArgs = 2
  MaxFrames = 3
INVARIANT FullByChainOrDepth
PROPERTIES Implements
SYMMETRY Symmetry
