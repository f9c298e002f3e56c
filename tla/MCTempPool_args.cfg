SPECIFICATION Spec
CONSTANTS
  Value = {v1, v2}
  Junk = junk
  Optimize = TRUE
  NumArgRegs = 1
  Shadow = 0
  ArgCap = 2
  TempMax = 4
  MaxNest = 3
  OpLevels = 2
  MaxArgs = 3
  MaxFrames = 2
INVARIANT EveryArgumentPassed
SYMMETRY Symmetry
