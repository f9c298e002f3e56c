SPECIFICATION Spec
CONSTANTS
  Idents = {"x", "y", "f", "S"}
  Value <- Number
  LLong = 64
  IntHalf = 16
  MaxNest = 4
  MaxDims = 2
  Rules <- Grammar
  Budget = 6
  DamageLength = 15
INVARIANTS ReadsAsC LimitIsNesting FailsLoudly DeclaredTypes
