SPECIFICATION Spec
CONSTANTS
  Kinds <- SwitchInBlock
  Conds = {"zero", "expr"}
  Clauses <- InitOrStep
  MaxNodes = 4
  MaxNest = 4
INVARIANT EveryTargetDefined
