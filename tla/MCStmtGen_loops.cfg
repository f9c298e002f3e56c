SPECIFICATION Spec
CONSTANTS
  Kinds <- EveryLoop
  Conds = {"zero", "expr", "none"}
  Clauses <- InitOrStep
  MaxNodes = 5
  MaxNest = 3
INVARIANTS TypeOK StacksDrained NestingCaught
PROPERTIES RunsAsWritten KeepsEvaluating
