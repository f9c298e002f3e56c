SPECIFICATION Spec
CONSTANTS
  Kinds <- EverySwitch
  Conds = {"zero", "nonzero", "expr"}
  Clauses <- InitOrStep
  MaxNodes = 5
  MaxNest = 4
INVARIANTS LabelsUnique OnlyDeadCasesMissing NeverRunsOff SilentMeansReturns
PROPERTIES RunsAsWritten
