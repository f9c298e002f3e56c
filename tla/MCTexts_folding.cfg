SPECIFICATION Spec
CONSTANTS
  Bits = 4
  Half = 8
  Imm = 4
  Trap = trap
  Declines = declines
  Open = open
  Samples <- Pairs4
  Items <- Disguise
  MaxSum = 9
  Declarations <- AllDeclarations
  MaxUnit = 0
  Tags = {"S", "T"}
  MaxStructs = 0
  MaxVars = 2
  Names = {"a", "b", "c"}
  MaxMyc = 0
  Alphabets <- Characters
  Code <- Ascii
  LLongMax = 77
  MaxChars <- NoChars
INVARIANT FoldedAlike
CHECK_DEADLOCK FALSE
