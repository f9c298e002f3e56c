SPECIFICATION Spec
CONSTANTS
  Bits = 4
  Half = 8
  Imm = 4
  Trap = trap
  Declines = declines
  Open = open
  Samples <- Pairs4
  Items <- Operators
  MaxSum = 5
  Declarations <- AllDeclarations
  MaxUnit = 3
  Tags = {"S", "T"}
  MaxStructs = 8
  MaxVars = 2
  Names = {"a", "b", "c"}
  MaxMyc = 8
  Alphabets <- Characters
  Code <- Ascii
  LLongMax = 77
  MaxChars <- Lengths
INVARIANTS OptimizedSame ComputesAsC UnitLinks LayoutSound SaysWhatItIs LexesAsC
CHECK_DEADLOCK FALSE
