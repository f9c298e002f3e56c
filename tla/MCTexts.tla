------------------------------- MODULE MCTexts -------------------------------
(* Every short text of every subject, for TLC.                              *)
EXTENDS Lexer, Arith, Linkage, StructLayout, MycVars

CONSTANTS
  MaxSum,                \* bound: the items of an expression
  MaxUnit,               \* bound: the declarations of a file
  MaxStructs,            \* bound: the items of the struct definitions
  MaxMyc,                \* bound: the items of a toy program
  MaxChars               \* bound: subject -> the characters of a source

Write(item) == text' = Append(text, item) /\ UNCHANGED subject

(* A source with literals begins with one. *)
WriteChars ==
  /\ subject \in DOMAIN Alphabets /\ Len(text) < MaxChars[subject]
  /\ LexNext
  /\ subject = "quotes" => Head(text') \in {"'", "\""}
  /\ UNCHANGED <<operands, uvars, lvars, mvars>>

(* The passes that take a step an item keep the item themselves. *)
WriteItem(s, max) == subject = s /\ Len(text) < max /\ Write("item")

WriteSum == WriteItem("sum", MaxSum) /\ ArithNext /\ UNCHANGED <<uvars, lvars, mvars>>
WriteUnit == WriteItem("unit", MaxUnit) /\ UnitNext /\ UNCHANGED <<operands, lvars, mvars>>
WriteStructs ==
  /\ WriteItem("structs", MaxStructs) /\ ~declared.errors
  /\ LayoutNext /\ UNCHANGED <<operands, uvars, mvars>>
WriteMyc == WriteItem("myc", MaxMyc) /\ MycNext /\ UNCHANGED <<operands, uvars, lvars>>

Init ==
  /\ text = <<>> /\ subject \in {"sum", "unit", "structs", "myc"} \cup DOMAIN Alphabets
  /\ ArithInit /\ UnitInit /\ LayoutInit /\ MycInit
Next == WriteSum \/ WriteUnit \/ WriteStructs \/ WriteMyc \/ WriteChars
Spec == Init /\ [][Next]_<<tvars, operands, uvars, lvars, mvars>>

Characters ==
  [numbers |-> {"0", "1", "7", "8", "x", "f", "u", "l", " "},
   quotes |-> {"'", "\"", "\\", "x", "n", "0", "7", "f", "NL"},
   operators |-> {"+", "-", "*", "/", "=", "<", ">", "&", "|", "!", "^", "%", "~", "(", ".", "@"},
   comments |-> {"/", "*", "#", "NL", "0", "'", " "}]
Lengths == [numbers |-> 5, quotes |-> 6, operators |-> 4, comments |-> 6]
NoChars == [s \in DOMAIN Characters |-> 0]
Ascii ==
  "\"" :> 34 @@ "'" :> 39 @@ "0" :> 48 @@ "7" :> 55 @@ "\\" :> 92 @@ "f" :> 102 @@ "n" :> 110 @@ "x" :> 120
  @@ [c \in UNION Range(Characters) |-> 32]

Operators == {Item(op) : op \in BinaryOps \cup {"?:", "x", "u"}} \cup {LitItem(v) : v \in {-8, -1, 5}}
Pairs4 == [x : {-8, -1, 0, 1, 6}, u : {-8, -1, 0, 3}]
(* (0 ? u : -1) < 0, as the condition of another ?:. *)
Disguise == {Item("u"), Item("?:"), Item("<"), LitItem(0), LitItem(-1)}

AllDeclarations ==
  {Declaration(kind, name, 0, {}) : kind \in {"variable"}, name \in {"main", "f", "putchar"}}
  \cup {Declaration(kind, name, params, {}) :
          kind \in {"prototype", "extern", "definition"},
          name \in {"main", "f", "putchar", "print_int"}, params \in 0..1}
  \cup {Declaration("definition", "main", 0, {Call(name, args)}) :
          name \in {"f", "main", "putchar", "print_int", "print_endl"}, args \in 0..2}
==============================================================================
