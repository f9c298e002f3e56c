-------------------------------- MODULE Arith --------------------------------
(***************************************************************************)
(* What becomes of an expression of integers: semantic.c types it and folds  *)
(* it where it is constant, codegen.c chooses the instructions by the types, *)
(* and those compute.                                                       *)
(*                                                                         *)
(* check_expr() comes to a node after its operands, and so do fold_const()   *)
(* and gen_expr().  Each takes from an operand a result and nothing else, so  *)
(* that an expression is here what the passes have made of it; one arrives    *)
(* in postfix order: literals, x of type int, u of type unsigned int, the     *)
(* binary operators, and "?:".                                              *)
(***************************************************************************)
EXTENDS Words, Sequences

CONSTANTS
  Items,     \* bound: the operands and operators an expression is made of
  Imm,       \* the literals that fit an instruction, -Imm..Imm-1 (2^31)
  Samples,   \* bound: the values x and u are given together
  Declines,  \* fold_const() returns 0
  Open       \* C leaves the result undefined

VARIABLE operands   \* the expressions that wait for an operator

Bitwise == {"&", "|", "^"}
Arithmetics == {"+", "-", "*", "/", "%", "<<", ">>", "==", "!="} \cup Order \cup Bitwise
BinaryOps == Arithmetics \cup {"&&", "||", ","}

Item(op) == [op |-> op, v |-> 0]
LitItem(v) == [op |-> "lit", v |-> v]

ASSUME ArithAssumption ==
  /\ Imm \in 1..Half
  /\ Samples \subseteq [x : Word, u : Word]
  /\ Items \subseteq {Item(op) : op \in BinaryOps \cup {"?:", "x", "u"}} \cup {LitItem(v) : v \in Word}
  /\ Trap \notin Word /\ Declines \notin Word /\ Open \notin Word /\ Trap /= Declines

(* What the passes know of a checked expression: is its type unsigned int; is *)
(* it a literal; what fold_const() says of it; what running it yields, for    *)
(* each values of x and u.                                                  *)
Checked(uns, literal, const, value) ==
  [uns |-> uns, literal |-> literal, const |-> const, value |-> value]
Lit(v) == Checked(FALSE, TRUE, v, [s \in Samples |-> v])

(***************************************************************************)
(* semantic.c.                                                             *)
(***************************************************************************)
(* What the compiler's own machine does with two operands in long long. *)
Host(op, l, r) ==
  CASE op = "+" -> Wrap(l + r)
    [] op = "-" -> Wrap(l - r)
    [] op = "*" -> Wrap(l * r)
    [] op = "/" -> IF r = 0 THEN Declines ELSE Idiv(l, r)
    [] op = "%" -> IF r = 0 THEN Declines ELSE Irem(l, r)
    [] op = "<<" -> Shl(l, r)
    [] op = ">>" -> Sar(l, r)
    [] op = "==" -> Truth(l = r)   [] op = "!=" -> Truth(l /= r)
    [] op = "<" -> Truth(l < r)    [] op = "<=" -> Truth(l <= r)
    [] op = ">" -> Truth(l > r)    [] op = ">=" -> Truth(l >= r)
    [] op \in Bitwise -> Bitwise2(op, l, r)
    [] op = "&&" -> Truth(l /= 0 /\ r /= 0)
    [] op = "||" -> Truth(l /= 0 \/ r /= 0)
    [] OTHER -> Declines

(* fold_const(): a word, Declines, or the trap of the compiler itself. *)
FoldConst(op, kids) ==
  LET first == kids[1].const
      second == kids[2].const
  IN  CASE op = "?:" -> IF first \in {Declines, Trap} THEN first
                        ELSE kids[IF first /= 0 THEN 2 ELSE 3].const
        [] op \in BinaryOps -> IF first \in {Declines, Trap} THEN first
                              ELSE IF second \in {Declines, Trap} THEN second
                              ELSE Host(op, first, second)

(* The type check_expr() gives: is it unsigned int? *)
Unsigned(op, kids) ==
  CASE op \in {"+", "-"} -> FALSE
    [] op \in {",", "?:"} -> kids[2].uns
    [] op \in BinaryOps \ {"+", "-", ","} -> kids[1].uns \/ kids[2].uns

(* fold_literal(): the operands it looks at for unsigned are left and right.  *)
Folds(op, kids) ==
  /\ ~\E i \in (IF op = "?:" THEN {2, 3} ELSE {1, 2}) : kids[i].uns
  /\ FoldConst(op, kids) /= Declines

(***************************************************************************)
(* codegen.c.                                                              *)
(***************************************************************************)
(* Mutant: the shift to the right is always sarq. *)
EmitBinopReg_AlwaysSar(op, uns, l, r) ==
  CASE op \in {"+", "-", "*"} \cup Bitwise -> Host(op, l, r)
    [] op = "/" -> IF uns THEN Udiv(l, r) ELSE Idiv(l, r)
    [] op = "%" -> IF uns THEN Urem(l, r) ELSE Irem(l, r)
    [] op = "<<" -> Shl(l, r)
    [] op = ">>" -> Sar(l, r)
    [] op \in Compares -> Truth(Set(Condition(op, uns), Flags(l, r)))

(* emit_binop_reg(): the left operand in a register, the right one in %rax. *)
EmitBinopReg(op, uns, l, r) ==
  CASE op \in {"+", "-", "*"} \cup Bitwise -> Host(op, l, r)
    [] op = "/" -> IF uns THEN Udiv(l, r) ELSE Idiv(l, r)
    [] op = "%" -> IF uns THEN Urem(l, r) ELSE Irem(l, r)
    [] op = "<<" -> Shl(l, r)
    [] op = ">>" -> IF uns THEN Shr(l, r) ELSE Sar(l, r)
    [] op \in Compares -> Truth(Set(Condition(op, uns), Flags(l, r)))

(* gen_binary_imm(): which literal right operands go into the instruction ... *)
Encodes(op, v) ==
  CASE op \in {"/", "%", "&&", "||", ","} -> FALSE
    [] op \in {"<<", ">>"} -> v \in 0..(Bits - 1)
    [] OTHER -> v \in (-Imm)..(Imm - 1)

(* Mutant: the literal's type decides how the operands compare. *)
GenBinaryImm_Signed(op, uns, l, v) == EmitBinopReg(op, FALSE, l, v)

(* ... and what the instruction with it does: the same operation. *)
GenBinaryImm(op, uns, l, v) ==
  CASE op = ">>" -> IF uns THEN Shr(l, v) ELSE Sar(l, v)
    [] op \in Compares -> Truth(Set(Condition(op, uns), Flags(l, v)))
    [] OTHER -> Host(op, l, v)

(* gen_expr(), run for one sample; a trap ends it. *)
Run(op, kids, optimize, s) ==
  LET left == kids[1].value[s]
      right == kids[2].value[s]
      uns == kids[1].uns \/ kids[2].uns
      second == IF right = Trap THEN Trap ELSE Truth(right /= 0)
  IN  IF left = Trap THEN Trap ELSE
      CASE op = "&&" -> IF left = 0 THEN 0 ELSE second
        [] op = "||" -> IF left /= 0 THEN 1 ELSE second
        [] op = "?:" -> kids[IF left /= 0 THEN 2 ELSE 3].value[s]
        [] op = "," -> right
        [] op \in Arithmetics ->
             IF right = Trap THEN Trap
             ELSE IF optimize /\ kids[2].literal /\ Encodes(op, kids[2].const)
             THEN GenBinaryImm(op, uns, left, right)
             ELSE EmitBinopReg(op, uns, left, right)

(* check_expr() of an operator, with or without g_optimize. *)
CheckExpr(op, kids, optimize) ==
  IF optimize /\ Folds(op, kids) THEN Lit(FoldConst(op, kids))
  ELSE Checked(Unsigned(op, kids), FALSE, FoldConst(op, kids),
               [s \in Samples |-> Run(op, kids, optimize, s)])

CheckLeaf(item) ==
  CASE item.op = "lit" -> Lit(item.v)
    [] item.op = "x" -> Checked(FALSE, FALSE, Declines, [s \in Samples |-> s.x])
    [] item.op = "u" -> Checked(TRUE, FALSE, Declines, [s \in Samples |-> s.u])

(***************************************************************************)
(* The C language, with int and unsigned int of one word (README.md 145).    *)
(***************************************************************************)
CUnsigned(op, kids) ==
  CASE op = "," -> kids[2].cuns
    [] op = "?:" -> kids[2].cuns \/ kids[3].cuns
    [] op \in {"<<", ">>"} -> kids[1].cuns
    [] op \in Compares \cup {"&&", "||"} -> FALSE
    [] op \in Bitwise \cup {"+", "-", "*", "/", "%"} -> kids[1].cuns \/ kids[2].cuns

Result(n, uns) == IF ~uns /\ n \notin Word THEN Open ELSE Wrap(n)

CApply(op, uns, l, r) ==
  LET a == AsTyped(l, uns)
      b == AsTyped(r, uns)
  IN  CASE op = "+" -> Result(a + b, uns)
        [] op = "-" -> Result(a - b, uns)
        [] op = "*" -> Result(a * b, uns)
        [] op = "/" -> IF b = 0 THEN Open ELSE Result(Toward0(a, b), uns)
        [] op = "%" -> IF b = 0 \/ Result(Toward0(a, b), uns) = Open THEN Open
                       ELSE Result(a - b * Toward0(a, b), uns)
        [] op = "<<" -> IF r \in 0..(Bits - 1) /\ (uns \/ l >= 0) THEN Result(a * 2^r, uns)
                        ELSE Open
        [] op = ">>" -> IF r \in 0..(Bits - 1) THEN Wrap(a \div 2^r) ELSE Open
        [] op = "<" -> Truth(a < b)    [] op = "<=" -> Truth(a <= b)
        [] op = ">" -> Truth(a > b)    [] op = ">=" -> Truth(a >= b)
        [] OTHER -> Host(op, l, r)

(* The type the operands of an operator are converted to. *)
COperands(op, kids) == kids[1].cuns \/ (op \notin {"<<", ">>"} /\ kids[2].cuns)

Meaning(op, kids, s) ==
  LET left == kids[1].meaning[s]
      right == kids[2].meaning[s]
      second == IF right = Open THEN Open ELSE Truth(right /= 0)
  IN  IF left = Open THEN Open ELSE
      CASE op = "&&" -> IF left = 0 THEN 0 ELSE second
        [] op = "||" -> IF left /= 0 THEN 1 ELSE second
        [] op = "?:" -> kids[IF left /= 0 THEN 2 ELSE 3].meaning[s]
        [] op = "," -> right
        [] op \in Arithmetics -> IF right = Open THEN Open
                                ELSE CApply(op, COperands(op, kids), left, right)

(***************************************************************************)
(* An expression: both ways to compile it, and what C says of it.           *)
(***************************************************************************)
(* C gives every operand in it the type that check_expr() does. *)
TypedBelow(kids) == \A i \in DOMAIN kids : kids[i].typed /\ kids[i].plain.uns = kids[i].cuns

(* The compiler itself ends in a trap where it folds the least word divided    *)
(* by -1, whether or not that would ever be computed.                        *)
Crashes(op, optimized, kids) ==
  /\ op \in {"/", "%"} /\ optimized = Lit(Trap)
  /\ kids[1].optimized.const = Lowest /\ kids[2].optimized.const = -1

(* fold_const() sees an int in a ?: that is unsigned, as in (0 ? u : -5): the  *)
(* ?: stays, but fold_const() of an expression around it goes on from there   *)
(* with signed arithmetic, where nothing between them is an operand of that    *)
(* expression.                                                              *)
Disguises(op, optimized) == op = "?:" /\ optimized.uns /\ optimized.const /= Declines

Leaf(item) ==
  [plain |-> CheckLeaf(item), optimized |-> CheckLeaf(item), op |-> item.op,
   cuns |-> item.op = "u", meaning |-> CheckLeaf(item).value,
   typed |-> TRUE, crashes |-> FALSE, disguises |-> FALSE]

Operator(op, kids) ==
  LET plain == CheckExpr(op, [i \in DOMAIN kids |-> kids[i].plain], FALSE)
      optimized == CheckExpr(op, [i \in DOMAIN kids |-> kids[i].optimized], TRUE)
  IN  [plain |-> plain, optimized |-> optimized, op |-> op,
       cuns |-> CUnsigned(op, kids), meaning |-> [s \in Samples |-> Meaning(op, kids, s)],
       typed |-> TypedBelow(kids),
       crashes |-> Crashes(op, optimized, kids) \/ \E i \in DOMAIN kids : kids[i].crashes,
       disguises |-> Disguises(op, optimized) \/ \E i \in DOMAIN kids : kids[i].disguises]

Arity(op) == CASE op \in BinaryOps -> 2 [] op = "?:" -> 3 [] op \in {"lit", "x", "u"} -> 0

(* An operand is put on the stack, an operator takes its operands from it. *)
ReadItem(item) ==
  LET below == Len(operands) - Arity(item.op)
      kids == SubSeq(operands, below + 1, Len(operands))
  IN  /\ below >= 0
      /\ operands' = Append(SubSeq(operands, 1, below),
                            IF Arity(item.op) = 0 THEN Leaf(item) ELSE Operator(item.op, kids))

ArithInit == operands = <<>>
ArithNext == \E item \in Items : ReadItem(item)
ArithSpec == ArithInit /\ [][ArithNext]_operands

(***************************************************************************)
(* Properties.                                                             *)
(***************************************************************************)

(* The optimizations change no value and no trap: what fold_const() computes  *)
(* in the compiler, and what an instruction with a literal in it computes,    *)
(* are what the general instructions compute ("must agree exactly with the    *)
(* folding done in semantic.c", codegen.c 731; "a trap stays a trap",         *)
(* semantic.c 305).  There are two exceptions: the compiler may crash, and an  *)
(* unsigned ?: may pass for the int it has in one arm.                       *)
OptimizedSame ==
  \A i \in DOMAIN operands :
    operands[i].crashes \/ operands[i].disguises
    \/ operands[i].optimized.value = operands[i].plain.value

(* "unsigned operands are left alone: fold_const() works in signed            *)
(* arithmetic" (semantic.c 303): no expression that compiles is folded to      *)
(* another value than it has.                                               *)
FoldedAlike ==
  \A i \in DOMAIN operands :
    operands[i].crashes \/ operands[i].optimized.value = operands[i].plain.value

(* The instructions are those for the types of the operands: an expression of *)
(* int and unsigned int has the value that C gives it, if C gives it one,      *)
(* where check_expr() gives every operand the type that C does (and so the     *)
(* count of a shift is no more unsigned than what is shifted).                *)
TypedAsC(e) == e.typed /\ (e.op \in {"<<", ">>"} => e.plain.uns = e.cuns)

ComputesAsC ==
  \A i \in DOMAIN operands : TypedAsC(operands[i]) =>
    \A s \in Samples : operands[i].meaning[s] \in {Open, operands[i].plain.value[s]}
==============================================================================
