-------------------------------- MODULE Words --------------------------------
(***************************************************************************)
(* The machine words that the generated code computes with, and what the    *)
(* instructions emit_binop_reg() and gen_binary_imm() choose do to them.    *)
(* A word is read as a signed number; Half is 2^63.                         *)
(***************************************************************************)
EXTENDS Integers

CONSTANTS
  Bits,   \* the bits of a word (64)
  Half,   \* 2^(Bits - 1)
  Trap    \* what a division ends in that has no quotient

Word == (-Half)..(Half - 1)
Lowest == -Half
Wrap(n) == ((n + Half) % (2 * Half)) - Half
AsUnsigned(w) == IF w < 0 THEN w + 2 * Half ELSE w

Truth(b) == IF b THEN 1 ELSE 0

(* idivq of cqto's %rdx:%rax: towards zero, the remainder has the sign of the *)
(* dividend, and there is no word for Lowest / -1.                           *)
Magnitude(w) == IF w < 0 THEN -w ELSE w
Toward0(l, r) ==
  LET q == Magnitude(l) \div Magnitude(r) IN IF (l < 0) = (r < 0) THEN q ELSE -q

Idiv(l, r) == IF r = 0 \/ Toward0(l, r) \notin Word THEN Trap ELSE Toward0(l, r)
Irem(l, r) == IF r = 0 \/ Toward0(l, r) \notin Word THEN Trap
              ELSE l - r * Toward0(l, r)

(* divq, with %rdx cleared. *)
Udiv(l, r) == IF r = 0 THEN Trap ELSE Wrap(AsUnsigned(l) \div AsUnsigned(r))
Urem(l, r) == IF r = 0 THEN Trap ELSE Wrap(AsUnsigned(l) % AsUnsigned(r))

(* shlq, sarq and shrq take the count modulo the word's bits. *)
Shl(l, n) == Wrap(l * 2^(n % Bits))
Sar(l, n) == l \div 2^(n % Bits)
Shr(l, n) == Wrap(AsUnsigned(l) \div 2^(n % Bits))

(* andq, orq, xorq: the word with these bits, in two's complement. *)
Bit(w, i) == (AsUnsigned(w) \div 2^i) % 2
HasBits(w, on) == \A i \in 0..(Bits - 1) : Bit(w, i) = Truth(i \in on)
Bitwise2(op, l, r) ==
  LET both(i) == Bit(l, i) + Bit(r, i)
      on == {i \in 0..(Bits - 1) : CASE op = "&" -> both(i) = 2
                                      [] op = "|" -> both(i) > 0
                                      [] op = "^" -> both(i) = 1}
  IN  CHOOSE w \in Word : HasBits(w, on)

(* Half is 2^(Bits - 1), so far as it matters: a shift by less than the word's  *)
(* bits multiplies by no more than Half, and every pattern of bits has a word. *)
ASSUME WordsAssumption ==
  /\ Bits \in Nat \ {0} /\ Half \in Nat \ {0, 1}
  /\ \A n \in 0..(Bits - 1) : 2^n \in 1..Half
  /\ \A on \in SUBSET (0..(Bits - 1)) : \E w \in Word : HasBits(w, on)

(* cmpq r, l: the flags of the subtraction l - r. *)
Flags(l, r) ==
  [zero |-> Wrap(l - r) = 0,
   sign |-> Wrap(l - r) < 0,
   overflow |-> l - r \notin Word,
   carry |-> AsUnsigned(l) < AsUnsigned(r)]

(* setcc *)
Set(cc, f) ==
  CASE cc = "e" -> f.zero
    [] cc = "ne" -> ~f.zero
    [] cc = "l" -> ~(f.sign <=> f.overflow)
    [] cc = "ge" -> (f.sign <=> f.overflow)
    [] cc = "le" -> f.zero \/ ~(f.sign <=> f.overflow)
    [] cc = "g" -> ~f.zero /\ (f.sign <=> f.overflow)
    [] cc = "b" -> f.carry
    [] cc = "ae" -> ~f.carry
    [] cc = "be" -> f.carry \/ f.zero
    [] cc = "a" -> ~f.carry /\ ~f.zero

Order == {"<", "<=", ">", ">="}
Compares == {"==", "!="} \cup Order

(* The condition that emit_binop_reg() and gen_binary_imm() ask for after a    *)
(* cmpq, uns being binary_is_unsigned() of the operands.                      *)
Condition(op, uns) ==
  CASE op = "==" -> "e"
    [] op = "!=" -> "ne"
    [] op = "<" -> IF uns THEN "b" ELSE "l"
    [] op = "<=" -> IF uns THEN "be" ELSE "le"
    [] op = ">" -> IF uns THEN "a" ELSE "g"
    [] op = ">=" -> IF uns THEN "ae" ELSE "ge"

(* What an operand or a result stands for in its type. *)
AsTyped(w, uns) == IF uns THEN AsUnsigned(w) ELSE w
==============================================================================
