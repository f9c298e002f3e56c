------------------------------ MODULE EvalStack ------------------------------
(***************************************************************************)
(* What the code generator of mycc promises about expressions, with no     *)
(* register, no stack pointer and no temporary in sight.                   *)
(*                                                                         *)
(* Evaluating an expression is evaluating its operands one after the other *)
(* and then performing its operation on the values they had when they were *)
(* evaluated, whatever was evaluated in between and however deeply.  Each  *)
(* pending operation is a sequence of the operand values it holds so far.  *)
(***************************************************************************)
EXTENDS Naturals, Sequences

CONSTANT Value   \* the values an operand can have

VARIABLES
  pending,   \* the operations begun and not performed, innermost last
  acc,       \* the value of the operand evaluated last (%rax)
  mode,      \* "gen": an operand is due; "done": acc holds it; "failed"
  event      \* the operand values of the operation just performed, if any

vars == <<pending, acc, mode, event>>

Top == pending[Len(pending)]
Closed == SubSeq(pending, 1, Len(pending) - 1)

Init ==
  /\ pending = <<>>
  /\ acc \in Value
  /\ mode = "gen"
  /\ event = <<>>

(* A variable, a literal or a call without arguments has its value at once. *)
Operand ==
  /\ mode = "gen"
  /\ mode' = "done"
  /\ acc' \in Value
  /\ event' \in {<<>>, <<acc'>>}
  /\ UNCHANGED pending

(* An operation begins; its first operand is due. *)
Begin ==
  /\ mode = "gen"
  /\ pending' = Append(pending, <<>>)
  /\ event' = <<>>
  /\ UNCHANGED <<acc, mode>>

(* The operand is kept for the innermost operation, and the next one is due. *)
(* A compound assignment keeps two: the address, and the old value there.    *)
Hold ==
  /\ mode = "done"
  /\ Len(pending) > 0
  /\ mode' = "gen"
  /\ acc' \in Value
  /\ \E kept \in {Append(Top, acc), Append(Append(Top, acc), acc')} :
       pending' = Append(Closed, kept)
  /\ event' = <<>>

(* The operand was wanted for its effects or its truth only. *)
Discard ==
  /\ mode = "done"
  /\ mode' = "gen"
  /\ event' = <<>>
  /\ UNCHANGED <<pending, acc>>

(* The last operand is there: the innermost operation is performed on it and *)
(* on the values held.  Only a postfix operator also loads a value by itself. *)
Perform ==
  /\ mode = "done"
  /\ Len(pending) > 0
  /\ pending' = Closed
  /\ acc' \in Value
  /\ \/ event' = Append(Top, acc)
     \/ event' = <<acc, acc'>> /\ Top = <<>>
  /\ UNCHANGED mode

(* The value of a conditional operator is that of the arm evaluated last. *)
Close ==
  /\ mode = "done"
  /\ Len(pending) > 0
  /\ Top = <<>>
  /\ pending' = Closed
  /\ acc' \in Value
  /\ event' = <<>>
  /\ UNCHANGED mode

(* The generator gives up: it says so, and its output is thrown away. *)
Fail ==
  /\ mode /= "failed"
  /\ mode' = "failed"
  /\ event' = <<>>
  /\ UNCHANGED <<pending, acc>>

(* Generating code that is jumped over performs nothing. *)
Idle ==
  /\ event' = <<>>
  /\ UNCHANGED <<pending, acc, mode>>

Next == Operand \/ Begin \/ Hold \/ Discard \/ Perform \/ Close \/ Fail \/ Idle

Spec == Init /\ [][Next]_vars
==============================================================================
