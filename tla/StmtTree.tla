------------------------------ MODULE StmtTree ------------------------------
(***************************************************************************)
(* The statements of one function body, as the front ends hand them to the *)
(* later passes: prog lists the nodes in source order, so that a node's     *)
(* number is its place in the text and a parent comes before its children. *)
(*                                                                         *)
(* A node has a kind, its parent (0 for the body of the function), the      *)
(* statements it is in, the field of the parent it hangs from ("body", or   *)
(* "else" for ASTNode.right of an if), and what its condition is: a literal  *)
(* zero, another literal, an expression, or absent.  A for also records      *)
(* which of its two outer clauses are there.  Expressions have no inside     *)
(* here.                                                                    *)
(***************************************************************************)
EXTENDS Integers, Sequences, FiniteSets, SequencesExt

VARIABLE prog

Loops == {"while", "do", "for"}
Breakable == Loops \cup {"switch"}
Labels == {"case", "default"}
Leaves == {"expr", "decl", "break", "continue", "return"} \cup Labels
StmtKinds == Leaves \cup Breakable \cup {"if", "block"}

(* The kinds whose body is exactly one statement: parse_if(), parse_while(),   *)
(* parse_do_while() and parse_for() each call parse_statement() for it.        *)
OneBody == Loops \cup {"if"}
Conditions == {"zero", "nonzero", "expr", "none"}

Node == [kind: StmtKinds, up: Nat, around: SUBSET Nat, slot: {"body", "else"},
         cond: Conditions, init: BOOLEAN, step: BOOLEAN]

Nodes == DOMAIN prog
Kind(n) == IF n = 0 THEN "function" ELSE prog[n].kind

Kids(n, slot) == {c \in Nodes : prog[c].up = n /\ prog[c].slot = slot}

(* The statements around n; every one is in the function, 0. *)
Ancestors(n) == IF n = 0 THEN {} ELSE prog[n].around

(* The innermost statement of these kinds around n, or 0. *)
Innermost(n, kinds) ==
  LET around == {a \in Ancestors(n) : Kind(a) \in kinds}
  IN  IF around = {} THEN 0 ELSE Max(around)

(* How many statements are open when the parser reaches n, n included. *)
Depth(n) == Cardinality(Ancestors(n))
=============================================================================
