------------------------------- MODULE MCLocals -------------------------------
(* Scopes and DeadStores for TLC: the walk along a function on its own, with  *)
(* an int, a char[9], an array without elements and one whose size is no int, *)
(* and the walk along one with statements, which has fewer scopes and only    *)
(* ints.                                                                    *)
EXTENDS DeadStores, TLC

CONSTANTS
  BodyObjects,   \* bound: the objects of a function that is run
  BodyScopes     \* bound: its scopes

VARIABLE subject   \* what is walked: "names" or "statements"

FewTypes == {[element |-> 8, count |-> 1], [element |-> 1, count |-> 9],
             [element |-> 8, count |-> 0], [element |-> 9, count |-> 8]}

Stores == {<<"store", op>> : op \in {"lit", "var", "addr", "call", "div"}}
Calls == {<<"call", op>> : op \in {"var", "deref", "set"}}
Statements == Stores \cup Calls \cup {<<"through", "lit">>}

LocalsInit == DInit /\ subject \in {"names", "statements"}

(* Bound: of the odd arrays, one at a time. *)
FewOdd == Cardinality({j \in DOMAIN objects' : objects'[j].bytes \notin {8, 9}}) <= 1

(* Bound: of the objects of a function that is run, one global, one parameter. *)
FewOutside ==
  /\ Len(scopes'[1]) <= 1
  /\ at' = "params" => Len(objects') <= Len(scopes'[1]) + 1

WalkNames ==
  /\ subject = "names" /\ Next /\ FewOdd
  /\ UNCHANGED <<subject, body, deleted, run>>

WalkStatements ==
  /\ subject = "statements" /\ DNext
  /\ Len(objects') <= BodyObjects /\ opened' <= BodyScopes
  /\ \A j \in DOMAIN objects' : objects'[j].bytes = 8
  /\ FewOutside
  /\ UNCHANGED subject

LocalsSpec == LocalsInit /\ [][WalkNames \/ WalkStatements]_<<dvars, subject>>

Symmetry == Permutations(Names)
===============================================================================
