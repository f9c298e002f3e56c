----------------------------- MODULE StmtMeaning -----------------------------
(***************************************************************************)
(* What a function body means, in terms of the source alone: no label, no   *)
(* jump and no stack of break targets.                                      *)
(*                                                                         *)
(* What can be observed of a run is the sequence of expressions it          *)
(* evaluates and the value each one has.  seen is the last of them: a point *)
(* of the program, a value, and a bit that tells one evaluation from the     *)
(* next; a point is a node and the clause of it that is evaluated.  Between  *)
(* two points control moves as the C language says, and every run goes on    *)
(* until the function is left.                                              *)
(*                                                                         *)
(* A condition that is a literal is not observed where it decides, before   *)
(* anything runs, that an arm is dead.                                      *)
(***************************************************************************)
EXTENDS StmtTree

VARIABLE seen   \* <<point, value, bit>>, <<>> before the first

NotStarted == <<>>
End == <<0, "end">>

(***************************************************************************)
(* Where control goes.  A place is in front of a statement ("reach") or      *)
(* behind it ("after"), where a loop's next round begins ("again") or its    *)
(* test stands ("test"), or a point.                                        *)
(***************************************************************************)
Points == {"cond", "init", "step", "expr", "return", "end"}
Places == (0..Len(prog)) \X ({"reach", "after", "again", "test"} \cup Points)

After(n) == <<n, "after">>
Reach(n) == <<n, "reach">>
Test(n) == <<n, "test">>
Again(n) == <<n, "again">>

Enter(n, slot) ==
  IF Kids(n, slot) = {} THEN After(n) ELSE Reach(Min(Kids(n, slot)))

(* A loop's test comes round: a for without a condition goes straight on. *)
FromTest(n) ==
  CASE prog[n].cond = "zero" -> After(n)
    [] prog[n].cond = "none" -> Enter(n, "body")
    [] OTHER -> <<n, "cond">>

(* The body of loop n is over, or a continue ends it early. *)
FromAgain(n) ==
  IF Kind(n) = "for" /\ prog[n].step THEN <<n, "step">> ELSE Test(n)

(* Control arrives in front of statement n. *)
FromReach(n) ==
  CASE Kind(n) \in {"expr", "return"} -> <<n, Kind(n)>>
    [] Kind(n) = "block" -> Enter(n, "body")
    [] Kind(n) = "if" -> CASE prog[n].cond = "zero" -> Enter(n, "else")
                           [] prog[n].cond = "nonzero" -> Enter(n, "body")
                           [] OTHER -> <<n, "cond">>
    [] Kind(n) = "while" -> Test(n)
    [] Kind(n) = "do" -> Enter(n, "body")
    [] Kind(n) = "for" -> IF prog[n].init THEN <<n, "init">> ELSE Test(n)
    [] Kind(n) = "switch" -> <<n, "cond">>
    [] Kind(n) = "break" -> After(Innermost(n, Breakable))
    [] Kind(n) = "continue" -> Again(Innermost(n, Loops))
    [] OTHER -> After(n)

(* Statement n is over: the next one of its chain, or what its parent does. *)
FromAfter(n) ==
  IF n = 0 THEN End
  ELSE LET up == prog[n].up
           later == {c \in Kids(up, prog[n].slot) : c > n}
       IN  CASE later /= {} -> Reach(Min(later))
             [] later = {} /\ Kind(up) \in Loops -> Again(up)
             [] OTHER -> After(up)

Moves ==
  [p \in Places |-> CASE p[2] = "reach" -> FromReach(p[1])
                     [] p[2] = "after" -> FromAfter(p[1])
                     [] p[2] = "again" -> FromAgain(p[1])
                     [] p[2] = "test" -> FromTest(p[1])
                     [] OTHER -> p]

(* The point that is reached from a place by these moves, if there is one. *)
Settle(moves) ==
  LET f[p \in DOMAIN moves] == IF p[2] \in Points THEN p ELSE f[moves[p]] IN f

(* The value v of a switch selects the case of that value, which is here the *)
(* case's own number: check_switch() makes the values of a switch distinct.  *)
Owned(n) == {c \in Nodes : Kind(c) \in Labels /\ Innermost(c, {"switch"}) = n}

Select(n, v) ==
  LET chosen == {c \in Owned(n) : Kind(c) = "case" /\ c = v}
      default == {c \in Owned(n) : Kind(c) = "default"}
  IN  CASE chosen /= {} -> After(v)
        [] chosen = {} /\ default /= {} -> After(Min(default))
        [] OTHER -> After(n)

(* Where control goes from point pt when the expression there has value v. *)
Succ(pt, v) ==
  LET n == pt[1]
  IN  CASE pt[2] = "expr" -> After(n)
        [] pt[2] \in {"init", "step"} -> Test(n)
        [] pt[2] = "cond" /\ Kind(n) = "switch" -> Select(n, v)
        [] pt[2] = "cond" /\ Kind(n) = "if" -> Enter(n, IF v = 0 THEN "else" ELSE "body")
        [] OTHER -> IF v = 0 THEN After(n) ELSE Enter(n, "body")

(* What the expression at a point can evaluate to, up to what is tested. *)
Values(pt) ==
  LET n == pt[1]
  IN  CASE pt[2] /= "cond" -> {0}
        [] pt[2] = "cond" /\ Kind(n) = "switch" -> {0} \cup {c \in Nodes : Kind(c) = "case"}
        [] OTHER -> IF prog[n].cond = "nonzero" THEN {1} ELSE {0, 1}

(***************************************************************************)
(* The runs.                                                               *)
(***************************************************************************)
Over == seen /= NotStarted /\ seen[1][2] \in {"return", "end"}

Init == seen = NotStarted /\ prog = <<>>

(* The program is still being written down. *)
Write == seen = NotStarted /\ seen' = NotStarted /\ prog' /= prog

Start ==
  /\ seen = NotStarted
  /\ seen' /= NotStarted
  /\ LET first == Settle(Moves)[Enter(0, "body")]
     IN  \E v \in Values(first) : seen' = <<first, v, 0>>
  /\ UNCHANGED prog

Proceed ==
  /\ seen /= NotStarted
  /\ ~Over
  /\ LET next == Settle(Moves)[Succ(seen[1], seen[2])]
     IN  \E v \in Values(next) : seen' = <<next, v, 1 - seen[3]>>
  /\ UNCHANGED prog

Next == Write \/ Start \/ Proceed

Spec == Init /\ [][Next]_<<prog, seen>>
==============================================================================
