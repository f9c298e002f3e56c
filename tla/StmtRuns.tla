------------------------------- MODULE StmtRuns -------------------------------
(***************************************************************************)
(* The warning about a missing return, against what the runs of the output   *)
(* show.                                                                    *)
(***************************************************************************)
EXTENDS StmtGen

(***************************************************************************)
(* The warning about a missing return (semantic.c).  A list is the set of    *)
(* the statements in one field; their numbers have the order of the source.  *)
(***************************************************************************)
(* The default of this switch, not of one inside it: is there one at n?      *)
LabelledDefault[n \in Nodes] ==
  \/ Kind(n) = "default"
  \/ /\ Kind(n) \in {"block", "if"} \cup Loops
     /\ \E slot \in {"body", "else"} : \E c \in Kids(n, slot) : LabelledDefault[c]

(* Mutant: a switch is believed to select one of its cases. *)
HasDefaultLabel_Unasked(list) == TRUE
HasDefaultLabel(list) == \E c \in list : LabelledDefault[c]

(* The statements that decide about a switch: those of the switch, but where the  *)
(* first of them is a block, those of the block.                             *)
SwitchList(n) ==
  LET body == Kids(n, "body")
  IN  IF body /= {} /\ Kind(Min(body)) = "block" THEN Kids(Min(body), "body") ELSE body

EndsWithReturn(list) == list /= {} /\ Kind(Max(list)) = "return"

(* Does control never reach the end of the statement, as far as it is seen? *)
StmtTerminates[n \in Nodes] ==
  LET ends(slot) == \E c \in Kids(n, slot) : StmtTerminates[c]
  IN  CASE Kind(n) = "return" -> TRUE
        [] Kind(n) = "block" -> ends("body")
        [] Kind(n) = "if" -> ends("body") /\ ends("else")
        [] Kind(n) \in {"while", "for"} -> prog[n].cond \in {"none", "nonzero"}
        [] Kind(n) = "do" -> ends("body") \/ prog[n].cond = "nonzero"
        [] Kind(n) = "switch" -> /\ HasDefaultLabel(SwitchList(n))
                                 /\ EndsWithReturn(SwitchList(n))
        [] OTHER -> FALSE

ListTerminates(list) == \E c \in list : StmtTerminates[c]

(* check_function() of a function that has a result and is not main. *)
WarnsOfMissingReturn == ~ListTerminates(Kids(0, "body"))

(***************************************************************************)
(* Properties.                                                             *)
(***************************************************************************)

(* A function that no warning was given for does not arrive at the return    *)
(* that gen_func() adds: "no path reaches the closing brace" (semantic.c     *)
(* 1310).  There are three ways round stmt_terminates(), which its comments  *)
(* name in part: a break out of a statement it counts on, a continue to the   *)
(* test of a do it counts on, and a switch that begins with a block, of which *)
(* it sees that block and nothing else.                                      *)
WayRound ==
  \/ \E j \in Nodes : Kind(j) = "break" /\ StmtTerminates[Innermost(j, Breakable)]
  \/ \E j \in Nodes :
       LET loop == Innermost(j, Loops)
       IN  Kind(j) = "continue" /\ Kind(loop) = "do" /\ StmtTerminates[loop]
  \/ \E n \in Nodes : Kind(n) = "switch" /\ SwitchList(n) /= Kids(n, "body")

SilentMeansReturns ==
  /\ phase = "run"
  /\ seen /= NotStarted /\ seen[1] = <<0, "end">>
  => WarnsOfMissingReturn \/ WayRound
=============================================================================
