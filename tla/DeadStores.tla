------------------------------ MODULE DeadStores ------------------------------
(***************************************************************************)
(* src/opt.c: the stores to variables that nobody reads are deleted.        *)
(*                                                                         *)
(* A behaviour writes a function body while Scopes resolves the names in it, *)
(* then prunes it, then runs it twice in lockstep: as it was written and as *)
(* it was pruned, each on a memory of its own.  Whether a loop goes round   *)
(* once more is decided outside, by a call that both runs make alike.       *)
(*                                                                         *)
(* A statement is a store to a variable, a store through a pointer, a call   *)
(* of another function, or the beginning or end of a while loop; an         *)
(* expression is one operator on at most one variable.  scan_value() and     *)
(* expr_is_pure() only recur on deeper ones.  Variables are scalars.         *)
(***************************************************************************)
EXTENDS Scopes

CONSTANTS
  Shapes,     \* bound: the statements, as <<what is done, operator of e>>
  MaxStmts,   \* bound: the statements of a body
  MaxLocals   \* OPT_MAX_LOCALS (512)

Operators == {"lit", "var", "addr", "deref", "call", "set", "div"}

ASSUME DeadStoresAssumption ==
  /\ Shapes \subseteq {"store", "through", "call"} \X Operators
  /\ {MaxStmts, MaxLocals} \subseteq Nat

VARIABLES
  body,      \* the statements, in the order of the text
  deleted,   \* the numbers of those prune() left out
  phase,     \* "write", "run", "over"
  pc,        \* the statement about to run
  written,   \* the memory of the function as written: place -> value
  pruned,    \* the memory of the pruned function
  shown      \* what the last statement showed of either run

run == <<phase, pc, written, pruned, shown>>
dvars == <<vars, body, deleted, run>>

(***************************************************************************)
(* The body.                                                               *)
(***************************************************************************)
(* Where an object is: a local's offset from %rbp, a global's own symbol. *)
Place(symbol) ==
  IF symbol.is_global THEN <<"global", symbol.name>>
                      ELSE <<"local", symbol.stack_offset>>
IsLocal(place) == place[1] = "local"
Places == {Place(Ref(objects[j])) : j \in DOMAIN objects}

(* A value is a number or the address of an object. *)
Numeral(n) == <<"number", n>>

(* The operand of a literal and of a call f() is no place. *)
NoPlace == <<"none">>

Expr(op, place) == [op |-> op, place |-> place]
Stmt(op, place, e, loop) == [op |-> op, place |-> place, e |-> e, loop |-> loop]

(* The expressions e(name) on the names in scope. *)
Known == {name \in Names : Lookup(name) /= None}
On(op, name) == Expr(op, IF op \in {"lit", "call"} THEN NoPlace ELSE Place(Lookup(name)))

Writing == phase = "write" /\ Len(body) < MaxStmts

(* Declarations and what is around the body; they are no statements. *)
WriteDeclaration ==
  /\ phase = "write"
  /\ at /= "between"
  /\ \/ \E name \in Names, t \in Types : DeclareGlobal(name, t) \/ Declare(name, t)
     \/ \E name \in Names : DeclareParam(name)
     \/ EnterFunction
     \/ EnterBody
  /\ ~errors'
  /\ UNCHANGED <<body, deleted, run>>

(* target = e, *target = e *)
WriteStore ==
  /\ Writing
  /\ \E shape \in Shapes, target, name \in Known :
       /\ shape[1] \in {"store", "through"}
       /\ Use({target, name})
       /\ body' = Append(body, Stmt(shape[1], Place(Lookup(target)), On(shape[2], name), 0))
  /\ UNCHANGED <<deleted, run>>

(* g(e): an expression statement, or any use of e that can be seen. *)
WriteCall ==
  /\ Writing
  /\ \E shape \in Shapes, name \in Known :
       /\ shape[1] = "call"
       /\ Use({name})
       /\ body' = Append(body, Stmt("call", NoPlace, On(shape[2], name), 0))
  /\ UNCHANGED <<deleted, run>>

WriteWhile ==
  /\ Writing
  /\ Enter
  /\ body' = Append(body, Stmt("while", NoPlace, Expr("lit", NoPlace), opened'))
  /\ UNCHANGED <<deleted, run>>

WriteEnd ==
  /\ phase = "write"
  /\ Leave
  /\ body' = Append(body, Stmt("end", NoPlace, Expr("lit", NoPlace), open[Current]))
  /\ UNCHANGED <<deleted, run>>

(***************************************************************************)
(* The pass.                                                               *)
(***************************************************************************)
(* scan_value(): the places an expression reads. *)
ReadBy(e) == IF e.op \in {"var", "deref", "div"} THEN {e.place} ELSE {}

(* Mutant: & is no use of its operand. *)
TakenBy_Never(e) == {}

(* note_address_use(): the places whose address it takes. *)
TakenBy(e) == IF e.op = "addr" THEN {e.place} ELSE {}

(* scan_stmt(), scan_lvalue(): the target of a store is written, a pointer is *)
(* read where it is stored through.                                          *)
(* Mutant: *p = e is a write of p. *)
ReadIn_TargetWritten(s) == ReadBy(s.e)

ReadIn(s) == ReadBy(s.e) \cup (IF s.op = "through" THEN {s.place} ELSE {})

Reads == {p \in UNION {ReadIn(body[i]) : i \in DOMAIN body} : IsLocal(p)}
Taken == {p \in UNION {TakenBy(body[i].e) : i \in DOMAIN body} : IsLocal(p)}

(* The entries of the table: every local that occurs. *)
Table == {p \in UNION {{body[i].place, body[i].e.place} : i \in DOMAIN body} : IsLocal(p)}

(* expr_is_pure(): an AST_BINARY_OP is, whatever the operator. *)
Pure(e) == e.op \in {"lit", "var", "div"}

IsDeadStore(s) ==
  /\ s.op = "store"
  /\ IsLocal(s.place)
  /\ s.place \notin Reads \cup Taken
  /\ Pure(s.e)

(* opt_run(): scan, and prune unless the table overflowed; then run. *)
Prune ==
  /\ phase = "write"
  /\ LeaveFunction
  /\ deleted' = IF Cardinality(Table) > MaxLocals THEN {}
                ELSE {i \in DOMAIN body : IsDeadStore(body[i])}
  /\ phase' = "run"
  /\ pc' = 1
  /\ written' = [p \in Places |-> Numeral(0)]
  /\ pruned' = written'
  /\ UNCHANGED <<body, shown>>
(***************************************************************************)
(* The two runs.                                                           *)
(***************************************************************************)
Faults(e, mem) ==
  \/ e.op = "deref" /\ mem[e.place] \notin Places
  \/ e.op = "div" /\ mem[e.place] = Numeral(0)

Value(e, mem) ==
  CASE e.op = "var" -> mem[e.place]
    [] e.op = "addr" -> e.place
    [] e.op = "deref" -> mem[mem[e.place]]
    [] OTHER -> Numeral(1)

Written(e, mem) == IF e.op = "set" THEN [mem EXCEPT ![e.place] = Numeral(1)] ELSE mem

(* A function that is called sees the globals. *)
Globals(mem) == [p \in {q \in Places : ~IsLocal(q)} |-> mem[p]]

(* What a statement leaves in memory, and what it shows to the outside. *)
Target(s, mem) == IF s.op = "through" THEN mem[s.place] ELSE s.place

Stops(s, mem) ==
  \/ Faults(s.e, mem)
  \/ s.op = "through" /\ Target(s, Written(s.e, mem)) \notin Places

Leaves(s, mem) ==
  LET after == Written(s.e, mem)
  IN  IF Stops(s, mem) \/ s.op \notin {"store", "through"} THEN after
      ELSE [after EXCEPT ![Target(s, after)] = Value(s.e, mem)]

Shows(s, mem) ==
  LET called == IF s.e.op = "call" THEN <<Globals(mem)>> ELSE <<>>
      passed == IF s.op = "call"
                THEN <<Value(s.e, mem), Globals(Written(s.e, mem))>> ELSE <<>>
  IN  called \o (IF Stops(s, mem) THEN <<"trap">> ELSE passed)

EndOf(s) == CHOOSE i \in DOMAIN body : body[i].op = "end" /\ body[i].loop = s.loop
WhileOf(s) == CHOOSE i \in DOMAIN body : body[i].op = "while" /\ body[i].loop = s.loop

(* One statement, in both runs; in the pruned one it may not be there. *)
RunStmt ==
  /\ phase = "run"
  /\ pc \in DOMAIN body
  /\ LET s == body[pc]
         stops == Stops(s, written) \/ (pc \notin deleted /\ Stops(s, pruned))
     IN  /\ written' = Leaves(s, written)
         /\ pruned' = IF pc \in deleted THEN pruned ELSE Leaves(s, pruned)
         /\ shown' = [written |-> Shows(s, written),
                      pruned |-> IF pc \in deleted THEN <<>> ELSE Shows(s, pruned)]
         /\ phase' = IF stops THEN "over" ELSE "run"
         /\ CASE s.op = "while" -> pc' \in {pc + 1, EndOf(s) + 1}
              [] s.op = "end" -> pc' = WhileOf(s)
              [] OTHER -> pc' = pc + 1
  /\ UNCHANGED <<vars, body, deleted>>

Return ==
  /\ phase = "run"
  /\ pc \notin DOMAIN body
  /\ phase' = "over"
  /\ UNCHANGED <<vars, body, deleted, pc, written, pruned, shown>>

Over == phase = "over" /\ UNCHANGED dvars

DInit ==
  /\ Init
  /\ body = <<>>
  /\ deleted = {}
  /\ phase = "write"
  /\ pc = 1
  /\ written = [p \in {} |-> Numeral(0)]
  /\ pruned = written
  /\ shown = [written |-> <<>>, pruned |-> <<>>]

DNext ==
  \/ WriteDeclaration \/ WriteStore \/ WriteCall \/ WriteWhile \/ WriteEnd
  \/ Prune \/ RunStmt \/ Return \/ Over

DSpec == DInit /\ [][DNext]_dvars

(***************************************************************************)
(* Properties.                                                             *)
(***************************************************************************)

(* A division by zero in a store that was deleted: the one trap that goes. *)
TrapDeleted ==
  /\ phase = "over" /\ pc - 1 \in deleted
  /\ body[pc - 1].e.op = "div"
  /\ shown = [written |-> <<"trap">>, pruned |-> <<>>]

(* Deleting stores changes nothing that can be observed: the same calls see   *)
(* the same arguments and the same globals in the same order, and a run that  *)
(* traps traps at the same place (opt.c 24-44; "a trap stays a trap",         *)
(* semantic.c 305).  Of every trap but one: expr_is_pure() holds of all       *)
(* binary operators (opt.c 322), so an unread store of 1 / z goes, and what   *)
(* follows it runs.                                                          *)
SameBehaviour == shown.written = shown.pruned \/ TrapDeleted

(* The memories agree on everything the function can still read: only objects *)
(* that are neither read nor pointed to may be out of date, and no pointer to *)
(* one of those is in memory.                                                *)
Stale == {p \in DOMAIN written : written[p] /= pruned[p]}

OnlyUnreadStale ==
  phase = "run" =>
    /\ Stale \cap (Reads \cup Taken) = {}
    /\ \A p \in Stale : IsLocal(p)
    /\ \A p \in DOMAIN written : written[p] \notin Stale
===============================================================================
