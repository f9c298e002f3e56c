------------------------------- MODULE StmtGen -------------------------------
(***************************************************************************)
(* The statement half of src/codegen.c: labels, jumps, the stacks of break, *)
(* continue and switch targets, and what the emitted lines do when they run.*)
(*                                                                         *)
(* A behaviour first writes a function body, statement by statement, with   *)
(* the nesting the front end accepts and the misplaced labels and jumps     *)
(* that semantic.c rejects left out; then generates its code; then runs it. *)
(*                                                                         *)
(* The generator is recursive.  calls has its pending calls of gen_stmt(),    *)
(* and a step is what happens between two of them: a gen_*() operator is the  *)
(* part of that function before its call, an End*() operator the part after. *)
(***************************************************************************)
EXTENDS StmtTree

CONSTANTS
  Kinds,      \* bound: the kinds of statements of an explored body
  Conds,      \* bound: the kinds of conditions of its loops and ifs
  Clauses,    \* bound: which of its outer clauses a for has: [init, step]
  MaxNodes,   \* bound: the number of its statements
  MaxNest     \* MYCC_MAX_NEST (256)

ASSUME StmtGenAssumption ==
  /\ Kinds \subseteq StmtKinds
  /\ Conds \subseteq Conditions
  /\ Clauses \subseteq [init : BOOLEAN, step : BOOLEAN]
  /\ {MaxNodes, MaxNest} \subseteq Nat

VARIABLES
  phase,   \* "write", "generate", "run", "returned"; "failed": an error was
           \* reported; "unlinkable": the assembler misses a label
  g,       \* the generator: its output and its static variables
  pc,      \* the line about to run
  rax,     \* %rax
  seen     \* the expression evaluated last, its value, and a bit that alternates

vars == <<prog, phase, g, pc, rax, seen>>

NotStarted == <<>>

(***************************************************************************)
(* Writing the body.                                                       *)
(***************************************************************************)
Unfinished(p) == {n \in DOMAIN p : /\ p[n].kind \in OneBody
                                   /\ \A c \in DOMAIN p : p[c].up /= n}

(* The parents a next statement in source order can have. *)
Spine == {0} \cup (IF prog = <<>> THEN {} ELSE {Len(prog)} \cup Ancestors(Len(prog)))

(* parse_statement(): an if takes one statement and perhaps an else, a loop   *)
(* takes one, a block, a switch and a function any number.                   *)
Fits(up, slot) ==
  CASE Kind(up) = "if" -> /\ Kids(up, slot) = {}
                          /\ (slot = "else") = (Kids(up, "body") /= {})
    [] Kind(up) \in Loops -> slot = "body" /\ Kids(up, slot) = {}
    [] OTHER -> slot = "body" /\ Kind(up) \in {"block", "switch", "function"}

(* Mutant: statements are nested without a guard, only expressions have one. *)
Accepted_Unguarded(depth) == depth <= MaxNodes

(* parse_depth_enter() counts the statements open around this one.  The parser *)
(* of the toy language, src/myc.c, has no such limit.                        *)
Accepted(depth) == depth <= MaxNest

(* check_stmt() and check_switch(): where a jump or a label may stand. *)
Placed(kind, around) ==
  LET switches == {a \in around : Kind(a) = "switch"}
  IN  CASE kind = "break" -> \E a \in around : Kind(a) \in Breakable
        [] kind = "continue" -> \E a \in around : Kind(a) \in Loops
        [] kind = "case" -> switches /= {}
        [] kind = "default" ->
             /\ switches /= {}
             /\ \A d \in Nodes : Kind(d) = "default" =>
                  Innermost(d, {"switch"}) /= Max(switches)
        [] OTHER -> TRUE

(* A for without a condition has a step here, so that every loop shows up. *)
Shapes(kind) ==
  LET plain == [init |-> FALSE, step |-> FALSE]
      shape(cond, clauses) == [cond |-> cond, init |-> clauses.init, step |-> clauses.step]
  IN  CASE kind \in {"if", "while", "do"} -> {shape(c, plain) : c \in Conds \ {"none"}}
        [] kind = "for" -> {s \in {shape(c, cl) : c \in Conds, cl \in Clauses} :
                              s.cond = "none" => s.step}
        [] OTHER -> {shape("none", plain)}

WriteStmt(kind) ==
  /\ phase = "write"
  /\ \E up \in Spine, slot \in {"body", "else"}, s \in Shapes(kind) :
       LET around == {up} \cup Ancestors(up)
           next == Append(prog, [kind |-> kind, up |-> up, around |-> around, slot |-> slot,
                                 cond |-> s.cond, init |-> s.init, step |-> s.step])
       IN  /\ Fits(up, slot)
           /\ Unfinished(prog) \subseteq around
           /\ Accepted(Cardinality(around))
           /\ Placed(kind, around)
           /\ Len(next) + Cardinality(Unfinished(next)) <= MaxNodes
           /\ prog' = next
  /\ UNCHANGED <<phase, g, pc, rax, seen>>

(* "nesting too deep": the parse ends here, and nothing is generated. *)
TooDeep ==
  /\ phase = "write"
  /\ prog /= <<>>
  /\ Kind(Len(prog)) \notin Leaves
  /\ Depth(Len(prog)) >= MaxNest
  /\ phase' = "failed"
  /\ UNCHANGED <<prog, g, pc, rax, seen>>

(***************************************************************************)
(* The lines of assembly, and the helpers that emit them.                  *)
(***************************************************************************)
Name(name, id) == [name |-> name, id |-> id, index |-> 0]
CaseName(id, index) == [name |-> "case", id |-> id, index |-> index]

Label(l) == [op |-> "label", label |-> l]
Jmp(l) == [op |-> "jmp", label |-> l]
Je(l) == [op |-> "je", label |-> l, value |-> 0]         \* cmpq $0, %rax; je
Jne(l) == [op |-> "jne", label |-> l, value |-> 0]       \* cmpq $0, %rax; jne
JeVal(v, l) == [op |-> "je", label |-> l, value |-> v]   \* movq $v, %r11; cmpq %r11, %rax; je
Eval(n, part) == [op |-> "eval", point |-> <<n, part>>]
Ret == [op |-> "ret"]

(* at is the statement gen_stmt_one() had last, and ends what it returned. *)
GenInit == [code |-> <<>>, label_counter |-> 0, break |-> <<>>,
            continue |-> <<>>, switch |-> <<>>,
            case_index |-> [n \in Nodes |-> 0], error |-> FALSE,
            calls |-> <<>>, at |-> 0, ends |-> FALSE]

Emit(s, lines) == [s EXCEPT !.code = @ \o lines]

(* gen_stmt() is called on a field of n; id is n's, when it has labels. *)
Call(s, n, slot, id) ==
  [s EXCEPT !.calls = Append(@, [node |-> n, slot |-> slot, id |-> id]), !.ends = FALSE]

CtxPushOk(s) ==
  \A depth \in {Len(s.break), Len(s.continue), Len(s.switch)} : depth < MaxNest

Overflow(s) == [s EXCEPT !.error = TRUE]

EnterLoop(s, kind) ==
  LET ctx == [kind |-> kind, id |-> s.label_counter]
  IN  [s EXCEPT !.label_counter = @ + 1, !.break = Append(@, ctx),
                !.continue = Append(@, ctx)]
LeaveLoop(s) == [s EXCEPT !.break = Front(@), !.continue = Front(@)]

EnterSwitch(s) ==
  [s EXCEPT !.label_counter = @ + 1, !.switch = Append(@, s.label_counter),
            !.break = Append(@, [kind |-> "switch", id |-> s.label_counter])]
(* Mutant: the break target of a switch outlives it. *)
LeaveSwitch_KeepsBreak(s) == [s EXCEPT !.switch = Front(@)]
LeaveSwitch(s) == [s EXCEPT !.break = Front(@), !.switch = Front(@)]

(* Mutant: the id is read after the counter moved on. *)
BreakLabel_NextId(ctx) == Name("loop_end", ctx.id + 1)
BreakLabel(ctx) ==
  Name(CASE ctx.kind = "while" -> "loop_end"
         [] ctx.kind = "do" -> "do_end"
         [] ctx.kind = "for" -> "for_end"
         [] OTHER -> "switch_end", ctx.id)

(* Mutant: continue in a for skips its step. *)
ContinueLabel_ForStart(ctx) ==
  Name(CASE ctx.kind = "do" -> "do_cont"
         [] ctx.kind = "for" -> "for_start"
         [] OTHER -> "loop_start", ctx.id)
ContinueLabel(ctx) ==
  Name(CASE ctx.kind = "do" -> "do_cont"
         [] ctx.kind = "for" -> "for_cont"
         [] OTHER -> "loop_start", ctx.id)

(* const_truth(), with optimization on: the condition is a literal. *)
ConstTruth(n) == prog[n].cond \in {"zero", "nonzero"}
Dead(n) == ConstTruth(n) /\ prog[n].cond = "zero"

(* collect_switch_cases(): the labels inside a switch, except those of a       *)
(* switch inside it.                                                         *)
Collect(n) ==
  {c \in Nodes : /\ Kind(c) \in Labels
                 /\ n \in Ancestors(c)
                 /\ \A a \in Ancestors(c) : a > n => Kind(a) /= "switch"}

CasesOf(n) == {c \in Collect(n) : Kind(c) = "case"}

(* A case's place among those of its switch, in source order. *)
Index(cases, c) == Cardinality({d \in cases : d < c})
CaseAt(cases, index) == CHOOSE c \in cases : Index(cases, c) = index

(* Mutant: case_index stays what it was. *)
Numbered_Forgotten(s, cases) == s

(* gen_switch() numbers the cases it collected, in their nodes. *)
Numbered(s, cases) ==
  [s EXCEPT !.case_index =
     [c \in Nodes |-> IF c \in cases THEN Index(cases, c) ELSE @[c]]]

(***************************************************************************)
(* The generator proper: up to the call of gen_stmt().                      *)
(***************************************************************************)
(* A literal condition leaves the arm that runs, and no label. *)
GenIf(s, n) ==
  LET id == s.label_counter
      other == Name(IF Kids(n, "else") /= {} THEN "else" ELSE "end", id)
  IN  IF ConstTruth(n) THEN Call(s, n, IF Dead(n) THEN "else" ELSE "body", 0)
      ELSE Call(Emit([s EXCEPT !.label_counter = @ + 1], <<Eval(n, "cond"), Je(other)>>),
                n, "body", id)

GenWhile(s, n) ==
  LET id == s.label_counter
  IN  CASE Dead(n) -> s
        [] ~Dead(n) /\ ~CtxPushOk(s) -> Overflow(s)
        [] OTHER ->
             Call(Emit(EnterLoop(s, "while"),
                       <<Label(Name("loop_start", id)), Eval(n, "cond"), Je(Name("loop_end", id))>>),
                  n, "body", id)

(* Mutant: do { } while (0) is dropped like while (0). *)
GenDoWhile_DropsBody(s, n) ==
  IF Dead(n) THEN s
  ELSE Call(Emit(EnterLoop(s, "do"), <<Label(Name("do_start", s.label_counter))>>),
            n, "body", s.label_counter)

GenDoWhile(s, n) ==
  LET id == s.label_counter
  IN  IF ~CtxPushOk(s) THEN Overflow(s)
      ELSE Call(Emit(EnterLoop(s, "do"), <<Label(Name("do_start", id))>>), n, "body", id)

GenFor(s, n) ==
  LET id == s.label_counter
      init == IF prog[n].init THEN <<Eval(n, "init")>> ELSE <<>>
      test == IF prog[n].cond = "none" THEN <<>> ELSE <<Eval(n, "cond"), Je(Name("for_end", id))>>
  IN  CASE Dead(n) -> Emit(s, init)
        [] ~Dead(n) /\ ~CtxPushOk(s) -> Overflow(s)
        [] OTHER ->
             Call(Emit(EnterLoop(s, "for"), init \o <<Label(Name("for_start", id))>> \o test),
                  n, "body", id)

GenSwitch(s, n) ==
  LET id == s.label_counter
      cases == CasesOf(n)
      matches == [i \in 1..Cardinality(cases) |-> JeVal(CaseAt(cases, i - 1), CaseName(id, i - 1))]
      otherwise == Jmp(Name(IF Collect(n) = cases THEN "switch_end" ELSE "default", id))
  IN  IF ~CtxPushOk(s) THEN Overflow(s)
      ELSE Call(Emit(EnterSwitch(Numbered(s, cases)),
                     <<Eval(n, "cond")>> \o matches \o <<otherwise>>),
                n, "body", id)

GenReturn(s, n) == [Emit(s, <<Eval(n, "return"), Ret>>) EXCEPT !.ends = TRUE]

GenStmtOne(s, n) ==
  CASE Kind(n) = "block" -> Call(s, n, "body", 0)
    [] Kind(n) = "decl" -> s
    [] Kind(n) = "if" -> GenIf(s, n)
    [] Kind(n) = "while" -> GenWhile(s, n)
    [] Kind(n) = "do" -> GenDoWhile(s, n)
    [] Kind(n) = "for" -> GenFor(s, n)
    [] Kind(n) = "switch" -> GenSwitch(s, n)
    [] Kind(n) = "break" -> Emit(s, <<Jmp(BreakLabel(Last(s.break)))>>)
    [] Kind(n) = "continue" -> Emit(s, <<Jmp(ContinueLabel(Last(s.continue)))>>)
    [] Kind(n) = "return" -> GenReturn(s, n)
    [] Kind(n) = "case" -> Emit(s, <<Label(CaseName(Last(s.switch), s.case_index[n]))>>)
    [] Kind(n) = "default" -> Emit(s, <<Label(Name("default", Last(s.switch)))>>)
    [] Kind(n) = "expr" -> Emit(s, <<Eval(n, "expr")>>)

(***************************************************************************)
(* The rest of each function, when gen_stmt() has returned; c is the call.   *)
(***************************************************************************)
EndIf(s, c) ==
  LET else == Label(Name("else", c.id))
      end == Name("end", c.id)
  IN  CASE ConstTruth(c.node) -> s
        [] ~ConstTruth(c.node) /\ c.slot = "body" /\ Kids(c.node, "else") /= {} ->
             Call(Emit(s, <<Jmp(end), else>>), c.node, "else", c.id)
        [] OTHER -> Emit(s, <<Label(end)>>)

EndWhile(s, c) ==
  LeaveLoop(Emit(s, <<Jmp(Name("loop_start", c.id)), Label(Name("loop_end", c.id))>>))

(* Mutant: the early return for while (0) leaves the targets pushed. *)
EndDoWhile_EarlyReturn(s, c) ==
  LET t == Emit(s, <<Label(Name("do_cont", c.id)), Label(Name("do_end", c.id))>>)
  IN  IF Dead(c.node) THEN t ELSE LeaveLoop(t)

(* Mutant: for while (0) the test goes away and the jump stays. *)
EndDoWhile_KeepsJump(s, c) ==
  LeaveLoop(Emit(s, <<Label(Name("do_cont", c.id)), Jmp(Name("do_start", c.id)),
                      Label(Name("do_end", c.id))>>))

EndDoWhile(s, c) ==
  LET again == IF Dead(c.node) THEN <<>>
               ELSE <<Eval(c.node, "cond"), Jne(Name("do_start", c.id))>>
  IN  LeaveLoop(Emit(s, <<Label(Name("do_cont", c.id))>> \o again \o <<Label(Name("do_end", c.id))>>))

EndFor(s, c) ==
  LET step == IF prog[c.node].step THEN <<Eval(c.node, "step")>> ELSE <<>>
  IN  LeaveLoop(Emit(s, <<Label(Name("for_cont", c.id))>> \o step
                        \o <<Jmp(Name("for_start", c.id)), Label(Name("for_end", c.id))>>))

EndSwitch(s, c) == LeaveSwitch(Emit(s, <<Label(Name("switch_end", c.id))>>))

EndStmt(s, c) ==
  CASE Kind(c.node) = "block" -> s
    [] Kind(c.node) = "if" -> EndIf(s, c)
    [] Kind(c.node) = "while" -> EndWhile(s, c)
    [] Kind(c.node) = "do" -> EndDoWhile(s, c)
    [] Kind(c.node) = "for" -> EndFor(s, c)
    [] Kind(c.node) = "switch" -> EndSwitch(s, c)

(* Mutant: an if whose body returns counts as returning. *)
PassesOn_If(kind) == kind \in {"block", "if"}

(* gen_stmt_one() returns what gen_stmt() did for a block, and else 0 or 1. *)
PassesOn(kind) == kind = "block"

(* What the assembler and the linker make of the output. *)
LabelsOf(s) == {i \in DOMAIN s.code : s.code[i].op = "label"}
JumpsOf(s) == {i \in DOMAIN s.code : s.code[i].op \in {"jmp", "je", "jne"}}
Defined(s) == {s.code[i].label : i \in LabelsOf(s)}
Missing(s) == {s.code[i].label : i \in JumpsOf(s)} \ Defined(s)
Unique(s) == Cardinality(Defined(s)) = Cardinality(LabelsOf(s))

(***************************************************************************)
(* gen_func().                                                             *)
(***************************************************************************)
StartFunc ==
  /\ phase = "write"
  /\ Unfinished(prog) = {}
  /\ phase' = "generate"
  /\ g' = Call(GenInit, 0, "body", 0)
  /\ UNCHANGED <<prog, pc, rax, seen>>

(* The rest of the chain that the innermost gen_stmt() walks. *)
Top == Last(g.calls)
Rest == {c \in Kids(Top.node, Top.slot) : c > g.at}

GenStmt ==
  /\ phase = "generate" /\ Rest /= {}
  /\ g' = GenStmtOne([g EXCEPT !.at = Min(Rest), !.ends = FALSE], Min(Rest))
  /\ UNCHANGED <<prog, phase, pc, rax, seen>>

EndChain ==
  /\ phase = "generate" /\ Rest = {} /\ Top.node /= 0
  /\ g' = EndStmt([g EXCEPT !.calls = Front(@),
                            !.ends = @ /\ PassesOn(Kind(Top.node))], Top)
  /\ UNCHANGED <<prog, phase, pc, rax, seen>>

(* The value 0 is returned where the closing brace is reached. *)
EndFunc ==
  /\ phase = "generate" /\ Rest = {} /\ Top.node = 0
  /\ g' = Emit([g EXCEPT !.calls = <<>>], IF g.ends THEN <<>> ELSE <<Eval(0, "end"), Ret>>)
  /\ phase' = CASE g'.error -> "failed"
                [] ~g'.error /\ (Missing(g') /= {} \/ ~Unique(g')) -> "unlinkable"
                [] OTHER -> "run"
  /\ UNCHANGED <<prog, pc, rax, seen>>

Generate == StartFunc \/ GenStmt \/ EndChain \/ EndFunc

(***************************************************************************)
(* The machine.                                                            *)
(***************************************************************************)
Line == g.code[pc]
Target(l) == CHOOSE i \in LabelsOf(g) : g.code[i].label = l

Running(op) == phase = "run" /\ pc \in DOMAIN g.code /\ Line.op = op

(* A register is left with a value of the expression, which the machine takes *)
(* from memory: the values are those the tests after it tell apart.          *)
Outcomes(point) ==
  LET n == point[1]
  IN  CASE point[2] /= "cond" -> {0}
        [] point[2] = "cond" /\ Kind(n) = "switch" -> {0} \cup {c \in Nodes : Kind(c) = "case"}
        [] OTHER -> IF ConstTruth(n) THEN {IF Dead(n) THEN 0 ELSE 1} ELSE {0, 1}

RunEval ==
  /\ Running("eval")
  /\ \E v \in Outcomes(Line.point) :
       /\ rax' = v
       /\ seen' = <<Line.point, v, IF seen = NotStarted THEN 0 ELSE 1 - seen[3]>>
  /\ pc' = pc + 1
  /\ UNCHANGED <<prog, phase, g>>

RunLabel ==
  /\ Running("label")
  /\ pc' = pc + 1
  /\ UNCHANGED <<prog, phase, g, rax, seen>>

RunJump ==
  /\ \E op \in {"jmp", "je", "jne"} : Running(op)
  /\ LET taken == CASE Line.op = "je" -> rax = Line.value
                    [] Line.op = "jne" -> rax /= Line.value
                    [] OTHER -> TRUE
     IN  pc' = IF taken THEN Target(Line.label) ELSE pc + 1
  /\ UNCHANGED <<prog, phase, g, rax, seen>>

RunRet ==
  /\ Running("ret")
  /\ phase' = "returned"
  /\ UNCHANGED <<prog, g, pc, rax, seen>>

Run == RunEval \/ RunLabel \/ RunJump \/ RunRet

(* The function was left, or its code never ran. *)
Stopped == phase \in {"returned", "failed", "unlinkable"} /\ UNCHANGED vars

Init ==
  /\ prog = <<>>
  /\ phase = "write"
  /\ g = GenInit
  /\ pc = 1
  /\ rax = 0
  /\ seen = NotStarted

Next == (\E kind \in Kinds : WriteStmt(kind)) \/ TooDeep \/ Generate \/ Run \/ Stopped

(* The machine goes on: nothing else is fair, a body may never be finished. *)
Spec == Init /\ [][Next]_vars /\ WF_vars(Run)

(***************************************************************************)
(* Properties.                                                             *)
(***************************************************************************)

(* Every line is one the assembler knows, and every label in it carries a    *)
(* number label_counter has already given out: what codegen.c 1418, 1451 ... *)
(* take an id for.                                                           *)
TypeOK ==
  /\ prog \in Seq(Node)
  /\ phase \in {"write", "generate", "run", "returned", "failed", "unlinkable"}
  /\ pc \in Nat /\ rax \in Nat
  /\ \A i \in DOMAIN g.code :
       LET line == g.code[i]
       IN  \/ /\ line.op \in {"label", "jmp", "je", "jne"}
              /\ line.label.id \in 0..(g.label_counter - 1)
           \/ line.op = "eval" /\ line.point[1] \in 0..Len(prog)
           \/ line = Ret

(* The machine never spins without evaluating anything: between two          *)
(* expressions there are finitely many jumps, until the function returns.    *)
Bit == IF seen = NotStarted THEN 2 ELSE seen[3]
KeepsEvaluating ==
  \A b \in 0..2 : (phase = "run" /\ Bit = b) ~> (phase /= "run" \/ Bit /= b)

(* No label is defined twice, in one function or by the cases of two         *)
(* switches: the assembler would refuse the output.                          *)
LabelsUnique == Unique(g)

(* A jump to a label that is not there can only be the selection of a case   *)
(* that stands in an arm which a literal condition left out: apart from that *)
(* arm, every break, continue and test has its target.                       *)
InDeadArm(c) ==
  \E a \in Ancestors(c) \ {0} : \E b \in {c} \cup Ancestors(c) :
    /\ b /= 0 /\ prog[b].up = a
    /\ Kind(a) \in {"if", "while", "for"}
    /\ \/ prog[a].cond = "zero" /\ prog[b].slot = "body"
       \/ Kind(a) = "if" /\ prog[a].cond = "nonzero" /\ prog[b].slot = "else"

OnlyDeadCasesMissing ==
  phase /= "generate" =>
    \A l \in Missing(g) :
      /\ l.name \in Labels
      /\ \E c \in Nodes : Kind(c) = l.name /\ InDeadArm(c)

(* Every construct takes back the targets it pushed, on each of its ways out *)
(* (the early return of gen_do_while() and gen_while() included): what is    *)
(* left over would be the break target of the next function.                 *)
StacksDrained ==
  phase /= "generate" => g.break = <<>> /\ g.continue = <<>> /\ g.switch = <<>>

(* ctx_push_ok() "should the parser have caught this" never has to speak:    *)
(* the nesting src/parser.c accepts fits the stacks of codegen.c 133-145.    *)
NestingCaught == ~g.error

(* Control never runs off the last line of the function into the next one:   *)
(* gen_func() adds an epilogue unless the last statement is a return.        *)
NeverRunsOff == phase = "run" => pc \in DOMAIN g.code

(* Every jump the generator emits has its label in the output: "Labels are   *)
(* emitted at their source position by gen_stmt_one (which handles nested    *)
(* cases too)" (codegen.c 1601-1602).                                        *)
EveryTargetDefined == phase /= "generate" => Missing(g) = {}

Meaning == INSTANCE StmtMeaning

(* The emitted code evaluates the expressions of the source program, in the  *)
(* order and as often as the source says, for every outcome of every test:   *)
(* break and continue reach the right construct, a selected case the right   *)
(* switch, and a literal condition drops only what can never run (gen_if ..  *)
(* gen_stmt_one, codegen.c 1400-1697).                                       *)
RunsAsWritten == Meaning!Spec
=============================================================================
