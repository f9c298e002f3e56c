---------------------------- MODULE StmtGenProofs ----------------------------
(* The labels, jumps and target stacks of the generator, for bodies of any    *)
(* size and any nesting limit.                                              *)
EXTENDS StmtGen, FiniteSetTheorems, SequenceTheorems, WellFoundedInduction, TLAPS

(***************************************************************************)
(* The body.                                                               *)
(***************************************************************************)
(* A statement is below its parent and all that is around that; what is     *)
(* around it is a line from the function down; what is inside a statement    *)
(* follows it without a gap; and from every statement around it one goes     *)
(* down to it through a child.                                              *)
Nested(n) ==
  /\ prog[n].up \in 0..(n - 1)
  /\ prog[n].around = {prog[n].up} \cup Ancestors(prog[n].up)
  /\ prog[n].around \subseteq 0..(n - 1)
  /\ 0 \in prog[n].around
  /\ \A a \in prog[n].around : Ancestors(a) \subseteq prog[n].around
  /\ \A a, b \in prog[n].around : a < b => a \in Ancestors(b)
  /\ \A a \in prog[n].around : \A k \in (a + 1)..n : a \in Ancestors(k)
  /\ \A a \in prog[n].around : \E k \in {n} \cup prog[n].around : k /= 0 /\ prog[k].up = a

(* Where statements, jumps and labels may stand. *)
WellPlaced(n) ==
  /\ Cardinality(prog[n].around) <= MaxNest
  /\ Kind(prog[n].up) \notin Leaves
  /\ prog[n].slot = "else" =>
       /\ Kind(prog[n].up) = "if"
       /\ \E c \in Kids(prog[n].up, "body") : c < n
       /\ \A c \in Kids(prog[n].up, "body") : c < n
  /\ Kind(n) = "break" => \E a \in prog[n].around : Kind(a) \in Breakable
  /\ Kind(n) = "continue" => \E a \in prog[n].around : Kind(a) \in Loops
  /\ Kind(n) \in Labels => \E a \in prog[n].around : Kind(a) = "switch"

OneDefault ==
  \A n, c, d \in Nodes :
    /\ Kind(n) = "switch" /\ c \in Collect(n) /\ d \in Collect(n)
    /\ Kind(c) = "default" /\ Kind(d) = "default"
    => c = d

Body ==
  /\ prog \in Seq(Node)
  /\ \A n \in Nodes : Nested(n) /\ WellPlaced(n)
  /\ OneDefault

(***************************************************************************)
(* The output.                                                             *)
(***************************************************************************)
Parts == {"cond", "init", "step", "expr", "return", "end"}
LabelNames == Labels \cup {"else", "end", "loop_start", "loop_end", "do_start", "do_cont",
                           "do_end", "for_start", "for_cont", "for_end", "switch_end"}
LabelSet == [name : LabelNames, id : Nat, index : Nat]
Lines == [op : {"label", "jmp"}, label : LabelSet]
         \cup [op : {"je", "jne"}, label : LabelSet, value : Nat]
         \cup [op : {"eval"}, point : (0..Len(prog)) \X Parts]
         \cup {Ret}

(* The labels that code defines, and those it jumps to. *)
Defs(code) == {code[i].label : i \in {j \in DOMAIN code : code[j].op = "label"}}
Jumps(code) == {code[i].label : i \in {j \in DOMAIN code : code[j].op \in {"jmp", "je", "jne"}}}

DefinedOnce(code) ==
  \A i, j \in DOMAIN code :
    code[i].op = "label" /\ code[j].op = "label" /\ code[i].label = code[j].label => i = j

DeadLabel(l) == \E c \in Nodes : Kind(c) \in Labels /\ l.name = Kind(c) /\ InDeadArm(c)

(***************************************************************************)
(* The generator between two calls.                                        *)
(***************************************************************************)
Calls == [node : 0..Len(prog), slot : {"body", "else"}, id : Nat]
Ctx == [kind : Breakable, id : Nat]

GenTypeOK(s) ==
  s \in [code : Seq(Lines), label_counter : Nat, break : Seq(Ctx), continue : Seq(Ctx),
         switch : Seq(Nat), case_index : [Nodes -> Nat], error : {FALSE}, calls : Seq(Calls),
         at : 0..Len(prog), ends : BOOLEAN]

(* The pending calls are those of the statements around the one at hand. *)
Path(calls, at) ==
  /\ calls /= <<>> /\ calls[1] = [node |-> 0, slot |-> "body", id |-> 0]
  /\ \A i \in DOMAIN calls :
       /\ i > 1 => calls[i].node /= 0
       /\ Kind(calls[i].node) \notin Leaves
       /\ Ancestors(calls[i].node) = {calls[j].node : j \in 1..(i - 1)}
       /\ Cardinality(Ancestors(calls[i].node)) = i - 1
       /\ \A j \in DOMAIN calls : i < j => calls[i].node < calls[j].node
  /\ calls[Len(calls)].node \in {at} \cup Ancestors(at)

TakesId(c) == Kind(c.node) \in Breakable \/ (Kind(c.node) = "if" /\ ~ConstTruth(c.node))

Ids(calls, counter) ==
  \A i \in DOMAIN calls : TakesId(calls[i]) =>
    /\ calls[i].id < counter
    /\ \A j \in DOMAIN calls : i < j /\ TakesId(calls[j]) => calls[i].id < calls[j].id

(* A stack of targets has one entry for each pending call of these kinds. *)
Tracks(stack, calls, kinds, entry) ==
  \E f \in [DOMAIN stack -> DOMAIN calls] :
    /\ \A i \in DOMAIN stack : /\ f[i] > i
                               /\ Kind(calls[f[i]].node) \in kinds
                               /\ stack[i] = entry[calls[f[i]]]
    /\ \A i, j \in DOMAIN stack : i < j => f[i] < f[j]
    /\ \A j \in DOMAIN calls : Kind(calls[j].node) \in kinds => \E i \in DOMAIN stack : f[i] = j

CtxOf == [c \in Calls |-> [kind |-> Kind(c.node), id |-> c.id]]
IdOf == [c \in Calls |-> c.id]

Stacks(s) ==
  /\ Tracks(s.break, s.calls, Breakable, CtxOf)
  /\ Tracks(s.continue, s.calls, Loops, CtxOf)
  /\ Tracks(s.switch, s.calls, {"switch"}, IdOf)

(* The label that a pending call has emitted already, for jumps back, and     *)
(* those it is going to emit.                                               *)
Opened(c, l) ==
  \/ Kind(c.node) = "while" /\ l = Name("loop_start", c.id)
  \/ Kind(c.node) = "do" /\ l = Name("do_start", c.id)
  \/ Kind(c.node) = "for" /\ l = Name("for_start", c.id)

Due(c, l) ==
  \/ /\ Kind(c.node) = "if" /\ ~ConstTruth(c.node)
     /\ \/ l = Name("end", c.id)
        \/ c.slot = "body" /\ Kids(c.node, "else") /= {} /\ l = Name("else", c.id)
  \/ Kind(c.node) = "while" /\ l = Name("loop_end", c.id)
  \/ Kind(c.node) = "do" /\ l \in {Name("do_cont", c.id), Name("do_end", c.id)}
  \/ Kind(c.node) = "for" /\ l \in {Name("for_cont", c.id), Name("for_end", c.id)}
  \/ Kind(c.node) = "switch" /\ l = Name("switch_end", c.id)

Marks(calls, defs) ==
  \A i \in DOMAIN calls : \A l \in LabelSet :
    /\ Opened(calls[i], l) => l \in defs
    /\ Due(calls[i], l) => l \notin defs

(* The label of c as one of switch n, which has this id. *)
LabelIn(n, id, c) ==
  IF Kind(c) = "case" THEN CaseName(id, Index(CasesOf(n), c)) ELSE Name("default", id)

Numbering(calls, index) ==
  \A i \in DOMAIN calls : Kind(calls[i].node) = "switch" =>
    \A c \in CasesOf(calls[i].node) : index[c] = Index(CasesOf(calls[i].node), c)

(* Of the labels of a pending switch, only those that were passed are out. *)
Passed(calls, at, defs) ==
  \A i \in DOMAIN calls : Kind(calls[i].node) = "switch" =>
    \A l \in defs : l.id = calls[i].id /\ l.name \in Labels =>
      \E c \in Collect(calls[i].node) : c <= at /\ l = LabelIn(calls[i].node, calls[i].id, c)

(* c is in a statement that a pending call is yet to come to. *)
ElsePending(c) == Kind(c.node) = "if" /\ ~ConstTruth(c.node) /\ c.slot = "body"

Ahead(calls, at, c) ==
  \E j \in DOMAIN calls, k \in {c} \cup Ancestors(c) :
    /\ k > at
    /\ prog[k].up = calls[j].node
    /\ prog[k].slot = calls[j].slot \/ ElsePending(calls[j])

Awaited(calls, at, l) ==
  \E i \in DOMAIN calls :
    /\ Kind(calls[i].node) = "switch"
    /\ \E c \in Collect(calls[i].node) :
         l = LabelIn(calls[i].node, calls[i].id, c) /\ Ahead(calls, at, c)

Targets(calls, at, defs, jumps) ==
  \A l \in jumps :
    \/ l \in defs
    \/ \E i \in DOMAIN calls : Due(calls[i], l)
    \/ DeadLabel(l)
    \/ Awaited(calls, at, l)

Bounded(labels, counter) == \A l \in labels : l.id < counter

Returned(code) == code /= <<>> /\ code[Len(code)] = Ret

Generating(s) ==
  /\ GenTypeOK(s)
  /\ Path(s.calls, s.at)
  /\ Ids(s.calls, s.label_counter)
  /\ Stacks(s)
  /\ DefinedOnce(s.code)
  /\ Bounded(Defs(s.code) \cup Jumps(s.code), s.label_counter)
  /\ Marks(s.calls, Defs(s.code))
  /\ Numbering(s.calls, s.case_index)
  /\ Passed(s.calls, s.at, Defs(s.code))
  /\ Targets(s.calls, s.at, Defs(s.code), Jumps(s.code))
  /\ s.ends => Returned(s.code)

(* What is left when gen_func() is through, and before it began. *)
Done(s) ==
  /\ s.code \in Seq(Lines)
  /\ s.label_counter \in Nat
  /\ s.break = <<>> /\ s.continue = <<>> /\ s.switch = <<>> /\ s.error = FALSE
  /\ DefinedOnce(s.code)
  /\ Bounded(Defs(s.code) \cup Jumps(s.code), s.label_counter)
  /\ \A l \in Jumps(s.code) : l \in Defs(s.code) \/ DeadLabel(l)

IInv ==
  /\ Body
  /\ phase \in {"write", "generate", "run", "returned", "failed", "unlinkable"}
  /\ pc \in Nat /\ rax \in Nat
  /\ phase = "write" => g.code = <<>>
  /\ phase \in {"write", "generate"} => pc = 1
  /\ phase = "generate" => Generating(g)
  /\ phase /= "generate" => Done(g)
  /\ phase = "run" => /\ Returned(g.code) /\ pc \in DOMAIN g.code
                      /\ Jumps(g.code) \subseteq Defs(g.code)

(***************************************************************************)
(* The body, as it is written.                                             *)
(***************************************************************************)
LEMMA MinIs ==
  ASSUME NEW S \in SUBSET Nat, S /= {}
  PROVE  Min(S) \in S /\ \A x \in S : Min(S) <= x
<1>1. PICK y \in S : \A z \in S : ~(<<z, y>> \in OpToRel(<, Nat))
  BY WFMin, NatLessThanWellFounded, Zenon
<1>4. \A z \in S : ~(z < y)
  BY <1>1 DEF OpToRel
<1>2. \A z \in S : y <= z
  BY <1>4
<1>3. \E x \in S : \A z \in S : x <= z
  BY <1>2
<1> QED
  BY <1>3, Zenon DEF Min

(* The maximum of a set is known from its defining property alone. *)
LEMMA MaxUnique ==
  ASSUME NEW S \in SUBSET Nat, NEW n \in S, \A x \in S : n >= x
  PROVE  Max(S) = n
<1>1. Max(S) \in S /\ \A x \in S : Max(S) >= x
  BY Zenon DEF Max
<1>2. Max(S) \in Nat /\ n \in Nat /\ Max(S) >= n /\ n >= Max(S)
  BY <1>1
<1> QED
  BY <1>2

LEMMA InsideBody ==
  ASSUME Body, NEW n \in 0..Len(prog)
  PROVE  /\ Ancestors(n) \subseteq 0..(n - 1)
         /\ n /= 0 => /\ n \in Nodes
                       /\ prog[n].up \in 0..(n - 1)
                       /\ Ancestors(n) = {prog[n].up} \cup Ancestors(prog[n].up)
                       /\ 0 \in Ancestors(n)
         /\ \A a \in Ancestors(n) : Ancestors(a) \subseteq Ancestors(n)
         /\ \A a, b \in Ancestors(n) : a < b => a \in Ancestors(b)
         /\ \A a \in Ancestors(n) : \A k \in (a + 1)..n : a \in Ancestors(k)
         /\ \A a \in Ancestors(n) : \E k \in {n} \cup Ancestors(n) : k /= 0 /\ prog[k].up = a
<1>1. Len(prog) \in Nat /\ Nodes = 1..Len(prog)
  BY DEF Body, Nodes
<1>2. CASE n = 0
  BY <1>2 DEF Ancestors
<1>3. CASE n /= 0
  <2>1. n \in Nodes
    BY <1>1, <1>3
  <2>2. Nested(n) /\ Ancestors(n) = prog[n].around
    BY <1>3, <2>1 DEF Body, Ancestors
  <2> QED
    BY <1>3, <2>1, <2>2 DEF Nested
<1> QED
  BY <1>2, <1>3

(* A statement more changes nothing about those that are there. *)
LEMMA Written ==
  ASSUME Body, NEW r \in Node, prog' = Append(prog, r), NEW m, m = Len(prog) + 1
  PROVE  /\ Nodes = 1..Len(prog) /\ Nodes' = 1..m
         /\ prog' \in Seq(Node) /\ Len(prog') = m /\ Len(prog) \in Nat
         /\ \A n \in Nodes : prog'[n] = prog[n]
         /\ prog'[m] = r
         /\ \A n \in 0..Len(prog) : Kind(n)' = Kind(n) /\ Ancestors(n)' = Ancestors(n)
         /\ Kind(m)' = r.kind /\ Ancestors(m)' = r.around
         /\ \A n, slot : Kids(n, slot)' =
              Kids(n, slot) \cup (IF r.up = n /\ r.slot = slot THEN {m} ELSE {})
<1>1. prog \in Seq(Node) /\ Len(prog) \in Nat /\ Nodes = 1..Len(prog)
  BY DEF Body, Nodes
<1>2. /\ prog' \in Seq(Node) /\ Len(prog') = m /\ Nodes' = 1..m
      /\ \A n \in 1..Len(prog) : prog'[n] = prog[n]
      /\ prog'[m] = r
  BY <1>1 DEF Nodes
<1>3. \A n \in 0..Len(prog) : Kind(n)' = Kind(n) /\ Ancestors(n)' = Ancestors(n)
  BY <1>1, <1>2 DEF Kind, Ancestors
<1>4. Kind(m)' = r.kind /\ Ancestors(m)' = r.around
  BY <1>1, <1>2 DEF Kind, Ancestors
<1>5. ASSUME NEW n, NEW slot
      PROVE  Kids(n, slot)' = Kids(n, slot) \cup (IF r.up = n /\ r.slot = slot THEN {m} ELSE {})
  <2>1. Kids(n, slot)' = {c \in 1..m : prog'[c].up = n /\ prog'[c].slot = slot}
    BY <1>2 DEF Kids
  <2>2. Kids(n, slot) = {c \in 1..Len(prog) : prog[c].up = n /\ prog[c].slot = slot}
    BY <1>1 DEF Kids
  <2>3. \A c : c \in 1..m <=> c \in 1..Len(prog) \/ c = m
    BY <1>1
  <2> QED
    BY <1>1, <1>2, <2>1, <2>2, <2>3
<1> QED
  BY <1>1, <1>2, <1>3, <1>4, <1>5

LEMMA NestedWhenWritten ==
  ASSUME Body, NEW r \in Node, prog' = Append(prog, r), r.up \in Spine,
         r.around = {r.up} \cup Ancestors(r.up), NEW m, m = Len(prog) + 1
  PROVE  \A n \in Nodes' : Nested(n)'
<1> DEFINE N == Len(prog)
<1>1. /\ N \in Nat /\ Nodes = 1..N /\ Nodes' = 1..m
      /\ \A n \in Nodes : prog'[n] = prog[n]
      /\ prog'[m] = r
      /\ \A n \in 0..N : Ancestors(n)' = Ancestors(n)
      /\ Ancestors(m)' = r.around
  BY Written
<1>2. r.up \in 0..N /\ (r.up = 0 \/ r.up = N \/ r.up \in Ancestors(N))
  <2>1. Ancestors(N) \subseteq 0..(N - 1)
    BY <1>1, InsideBody
  <2> QED
    BY <1>1, <2>1 DEF Spine
<1>3. ASSUME NEW n \in Nodes PROVE Nested(n)'
  <2>1. Nested(n)
    BY DEF Body
  <2>2. prog'[n] = prog[n] /\ n \in 1..N /\ prog[n].around \subseteq 0..(n - 1) /\ prog[n].up \in 0..(n - 1)
    BY <1>1, <2>1 DEF Nested
  <2>3. \A k \in {n} \cup prog[n].around : k /= 0 => k \in Nodes
    BY <1>1, <2>2
  <2>4. Ancestors(prog[n].up)' = Ancestors(prog[n].up)
    BY <1>1, <2>2
  <2>5. \A a \in prog[n].around : Ancestors(a)' = Ancestors(a)
    BY <1>1, <2>2
  <2>6. \A a \in prog[n].around : \A k \in (a + 1)..n : Ancestors(k)' = Ancestors(k)
    <3> SUFFICES ASSUME NEW a \in prog[n].around, NEW k \in (a + 1)..n PROVE k \in 0..N
      BY <1>1
    <3> QED
      BY <1>1, <2>2
  <2>7. \A a \in prog[n].around : \E k \in {n} \cup prog[n].around : k /= 0 /\ prog'[k].up = a
    BY <1>1, <2>1, <2>3 DEF Nested
  <2> QED
    BY <2>1, <2>2, <2>4, <2>5, <2>6, <2>7 DEF Nested
<1>4. Nested(m)'
  <2> DEFINE A == r.around
  <2>1. /\ Ancestors(r.up) \subseteq 0..(r.up - 1)
        /\ \A a \in Ancestors(r.up) : Ancestors(a) \subseteq Ancestors(r.up)
        /\ \A a, b \in Ancestors(r.up) : a < b => a \in Ancestors(b)
        /\ r.up /= 0 => 0 \in Ancestors(r.up)
        /\ \A a \in Ancestors(r.up) : \E k \in {r.up} \cup Ancestors(r.up) : k /= 0 /\ prog[k].up = a
    BY <1>1, <1>2, InsideBody
  <2>2. A \subseteq 0..N /\ \A a \in A : Ancestors(a)' = Ancestors(a)
    BY <1>1, <1>2, <2>1
  <2>3. 0 \in A
    BY <2>1
  <2>4. \A a \in A : Ancestors(a) \subseteq A
    BY <2>1
  <2>5. \A a, b \in A : a < b => a \in Ancestors(b)
    <3> SUFFICES ASSUME NEW a \in A, NEW b \in A, a < b PROVE a \in Ancestors(b)
      OBVIOUS
    <3>1. a \in Nat /\ b \in Nat /\ r.up \in Nat
      BY <1>1, <1>2, <2>2
    <3>2. CASE b = r.up
      BY <3>1, <3>2
    <3>3. CASE b \in Ancestors(r.up)
      BY <1>2, <2>1, <3>1, <3>3
    <3> QED
      BY <3>2, <3>3
  <2>6. ASSUME NEW a \in A, NEW k \in (a + 1)..m PROVE a \in Ancestors(k)'
    <3>1. a \in 0..N /\ k \in 1..m
      <4>1. a \in 0..N /\ N \in Nat
        BY <1>1, <2>2
      <4> QED
        BY <4>1
    <3>2. CASE k = m
      BY <1>1, <3>1, <3>2 DEF Ancestors
    <3>3. CASE k /= m
      <4>1. k \in 1..N /\ k \in (a + 1)..N /\ Ancestors(k)' = Ancestors(k)
        BY <1>1, <3>1, <3>3
      <4>2. a \in Ancestors(N) \/ a = 0
        <5>1. N \in 0..N /\ a /= N
          BY <1>1, <4>1
        <5>2. \A b \in Ancestors(N) : Ancestors(b) \subseteq Ancestors(N)
          BY <5>1, InsideBody
        <5> QED
          BY <1>2, <5>1, <5>2, <3>1, <2>1
      <4>3. CASE a = 0
        <5>1. k \in 0..N /\ k /= 0
          BY <1>1, <4>1
        <5> QED
          BY <4>1, <4>3, <5>1, InsideBody
      <4>4. CASE a \in Ancestors(N)
        <5>1. N \in 0..N
          BY <1>1
        <5> QED
          BY <4>1, <4>4, <5>1, InsideBody
      <4> QED
        BY <4>2, <4>3, <4>4
    <3> QED
      BY <3>2, <3>3
  <2>7. ASSUME NEW a \in A PROVE \E k \in {m} \cup A : k /= 0 /\ prog'[k].up = a
    <3>1. CASE a = r.up
      BY <1>1, <3>1
    <3>2. CASE a \in Ancestors(r.up)
      <4>1. PICK k \in {r.up} \cup Ancestors(r.up) : k /= 0 /\ prog[k].up = a
        BY <2>1, <3>2
      <4>2. k \in Nodes /\ k \in A
        BY <1>1, <2>2, <4>1
      <4> QED
        BY <1>1, <4>1, <4>2
    <3> QED
      BY <3>1, <3>2
  <2>8. /\ r.up \in 0..(m - 1) /\ A \subseteq 0..(m - 1)
        /\ Ancestors(r.up)' = Ancestors(r.up)
    BY <1>1, <1>2, <2>2
  <2>9. \A a, b \in A : a < b => a \in Ancestors(b)'
    BY <2>2, <2>5
  <2>10. \A a \in A : Ancestors(a)' \subseteq A
    BY <2>2, <2>4
  <2> QED
    BY <1>1, <2>3, <2>6, <2>7, <2>8, <2>9, <2>10 DEF Nested
<1> QED
  BY <1>1, <1>3, <1>4

LEMMA InnermostIs ==
  ASSUME Body, NEW n \in Nodes, Kind(n) = "switch", NEW c \in Collect(n)
  PROVE  Innermost(c, {"switch"}) = n
<1> DEFINE around == {a \in Ancestors(c) : Kind(a) \in {"switch"}}
<1>1. c \in Nodes /\ n \in Ancestors(c) /\ \A a \in Ancestors(c) : a > n => Kind(a) /= "switch"
  BY DEF Collect
<1>2. Ancestors(c) \subseteq Nat
  <2>1. Ancestors(c) \subseteq 0..(c - 1)
    <3>1. c \in 0..Len(prog)
      BY <1>1 DEF Body, Nodes
    <3> QED
      BY <3>1, InsideBody
  <2>2. 0..(c - 1) \subseteq Nat
    OBVIOUS
  <2> QED
    BY <2>1, <2>2
<1>3. around \subseteq Nat /\ n \in around
  BY <1>1, <1>2
<1>4. \A a \in around : n >= a
  BY <1>1, <1>3
<1>5. Max(around) = n
  <2> HIDE DEF around
  <2> QED
    BY <1>3, <1>4, MaxUnique
<1> QED
  BY <1>3, <1>5 DEF Innermost

LEMMA CollectWhenWritten ==
  ASSUME Body, NEW r \in Node, prog' = Append(prog, r), NEW m, m = Len(prog) + 1,
         NEW n \in 0..Len(prog), NEW c \in Nodes
  PROVE  c \in Collect(n)' <=> c \in Collect(n)
<1>1. /\ Nodes = 1..Len(prog) /\ Nodes' = 1..m /\ Len(prog) \in Nat
      /\ \A k \in 0..Len(prog) : Kind(k)' = Kind(k) /\ Ancestors(k)' = Ancestors(k)
  BY Written
<1>2. c \in 0..Len(prog) /\ c \in Nodes' /\ Kind(c)' = Kind(c) /\ Ancestors(c)' = Ancestors(c)
  BY <1>1
<1>3. Ancestors(c) \subseteq 0..(c - 1)
  BY <1>2, InsideBody
<1>4. \A a \in Ancestors(c) : Kind(a)' = Kind(a)
  BY <1>1, <1>2, <1>3
<1> QED
  BY <1>2, <1>4 DEF Collect

LEMMA PlacedWhenWritten ==
  ASSUME Body, NEW r \in Node, prog' = Append(prog, r), r.up \in 0..Len(prog),
         r.around = {r.up} \cup Ancestors(r.up), NEW m, m = Len(prog) + 1,
         Fits(r.up, r.slot), Accepted(Cardinality(r.around)), Placed(r.kind, r.around)
  PROVE  \A n \in Nodes' : WellPlaced(n)'
<1>1. /\ Len(prog) \in Nat /\ Nodes = 1..Len(prog) /\ Nodes' = 1..m
      /\ \A n \in Nodes : prog'[n] = prog[n]
      /\ prog'[m] = r
      /\ \A n \in 0..Len(prog) : Kind(n)' = Kind(n) /\ Ancestors(n)' = Ancestors(n)
      /\ Kind(m)' = r.kind /\ Ancestors(m)' = r.around
      /\ \A n, slot : Kids(n, slot)' =
           Kids(n, slot) \cup (IF r.up = n /\ r.slot = slot THEN {m} ELSE {})
  BY Written
<1>2. ASSUME NEW n \in Nodes PROVE WellPlaced(n)'
  <2>1. Nested(n) /\ WellPlaced(n) /\ n \in 1..Len(prog)
    BY <1>1 DEF Body
  <2>2. PICK u \in 0..Len(prog) : u = prog[n].up
    BY <2>1 DEF Nested
  <2>3. /\ prog'[n] = prog[n]
        /\ \A a \in prog[n].around : Kind(a)' = Kind(a)
        /\ Kind(n)' = Kind(n) /\ Kind(u)' = Kind(u)
    BY <1>1, <2>1 DEF Nested
  <2>4. ASSUME prog[n].slot = "else" PROVE Kids(u, "body")' = Kids(u, "body")
    <3>1. Kind(u) = "if" /\ Kids(u, "body") /= {}
      BY <2>1, <2>2, <2>4 DEF WellPlaced
    <3>2. ~(r.up = u /\ r.slot = "body")
      BY <3>1 DEF Fits
    <3> QED
      BY <1>1, <3>2
  <2>5. /\ Cardinality(prog'[n].around) <= MaxNest
        /\ prog'[n].up = u /\ Kind(u)' \notin Leaves
    BY <2>1, <2>2, <2>3 DEF WellPlaced
  <2>6. prog'[n].slot = "else" =>
          /\ Kind(u)' = "if"
          /\ \E c \in Kids(u, "body")' : c < n
          /\ \A c \in Kids(u, "body")' : c < n
    BY <2>1, <2>2, <2>3, <2>4 DEF WellPlaced
  <2>7. /\ Kind(n)' = "break" => \E a \in prog'[n].around : Kind(a)' \in Breakable
        /\ Kind(n)' = "continue" => \E a \in prog'[n].around : Kind(a)' \in Loops
        /\ Kind(n)' \in Labels => \E a \in prog'[n].around : Kind(a)' = "switch"
    BY <2>1, <2>3 DEF WellPlaced
  <2> QED
    BY <2>5, <2>6, <2>7 DEF WellPlaced
<1>3. WellPlaced(m)'
  <2>1. \A a \in r.around : a \in 0..Len(prog) /\ Kind(a)' = Kind(a)
    <3>1. Ancestors(r.up) \subseteq 0..(r.up - 1)
      BY InsideBody
    <3> QED
      BY <1>1, <3>1
  <2>2. Kind(r.up)' = Kind(r.up) /\ Kind(r.up) \notin Leaves
    <3>1. Kind(r.up)' = Kind(r.up)
      BY <1>1
    <3>2. Kind(r.up) \in {"if", "block", "switch", "function"} \cup Loops
      BY DEF Fits
    <3> QED
      BY <3>1, <3>2 DEF Leaves, Labels, Loops
  <2>3. r.slot = "else" =>
          /\ Kind(r.up)' = "if"
          /\ \E c \in Kids(r.up, "body")' : c < m
          /\ \A c \in Kids(r.up, "body")' : c < m
    <3> SUFFICES ASSUME r.slot = "else" PROVE
          /\ Kind(r.up)' = "if"
          /\ \E c \in Kids(r.up, "body")' : c < m
          /\ \A c \in Kids(r.up, "body")' : c < m
      OBVIOUS
    <3>1. Kind(r.up) = "if" /\ Kids(r.up, "body") /= {}
      BY DEF Fits, Loops
    <3>2. Kids(r.up, "body")' = Kids(r.up, "body")
      BY <1>1
    <3>3. Kids(r.up, "body") \subseteq 1..Len(prog)
      BY <1>1 DEF Kids
    <3> QED
      BY <1>1, <2>2, <3>1, <3>2, <3>3
  <2>4. /\ r.kind = "break" => \E a \in r.around : Kind(a)' \in Breakable
        /\ r.kind = "continue" => \E a \in r.around : Kind(a)' \in Loops
        /\ r.kind \in Labels => \E a \in r.around : Kind(a)' = "switch"
    BY <2>1 DEF Placed, Labels
  <2>5. Cardinality(r.around) <= MaxNest
    BY DEF Accepted
  <2> QED
    BY <1>1, <2>2, <2>3, <2>4, <2>5 DEF WellPlaced
<1> QED
  BY <1>1, <1>2, <1>3

LEMMA DefaultWhenWritten ==
  ASSUME Body, NEW r \in Node, prog' = Append(prog, r), r.up \in 0..Len(prog),
         r.around = {r.up} \cup Ancestors(r.up), NEW m, m = Len(prog) + 1,
         Placed(r.kind, r.around), \A n \in Nodes' : Nested(n)'
  PROVE  OneDefault'
<1>1. /\ Len(prog) \in Nat /\ Nodes = 1..Len(prog) /\ Nodes' = 1..m
      /\ \A n \in 0..Len(prog) : Kind(n)' = Kind(n) /\ Ancestors(n)' = Ancestors(n)
      /\ Kind(m)' = r.kind /\ Ancestors(m)' = r.around
  BY Written
<1>2. r.around \subseteq 0..Len(prog) /\ \A a \in r.around : Kind(a)' = Kind(a)
  <2>1. Ancestors(r.up) \subseteq 0..(r.up - 1)
    BY InsideBody
  <2> QED
    BY <1>1, <2>1
<1>3. ASSUME NEW n \in Nodes, Kind(n) = "switch", m \in Collect(n)', r.kind = "default"
      PROVE  \A d \in Collect(n) : Kind(d) /= "default"
  <2> DEFINE switches == {a \in r.around : Kind(a) = "switch"}
  <2>1. n \in r.around /\ \A a \in r.around : a > n => Kind(a) /= "switch"
    BY <1>1, <1>2, <1>3 DEF Collect
  <2>2. switches \subseteq Nat /\ n \in switches /\ \A a \in switches : n >= a
    BY <1>1, <1>2, <1>3, <2>1
  <2>3. Max(switches) = n
    <3> HIDE DEF switches
    <3> QED
      BY <2>2, MaxUnique
  <2>4. \A d \in Nodes : Kind(d) = "default" => Innermost(d, {"switch"}) /= n
    BY <1>3, <2>3 DEF Placed
  <2>5. \A d \in Collect(n) : d \in Nodes /\ Innermost(d, {"switch"}) = n
    <3> SUFFICES ASSUME NEW d \in Collect(n) PROVE d \in Nodes /\ Innermost(d, {"switch"}) = n
      OBVIOUS
    <3> QED
      BY <1>3, InnermostIs DEF Collect
  <2> QED
    BY <2>4, <2>5
<1>4. SUFFICES ASSUME NEW n \in Nodes', NEW c \in Nodes', NEW d \in Nodes',
                      Kind(n)' = "switch", c \in Collect(n)', d \in Collect(n)',
                      Kind(c)' = "default", Kind(d)' = "default"
               PROVE  c = d
  BY DEF OneDefault
<1>5. n \in Nodes /\ Kind(n) = "switch"
  <2>1. \A k \in Nodes' : Ancestors(k)' \subseteq 0..(k - 1)
    <3> SUFFICES ASSUME NEW k \in Nodes' PROVE Ancestors(k)' \subseteq 0..(k - 1)
      OBVIOUS
    <3>1. Nested(k)' /\ k /= 0
      BY <1>1
    <3> QED
      BY <3>1 DEF Nested, Ancestors
  <2>2. n \in Ancestors(c)'
    BY <1>4 DEF Collect
  <2>3. n /= m
    BY <1>1, <2>1, <2>2
  <2> QED
    BY <1>1, <1>4, <2>3
<1>6. n \in 0..Len(prog)
  BY <1>1, <1>5
<1>7. CASE c \in Nodes /\ d \in Nodes
  <2>1. c \in Collect(n) /\ d \in Collect(n)
    BY <1>4, <1>6, <1>7, CollectWhenWritten
  <2>2. Kind(c) = "default" /\ Kind(d) = "default"
    BY <1>1, <1>4, <1>7
  <2> QED
    BY <1>5, <1>7, <2>1, <2>2 DEF Body, OneDefault
<1>8. ASSUME NEW k \in Nodes, k \in Collect(n)', Kind(k)' = "default" PROVE ~(m \in Collect(n)' /\ r.kind = "default")
  <2>1. k \in Collect(n) /\ Kind(k) = "default"
    BY <1>1, <1>6, <1>8, CollectWhenWritten
  <2> QED
    BY <1>3, <1>5, <2>1
<1>9. \A k \in Nodes' : k \in Nodes \/ k = m
  BY <1>1
<1>10. CASE c = m /\ d = m
  BY <1>10
<1>11. CASE c = m /\ d \in Nodes
  BY <1>1, <1>4, <1>8, <1>11 DEF Kind
<1>12. CASE c \in Nodes /\ d = m
  BY <1>1, <1>4, <1>8, <1>12 DEF Kind
<1> QED
  BY <1>7, <1>9, <1>10, <1>11, <1>12

LEMMA SpineInside == Body => Spine \subseteq 0..Len(prog)
<1> SUFFICES ASSUME Body PROVE Spine \subseteq 0..Len(prog)
  OBVIOUS
<1>1. Len(prog) \in Nat
  BY DEF Body
<1>2. Ancestors(Len(prog)) \subseteq 0..(Len(prog) - 1)
  BY <1>1, InsideBody
<1> QED
  BY <1>1, <1>2 DEF Spine

LEMMA WriteKeeps ==
  ASSUME Body, NEW kind \in Kinds, WriteStmt(kind)
  PROVE  Body'
<1>1. PICK up \in Spine, slot \in {"body", "else"}, s \in Shapes(kind) :
        LET around == {up} \cup Ancestors(up)
            r == [kind |-> kind, up |-> up, around |-> around, slot |-> slot,
                  cond |-> s.cond, init |-> s.init, step |-> s.step]
        IN  /\ Fits(up, slot)
            /\ Accepted(Cardinality(around))
            /\ Placed(kind, around)
            /\ prog' = Append(prog, r)
  BY DEF WriteStmt
<1> DEFINE around == {up} \cup Ancestors(up)
           r == [kind |-> kind, up |-> up, around |-> around, slot |-> slot,
                 cond |-> s.cond, init |-> s.init, step |-> s.step]
<1>2. up \in 0..Len(prog) /\ around \subseteq 0..Len(prog) /\ Len(prog) \in Nat
  <2>1. up \in 0..Len(prog) /\ Len(prog) \in Nat
    BY SpineInside DEF Body
  <2>2. Ancestors(up) \subseteq 0..(up - 1)
    BY <2>1, InsideBody
  <2> QED
    BY <2>1, <2>2
<1>3. s.cond \in Conditions /\ s.init \in BOOLEAN /\ s.step \in BOOLEAN
  <2>1. "none" \in Conditions
    BY DEF Conditions
  <2>2. CASE kind \in {"if", "while", "do"}
    <3>1. Shapes(kind) = {[cond |-> c, init |-> FALSE, step |-> FALSE] : c \in Conds \ {"none"}}
      BY <2>2 DEF Shapes
    <3>2. PICK c \in Conds : s = [cond |-> c, init |-> FALSE, step |-> FALSE]
      BY <3>1
    <3> QED
      BY <3>2, StmtGenAssumption
  <2>3. CASE kind = "for"
    BY <2>3, StmtGenAssumption DEF Shapes
  <2>4. CASE kind \notin {"if", "while", "do", "for"}
    <3>1. Shapes(kind) = {[cond |-> "none", init |-> FALSE, step |-> FALSE]}
      BY <2>4 DEF Shapes
    <3>2. s = [cond |-> "none", init |-> FALSE, step |-> FALSE]
      BY <3>1
    <3> QED
      BY <2>1, <3>2
  <2> QED
    BY <2>2, <2>3, <2>4
<1>4. r \in Node
  <2>1. kind \in StmtKinds
    BY StmtGenAssumption
  <2>2. around \in SUBSET Nat /\ up \in Nat
    BY <1>2
  <2> HIDE DEF around
  <2> QED
    BY <1>3, <2>1, <2>2 DEF Node
<1>5. /\ r.up = up /\ r.slot = slot /\ r.kind = kind /\ r.around = {up} \cup Ancestors(up)
      /\ prog' = Append(prog, r)
      /\ Fits(up, slot) /\ Accepted(Cardinality(around)) /\ Placed(kind, around)
  BY <1>1
<1> HIDE DEF r
<1>6. PICK m : m = Len(prog) + 1
  OBVIOUS
<1>7. \A n \in Nodes' : Nested(n)'
  BY <1>4, <1>5, <1>6, NestedWhenWritten
<1>8. \A n \in Nodes' : WellPlaced(n)'
  BY <1>2, <1>4, <1>5, <1>6, PlacedWhenWritten
<1>9. OneDefault'
  BY <1>2, <1>4, <1>5, <1>6, <1>7, DefaultWhenWritten
<1>10. (prog \in Seq(Node))'
  BY <1>4, <1>5, <1>6, Written
<1> QED
  BY <1>7, <1>8, <1>9, <1>10 DEF Body

(***************************************************************************)
(* Lines: what they define and where they jump.                            *)
(***************************************************************************)
Adds(code, defs, jumps) ==
  /\ code \in Seq(Lines)
  /\ Defs(code) = defs
  /\ Jumps(code) = jumps
  /\ DefinedOnce(code)

LEMMA NamesAreLabels ==
  /\ \A name \in LabelNames, id \in Nat : Name(name, id) \in LabelSet
  /\ \A id, index \in Nat : CaseName(id, index) \in LabelSet
  BY DEF Name, CaseName, LabelSet, LabelNames, Labels

LEMMA LinesAre ==
  /\ \A l \in LabelSet : /\ Label(l) \in Lines /\ Label(l).op = "label" /\ Label(l).label = l
                         /\ Jmp(l) \in Lines /\ Jmp(l).op = "jmp" /\ Jmp(l).label = l
                         /\ Je(l) \in Lines /\ Je(l).op = "je" /\ Je(l).label = l
                         /\ Jne(l) \in Lines /\ Jne(l).op = "jne" /\ Jne(l).label = l
                         /\ \A v \in Nat : /\ JeVal(v, l) \in Lines
                                           /\ JeVal(v, l).op = "je" /\ JeVal(v, l).label = l
  /\ \A n \in 0..Len(prog), part \in Parts :
       Eval(n, part) \in Lines /\ Eval(n, part).op = "eval"
  /\ Ret \in Lines /\ Ret.op = "ret"
<1>1. \A l \in LabelSet : /\ Label(l) \in Lines /\ Label(l).op = "label" /\ Label(l).label = l
                          /\ Jmp(l) \in Lines /\ Jmp(l).op = "jmp" /\ Jmp(l).label = l
  BY DEF Lines, Label, Jmp
<1>2. \A l \in LabelSet : /\ Je(l) \in Lines /\ Je(l).op = "je" /\ Je(l).label = l
                          /\ Jne(l) \in Lines /\ Jne(l).op = "jne" /\ Jne(l).label = l
  BY DEF Lines, Je, Jne
<1>3. \A l \in LabelSet, v \in Nat :
        JeVal(v, l) \in Lines /\ JeVal(v, l).op = "je" /\ JeVal(v, l).label = l
  BY DEF Lines, JeVal
<1>4. \A n \in 0..Len(prog), part \in Parts :
        Eval(n, part) \in Lines /\ Eval(n, part).op = "eval"
  BY DEF Lines, Eval
<1>5. Ret \in Lines /\ Ret.op = "ret"
  BY DEF Lines, Ret
<1> QED
  BY <1>1, <1>2, <1>3, <1>4, <1>5

LEMMA AddsOne ==
  ASSUME NEW x \in Lines
  PROVE  Adds(<<x>>, IF x.op = "label" THEN {x.label} ELSE {},
                     IF x.op \in {"jmp", "je", "jne"} THEN {x.label} ELSE {})
<1>1. <<x>> \in Seq(Lines) /\ DOMAIN <<x>> = {1} /\ <<x>>[1] = x
  OBVIOUS
<1>2. DefinedOnce(<<x>>)
  BY <1>1 DEF DefinedOnce
<1>3. Defs(<<x>>) = IF x.op = "label" THEN {x.label} ELSE {}
  BY <1>1 DEF Defs
<1>4. Jumps(<<x>>) = IF x.op \in {"jmp", "je", "jne"} THEN {x.label} ELSE {}
  BY <1>1 DEF Jumps
<1> QED
  BY <1>1, <1>2, <1>3, <1>4 DEF Adds

LEMMA AddsNone == Adds(<<>>, {}, {})
  BY DEF Adds, Defs, Jumps, DefinedOnce

LEMMA AddsBoth ==
  ASSUME NEW a, NEW b, NEW d, NEW e, NEW j, NEW k, Adds(a, d, j), Adds(b, e, k),
         d \cap e = {}
  PROVE  Adds(a \o b, d \cup e, j \cup k)
<1>1. /\ a \in Seq(Lines) /\ b \in Seq(Lines)
      /\ Defs(a) = d /\ Defs(b) = e /\ Jumps(a) = j /\ Jumps(b) = k
      /\ DefinedOnce(a) /\ DefinedOnce(b)
  BY DEF Adds
<1> DEFINE c == a \o b
<1>2. /\ c \in Seq(Lines) /\ Len(a) \in Nat /\ Len(b) \in Nat
      /\ DOMAIN a = 1..Len(a) /\ DOMAIN b = 1..Len(b) /\ DOMAIN c = 1..(Len(a) + Len(b))
      /\ \A i \in 1..Len(a) : c[i] = a[i]
      /\ \A i \in 1..Len(b) : c[i + Len(a)] = b[i]
  BY <1>1
<1>3. /\ \A i \in DOMAIN a : i \in DOMAIN c /\ c[i] = a[i]
      /\ \A i \in DOMAIN b : i + Len(a) \in DOMAIN c /\ c[i + Len(a)] = b[i]
      /\ \A i \in DOMAIN c : \/ i \in DOMAIN a /\ c[i] = a[i]
                             \/ i - Len(a) \in DOMAIN b /\ c[i] = b[i - Len(a)] /\ i \notin DOMAIN a
  <2>1. /\ \A i \in DOMAIN a : i \in DOMAIN c /\ c[i] = a[i]
        /\ \A i \in DOMAIN b : i + Len(a) \in DOMAIN c /\ c[i + Len(a)] = b[i]
    BY <1>2
  <2>2. ASSUME NEW i \in DOMAIN c, i \notin DOMAIN a
        PROVE  i - Len(a) \in DOMAIN b /\ c[i] = b[i - Len(a)]
    <3>1. i \in Nat /\ i - Len(a) \in 1..Len(b) /\ (i - Len(a)) + Len(a) = i
      BY <1>2, <2>2
    <3> QED
      BY <1>2, <3>1
  <2> QED
    BY <2>1, <2>2
<1> HIDE DEF c
<1>4. Defs(c) = d \cup e
  <2>1. \A l \in Defs(c) : l \in d \cup e
    BY <1>1, <1>3 DEF Defs
  <2>2. \A l \in d : l \in Defs(c)
    BY <1>1, <1>3 DEF Defs
  <2>3. \A l \in e : l \in Defs(c)
    BY <1>1, <1>3 DEF Defs
  <2> QED
    BY <2>1, <2>2, <2>3
<1>5. Jumps(c) = j \cup k
  <2>1. \A l \in Jumps(c) : l \in j \cup k
    BY <1>1, <1>3 DEF Jumps
  <2>2. \A l \in j : l \in Jumps(c)
    BY <1>1, <1>3 DEF Jumps
  <2>3. \A l \in k : l \in Jumps(c)
    BY <1>1, <1>3 DEF Jumps
  <2> QED
    BY <2>1, <2>2, <2>3
<1>6. DefinedOnce(c)
  <2> SUFFICES ASSUME NEW i \in DOMAIN c, NEW m \in DOMAIN c, c[i].op = "label", c[m].op = "label",
                      c[i].label = c[m].label
               PROVE  i = m
    BY DEF DefinedOnce
  <2>1. CASE i \in DOMAIN a /\ m \in DOMAIN a
    BY <1>1, <1>3, <2>1 DEF DefinedOnce
  <2>2. CASE i \notin DOMAIN a /\ m \notin DOMAIN a
    <3>1. i - Len(a) = m - Len(a)
      BY <1>1, <1>3, <2>2 DEF DefinedOnce
    <3> QED
      BY <1>2, <3>1
  <2>3. ASSUME NEW x \in DOMAIN c, NEW y \in DOMAIN c, c[x].op = "label", c[y].op = "label",
               x \in DOMAIN a, y \notin DOMAIN a
        PROVE  c[x].label /= c[y].label
    <3>1. c[x].label \in d
      BY <1>1, <1>3, <2>3 DEF Defs
    <3>2. c[y].label \in e
      BY <1>1, <1>3, <2>3 DEF Defs
    <3>3. c[x].label \notin e
      BY <3>1
    <3> QED
      BY <3>2, <3>3
  <2>4. CASE i \in DOMAIN a /\ m \notin DOMAIN a
    BY <2>3, <2>4
  <2>5. CASE i \notin DOMAIN a /\ m \in DOMAIN a
    BY <2>3, <2>5
  <2> QED
    BY <2>1, <2>2, <2>4, <2>5
<1> QED
  BY <1>2, <1>4, <1>5, <1>6 DEF Adds, c

LEMMA AppendIs ==
  ASSUME NEW S, NEW x \in S, NEW p \in Seq(S)
  PROVE  Append(p, x) = p \o <<x>>
  OBVIOUS

LEMMA Pairs ==
  /\ \A x, y : <<x, y>> = <<x>> \o <<y>>
  /\ \A x, y, z : <<x, y, z>> = <<x, y>> \o <<z>>
<1>1. ASSUME NEW x, NEW y PROVE <<x, y>> = <<x>> \o <<y>>
  <2>1. <<x, y>> = Append(<<x>>, y) /\ <<x>> \in Seq({x, y}) /\ y \in {x, y}
    OBVIOUS
  <2> QED
    BY <2>1, AppendIs
<1>2. ASSUME NEW x, NEW y, NEW z PROVE <<x, y, z>> = <<x, y>> \o <<z>>
  <2>1. <<x, y, z>> = Append(<<x, y>>, z) /\ <<x, y>> \in Seq({x, y, z}) /\ z \in {x, y, z}
    OBVIOUS
  <2> QED
    BY <2>1, AppendIs
<1> QED
  BY <1>1, <1>2

LEMMA ReturnedAfter ==
  ASSUME NEW a \in Seq(Lines), NEW b \in Seq(Lines), Returned(b)
  PROVE  Returned(a \o b)
<1>1. Len(a) \in Nat /\ Len(b) \in Nat /\ Len(b) > 0 /\ Len(a \o b) = Len(a) + Len(b)
      /\ b[Len(b)] = Ret
  BY DEF Returned
<1>2. (a \o b)[Len(a) + Len(b)] = b[Len(b)]
  BY <1>1
<1> QED
  BY <1>1, <1>2 DEF Returned

LEMMA LabelsTyped ==
  ASSUME NEW code \in Seq(Lines)
  PROVE  Defs(code) \subseteq LabelSet /\ Jumps(code) \subseteq LabelSet
<1>1. \A x \in Lines : x.op \in {"label", "jmp", "je", "jne"} => x.label \in LabelSet
  BY DEF Lines, Ret
<1>2. \A i \in DOMAIN code : code[i] \in Lines
  OBVIOUS
<1> QED
  BY <1>1, <1>2 DEF Defs, Jumps

(***************************************************************************)
(* The stacks of targets.                                                  *)
(***************************************************************************)
LEMMA TracksPush ==
  ASSUME NEW E, NEW calls \in Seq(Calls), NEW stack \in Seq(E), NEW kinds,
         NEW entry, NEW x \in Calls, Kind(x.node) \in kinds, entry[x] \in E,
         calls /= <<>>, Tracks(stack, calls, kinds, entry)
  PROVE  Tracks(Append(stack, entry[x]), Append(calls, x), kinds, entry)
<1> DEFINE n == Len(stack)
           k == Len(calls)
           stack1 == Append(stack, entry[x])
           calls1 == Append(calls, x)
<1>1. PICK f \in [DOMAIN stack -> DOMAIN calls] :
        /\ \A i \in DOMAIN stack : /\ f[i] > i
                                   /\ Kind(calls[f[i]].node) \in kinds
                                   /\ stack[i] = entry[calls[f[i]]]
        /\ \A i, j \in DOMAIN stack : i < j => f[i] < f[j]
        /\ \A j \in DOMAIN calls : Kind(calls[j].node) \in kinds => \E i \in DOMAIN stack : f[i] = j
  BY DEF Tracks
<1>2. /\ n \in Nat /\ k \in Nat /\ k > 0 /\ DOMAIN stack = 1..n /\ DOMAIN calls = 1..k
      /\ DOMAIN stack1 = 1..(n + 1) /\ DOMAIN calls1 = 1..(k + 1)
      /\ \A i \in 1..n : stack1[i] = stack[i]
      /\ \A i \in 1..k : calls1[i] = calls[i]
      /\ stack1[n + 1] = entry[x] /\ calls1[k + 1] = x
  OBVIOUS
<1>3. k > n
  <2>1. CASE n = 0
    BY <1>2, <2>1
  <2>2. CASE n /= 0
    <3>1. n \in DOMAIN stack /\ f[n] \in 1..k /\ f[n] > n
      BY <1>1, <1>2, <2>2
    <3> QED
      BY <1>2, <3>1
  <2> QED
    BY <2>1, <2>2
<1> HIDE DEF stack1, calls1
<1> DEFINE h == [i \in 1..(n + 1) |-> IF i = n + 1 THEN k + 1 ELSE f[i]]
<1>4. /\ \A i \in 1..n : h[i] = f[i] /\ h[i] \in 1..k /\ i < n + 1
      /\ h[n + 1] = k + 1
      /\ \A i \in 1..(n + 1) : i \in 1..n \/ i = n + 1
      /\ \A i \in 1..(k + 1) : i \in 1..k \/ i = k + 1
      /\ h \in [DOMAIN stack1 -> DOMAIN calls1]
  <2> HIDE DEF n, k
  <2>1. f \in [1..n -> 1..k]
    BY <1>2
  <2>2. /\ \A i \in 1..n : h[i] = f[i] /\ h[i] \in 1..k /\ i < n + 1
        /\ h[n + 1] = k + 1
        /\ \A i \in 1..(n + 1) : i \in 1..n \/ i = n + 1
        /\ \A i \in 1..(k + 1) : i \in 1..k \/ i = k + 1
    BY ONLY <1>2, <2>1
  <2>3. \A i \in 1..(n + 1) : (IF i = n + 1 THEN k + 1 ELSE f[i]) \in 1..(k + 1)
    BY ONLY <1>2, <2>1, <2>2
  <2>4. h \in [1..(n + 1) -> 1..(k + 1)]
    BY ONLY <2>3
  <2> QED
    BY ONLY <1>2, <2>2, <2>4
<1> HIDE DEF h
<1>5. \A i \in DOMAIN stack1 : /\ h[i] > i
                               /\ Kind(calls1[h[i]].node) \in kinds
                               /\ stack1[i] = entry[calls1[h[i]]]
  <2> SUFFICES ASSUME NEW i \in 1..(n + 1)
               PROVE  /\ h[i] > i
                      /\ Kind(calls1[h[i]].node) \in kinds
                      /\ stack1[i] = entry[calls1[h[i]]]
    BY <1>2
  <2>1. CASE i \in 1..n
    BY <1>1, <1>2, <1>4, <2>1
  <2>2. CASE i = n + 1
    BY <1>2, <1>3, <1>4, <2>2
  <2> QED
    BY <1>4, <2>1, <2>2
<1>6. \A i, j \in DOMAIN stack1 : i < j => h[i] < h[j]
  <2> SUFFICES ASSUME NEW i \in 1..(n + 1), NEW j \in 1..(n + 1), i < j
               PROVE  h[i] < h[j]
    BY <1>2
  <2>1. i \in 1..n
    BY <1>2
  <2>2. CASE j \in 1..n
    BY <1>1, <1>2, <1>4, <2>1, <2>2
  <2>3. CASE j = n + 1
    BY <1>2, <1>4, <2>1, <2>3
  <2> QED
    BY <1>4, <2>2, <2>3
<1>7. \A j \in DOMAIN calls1 : Kind(calls1[j].node) \in kinds => \E i \in DOMAIN stack1 : h[i] = j
  <2> SUFFICES ASSUME NEW j \in 1..(k + 1), Kind(calls1[j].node) \in kinds
               PROVE  \E i \in 1..(n + 1) : h[i] = j
    BY <1>2
  <2>1. CASE j \in 1..k
    <3>1. PICK i \in 1..n : f[i] = j
      BY <1>1, <1>2, <2>1
    <3> QED
      BY <1>2, <1>4, <3>1
  <2>2. CASE j = k + 1
    BY <1>2, <1>4, <2>2
  <2> QED
    BY <1>4, <2>1, <2>2
<1>8. Tracks(stack1, calls1, kinds, entry)
  BY <1>4, <1>5, <1>6, <1>7 DEF Tracks
<1> QED
  BY <1>8 DEF stack1, calls1

(* A call of another kind changes no stack. *)
LEMMA TracksSkip ==
  ASSUME NEW E, NEW calls \in Seq(Calls), NEW stack \in Seq(E), NEW kinds,
         NEW entry, NEW x \in Calls, Kind(x.node) \notin kinds,
         Tracks(stack, calls, kinds, entry)
  PROVE  Tracks(stack, Append(calls, x), kinds, entry)
<1> DEFINE calls1 == Append(calls, x)
<1>1. PICK f \in [DOMAIN stack -> DOMAIN calls] :
        /\ \A i \in DOMAIN stack : /\ f[i] > i
                                   /\ Kind(calls[f[i]].node) \in kinds
                                   /\ stack[i] = entry[calls[f[i]]]
        /\ \A i, j \in DOMAIN stack : i < j => f[i] < f[j]
        /\ \A j \in DOMAIN calls : Kind(calls[j].node) \in kinds => \E i \in DOMAIN stack : f[i] = j
  BY DEF Tracks
<1>2. /\ \A i \in DOMAIN calls : calls1[i] = calls[i] /\ i \in DOMAIN calls1
      /\ \A i \in DOMAIN calls1 : i \in DOMAIN calls \/ calls1[i] = x
  OBVIOUS
<1> HIDE DEF calls1
<1>3. f \in [DOMAIN stack -> DOMAIN calls1]
  BY <1>2
<1>4. \A j \in DOMAIN calls1 : Kind(calls1[j].node) \in kinds => \E i \in DOMAIN stack : f[i] = j
  BY <1>1, <1>2
<1>5. \A i \in DOMAIN stack : calls1[f[i]] = calls[f[i]]
  BY <1>2
<1>6. \A i \in DOMAIN stack : /\ f[i] > i
                              /\ Kind(calls1[f[i]].node) \in kinds
                              /\ stack[i] = entry[calls1[f[i]]]
  BY <1>1, <1>5
<1>7. \A i, j \in DOMAIN stack : i < j => f[i] < f[j]
  BY <1>1
<1>8. Tracks(stack, calls1, kinds, entry)
  BY ONLY <1>3, <1>4, <1>6, <1>7 DEF Tracks
<1> QED
  BY <1>8 DEF calls1

LEMMA TracksLen ==
  ASSUME NEW E, NEW calls \in Seq(Calls), calls /= <<>>, NEW stack \in Seq(E), NEW kinds,
         NEW entry, Tracks(stack, calls, kinds, entry)
  PROVE  Len(stack) < Len(calls)
<1>1. PICK f \in [DOMAIN stack -> DOMAIN calls] : \A i \in DOMAIN stack : f[i] > i
  BY DEF Tracks
<1>2. CASE Len(stack) = 0
  BY <1>2
<1>3. CASE Len(stack) /= 0
  <2>1. Len(stack) \in DOMAIN stack
    BY <1>3
  <2>2. f[Len(stack)] \in DOMAIN calls /\ f[Len(stack)] > Len(stack)
    BY <1>1, <2>1
  <2> QED
    BY <2>2
<1> QED
  BY <1>2, <1>3

(* The entry on top is that of the innermost call of these kinds. *)
LEMMA TracksLast ==
  ASSUME NEW E, NEW calls \in Seq(Calls), NEW stack \in Seq(E), NEW kinds, NEW entry,
         Tracks(stack, calls, kinds, entry),
         NEW j \in DOMAIN calls, Kind(calls[j].node) \in kinds
  PROVE  /\ stack /= <<>>
         /\ \E i \in DOMAIN calls :
              /\ Kind(calls[i].node) \in kinds /\ stack[Len(stack)] = entry[calls[i]]
              /\ \A m \in DOMAIN calls : m > i => Kind(calls[m].node) \notin kinds
<1>1. PICK f \in [DOMAIN stack -> DOMAIN calls] :
        /\ \A i \in DOMAIN stack : /\ Kind(calls[f[i]].node) \in kinds
                                   /\ stack[i] = entry[calls[f[i]]]
        /\ \A i, m \in DOMAIN stack : i < m => f[i] < f[m]
        /\ \A m \in DOMAIN calls : Kind(calls[m].node) \in kinds => \E i \in DOMAIN stack : f[i] = m
  BY DEF Tracks
<1>2. PICK i \in DOMAIN stack : f[i] = j
  BY <1>1
<1>3. Len(stack) \in Nat /\ DOMAIN stack = 1..Len(stack) /\ Len(stack) \in DOMAIN stack
  BY <1>2
<1>4. f[Len(stack)] \in DOMAIN calls /\ DOMAIN calls \subseteq Nat
  BY <1>3
<1>5. ASSUME NEW m \in DOMAIN calls, m > f[Len(stack)] PROVE Kind(calls[m].node) \notin kinds
  <2> SUFFICES ASSUME Kind(calls[m].node) \in kinds PROVE FALSE
    OBVIOUS
  <2>1. PICK o \in DOMAIN stack : f[o] = m
    BY <1>1
  <2>2. o \in 1..Len(stack) /\ o /= Len(stack)
    BY <1>3, <1>4, <1>5, <2>1
  <2>3. o < Len(stack)
    BY <1>3, <2>2
  <2>4. f[o] < f[Len(stack)]
    BY <1>1, <1>3, <2>3
  <2> QED
    BY <1>4, <1>5, <2>1, <2>4
<1>6. PICK top \in DOMAIN calls : top = f[Len(stack)]
  BY <1>4
<1>7. Kind(calls[top].node) \in kinds /\ stack[Len(stack)] = entry[calls[top]]
  BY <1>1, <1>3, <1>6
<1>8. \A m \in DOMAIN calls : m > top => Kind(calls[m].node) \notin kinds
  BY <1>5, <1>6
<1>9. stack /= <<>>
  BY <1>3
<1> QED
  BY <1>7, <1>8, <1>9

LEMMA FrontIs ==
  ASSUME NEW E, NEW seq \in Seq(E), seq /= <<>>
  PROVE  /\ Front(seq) \in Seq(E) /\ Len(Front(seq)) = Len(seq) - 1 /\ Len(seq) - 1 \in Nat
         /\ DOMAIN Front(seq) = 1..(Len(seq) - 1)
         /\ \A i \in 1..(Len(seq) - 1) : Front(seq)[i] = seq[i]
         /\ Last(seq) = seq[Len(seq)] /\ Len(seq) \in DOMAIN seq /\ Last(seq) \in E
<1>1. /\ Len(seq) \in Nat /\ Len(seq) > 0 /\ DOMAIN seq = 1..Len(seq) /\ \A i \in 1..Len(seq) : seq[i] \in E
      /\ Front(seq) = SubSeq(seq, 1, Len(seq) - 1) /\ Last(seq) = seq[Len(seq)]
  BY DEF Front, Last
<1>2. \A i \in 1..(Len(seq) - 1) : i \in 1..Len(seq) /\ seq[i] \in E
  BY <1>1
<1>3. /\ SubSeq(seq, 1, Len(seq) - 1) \in Seq(E)
      /\ Len(SubSeq(seq, 1, Len(seq) - 1)) = IF 1 <= Len(seq) - 1 THEN Len(seq) - 1 - 1 + 1 ELSE 0
      /\ \A i \in 1..(Len(seq) - 1 - 1 + 1) : SubSeq(seq, 1, Len(seq) - 1)[i] = seq[1 + i - 1]
  BY <1>1, <1>2, SubSeqProperties
<1> QED
  BY <1>1, <1>2, <1>3

LEMMA TracksPop ==
  ASSUME NEW E, NEW calls \in Seq(Calls), calls /= <<>>, NEW stack \in Seq(E), NEW kinds,
         NEW entry, Kind(calls[Len(calls)].node) \in kinds,
         Tracks(stack, calls, kinds, entry)
  PROVE  /\ stack /= <<>> /\ Front(stack) \in Seq(E)
         /\ Tracks(Front(stack), Front(calls), kinds, entry)
<1> DEFINE n == Len(stack)
           k == Len(calls)
<1>1. PICK f \in [DOMAIN stack -> DOMAIN calls] :
        /\ \A i \in DOMAIN stack : /\ f[i] > i
                                   /\ Kind(calls[f[i]].node) \in kinds
                                   /\ stack[i] = entry[calls[f[i]]]
        /\ \A i, j \in DOMAIN stack : i < j => f[i] < f[j]
        /\ \A j \in DOMAIN calls : Kind(calls[j].node) \in kinds => \E i \in DOMAIN stack : f[i] = j
  BY DEF Tracks
<1>2. PICK o \in DOMAIN stack : f[o] = k
  BY <1>1
<1>3. /\ n \in Nat /\ k \in Nat /\ n > 0 /\ k > 0 /\ DOMAIN stack = 1..n /\ DOMAIN calls = 1..k
  BY <1>2
<1>4. o = n
  <2> SUFFICES ASSUME o /= n PROVE FALSE
    OBVIOUS
  <2>1. o < n /\ n \in DOMAIN stack
    BY <1>3
  <2>2. f[o] < f[n] /\ f[n] \in 1..k
    BY <1>1, <1>3, <2>1
  <2> QED
    BY <1>2, <1>3, <2>2
<1> DEFINE stack1 == Front(stack)
           calls1 == Front(calls)
<1>5. /\ stack /= <<>> /\ stack1 \in Seq(E) /\ DOMAIN stack1 = 1..(n - 1) /\ DOMAIN calls1 = 1..(k - 1)
      /\ \A i \in 1..(n - 1) : stack1[i] = stack[i]
      /\ \A i \in 1..(k - 1) : calls1[i] = calls[i]
  <2>1. stack /= <<>>
    BY <1>3
  <2>2. stack1 \in Seq(E) /\ DOMAIN stack1 = 1..(n - 1) /\ \A i \in 1..(n - 1) : stack1[i] = stack[i]
    BY <2>1, FrontIs
  <2>3. DOMAIN calls1 = 1..(k - 1) /\ \A i \in 1..(k - 1) : calls1[i] = calls[i]
    BY FrontIs
  <2> QED
    BY <2>1, <2>2, <2>3
<1> HIDE DEF stack1, calls1
<1>6. \A i \in 1..(n - 1) : i \in 1..n /\ f[i] \in 1..(k - 1)
  <2> SUFFICES ASSUME NEW i \in 1..(n - 1) PROVE i \in 1..n /\ f[i] \in 1..(k - 1)
    OBVIOUS
  <2>1. i \in 1..n /\ n \in 1..n /\ i < n
    BY <1>3
  <2>2. f[i] < f[n] /\ f[n] = k /\ f[i] \in 1..k
    BY <1>1, <1>2, <1>3, <1>4, <2>1
  <2> QED
    BY <1>3, <2>1, <2>2
<1> DEFINE h == [i \in 1..(n - 1) |-> f[i]]
<1>7. h \in [DOMAIN stack1 -> DOMAIN calls1] /\ \A i \in 1..(n - 1) : h[i] = f[i]
  BY <1>5, <1>6
<1> HIDE DEF h
<1>8. \A i \in DOMAIN stack1 : /\ h[i] > i
                               /\ Kind(calls1[h[i]].node) \in kinds
                               /\ stack1[i] = entry[calls1[h[i]]]
  <2> SUFFICES ASSUME NEW i \in 1..(n - 1)
               PROVE  /\ h[i] > i
                      /\ Kind(calls1[h[i]].node) \in kinds
                      /\ stack1[i] = entry[calls1[h[i]]]
    BY <1>5
  <2>1. i \in DOMAIN stack /\ h[i] = f[i] /\ calls1[f[i]] = calls[f[i]] /\ stack1[i] = stack[i]
    BY <1>3, <1>5, <1>6, <1>7
  <2> QED
    BY <1>1, <2>1
<1>9. \A i, j \in DOMAIN stack1 : i < j => h[i] < h[j]
  BY <1>1, <1>3, <1>5, <1>6, <1>7
<1>10. \A j \in DOMAIN calls1 : Kind(calls1[j].node) \in kinds => \E i \in DOMAIN stack1 : h[i] = j
  <2> SUFFICES ASSUME NEW j \in 1..(k - 1), Kind(calls1[j].node) \in kinds
               PROVE  \E i \in 1..(n - 1) : h[i] = j
    BY <1>5
  <2>1. j \in 1..k /\ j /= k /\ calls1[j] = calls[j]
    <3>1. j \in 1..k /\ j /= k
      <4>1. k \in Nat
        BY <1>3
      <4> HIDE DEF k
      <4> QED
        BY ONLY <4>1, j \in 1..(k - 1)
    <3> QED
      BY <1>5, <3>1
  <2>2. PICK i \in 1..n : f[i] = j
    BY <1>1, <1>3, <2>1
  <2>3. i \in 1..(n - 1)
    <3>1. i /= n
      BY <1>2, <1>4, <2>1, <2>2
    <3>2. n \in Nat /\ i \in 1..n
      BY <1>3
    <3> HIDE DEF n
    <3> QED
      BY ONLY <3>1, <3>2
  <2> QED
    BY <1>7, <2>2, <2>3
<1>11. Tracks(stack1, calls1, kinds, entry)
  BY ONLY <1>7, <1>8, <1>9, <1>10 DEF Tracks
<1> QED
  BY <1>5, <1>11 DEF stack1, calls1

LEMMA TracksSkipPop ==
  ASSUME NEW E, NEW calls \in Seq(Calls), calls /= <<>>, NEW stack \in Seq(E), NEW kinds,
         NEW entry, Kind(calls[Len(calls)].node) \notin kinds,
         Tracks(stack, calls, kinds, entry)
  PROVE  Tracks(stack, Front(calls), kinds, entry)
<1> DEFINE k == Len(calls)
<1>1. PICK f \in [DOMAIN stack -> DOMAIN calls] :
        /\ \A i \in DOMAIN stack : /\ f[i] > i
                                   /\ Kind(calls[f[i]].node) \in kinds
                                   /\ stack[i] = entry[calls[f[i]]]
        /\ \A i, j \in DOMAIN stack : i < j => f[i] < f[j]
        /\ \A j \in DOMAIN calls : Kind(calls[j].node) \in kinds => \E i \in DOMAIN stack : f[i] = j
  BY DEF Tracks
<1> DEFINE calls1 == Front(calls)
<1>2. /\ k \in Nat /\ k > 0 /\ DOMAIN calls = 1..k /\ DOMAIN calls1 = 1..(k - 1)
      /\ \A i \in 1..(k - 1) : calls1[i] = calls[i] /\ i \in DOMAIN calls
  <2>1. k \in Nat /\ k > 0 /\ DOMAIN calls = 1..k
    OBVIOUS
  <2>2. DOMAIN calls1 = 1..(k - 1) /\ \A i \in 1..(k - 1) : calls1[i] = calls[i]
    BY FrontIs
  <2> QED
    BY <2>1, <2>2
<1> HIDE DEF calls1
<1>3. \A i \in DOMAIN stack : f[i] \in 1..(k - 1)
  <2> SUFFICES ASSUME NEW i \in DOMAIN stack PROVE f[i] \in 1..(k - 1)
    OBVIOUS
  <2>1. f[i] \in 1..k /\ f[i] /= k
    BY <1>1, <1>2
  <2> QED
    BY <1>2, <2>1
<1>4. f \in [DOMAIN stack -> DOMAIN calls1]
  BY <1>2, <1>3
<1>5. \A i \in DOMAIN stack : /\ f[i] > i
                              /\ Kind(calls1[f[i]].node) \in kinds
                              /\ stack[i] = entry[calls1[f[i]]]
  BY <1>1, <1>2, <1>3
<1>6. \A i, j \in DOMAIN stack : i < j => f[i] < f[j]
  BY <1>1
<1>7. \A j \in DOMAIN calls1 : Kind(calls1[j].node) \in kinds => \E i \in DOMAIN stack : f[i] = j
  BY <1>1, <1>2
<1>8. Tracks(stack, calls1, kinds, entry)
  BY ONLY <1>4, <1>5, <1>6, <1>7 DEF Tracks
<1> QED
  BY <1>8 DEF calls1

LEMMA TracksNone ==
  ASSUME NEW E, NEW calls \in Seq(Calls), NEW stack \in Seq(E), NEW kinds, NEW entry,
         Tracks(stack, calls, kinds, entry),
         \A i \in DOMAIN calls : Kind(calls[i].node) \notin kinds
  PROVE  stack = <<>>
<1>1. PICK f \in [DOMAIN stack -> DOMAIN calls] :
        \A i \in DOMAIN stack : Kind(calls[f[i]].node) \in kinds
  BY DEF Tracks
<1>2. \A i \in DOMAIN stack : FALSE
  BY <1>1
<1> QED
  BY <1>2

(***************************************************************************)
(* The pending calls, and what they are yet to come to.                     *)
(***************************************************************************)
Comes(calls, at, n) ==
  LET top == calls[Len(calls)]
  IN  /\ n \in Nodes /\ n > at
      /\ prog[n].up = top.node /\ prog[n].slot = top.slot
      /\ \A c \in Kids(top.node, top.slot) : c > at => n <= c

LEMMA PathFacts ==
  ASSUME Body, NEW calls \in Seq(Calls), NEW at \in 0..Len(prog), Path(calls, at)
  PROVE  /\ Len(prog) \in Nat /\ Nodes = 1..Len(prog)
         /\ Len(calls) \in Nat /\ Len(calls) > 0 /\ DOMAIN calls = 1..Len(calls)
         /\ Len(calls) \in DOMAIN calls
         /\ \A i \in DOMAIN calls : /\ calls[i] \in Calls
                                    /\ calls[i].node \in 0..Len(prog)
                                    /\ calls[i].slot \in {"body", "else"}
                                    /\ calls[i].id \in Nat
                                    /\ calls[i].node <= at
         /\ \A i, j \in DOMAIN calls : i < j <=> calls[i].node < calls[j].node
         /\ \A i, j \in DOMAIN calls : calls[i].node = calls[j].node => i = j
         /\ \A i \in DOMAIN calls : \A j \in 1..(i - 1) : j \in DOMAIN calls
<1>1. Len(prog) \in Nat /\ Nodes = 1..Len(prog)
  BY DEF Body, Nodes
<1>2. /\ Len(calls) \in Nat /\ Len(calls) > 0 /\ DOMAIN calls = 1..Len(calls)
      /\ Len(calls) \in DOMAIN calls
  BY DEF Path
<1>3. \A i \in DOMAIN calls : /\ calls[i] \in Calls
                              /\ calls[i].node \in 0..Len(prog)
                              /\ calls[i].slot \in {"body", "else"}
                              /\ calls[i].id \in Nat
  <2>1. \A i \in DOMAIN calls : calls[i] \in Calls
    OBVIOUS
  <2>2. \A c \in Calls : c.node \in 0..Len(prog) /\ c.slot \in {"body", "else"} /\ c.id \in Nat
    BY DEF Calls
  <2> QED
    BY <2>1, <2>2
<1>4. \A i, j \in DOMAIN calls : i < j => calls[i].node < calls[j].node
  BY DEF Path
<1>5. \A i, j \in DOMAIN calls : i < j \/ i = j \/ j < i
  BY <1>2
<1>6. calls[Len(calls)].node <= at
  <2>1. Ancestors(at) \subseteq 0..(at - 1)
    BY InsideBody
  <2>2. calls[Len(calls)].node \in {at} \cup Ancestors(at)
    BY DEF Path
  <2> QED
    BY <1>1, <2>1, <2>2
<1>7. ASSUME NEW i \in DOMAIN calls PROVE calls[i].node <= at
  <2>1. i < Len(calls) \/ i = Len(calls)
    BY <1>2
  <2>2. calls[i].node \in Int /\ calls[Len(calls)].node \in Int /\ at \in Int
    BY <1>1, <1>2, <1>3
  <2>3. calls[i].node <= calls[Len(calls)].node
    BY <1>2, <1>4, <2>1, <2>2
  <2> QED
    BY <1>6, <2>2, <2>3
<1>8. ASSUME NEW i \in DOMAIN calls, NEW j \in DOMAIN calls
      PROVE  /\ calls[i].node < calls[j].node => i < j
             /\ calls[i].node = calls[j].node => i = j
  <2>1. calls[i].node \in Int /\ calls[j].node \in Int
    BY <1>1, <1>3
  <2> QED
    BY <1>4, <1>5, <2>1
<1>9. \A i \in DOMAIN calls : \A j \in 1..(i - 1) : j \in DOMAIN calls
  BY <1>2
<1> QED
  BY <1>1, <1>2, <1>3, <1>4, <1>7, <1>8, <1>9

(* The pending calls are those of the statements around the next one. *)
LEMMA Coming ==
  ASSUME Body, NEW calls \in Seq(Calls), NEW at \in 0..Len(prog), Path(calls, at),
         NEW n, Comes(calls, at, n)
  PROVE  /\ n \in Nodes /\ n \in 1..Len(prog) /\ n > at
         /\ Ancestors(n) = {calls[j].node : j \in DOMAIN calls}
         /\ Cardinality(Ancestors(n)) = Len(calls)
         /\ \A j \in DOMAIN calls : calls[j].node < n
<1> DEFINE k == Len(calls)
           top == calls[Len(calls)]
<1>1. /\ Len(prog) \in Nat /\ Nodes = 1..Len(prog) /\ k \in Nat /\ k > 0 /\ DOMAIN calls = 1..k
      /\ k \in DOMAIN calls
      /\ \A i \in DOMAIN calls : calls[i].node \in 0..Len(prog) /\ calls[i].node <= at
  BY PathFacts
<1>2. n \in Nodes /\ n > at /\ prog[n].up = top.node
  BY DEF Comes
<1>3. n \in 1..Len(prog) /\ n \in 0..Len(prog) /\ n /= 0
  BY <1>1, <1>2
<1>4. Ancestors(n) = {top.node} \cup Ancestors(top.node)
  BY <1>2, <1>3, InsideBody
<1>5. /\ Ancestors(top.node) = {calls[j].node : j \in 1..(k - 1)}
      /\ Cardinality(Ancestors(top.node)) = k - 1
  BY <1>1 DEF Path
<1>6. Ancestors(n) = {calls[j].node : j \in DOMAIN calls}
  <2>1. \A j : j \in DOMAIN calls <=> j \in 1..(k - 1) \/ j = k
    BY <1>1
  <2> HIDE DEF k
  <2>2. top.node = calls[k].node
    BY DEF k
  <2> HIDE DEF top
  <2> QED
    BY <1>4, <1>5, <2>1, <2>2
<1>7. Cardinality(Ancestors(n)) = k
  <2>1. top.node \in 0..Len(prog)
    BY <1>1
  <2>2. Ancestors(top.node) \subseteq 0..(top.node - 1)
    BY <2>1, InsideBody
  <2>3. IsFiniteSet(0..(top.node - 1))
    <3>1. 0 \in Int /\ top.node - 1 \in Int
      BY <1>1, <2>1
    <3> QED
      BY <3>1, FS_Interval
  <2>4. IsFiniteSet(Ancestors(top.node))
    BY <2>2, <2>3, FS_Subset
  <2>5. top.node \notin Ancestors(top.node)
    BY <2>1, <2>2
  <2>6. Cardinality(Ancestors(top.node) \cup {top.node}) = Cardinality(Ancestors(top.node)) + 1
    BY <2>4, <2>5, FS_AddElement
  <2>7. Ancestors(n) = Ancestors(top.node) \cup {top.node}
    BY <1>4
  <2> QED
    BY <1>1, <1>5, <2>6, <2>7
<1>8. \A j \in DOMAIN calls : calls[j].node < n
  BY <1>1, <1>2, <1>3
<1> QED
  BY <1>2, <1>3, <1>6, <1>7, <1>8

LEMMA PathPush ==
  ASSUME Body, NEW calls \in Seq(Calls), NEW at \in 0..Len(prog), Path(calls, at),
         NEW n, Comes(calls, at, n), NEW x \in Calls, x.node = n, Kind(n) \notin Leaves
  PROVE  /\ Append(calls, x) \in Seq(Calls)
         /\ Path(Append(calls, x), n)
<1> DEFINE k == Len(calls)
           calls1 == Append(calls, x)
<1>1. /\ n \in Nodes /\ n \in 1..Len(prog)
      /\ Ancestors(n) = {calls[j].node : j \in DOMAIN calls}
      /\ Cardinality(Ancestors(n)) = k
      /\ \A j \in DOMAIN calls : calls[j].node < n
  BY Coming
<1>2. /\ k \in Nat /\ k > 0 /\ DOMAIN calls = 1..k /\ DOMAIN calls1 = 1..(k + 1) /\ Len(calls1) = k + 1
      /\ \A i \in 1..k : calls1[i] = calls[i]
      /\ calls1[k + 1] = x /\ calls1 \in Seq(Calls) /\ calls1 /= <<>>
  <2>1. k \in Nat /\ DOMAIN calls = 1..k /\ k > 0
    BY PathFacts
  <2>2. calls1 \in Seq(Calls) /\ Len(calls1) = k + 1
    OBVIOUS
  <2>3. calls1[k + 1] = x /\ \A i \in 1..k : calls1[i] = calls[i]
    OBVIOUS
  <2> HIDE DEF calls1, k
  <2> QED
    BY ONLY <2>1, <2>2, <2>3
<1> HIDE DEF calls1, k
<1>3. calls1[1] = [node |-> 0, slot |-> "body", id |-> 0]
  BY <1>2 DEF Path
<1>4. ASSUME NEW i \in DOMAIN calls1
      PROVE  /\ i > 1 => calls1[i].node /= 0
             /\ Kind(calls1[i].node) \notin Leaves
             /\ Ancestors(calls1[i].node) = {calls1[j].node : j \in 1..(i - 1)}
             /\ Cardinality(Ancestors(calls1[i].node)) = i - 1
             /\ \A j \in DOMAIN calls1 : i < j => calls1[i].node < calls1[j].node
  <2>1. CASE i \in 1..k
    <3>1. /\ i > 1 => calls[i].node /= 0
          /\ Kind(calls[i].node) \notin Leaves
          /\ Ancestors(calls[i].node) = {calls[j].node : j \in 1..(i - 1)}
          /\ Cardinality(Ancestors(calls[i].node)) = i - 1
          /\ \A j \in DOMAIN calls : i < j => calls[i].node < calls[j].node
      BY <1>2, <2>1 DEF Path
    <3>2. \A j \in 1..(i - 1) : j \in 1..k /\ calls1[j] = calls[j]
      BY <1>2, <2>1
    <3>3. calls1[i] = calls[i]
      BY <1>2, <2>1
    <3>4. {calls[j].node : j \in 1..(i - 1)} = {calls1[j].node : j \in 1..(i - 1)}
      BY <3>2
    <3>5. \A j \in DOMAIN calls1 : i < j => calls1[i].node < calls1[j].node
      <4> SUFFICES ASSUME NEW j \in 1..(k + 1), i < j PROVE calls1[i].node < calls1[j].node
        BY <1>2
      <4>1. CASE j \in 1..k
        BY <1>2, <3>1, <3>3, <4>1
      <4>2. CASE j = k + 1
        BY <1>1, <1>2, <2>1, <3>3, <4>2
      <4> QED
        BY <1>2, <4>1, <4>2
    <3> QED
      BY <3>1, <3>3, <3>4, <3>5
  <2>2. CASE i = k + 1
    <3>1. {calls[j].node : j \in DOMAIN calls} = {calls1[j].node : j \in 1..(i - 1)}
      <4>1. i - 1 = k /\ 1..(i - 1) = DOMAIN calls
        BY <1>2, <2>2
      <4> QED
        BY <1>2, <4>1
    <3>2. calls1[i].node = n /\ n /= 0
      BY <1>1, <1>2, <2>2
    <3>3. \A j \in DOMAIN calls1 : ~(i < j)
      BY <1>2, <2>2
    <3>4. i - 1 = k
      BY <1>2, <2>2
    <3> QED
      BY <1>1, <3>1, <3>2, <3>3, <3>4 DEF k
  <2> QED
    BY <1>2, <2>1, <2>2
<1>5. calls1[Len(calls1)].node \in {n} \cup Ancestors(n)
  BY <1>2
<1>6. Path(calls1, n)
  BY <1>2, <1>3, <1>4, <1>5 DEF Path
<1> QED
  BY <1>2, <1>6 DEF calls1

LEMMA PathLeaf ==
  ASSUME Body, NEW calls \in Seq(Calls), NEW at \in 0..Len(prog), Path(calls, at),
         NEW n, Comes(calls, at, n)
  PROVE  Path(calls, n)
<1>1. Ancestors(n) = {calls[j].node : j \in DOMAIN calls}
  BY Coming
<1>2. Len(calls) \in DOMAIN calls
  BY PathFacts
<1>3. calls[Len(calls)].node \in {n} \cup Ancestors(n)
  BY <1>1, <1>2
<1> QED
  BY <1>3 DEF Path

LEMMA PathPop ==
  ASSUME Body, NEW calls \in Seq(Calls), NEW at \in 0..Len(prog), Path(calls, at),
         calls[Len(calls)].node /= 0
  PROVE  /\ Front(calls) \in Seq(Calls) /\ Len(calls) > 1
         /\ Path(Front(calls), at)
<1> DEFINE k == Len(calls)
           calls1 == Front(calls)
<1>1. /\ k \in Nat /\ k > 0 /\ DOMAIN calls = 1..k /\ k \in DOMAIN calls
      /\ calls[k].node \in 0..Len(prog) /\ calls[1].node = 0
  <2>1. calls[1].node = 0
    BY DEF Path
  <2> QED
    BY <2>1, PathFacts
<1>2. k > 1
  BY <1>1
<1>3. /\ calls1 \in Seq(Calls) /\ Len(calls1) = k - 1 /\ DOMAIN calls1 = 1..(k - 1)
      /\ \A i \in 1..(k - 1) : calls1[i] = calls[i]
  <2>1. calls /= <<>>
    BY DEF Path
  <2> QED
    BY <2>1, FrontIs
<1> HIDE DEF calls1
<1>4. \A i \in 1..(k - 1) : i \in DOMAIN calls /\ \A j \in 1..(i - 1) : j \in 1..(k - 1)
  BY <1>1
<1>5. calls1 /= <<>> /\ calls1[1] = [node |-> 0, slot |-> "body", id |-> 0]
  <2>1. 1 \in 1..(k - 1)
    BY <1>1, <1>2
  <2> QED
    BY <1>3, <2>1 DEF Path
<1>6. ASSUME NEW i \in DOMAIN calls1
      PROVE  /\ i > 1 => calls1[i].node /= 0
             /\ Kind(calls1[i].node) \notin Leaves
             /\ Ancestors(calls1[i].node) = {calls1[j].node : j \in 1..(i - 1)}
             /\ Cardinality(Ancestors(calls1[i].node)) = i - 1
             /\ \A j \in DOMAIN calls1 : i < j => calls1[i].node < calls1[j].node
  <2>1. i \in DOMAIN calls /\ calls1[i] = calls[i]
    BY <1>3, <1>4
  <2>2. /\ i > 1 => calls[i].node /= 0
        /\ Kind(calls[i].node) \notin Leaves
        /\ Ancestors(calls[i].node) = {calls[j].node : j \in 1..(i - 1)}
        /\ Cardinality(Ancestors(calls[i].node)) = i - 1
        /\ \A j \in DOMAIN calls : i < j => calls[i].node < calls[j].node
    BY <2>1 DEF Path
  <2>3. {calls[j].node : j \in 1..(i - 1)} = {calls1[j].node : j \in 1..(i - 1)}
    BY <1>3, <1>4
  <2>4. \A j \in DOMAIN calls1 : j \in DOMAIN calls /\ calls1[j] = calls[j]
    BY <1>3, <1>4
  <2> QED
    BY <2>1, <2>2, <2>3, <2>4
<1>7. calls1[Len(calls1)].node \in {at} \cup Ancestors(at)
  <2>1. Ancestors(calls[k].node) = {calls[j].node : j \in 1..(k - 1)}
    BY <1>1 DEF Path
  <2>2. k - 1 \in 1..(k - 1)
    BY <1>1, <1>2
  <2>3. calls1[Len(calls1)].node \in Ancestors(calls[k].node)
    BY <1>3, <2>1, <2>2
  <2>4. calls[k].node \in {at} \cup Ancestors(at)
    BY DEF Path
  <2>5. \A a \in Ancestors(at) : Ancestors(a) \subseteq Ancestors(at)
    BY InsideBody
  <2> QED
    BY <2>3, <2>4, <2>5
<1>8. Path(calls1, at)
  BY <1>5, <1>6, <1>7 DEF Path
<1> QED
  BY <1>2, <1>3, <1>8 DEF calls1

(* The next statement is the first that a pending call comes to. *)
LEMMA AheadStep ==
  ASSUME Body, NEW calls \in Seq(Calls), NEW at \in 0..Len(prog), Path(calls, at),
         NEW n, Comes(calls, at, n), NEW c \in Nodes, Ahead(calls, at, c),
         n \notin {c} \cup Ancestors(c)
  PROVE  Ahead(calls, n, c)
<1> DEFINE K == Len(calls)
<1>1. PICK j \in DOMAIN calls, k \in {c} \cup Ancestors(c) :
        /\ k > at
        /\ prog[k].up = calls[j].node
        /\ prog[k].slot = calls[j].slot \/ ElsePending(calls[j])
  BY DEF Ahead
<1>2. /\ Len(prog) \in Nat /\ Nodes = 1..Len(prog) /\ K \in Nat /\ K > 0 /\ DOMAIN calls = 1..K
      /\ K \in DOMAIN calls
      /\ \A i \in DOMAIN calls : calls[i].node \in 0..Len(prog) /\ calls[i].node <= at
      /\ \A i, m \in DOMAIN calls : i < m <=> calls[i].node < calls[m].node
  BY PathFacts
<1>3. c \in 0..Len(prog) /\ Ancestors(c) \subseteq 0..(c - 1)
  <2>1. c \in 0..Len(prog)
    BY <1>2
  <2> QED
    BY <2>1, InsideBody
<1>4. k \in 1..Len(prog) /\ k \in Nodes /\ k \in 0..Len(prog) /\ k /= 0
  BY <1>1, <1>2, <1>3
<1>5. /\ n \in Nodes /\ n \in 1..Len(prog) /\ n > at
      /\ Ancestors(n) = {calls[i].node : i \in DOMAIN calls}
  BY Coming
<1>6. SUFFICES ASSUME ~(k > n) PROVE FALSE
  BY <1>1 DEF Ahead
<1>7. k /= n
  BY <1>1
<1>8. k < n
  BY <1>4, <1>5, <1>6, <1>7
<1>9. CASE j = K
  <2>1. CASE prog[k].slot = calls[K].slot
    <3>1. k \in Kids(calls[K].node, calls[K].slot)
      BY <1>1, <1>4, <1>9, <2>1 DEF Kids
    <3>2. n <= k
      BY <1>1, <3>1 DEF Comes
    <3> QED
      BY <1>4, <1>5, <1>8, <3>2
  <2>2. CASE ElsePending(calls[K]) /\ prog[k].slot /= calls[K].slot
    <3>1. prog[k].slot = "else" /\ prog[n].slot = "body" /\ prog[n].up = prog[k].up
      <4>1. prog[k] \in Node
        BY <1>4 DEF Body, Nodes
      <4>2. prog[k].slot \in {"body", "else"}
        BY <4>1 DEF Node
      <4> QED
        BY <1>1, <1>9, <2>2, <4>2 DEF ElsePending, Comes
    <3>2. n \in Kids(prog[k].up, "body")
      BY <1>5, <3>1 DEF Kids
    <3>3. n < k
      BY <1>4, <3>1, <3>2 DEF Body, WellPlaced
    <3> QED
      BY <1>4, <1>5, <1>8, <3>3
  <2> QED
    BY <1>1, <1>9, <2>1, <2>2
<1>10. CASE j /= K
  <2>1. j + 1 \in DOMAIN calls /\ j < j + 1
    BY <1>2, <1>10
  <2> DEFINE u == calls[j + 1].node
  <2>2. u \in Ancestors(n) /\ u <= at /\ u \in 0..Len(prog)
    BY <1>2, <1>5, <2>1
  <2>3. k \in (u + 1)..n
    BY <1>1, <1>4, <1>5, <1>8, <2>2
  <2>4. u \in Ancestors(k)
    <3>1. n \in 0..Len(prog)
      BY <1>5
    <3> QED
      BY <2>2, <2>3, <3>1, InsideBody
  <2>5. Ancestors(k) = {calls[j].node} \cup Ancestors(calls[j].node)
    BY <1>1, <1>4, InsideBody
  <2>6. Ancestors(calls[j].node) \subseteq 0..(calls[j].node - 1)
    BY <1>2, InsideBody
  <2>7. u <= calls[j].node
    BY <1>2, <2>2, <2>4, <2>5, <2>6
  <2>8. calls[j].node < u
    BY <1>2, <2>1
  <2> QED
    BY <1>2, <2>2, <2>7, <2>8
<1> QED
  BY <1>9, <1>10

LEMMA AheadMore ==
  ASSUME NEW calls \in Seq(Calls), NEW x \in Calls, NEW at, NEW c, Ahead(calls, at, c)
  PROVE  Ahead(Append(calls, x), at, c)
<1>1. \A j \in DOMAIN calls : j \in DOMAIN Append(calls, x) /\ Append(calls, x)[j] = calls[j]
  OBVIOUS
<1> QED
  BY <1>1 DEF Ahead

(* A call on n comes to what is inside n, in the field that is visited. *)
LEMMA AheadInside ==
  ASSUME Body, NEW calls \in Seq(Calls), NEW x \in Calls, x.node \in Nodes,
         NEW c \in Nodes, x.node \in Ancestors(c),
         NEW k \in {c} \cup Ancestors(c), k \in Nodes, prog[k].up = x.node,
         prog[k].slot = x.slot \/ ElsePending(x)
  PROVE  Ahead(Append(calls, x), x.node, c)
<1>1. /\ Len(calls) + 1 \in DOMAIN Append(calls, x) /\ Append(calls, x)[Len(calls) + 1] = x
  OBVIOUS
<1>2. k > x.node
  <2>1. k \in 0..Len(prog) /\ k /= 0 /\ k \in Nat
    BY DEF Body, Nodes
  <2>2. prog[k].up \in 0..(k - 1)
    BY <2>1, InsideBody
  <2> QED
    BY <2>1, <2>2
<1> QED
  BY <1>1, <1>2 DEF Ahead

LEMMA ChildInside ==
  ASSUME Body, NEW c \in Nodes, NEW n \in Ancestors(c)
  PROVE  \E k \in {c} \cup Ancestors(c) : k \in Nodes /\ prog[k].up = n
<1>1. c \in 0..Len(prog) /\ Len(prog) \in Nat /\ Nodes = 1..Len(prog)
  BY DEF Body, Nodes
<1>2. Ancestors(c) \subseteq 0..(c - 1)
  BY <1>1, InsideBody
<1>3. PICK k \in {c} \cup Ancestors(c) : k /= 0 /\ prog[k].up = n
  BY <1>1, InsideBody
<1> QED
  BY <1>1, <1>2, <1>3

(* When a call is through, what it has not come to is left to the others. *)
LEMMA AheadPop ==
  ASSUME Body, NEW calls \in Seq(Calls), NEW at \in 0..Len(prog), Path(calls, at),
         calls[Len(calls)].node /= 0,
         \A k \in Kids(calls[Len(calls)].node, calls[Len(calls)].slot) : k <= at,
         NEW c \in Nodes, Ahead(calls, at, c),
         ElsePending(calls[Len(calls)]) => Kids(calls[Len(calls)].node, "else") = {}
  PROVE  /\ Ahead(Front(calls), at, c)
         /\ calls[Len(calls)].node \notin Ancestors(c)
<1> DEFINE K == Len(calls)
           top == calls[Len(calls)]
<1>1. PICK j \in DOMAIN calls, k \in {c} \cup Ancestors(c) :
        /\ k > at
        /\ prog[k].up = calls[j].node
        /\ prog[k].slot = calls[j].slot \/ ElsePending(calls[j])
  BY DEF Ahead
<1>2. /\ Len(prog) \in Nat /\ Nodes = 1..Len(prog) /\ K \in Nat /\ K > 0 /\ DOMAIN calls = 1..K
      /\ K \in DOMAIN calls
      /\ \A i \in DOMAIN calls : calls[i].node \in 0..Len(prog) /\ calls[i].node <= at
      /\ \A i, m \in DOMAIN calls : i < m <=> calls[i].node < calls[m].node
  BY PathFacts
<1>3. c \in 0..Len(prog) /\ Ancestors(c) \subseteq 0..(c - 1)
      /\ \A a, b \in Ancestors(c) : a < b => a \in Ancestors(b)
  <2>1. c \in 0..Len(prog)
    BY <1>2
  <2> QED
    BY <2>1, InsideBody
<1>4. k \in 1..Len(prog) /\ k \in Nodes /\ k \in 0..Len(prog) /\ k /= 0
  BY <1>1, <1>2, <1>3
<1>5. j /= K
  <2> SUFFICES ASSUME j = K PROVE FALSE
    OBVIOUS
  <2>1. prog[k].slot \in {"body", "else"}
    <3>1. prog[k] \in Node
      BY <1>4 DEF Body, Nodes
    <3> QED
      BY <3>1 DEF Node
  <2>2. CASE prog[k].slot = top.slot
    <3>1. k \in Kids(top.node, top.slot)
      BY <1>1, <1>4, <2>2 DEF Kids
    <3> QED
      BY <1>1, <1>4, <3>1
  <2>3. CASE ElsePending(top) /\ prog[k].slot /= top.slot
    <3>1. k \in Kids(top.node, "else")
      BY <1>1, <1>4, <2>1, <2>3 DEF ElsePending, Kids
    <3> QED
      BY <2>3, <3>1
  <2> QED
    BY <1>1, <2>2, <2>3
<1>6. Ahead(Front(calls), at, c)
  <2>1. j \in 1..(K - 1)
    BY <1>2, <1>5
  <2>2. j \in DOMAIN Front(calls) /\ Front(calls)[j] = calls[j]
    <3>1. calls /= <<>>
      BY DEF Path
    <3> QED
      BY <2>1, <3>1, FrontIs
  <2> QED
    BY <1>1, <2>2 DEF Ahead
<1>7. top.node \notin Ancestors(c)
  <2> SUFFICES ASSUME top.node \in Ancestors(c) PROVE FALSE
    OBVIOUS
  <2>1. top.node < k
    BY <1>1, <1>2, <1>4
  <2>2. top.node \in Ancestors(k)
    BY <1>3, <2>1
  <2>3. Ancestors(k) = {calls[j].node} \cup Ancestors(calls[j].node)
    BY <1>1, <1>4, InsideBody
  <2>4. Ancestors(calls[j].node) \subseteq 0..(calls[j].node - 1)
    BY <1>2, InsideBody
  <2>5. top.node <= calls[j].node
    BY <1>2, <2>2, <2>3, <2>4
  <2>6. calls[j].node < top.node
    BY <1>2, <1>5
  <2> QED
    BY <1>2, <2>5, <2>6
<1> QED
  BY <1>6, <1>7

(***************************************************************************)
(* The labels of a switch.                                                 *)
(***************************************************************************)
LEMMA IndexIs ==
  ASSUME NEW N \in Nat, NEW cases \in SUBSET (1..N)
  PROVE  /\ IsFiniteSet(cases) /\ Cardinality(cases) \in Nat
         /\ \A c \in cases : Index(cases, c) \in 0..(Cardinality(cases) - 1)
         /\ \A c, d \in cases : Index(cases, c) = Index(cases, d) => c = d
         /\ \A i \in 0..(Cardinality(cases) - 1) :
              CaseAt(cases, i) \in cases /\ Index(cases, CaseAt(cases, i)) = i
<1>1. IsFiniteSet(1..N)
  BY FS_Interval
<1>2. IsFiniteSet(cases)
  BY <1>1, FS_Subset
<1>3. Cardinality(cases) \in Nat
  BY <1>2, FS_CardinalityType
<1> DEFINE below(c) == {d \in cases : d < c}
<1>4. ASSUME NEW c
      PROVE  IsFiniteSet(below(c)) /\ Index(cases, c) = Cardinality(below(c)) /\ Index(cases, c) \in Nat
  <2>1. below(c) \in SUBSET cases
    OBVIOUS
  <2>2. IsFiniteSet(below(c))
    BY <1>2, <2>1, FS_Subset
  <2>3. Index(cases, c) = Cardinality(below(c))
    BY DEF Index
  <2> QED
    BY <2>2, <2>3, FS_CardinalityType
<1>5. ASSUME NEW c \in cases, NEW T \in SUBSET cases, below(c) \cup {c} \subseteq T
      PROVE  Index(cases, c) < Cardinality(T)
  <2>1. c \notin below(c)
    BY c \in 1..N
  <2>2. Cardinality(below(c) \cup {c}) = Cardinality(below(c)) + 1
    BY <1>4, <2>1, FS_AddElement
  <2>3. IsFiniteSet(T)
    BY <1>2, FS_Subset
  <2>4. Cardinality(below(c) \cup {c}) <= Cardinality(T) /\ Cardinality(T) \in Nat
    BY <1>5, <2>3, FS_Subset, FS_CardinalityType
  <2> QED
    BY <1>4, <2>2, <2>4
<1>6. \A c \in cases : Index(cases, c) \in 0..(Cardinality(cases) - 1)
  <2> SUFFICES ASSUME NEW c \in cases PROVE Index(cases, c) \in 0..(Cardinality(cases) - 1)
    OBVIOUS
  <2>1. below(c) \cup {c} \subseteq cases /\ cases \in SUBSET cases
    OBVIOUS
  <2>2. Index(cases, c) < Cardinality(cases)
    BY <1>5, <2>1
  <2>3. Index(cases, c) \in Nat
    BY <1>4
  <2> QED
    BY <1>3, <2>2, <2>3
<1>7. \A c, d \in cases : c < d => Index(cases, c) < Index(cases, d)
  <2> SUFFICES ASSUME NEW c \in cases, NEW d \in cases, c < d
               PROVE  Index(cases, c) < Index(cases, d)
    OBVIOUS
  <2>1. below(c) \cup {c} \subseteq below(d) /\ below(d) \in SUBSET cases
    <3>1. \A x \in cases : x \in Nat
      OBVIOUS
    <3>2. \A x \in cases : x < c => x < d
      BY <3>1
    <3> QED
      BY <3>2
  <2>2. Index(cases, c) < Cardinality(below(d))
    BY <1>5, <2>1
  <2> QED
    BY <1>4, <2>2
<1>8. ASSUME NEW c \in cases, NEW d \in cases, Index(cases, c) = Index(cases, d) PROVE c = d
  <2>1. Index(cases, c) \in Nat
    BY <1>4
  <2>2. c \in Nat /\ d \in Nat
    OBVIOUS
  <2>3. ~(c < d) /\ ~(d < c)
    BY <1>7, <1>8, <2>1
  <2> QED
    BY <2>2, <2>3
<1>9. ASSUME NEW i \in 0..(Cardinality(cases) - 1)
      PROVE  CaseAt(cases, i) \in cases /\ Index(cases, CaseAt(cases, i)) = i
  <2> DEFINE T == 0..(Cardinality(cases) - 1)
             f == [c \in cases |-> Index(cases, c)]
  <2>1. IsFiniteSet(T) /\ Cardinality(T) = Cardinality(cases)
    <3>1. 0 \in Int /\ Cardinality(cases) - 1 \in Int
      BY <1>3
    <3>2. /\ IsFiniteSet(T)
          /\ Cardinality(T) = IF 0 > Cardinality(cases) - 1 THEN 0 ELSE (Cardinality(cases) - 1) - 0 + 1
      BY <3>1, FS_Interval
    <3> QED
      BY <1>3, <3>2
  <2>2. f \in Injection(cases, T)
    <3>1. f \in [cases -> T]
      BY <1>6
    <3>2. \A c, d \in cases : f[c] = f[d] => c = d
      BY <1>8
    <3> QED
      BY <3>1, <3>2 DEF Injection, IsInjective
  <2>3. f \in Surjection(cases, T)
    BY <2>1, <2>2, FS_Injection
  <2>4. \E c \in cases : f[c] = i
    BY <2>3 DEF Surjection
  <2>5. \E c \in cases : Index(cases, c) = i
    BY <2>4
  <2> QED
    BY <2>5, Zenon DEF CaseAt
<1> QED
  BY <1>2, <1>3, <1>6, <1>8, <1>9

LEMMA CollectIs ==
  ASSUME Body, NEW n
  PROVE  /\ \A c \in Collect(n) : /\ c \in Nodes /\ n \in Ancestors(c)
                                  /\ Kind(c) \in Labels
         /\ \A c \in CasesOf(n) : c \in Collect(n) /\ Kind(c) = "case"
         /\ \A c \in Collect(n) : c \in CasesOf(n) \/ Kind(c) = "default"
         /\ Len(prog) \in Nat /\ CasesOf(n) \in SUBSET (1..Len(prog))
         /\ Collect(n) = CasesOf(n) \/ \E c \in Collect(n) : Kind(c) = "default"
<1>1. Len(prog) \in Nat /\ Nodes = 1..Len(prog)
  BY DEF Body, Nodes
<1>2. \A c \in Collect(n) : c \in Nodes /\ n \in Ancestors(c) /\ Kind(c) \in Labels
  BY DEF Collect
<1>3. \A c \in CasesOf(n) : c \in Collect(n) /\ Kind(c) = "case"
  BY DEF CasesOf
<1>4. \A c \in Collect(n) : c \in CasesOf(n) \/ Kind(c) = "default"
  BY <1>2 DEF CasesOf, Labels
<1>5. CasesOf(n) \in SUBSET (1..Len(prog))
  BY <1>1, <1>2, <1>3
<1> QED
  BY <1>1, <1>2, <1>3, <1>4, <1>5

LEMMA CollectedOnce ==
  ASSUME Body, NEW n \in Nodes, NEW m \in Nodes, Kind(n) = "switch", Kind(m) = "switch",
         NEW c, c \in Collect(n), c \in Collect(m)
  PROVE  n = m
  BY InnermostIs

LEMMA LabelInIs ==
  ASSUME Body, NEW n \in Nodes, Kind(n) = "switch", NEW id \in Nat
  PROVE  /\ \A c \in Collect(n) : /\ LabelIn(n, id, c) \in LabelSet
                                  /\ LabelIn(n, id, c).id = id
                                  /\ LabelIn(n, id, c).name = Kind(c)
         /\ \A c, d \in Collect(n) : LabelIn(n, id, c) = LabelIn(n, id, d) => c = d
<1>1. /\ \A c \in Collect(n) : c \in Nodes /\ Kind(c) \in Labels
      /\ \A c \in Collect(n) : c \in CasesOf(n) \/ Kind(c) = "default"
      /\ \A c \in CasesOf(n) : Kind(c) = "case"
      /\ Len(prog) \in Nat /\ CasesOf(n) \in SUBSET (1..Len(prog))
  BY CollectIs
<1>2. /\ Cardinality(CasesOf(n)) \in Nat
      /\ \A c \in CasesOf(n) : Index(CasesOf(n), c) \in 0..(Cardinality(CasesOf(n)) - 1)
      /\ \A c, d \in CasesOf(n) : Index(CasesOf(n), c) = Index(CasesOf(n), d) => c = d
  BY <1>1, IndexIs
<1>3. ASSUME NEW c \in Collect(n)
      PROVE  /\ c \in CasesOf(n) => /\ LabelIn(n, id, c) = CaseName(id, Index(CasesOf(n), c))
                                    /\ Index(CasesOf(n), c) \in Nat
             /\ c \notin CasesOf(n) => LabelIn(n, id, c) = Name("default", id) /\ Kind(c) = "default"
  BY <1>1, <1>2 DEF LabelIn
<1>4. ASSUME NEW c \in Collect(n)
      PROVE  /\ LabelIn(n, id, c) \in LabelSet
             /\ LabelIn(n, id, c).id = id
             /\ LabelIn(n, id, c).name = Kind(c)
  <2>1. CASE c \in CasesOf(n)
    <3>1. LabelIn(n, id, c) = CaseName(id, Index(CasesOf(n), c)) /\ Index(CasesOf(n), c) \in Nat
          /\ Kind(c) = "case"
      BY <1>1, <1>3, <2>1
    <3>2. LabelIn(n, id, c) \in LabelSet
      BY <3>1, NamesAreLabels
    <3> QED
      BY <3>1, <3>2 DEF CaseName
  <2>2. CASE c \notin CasesOf(n)
    <3>1. LabelIn(n, id, c) = Name("default", id) /\ Kind(c) = "default" /\ "default" \in LabelNames
      BY <1>3, <2>2 DEF LabelNames, Labels
    <3>2. LabelIn(n, id, c) \in LabelSet
      BY <3>1, NamesAreLabels
    <3> QED
      BY <3>1, <3>2 DEF Name
  <2> QED
    BY <2>1, <2>2
<1>5. ASSUME NEW c \in Collect(n), NEW d \in Collect(n), LabelIn(n, id, c) = LabelIn(n, id, d)
      PROVE  c = d
  <2>1. Kind(c) = Kind(d)
    BY <1>4, <1>5
  <2>2. CASE c \in CasesOf(n)
    <3>1. d \in CasesOf(n)
      BY <1>1, <2>1, <2>2
    <3>2. Index(CasesOf(n), c) = Index(CasesOf(n), d)
      BY <1>3, <1>5, <2>2, <3>1 DEF CaseName
    <3> QED
      BY <1>2, <2>2, <3>1, <3>2
  <2>3. CASE c \notin CasesOf(n)
    <3>1. Kind(c) = "default" /\ Kind(d) = "default" /\ c \in Nodes /\ d \in Nodes
      BY <1>1, <1>3, <2>1, <2>3
    <3> QED
      BY <3>1 DEF Body, OneDefault
  <2> QED
    BY <2>2, <2>3
<1> QED
  BY <1>4, <1>5

(* The switch on top of the stack is the one that a label which comes next      *)
(* belongs to.                                                               *)
LEMMA LastSwitch ==
  ASSUME Body, NEW calls \in Seq(Calls), NEW at \in 0..Len(prog), Path(calls, at),
         NEW n, Comes(calls, at, n), Kind(n) \in Labels,
         NEW stack \in Seq(Nat), Tracks(stack, calls, {"switch"}, IdOf)
  PROVE  /\ stack /= <<>>
         /\ \E i \in DOMAIN calls : /\ Kind(calls[i].node) = "switch"
                                    /\ n \in Collect(calls[i].node)
                                    /\ stack[Len(stack)] = calls[i].id
<1>1. /\ n \in Nodes /\ n > at
      /\ Ancestors(n) = {calls[j].node : j \in DOMAIN calls}
  BY Coming
<1>2. /\ \A i \in DOMAIN calls : calls[i] \in Calls
      /\ \A i, j \in DOMAIN calls : i < j <=> calls[i].node < calls[j].node
      /\ DOMAIN calls = 1..Len(calls) /\ Len(calls) \in Nat
  BY PathFacts
<1>3. \E a \in Ancestors(n) : Kind(a) = "switch"
  <2>1. WellPlaced(n) /\ n /= 0
    BY <1>1 DEF Body, Nodes
  <2> QED
    BY <2>1 DEF WellPlaced, Ancestors
<1>4. PICK j \in DOMAIN calls : Kind(calls[j].node) = "switch"
  BY <1>1, <1>3
<1>5. Kind(calls[j].node) \in {"switch"}
  BY <1>4
<1>6. /\ stack /= <<>>
      /\ \E i \in DOMAIN calls :
           /\ Kind(calls[i].node) \in {"switch"} /\ stack[Len(stack)] = IdOf[calls[i]]
           /\ \A m \in DOMAIN calls : m > i => Kind(calls[m].node) \notin {"switch"}
  BY <1>5, TracksLast
<1>7. PICK i \in DOMAIN calls :
        /\ Kind(calls[i].node) = "switch" /\ stack[Len(stack)] = IdOf[calls[i]]
        /\ \A m \in DOMAIN calls : m > i => Kind(calls[m].node) /= "switch"
  BY <1>6
<1>8. stack[Len(stack)] = calls[i].id
  BY <1>2, <1>7 DEF IdOf
<1>9. \A a \in Ancestors(n) : a > calls[i].node => Kind(a) /= "switch"
  <2> SUFFICES ASSUME NEW m \in DOMAIN calls, calls[m].node > calls[i].node
               PROVE  Kind(calls[m].node) /= "switch"
    BY <1>1
  <2>1. calls[m].node \in Int /\ calls[i].node \in Int
    BY <1>2 DEF Calls
  <2>2. calls[i].node < calls[m].node
    BY <2>1
  <2>3. i < m /\ i \in Int /\ m \in Int
    BY <1>2, <2>2
  <2>4. m > i
    BY <2>3
  <2> QED
    BY <1>7, <2>4
<1>10. n \in Collect(calls[i].node)
  BY <1>1, <1>9 DEF Collect
<1> QED
  BY <1>6, <1>7, <1>8, <1>10

(* What is in a statement that a call begins with is ahead, or in an arm that    *)
(* the call leaves out.                                                      *)
LEMMA CallComes ==
  ASSUME Body, NEW calls \in Seq(Calls), NEW x \in Calls, NEW n \in Nodes, x.node = n,
         \/ Kind(n) /= "if" /\ x.slot = "body"
         \/ Kind(n) = "if" /\ ~ConstTruth(n) /\ x.slot = "body"
         \/ Kind(n) = "if" /\ ConstTruth(n) /\ x.slot = IF Dead(n) THEN "else" ELSE "body",
         NEW c \in Nodes, n \in Ancestors(c)
  PROVE  InDeadArm(c) \/ Ahead(Append(calls, x), n, c)
<1>1. PICK k \in {c} \cup Ancestors(c) : k \in Nodes /\ prog[k].up = n
  BY ChildInside
<1>2. prog[k] \in Node /\ WellPlaced(k) /\ k /= 0 /\ n /= 0
  BY <1>1 DEF Body, Nodes
<1>3. prog[k].slot \in {"body", "else"}
  BY <1>2 DEF Node
<1>4. CASE prog[k].slot = x.slot \/ ElsePending(x)
  BY <1>1, <1>4, AheadInside
<1>5. CASE ~(prog[k].slot = x.slot \/ ElsePending(x))
  <2>1. Kind(n) = "if"
    <3>1. CASE prog[k].slot = "else"
      BY <1>1, <1>2, <3>1 DEF WellPlaced
    <3>2. CASE prog[k].slot = "body"
      BY <1>5, <3>2
    <3> QED
      BY <1>3, <3>1, <3>2
  <2>2. ConstTruth(n) /\ x.slot = IF Dead(n) THEN "else" ELSE "body"
    BY <1>5, <2>1 DEF ElsePending
  <2>3. \/ prog[n].cond = "zero" /\ prog[k].slot = "body"
        \/ prog[n].cond = "nonzero" /\ prog[k].slot = "else"
    BY <1>3, <1>5, <2>2 DEF ConstTruth, Dead
  <2>4. n \in Ancestors(c) \ {0}
    BY <1>2
  <2> QED
    BY <1>1, <1>2, <2>1, <2>3, <2>4 DEF InDeadArm
<1> QED
  BY <1>4, <1>5

LEMMA DueIs ==
  ASSUME NEW c, NEW l, Opened(c, l) \/ Due(c, l)
  PROVE  TakesId(c) /\ l.id = c.id /\ l.name \notin Labels
BY DEF Opened, Due, TakesId, Breakable, Loops, Labels, Name

LEMMA Grown ==
  ASSUME NEW calls \in Seq(Calls), NEW x \in Calls
  PROVE  /\ Len(calls) \in Nat /\ DOMAIN calls = 1..Len(calls)
         /\ Append(calls, x) \in Seq(Calls)
         /\ Len(Append(calls, x)) = Len(calls) + 1
         /\ DOMAIN Append(calls, x) = 1..(Len(calls) + 1)
         /\ Append(calls, x)[Len(calls) + 1] = x
         /\ \A i \in DOMAIN calls : i \in DOMAIN Append(calls, x) /\ Append(calls, x)[i] = calls[i]
         /\ \A i \in DOMAIN Append(calls, x) : i \in DOMAIN calls \/ i = Len(calls) + 1
OBVIOUS

(***************************************************************************)
(* A call is added: the statement at hand has others inside it.             *)
(***************************************************************************)
NewId(x, counter, next) ==
  \/ TakesId(x) /\ x.id = counter /\ next = counter + 1
  \/ ~TakesId(x) /\ next = counter

LEMMA IdsCall ==
  ASSUME NEW calls \in Seq(Calls), NEW x \in Calls, NEW counter \in Nat, NEW next \in Nat,
         NewId(x, counter, next), Ids(calls, counter)
  PROVE  Ids(Append(calls, x), next)
<1> DEFINE more == Append(calls, x)
<1>1. /\ Len(calls) \in Nat /\ DOMAIN calls = 1..Len(calls)
      /\ DOMAIN more = 1..(Len(calls) + 1) /\ more[Len(calls) + 1] = x
      /\ \A i \in DOMAIN calls : i \in DOMAIN more /\ more[i] = calls[i]
      /\ \A i \in DOMAIN more : i \in DOMAIN calls \/ i = Len(calls) + 1
  BY Grown
<1>2. \A i \in DOMAIN calls : calls[i].id \in Nat
  <2>1. \A i \in DOMAIN calls : calls[i] \in Calls
    OBVIOUS
  <2> QED
    BY <2>1 DEF Calls
<1>3. counter <= next
  BY DEF NewId
<1>4. TakesId(x) => x.id = counter /\ next = counter + 1
  BY DEF NewId
<1> HIDE DEF more
<1>5. ASSUME NEW i \in DOMAIN more, TakesId(more[i])
      PROVE  /\ more[i].id < next
             /\ \A j \in DOMAIN more : i < j /\ TakesId(more[j]) => more[i].id < more[j].id
  <2>1. CASE i \in DOMAIN calls
    <3>1. more[i] = calls[i] /\ calls[i].id < counter /\ calls[i].id \in Nat
      BY <1>1, <1>2, <1>5, <2>1 DEF Ids
    <3>2. ASSUME NEW j \in DOMAIN more, i < j, TakesId(more[j]) PROVE more[i].id < more[j].id
      <4>1. CASE j \in DOMAIN calls
        <5>1. more[j] = calls[j] /\ TakesId(calls[i]) /\ TakesId(calls[j])
          BY <1>1, <1>5, <3>1, <3>2, <4>1
        <5> QED
          BY <2>1, <3>1, <3>2, <4>1, <5>1 DEF Ids
      <4>2. CASE j = Len(calls) + 1
        <5>1. more[j] = x /\ x.id = counter
          BY <1>1, <1>4, <3>2, <4>2
        <5> QED
          BY <3>1, <5>1
      <4> QED
        BY <1>1, <4>1, <4>2
    <3>3. more[i].id < next
      BY <1>3, <3>1
    <3> QED
      BY <3>2, <3>3
  <2>2. CASE i = Len(calls) + 1
    <3>1. more[i] = x /\ x.id = counter /\ next = counter + 1
      BY <1>1, <1>4, <1>5, <2>2
    <3>2. \A j \in DOMAIN more : ~(i < j)
      BY <1>1, <2>2
    <3> QED
      BY <3>1, <3>2
  <2> QED
    BY <1>1, <2>1, <2>2
<1>6. Ids(more, next)
  BY <1>5 DEF Ids
<1> QED
  BY <1>6 DEF more

(* The labels of a construct have its number, and no case has.              *)
LEMMA MarksCall ==
  ASSUME NEW calls \in Seq(Calls), NEW x \in Calls, NEW counter \in Nat, NEW next,
         NewId(x, counter, next), Ids(calls, counter),
         NEW defs, Bounded(defs, counter), Marks(calls, defs),
         NEW D, \A l \in D : TakesId(x) /\ l.id = counter,
         \A l \in LabelSet : Opened(x, l) => l \in D,
         \A l \in LabelSet : Due(x, l) => l \notin D
  PROVE  Marks(Append(calls, x), defs \cup D)
<1> DEFINE more == Append(calls, x)
<1>1. /\ DOMAIN calls = 1..Len(calls) /\ more[Len(calls) + 1] = x
      /\ \A i \in DOMAIN calls : i \in DOMAIN more /\ more[i] = calls[i]
      /\ \A i \in DOMAIN more : i \in DOMAIN calls \/ i = Len(calls) + 1
  BY Grown
<1> HIDE DEF more
<1>2. ASSUME NEW i \in DOMAIN more, NEW l \in LabelSet
      PROVE  /\ Opened(more[i], l) => l \in defs \cup D
             /\ Due(more[i], l) => l \notin defs \cup D
  <2>1. CASE i \in DOMAIN calls
    <3>1. more[i] = calls[i]
      BY <1>1, <2>1
    <3>2. /\ Opened(calls[i], l) => l \in defs
          /\ Due(calls[i], l) => l \notin defs
      BY <2>1 DEF Marks
    <3>3. ASSUME Due(calls[i], l) PROVE l \notin D
      <4>1. TakesId(calls[i]) /\ l.id = calls[i].id
        BY <3>3, DueIs
      <4>2. calls[i].id < counter
        BY <2>1, <4>1 DEF Ids
      <4>3. l.id /= counter
        BY <4>1, <4>2, ~(counter < counter)
      <4> QED
        BY <4>3
    <3> QED
      BY <3>1, <3>2, <3>3
  <2>2. CASE i = Len(calls) + 1
    <3>1. more[i] = x
      BY <1>1, <2>2
    <3>2. ASSUME Due(x, l) PROVE l \notin defs
      <4>1. TakesId(x) /\ l.id = x.id
        BY <3>2, DueIs
      <4>2. l.id = counter
        BY <4>1 DEF NewId
      <4>3. ~(l.id < counter)
        BY <4>2
      <4> QED
        BY <4>3 DEF Bounded
    <3> QED
      BY <3>1, <3>2
  <2> QED
    BY <1>1, <2>1, <2>2
<1>3. Marks(more, defs \cup D)
  BY <1>2 DEF Marks
<1> QED
  BY <1>3 DEF more

Renumbers(n, index, renumbered) ==
  \A c \in Nodes : renumbered[c] = IF Kind(n) = "switch" /\ c \in CasesOf(n)
                                   THEN Index(CasesOf(n), c) ELSE index[c]

LEMMA NumberingCall ==
  ASSUME Body, NEW calls \in Seq(Calls), NEW at \in 0..Len(prog), Path(calls, at),
         NEW n, Comes(calls, at, n), NEW x \in Calls, x.node = n,
         NEW index, NEW renumbered, Numbering(calls, index),
         Renumbers(n, index, renumbered)
  PROVE  Numbering(Append(calls, x), renumbered)
<1> DEFINE more == Append(calls, x)
<1>1. /\ DOMAIN calls = 1..Len(calls) /\ more[Len(calls) + 1] = x
      /\ \A i \in DOMAIN calls : i \in DOMAIN more /\ more[i] = calls[i]
      /\ \A i \in DOMAIN more : i \in DOMAIN calls \/ i = Len(calls) + 1
  BY Grown
<1> HIDE DEF more
<1>2. n \in Nodes /\ Len(prog) \in Nat /\ Nodes = 1..Len(prog)
  BY Coming, PathFacts
<1>3. \A j \in DOMAIN calls : calls[j].node < n /\ calls[j].node \in 0..Len(prog)
  BY Coming, PathFacts
<1>4. ASSUME NEW i \in DOMAIN more, Kind(more[i].node) = "switch", NEW c \in CasesOf(more[i].node)
      PROVE  renumbered[c] = Index(CasesOf(more[i].node), c)
  <2>1. /\ c \in Nodes /\ c \in Collect(more[i].node)
    BY <1>4, CollectIs
  <2>2. CASE i \in DOMAIN calls
    <3>1. more[i] = calls[i] /\ index[c] = Index(CasesOf(calls[i].node), c)
      BY <1>1, <1>4, <2>2 DEF Numbering
    <3>2. renumbered[c] = index[c]
      <4>1. ASSUME Kind(n) = "switch", c \in CasesOf(n) PROVE FALSE
        <5>1. c \in Collect(n)
          BY <4>1, CollectIs
        <5>2. calls[i].node \in Nodes
          <6>1. calls[i].node /= 0
            BY <1>4, <3>1 DEF Kind
          <6> QED
            BY <1>2, <1>3, <2>2, <6>1
        <5>3. calls[i].node = n
          BY <1>2, <1>4, <2>1, <3>1, <4>1, <5>1, <5>2, CollectedOnce
        <5>4. calls[i].node < n /\ n \in Int
          BY <1>2, <1>3, <2>2
        <5> QED
          BY <5>3, <5>4
      <4> QED
        BY <2>1, <4>1 DEF Renumbers
    <3> QED
      BY <2>1, <3>1, <3>2
  <2>3. CASE i = Len(calls) + 1
    <3>1. more[i].node = n
      BY <1>1, <2>3
    <3> QED
      BY <1>4, <2>1, <3>1 DEF Renumbers
  <2> QED
    BY <1>1, <2>2, <2>3
<1>5. Numbering(more, renumbered)
  BY <1>4 DEF Numbering
<1> QED
  BY <1>5 DEF more

LEMMA PassedCall ==
  ASSUME NEW calls \in Seq(Calls), NEW x \in Calls, NEW counter \in Nat, NEW next,
         NewId(x, counter, next), NEW defs, Bounded(defs, counter),
         NEW at \in Nat, NEW n \in Nat, at < n, Passed(calls, at, defs), Nodes \subseteq Nat,
         NEW D, \A l \in D : l.name \notin Labels
  PROVE  Passed(Append(calls, x), n, defs \cup D)
<1> DEFINE more == Append(calls, x)
<1>1. /\ DOMAIN calls = 1..Len(calls) /\ more[Len(calls) + 1] = x
      /\ \A i \in DOMAIN calls : i \in DOMAIN more /\ more[i] = calls[i]
      /\ \A i \in DOMAIN more : i \in DOMAIN calls \/ i = Len(calls) + 1
  BY Grown
<1> HIDE DEF more
<1>2. ASSUME NEW i \in DOMAIN more, Kind(more[i].node) = "switch",
             NEW l \in defs \cup D, l.id = more[i].id, l.name \in Labels
      PROVE  \E c \in Collect(more[i].node) : c <= n /\ l = LabelIn(more[i].node, more[i].id, c)
  <2>1. l \in defs
    BY <1>2
  <2>2. CASE i \in DOMAIN calls
    <3>1. more[i] = calls[i]
      BY <1>1, <2>2
    <3>2. PICK c \in Collect(calls[i].node) : c <= at /\ l = LabelIn(calls[i].node, calls[i].id, c)
      BY <1>2, <2>1, <2>2, <3>1 DEF Passed
    <3>3. c \in Nat
      BY DEF Collect
    <3>4. c <= n
      BY <3>2, <3>3
    <3> QED
      BY <3>1, <3>2, <3>4
  <2>3. CASE i = Len(calls) + 1
    <3>1. more[i] = x
      BY <1>1, <2>3
    <3>2. TakesId(x)
      BY <1>2, <3>1 DEF TakesId, Breakable
    <3>3. l.id = counter
      BY <1>2, <3>1, <3>2 DEF NewId
    <3>4. ~(l.id < counter)
      BY <3>3
    <3> QED
      BY <2>1, <3>4 DEF Bounded
  <2> QED
    BY <1>1, <2>2, <2>3
<1>3. Passed(more, n, defs \cup D)
  BY <1>2 DEF Passed
<1> QED
  BY <1>3 DEF more

LEMMA TargetsCall ==
  ASSUME Body, NEW calls \in Seq(Calls), NEW at \in 0..Len(prog), Path(calls, at),
         NEW n, Comes(calls, at, n), NEW x \in Calls, x.node = n, Kind(n) \notin Leaves,
         \A c \in Nodes : n \in Ancestors(c) => InDeadArm(c) \/ Ahead(Append(calls, x), n, c),
         NEW defs, NEW jumps, Targets(calls, at, defs, jumps), NEW D, NEW J,
         \A l \in J : \/ l \in D
                      \/ Due(x, l)
                      \/ /\ Kind(n) = "switch"
                         /\ \E c \in Collect(n) : l = LabelIn(n, x.id, c) /\ l.name = Kind(c),
         \A i \in DOMAIN calls : Kind(calls[i].node) = "switch" =>
           \A c \in Collect(calls[i].node) : LabelIn(calls[i].node, calls[i].id, c).name = Kind(c)
  PROVE  Targets(Append(calls, x), n, defs \cup D, jumps \cup J)
<1> DEFINE more == Append(calls, x)
<1>1. /\ DOMAIN calls = 1..Len(calls) /\ Len(calls) \in Nat
      /\ DOMAIN more = 1..(Len(calls) + 1) /\ more[Len(calls) + 1] = x
      /\ \A i \in DOMAIN calls : i \in DOMAIN more /\ more[i] = calls[i]
  BY Grown
<1>2. Len(calls) + 1 \in DOMAIN more
  BY <1>1
<1>3. \A c \in Nodes : n \in Ancestors(c) => InDeadArm(c) \/ Ahead(more, n, c)
  OBVIOUS
<1>4. \A c \in Nodes : Ahead(calls, n, c) => Ahead(more, n, c)
  BY AheadMore
<1> HIDE DEF more
<1>5. ASSUME NEW l \in jumps
      PROVE  \/ l \in defs \cup D \/ \E i \in DOMAIN more : Due(more[i], l)
             \/ DeadLabel(l) \/ Awaited(more, n, l)
  <2>1. CASE l \in defs \/ DeadLabel(l)
    BY <2>1
  <2>2. CASE \E i \in DOMAIN calls : Due(calls[i], l)
    BY <1>1, <2>2
  <2>3. CASE Awaited(calls, at, l)
    <3>1. PICK i \in DOMAIN calls : 
            /\ Kind(calls[i].node) = "switch"
            /\ \E c \in Collect(calls[i].node) :
                 l = LabelIn(calls[i].node, calls[i].id, c) /\ Ahead(calls, at, c)
      BY <2>3 DEF Awaited
    <3>2. PICK c \in Collect(calls[i].node) :
            l = LabelIn(calls[i].node, calls[i].id, c) /\ Ahead(calls, at, c)
      BY <3>1
    <3>3. c \in Nodes /\ Kind(c) \in Labels /\ l.name = Kind(c)
      BY <3>1, <3>2, CollectIs
    <3>4. c /= n
      BY <3>3 DEF Leaves
    <3>5. InDeadArm(c) \/ Ahead(more, n, c)
      <4>1. CASE n \in Ancestors(c)
        BY <1>3, <3>3, <4>1
      <4>2. CASE n \notin Ancestors(c)
        <5>1. n \notin {c} \cup Ancestors(c)
          BY <3>4, <4>2
        <5>2. Ahead(calls, n, c)
          BY <3>2, <3>3, <5>1, AheadStep
        <5> QED
          BY <1>4, <3>3, <5>2
      <4> QED
        BY <4>1, <4>2
    <3>6. CASE InDeadArm(c)
      BY <3>3, <3>6 DEF DeadLabel
    <3>7. CASE Ahead(more, n, c)
      BY <1>1, <3>1, <3>2, <3>7 DEF Awaited
    <3> QED
      BY <3>5, <3>6, <3>7
  <2> QED
    BY <2>1, <2>2, <2>3 DEF Targets
<1>6. ASSUME NEW l \in J
      PROVE  \/ l \in defs \cup D \/ \E i \in DOMAIN more : Due(more[i], l)
             \/ DeadLabel(l) \/ Awaited(more, n, l)
  <2>1. CASE l \in D
    BY <2>1
  <2>2. CASE Due(x, l)
    BY <1>1, <1>2, <2>2
  <2>3. CASE /\ Kind(n) = "switch"
             /\ \E c \in Collect(n) : l = LabelIn(n, x.id, c) /\ l.name = Kind(c)
    <3>1. PICK c \in Collect(n) : l = LabelIn(n, x.id, c) /\ l.name = Kind(c)
      BY <2>3
    <3>2. c \in Nodes /\ Kind(c) \in Labels /\ n \in Ancestors(c)
      BY CollectIs
    <3>3. CASE InDeadArm(c)
      BY <3>1, <3>2, <3>3 DEF DeadLabel
    <3>4. CASE Ahead(more, n, c)
      <4>1. more[Len(calls) + 1].node = n /\ more[Len(calls) + 1].id = x.id
        BY <1>1
      <4> QED
        BY <1>2, <2>3, <3>1, <3>4, <4>1 DEF Awaited
    <3> QED
      BY <1>3, <3>2, <3>3, <3>4
  <2> QED
    BY <2>1, <2>2, <2>3
<1>7. Targets(more, n, defs \cup D, jumps \cup J)
  BY <1>5, <1>6 DEF Targets
<1> QED
  BY <1>7 DEF more

(***************************************************************************)
(* A statement that makes no call.                                         *)
(***************************************************************************)
(* The labels of the pending switches, typed and told apart.                *)
LEMMA SwitchLabels ==
  ASSUME Body, NEW calls \in Seq(Calls), NEW at \in 0..Len(prog), Path(calls, at),
         NEW counter \in Nat, Ids(calls, counter)
  PROVE  /\ \A i \in DOMAIN calls : Kind(calls[i].node) = "switch" =>
              /\ calls[i].node \in Nodes /\ calls[i].id \in Nat /\ calls[i].id < counter
              /\ \A c \in Collect(calls[i].node) :
                   /\ LabelIn(calls[i].node, calls[i].id, c) \in LabelSet
                   /\ LabelIn(calls[i].node, calls[i].id, c).id = calls[i].id
                   /\ LabelIn(calls[i].node, calls[i].id, c).name = Kind(c)
              /\ \A c, d \in Collect(calls[i].node) :
                   LabelIn(calls[i].node, calls[i].id, c) = LabelIn(calls[i].node, calls[i].id, d)
                   => c = d
         /\ \A i, j \in DOMAIN calls : Kind(calls[i].node) = "switch" /\ Kind(calls[j].node) = "switch"
              /\ calls[i].id = calls[j].id => i = j
         /\ \A i, j \in DOMAIN calls : Kind(calls[i].node) = "switch" /\ Kind(calls[j].node) = "switch" =>
              \A c \in Collect(calls[i].node) : c \in Collect(calls[j].node) => i = j
<1>1. /\ Len(prog) \in Nat /\ Nodes = 1..Len(prog) /\ Len(calls) \in Nat /\ DOMAIN calls = 1..Len(calls)
      /\ \A i \in DOMAIN calls : calls[i].node \in 0..Len(prog) /\ calls[i].id \in Nat
      /\ \A i, j \in DOMAIN calls : calls[i].node = calls[j].node => i = j
  BY PathFacts
<1>2. ASSUME NEW i \in DOMAIN calls, Kind(calls[i].node) = "switch"
      PROVE  /\ calls[i].node \in Nodes /\ calls[i].id < counter /\ TakesId(calls[i])
             /\ \A c \in Collect(calls[i].node) :
                  /\ LabelIn(calls[i].node, calls[i].id, c) \in LabelSet
                  /\ LabelIn(calls[i].node, calls[i].id, c).id = calls[i].id
                  /\ LabelIn(calls[i].node, calls[i].id, c).name = Kind(c)
             /\ \A c, d \in Collect(calls[i].node) :
                  LabelIn(calls[i].node, calls[i].id, c) = LabelIn(calls[i].node, calls[i].id, d)
                  => c = d
  <2>1. calls[i].node /= 0
    BY <1>2 DEF Kind
  <2>2. calls[i].node \in Nodes /\ calls[i].id \in Nat
    BY <1>1, <2>1
  <2>3. TakesId(calls[i])
    BY <1>2 DEF TakesId, Breakable
  <2>4. calls[i].id < counter
    BY <2>3 DEF Ids
  <2> QED
    BY <1>2, <2>2, <2>3, <2>4, LabelInIs
<1>3. ASSUME NEW i \in DOMAIN calls, NEW j \in DOMAIN calls,
             Kind(calls[i].node) = "switch", Kind(calls[j].node) = "switch", i < j
      PROVE  calls[i].id < calls[j].id
  BY <1>2, <1>3 DEF Ids
<1>4. ASSUME NEW i \in DOMAIN calls, NEW j \in DOMAIN calls,
             Kind(calls[i].node) = "switch", Kind(calls[j].node) = "switch",
             calls[i].id = calls[j].id
      PROVE  i = j
  <2>1. calls[i].id \in Nat /\ i \in Int /\ j \in Int
    BY <1>1
  <2>2. ~(calls[i].id < calls[i].id) /\ ~(calls[j].id < calls[i].id) /\ ~(calls[i].id < calls[j].id)
    BY <1>4, <2>1
  <2>3. ~(i < j) /\ ~(j < i)
    BY <1>3, <1>4, <2>2
  <2> QED
    BY <2>1, <2>3
<1>5. ASSUME NEW i \in DOMAIN calls, NEW j \in DOMAIN calls,
             Kind(calls[i].node) = "switch", Kind(calls[j].node) = "switch",
             NEW c \in Collect(calls[i].node), c \in Collect(calls[j].node)
      PROVE  i = j
  <2>1. calls[i].node = calls[j].node
    BY <1>2, <1>5, CollectedOnce
  <2> QED
    BY <1>1, <2>1
<1> QED
  BY <1>1, <1>2, <1>4, <1>5

(* What statement n puts down: the label of its switch, when it is one.      *)
Laid(calls, n, D) ==
  \/ Kind(n) \notin Labels /\ D = {}
  \/ \E i \in DOMAIN calls :
       /\ Kind(calls[i].node) = "switch" /\ n \in Collect(calls[i].node)
       /\ D = {LabelIn(calls[i].node, calls[i].id, n)}

LEMMA LaidIsNew ==
  ASSUME Body, NEW calls \in Seq(Calls), NEW at \in 0..Len(prog), Path(calls, at),
         NEW counter \in Nat, Ids(calls, counter), NEW n, Comes(calls, at, n),
         NEW defs, Passed(calls, at, defs), NEW D, Laid(calls, n, D)
  PROVE  /\ D \cap defs = {} /\ D \subseteq LabelSet
         /\ \A l \in D : l.name \in Labels /\ l.id < counter
<1>1. n \in Nat /\ at \in Nat /\ n > at
  BY Coming
<1>2. CASE D = {}
  BY <1>2
<1>3. CASE D /= {}
  <2>1. PICK i \in DOMAIN calls :
          /\ Kind(calls[i].node) = "switch" /\ n \in Collect(calls[i].node)
          /\ D = {LabelIn(calls[i].node, calls[i].id, n)}
    BY <1>3 DEF Laid
  <2> DEFINE l == LabelIn(calls[i].node, calls[i].id, n)
  <2>2. l \in LabelSet /\ l.id = calls[i].id /\ l.name = Kind(n) /\ calls[i].id < counter
    BY <2>1, SwitchLabels
  <2>3. Kind(n) \in Labels
    BY <2>1, CollectIs
  <2>4. \A c \in Collect(calls[i].node) : l = LabelIn(calls[i].node, calls[i].id, c) => n = c
    BY <2>1, SwitchLabels, ZenonT(60)
  <2> HIDE DEF l
  <2>5. D = {l}
    BY <2>1 DEF l
  <2>6. l \notin defs
    <3> SUFFICES ASSUME l \in defs PROVE FALSE
      OBVIOUS
    <3>1. PICK c \in Collect(calls[i].node) :
            c <= at /\ l = LabelIn(calls[i].node, calls[i].id, c)
      BY <2>1, <2>2, <2>3 DEF Passed
    <3>2. n <= at
      BY <2>4, <3>1
    <3> QED
      BY <1>1, <3>2
  <2> QED
    BY <2>2, <2>3, <2>5, <2>6
<1> QED
  BY <1>2, <1>3

LEMMA PassedLeaf ==
  ASSUME Body, NEW calls \in Seq(Calls), NEW at \in 0..Len(prog), Path(calls, at),
         NEW counter \in Nat, Ids(calls, counter), NEW n, Comes(calls, at, n),
         NEW defs, Passed(calls, at, defs), NEW D, Laid(calls, n, D)
  PROVE  Passed(calls, n, defs \cup D)
<1>1. n \in Nat /\ at \in Nat /\ n > at
  BY Coming
<1>3. Nodes \subseteq Nat
  BY PathFacts
<1>4. ASSUME NEW i \in DOMAIN calls, Kind(calls[i].node) = "switch", NEW c \in Collect(calls[i].node)
      PROVE  LabelIn(calls[i].node, calls[i].id, c).id = calls[i].id
  <2>1. calls[i].node \in Nodes /\ calls[i].id \in Nat
    BY <1>4, SwitchLabels
  <2> QED
    BY <1>4, <2>1, LabelInIs
<1>2. ASSUME NEW i \in DOMAIN calls, Kind(calls[i].node) = "switch",
             NEW l \in defs \cup D, l.id = calls[i].id, l.name \in Labels
      PROVE  \E c \in Collect(calls[i].node) : c <= n /\ l = LabelIn(calls[i].node, calls[i].id, c)
  <2>1. CASE l \in defs
    <3>1. PICK c \in Collect(calls[i].node) : c <= at /\ l = LabelIn(calls[i].node, calls[i].id, c)
      BY <1>2, <2>1 DEF Passed
    <3>2. c \in Nat
      BY <1>3, CollectIs
    <3>3. c <= n
      BY <1>1, <3>1, <3>2
    <3> QED
      BY <3>1, <3>3
  <2>2. CASE l \notin defs
    <3>1. PICK j \in DOMAIN calls :
            /\ Kind(calls[j].node) = "switch" /\ n \in Collect(calls[j].node)
            /\ l = LabelIn(calls[j].node, calls[j].id, n)
      BY <2>2 DEF Laid
    <3>2. l.id = calls[j].id
      BY <1>4, <3>1
    <3>3. i = j
      BY <1>2, <3>1, <3>2, SwitchLabels
    <3>4. n <= n
      BY <1>1
    <3> QED
      BY <3>1, <3>3, <3>4
  <2> QED
    BY <2>1, <2>2
<1> QED
  BY <1>2 DEF Passed

LEMMA MarksLeaf ==
  ASSUME NEW calls, NEW defs, Marks(calls, defs), NEW D, \A l \in D : l.name \in Labels
  PROVE  Marks(calls, defs \cup D)
<1>1. ASSUME NEW i \in DOMAIN calls, NEW l \in LabelSet
      PROVE  /\ Opened(calls[i], l) => l \in defs \cup D
             /\ Due(calls[i], l) => l \notin defs \cup D
  <2>1. /\ Opened(calls[i], l) => l \in defs
        /\ Due(calls[i], l) => l \notin defs
    BY DEF Marks
  <2>2. Due(calls[i], l) => l \notin D
    BY DueIs
  <2> QED
    BY <2>1, <2>2
<1> QED
  BY <1>1 DEF Marks

LEMMA TargetsLeaf ==
  ASSUME Body, NEW calls \in Seq(Calls), NEW at \in 0..Len(prog), Path(calls, at),
         NEW counter \in Nat, Ids(calls, counter), NEW n, Comes(calls, at, n),
         \A c \in Nodes : n \in Ancestors(c) => InDeadArm(c),
         NEW defs, NEW jumps, Targets(calls, at, defs, jumps),
         NEW D, Laid(calls, n, D),
         NEW J, \A l \in J : l \in defs \/ \E i \in DOMAIN calls : Due(calls[i], l)
  PROVE  Targets(calls, n, defs \cup D, jumps \cup J)
<1>1. ASSUME NEW l \in jumps
      PROVE  \/ l \in defs \cup D \/ \E i \in DOMAIN calls : Due(calls[i], l)
             \/ DeadLabel(l) \/ Awaited(calls, n, l)
  <2>1. CASE l \in defs \/ DeadLabel(l) \/ \E i \in DOMAIN calls : Due(calls[i], l)
    BY <2>1
  <2>2. CASE Awaited(calls, at, l)
    <3>1. PICK i \in DOMAIN calls : 
            /\ Kind(calls[i].node) = "switch"
            /\ \E c \in Collect(calls[i].node) :
                 l = LabelIn(calls[i].node, calls[i].id, c) /\ Ahead(calls, at, c)
      BY <2>2 DEF Awaited
    <3>2. PICK c \in Collect(calls[i].node) :
            l = LabelIn(calls[i].node, calls[i].id, c) /\ Ahead(calls, at, c)
      BY <3>1
    <3>3. c \in Nodes /\ Kind(c) \in Labels
      BY CollectIs
    <3>4. l.name = Kind(c)
      BY <3>1, <3>2, SwitchLabels
    <3>5. CASE n = c
      <4>1. PICK j \in DOMAIN calls :
              /\ Kind(calls[j].node) = "switch" /\ n \in Collect(calls[j].node)
              /\ D = {LabelIn(calls[j].node, calls[j].id, n)}
        BY <3>3, <3>5 DEF Laid
      <4>2. i = j
        BY <3>1, <3>5, <4>1, SwitchLabels
      <4> QED
        BY <3>2, <3>5, <4>1, <4>2
    <3>6. CASE n \in Ancestors(c)
      <4>1. InDeadArm(c)
        BY <3>3, <3>6
      <4> QED
        BY <3>3, <3>4, <4>1 DEF DeadLabel
    <3>7. CASE n \notin {c} \cup Ancestors(c)
      <4>1. Ahead(calls, n, c)
        BY <3>2, <3>3, <3>7, AheadStep
      <4> QED
        BY <3>1, <3>2, <4>1 DEF Awaited
    <3> QED
      BY <3>5, <3>6, <3>7
  <2> QED
    BY <2>1, <2>2 DEF Targets
<1> QED
  BY <1>1 DEF Targets

(***************************************************************************)
(* A call returns: it puts down the labels that are due.                    *)
(***************************************************************************)
LEMMA Shrunk ==
  ASSUME NEW calls \in Seq(Calls), calls /= <<>>
  PROVE  /\ Len(calls) \in Nat /\ Len(calls) > 0 /\ DOMAIN calls = 1..Len(calls)
         /\ Front(calls) \in Seq(Calls) /\ DOMAIN Front(calls) = 1..(Len(calls) - 1)
         /\ \A i \in DOMAIN Front(calls) : /\ i \in DOMAIN calls /\ Front(calls)[i] = calls[i]
                                           /\ i < Len(calls)
         /\ \A i \in DOMAIN calls : i \in DOMAIN Front(calls) \/ i = Len(calls)
         /\ \A i \in DOMAIN calls : calls[i] \in Calls /\ calls[i].id \in Nat
<1>1. /\ Front(calls) \in Seq(Calls) /\ DOMAIN Front(calls) = 1..(Len(calls) - 1)
      /\ \A i \in 1..(Len(calls) - 1) : Front(calls)[i] = calls[i]
      /\ Len(calls) \in DOMAIN calls
  BY FrontIs
<1>2. \A i \in DOMAIN calls : calls[i] \in Calls
  OBVIOUS
<1>3. \A i \in DOMAIN calls : calls[i].id \in Nat
  BY <1>2 DEF Calls
<1>4. Len(calls) \in Nat /\ DOMAIN calls = 1..Len(calls) /\ Len(calls) > 0
  BY <1>1
<1>5. \A i \in 1..(Len(calls) - 1) : i \in DOMAIN calls /\ i < Len(calls)
  BY <1>4
<1>6. \A i \in DOMAIN calls : i \in 1..(Len(calls) - 1) \/ i = Len(calls)
  BY <1>4
<1> QED
  BY <1>1, <1>2, <1>3, <1>4, <1>5, <1>6

LEMMA IdsEnd ==
  ASSUME NEW calls \in Seq(Calls), calls /= <<>>, NEW counter \in Nat, Ids(calls, counter)
  PROVE  Ids(Front(calls), counter)
BY Shrunk DEF Ids

LEMMA NumberingEnd ==
  ASSUME NEW calls \in Seq(Calls), calls /= <<>>, NEW index, Numbering(calls, index)
  PROVE  Numbering(Front(calls), index)
BY Shrunk, ZenonT(30) DEF Numbering

LEMMA PassedEnd ==
  ASSUME NEW calls \in Seq(Calls), calls /= <<>>, NEW at, NEW defs, Passed(calls, at, defs),
         NEW D, \A l \in D : l.name \notin Labels
  PROVE  Passed(Front(calls), at, defs \cup D)
<1>1. \A i \in DOMAIN Front(calls) : i \in DOMAIN calls /\ Front(calls)[i] = calls[i]
  BY Shrunk
<1>2. ASSUME NEW i \in DOMAIN Front(calls), Kind(Front(calls)[i].node) = "switch",
             NEW l \in defs \cup D, l.id = Front(calls)[i].id, l.name \in Labels
      PROVE  \E c \in Collect(Front(calls)[i].node) :
               c <= at /\ l = LabelIn(Front(calls)[i].node, Front(calls)[i].id, c)
  <2>1. l \in defs /\ i \in DOMAIN calls /\ Front(calls)[i] = calls[i]
    BY <1>1, <1>2
  <2> QED
    BY <1>2, <2>1 DEF Passed
<1> QED
  BY <1>2 DEF Passed

LEMMA MarksEnd ==
  ASSUME NEW calls \in Seq(Calls), calls /= <<>>, NEW counter \in Nat, Ids(calls, counter),
         NEW defs, Marks(calls, defs),
         NEW D, \A l \in D : Due(calls[Len(calls)], l)
  PROVE  Marks(Front(calls), defs \cup D)
<1>1. /\ Len(calls) \in DOMAIN calls
      /\ \A i \in DOMAIN Front(calls) : /\ i \in DOMAIN calls /\ Front(calls)[i] = calls[i]
                                        /\ i < Len(calls)
      /\ \A i \in DOMAIN calls : calls[i].id \in Nat
  BY Shrunk
<1>2. ASSUME NEW i \in DOMAIN Front(calls), NEW l \in LabelSet
      PROVE  /\ Opened(Front(calls)[i], l) => l \in defs \cup D
             /\ Due(Front(calls)[i], l) => l \notin defs \cup D
  <2>1. i \in DOMAIN calls /\ Front(calls)[i] = calls[i] /\ i < Len(calls)
    BY <1>1
  <2>2. /\ Opened(calls[i], l) => l \in defs
        /\ Due(calls[i], l) => l \notin defs
    BY <2>1 DEF Marks
  <2>3. ASSUME Due(calls[i], l), l \in D PROVE FALSE
    <3>1. TakesId(calls[i]) /\ l.id = calls[i].id
      BY <2>3, DueIs
    <3>2. TakesId(calls[Len(calls)]) /\ l.id = calls[Len(calls)].id
      BY <2>3, DueIs
    <3>3. calls[i].id < calls[Len(calls)].id
      BY <1>1, <2>1, <3>1, <3>2 DEF Ids
    <3>4. calls[i].id \in Nat
      BY <1>1, <2>1
    <3> QED
      BY <3>1, <3>2, <3>3, <3>4
  <2> QED
    BY <2>1, <2>2, <2>3
<1> QED
  BY <1>2 DEF Marks

LEMMA TargetsEnd ==
  ASSUME Body, NEW calls \in Seq(Calls), NEW at \in 0..Len(prog), Path(calls, at),
         calls[Len(calls)].node /= 0,
         \A k \in Kids(calls[Len(calls)].node, calls[Len(calls)].slot) : k <= at,
         ElsePending(calls[Len(calls)]) => Kids(calls[Len(calls)].node, "else") = {},
         NEW defs, NEW jumps, Targets(calls, at, defs, jumps),
         NEW D, \A l : Due(calls[Len(calls)], l) => l \in D,
         NEW J, \A l \in J : l \in defs \cup D
  PROVE  Targets(Front(calls), at, defs \cup D, jumps \cup J)
<1>1. /\ \A i \in DOMAIN Front(calls) : i \in DOMAIN calls /\ Front(calls)[i] = calls[i]
      /\ \A i \in DOMAIN calls : i \in DOMAIN Front(calls) \/ i = Len(calls)
  <2>1. calls /= <<>>
    BY DEF Path
  <2> QED
    BY <2>1, Shrunk
<1>2. ASSUME NEW l \in jumps
      PROVE  \/ l \in defs \cup D \/ \E i \in DOMAIN Front(calls) : Due(Front(calls)[i], l)
             \/ DeadLabel(l) \/ Awaited(Front(calls), at, l)
  <2>1. CASE l \in defs \/ DeadLabel(l)
    BY <2>1
  <2>2. CASE \E i \in DOMAIN calls : Due(calls[i], l)
    BY <1>1, <2>2
  <2>3. CASE Awaited(calls, at, l)
    <3>1. PICK i \in DOMAIN calls : 
            /\ Kind(calls[i].node) = "switch"
            /\ \E c \in Collect(calls[i].node) :
                 l = LabelIn(calls[i].node, calls[i].id, c) /\ Ahead(calls, at, c)
      BY <2>3 DEF Awaited
    <3>2. PICK c \in Collect(calls[i].node) :
            l = LabelIn(calls[i].node, calls[i].id, c) /\ Ahead(calls, at, c)
      BY <3>1
    <3>3. c \in Nodes /\ calls[i].node \in Ancestors(c)
      BY CollectIs
    <3>4. Ahead(Front(calls), at, c) /\ calls[Len(calls)].node \notin Ancestors(c)
      BY <3>2, <3>3, AheadPop
    <3>5. i \in DOMAIN Front(calls) /\ Front(calls)[i] = calls[i]
      BY <1>1, <3>3, <3>4
    <3> QED
      BY <3>1, <3>2, <3>4, <3>5 DEF Awaited
  <2> QED
    BY <2>1, <2>2, <2>3 DEF Targets
<1> QED
  BY <1>2 DEF Targets

(***************************************************************************)
(* An if goes on with its else.                                            *)
(***************************************************************************)
LEMMA Turned ==
  ASSUME NEW calls \in Seq(Calls), calls /= <<>>, NEW x \in Calls
  PROVE  /\ Append(Front(calls), x) \in Seq(Calls)
         /\ Len(Append(Front(calls), x)) = Len(calls) /\ Len(calls) \in Nat
         /\ DOMAIN Append(Front(calls), x) = DOMAIN calls
         /\ DOMAIN calls = 1..Len(calls) /\ Len(calls) \in DOMAIN calls
         /\ \A i \in DOMAIN calls : \/ i = Len(calls) /\ Append(Front(calls), x)[i] = x
                                    \/ i < Len(calls) /\ Append(Front(calls), x)[i] = calls[i]
<1>1. /\ Len(calls) \in Nat /\ Len(calls) > 0 /\ DOMAIN calls = 1..Len(calls)
      /\ Front(calls) \in Seq(Calls) /\ DOMAIN Front(calls) = 1..(Len(calls) - 1)
      /\ \A i \in DOMAIN Front(calls) : i \in DOMAIN calls /\ Front(calls)[i] = calls[i]
  BY Shrunk
<1>2. Len(Front(calls)) = Len(calls) - 1
  BY FrontIs
<1> DEFINE front == Front(calls)
<1>3. /\ front \in Seq(Calls) /\ Len(front) = Len(calls) - 1 /\ DOMAIN front = 1..(Len(calls) - 1)
      /\ \A i \in DOMAIN front : front[i] = calls[i]
  BY <1>1, <1>2
<1> HIDE DEF front
<1>4. /\ Append(front, x) \in Seq(Calls) /\ Len(Append(front, x)) = Len(front) + 1
      /\ DOMAIN Append(front, x) = 1..(Len(front) + 1)
      /\ Append(front, x)[Len(front) + 1] = x
      /\ \A i \in DOMAIN front : Append(front, x)[i] = front[i]
  BY <1>3
<1>5. Len(front) + 1 = Len(calls)
  BY <1>1, <1>3
<1>6. Len(Append(front, x)) = Len(calls) /\ DOMAIN Append(front, x) = 1..Len(calls)
      /\ Append(front, x)[Len(calls)] = x
  BY <1>4, <1>5
<1>7. \A i \in 1..Len(calls) : i = Len(calls) \/ (i < Len(calls) /\ i \in 1..(Len(calls) - 1))
  <2>1. \A K \in Nat : \A i \in 1..K : i = K \/ (i < K /\ i \in 1..(K - 1))
    OBVIOUS
  <2> QED
    BY <1>1, <2>1
<1>8. \A i \in DOMAIN calls : \/ i = Len(calls) /\ Append(front, x)[i] = x
                              \/ i < Len(calls) /\ Append(front, x)[i] = calls[i]
  BY <1>1, <1>3, <1>4, <1>6, <1>7
<1>9. Append(front, x) \in Seq(Calls) /\ Len(calls) \in DOMAIN calls
  BY <1>1, <1>4
<1> QED
  BY <1>1, <1>6, <1>8, <1>9 DEF front

LEMMA PathElse ==
  ASSUME Body, NEW calls \in Seq(Calls), NEW at \in 0..Len(prog), Path(calls, at),
         calls[Len(calls)].node /= 0, NEW x \in Calls, x.node = calls[Len(calls)].node
  PROVE  Path(Append(Front(calls), x), at)
<1> DEFINE turned == Append(Front(calls), x)
<1>1. calls /= <<>> /\ calls[1] = [node |-> 0, slot |-> "body", id |-> 0]
  BY DEF Path
<1>2. /\ turned \in Seq(Calls) /\ Len(turned) = Len(calls) /\ DOMAIN turned = DOMAIN calls
      /\ Len(calls) \in Nat /\ DOMAIN calls = 1..Len(calls) /\ Len(calls) \in DOMAIN calls
      /\ \A i \in DOMAIN calls : \/ i = Len(calls) /\ turned[i] = x
                                 \/ i < Len(calls) /\ turned[i] = calls[i]
  BY <1>1, Turned
<1> HIDE DEF turned
<1>3. \A i \in DOMAIN calls : turned[i].node = calls[i].node
  BY <1>2
<1>4. turned /= <<>> /\ turned[1] = [node |-> 0, slot |-> "body", id |-> 0]
  <2>1. 1 \in DOMAIN calls
    BY <1>2
  <2>2. 1 /= Len(calls)
    <3>1. calls[1].node = 0
      BY <1>1
    <3>2. calls[1].node /= calls[Len(calls)].node
      BY <3>1
    <3> QED
      BY <3>2
  <2>3. turned[1] = calls[1]
    BY <1>2, <2>1, <2>2
  <2>4. turned /= <<>>
    BY <1>2, <2>1
  <2> QED
    BY <1>1, <2>3, <2>4
<1>5. ASSUME NEW i \in DOMAIN turned
      PROVE  /\ i > 1 => turned[i].node /= 0
             /\ Kind(turned[i].node) \notin Leaves
             /\ Ancestors(turned[i].node) = {turned[j].node : j \in 1..(i - 1)}
             /\ Cardinality(Ancestors(turned[i].node)) = i - 1
             /\ \A j \in DOMAIN turned : i < j => turned[i].node < turned[j].node
  <2>1. i \in DOMAIN calls /\ turned[i].node = calls[i].node
    BY <1>2, <1>3
  <2>2. /\ i > 1 => calls[i].node /= 0
        /\ Kind(calls[i].node) \notin Leaves
        /\ Ancestors(calls[i].node) = {calls[j].node : j \in 1..(i - 1)}
        /\ Cardinality(Ancestors(calls[i].node)) = i - 1
        /\ \A j \in DOMAIN calls : i < j => calls[i].node < calls[j].node
    BY <2>1 DEF Path
  <2>3. \A j \in 1..(i - 1) : turned[j].node = calls[j].node
    <3>1. \A j \in 1..(i - 1) : j \in DOMAIN calls
      BY <1>2, <2>1
    <3> QED
      BY <1>3, <3>1
  <2>4. {calls[j].node : j \in 1..(i - 1)} = {turned[j].node : j \in 1..(i - 1)}
    BY <2>3
  <2>5. \A j \in DOMAIN turned : i < j => turned[i].node < turned[j].node
    BY <1>2, <1>3, <2>1, <2>2
  <2> QED
    BY <2>1, <2>2, <2>4, <2>5
<1>6. turned[Len(turned)].node \in {at} \cup Ancestors(at)
  <2>1. calls[Len(calls)].node \in {at} \cup Ancestors(at)
    BY DEF Path
  <2> QED
    BY <1>2, <1>3, <2>1
<1>7. Path(turned, at)
  BY <1>4, <1>5, <1>6 DEF Path
<1> QED
  BY <1>7 DEF turned

(* The call x that takes the place of a call which ran the body of an if.    *)
Turns(calls, x) ==
  LET top == calls[Len(calls)]
  IN  /\ ElsePending(top) /\ Kids(top.node, "else") /= {}
      /\ x = [node |-> top.node, slot |-> "else", id |-> top.id]

LEMMA TurnedCalls ==
  ASSUME NEW calls \in Seq(Calls), calls /= <<>>, NEW x \in Calls, Turns(calls, x)
  PROVE  /\ Append(Front(calls), x) \in Seq(Calls)
         /\ DOMAIN Append(Front(calls), x) = DOMAIN calls
         /\ Len(Append(Front(calls), x)) = Len(calls) /\ Len(calls) \in DOMAIN calls
         /\ DOMAIN calls = 1..Len(calls)
         /\ Append(Front(calls), x)[Len(calls)] = x
         /\ \A i \in DOMAIN calls :
              /\ Append(Front(calls), x)[i].node = calls[i].node
              /\ Append(Front(calls), x)[i].id = calls[i].id
              /\ i /= Len(calls) => Append(Front(calls), x)[i] = calls[i] /\ i < Len(calls)
              /\ TakesId(Append(Front(calls), x)[i]) <=> TakesId(calls[i])
         /\ Kind(x.node) = "if" /\ Kind(calls[Len(calls)].node) = "if"
         /\ x.slot = "else" /\ x.node = calls[Len(calls)].node /\ x.id = calls[Len(calls)].id
<1> DEFINE turned == Append(Front(calls), x)
<1>1. /\ turned \in Seq(Calls) /\ DOMAIN turned = DOMAIN calls /\ Len(turned) = Len(calls)
      /\ Len(calls) \in Nat /\ DOMAIN calls = 1..Len(calls) /\ Len(calls) \in DOMAIN calls
      /\ \A i \in DOMAIN calls : \/ i = Len(calls) /\ turned[i] = x
                                 \/ i < Len(calls) /\ turned[i] = calls[i]
  BY Turned
<1>2. /\ x.slot = "else" /\ x.node = calls[Len(calls)].node /\ x.id = calls[Len(calls)].id
      /\ Kind(calls[Len(calls)].node) = "if"
  BY DEF Turns, ElsePending
<1> HIDE DEF turned
<1>3. ASSUME NEW i \in DOMAIN calls
      PROVE  /\ turned[i].node = calls[i].node
             /\ turned[i].id = calls[i].id
             /\ i /= Len(calls) => turned[i] = calls[i] /\ i < Len(calls)
             /\ TakesId(turned[i]) <=> TakesId(calls[i])
  <2>1. /\ turned[i].node = calls[i].node
        /\ turned[i].id = calls[i].id
        /\ i /= Len(calls) => turned[i] = calls[i] /\ i < Len(calls)
    BY <1>1, <1>2
  <2>2. TakesId(turned[i]) <=> TakesId(calls[i])
    BY <2>1 DEF TakesId
  <2> QED
    BY <2>1, <2>2
<1>4. turned[Len(calls)] = x
  BY <1>1
<1> QED
  BY <1>1, <1>2, <1>3, <1>4 DEF turned

LEMMA IdsElse ==
  ASSUME NEW calls \in Seq(Calls), calls /= <<>>, NEW x \in Calls, Turns(calls, x),
         NEW counter, Ids(calls, counter)
  PROVE  Ids(Append(Front(calls), x), counter)
BY TurnedCalls DEF Ids

LEMMA NumberingElse ==
  ASSUME NEW calls \in Seq(Calls), calls /= <<>>, NEW x \in Calls, Turns(calls, x),
         NEW index, Numbering(calls, index)
  PROVE  Numbering(Append(Front(calls), x), index)
BY TurnedCalls DEF Numbering

LEMMA PassedElse ==
  ASSUME NEW calls \in Seq(Calls), calls /= <<>>, NEW x \in Calls, Turns(calls, x),
         NEW at, NEW defs, Passed(calls, at, defs), NEW D, \A l \in D : l.name \notin Labels
  PROVE  Passed(Append(Front(calls), x), at, defs \cup D)
<1> DEFINE turned == Append(Front(calls), x)
<1>1. /\ DOMAIN turned = DOMAIN calls
      /\ \A i \in DOMAIN calls : turned[i].node = calls[i].node /\ turned[i].id = calls[i].id
  BY TurnedCalls
<1> HIDE DEF turned
<1>2. ASSUME NEW i \in DOMAIN turned, Kind(turned[i].node) = "switch",
             NEW l \in defs \cup D, l.id = turned[i].id, l.name \in Labels
      PROVE  \E c \in Collect(turned[i].node) :
               c <= at /\ l = LabelIn(turned[i].node, turned[i].id, c)
  <2>1. l \in defs /\ i \in DOMAIN calls /\ turned[i].node = calls[i].node /\ turned[i].id = calls[i].id
    BY <1>1, <1>2
  <2>2. \E c \in Collect(calls[i].node) : c <= at /\ l = LabelIn(calls[i].node, calls[i].id, c)
    BY <1>2, <2>1 DEF Passed
  <2> QED
    BY <2>1, <2>2
<1>3. Passed(turned, at, defs \cup D)
  BY <1>2 DEF Passed
<1> QED
  BY <1>3 DEF turned

LEMMA MarksElse ==
  ASSUME NEW calls \in Seq(Calls), calls /= <<>>, NEW x \in Calls, Turns(calls, x),
         NEW counter \in Nat, Ids(calls, counter), NEW defs, Marks(calls, defs)
  PROVE  Marks(Append(Front(calls), x), defs \cup {Name("else", x.id)})
<1> DEFINE turned == Append(Front(calls), x)
           top == calls[Len(calls)]
<1>1. /\ DOMAIN turned = DOMAIN calls /\ Len(calls) \in DOMAIN calls
      /\ turned[Len(calls)] = x
      /\ \A i \in DOMAIN calls : i /= Len(calls) => turned[i] = calls[i] /\ i < Len(calls)
      /\ Kind(x.node) = "if" /\ x.slot = "else" /\ x.node = top.node /\ x.id = top.id
  BY TurnedCalls
<1>2. TakesId(top) /\ ~ConstTruth(top.node) /\ Kind(top.node) = "if"
  BY DEF Turns, ElsePending, TakesId
<1> HIDE DEF turned
<1>3. ASSUME NEW i \in DOMAIN turned, NEW l \in LabelSet
      PROVE  /\ Opened(turned[i], l) => l \in defs \cup {Name("else", x.id)}
             /\ Due(turned[i], l) => l \notin defs \cup {Name("else", x.id)}
  <2>1. CASE i = Len(calls)
    <3>1. turned[i] = x /\ i \in DOMAIN calls
      BY <1>1, <2>1
    <3>2. ~Opened(x, l)
      BY <1>1 DEF Opened
    <3>3. ASSUME Due(x, l) PROVE l = Name("end", top.id) /\ Due(top, l)
      BY <1>1, <1>2, <3>3 DEF Due
    <3>4. ASSUME Due(x, l) PROVE l \notin defs /\ l /= Name("else", x.id)
      <4>1. l \notin defs
        BY <2>1, <3>1, <3>3, <3>4 DEF Marks
      <4>2. l /= Name("else", x.id)
        BY <3>3, <3>4 DEF Name
      <4> QED
        BY <4>1, <4>2
    <3> QED
      BY <3>1, <3>2, <3>4
  <2>2. CASE i /= Len(calls)
    <3>1. i \in DOMAIN calls /\ turned[i] = calls[i] /\ i < Len(calls)
      BY <1>1, <2>2
    <3>2. /\ Opened(calls[i], l) => l \in defs
          /\ Due(calls[i], l) => l \notin defs
      BY <3>1 DEF Marks
    <3>3. ASSUME Due(calls[i], l), l = Name("else", x.id) PROVE FALSE
      <4>1. TakesId(calls[i]) /\ l.id = calls[i].id
        BY <3>3, DueIs
      <4>2. calls[i].id = top.id
        BY <1>1, <3>3, <4>1 DEF Name
      <4>3. calls[i].id < top.id
        BY <1>1, <1>2, <3>1, <4>1 DEF Ids
      <4>4. calls[i].id \in Nat
        BY <3>1, Shrunk
      <4> QED
        BY <4>2, <4>3, <4>4
    <3> QED
      BY <3>1, <3>2, <3>3
  <2> QED
    BY <2>1, <2>2
<1>4. Marks(turned, defs \cup {Name("else", x.id)})
  BY <1>3 DEF Marks
<1> QED
  BY <1>4 DEF turned

LEMMA TargetsElse ==
  ASSUME Body, NEW calls \in Seq(Calls), NEW at \in 0..Len(prog), Path(calls, at),
         NEW x \in Calls, Turns(calls, x),
         \A k \in Kids(calls[Len(calls)].node, "body") : k <= at,
         NEW defs, NEW jumps, Targets(calls, at, defs, jumps)
  PROVE  Targets(Append(Front(calls), x), at, defs \cup {Name("else", x.id)},
                 jumps \cup {Name("end", x.id)})
<1> DEFINE turned == Append(Front(calls), x)
           top == calls[Len(calls)]
           D == {Name("else", x.id)}
           J == {Name("end", x.id)}
<1>1. /\ DOMAIN turned = DOMAIN calls /\ Len(calls) \in DOMAIN calls
      /\ turned[Len(calls)] = x
      /\ \A i \in DOMAIN calls : /\ i /= Len(calls) => turned[i] = calls[i]
                                 /\ turned[i].node = calls[i].node /\ turned[i].id = calls[i].id
      /\ Kind(x.node) = "if" /\ x.slot = "else" /\ x.node = top.node /\ x.id = top.id
  <2>1. calls /= <<>>
    BY DEF Path
  <2> QED
    BY <2>1, TurnedCalls
<1>2. ~ConstTruth(top.node) /\ Kind(top.node) = "if" /\ top.slot = "body"
  BY DEF Turns, ElsePending
<1>3. Due(turned[Len(calls)], Name("end", x.id))
  BY <1>1, <1>2 DEF Due
<1> HIDE DEF turned
<1>4. ASSUME NEW c \in Nodes, Ahead(calls, at, c) PROVE Ahead(turned, at, c)
  <2>1. PICK j \in DOMAIN calls, k \in {c} \cup Ancestors(c) :
          /\ k > at
          /\ prog[k].up = calls[j].node
          /\ prog[k].slot = calls[j].slot \/ ElsePending(calls[j])
    BY <1>4 DEF Ahead
  <2>2. CASE j /= Len(calls)
    BY <1>1, <2>1, <2>2 DEF Ahead
  <2>3. CASE j = Len(calls)
    <3>1. k \in Nodes
      <4>1. c \in 0..Len(prog) /\ Nodes = 1..Len(prog) /\ Len(prog) \in Nat
        BY DEF Nodes, Body
      <4>2. Ancestors(c) \subseteq 0..(c - 1)
        BY <4>1, InsideBody
      <4> QED
        BY <2>1, <4>1, <4>2
    <3>2. prog[k].slot \in {"body", "else"}
      <4>1. prog[k] \in Node
        BY <3>1 DEF Body, Nodes
      <4> QED
        BY <4>1 DEF Node
    <3>3. prog[k].slot /= "body"
      <4> SUFFICES ASSUME prog[k].slot = "body" PROVE FALSE
        OBVIOUS
      <4>1. k \in Kids(top.node, "body")
        BY <2>1, <2>3, <3>1 DEF Kids
      <4>2. k <= at /\ k \in Int /\ at \in Int
        BY <3>1, <4>1 DEF Nodes, Body
      <4> QED
        BY <2>1, <4>2
    <3>4. prog[k].slot = turned[j].slot /\ prog[k].up = turned[j].node /\ j \in DOMAIN turned
      BY <1>1, <2>1, <2>3, <3>2, <3>3
    <3> QED
      BY <2>1, <3>4 DEF Ahead
  <2> QED
    BY <2>2, <2>3
<1>5. ASSUME NEW l \in jumps
      PROVE  \/ l \in defs \cup D \/ \E i \in DOMAIN turned : Due(turned[i], l)
             \/ DeadLabel(l) \/ Awaited(turned, at, l)
  <2>1. CASE l \in defs \/ DeadLabel(l)
    BY <2>1
  <2>2. CASE \E i \in DOMAIN calls : Due(calls[i], l)
    <3>1. PICK i \in DOMAIN calls : Due(calls[i], l)
      BY <2>2
    <3>2. CASE i /= Len(calls)
      BY <1>1, <3>1, <3>2
    <3>3. CASE i = Len(calls)
      <4>1. l = Name("end", x.id) \/ l = Name("else", x.id)
        BY <1>1, <1>2, <3>1, <3>3 DEF Due
      <4> QED
        BY <1>1, <1>3, <4>1 DEF turned
    <3> QED
      BY <3>2, <3>3
  <2>3. CASE Awaited(calls, at, l)
    <3>1. PICK i \in DOMAIN calls : 
            /\ Kind(calls[i].node) = "switch"
            /\ \E c \in Collect(calls[i].node) :
                 l = LabelIn(calls[i].node, calls[i].id, c) /\ Ahead(calls, at, c)
      BY <2>3 DEF Awaited
    <3>2. PICK c \in Collect(calls[i].node) :
            l = LabelIn(calls[i].node, calls[i].id, c) /\ Ahead(calls, at, c)
      BY <3>1
    <3>3. c \in Nodes
      BY CollectIs
    <3>4. Ahead(turned, at, c)
      BY <1>4, <3>2, <3>3
    <3>5. i \in DOMAIN turned /\ turned[i].node = calls[i].node /\ turned[i].id = calls[i].id
      BY <1>1
    <3> QED
      BY <3>1, <3>2, <3>4, <3>5 DEF Awaited
  <2> QED
    BY <2>1, <2>2, <2>3 DEF Targets
<1>6. \E i \in DOMAIN turned : Due(turned[i], Name("end", x.id))
  BY <1>1, <1>3 DEF turned
<1>7. Targets(turned, at, defs \cup D, jumps \cup J)
  BY <1>5, <1>6 DEF Targets
<1> QED
  BY <1>7 DEF turned

(***************************************************************************)
(* The steps of the generator, by what they do to the pending calls.        *)
(***************************************************************************)
(* The parts of Generating that a step has to begin with.                   *)
LEMMA Begins ==
  ASSUME Body, NEW s, Generating(s)
  PROVE  /\ s.calls \in Seq(Calls) /\ s.calls /= <<>> /\ s.at \in 0..Len(prog)
         /\ s.at \in Nat /\ Nodes \subseteq Nat
         /\ s.label_counter \in Nat /\ s.code \in Seq(Lines)
         /\ s.break \in Seq(Ctx) /\ s.continue \in Seq(Ctx) /\ s.switch \in Seq(Nat)
         /\ Path(s.calls, s.at) /\ Ids(s.calls, s.label_counter)
         /\ Defs(s.code) \subseteq LabelSet /\ Jumps(s.code) \subseteq LabelSet
         /\ Bounded(Defs(s.code), s.label_counter)
         /\ Adds(s.code, Defs(s.code), Jumps(s.code))
<1>1. /\ s.calls \in Seq(Calls) /\ s.at \in 0..Len(prog)
      /\ s.label_counter \in Nat /\ s.code \in Seq(Lines)
      /\ s.break \in Seq(Ctx) /\ s.continue \in Seq(Ctx) /\ s.switch \in Seq(Nat)
  BY DEF Generating, GenTypeOK
<1>2. Path(s.calls, s.at) /\ Ids(s.calls, s.label_counter) /\ DefinedOnce(s.code)
  BY DEF Generating
<1>3. s.calls /= <<>>
  BY <1>2 DEF Path
<1>4. Defs(s.code) \subseteq LabelSet /\ Jumps(s.code) \subseteq LabelSet
  BY <1>1, LabelsTyped
<1>5. Bounded(Defs(s.code), s.label_counter)
  BY DEF Generating, Bounded
<1>6. Adds(s.code, Defs(s.code), Jumps(s.code))
  BY <1>1, <1>2 DEF Adds
<1>7. s.at \in Nat /\ Nodes \subseteq Nat
  BY <1>1 DEF Nodes, Body
<1> QED
  BY <1>1, <1>2, <1>3, <1>4, <1>5, <1>6, <1>7

LEMMA LeafKeeps ==
  ASSUME Body, NEW s, Generating(s), NEW n, Comes(s.calls, s.at, n),
         NEW lines, NEW D, NEW J, Adds(lines, D, J), Laid(s.calls, n, D),
         \A c \in Nodes : n \in Ancestors(c) => InDeadArm(c),
         \A l \in J : l \in Defs(s.code) \/ \E i \in DOMAIN s.calls : Due(s.calls[i], l),
         NEW t, GenTypeOK(t), t.code = s.code \o lines, t.label_counter = s.label_counter,
         t.break = s.break, t.continue = s.continue, t.switch = s.switch,
         t.case_index = s.case_index, t.calls = s.calls, t.at = n,
         t.ends => Returned(lines)
  PROVE  Generating(t)
<1> DEFINE defs == Defs(s.code)
           jumps == Jumps(s.code)
           counter == s.label_counter
           calls == s.calls
           at == s.at
<1>1. /\ calls \in Seq(Calls) /\ calls /= <<>> /\ at \in 0..Len(prog) /\ counter \in Nat
      /\ s.code \in Seq(Lines) /\ Path(calls, at) /\ Ids(calls, counter)
      /\ Bounded(defs, counter) /\ Adds(s.code, defs, jumps)
  BY Begins
<1>2. /\ Stacks(s) /\ Marks(calls, defs) /\ Numbering(calls, s.case_index)
      /\ Passed(calls, at, defs) /\ Targets(calls, at, defs, jumps)
      /\ Bounded(defs \cup jumps, counter)
  BY DEF Generating
<1>0. /\ Body /\ Comes(calls, at, n) /\ Laid(calls, n, D) /\ Adds(lines, D, J)
      /\ \A c \in Nodes : n \in Ancestors(c) => InDeadArm(c)
      /\ \A l \in J : l \in defs \/ \E i \in DOMAIN calls : Due(calls[i], l)
      /\ t.code = s.code \o lines /\ t.calls = calls /\ t.at = n
      /\ t.label_counter = counter
  OBVIOUS
<1> HIDE DEF defs, jumps, counter, calls, at
<1>3. defs \cap D = {} /\ \A l \in D : l.name \in Labels /\ l.id < counter
  BY ONLY <1>0, <1>1, <1>2, LaidIsNew
<1>4. Adds(t.code, defs \cup D, jumps \cup J)
  BY ONLY <1>0, <1>1, <1>3, AddsBoth
<1>5. Defs(t.code) = defs \cup D /\ Jumps(t.code) = jumps \cup J /\ DefinedOnce(t.code)
  BY <1>4 DEF Adds
<1>6. Path(t.calls, t.at)
  BY ONLY <1>0, <1>1, PathLeaf
<1>7. Stacks(t)
  BY <1>2 DEF Stacks, calls
<1>8. Bounded(Defs(t.code) \cup Jumps(t.code), t.label_counter)
  <2>1. \A l \in J : l.id < counter
    <3>1. ASSUME NEW l, NEW i \in DOMAIN calls, Due(calls[i], l) PROVE l.id < counter
      BY ONLY <1>1, <3>1, DueIs DEF Ids
    <3> QED
      BY ONLY <1>0, <1>1, <3>1 DEF Bounded
  <2> QED
    BY ONLY <1>0, <1>2, <1>3, <1>5, <2>1 DEF Bounded
<1>9. Marks(t.calls, Defs(t.code))
  <2>1. \A l \in D : l.name \in Labels
    BY <1>3
  <2>2. Marks(calls, defs \cup D)
    BY ONLY <1>2, <2>1, MarksLeaf
  <2> QED
    BY ONLY <1>0, <1>5, <2>2
<1>10. Passed(t.calls, t.at, Defs(t.code))
  BY ONLY <1>0, <1>1, <1>2, <1>5, PassedLeaf
<1>11. Targets(t.calls, t.at, Defs(t.code), Jumps(t.code))
  <2>1. Targets(calls, n, defs \cup D, jumps \cup J)
    BY ONLY <1>0, <1>1, <1>2, TargetsLeaf
  <2> QED
    BY ONLY <1>0, <1>5, <2>1
<1>12. t.ends => Returned(t.code)
  <2>1. lines \in Seq(Lines)
    BY DEF Adds
  <2> QED
    BY <1>0, <1>1, <2>1, ReturnedAfter
<1> QED
  BY <1>0, <1>1, <1>2, <1>5, <1>6, <1>7, <1>8, <1>9, <1>10, <1>11, <1>12 DEF Generating, calls, counter

(* The call that the generator makes for statement n.                        *)
CallOf(n, x) ==
  /\ x \in Calls /\ x.node = n /\ Kind(n) \notin Leaves
  /\ \/ Kind(n) /= "if" /\ x.slot = "body"
     \/ Kind(n) = "if" /\ ~ConstTruth(n) /\ x.slot = "body"
     \/ Kind(n) = "if" /\ ConstTruth(n) /\ x.slot = IF Dead(n) THEN "else" ELSE "body"

(* The labels that it puts down before, and where it jumps.                  *)
PutsDown(counter, n, x, D, J) ==
  /\ \A l \in D : TakesId(x) /\ l.id = counter
  /\ \A l \in D : l.name \notin Labels
  /\ \A l \in LabelSet : Opened(x, l) => l \in D
  /\ \A l \in LabelSet : Due(x, l) => l \notin D
  /\ \A l \in J : \/ l \in D
                  \/ Due(x, l)
                  \/ Kind(n) = "switch" /\ \E c \in Collect(n) : l = LabelIn(n, x.id, c)

(* The targets that it pushes, and the number that it takes.                *)
Pushes(s, t, n, x) ==
  /\ NewId(x, s.label_counter, t.label_counter)
  /\ \/ Kind(n) \in Breakable /\ t.break = Append(s.break, CtxOf[x])
     \/ Kind(n) \notin Breakable /\ t.break = s.break
  /\ \/ Kind(n) \in Loops /\ t.continue = Append(s.continue, CtxOf[x])
     \/ Kind(n) \notin Loops /\ t.continue = s.continue
  /\ \/ Kind(n) = "switch" /\ t.switch = Append(s.switch, IdOf[x])
     \/ Kind(n) /= "switch" /\ t.switch = s.switch
  /\ Renumbers(n, s.case_index, t.case_index)

LEMMA CallKeeps ==
  ASSUME Body, NEW s, Generating(s), NEW n, Comes(s.calls, s.at, n),
         NEW x, CallOf(n, x), NEW lines, NEW D, NEW J, Adds(lines, D, J),
         PutsDown(s.label_counter, n, x, D, J),
         NEW t, GenTypeOK(t), Pushes(s, t, n, x), t.code = s.code \o lines,
         t.calls = Append(s.calls, x), t.at = n, ~t.ends
  PROVE  Generating(t)
<1> DEFINE defs == Defs(s.code)
           jumps == Jumps(s.code)
           counter == s.label_counter
           calls == s.calls
           at == s.at
<1>1. /\ calls \in Seq(Calls) /\ calls /= <<>> /\ at \in 0..Len(prog) /\ counter \in Nat
      /\ s.code \in Seq(Lines) /\ Path(calls, at) /\ Ids(calls, counter)
      /\ Bounded(defs, counter) /\ Adds(s.code, defs, jumps)
      /\ s.break \in Seq(Ctx) /\ s.continue \in Seq(Ctx) /\ s.switch \in Seq(Nat)
  BY Begins
<1>2. /\ Stacks(s) /\ Marks(calls, defs) /\ Numbering(calls, s.case_index)
      /\ Passed(calls, at, defs) /\ Targets(calls, at, defs, jumps)
      /\ Bounded(defs \cup jumps, counter)
  BY DEF Generating
<1>0. /\ Body /\ Comes(calls, at, n) /\ Adds(lines, D, J) /\ x \in Calls /\ x.node = n
      /\ Kind(n) \notin Leaves
      /\ \A l \in D : TakesId(x) /\ l.id = counter
      /\ \A l \in D : l.name \notin Labels
      /\ \A l \in LabelSet : Opened(x, l) => l \in D
      /\ \A l \in LabelSet : Due(x, l) => l \notin D
      /\ NewId(x, counter, t.label_counter)
      /\ t.code = s.code \o lines /\ t.calls = Append(calls, x) /\ t.at = n
  BY DEF CallOf, PutsDown, Pushes
<1>17. Renumbers(n, s.case_index, t.case_index)
  BY DEF CallOf, PutsDown, Pushes
<1>18. \A l \in J : \/ l \in D
                    \/ Due(x, l)
                    \/ Kind(n) = "switch" /\ \E c \in Collect(n) : l = LabelIn(n, x.id, c)
  BY DEF CallOf, PutsDown, Pushes
<1>19. \/ Kind(n) /= "if" /\ x.slot = "body"
       \/ Kind(n) = "if" /\ ~ConstTruth(n) /\ x.slot = "body"
       \/ Kind(n) = "if" /\ ConstTruth(n) /\ x.slot = IF Dead(n) THEN "else" ELSE "body"
  BY DEF CallOf, PutsDown, Pushes
<1>20. /\ \/ Kind(n) \in Breakable /\ t.break = Append(s.break, CtxOf[x])
          \/ Kind(n) \notin Breakable /\ t.break = s.break
       /\ \/ Kind(n) \in Loops /\ t.continue = Append(s.continue, CtxOf[x])
          \/ Kind(n) \notin Loops /\ t.continue = s.continue
       /\ \/ Kind(n) = "switch" /\ t.switch = Append(s.switch, IdOf[x])
          \/ Kind(n) /= "switch" /\ t.switch = s.switch
  BY DEF CallOf, PutsDown, Pushes
<1>21. Nodes \subseteq Nat /\ at \in Nat
  BY Begins
<1> HIDE DEF defs, jumps, counter, calls, at
<1>3. n \in Nodes /\ at \in Nat /\ n \in Nat /\ at < n /\ Nodes \subseteq Nat
  <2>1. n \in Nodes /\ n > at
    BY ONLY <1>0, <1>1, Coming
  <2> QED
    BY ONLY <1>21, <2>1
<1>4. t.label_counter \in Nat
  BY DEF GenTypeOK
<1>5. \A l \in defs : l.id < counter
  BY <1>1 DEF Bounded
<1>6. defs \cap D = {}
  <2>1. \A l \in D : l.id = counter
    BY <1>0
  <2>2. ~(counter < counter)
    BY <1>1
  <2> QED
    BY <1>5, <2>1, <2>2
<1>7. Adds(t.code, defs \cup D, jumps \cup J)
  <2>1. Adds(s.code \o lines, defs \cup D, jumps \cup J)
    BY ONLY <1>0, <1>1, <1>6, AddsBoth
  <2> QED
    BY ONLY <1>0, <2>1
<1>8. Defs(t.code) = defs \cup D /\ Jumps(t.code) = jumps \cup J /\ DefinedOnce(t.code)
  BY <1>7 DEF Adds
<1>9. Path(t.calls, t.at)
  BY ONLY <1>0, <1>1, PathPush
<1>10. Ids(t.calls, t.label_counter)
  BY ONLY <1>0, <1>1, <1>4, IdsCall
<1>11. Stacks(t)
  <2>1. Tracks(s.break, calls, Breakable, CtxOf) /\ Tracks(s.continue, calls, Loops, CtxOf)
        /\ Tracks(s.switch, calls, {"switch"}, IdOf)
    BY <1>2 DEF Stacks, calls
  <2>2. Kind(n) \in Breakable => CtxOf[x] \in Ctx
    BY <1>0 DEF CtxOf, Calls, Ctx
  <2>6. IdOf[x] \in Nat
    BY <1>0 DEF IdOf, Calls
  <2>7. Kind(n) \in Loops => Kind(n) \in Breakable
    BY DEF Breakable
  <2>3. Tracks(t.break, t.calls, Breakable, CtxOf)
    <3>1. CASE Kind(n) \in Breakable
      BY ONLY <1>0, <1>1, <1>20, <2>1, <2>2, <3>1, TracksPush
    <3>2. CASE Kind(n) \notin Breakable
      BY ONLY <1>0, <1>1, <1>20, <2>1, <3>2, TracksSkip
    <3> QED
      BY <3>1, <3>2
  <2>4. Tracks(t.continue, t.calls, Loops, CtxOf)
    <3>1. CASE Kind(n) \in Loops
      BY ONLY <1>0, <1>1, <1>20, <2>1, <2>2, <2>7, <3>1, TracksPush
    <3>2. CASE Kind(n) \notin Loops
      BY ONLY <1>0, <1>1, <1>20, <2>1, <3>2, TracksSkip
    <3> QED
      BY <3>1, <3>2
  <2>5. Tracks(t.switch, t.calls, {"switch"}, IdOf)
    <3>1. CASE Kind(n) = "switch"
      <4>1. Kind(x.node) \in {"switch"} /\ t.switch = Append(s.switch, IdOf[x])
        BY ONLY <1>0, <1>20, <3>1
      <4> QED
        BY ONLY <1>0, <1>1, <2>1, <2>6, <4>1, TracksPush, ZenonT(30)
    <3>2. CASE Kind(n) /= "switch"
      <4>1. Kind(x.node) \notin {"switch"} /\ t.switch = s.switch
        BY ONLY <1>0, <1>20, <3>2
      <4> QED
        BY ONLY <1>0, <1>1, <2>1, <4>1, TracksSkip
    <3> QED
      BY <3>1, <3>2
  <2> QED
    BY <2>3, <2>4, <2>5 DEF Stacks
<1>12. Bounded(Defs(t.code) \cup Jumps(t.code), t.label_counter)
  <2>1. counter <= t.label_counter
    BY ONLY <1>0, <1>1 DEF NewId
  <2>2. TakesId(x) => x.id = counter /\ counter < t.label_counter
    BY ONLY <1>0, <1>1 DEF NewId
  <2>3. \A l \in D : l.id = counter /\ TakesId(x)
    BY <1>0
  <2>4. ASSUME NEW l \in J PROVE l.id = counter /\ TakesId(x)
    <3>1. CASE l \in D
      BY <2>3, <3>1
    <3>2. CASE Due(x, l)
      BY <2>2, <3>2, DueIs
    <3>3. CASE Kind(n) = "switch" /\ \E c \in Collect(n) : l = LabelIn(n, x.id, c)
      <4>1. TakesId(x)
        BY <1>0, <3>3 DEF TakesId, Breakable
      <4>2. x.id \in Nat
        BY <1>0 DEF Calls
      <4>3. l.id = x.id
        BY <1>3, <3>3, <4>2, LabelInIs
      <4> QED
        BY <2>2, <4>1, <4>3
    <3> QED
      BY <1>18, <3>1, <3>2, <3>3
  <2>5. ASSUME NEW l \in defs \cup jumps, l.id < counter PROVE l.id < t.label_counter
    <3>1. l \in LabelSet
      BY Begins DEF defs, jumps
    <3>2. l.id \in Nat
      BY <3>1 DEF LabelSet
    <3> QED
      BY ONLY <1>1, <1>4, <2>1, <2>5, <3>2
  <2> QED
    BY ONLY <1>2, <1>8, <2>2, <2>3, <2>4, <2>5 DEF Bounded
<1>13. Marks(t.calls, Defs(t.code))
  <2>1. Marks(Append(calls, x), defs \cup D)
    BY ONLY <1>0, <1>1, <1>2, MarksCall
  <2> QED
    BY ONLY <1>0, <1>8, <2>1
<1>14. Numbering(t.calls, t.case_index)
  <2>1. Numbering(Append(calls, x), t.case_index)
    BY ONLY <1>0, <1>1, <1>2, <1>17, NumberingCall
  <2> QED
    BY ONLY <1>0, <2>1
<1>15. Passed(t.calls, t.at, Defs(t.code))
  <2>1. Passed(Append(calls, x), n, defs \cup D)
    BY ONLY <1>0, <1>1, <1>2, <1>3, PassedCall
  <2> QED
    BY ONLY <1>0, <1>8, <2>1
<1>16. Targets(t.calls, t.at, Defs(t.code), Jumps(t.code))
  <2>1. \A c \in Nodes : n \in Ancestors(c) => InDeadArm(c) \/ Ahead(Append(calls, x), n, c)
    <3> SUFFICES ASSUME NEW c \in Nodes, n \in Ancestors(c)
                 PROVE  InDeadArm(c) \/ Ahead(Append(calls, x), n, c)
      OBVIOUS
    <3>1. n \in Ancestors(c)
      OBVIOUS
    <3> QED
      BY ONLY <1>0, <1>1, <1>3, <1>19, <3>1, CallComes
  <2>2. \A l \in J : \/ l \in D
                     \/ Due(x, l)
                     \/ /\ Kind(n) = "switch"
                        /\ \E c \in Collect(n) : l = LabelIn(n, x.id, c) /\ l.name = Kind(c)
    <3>1. x.id \in Nat
      BY <1>0 DEF Calls
    <3>2. Kind(n) = "switch" => \A c \in Collect(n) : LabelIn(n, x.id, c).name = Kind(c)
      BY <1>3, <3>1, LabelInIs
    <3> QED
      BY <1>18, <3>2
  <2>3. \A i \in DOMAIN calls : Kind(calls[i].node) = "switch" =>
          \A c \in Collect(calls[i].node) : LabelIn(calls[i].node, calls[i].id, c).name = Kind(c)
    BY ONLY <1>0, <1>1, SwitchLabels, SMTT(20)
  <2>4. Targets(Append(calls, x), n, defs \cup D, jumps \cup J)
    BY ONLY <1>0, <1>1, <1>2, <2>1, <2>2, <2>3, TargetsCall
  <2> QED
    BY ONLY <1>0, <1>8, <2>4
<1> QED
  BY <1>8, <1>9, <1>10, <1>11, <1>12, <1>13, <1>14, <1>15, <1>16 DEF Generating

(* Every construct takes back what it pushed.                                *)
Pops(s, t) ==
  LET kind == Kind(s.calls[Len(s.calls)].node)
  IN  /\ \/ kind \in Breakable /\ t.break = Front(s.break)
         \/ kind \notin Breakable /\ t.break = s.break
      /\ \/ kind \in Loops /\ t.continue = Front(s.continue)
         \/ kind \notin Loops /\ t.continue = s.continue
      /\ \/ kind = "switch" /\ t.switch = Front(s.switch)
         \/ kind /= "switch" /\ t.switch = s.switch

LEMMA StacksEnd ==
  ASSUME Body, NEW s, Generating(s), NEW t, t.calls = Front(s.calls), Pops(s, t)
  PROVE  Stacks(t)
<1> DEFINE calls == s.calls
           kind == Kind(calls[Len(calls)].node)
<1>1. /\ calls \in Seq(Calls) /\ calls /= <<>>
      /\ s.break \in Seq(Ctx) /\ s.continue \in Seq(Ctx) /\ s.switch \in Seq(Nat)
  BY Begins
<1>2. /\ Tracks(s.break, calls, Breakable, CtxOf) /\ Tracks(s.continue, calls, Loops, CtxOf)
      /\ Tracks(s.switch, calls, {"switch"}, IdOf)
  BY DEF Generating, Stacks
<1>3. /\ t.calls = Front(calls)
      /\ \/ kind \in Breakable /\ t.break = Front(s.break)
         \/ kind \notin Breakable /\ t.break = s.break
      /\ \/ kind \in Loops /\ t.continue = Front(s.continue)
         \/ kind \notin Loops /\ t.continue = s.continue
      /\ \/ kind \in {"switch"} /\ t.switch = Front(s.switch)
         \/ kind \notin {"switch"} /\ t.switch = s.switch
  BY DEF Pops
<1> HIDE DEF calls
<1>4. Tracks(t.break, t.calls, Breakable, CtxOf)
  <2>1. CASE kind \in Breakable
    BY ONLY <1>1, <1>2, <1>3, <2>1, TracksPop
  <2>2. CASE kind \notin Breakable
    BY ONLY <1>1, <1>2, <1>3, <2>2, TracksSkipPop
  <2> QED
    BY <2>1, <2>2
<1>5. Tracks(t.continue, t.calls, Loops, CtxOf)
  <2>1. CASE kind \in Loops
    BY ONLY <1>1, <1>2, <1>3, <2>1, TracksPop
  <2>2. CASE kind \notin Loops
    BY ONLY <1>1, <1>2, <1>3, <2>2, TracksSkipPop
  <2> QED
    BY <2>1, <2>2
<1>6. Tracks(t.switch, t.calls, {"switch"}, IdOf)
  <2>1. CASE kind \in {"switch"}
    BY ONLY <1>1, <1>2, <1>3, <2>1, TracksPop
  <2>2. CASE kind \notin {"switch"}
    BY ONLY <1>1, <1>2, <1>3, <2>2, TracksSkipPop
  <2> QED
    BY <2>1, <2>2
<1> QED
  BY <1>4, <1>5, <1>6 DEF Stacks

(* The call that is about to return has nothing left to walk.                *)
Walked(s) ==
  LET top == s.calls[Len(s.calls)]
  IN  /\ top.node /= 0
      /\ \A k \in Kids(top.node, top.slot) : k <= s.at

LEMMA EndKeeps ==
  ASSUME Body, NEW s, Generating(s), Walked(s), NEW top, top = s.calls[Len(s.calls)],
         ElsePending(top) => Kids(top.node, "else") = {},
         NEW lines, NEW D, NEW J, Adds(lines, D, J),
         \A l \in D : Due(top, l), \A l : Due(top, l) => l \in D,
         \A l \in J : l \in D \/ Opened(top, l), D \cup J \subseteq LabelSet,
         NEW t, GenTypeOK(t), t.code = s.code \o lines, t.label_counter = s.label_counter,
         Pops(s, t), t.case_index = s.case_index, t.calls = Front(s.calls), t.at = s.at,
         t.ends => s.ends /\ lines = <<>>
  PROVE  Generating(t)
<1> DEFINE defs == Defs(s.code)
           jumps == Jumps(s.code)
           counter == s.label_counter
           calls == s.calls
           at == s.at
<1>1. /\ calls \in Seq(Calls) /\ calls /= <<>> /\ at \in 0..Len(prog) /\ counter \in Nat
      /\ s.code \in Seq(Lines) /\ Path(calls, at) /\ Ids(calls, counter)
      /\ Bounded(defs, counter) /\ Adds(s.code, defs, jumps)
  BY Begins
<1>2. /\ Marks(calls, defs) /\ Numbering(calls, s.case_index)
      /\ Passed(calls, at, defs) /\ Targets(calls, at, defs, jumps)
      /\ Bounded(defs \cup jumps, counter)
  BY DEF Generating
<1>3. s.ends => Returned(s.code)
  BY DEF Generating
<1>4. Stacks(t)
  BY StacksEnd
<1>0. /\ Body /\ Adds(lines, D, J) /\ top = calls[Len(calls)]
      /\ t.code = s.code \o lines /\ t.calls = Front(calls) /\ t.at = at
      /\ t.case_index = s.case_index /\ t.label_counter = counter
      /\ \A l \in D : Due(top, l)
  OBVIOUS
<1>5. /\ calls[Len(calls)].node /= 0
      /\ \A k \in Kids(calls[Len(calls)].node, calls[Len(calls)].slot) : k <= at
      /\ ElsePending(calls[Len(calls)]) => Kids(calls[Len(calls)].node, "else") = {}
      /\ \A l : Due(calls[Len(calls)], l) => l \in D
      /\ \A l \in D : Due(calls[Len(calls)], l)
  BY DEF Walked
<1>6. \A l \in J : l \in D \/ Opened(top, l)
  OBVIOUS
<1>7. D \cup J \subseteq LabelSet
  OBVIOUS
<1>8. t.ends => s.ends /\ lines = <<>>
  OBVIOUS
<1> HIDE DEF defs, jumps, counter, calls, at
<1>9. Len(calls) \in DOMAIN calls
  BY ONLY <1>1, Shrunk
<1>10. defs \cap D = {}
  BY ONLY <1>0, <1>2, <1>7, <1>9 DEF Marks
<1>11. \A l \in J : l \in defs \cup D
  BY ONLY <1>0, <1>2, <1>6, <1>7, <1>9 DEF Marks
<1>12. Defs(t.code) = defs \cup D /\ Jumps(t.code) = jumps \cup J /\ DefinedOnce(t.code)
  <2>1. Adds(s.code \o lines, defs \cup D, jumps \cup J)
    BY ONLY <1>0, <1>1, <1>10, AddsBoth
  <2> QED
    BY ONLY <1>0, <2>1 DEF Adds
<1>13. \A l \in D \cup J : l.id < counter
  <2>1. \A l \in D \cup J : TakesId(top) /\ l.id = top.id
    BY ONLY <1>0, <1>6, DueIs
  <2> QED
    BY ONLY <1>0, <1>1, <1>9, <2>1 DEF Ids
<1>14. \A l \in D : l.name \notin Labels
  BY ONLY <1>0, DueIs
<1>15. Path(t.calls, t.at)
  BY ONLY <1>0, <1>1, <1>5, PathPop
<1>16. Ids(t.calls, t.label_counter)
  BY ONLY <1>0, <1>1, IdsEnd
<1>17. Bounded(Defs(t.code) \cup Jumps(t.code), t.label_counter)
  BY ONLY <1>0, <1>2, <1>12, <1>13 DEF Bounded
<1>18. Marks(t.calls, Defs(t.code))
  <2>1. Marks(Front(calls), defs \cup D)
    BY ONLY <1>1, <1>2, <1>5, MarksEnd
  <2> QED
    BY ONLY <1>0, <1>12, <2>1
<1>19. Numbering(t.calls, t.case_index)
  BY ONLY <1>0, <1>1, <1>2, NumberingEnd
<1>20. Passed(t.calls, t.at, Defs(t.code))
  <2>1. Passed(Front(calls), at, defs \cup D)
    BY ONLY <1>1, <1>2, <1>14, PassedEnd
  <2> QED
    BY ONLY <1>0, <1>12, <2>1
<1>21. Targets(t.calls, t.at, Defs(t.code), Jumps(t.code))
  <2>1. Targets(Front(calls), at, defs \cup D, jumps \cup J)
    BY ONLY <1>0, <1>1, <1>2, <1>5, <1>11, TargetsEnd
  <2> QED
    BY ONLY <1>0, <1>12, <2>1
<1>22. t.ends => Returned(t.code)
  <2>1. lines = <<>> => t.code = s.code
    BY <1>0, <1>1
  <2> QED
    BY <1>3, <1>8, <2>1
<1> QED
  BY <1>4, <1>12, <1>15, <1>16, <1>17, <1>18, <1>19, <1>20, <1>21, <1>22 DEF Generating

LEMMA ElseKeeps ==
  ASSUME Body, NEW s, Generating(s), Walked(s), NEW x \in Calls, Turns(s.calls, x),
         NEW lines, Adds(lines, {Name("else", x.id)}, {Name("end", x.id)}),
         NEW t, GenTypeOK(t), t.code = s.code \o lines, t.label_counter = s.label_counter,
         t.break = s.break, t.continue = s.continue, t.switch = s.switch,
         t.case_index = s.case_index, t.calls = Append(Front(s.calls), x), t.at = s.at,
         ~t.ends
  PROVE  Generating(t)
<1> DEFINE defs == Defs(s.code)
           jumps == Jumps(s.code)
           counter == s.label_counter
           calls == s.calls
           at == s.at
           top == calls[Len(calls)]
           D == {Name("else", x.id)}
           J == {Name("end", x.id)}
<1>1. /\ calls \in Seq(Calls) /\ calls /= <<>> /\ at \in 0..Len(prog) /\ counter \in Nat
      /\ s.code \in Seq(Lines) /\ Path(calls, at) /\ Ids(calls, counter)
      /\ Bounded(defs, counter) /\ Adds(s.code, defs, jumps)
      /\ s.break \in Seq(Ctx) /\ s.continue \in Seq(Ctx) /\ s.switch \in Seq(Nat)
  BY Begins
<1>2. /\ Stacks(s) /\ Marks(calls, defs) /\ Numbering(calls, s.case_index)
      /\ Passed(calls, at, defs) /\ Targets(calls, at, defs, jumps)
      /\ Bounded(defs \cup jumps, counter)
  BY DEF Generating
<1>3. /\ Kind(top.node) = "if" /\ ~ConstTruth(top.node) /\ top.slot = "body"
      /\ Kids(top.node, "else") /= {}
      /\ x.node = top.node /\ x.id = top.id
  BY DEF Turns, ElsePending
<1>4. /\ top.node /= 0
      /\ \A k \in Kids(top.node, "body") : k <= at
  BY <1>3 DEF Walked
<1>0. /\ Body /\ Adds(lines, D, J) /\ Turns(calls, x) /\ x \in Calls
      /\ t.code = s.code \o lines /\ t.calls = Append(Front(calls), x) /\ t.at = at
      /\ t.case_index = s.case_index /\ t.label_counter = counter
      /\ t.break = s.break /\ t.continue = s.continue /\ t.switch = s.switch
  OBVIOUS
<1>5. /\ Tracks(s.break, calls, Breakable, CtxOf) /\ Tracks(s.continue, calls, Loops, CtxOf)
      /\ Tracks(s.switch, calls, {"switch"}, IdOf)
  BY <1>2 DEF Stacks
<1>6. x.id \in Nat /\ Name("else", x.id) \in LabelSet
  <2>1. x.id \in Nat
    BY DEF Calls
  <2> QED
    BY <2>1, NamesAreLabels DEF LabelNames
<1>7. ~t.ends
  OBVIOUS
<1> HIDE DEF defs, jumps, counter, calls, at, D, J
<1>9. Len(calls) \in DOMAIN calls
  BY ONLY <1>1, Shrunk
<1>10. defs \cap D = {}
  <2>1. Due(top, Name("else", x.id))
    BY <1>3 DEF Due
  <2>2. Name("else", x.id) \notin defs
    BY ONLY <1>2, <1>6, <1>9, <2>1 DEF Marks
  <2> QED
    BY ONLY <2>2 DEF D
<1>11. Defs(t.code) = defs \cup D /\ Jumps(t.code) = jumps \cup J /\ DefinedOnce(t.code)
  <2>1. Adds(s.code \o lines, defs \cup D, jumps \cup J)
    BY ONLY <1>0, <1>1, <1>10, AddsBoth
  <2> QED
    BY ONLY <1>0, <2>1 DEF Adds
<1>12. \A l \in D \cup J : l.id < counter
  <2>1. TakesId(top)
    BY ONLY <1>3 DEF TakesId
  <2>2. x.id < counter
    BY ONLY <1>1, <1>3, <1>9, <2>1 DEF Ids
  <2> QED
    BY ONLY <2>2 DEF D, J, Name
<1>13. \A l \in D : l.name \notin Labels
  BY DEF D, Name, Labels
<1>14. Path(t.calls, t.at)
  BY ONLY <1>0, <1>1, <1>3, <1>4, PathElse
<1>15. Ids(t.calls, t.label_counter)
  BY ONLY <1>0, <1>1, IdsElse
<1>16. Bounded(Defs(t.code) \cup Jumps(t.code), t.label_counter)
  BY ONLY <1>0, <1>2, <1>11, <1>12 DEF Bounded
<1>17. Marks(t.calls, Defs(t.code))
  <2>1. Marks(Append(Front(calls), x), defs \cup D)
    BY ONLY <1>0, <1>1, <1>2, MarksElse DEF D
  <2> QED
    BY ONLY <1>0, <1>11, <2>1
<1>18. Numbering(t.calls, t.case_index)
  BY ONLY <1>0, <1>1, <1>2, NumberingElse
<1>19. Passed(t.calls, t.at, Defs(t.code))
  <2>1. Passed(Append(Front(calls), x), at, defs \cup D)
    BY ONLY <1>0, <1>1, <1>2, <1>13, PassedElse
  <2> QED
    BY ONLY <1>0, <1>11, <2>1
<1>20. Targets(t.calls, t.at, Defs(t.code), Jumps(t.code))
  <2>1. Targets(Append(Front(calls), x), at, defs \cup D, jumps \cup J)
    BY ONLY <1>0, <1>1, <1>2, <1>4, TargetsElse DEF D, J
  <2> QED
    BY ONLY <1>0, <1>11, <2>1
<1>21. Stacks(t)
  <2>1. Kind(top.node) \notin Breakable /\ Kind(top.node) \notin Loops /\ Kind(top.node) \notin {"switch"}
    BY ONLY <1>3 DEF Breakable, Loops
  <2>2. /\ Tracks(s.break, Front(calls), Breakable, CtxOf)
        /\ Tracks(s.continue, Front(calls), Loops, CtxOf)
        /\ Tracks(s.switch, Front(calls), {"switch"}, IdOf)
    BY ONLY <1>1, <1>5, <2>1, TracksSkipPop
  <2>3. Front(calls) \in Seq(Calls)
    BY ONLY <1>1, Shrunk
  <2>4. Kind(x.node) \notin Breakable /\ Kind(x.node) \notin Loops /\ Kind(x.node) \notin {"switch"}
    BY ONLY <1>3, <2>1
  <2>5. /\ Tracks(s.break, Append(Front(calls), x), Breakable, CtxOf)
        /\ Tracks(s.continue, Append(Front(calls), x), Loops, CtxOf)
        /\ Tracks(s.switch, Append(Front(calls), x), {"switch"}, IdOf)
    BY ONLY <1>0, <1>1, <2>2, <2>3, <2>4, TracksSkip
  <2> QED
    BY ONLY <1>0, <2>5 DEF Stacks
<1> QED
  BY <1>7, <1>11, <1>14, <1>15, <1>16, <1>17, <1>18, <1>19, <1>20, <1>21 DEF Generating

(***************************************************************************)
(* The helpers of the generator.                                           *)
(***************************************************************************)
LEMMA EmitIs ==
  ASSUME NEW s, GenTypeOK(s), NEW lines \in Seq(Lines)
  PROVE  /\ GenTypeOK(Emit(s, lines))
         /\ Emit(s, lines).code = s.code \o lines
         /\ Emit(s, lines).label_counter = s.label_counter
         /\ Emit(s, lines).break = s.break /\ Emit(s, lines).continue = s.continue
         /\ Emit(s, lines).switch = s.switch /\ Emit(s, lines).case_index = s.case_index
         /\ Emit(s, lines).error = s.error
         /\ Emit(s, lines).calls = s.calls /\ Emit(s, lines).at = s.at
         /\ Emit(s, lines).ends = s.ends
<1> DEFINE code == s.code \o lines
<1>1. code \in Seq(Lines)
  <2>1. s.code \in Seq(Lines)
    BY DEF GenTypeOK
  <2> QED
    BY <2>1
<1>2. Emit(s, lines) = [s EXCEPT !.code = code]
  BY DEF Emit
<1> HIDE DEF code
<1>3. /\ GenTypeOK([s EXCEPT !.code = code])
      /\ [s EXCEPT !.code = code].code = code
      /\ [s EXCEPT !.code = code].label_counter = s.label_counter
      /\ [s EXCEPT !.code = code].break = s.break /\ [s EXCEPT !.code = code].continue = s.continue
      /\ [s EXCEPT !.code = code].switch = s.switch
      /\ [s EXCEPT !.code = code].case_index = s.case_index
      /\ [s EXCEPT !.code = code].error = s.error
      /\ [s EXCEPT !.code = code].calls = s.calls /\ [s EXCEPT !.code = code].at = s.at
      /\ [s EXCEPT !.code = code].ends = s.ends
  BY <1>1 DEF GenTypeOK
<1> QED
  BY <1>2, <1>3 DEF code

LEMMA CallIs ==
  ASSUME NEW s, GenTypeOK(s), NEW n, NEW slot, NEW id, NEW x \in Calls,
         x = [node |-> n, slot |-> slot, id |-> id], NEW t, t = Call(s, n, slot, id)
  PROVE  /\ GenTypeOK(t)
         /\ t.calls = Append(s.calls, x) /\ ~t.ends
         /\ t.code = s.code /\ t.label_counter = s.label_counter
         /\ t.break = s.break /\ t.continue = s.continue /\ t.switch = s.switch
         /\ t.case_index = s.case_index /\ t.at = s.at
<1>1. t = [s EXCEPT !.calls = Append(@, x), !.ends = FALSE]
  BY DEF Call
<1>2. Append(s.calls, x) \in Seq(Calls)
  BY DEF GenTypeOK
<1> QED
  BY <1>1, <1>2 DEF GenTypeOK

LEMMA EnterLoopIs ==
  ASSUME NEW s, GenTypeOK(s), NEW kind \in Loops, NEW ctx,
         ctx = [kind |-> kind, id |-> s.label_counter], NEW t, t = EnterLoop(s, kind)
  PROVE  /\ GenTypeOK(t)
         /\ t.label_counter = s.label_counter + 1
         /\ t.break = Append(s.break, ctx) /\ t.continue = Append(s.continue, ctx)
         /\ t.code = s.code /\ t.switch = s.switch /\ t.case_index = s.case_index
         /\ t.calls = s.calls /\ t.at = s.at /\ t.ends = s.ends
<1>1. ctx \in Ctx
  BY DEF Ctx, Breakable, GenTypeOK
<1>2. /\ Append(s.break, ctx) \in Seq(Ctx) /\ Append(s.continue, ctx) \in Seq(Ctx)
      /\ s.label_counter + 1 \in Nat
  BY <1>1 DEF GenTypeOK
<1>3. t = [s EXCEPT !.label_counter = @ + 1, !.break = Append(@, ctx), !.continue = Append(@, ctx)]
  BY DEF EnterLoop
<1> QED
  BY <1>2, <1>3 DEF GenTypeOK

LEMMA EnterSwitchIs ==
  ASSUME NEW s, GenTypeOK(s), NEW ctx, ctx = [kind |-> "switch", id |-> s.label_counter],
         NEW t, t = EnterSwitch(s)
  PROVE  /\ GenTypeOK(t)
         /\ t.label_counter = s.label_counter + 1
         /\ t.break = Append(s.break, ctx) /\ t.switch = Append(s.switch, s.label_counter)
         /\ t.code = s.code /\ t.continue = s.continue /\ t.case_index = s.case_index
         /\ t.calls = s.calls /\ t.at = s.at /\ t.ends = s.ends
<1>1. ctx \in Ctx
  BY DEF Ctx, Breakable, GenTypeOK
<1>2. /\ Append(s.break, ctx) \in Seq(Ctx) /\ Append(s.switch, s.label_counter) \in Seq(Nat)
      /\ s.label_counter + 1 \in Nat
  BY <1>1 DEF GenTypeOK
<1>3. t = [s EXCEPT !.label_counter = @ + 1, !.switch = Append(@, s.label_counter),
                    !.break = Append(@, ctx)]
  BY DEF EnterSwitch
<1> QED
  BY <1>2, <1>3 DEF GenTypeOK

LEMMA NumberedIs ==
  ASSUME Body, NEW s, GenTypeOK(s), NEW n, Kind(n) = "switch", NEW t, t = Numbered(s, CasesOf(n))
  PROVE  /\ GenTypeOK(t)
         /\ Renumbers(n, s.case_index, t.case_index)
         /\ t.code = s.code /\ t.label_counter = s.label_counter
         /\ t.break = s.break /\ t.continue = s.continue /\ t.switch = s.switch
         /\ t.calls = s.calls /\ t.at = s.at /\ t.ends = s.ends
<1> DEFINE index == [c \in Nodes |-> IF c \in CasesOf(n) THEN Index(CasesOf(n), c)
                                     ELSE s.case_index[c]]
<1>1. t = [s EXCEPT !.case_index = index]
  BY DEF Numbered
<1>2. index \in [Nodes -> Nat]
  <2>1. \A c \in CasesOf(n) : Index(CasesOf(n), c) \in Nat
    <3>1. Len(prog) \in Nat /\ CasesOf(n) \in SUBSET (1..Len(prog))
      BY CollectIs
    <3>2. /\ Cardinality(CasesOf(n)) \in Nat
          /\ \A c \in CasesOf(n) : Index(CasesOf(n), c) \in 0..(Cardinality(CasesOf(n)) - 1)
      BY <3>1, IndexIs
    <3> QED
      BY <3>2
  <2>2. \A c \in Nodes : s.case_index[c] \in Nat
    BY DEF GenTypeOK
  <2> QED
    BY <2>1, <2>2
<1>3. Renumbers(n, s.case_index, index)
  BY DEF Renumbers
<1> HIDE DEF index
<1> QED
  BY <1>1, <1>2, <1>3 DEF GenTypeOK

LEMMA LeaveLoopIs ==
  ASSUME NEW s, GenTypeOK(s), Front(s.break) \in Seq(Ctx), Front(s.continue) \in Seq(Ctx),
         NEW t, t = LeaveLoop(s)
  PROVE  /\ GenTypeOK(t)
         /\ t.break = Front(s.break) /\ t.continue = Front(s.continue)
         /\ t.code = s.code /\ t.label_counter = s.label_counter
         /\ t.switch = s.switch /\ t.case_index = s.case_index
         /\ t.calls = s.calls /\ t.at = s.at /\ t.ends = s.ends
BY DEF GenTypeOK, LeaveLoop

LEMMA LeaveSwitchIs ==
  ASSUME NEW s, GenTypeOK(s), Front(s.break) \in Seq(Ctx), Front(s.switch) \in Seq(Nat),
         NEW t, t = LeaveSwitch(s)
  PROVE  /\ GenTypeOK(t)
         /\ t.break = Front(s.break) /\ t.switch = Front(s.switch)
         /\ t.code = s.code /\ t.label_counter = s.label_counter
         /\ t.continue = s.continue /\ t.case_index = s.case_index
         /\ t.calls = s.calls /\ t.at = s.at /\ t.ends = s.ends
BY DEF GenTypeOK, LeaveSwitch

(* What can be taken back.                                                 *)
LEMMA FrontsOf ==
  ASSUME Body, NEW s, Generating(s), NEW kind, kind = Kind(s.calls[Len(s.calls)].node)
  PROVE  /\ kind \in Breakable => Front(s.break) \in Seq(Ctx)
         /\ kind \in Loops => Front(s.continue) \in Seq(Ctx)
         /\ kind = "switch" => Front(s.switch) \in Seq(Nat)
<1> DEFINE calls == s.calls
<1>1. /\ calls \in Seq(Calls) /\ calls /= <<>>
      /\ s.break \in Seq(Ctx) /\ s.continue \in Seq(Ctx) /\ s.switch \in Seq(Nat)
  BY Begins
<1>2. /\ Tracks(s.break, calls, Breakable, CtxOf) /\ Tracks(s.continue, calls, Loops, CtxOf)
      /\ Tracks(s.switch, calls, {"switch"}, IdOf)
  BY DEF Generating, Stacks
<1>3. kind = Kind(calls[Len(calls)].node)
  OBVIOUS
<1> HIDE DEF calls
<1>4. kind \in Breakable => Front(s.break) \in Seq(Ctx)
  BY ONLY <1>1, <1>2, <1>3, TracksPop
<1>5. kind \in Loops => Front(s.continue) \in Seq(Ctx)
  BY ONLY <1>1, <1>2, <1>3, TracksPop
<1>6. kind \in {"switch"} => Front(s.switch) \in Seq(Nat)
  BY ONLY <1>1, <1>2, <1>3, TracksPop
<1> QED
  BY <1>4, <1>5, <1>6

(* There is room for the target of one more construct: the nesting that the     *)
(* parser accepts is the size of the stacks.                                *)
LEMMA RoomLeft ==
  ASSUME Body, NEW s, Generating(s), NEW n, Comes(s.calls, s.at, n)
  PROVE  CtxPushOk(s)
<1>1. /\ s.calls \in Seq(Calls) /\ s.calls /= <<>> /\ s.at \in 0..Len(prog)
      /\ s.break \in Seq(Ctx) /\ s.continue \in Seq(Ctx) /\ s.switch \in Seq(Nat)
      /\ Path(s.calls, s.at)
  BY Begins
<1>2. /\ Tracks(s.break, s.calls, Breakable, CtxOf) /\ Tracks(s.continue, s.calls, Loops, CtxOf)
      /\ Tracks(s.switch, s.calls, {"switch"}, IdOf)
  BY DEF Generating, Stacks
<1>3. Len(s.break) < Len(s.calls) /\ Len(s.continue) < Len(s.calls) /\ Len(s.switch) < Len(s.calls)
  BY ONLY <1>1, <1>2, TracksLen
<1>4. n \in Nodes /\ Cardinality(Ancestors(n)) = Len(s.calls)
  BY <1>1, Coming
<1>5. Len(s.calls) <= MaxNest
  BY <1>4 DEF Body, WellPlaced, Ancestors, Nodes
<1>6. Len(s.calls) \in Nat /\ Len(s.break) \in Nat /\ Len(s.continue) \in Nat /\ Len(s.switch) \in Nat
  BY <1>1
<1> QED
  BY <1>3, <1>5, <1>6, StmtGenAssumption DEF CtxPushOk

LEMMA AddsThen ==
  ASSUME NEW a, NEW b, NEW d, NEW e, NEW j, NEW k, Adds(a, d, j), Adds(b, e, k), d \cap e = {},
         NEW D, NEW J, D = d \cup e, J = j \cup k
  PROVE  Adds(a \o b, D, J)
BY AddsBoth

LEMMA AddsLines ==
  /\ \A l \in LabelSet : /\ Adds(<<Label(l)>>, {l}, {})
                         /\ Adds(<<Jmp(l)>>, {}, {l})
                         /\ Adds(<<Je(l)>>, {}, {l})
                         /\ Adds(<<Jne(l)>>, {}, {l})
  /\ \A n \in 0..Len(prog), part \in Parts : Adds(<<Eval(n, part)>>, {}, {})
  /\ Adds(<<Ret>>, {}, {})
<1>1. ASSUME NEW l \in LabelSet
      PROVE  /\ Adds(<<Label(l)>>, {l}, {})
             /\ Adds(<<Jmp(l)>>, {}, {l})
             /\ Adds(<<Je(l)>>, {}, {l})
             /\ Adds(<<Jne(l)>>, {}, {l})
  <2>1. /\ Label(l) \in Lines /\ Label(l).op = "label" /\ Label(l).label = l
        /\ Jmp(l) \in Lines /\ Jmp(l).op = "jmp" /\ Jmp(l).label = l
        /\ Je(l) \in Lines /\ Je(l).op = "je" /\ Je(l).label = l
        /\ Jne(l) \in Lines /\ Jne(l).op = "jne" /\ Jne(l).label = l
    BY LinesAre
  <2>2. Adds(<<Label(l)>>, {l}, {})
    <3>1. Adds(<<Label(l)>>, IF Label(l).op = "label" THEN {Label(l).label} ELSE {},
                 IF Label(l).op \in {"jmp", "je", "jne"} THEN {Label(l).label} ELSE {})
      BY <2>1, AddsOne
    <3> QED
      BY <2>1, <3>1
  <2>3. Adds(<<Jmp(l)>>, {}, {l})
    <3>1. Adds(<<Jmp(l)>>, IF Jmp(l).op = "label" THEN {Jmp(l).label} ELSE {},
                 IF Jmp(l).op \in {"jmp", "je", "jne"} THEN {Jmp(l).label} ELSE {})
      BY <2>1, AddsOne
    <3> QED
      BY <2>1, <3>1
  <2>4. Adds(<<Je(l)>>, {}, {l})
    <3>1. Adds(<<Je(l)>>, IF Je(l).op = "label" THEN {Je(l).label} ELSE {},
                 IF Je(l).op \in {"jmp", "je", "jne"} THEN {Je(l).label} ELSE {})
      BY <2>1, AddsOne
    <3> QED
      BY <2>1, <3>1
  <2>5. Adds(<<Jne(l)>>, {}, {l})
    <3>1. Adds(<<Jne(l)>>, IF Jne(l).op = "label" THEN {Jne(l).label} ELSE {},
                 IF Jne(l).op \in {"jmp", "je", "jne"} THEN {Jne(l).label} ELSE {})
      BY <2>1, AddsOne
    <3> QED
      BY <2>1, <3>1
  <2> QED
    BY <2>2, <2>3, <2>4, <2>5
<1>2. ASSUME NEW n \in 0..Len(prog), NEW part \in Parts PROVE Adds(<<Eval(n, part)>>, {}, {})
  <2>1. Eval(n, part) \in Lines /\ Eval(n, part).op = "eval"
    BY LinesAre
  <2>2. Adds(<<Eval(n, part)>>, IF Eval(n, part).op = "label" THEN {Eval(n, part).label} ELSE {},
               IF Eval(n, part).op \in {"jmp", "je", "jne"} THEN {Eval(n, part).label} ELSE {})
    BY <2>1, AddsOne
  <2> QED
    BY <2>1, <2>2
<1>3. Adds(<<Ret>>, {}, {})
  <2>1. Ret \in Lines /\ Ret.op = "ret"
    BY LinesAre
  <2>2. Adds(<<Ret>>, IF Ret.op = "label" THEN {Ret.label} ELSE {},
               IF Ret.op \in {"jmp", "je", "jne"} THEN {Ret.label} ELSE {})
    BY <2>1, AddsOne
  <2> QED
    BY <2>1, <2>2
<1> QED
  BY <1>1, <1>2, <1>3

(***************************************************************************)
(* Up to the call: each kind of statement.                                 *)
(***************************************************************************)
(* gen_stmt_one() turns to statement n.                                     *)
Begun(s, n, b) ==
  /\ Body /\ Generating(s) /\ Comes(s.calls, s.at, n)
  /\ b = [s EXCEPT !.at = n, !.ends = FALSE]

LEMMA BegunIs ==
  ASSUME NEW s, NEW n, NEW b, Begun(s, n, b)
  PROVE  /\ Body /\ Generating(s) /\ Comes(s.calls, s.at, n)
         /\ n \in Nodes /\ n \in 0..Len(prog) /\ n /= 0 /\ prog[n] \in Node
         /\ GenTypeOK(b) /\ CtxPushOk(b)
         /\ b.code = s.code /\ b.label_counter = s.label_counter /\ s.label_counter \in Nat
         /\ b.break = s.break /\ b.continue = s.continue /\ b.switch = s.switch
         /\ b.case_index = s.case_index /\ b.calls = s.calls /\ b.at = n /\ ~b.ends
<1>1. Body /\ Generating(s) /\ Comes(s.calls, s.at, n)
  BY DEF Begun
<1>2. n \in Nodes /\ n \in 1..Len(prog)
  <2>1. s.calls \in Seq(Calls) /\ s.at \in 0..Len(prog) /\ Path(s.calls, s.at)
    BY <1>1, Begins
  <2> QED
    BY ONLY <1>1, <2>1, Coming
<1>3. n \in 0..Len(prog) /\ n /= 0 /\ prog[n] \in Node
  BY <1>1, <1>2 DEF Body
<1>4. GenTypeOK(s) /\ s.label_counter \in Nat
  BY <1>1 DEF Generating, GenTypeOK
<1>5. /\ GenTypeOK(b)
      /\ b.code = s.code /\ b.label_counter = s.label_counter
      /\ b.break = s.break /\ b.continue = s.continue /\ b.switch = s.switch
      /\ b.case_index = s.case_index /\ b.calls = s.calls /\ b.at = n /\ ~b.ends
  <2>1. b = [s EXCEPT !.at = n, !.ends = FALSE]
    BY DEF Begun
  <2> QED
    BY ONLY <1>3, <1>4, <2>1 DEF GenTypeOK
<1>6. CtxPushOk(b)
  <2>1. CtxPushOk(s)
    BY <1>1, RoomLeft
  <2> QED
    BY <1>5, <2>1 DEF CtxPushOk
<1> QED
  BY <1>1, <1>2, <1>3, <1>4, <1>5, <1>6

(* A call without labels: of a block, and of an if with a literal condition. *)
LEMMA PlainCallKeeps ==
  ASSUME NEW s, NEW n, NEW b, Begun(s, n, b), NEW slot, NEW x,
         x = [node |-> n, slot |-> slot, id |-> 0], CallOf(n, x), ~TakesId(x)
  PROVE  Generating(Call(b, n, slot, 0))
<1> DEFINE t == Call(b, n, slot, 0)
<1>1. /\ Body /\ Generating(s) /\ Comes(s.calls, s.at, n)
      /\ n \in Nodes /\ n \in 0..Len(prog) /\ GenTypeOK(b)
      /\ b.code = s.code /\ b.label_counter = s.label_counter /\ s.label_counter \in Nat
      /\ b.break = s.break /\ b.continue = s.continue /\ b.switch = s.switch
      /\ b.case_index = s.case_index /\ b.calls = s.calls /\ b.at = n
  BY BegunIs
<1>2. x \in Calls /\ x.node = n /\ CallOf(n, x) /\ ~TakesId(x)
  BY DEF CallOf
<1>3. x = [node |-> n, slot |-> slot, id |-> 0] /\ t = Call(b, n, slot, 0)
  OBVIOUS
<1> HIDE DEF t
<1>4. /\ GenTypeOK(t) /\ t.calls = Append(b.calls, x) /\ ~t.ends
      /\ t.code = b.code /\ t.label_counter = b.label_counter
      /\ t.break = b.break /\ t.continue = b.continue /\ t.switch = b.switch
      /\ t.case_index = b.case_index /\ t.at = b.at
  BY ONLY <1>1, <1>2, <1>3, CallIs, SMTT(20)
<1>5. /\ Kind(n) \notin Breakable /\ Kind(n) \notin Loops /\ Kind(n) /= "switch"
      /\ \A l : ~Opened(x, l) /\ ~Due(x, l)
  <2>1. Kind(n) \notin Breakable
    BY <1>2 DEF TakesId
  <2>2. \A l : ~Opened(x, l) /\ ~Due(x, l)
    BY <1>2, DueIs
  <2> QED
    BY <2>1, <2>2 DEF Breakable
<1>6. t.code = s.code \o <<>>
  <2>1. s.code \in Seq(Lines)
    BY <1>1 DEF Generating, GenTypeOK
  <2> QED
    BY <1>1, <1>4, <2>1
<1>7. Adds(<<>>, {}, {})
  BY AddsNone
<1>8. Pushes(s, t, n, x)
  <2>1. NewId(x, s.label_counter, t.label_counter)
    BY <1>1, <1>2, <1>4 DEF NewId
  <2>2. Renumbers(n, s.case_index, t.case_index)
    BY <1>1, <1>4, <1>5 DEF Renumbers
  <2> QED
    BY ONLY <1>1, <1>4, <1>5, <2>1, <2>2 DEF Pushes
<1>9. PutsDown(s.label_counter, n, x, {}, {})
  BY ONLY <1>5 DEF PutsDown
<1>10. Generating(t)
  BY ONLY <1>1, <1>2, <1>4, <1>6, <1>7, <1>8, <1>9, CallKeeps
<1> QED
  BY <1>10 DEF t

LEMMA BlockKeeps ==
  ASSUME NEW s, NEW n, NEW b, Begun(s, n, b), Kind(n) = "block"
  PROVE  Generating(Call(b, n, "body", 0))
<1> DEFINE x == [node |-> n, slot |-> "body", id |-> 0]
<1>1. n \in 0..Len(prog)
  BY BegunIs
<1>2. x \in Calls /\ x.node = n /\ x.slot = "body"
  BY <1>1 DEF Calls
<1> HIDE DEF x
<1>3. CallOf(n, x)
  BY <1>2 DEF CallOf, Leaves, Labels
<1>4. ~TakesId(x)
  BY <1>2 DEF TakesId, Breakable, Loops
<1> QED
  BY <1>3, <1>4, PlainCallKeeps DEF x

(* A call with a number of its own, made after these lines.                 *)
LEMMA NumberedCallKeeps ==
  ASSUME NEW s, NEW n, NEW b, Begun(s, n, b),
         NEW x, x = [node |-> n, slot |-> "body", id |-> s.label_counter], CallOf(n, x), TakesId(x),
         NEW e, GenTypeOK(e), e.label_counter = s.label_counter + 1,
         Pushes(s, e, n, x), e.code = s.code, e.calls = s.calls, e.at = n,
         NEW lines, NEW D, NEW J, Adds(lines, D, J), PutsDown(s.label_counter, n, x, D, J)
  PROVE  Generating(Call(Emit(e, lines), n, "body", s.label_counter))
<1> DEFINE m == Emit(e, lines)
           id == s.label_counter
           slot == "body"
           t == Call(m, n, slot, id)
<1>1. /\ Body /\ Generating(s) /\ Comes(s.calls, s.at, n)
  BY BegunIs
<1>2. x \in Calls /\ x = [node |-> n, slot |-> slot, id |-> id] /\ t = Call(m, n, slot, id)
  BY DEF CallOf
<1>3. /\ GenTypeOK(m) /\ m.code = e.code \o lines
      /\ m.label_counter = e.label_counter
      /\ m.break = e.break /\ m.continue = e.continue
      /\ m.switch = e.switch /\ m.case_index = e.case_index
      /\ m.calls = e.calls /\ m.at = e.at
  <2>1. lines \in Seq(Lines)
    BY DEF Adds
  <2> QED
    BY <2>1, EmitIs
<1> HIDE DEF t, m, id, slot
<1>4. /\ GenTypeOK(t) /\ t.calls = Append(m.calls, x) /\ ~t.ends
      /\ t.code = m.code /\ t.label_counter = m.label_counter
      /\ t.break = m.break /\ t.continue = m.continue /\ t.switch = m.switch
      /\ t.case_index = m.case_index /\ t.at = m.at
  BY ONLY <1>2, <1>3, CallIs, SMTT(20)
<1>5. Pushes(s, t, n, x)
  BY <1>3, <1>4 DEF Pushes, Renumbers
<1>6. t.calls = Append(s.calls, x) /\ t.at = n /\ t.code = s.code \o lines
  BY <1>3, <1>4
<1>7. CallOf(n, x) /\ Adds(lines, D, J) /\ PutsDown(s.label_counter, n, x, D, J)
  OBVIOUS
<1>8. Generating(t)
  BY ONLY <1>1, <1>4, <1>5, <1>6, <1>7, CallKeeps
<1> QED
  BY <1>8 DEF t, m, id, slot

LEMMA CountIs ==
  ASSUME NEW s, GenTypeOK(s), NEW t, t = [s EXCEPT !.label_counter = @ + 1]
  PROVE  /\ GenTypeOK(t)
         /\ t.label_counter = s.label_counter + 1
         /\ t.code = s.code /\ t.break = s.break /\ t.continue = s.continue
         /\ t.switch = s.switch /\ t.case_index = s.case_index
         /\ t.calls = s.calls /\ t.at = s.at
<1> DEFINE next == s.label_counter + 1
<1>1. next \in Nat
  BY DEF GenTypeOK
<1>2. t = [s EXCEPT !.label_counter = next] /\ next = s.label_counter + 1
  OBVIOUS
<1> HIDE DEF next
<1> QED
  BY <1>1, <1>2 DEF GenTypeOK

LEMMA IfKeeps ==
  ASSUME NEW s, NEW n, NEW b, Begun(s, n, b), Kind(n) = "if"
  PROVE  Generating(GenIf(b, n))
<1> DEFINE id == s.label_counter
<1>1. /\ n \in Nodes /\ n \in 0..Len(prog) /\ GenTypeOK(b)
      /\ b.code = s.code /\ b.label_counter = id /\ id \in Nat
      /\ b.break = s.break /\ b.continue = s.continue /\ b.switch = s.switch
      /\ b.case_index = s.case_index /\ b.calls = s.calls /\ b.at = n
  BY BegunIs
<1>2. /\ Kind(n) \notin Leaves /\ Kind(n) \notin Breakable /\ Kind(n) \notin Loops
      /\ Kind(n) /= "switch"
  BY DEF Leaves, Labels, Breakable, Loops
<1>3. CASE ConstTruth(n)
  <2> DEFINE slot == IF Dead(n) THEN "else" ELSE "body"
             x == [node |-> n, slot |-> slot, id |-> 0]
  <2>1. x \in Calls /\ x.node = n /\ x.slot = slot
    BY <1>1 DEF Calls
  <2>2. x = [node |-> n, slot |-> slot, id |-> 0]
    OBVIOUS
  <2> HIDE DEF x
  <2>3. CallOf(n, x)
    BY <1>2, <1>3, <2>1 DEF CallOf
  <2>4. ~TakesId(x)
    BY <1>2, <1>3, <2>1 DEF TakesId
  <2> HIDE DEF slot
  <2>5. Generating(Call(b, n, slot, 0))
    BY <2>2, <2>3, <2>4, PlainCallKeeps
  <2> QED
    BY <1>3, <2>5 DEF GenIf, slot
<1>4. CASE ~ConstTruth(n)
  <2> DEFINE e == [b EXCEPT !.label_counter = @ + 1]
             other == Name(IF Kids(n, "else") /= {} THEN "else" ELSE "end", id)
             lines == <<Eval(n, "cond"), Je(other)>>
             x == [node |-> n, slot |-> "body", id |-> id]
  <2>1. /\ GenTypeOK(e) /\ e.label_counter = id + 1 /\ e.code = s.code
        /\ e.break = s.break /\ e.continue = s.continue /\ e.switch = s.switch
        /\ e.case_index = s.case_index /\ e.calls = s.calls /\ e.at = n
    <3>1. e = [b EXCEPT !.label_counter = @ + 1]
      OBVIOUS
    <3> HIDE DEF e
    <3> QED
      BY ONLY <1>1, <3>1, CountIs
  <2>2. x \in Calls /\ x.node = n /\ x.slot = "body" /\ x.id = id
    BY <1>1 DEF Calls
  <2>3. x = [node |-> n, slot |-> "body", id |-> id]
    OBVIOUS
  <2>4. GenIf(b, n) = Call(Emit(e, lines), n, "body", id)
    BY <1>1, <1>4 DEF GenIf
  <2>5. other \in LabelSet
    BY <1>1, NamesAreLabels DEF LabelNames
  <2>6. \/ Kids(n, "else") /= {} /\ other = Name("else", id)
        \/ other = Name("end", id)
    OBVIOUS
  <2> HIDE DEF e, x, other
  <2>7. CallOf(n, x) /\ TakesId(x)
    BY <1>2, <1>4, <2>2 DEF CallOf, TakesId
  <2>8. Adds(lines, {}, {other})
    <3>1. "cond" \in Parts
      BY DEF Parts
    <3>2. Adds(<<Eval(n, "cond")>>, {}, {}) /\ Adds(<<Je(other)>>, {}, {other})
      BY <1>1, <2>5, <3>1, AddsLines
    <3>3. lines = <<Eval(n, "cond")>> \o <<Je(other)>>
      BY Pairs
    <3>4. {} \cap {} = {} /\ {} = {} \cup {} /\ {other} = {} \cup {other}
      OBVIOUS
    <3> HIDE DEF lines
    <3> QED
      BY ONLY <3>2, <3>3, <3>4, AddsThen
  <2>9. Due(x, other)
    BY <1>4, <2>2, <2>6 DEF Due
  <2>10. \A l : ~Opened(x, l)
    BY <2>2 DEF Opened
  <2>11. PutsDown(id, n, x, {}, {other})
    BY ONLY <2>9, <2>10 DEF PutsDown
  <2>12. NewId(x, id, e.label_counter)
    BY <2>1, <2>2, <2>7 DEF NewId
  <2>13. Renumbers(n, s.case_index, e.case_index)
    BY <1>2, <2>1 DEF Renumbers
  <2>14. Pushes(s, e, n, x)
    BY <1>2, <2>1, <2>12, <2>13 DEF Pushes
  <2> HIDE DEF lines
  <2>15. Begun(s, n, b)
    OBVIOUS
  <2>16. Generating(Call(Emit(e, lines), n, "body", id))
    BY ONLY <2>1, <2>3, <2>7, <2>8, <2>11, <2>14, <2>15, NumberedCallKeeps
  <2> QED
    BY <2>4, <2>16
<1> QED
  BY <1>3, <1>4

(* A loop and its call.                                                    *)
LEMMA LoopPushes ==
  ASSUME NEW s, NEW n, NEW b, Begun(s, n, b), Kind(n) \in Loops,
         NEW x, x = [node |-> n, slot |-> "body", id |-> s.label_counter],
         NEW e, e = EnterLoop(b, Kind(n))
  PROVE  /\ CallOf(n, x) /\ TakesId(x) /\ x.node = n /\ x.id = s.label_counter
         /\ GenTypeOK(e) /\ e.label_counter = s.label_counter + 1
         /\ Pushes(s, e, n, x) /\ e.code = s.code /\ e.calls = s.calls /\ e.at = n
<1> DEFINE id == s.label_counter
           kind == Kind(n)
           ctx == [kind |-> kind, id |-> id]
<1>1. /\ n \in Nodes /\ n \in 0..Len(prog) /\ GenTypeOK(b)
      /\ b.code = s.code /\ b.label_counter = id /\ id \in Nat
      /\ b.break = s.break /\ b.continue = s.continue /\ b.switch = s.switch
      /\ b.case_index = s.case_index /\ b.calls = s.calls /\ b.at = n
  BY BegunIs
<1>2. /\ Kind(n) \notin Leaves /\ Kind(n) \in Breakable /\ Kind(n) /= "switch" /\ Kind(n) /= "if"
  BY DEF Leaves, Labels, Breakable, Loops
<1>3. x \in Calls /\ x.node = n /\ x.slot = "body" /\ x.id = id
  BY <1>1 DEF Calls
<1>4. CtxOf[x] = ctx
  BY <1>3 DEF CtxOf
<1>5. kind = Kind(n)
  OBVIOUS
<1>6. GenTypeOK(b) /\ e = EnterLoop(b, kind) /\ kind \in Loops
  BY <1>1
<1>12. ctx = [kind |-> kind, id |-> b.label_counter]
  BY <1>1
<1> HIDE DEF ctx, id, kind
<1>7. /\ GenTypeOK(e)
      /\ e.label_counter = b.label_counter + 1
      /\ e.break = Append(b.break, ctx) /\ e.continue = Append(b.continue, ctx)
      /\ e.code = b.code /\ e.switch = b.switch /\ e.case_index = b.case_index
      /\ e.calls = b.calls /\ e.at = b.at
  BY ONLY <1>6, <1>12, EnterLoopIs
<1>8. CallOf(n, x) /\ TakesId(x)
  BY <1>2, <1>3 DEF CallOf, TakesId
<1>9. NewId(x, id, e.label_counter)
  BY <1>1, <1>3, <1>7, <1>8 DEF NewId
<1>10. Renumbers(n, s.case_index, e.case_index)
  BY <1>1, <1>2, <1>7 DEF Renumbers
<1>11. Pushes(s, e, n, x)
  BY <1>1, <1>2, <1>4, <1>5, <1>7, <1>9, <1>10 DEF Pushes, id
<1> QED
  BY <1>1, <1>3, <1>7, <1>8, <1>11 DEF id

(* What a literal zero leaves out.                                         *)
LEMMA DeadInside ==
  ASSUME Body, NEW n \in Nodes, Kind(n) \in {"while", "for"}, Dead(n),
         NEW c \in Nodes, n \in Ancestors(c)
  PROVE  InDeadArm(c)
<1>1. PICK k \in {c} \cup Ancestors(c) : k \in Nodes /\ prog[k].up = n
  BY ChildInside
<1>2. prog[k] \in Node /\ WellPlaced(k) /\ k /= 0 /\ n /= 0
  BY <1>1 DEF Body, Nodes
<1>3. prog[k].slot \in {"body", "else"}
  BY <1>2 DEF Node
<1>4. prog[k].slot = "body"
  BY <1>1, <1>2, <1>3 DEF WellPlaced
<1>5. prog[n].cond = "zero"
  BY DEF Dead
<1> QED
  BY <1>1, <1>2, <1>4, <1>5 DEF InDeadArm

LEMMA NothingInside ==
  ASSUME Body, NEW n \in Nodes, Kind(n) \in Leaves, NEW c \in Nodes
  PROVE  n \notin Ancestors(c)
<1> SUFFICES ASSUME n \in Ancestors(c) PROVE FALSE
  OBVIOUS
<1>1. PICK k \in {c} \cup Ancestors(c) : k \in Nodes /\ prog[k].up = n
  BY ChildInside
<1> QED
  BY <1>1 DEF Body, WellPlaced

(* Lines that are emitted without a call.                                  *)
LEMMA PlainKeeps ==
  ASSUME NEW s, NEW n, NEW b, Begun(s, n, b), Kind(n) \notin Labels,
         \A c \in Nodes : n \in Ancestors(c) => InDeadArm(c),
         NEW lines, NEW J, Adds(lines, {}, J),
         \A l \in J : l \in Defs(s.code) \/ \E i \in DOMAIN s.calls : Due(s.calls[i], l)
  PROVE  Generating(Emit(b, lines))
<1> DEFINE t == Emit(b, lines)
<1>1. /\ Body /\ Generating(s) /\ Comes(s.calls, s.at, n) /\ GenTypeOK(b)
      /\ b.code = s.code /\ b.label_counter = s.label_counter
      /\ b.break = s.break /\ b.continue = s.continue /\ b.switch = s.switch
      /\ b.case_index = s.case_index /\ b.calls = s.calls /\ b.at = n /\ ~b.ends
  BY BegunIs
<1>2. /\ GenTypeOK(t) /\ t.code = b.code \o lines /\ t.label_counter = b.label_counter
      /\ t.break = b.break /\ t.continue = b.continue /\ t.switch = b.switch
      /\ t.case_index = b.case_index /\ t.calls = b.calls /\ t.at = b.at /\ t.ends = b.ends
  <2>1. lines \in Seq(Lines)
    BY DEF Adds
  <2> QED
    BY <1>1, <2>1, EmitIs
<1> HIDE DEF t
<1>3. /\ t.code = s.code \o lines /\ t.label_counter = s.label_counter
      /\ t.break = s.break /\ t.continue = s.continue /\ t.switch = s.switch
      /\ t.case_index = s.case_index /\ t.calls = s.calls /\ t.at = n
      /\ t.ends => Returned(lines)
  BY <1>1, <1>2
<1>4. Laid(s.calls, n, {})
  BY DEF Laid
<1>5. /\ \A c \in Nodes : n \in Ancestors(c) => InDeadArm(c)
      /\ \A l \in J : l \in Defs(s.code) \/ \E i \in DOMAIN s.calls : Due(s.calls[i], l)
      /\ Adds(lines, {}, J)
  OBVIOUS
<1>6. Generating(t)
  BY ONLY <1>1, <1>2, <1>3, <1>4, <1>5, LeafKeeps
<1> QED
  BY <1>6 DEF t

LEMMA WhileKeeps ==
  ASSUME NEW s, NEW n, NEW b, Begun(s, n, b), Kind(n) = "while"
  PROVE  Generating(GenWhile(b, n))
<1> DEFINE id == s.label_counter
<1>1. /\ Body /\ n \in Nodes /\ n \in 0..Len(prog) /\ GenTypeOK(b) /\ CtxPushOk(b)
      /\ b.label_counter = id /\ id \in Nat
  BY BegunIs
<1>2. CASE Dead(n)
  <2>1. \A c \in Nodes : n \in Ancestors(c) => InDeadArm(c)
    BY <1>1, <1>2, DeadInside
  <2>2. Kind(n) \notin Labels
    BY DEF Labels
  <2>3. Adds(<<>>, {}, {})
    BY AddsNone
  <2>4. Generating(Emit(b, <<>>))
    BY <2>1, <2>2, <2>3, PlainKeeps
  <2>5. Emit(b, <<>>) = b
    <3>1. b.code \in Seq(Lines)
      BY <1>1 DEF GenTypeOK
    <3>2. b.code \o <<>> = b.code
      BY <3>1
    <3> QED
      BY <1>1, <3>2 DEF Emit, GenTypeOK
  <2> QED
    BY <1>2, <2>4, <2>5 DEF GenWhile
<1>3. CASE ~Dead(n)
  <2> DEFINE e == EnterLoop(b, "while")
             x == [node |-> n, slot |-> "body", id |-> id]
             start == Name("loop_start", id)
             end == Name("loop_end", id)
             lines == <<Label(start), Eval(n, "cond"), Je(end)>>
  <2>1. /\ CallOf(n, x) /\ TakesId(x) /\ x.node = n /\ x.id = id
        /\ GenTypeOK(e) /\ e.label_counter = id + 1
        /\ Pushes(s, e, n, x) /\ e.code = s.code /\ e.calls = s.calls /\ e.at = n
    <3>1. x = [node |-> n, slot |-> "body", id |-> s.label_counter] /\ e = EnterLoop(b, Kind(n))
      OBVIOUS
    <3>2. Begun(s, n, b) /\ Kind(n) \in Loops
      BY DEF Loops
    <3> HIDE DEF x, e
    <3> QED
      BY ONLY <3>1, <3>2, LoopPushes
  <2>2. x = [node |-> n, slot |-> "body", id |-> id]
    OBVIOUS
  <2>3. GenWhile(b, n) = Call(Emit(e, lines), n, "body", id)
    BY <1>1, <1>3 DEF GenWhile
  <2>4. start \in LabelSet /\ end \in LabelSet
    BY <1>1, NamesAreLabels DEF LabelNames
  <2>5. start.id = id /\ start.name \notin Labels
    BY DEF Name, Labels
  <2> HIDE DEF e, x
  <2>6. \A l : /\ Opened(x, l) <=> l = start
               /\ Due(x, l) <=> l = end
    BY <2>1 DEF Opened, Due
  <2>7. start /= end
    BY DEF Name
  <2> HIDE DEF start, end
  <2>8. Adds(lines, {start}, {end})
    <3>1. "cond" \in Parts
      BY DEF Parts
    <3>2. /\ Adds(<<Label(start)>>, {start}, {}) /\ Adds(<<Eval(n, "cond")>>, {}, {})
          /\ Adds(<<Je(end)>>, {}, {end})
      BY <1>1, <2>4, <3>1, AddsLines
    <3>3. <<Label(start), Eval(n, "cond")>> = <<Label(start)>> \o <<Eval(n, "cond")>>
      BY Pairs
    <3>4. lines = <<Label(start), Eval(n, "cond")>> \o <<Je(end)>>
      BY Pairs
    <3>5. {start} \cap {} = {} /\ {start} \cup {} = {start} /\ {} \cup {end} = {end} /\ {} \cup {} = {}
      OBVIOUS
    <3> HIDE DEF lines
    <3>6. Adds(<<Label(start)>> \o <<Eval(n, "cond")>>, {start} \cup {}, {} \cup {})
      BY ONLY <3>2, <3>5, AddsBoth
    <3>7. Adds(<<Label(start), Eval(n, "cond")>>, {start}, {})
      BY ONLY <3>3, <3>5, <3>6
    <3>8. Adds(<<Label(start), Eval(n, "cond")>> \o <<Je(end)>>, {start} \cup {}, {} \cup {end})
      BY ONLY <3>2, <3>5, <3>7, AddsBoth
    <3> QED
      BY ONLY <3>4, <3>5, <3>8
  <2>9. PutsDown(id, n, x, {start}, {end})
    BY ONLY <2>1, <2>5, <2>6, <2>7 DEF PutsDown
  <2> HIDE DEF lines
  <2>10. Begun(s, n, b)
    OBVIOUS
  <2>11. Generating(Call(Emit(e, lines), n, "body", id))
    BY ONLY <2>1, <2>2, <2>8, <2>9, <2>10, NumberedCallKeeps
  <2> QED
    BY <2>3, <2>11
<1> QED
  BY <1>2, <1>3

LEMMA DoWhileKeeps ==
  ASSUME NEW s, NEW n, NEW b, Begun(s, n, b), Kind(n) = "do"
  PROVE  Generating(GenDoWhile(b, n))
<1> DEFINE id == s.label_counter
           e == EnterLoop(b, "do")
           x == [node |-> n, slot |-> "body", id |-> id]
           start == Name("do_start", id)
           lines == <<Label(start)>>
<1>1. CtxPushOk(b) /\ b.label_counter = id /\ id \in Nat
  BY BegunIs
<1>2. /\ CallOf(n, x) /\ TakesId(x) /\ x.node = n /\ x.id = id
      /\ GenTypeOK(e) /\ e.label_counter = id + 1
      /\ Pushes(s, e, n, x) /\ e.code = s.code /\ e.calls = s.calls /\ e.at = n
  <2>1. x = [node |-> n, slot |-> "body", id |-> s.label_counter] /\ e = EnterLoop(b, Kind(n))
    OBVIOUS
  <2>2. Begun(s, n, b) /\ Kind(n) \in Loops
    BY DEF Loops
  <2> HIDE DEF x, e
  <2> QED
    BY ONLY <2>1, <2>2, LoopPushes
<1>3. x = [node |-> n, slot |-> "body", id |-> id]
  OBVIOUS
<1>4. GenDoWhile(b, n) = Call(Emit(e, lines), n, "body", id)
  BY <1>1 DEF GenDoWhile
<1>5. start \in LabelSet /\ start.id = id /\ start.name \notin Labels
  <2>1. start \in LabelSet
    BY <1>1, NamesAreLabels DEF LabelNames
  <2> QED
    BY <2>1 DEF Name, Labels
<1> HIDE DEF e, x
<1>6. \A l : /\ Opened(x, l) <=> l = start
             /\ Due(x, l) => l /= start
  BY <1>2 DEF Opened, Due, Name
<1> HIDE DEF start
<1>7. Adds(lines, {start}, {})
  BY <1>5, AddsLines
<1>8. PutsDown(id, n, x, {start}, {})
  BY ONLY <1>2, <1>5, <1>6 DEF PutsDown
<1> HIDE DEF lines
<1>9. Begun(s, n, b)
  OBVIOUS
<1>10. Generating(Call(Emit(e, lines), n, "body", id))
  BY ONLY <1>2, <1>3, <1>7, <1>8, <1>9, NumberedCallKeeps
<1> QED
  BY <1>4, <1>10

LEMMA ForKeeps ==
  ASSUME NEW s, NEW n, NEW b, Begun(s, n, b), Kind(n) = "for"
  PROVE  Generating(GenFor(b, n))
<1> DEFINE id == s.label_counter
           start == Name("for_start", id)
           end == Name("for_end", id)
           init == IF prog[n].init THEN <<Eval(n, "init")>> ELSE <<>>
           test == IF prog[n].cond = "none" THEN <<>> ELSE <<Eval(n, "cond"), Je(end)>>
           J == IF prog[n].cond = "none" THEN {} ELSE {end}
<1>1. /\ Body /\ n \in Nodes /\ n \in 0..Len(prog) /\ GenTypeOK(b) /\ CtxPushOk(b)
      /\ b.label_counter = id /\ id \in Nat
  BY BegunIs
<1>2. {"cond", "init"} \subseteq Parts
  BY DEF Parts
<1>3. Adds(init, {}, {})
  <2>1. Adds(<<Eval(n, "init")>>, {}, {}) /\ Adds(<<>>, {}, {})
    BY <1>1, <1>2, AddsLines, AddsNone
  <2> QED
    BY <2>1
<1>4. CASE Dead(n)
  <2>1. \A c \in Nodes : n \in Ancestors(c) => InDeadArm(c)
    BY <1>1, <1>4, DeadInside
  <2>2. Kind(n) \notin Labels
    BY DEF Labels
  <2>3. GenFor(b, n) = Emit(b, init)
    BY <1>4 DEF GenFor
  <2> HIDE DEF init
  <2>4. Generating(Emit(b, init))
    BY <1>3, <2>1, <2>2, PlainKeeps
  <2> QED
    BY <2>3, <2>4
<1>5. CASE ~Dead(n)
  <2> DEFINE e == EnterLoop(b, "for")
             x == [node |-> n, slot |-> "body", id |-> id]
             lines == init \o <<Label(start)>> \o test
  <2>1. /\ CallOf(n, x) /\ TakesId(x) /\ x.node = n /\ x.id = id
        /\ GenTypeOK(e) /\ e.label_counter = id + 1
        /\ Pushes(s, e, n, x) /\ e.code = s.code /\ e.calls = s.calls /\ e.at = n
    <3>1. x = [node |-> n, slot |-> "body", id |-> s.label_counter] /\ e = EnterLoop(b, Kind(n))
      OBVIOUS
    <3>2. Begun(s, n, b) /\ Kind(n) \in Loops
      BY DEF Loops
    <3> HIDE DEF x, e
    <3> QED
      BY ONLY <3>1, <3>2, LoopPushes
  <2>2. x = [node |-> n, slot |-> "body", id |-> id]
    OBVIOUS
  <2>3. GenFor(b, n) = Call(Emit(e, lines), n, "body", id)
    BY <1>1, <1>5 DEF GenFor
  <2>4. start \in LabelSet /\ end \in LabelSet
    BY <1>1, NamesAreLabels DEF LabelNames
  <2>5. start.id = id /\ start.name \notin Labels
    BY DEF Name, Labels
  <2> HIDE DEF e, x
  <2>6. \A l : /\ Opened(x, l) <=> l = start
               /\ l = end => Due(x, l)
               /\ Due(x, l) => l /= start
    BY <2>1 DEF Opened, Due, Name
  <2> HIDE DEF start, end
  <2>7. Adds(test, {}, J)
    <3>1. Adds(<<Eval(n, "cond")>>, {}, {}) /\ Adds(<<Je(end)>>, {}, {end}) /\ Adds(<<>>, {}, {})
      BY <1>1, <1>2, <2>4, AddsLines, AddsNone
    <3>2. <<Eval(n, "cond"), Je(end)>> = <<Eval(n, "cond")>> \o <<Je(end)>>
      BY Pairs
    <3>3. {} \cap {} = {} /\ {} \cup {} = {} /\ {} \cup {end} = {end}
      OBVIOUS
    <3>4. Adds(<<Eval(n, "cond")>> \o <<Je(end)>>, {} \cup {}, {} \cup {end})
      BY ONLY <3>1, <3>3, AddsBoth
    <3>5. Adds(<<Eval(n, "cond"), Je(end)>>, {}, {end})
      BY ONLY <3>2, <3>3, <3>4
    <3> QED
      BY <3>1, <3>5
  <2>8. J \subseteq {end}
    OBVIOUS
  <2>9. PutsDown(id, n, x, {start}, J)
    BY ONLY <2>1, <2>5, <2>6, <2>8 DEF PutsDown
  <2> HIDE DEF J, init, test
  <2>10. Adds(lines, {start}, J)
    <3>1. Adds(<<Label(start)>>, {start}, {})
      BY <2>4, AddsLines
    <3>2. {} \cap {start} = {} /\ {} \cup {start} = {start} /\ {} \cup {} = {}
          /\ {start} \cap {} = {} /\ {start} \cup {} = {start} /\ {} \cup J = J
      OBVIOUS
    <3>3. Adds(init \o <<Label(start)>>, {} \cup {start}, {} \cup {})
      BY ONLY <1>3, <3>1, <3>2, AddsBoth
    <3>4. Adds(init \o <<Label(start)>>, {start}, {})
      BY ONLY <3>2, <3>3
    <3>5. Adds(init \o <<Label(start)>> \o test, {start} \cup {}, {} \cup J)
      BY ONLY <2>7, <3>2, <3>4, AddsBoth
    <3> QED
      BY ONLY <3>2, <3>5
  <2> HIDE DEF lines
  <2>11. Begun(s, n, b)
    OBVIOUS
  <2>12. Generating(Call(Emit(e, lines), n, "body", id))
    BY ONLY <2>1, <2>2, <2>9, <2>10, <2>11, NumberedCallKeeps
  <2> QED
    BY <2>3, <2>12
<1> QED
  BY <1>4, <1>5

(* The tests of a switch.                                                  *)
Tests(cases, id) ==
  [i \in 1..Cardinality(cases) |-> JeVal(CaseAt(cases, i - 1), CaseName(id, i - 1))]

(* They jump to the labels of its cases.                                   *)
LEMMA MatchesAre ==
  ASSUME Body, NEW n \in Nodes, Kind(n) = "switch", NEW id \in Nat,
         NEW cases, cases = CasesOf(n), NEW matches, matches = Tests(cases, id)
  PROVE  \E J : /\ Adds(matches, {}, J)
                /\ \A l \in J : \E c \in Collect(n) : l = LabelIn(n, id, c)
<1> DEFINE K == Cardinality(cases)
<1>1. /\ Len(prog) \in Nat /\ cases \in SUBSET (1..Len(prog))
      /\ \A c \in cases : c \in Collect(n) /\ Kind(c) = "case"
  BY CollectIs
<1>2. /\ K \in Nat
      /\ \A i \in 0..(K - 1) : CaseAt(cases, i) \in cases /\ Index(cases, CaseAt(cases, i)) = i
  BY <1>1, IndexIs
<1> HIDE DEF K
<1>3. matches = [i \in 1..K |-> JeVal(CaseAt(cases, i - 1), CaseName(id, i - 1))]
  BY DEF K, Tests
<1>4. ASSUME NEW i \in 1..K
      PROVE  /\ matches[i] \in Lines /\ matches[i].op = "je"
             /\ \E c \in Collect(n) : matches[i].label = LabelIn(n, id, c)
  <2>1. i - 1 \in 0..(K - 1) /\ i - 1 \in Nat
    BY <1>2
  <2> DEFINE c == CaseAt(cases, i - 1)
  <2>2. c \in cases /\ Index(cases, c) = i - 1 /\ c \in Nat
    BY <1>1, <1>2, <2>1
  <2>3. CaseName(id, i - 1) \in LabelSet
    BY <2>1, NamesAreLabels
  <2>4. matches[i] = JeVal(c, CaseName(id, i - 1))
    BY <1>3
  <2>5. c \in Collect(n) /\ LabelIn(n, id, c) = CaseName(id, i - 1)
    <3>1. c \in Collect(n) /\ Kind(c) = "case"
      BY <1>1, <2>2
    <3> HIDE DEF c
    <3>2. LabelIn(n, id, c) = CaseName(id, Index(cases, c))
      BY <3>1 DEF LabelIn
    <3> QED
      BY <2>2, <3>1, <3>2
  <2> HIDE DEF c
  <2>6. JeVal(c, CaseName(id, i - 1)) \in Lines
    BY <2>2, <2>3, LinesAre
  <2>7. matches[i].op = "je" /\ matches[i].label = CaseName(id, i - 1)
    BY ONLY <2>4 DEF JeVal
  <2>8. matches[i].label = LabelIn(n, id, c)
    BY <2>5, <2>7
  <2> QED
    BY <2>4, <2>5, <2>6, <2>7, <2>8
<1>5. DOMAIN matches = 1..K
  BY <1>3
<1>6. matches \in Seq(Lines)
  <2>1. matches \in [1..K -> Lines]
    BY <1>3, <1>4
  <2>2. \A k \in Nat : [1..k -> Lines] \subseteq Seq(Lines)
    BY SeqDef
  <2> QED
    BY ONLY <1>2, <2>1, <2>2
<1>7. Defs(matches) = {}
  BY <1>4, <1>5 DEF Defs
<1>8. DefinedOnce(matches)
  BY <1>4, <1>5 DEF DefinedOnce
<1>9. \A l \in Jumps(matches) : \E c \in Collect(n) : l = LabelIn(n, id, c)
  <2> SUFFICES ASSUME NEW l \in Jumps(matches) PROVE \E c \in Collect(n) : l = LabelIn(n, id, c)
    OBVIOUS
  <2>1. PICK i \in 1..K : l = matches[i].label
    BY <1>5 DEF Jumps
  <2> QED
    BY <1>4, <2>1
<1>10. Adds(matches, {}, Jumps(matches))
  BY <1>6, <1>7, <1>8 DEF Adds
<1> QED
  BY <1>9, <1>10

LEMMA SwitchKeeps ==
  ASSUME NEW s, NEW n, NEW b, Begun(s, n, b), Kind(n) = "switch"
  PROVE  Generating(GenSwitch(b, n))
<1> DEFINE id == s.label_counter
           cases == CasesOf(n)
           matches == Tests(cases, id)
           other == Name(IF Collect(n) = cases THEN "switch_end" ELSE "default", id)
           m == Numbered(b, cases)
           e == EnterSwitch(m)
           x == [node |-> n, slot |-> "body", id |-> id]
           ctx == [kind |-> "switch", id |-> id]
           lines == <<Eval(n, "cond")>> \o matches \o <<Jmp(other)>>
<1>1. /\ Body /\ n \in Nodes /\ n \in 0..Len(prog) /\ GenTypeOK(b) /\ CtxPushOk(b)
      /\ b.code = s.code /\ b.label_counter = id /\ id \in Nat
      /\ b.break = s.break /\ b.continue = s.continue /\ b.switch = s.switch
      /\ b.case_index = s.case_index /\ b.calls = s.calls /\ b.at = n
  BY BegunIs
<1>2. GenSwitch(b, n) = Call(Emit(e, lines), n, "body", id)
  BY <1>1 DEF GenSwitch, Tests
<1>3. x \in Calls /\ x.node = n /\ x.slot = "body" /\ x.id = id
  BY <1>1 DEF Calls
<1>4. x = [node |-> n, slot |-> "body", id |-> id] /\ m = Numbered(b, CasesOf(n)) /\ e = EnterSwitch(m)
      /\ ctx = [kind |-> "switch", id |-> id]
  OBVIOUS
<1>5. other \in LabelSet /\ (other = Name("switch_end", id) \/
        (Collect(n) /= CasesOf(n) /\ other = Name("default", id)))
  BY <1>1, NamesAreLabels DEF LabelNames, Labels
<1>6. CtxOf[x] = ctx /\ IdOf[x] = id
  BY <1>3 DEF CtxOf, IdOf
<1>7. /\ Kind(n) \notin Leaves /\ Kind(n) \in Breakable /\ Kind(n) \notin Loops /\ Kind(n) /= "if"
  BY DEF Leaves, Labels, Breakable, Loops
<1>0. cases = CasesOf(n) /\ matches = Tests(cases, id)
  OBVIOUS
<1> HIDE DEF x, e, m, ctx, other, cases, matches
<1>20. id \in Nat /\ Body /\ n \in Nodes /\ Kind(n) = "switch"
  BY <1>1
<1>8. \E J : /\ Adds(matches, {}, J)
             /\ \A l \in J : \E c \in Collect(n) : l = LabelIn(n, id, c)
  <2> HIDE DEF id
  <2> QED
    BY ONLY <1>0, <1>20, MatchesAre
<1>9. /\ GenTypeOK(m) /\ Renumbers(n, b.case_index, m.case_index)
      /\ m.code = b.code /\ m.label_counter = b.label_counter
      /\ m.break = b.break /\ m.continue = b.continue /\ m.switch = b.switch
      /\ m.calls = b.calls /\ m.at = b.at /\ m.ends = b.ends
  BY <1>1, <1>4, NumberedIs
<1>10. ctx = [kind |-> "switch", id |-> m.label_counter]
  BY <1>1, <1>4, <1>9
<1>11. /\ GenTypeOK(e) /\ e.label_counter = m.label_counter + 1
       /\ e.break = Append(m.break, ctx) /\ e.switch = Append(m.switch, m.label_counter)
       /\ e.code = m.code /\ e.continue = m.continue /\ e.case_index = m.case_index
       /\ e.calls = m.calls /\ e.at = m.at
  BY ONLY <1>4, <1>9, <1>10, EnterSwitchIs
<1>12. CallOf(n, x) /\ TakesId(x)
  BY <1>3, <1>7 DEF CallOf, TakesId
<1>13. Pushes(s, e, n, x)
  <2>1. NewId(x, id, e.label_counter)
    BY <1>1, <1>3, <1>9, <1>11, <1>12 DEF NewId
  <2>2. Renumbers(n, s.case_index, e.case_index)
    BY <1>1, <1>9, <1>11
  <2> QED
    BY <1>1, <1>6, <1>7, <1>9, <1>11, <2>1, <2>2 DEF Pushes
<1>14. PICK M : /\ Adds(matches, {}, M)
                /\ \A l \in M : \E c \in Collect(n) : l = LabelIn(n, id, c)
  BY <1>8
<1>15. Adds(lines, {}, M \cup {other})
  <2>1. "cond" \in Parts
    BY DEF Parts
  <2>2. Adds(<<Eval(n, "cond")>>, {}, {}) /\ Adds(<<Jmp(other)>>, {}, {other})
    BY <1>1, <1>5, <2>1, AddsLines
  <2>3. {} \cap {} = {} /\ {} \cup {} = {} /\ {} \cup M = M
    OBVIOUS
  <2>4. Adds(<<Eval(n, "cond")>> \o matches, {} \cup {}, {} \cup M)
    BY ONLY <1>14, <2>2, <2>3, AddsBoth
  <2>5. Adds(<<Eval(n, "cond")>> \o matches, {}, M)
    BY ONLY <2>3, <2>4
  <2>6. Adds(<<Eval(n, "cond")>> \o matches \o <<Jmp(other)>>, {} \cup {}, M \cup {other})
    BY ONLY <2>2, <2>3, <2>5, AddsBoth
  <2> QED
    BY ONLY <2>3, <2>6 DEF lines
<1>16. PutsDown(id, n, x, {}, M \cup {other})
  <2>1. \A l : ~Opened(x, l)
    BY <1>3 DEF Opened
  <2>2. \/ Due(x, other)
        \/ \E c \in Collect(n) : other = LabelIn(n, x.id, c)
    <3>1. CASE other = Name("switch_end", id)
      BY <1>3, <3>1 DEF Due
    <3>2. CASE Collect(n) /= CasesOf(n) /\ other = Name("default", id)
      <4>1. PICK c \in Collect(n) : Kind(c) = "default"
        BY <1>1, <3>2, CollectIs
      <4>2. LabelIn(n, id, c) = Name("default", id)
        BY <4>1 DEF LabelIn
      <4> QED
        BY <1>3, <3>2, <4>2
    <3> QED
      BY <1>5, <3>1, <3>2
  <2>3. Kind(n) = "switch"
    OBVIOUS
  <2> QED
    BY ONLY <1>3, <1>14, <2>1, <2>2, <2>3 DEF PutsDown
<1>17. e.label_counter = id + 1 /\ e.code = s.code /\ e.calls = s.calls /\ e.at = n
  BY <1>1, <1>9, <1>11
<1> HIDE DEF lines
<1>18. Begun(s, n, b)
  OBVIOUS
<1>19. Generating(Call(Emit(e, lines), n, "body", id))
  BY ONLY <1>4, <1>11, <1>12, <1>13, <1>15, <1>16, <1>17, <1>18, NumberedCallKeeps
<1> QED
  BY <1>2, <1>19

LEMMA BreakKeeps ==
  ASSUME NEW s, NEW n, NEW b, Begun(s, n, b), Kind(n) = "break"
  PROVE  Generating(Emit(b, <<Jmp(BreakLabel(Last(b.break)))>>))
<1> DEFINE l == BreakLabel(Last(b.break))
<1>1. /\ Body /\ Generating(s) /\ Comes(s.calls, s.at, n) /\ n \in Nodes /\ b.break = s.break
  BY BegunIs
<1>2. /\ s.calls \in Seq(Calls) /\ s.at \in 0..Len(prog) /\ s.break \in Seq(Ctx)
      /\ Path(s.calls, s.at) /\ Tracks(s.break, s.calls, Breakable, CtxOf)
  <2>1. Tracks(s.break, s.calls, Breakable, CtxOf)
    BY <1>1 DEF Generating, Stacks
  <2> QED
    BY <1>1, <2>1, Begins
<1>3. \E a \in Ancestors(n) : Kind(a) \in Breakable
  BY <1>1 DEF Body, WellPlaced, Ancestors, Nodes
<1>4. Ancestors(n) = {s.calls[j].node : j \in DOMAIN s.calls}
  BY ONLY <1>1, <1>2, Coming
<1>5. PICK j \in DOMAIN s.calls : Kind(s.calls[j].node) \in Breakable
  BY <1>3, <1>4
<1>6. /\ s.break /= <<>>
      /\ \E i \in DOMAIN s.calls : /\ Kind(s.calls[i].node) \in Breakable
                                   /\ s.break[Len(s.break)] = CtxOf[s.calls[i]]
  BY ONLY <1>2, <1>5, TracksLast
<1>7. PICK i \in DOMAIN s.calls : /\ Kind(s.calls[i].node) \in Breakable
                                  /\ s.break[Len(s.break)] = CtxOf[s.calls[i]]
  BY <1>6
<1>8. s.calls[i] \in Calls /\ s.calls[i].id \in Nat
  <2>1. s.calls[i] \in Calls
    BY <1>2
  <2> QED
    BY <2>1 DEF Calls
<1>9. Last(b.break) = [kind |-> Kind(s.calls[i].node), id |-> s.calls[i].id]
  BY <1>1, <1>7, <1>8 DEF Last, CtxOf
<1>10. Due(s.calls[i], l) /\ l \in LabelSet
  <2> DEFINE name == CASE Kind(s.calls[i].node) = "while" -> "loop_end"
                       [] Kind(s.calls[i].node) = "do" -> "do_end"
                       [] Kind(s.calls[i].node) = "for" -> "for_end"
                       [] OTHER -> "switch_end"
  <2>1. l = Name(name, s.calls[i].id)
    BY <1>9 DEF BreakLabel
  <2>2. Kind(s.calls[i].node) \in {"while", "do", "for", "switch"}
    BY <1>7 DEF Breakable, Loops
  <2>3. /\ Kind(s.calls[i].node) = "while" => name = "loop_end"
        /\ Kind(s.calls[i].node) = "do" => name = "do_end"
        /\ Kind(s.calls[i].node) = "for" => name = "for_end"
        /\ Kind(s.calls[i].node) = "switch" => name = "switch_end"
    OBVIOUS
  <2>4. name \in LabelNames
    BY <2>2, <2>3 DEF LabelNames
  <2> HIDE DEF name, l
  <2>5. l \in LabelSet
    BY <1>8, <2>1, <2>4, NamesAreLabels
  <2>6. Due(s.calls[i], l)
    BY ONLY <2>1, <2>2, <2>3 DEF Due
  <2> QED
    BY <2>5, <2>6
<1> HIDE DEF l
<1>11. Adds(<<Jmp(l)>>, {}, {l})
  BY <1>10, AddsLines
<1>12. Kind(n) \in Leaves /\ Kind(n) \notin Labels
  BY DEF Leaves, Labels
<1>13. \A c \in Nodes : n \in Ancestors(c) => InDeadArm(c)
  BY <1>1, <1>12, NothingInside
<1>14. \A k \in {l} : k \in Defs(s.code) \/ \E m \in DOMAIN s.calls : Due(s.calls[m], k)
  BY <1>10
<1>15. Begun(s, n, b)
  OBVIOUS
<1>16. Generating(Emit(b, <<Jmp(l)>>))
  BY ONLY <1>11, <1>12, <1>13, <1>14, <1>15, PlainKeeps
<1> QED
  BY <1>16 DEF l

LEMMA ContinueKeeps ==
  ASSUME NEW s, NEW n, NEW b, Begun(s, n, b), Kind(n) = "continue"
  PROVE  Generating(Emit(b, <<Jmp(ContinueLabel(Last(b.continue)))>>))
<1> DEFINE l == ContinueLabel(Last(b.continue))
<1>1. /\ Body /\ Generating(s) /\ Comes(s.calls, s.at, n) /\ n \in Nodes /\ b.continue = s.continue
  BY BegunIs
<1>2. /\ s.calls \in Seq(Calls) /\ s.at \in 0..Len(prog) /\ s.continue \in Seq(Ctx)
      /\ Path(s.calls, s.at) /\ Tracks(s.continue, s.calls, Loops, CtxOf)
  <2>1. Tracks(s.continue, s.calls, Loops, CtxOf)
    BY <1>1 DEF Generating, Stacks
  <2> QED
    BY <1>1, <2>1, Begins
<1>3. \E a \in Ancestors(n) : Kind(a) \in Loops
  BY <1>1 DEF Body, WellPlaced, Ancestors, Nodes
<1>4. Ancestors(n) = {s.calls[j].node : j \in DOMAIN s.calls}
  BY ONLY <1>1, <1>2, Coming
<1>5. PICK j \in DOMAIN s.calls : Kind(s.calls[j].node) \in Loops
  BY <1>3, <1>4
<1>6. /\ s.continue /= <<>>
      /\ \E i \in DOMAIN s.calls : /\ Kind(s.calls[i].node) \in Loops
                                   /\ s.continue[Len(s.continue)] = CtxOf[s.calls[i]]
  BY ONLY <1>2, <1>5, TracksLast
<1>7. PICK i \in DOMAIN s.calls : /\ Kind(s.calls[i].node) \in Loops
                                  /\ s.continue[Len(s.continue)] = CtxOf[s.calls[i]]
  BY <1>6
<1>8. s.calls[i] \in Calls /\ s.calls[i].id \in Nat
  <2>1. s.calls[i] \in Calls
    BY <1>2
  <2> QED
    BY <2>1 DEF Calls
<1>9. Last(b.continue) = [kind |-> Kind(s.calls[i].node), id |-> s.calls[i].id]
  BY <1>1, <1>7, <1>8 DEF Last, CtxOf
<1>10. /\ l \in LabelSet
       /\ \/ Kind(s.calls[i].node) = "while" /\ Opened(s.calls[i], l)
          \/ Due(s.calls[i], l)
  <2> DEFINE name == CASE Kind(s.calls[i].node) = "do" -> "do_cont"
                       [] Kind(s.calls[i].node) = "for" -> "for_cont"
                       [] OTHER -> "loop_start"
  <2>1. l = Name(name, s.calls[i].id)
    BY <1>9 DEF ContinueLabel
  <2>2. Kind(s.calls[i].node) \in {"while", "do", "for"}
    BY <1>7 DEF Loops
  <2>3. /\ Kind(s.calls[i].node) = "while" => name = "loop_start"
        /\ Kind(s.calls[i].node) = "do" => name = "do_cont"
        /\ Kind(s.calls[i].node) = "for" => name = "for_cont"
    OBVIOUS
  <2>4. name \in LabelNames
    BY <2>2, <2>3 DEF LabelNames
  <2> HIDE DEF name, l
  <2>5. l \in LabelSet
    BY <1>8, <2>1, <2>4, NamesAreLabels
  <2>6. \/ Kind(s.calls[i].node) = "while" /\ Opened(s.calls[i], l)
        \/ Due(s.calls[i], l)
    BY ONLY <2>1, <2>2, <2>3 DEF Due, Opened
  <2> QED
    BY <2>5, <2>6
<1> HIDE DEF l
<1>17. Marks(s.calls, Defs(s.code))
  BY <1>1 DEF Generating
<1>11. Adds(<<Jmp(l)>>, {}, {l})
  BY <1>10, AddsLines
<1>12. Kind(n) \in Leaves /\ Kind(n) \notin Labels
  BY DEF Leaves, Labels
<1>13. \A c \in Nodes : n \in Ancestors(c) => InDeadArm(c)
  BY <1>1, <1>12, NothingInside
<1>14. \A k \in {l} : k \in Defs(s.code) \/ \E m \in DOMAIN s.calls : Due(s.calls[m], k)
  <2>1. CASE Due(s.calls[i], l)
    BY <2>1
  <2>2. CASE Opened(s.calls[i], l)
    <3>1. l \in Defs(s.code)
      BY <1>10, <1>17, <2>2 DEF Marks
    <3> QED
      BY <3>1
  <2> QED
    BY <1>10, <2>1, <2>2
<1>15. Begun(s, n, b)
  OBVIOUS
<1>16. Generating(Emit(b, <<Jmp(l)>>))
  BY ONLY <1>11, <1>12, <1>13, <1>14, <1>15, PlainKeeps
<1> QED
  BY <1>16 DEF l

LEMMA ExprKeeps ==
  ASSUME NEW s, NEW n, NEW b, Begun(s, n, b), Kind(n) = "expr"
  PROVE  Generating(Emit(b, <<Eval(n, "expr")>>))
<1>1. Body /\ n \in Nodes /\ n \in 0..Len(prog)
  BY BegunIs
<1>2. Kind(n) \in Leaves /\ Kind(n) \notin Labels /\ "expr" \in Parts
  BY DEF Leaves, Labels, Parts
<1>3. \A c \in Nodes : n \in Ancestors(c) => InDeadArm(c)
  BY <1>1, <1>2, NothingInside
<1>4. Adds(<<Eval(n, "expr")>>, {}, {})
  BY <1>1, <1>2, AddsLines
<1>5. Begun(s, n, b) /\ \A l \in {} : l \in Defs(s.code) \/ \E i \in DOMAIN s.calls : Due(s.calls[i], l)
  OBVIOUS
<1> QED
  BY ONLY <1>2, <1>3, <1>4, <1>5, PlainKeeps

LEMMA DeclKeeps ==
  ASSUME NEW s, NEW n, NEW b, Begun(s, n, b), Kind(n) = "decl"
  PROVE  Generating(b)
<1> DEFINE none == {}
<1>1. /\ Body /\ Generating(s) /\ Comes(s.calls, s.at, n) /\ n \in Nodes
      /\ GenTypeOK(b)
      /\ b.code = s.code /\ b.label_counter = s.label_counter
      /\ b.break = s.break /\ b.continue = s.continue /\ b.switch = s.switch
      /\ b.case_index = s.case_index /\ b.calls = s.calls /\ b.at = n /\ ~b.ends
  BY BegunIs
<1>2. Kind(n) \in Leaves /\ Kind(n) \notin Labels
  BY DEF Leaves, Labels
<1>3. \A c \in Nodes : n \in Ancestors(c) => InDeadArm(c)
  BY <1>1, <1>2, NothingInside
<1>4. b.code = s.code \o <<>>
  <2>1. s.code \in Seq(Lines)
    BY <1>1, Begins
  <2> QED
    BY <1>1, <2>1
<1>5. Laid(s.calls, n, none) /\ Adds(<<>>, none, none)
  BY <1>2, AddsNone DEF Laid
<1>6. /\ \A l \in none : l \in Defs(s.code) \/ \E i \in DOMAIN s.calls : Due(s.calls[i], l)
      /\ b.ends => Returned(<<>>)
  BY <1>1
<1> HIDE DEF none
<1> QED
  BY ONLY <1>1, <1>3, <1>4, <1>5, <1>6, LeafKeeps

LEMMA ReturnKeeps ==
  ASSUME NEW s, NEW n, NEW b, Begun(s, n, b), Kind(n) = "return"
  PROVE  Generating(GenReturn(b, n))
<1> DEFINE lines == <<Eval(n, "return"), Ret>>
           e == Emit(b, lines)
           t == GenReturn(b, n)
           none == {}
<1>1. /\ Body /\ Generating(s) /\ Comes(s.calls, s.at, n) /\ n \in Nodes /\ n \in 0..Len(prog)
      /\ GenTypeOK(b)
      /\ b.code = s.code /\ b.label_counter = s.label_counter
      /\ b.break = s.break /\ b.continue = s.continue /\ b.switch = s.switch
      /\ b.case_index = s.case_index /\ b.calls = s.calls /\ b.at = n
  BY BegunIs
<1>2. Kind(n) \in Leaves /\ Kind(n) \notin Labels /\ "return" \in Parts
  BY DEF Leaves, Labels, Parts
<1>3. \A c \in Nodes : n \in Ancestors(c) => InDeadArm(c)
  BY <1>1, <1>2, NothingInside
<1>4. Adds(lines, {}, {})
  <2>1. Adds(<<Eval(n, "return")>>, {}, {}) /\ Adds(<<Ret>>, {}, {})
    BY <1>1, <1>2, AddsLines
  <2>2. lines = <<Eval(n, "return")>> \o <<Ret>>
    BY Pairs
  <2>3. {} \cap {} = {} /\ {} \cup {} = {}
    OBVIOUS
  <2>4. Adds(<<Eval(n, "return")>> \o <<Ret>>, {} \cup {}, {} \cup {})
    BY ONLY <2>1, <2>3, AddsBoth
  <2> HIDE DEF lines
  <2> QED
    BY ONLY <2>2, <2>3, <2>4
<1>5. Returned(lines)
  BY DEF Returned
<1>6. lines \in Seq(Lines)
  BY <1>4 DEF Adds
<1>7. t = [e EXCEPT !.ends = TRUE]
  BY DEF GenReturn
<1> HIDE DEF lines
<1>10. e = Emit(b, lines)
  OBVIOUS
<1> HIDE DEF e, t
<1>8. /\ GenTypeOK(e) /\ e.code = b.code \o lines /\ e.label_counter = b.label_counter
      /\ e.break = b.break /\ e.continue = b.continue /\ e.switch = b.switch
      /\ e.case_index = b.case_index /\ e.calls = b.calls /\ e.at = b.at
  BY ONLY <1>1, <1>6, <1>10, EmitIs
<1>9. /\ GenTypeOK(t) /\ t.code = s.code \o lines /\ t.label_counter = s.label_counter
      /\ t.break = s.break /\ t.continue = s.continue /\ t.switch = s.switch
      /\ t.case_index = s.case_index /\ t.calls = s.calls /\ t.at = n
      /\ t.ends => Returned(lines)
  <2>1. /\ GenTypeOK(t) /\ t.code = e.code /\ t.label_counter = e.label_counter
        /\ t.break = e.break /\ t.continue = e.continue /\ t.switch = e.switch
        /\ t.case_index = e.case_index /\ t.calls = e.calls /\ t.at = e.at
    BY ONLY <1>7, <1>8 DEF GenTypeOK
  <2> QED
    BY <1>1, <1>5, <1>8, <2>1
<1>11. Laid(s.calls, n, none) /\ Adds(lines, none, none)
  BY <1>2, <1>4 DEF Laid
<1>12. \A l \in none : l \in Defs(s.code) \/ \E i \in DOMAIN s.calls : Due(s.calls[i], l)
  OBVIOUS
<1> HIDE DEF none
<1>13. Generating(t)
  BY ONLY <1>1, <1>3, <1>9, <1>11, <1>12, LeafKeeps
<1> QED
  BY <1>13 DEF t, lines

LEMMA LabelKeeps ==
  ASSUME NEW s, NEW n, NEW b, Begun(s, n, b), Kind(n) \in Labels,
         NEW l, \/ Kind(n) = "case" /\ l = CaseName(Last(b.switch), b.case_index[n])
                \/ Kind(n) = "default" /\ l = Name("default", Last(b.switch))
  PROVE  Generating(Emit(b, <<Label(l)>>))
<1> DEFINE t == Emit(b, <<Label(l)>>)
           none == {}
<1>1. /\ Body /\ Generating(s) /\ Comes(s.calls, s.at, n) /\ n \in Nodes
      /\ GenTypeOK(b)
      /\ b.code = s.code /\ b.label_counter = s.label_counter
      /\ b.break = s.break /\ b.continue = s.continue /\ b.switch = s.switch
      /\ b.case_index = s.case_index /\ b.calls = s.calls /\ b.at = n /\ ~b.ends
  BY BegunIs
<1>2. /\ s.calls \in Seq(Calls) /\ s.at \in 0..Len(prog) /\ s.switch \in Seq(Nat)
      /\ Path(s.calls, s.at) /\ Tracks(s.switch, s.calls, {"switch"}, IdOf)
      /\ s.label_counter \in Nat /\ Ids(s.calls, s.label_counter)
  <2>1. Tracks(s.switch, s.calls, {"switch"}, IdOf)
    BY <1>1 DEF Generating, Stacks
  <2> QED
    BY <1>1, <2>1, Begins
<1>3. Kind(n) \in Labels
  OBVIOUS
<1>4. /\ s.switch /= <<>>
      /\ \E i \in DOMAIN s.calls : /\ Kind(s.calls[i].node) = "switch"
                                   /\ n \in Collect(s.calls[i].node)
                                   /\ s.switch[Len(s.switch)] = s.calls[i].id
  BY ONLY <1>1, <1>2, <1>3, LastSwitch, ZenonT(30)
<1>5. PICK i \in DOMAIN s.calls : /\ Kind(s.calls[i].node) = "switch"
                                  /\ n \in Collect(s.calls[i].node)
                                  /\ s.switch[Len(s.switch)] = s.calls[i].id
  BY <1>4
<1>6. Last(b.switch) = s.calls[i].id
  BY <1>1, <1>5 DEF Last
<1>7. Kind(n) = "case" => b.case_index[n] = Index(CasesOf(s.calls[i].node), n)
  <2>1. Numbering(s.calls, s.case_index)
    BY <1>1 DEF Generating
  <2>2. Kind(n) = "case" => n \in CasesOf(s.calls[i].node)
    BY <1>5 DEF CasesOf
  <2> QED
    BY <1>1, <1>5, <2>1, <2>2 DEF Numbering
<1>8. l = LabelIn(s.calls[i].node, s.calls[i].id, n)
  BY <1>6, <1>7 DEF LabelIn
<1>9. l \in LabelSet
  <2>1. \A m \in DOMAIN s.calls : Kind(s.calls[m].node) = "switch" =>
          \A c \in Collect(s.calls[m].node) :
            LabelIn(s.calls[m].node, s.calls[m].id, c) \in LabelSet
    BY ONLY <1>1, <1>2, SwitchLabels
  <2> QED
    BY <1>5, <1>8, <2>1
<1>10. Laid(s.calls, n, {l})
  BY <1>5, <1>8 DEF Laid
<1>11. Adds(<<Label(l)>>, {l}, none)
  BY <1>9, AddsLines
<1>12. Kind(n) \in Leaves
  BY <1>3 DEF Leaves
<1>13. \A c \in Nodes : n \in Ancestors(c) => InDeadArm(c)
  BY <1>1, <1>12, NothingInside
<1>14. \A k \in none : k \in Defs(s.code) \/ \E m \in DOMAIN s.calls : Due(s.calls[m], k)
  OBVIOUS
<1>15. /\ GenTypeOK(t) /\ t.code = b.code \o <<Label(l)>> /\ t.label_counter = b.label_counter
       /\ t.break = b.break /\ t.continue = b.continue /\ t.switch = b.switch
       /\ t.case_index = b.case_index /\ t.calls = b.calls /\ t.at = b.at /\ t.ends = b.ends
  <2>1. <<Label(l)>> \in Seq(Lines)
    BY <1>11 DEF Adds
  <2> QED
    BY <1>1, <2>1, EmitIs
<1> HIDE DEF t, none
<1>16. /\ t.code = s.code \o <<Label(l)>> /\ t.label_counter = s.label_counter
       /\ t.break = s.break /\ t.continue = s.continue /\ t.switch = s.switch
       /\ t.case_index = s.case_index /\ t.calls = s.calls /\ t.at = n
       /\ t.ends => Returned(<<Label(l)>>)
  BY <1>1, <1>15
<1>17. Generating(t)
  BY ONLY <1>1, <1>10, <1>11, <1>13, <1>14, <1>15, <1>16, LeafKeeps
<1> QED
  BY <1>17 DEF t

LEMMA StmtKeeps ==
  ASSUME NEW s, NEW n, NEW b, Begun(s, n, b)
  PROVE  Generating(GenStmtOne(b, n))
<1>1. n /= 0 /\ prog[n] \in Node /\ Begun(s, n, b)
  BY BegunIs
<1>2. Kind(n) \in StmtKinds
  BY <1>1 DEF Kind, Node
<1>3. CASE Kind(n) = "block"
  BY <1>1, <1>3, BlockKeeps DEF GenStmtOne
<1>4. CASE Kind(n) = "decl"
  BY <1>1, <1>4, DeclKeeps DEF GenStmtOne
<1>5. CASE Kind(n) = "if"
  BY <1>1, <1>5, IfKeeps DEF GenStmtOne
<1>6. CASE Kind(n) = "while"
  BY <1>1, <1>6, WhileKeeps DEF GenStmtOne
<1>7. CASE Kind(n) = "do"
  BY <1>1, <1>7, DoWhileKeeps DEF GenStmtOne
<1>8. CASE Kind(n) = "for"
  BY <1>1, <1>8, ForKeeps DEF GenStmtOne
<1>9. CASE Kind(n) = "switch"
  BY <1>1, <1>9, SwitchKeeps DEF GenStmtOne
<1>10. CASE Kind(n) = "break"
  BY <1>1, <1>10, BreakKeeps DEF GenStmtOne
<1>11. CASE Kind(n) = "continue"
  BY <1>1, <1>11, ContinueKeeps DEF GenStmtOne
<1>12. CASE Kind(n) = "return"
  BY <1>1, <1>12, ReturnKeeps DEF GenStmtOne
<1>13. CASE Kind(n) = "case"
  <2>1. Generating(Emit(b, <<Label(CaseName(Last(b.switch), b.case_index[n]))>>))
    BY <1>1, <1>13, LabelKeeps DEF Labels
  <2> QED
    BY <1>13, <2>1 DEF GenStmtOne
<1>14. CASE Kind(n) = "default"
  <2>1. Generating(Emit(b, <<Label(Name("default", Last(b.switch)))>>))
    BY <1>1, <1>14, LabelKeeps DEF Labels
  <2> QED
    BY <1>14, <2>1 DEF GenStmtOne
<1>15. CASE Kind(n) = "expr"
  BY <1>1, <1>15, ExprKeeps DEF GenStmtOne
<1> QED
  BY <1>2, <1>3, <1>4, <1>5, <1>6, <1>7, <1>8, <1>9, <1>10, <1>11, <1>12, <1>13, <1>14, <1>15
  DEF StmtKinds, Leaves, Labels, Breakable, Loops

(***************************************************************************)
(* After the call: each kind of statement.                                  *)
(***************************************************************************)
(* gen_stmt() has returned to the one that called it for top.                *)
Returning(s, top, r) ==
  /\ Body /\ Generating(s) /\ Walked(s) /\ top = s.calls[Len(s.calls)]
  /\ r = [s EXCEPT !.calls = Front(@), !.ends = @ /\ PassesOn(Kind(top.node))]

LEMMA ReturningIs ==
  ASSUME NEW s, NEW top, NEW r, Returning(s, top, r)
  PROVE  /\ Body /\ Generating(s) /\ Walked(s) /\ top = s.calls[Len(s.calls)]
         /\ top \in Calls /\ top.node \in 0..Len(prog) /\ top.node /= 0 /\ top.id \in Nat
         /\ top.slot \in {"body", "else"}
         /\ Kind(top.node) \in Breakable \cup {"if", "block"}
         /\ GenTypeOK(r)
         /\ r.code = s.code /\ r.label_counter = s.label_counter
         /\ r.break = s.break /\ r.continue = s.continue /\ r.switch = s.switch
         /\ r.case_index = s.case_index /\ r.calls = Front(s.calls) /\ r.at = s.at
         /\ r.ends => s.ends /\ Kind(top.node) = "block"
         /\ Kind(top.node) \in Breakable => Front(r.break) \in Seq(Ctx)
         /\ Kind(top.node) \in Loops => Front(r.continue) \in Seq(Ctx)
         /\ Kind(top.node) = "switch" => Front(r.switch) \in Seq(Nat)
<1>1. Body /\ Generating(s) /\ Walked(s) /\ top = s.calls[Len(s.calls)] /\ top.node /= 0
  BY DEF Returning, Walked
<1>2. /\ s.calls \in Seq(Calls) /\ s.calls /= <<>> /\ s.at \in 0..Len(prog)
      /\ Path(s.calls, s.at) /\ Len(s.calls) \in DOMAIN s.calls
  BY <1>1, Begins
<1>3. top \in Calls
  BY <1>1, <1>2
<1>4. top.node \in 0..Len(prog) /\ top.id \in Nat /\ top.slot \in {"body", "else"}
  BY <1>3 DEF Calls
<1>5. Kind(top.node) \in Breakable \cup {"if", "block"}
  <2>1. Kind(top.node) \notin Leaves
    BY <1>1, <1>2 DEF Path
  <2>2. top.node \in Nodes /\ prog[top.node] \in Node
    BY <1>1, <1>4 DEF Body, Nodes
  <2>3. Kind(top.node) \in StmtKinds
    BY <1>1, <2>2 DEF Kind, Node
  <2> QED
    BY <2>1, <2>3 DEF StmtKinds
<1>6. GenTypeOK(s) /\ Front(s.calls) \in Seq(Calls)
  BY <1>1, <1>2, FrontIs DEF Generating
<1>7. /\ GenTypeOK(r)
      /\ r.code = s.code /\ r.label_counter = s.label_counter
      /\ r.break = s.break /\ r.continue = s.continue /\ r.switch = s.switch
      /\ r.case_index = s.case_index /\ r.calls = Front(s.calls) /\ r.at = s.at
      /\ r.ends => s.ends /\ Kind(top.node) = "block"
  <2> DEFINE ends == s.ends /\ PassesOn(Kind(top.node))
             calls == Front(s.calls)
  <2>1. ends \in BOOLEAN /\ (ends => s.ends /\ Kind(top.node) = "block")
    BY <1>6 DEF PassesOn, GenTypeOK
  <2>2. r = [s EXCEPT !.calls = calls, !.ends = ends]
    BY DEF Returning
  <2>3. calls \in Seq(Calls)
    BY <1>6
  <2> HIDE DEF ends, calls
  <2>4. /\ GenTypeOK(r)
        /\ r.code = s.code /\ r.label_counter = s.label_counter
        /\ r.break = s.break /\ r.continue = s.continue /\ r.switch = s.switch
        /\ r.case_index = s.case_index /\ r.calls = calls /\ r.at = s.at
        /\ r.ends = ends
    BY ONLY <1>6, <2>1, <2>2, <2>3 DEF GenTypeOK
  <2> QED
    BY <2>1, <2>4 DEF calls
<1>8. /\ Kind(top.node) \in Breakable => Front(s.break) \in Seq(Ctx)
      /\ Kind(top.node) \in Loops => Front(s.continue) \in Seq(Ctx)
      /\ Kind(top.node) = "switch" => Front(s.switch) \in Seq(Nat)
  <2> DEFINE kind == Kind(top.node)
  <2>1. kind = Kind(s.calls[Len(s.calls)].node)
    BY <1>1
  <2> HIDE DEF kind
  <2>2. /\ kind \in Breakable => Front(s.break) \in Seq(Ctx)
        /\ kind \in Loops => Front(s.continue) \in Seq(Ctx)
        /\ kind = "switch" => Front(s.switch) \in Seq(Nat)
    BY ONLY <1>1, <2>1, FrontsOf
  <2> QED
    BY <2>2 DEF kind
<1> QED
  BY <1>1, <1>3, <1>4, <1>5, <1>7, <1>8

(* Lines that are emitted where no target is taken back. *)
LEMMA PlainEndKeeps ==
  ASSUME NEW s, NEW top, NEW r, Returning(s, top, r), Kind(top.node) \in {"block", "if"},
         ElsePending(top) => Kids(top.node, "else") = {},
         NEW lines, NEW D, Adds(lines, D, {}), D \subseteq LabelSet,
         \A l \in D : Due(top, l), \A l : Due(top, l) => l \in D,
         NEW t, t = Emit(r, lines), Kind(top.node) = "block" => lines = <<>>
  PROVE  Generating(t)
<1>1. /\ Body /\ Generating(s) /\ Walked(s) /\ top = s.calls[Len(s.calls)]
      /\ GenTypeOK(r)
      /\ r.code = s.code /\ r.label_counter = s.label_counter
      /\ r.break = s.break /\ r.continue = s.continue /\ r.switch = s.switch
      /\ r.case_index = s.case_index /\ r.calls = Front(s.calls) /\ r.at = s.at
      /\ r.ends => s.ends /\ Kind(top.node) = "block"
  BY ReturningIs
<1>2. /\ GenTypeOK(t) /\ t.code = r.code \o lines /\ t.label_counter = r.label_counter
      /\ t.break = r.break /\ t.continue = r.continue /\ t.switch = r.switch
      /\ t.case_index = r.case_index /\ t.calls = r.calls /\ t.at = r.at /\ t.ends = r.ends
  <2>1. lines \in Seq(Lines) /\ t = Emit(r, lines)
    BY DEF Adds
  <2> QED
    BY ONLY <1>1, <2>1, EmitIs
<1>3. /\ t.code = s.code \o lines /\ t.label_counter = s.label_counter
      /\ t.case_index = s.case_index /\ t.calls = Front(s.calls) /\ t.at = s.at
      /\ t.ends => s.ends /\ lines = <<>>
  BY <1>1, <1>2
<1>4. Pops(s, t)
  <2>1. Kind(top.node) \notin Breakable /\ Kind(top.node) \notin Loops /\ Kind(top.node) /= "switch"
    BY DEF Breakable, Loops
  <2> QED
    BY <1>1, <1>2, <2>1 DEF Pops
<1> DEFINE J == {}
<1>5. /\ \A l \in D : Due(top, l)
      /\ \A l : Due(top, l) => l \in D
      /\ \A l \in J : l \in D \/ Opened(top, l)
      /\ D \cup J \subseteq LabelSet
      /\ Adds(lines, D, J)
      /\ ElsePending(top) => Kids(top.node, "else") = {}
  OBVIOUS
<1> HIDE DEF J
<1> QED
  BY ONLY <1>1, <1>2, <1>3, <1>4, <1>5, EndKeeps

(* The end of a loop, from the label where continue goes.                   *)
LEMMA LoopEndKeeps ==
  ASSUME NEW s, NEW top, NEW r, Returning(s, top, r), Kind(top.node) \in Loops,
         NEW lines, NEW D, NEW J, Adds(lines, D, J), D \cup J \subseteq LabelSet,
         \A l \in D : Due(top, l), \A l : Due(top, l) => l \in D,
         \A l \in J : l \in D \/ Opened(top, l),
         NEW t, t = LeaveLoop(Emit(r, lines))
  PROVE  Generating(t)
<1> DEFINE e == Emit(r, lines)
<1>1. /\ Body /\ Generating(s) /\ Walked(s) /\ top = s.calls[Len(s.calls)]
      /\ GenTypeOK(r)
      /\ r.code = s.code /\ r.label_counter = s.label_counter
      /\ r.break = s.break /\ r.continue = s.continue /\ r.switch = s.switch
      /\ r.case_index = s.case_index /\ r.calls = Front(s.calls) /\ r.at = s.at
      /\ r.ends => s.ends /\ Kind(top.node) = "block"
      /\ Kind(top.node) \in Breakable => Front(r.break) \in Seq(Ctx)
      /\ Kind(top.node) \in Loops => Front(r.continue) \in Seq(Ctx)
  BY ReturningIs
<1>2. /\ Kind(top.node) \in Breakable /\ Kind(top.node) \in Loops /\ Kind(top.node) /= "switch"
      /\ Kind(top.node) /= "if" /\ Kind(top.node) /= "block"
  BY DEF Breakable, Loops
<1>3. /\ GenTypeOK(e) /\ e.code = r.code \o lines /\ e.label_counter = r.label_counter
      /\ e.break = r.break /\ e.continue = r.continue /\ e.switch = r.switch
      /\ e.case_index = r.case_index /\ e.calls = r.calls /\ e.at = r.at /\ e.ends = r.ends
  <2>1. lines \in Seq(Lines)
    BY DEF Adds
  <2> QED
    BY <1>1, <2>1, EmitIs
<1>4. t = LeaveLoop(e)
  OBVIOUS
<1> HIDE DEF e
<1>5. /\ GenTypeOK(t)
      /\ t.break = Front(e.break) /\ t.continue = Front(e.continue)
      /\ t.code = e.code /\ t.label_counter = e.label_counter
      /\ t.switch = e.switch /\ t.case_index = e.case_index
      /\ t.calls = e.calls /\ t.at = e.at /\ t.ends = e.ends
  <2>1. Front(e.break) \in Seq(Ctx) /\ Front(e.continue) \in Seq(Ctx)
    BY <1>1, <1>2, <1>3
  <2> QED
    BY ONLY <1>3, <1>4, <2>1, LeaveLoopIs
<1>6. /\ t.code = s.code \o lines /\ t.label_counter = s.label_counter
      /\ t.case_index = s.case_index /\ t.calls = Front(s.calls) /\ t.at = s.at
      /\ t.ends => s.ends /\ lines = <<>>
  BY <1>1, <1>2, <1>3, <1>5
<1>7. Pops(s, t)
  BY <1>1, <1>2, <1>3, <1>5 DEF Pops
<1>8. /\ \A l \in D : Due(top, l)
      /\ \A l : Due(top, l) => l \in D
      /\ \A l \in J : l \in D \/ Opened(top, l)
      /\ D \cup J \subseteq LabelSet
      /\ Adds(lines, D, J)
      /\ ElsePending(top) => Kids(top.node, "else") = {}
  BY <1>2 DEF ElsePending
<1> QED
  BY ONLY <1>1, <1>5, <1>6, <1>7, <1>8, EndKeeps

LEMMA EndSwitchKeeps ==
  ASSUME NEW s, NEW top, NEW r, Returning(s, top, r), Kind(top.node) = "switch"
  PROVE  Generating(EndSwitch(r, top))
<1> DEFINE l == Name("switch_end", top.id)
           lines == <<Label(l)>>
           e == Emit(r, lines)
           t == EndSwitch(r, top)
           D == {l}
           J == {}
<1>1. /\ Body /\ Generating(s) /\ Walked(s) /\ top = s.calls[Len(s.calls)]
      /\ GenTypeOK(r) /\ top.id \in Nat
      /\ r.code = s.code /\ r.label_counter = s.label_counter
      /\ r.break = s.break /\ r.continue = s.continue /\ r.switch = s.switch
      /\ r.case_index = s.case_index /\ r.calls = Front(s.calls) /\ r.at = s.at
      /\ r.ends => s.ends /\ Kind(top.node) = "block"
      /\ Kind(top.node) \in Breakable => Front(r.break) \in Seq(Ctx)
      /\ Kind(top.node) = "switch" => Front(r.switch) \in Seq(Nat)
  BY ReturningIs
<1>2. /\ Kind(top.node) \in Breakable /\ Kind(top.node) \notin Loops /\ Kind(top.node) = "switch"
      /\ Kind(top.node) /= "if" /\ Kind(top.node) /= "block"
  BY DEF Breakable, Loops
<1>3. l \in LabelSet
  BY <1>1, NamesAreLabels DEF LabelNames
<1>4. \A k : Due(top, k) <=> k = l
  BY <1>2 DEF Due
<1>5. t = LeaveSwitch(e)
  BY DEF EndSwitch
<1> HIDE DEF l
<1>6. Adds(lines, D, J)
  BY <1>3, AddsLines
<1>7. lines \in Seq(Lines)
  BY <1>6 DEF Adds
<1> HIDE DEF lines
<1>8. /\ GenTypeOK(e) /\ e.code = r.code \o lines /\ e.label_counter = r.label_counter
      /\ e.break = r.break /\ e.continue = r.continue /\ e.switch = r.switch
      /\ e.case_index = r.case_index /\ e.calls = r.calls /\ e.at = r.at /\ e.ends = r.ends
  BY <1>1, <1>7, EmitIs
<1> HIDE DEF e, t
<1>9. /\ GenTypeOK(t)
      /\ t.break = Front(e.break) /\ t.switch = Front(e.switch)
      /\ t.code = e.code /\ t.label_counter = e.label_counter
      /\ t.continue = e.continue /\ t.case_index = e.case_index
      /\ t.calls = e.calls /\ t.at = e.at /\ t.ends = e.ends
  <2>1. Front(e.break) \in Seq(Ctx) /\ Front(e.switch) \in Seq(Nat)
    BY <1>1, <1>2, <1>8
  <2> QED
    BY ONLY <1>8, <1>5, <2>1, LeaveSwitchIs
<1>10. /\ t.code = s.code \o lines /\ t.label_counter = s.label_counter
       /\ t.case_index = s.case_index /\ t.calls = Front(s.calls) /\ t.at = s.at
       /\ t.ends => s.ends /\ lines = <<>>
  BY <1>1, <1>2, <1>8, <1>9
<1>11. Pops(s, t)
  BY <1>1, <1>2, <1>8, <1>9 DEF Pops
<1>12. /\ \A k \in D : Due(top, k)
       /\ \A k : Due(top, k) => k \in D
       /\ \A k \in J : k \in D \/ Opened(top, k)
       /\ D \cup J \subseteq LabelSet
       /\ ElsePending(top) => Kids(top.node, "else") = {}
  BY <1>2, <1>3, <1>4 DEF ElsePending
<1> HIDE DEF D, J
<1>13. Generating(t)
  BY ONLY <1>1, <1>6, <1>9, <1>10, <1>11, <1>12, EndKeeps
<1> QED
  BY <1>13 DEF t

LEMMA EndWhileKeeps ==
  ASSUME NEW s, NEW top, NEW r, Returning(s, top, r), Kind(top.node) = "while"
  PROVE  Generating(EndWhile(r, top))
<1> DEFINE start == Name("loop_start", top.id)
           end == Name("loop_end", top.id)
           lines == <<Jmp(start), Label(end)>>
<1>1. top.id \in Nat
  BY ReturningIs
<1>2. start \in LabelSet /\ end \in LabelSet
  BY <1>1, NamesAreLabels DEF LabelNames
<1>3. \A l : (Due(top, l) <=> l = end) /\ (Opened(top, l) <=> l = start)
  BY DEF Due, Opened
<1>4. EndWhile(r, top) = LeaveLoop(Emit(r, lines))
  BY DEF EndWhile
<1> HIDE DEF start, end
<1>5. Adds(lines, {end}, {start})
  <2>1. Adds(<<Jmp(start)>>, {}, {start}) /\ Adds(<<Label(end)>>, {end}, {})
    BY <1>2, AddsLines
  <2>2. lines = <<Jmp(start)>> \o <<Label(end)>>
    BY Pairs
  <2>3. {} \cap {end} = {} /\ {end} = {} \cup {end} /\ {start} = {start} \cup {}
    OBVIOUS
  <2> HIDE DEF lines
  <2> QED
    BY ONLY <2>1, <2>2, <2>3, AddsThen
<1> HIDE DEF lines
<1>6. /\ {end} \cup {start} \subseteq LabelSet
      /\ \A l \in {end} : Due(top, l)
      /\ \A l : Due(top, l) => l \in {end}
      /\ \A l \in {start} : l \in {end} \/ Opened(top, l)
  BY <1>2, <1>3
<1>7. Returning(s, top, r) /\ Kind(top.node) \in Loops
  BY DEF Loops
<1> QED
  BY ONLY <1>4, <1>5, <1>6, <1>7, LoopEndKeeps

LEMMA EndDoWhileKeeps ==
  ASSUME NEW s, NEW top, NEW r, Returning(s, top, r), Kind(top.node) = "do"
  PROVE  Generating(EndDoWhile(r, top))
<1> DEFINE start == Name("do_start", top.id)
           cont == Name("do_cont", top.id)
           end == Name("do_end", top.id)
           again == IF Dead(top.node) THEN <<>> ELSE <<Eval(top.node, "cond"), Jne(start)>>
           J == IF Dead(top.node) THEN {} ELSE {start}
           D == {cont, end}
           lines == <<Label(cont)>> \o again \o <<Label(end)>>
<1>1. top.id \in Nat /\ top.node \in 0..Len(prog)
  BY ReturningIs
<1>2. start \in LabelSet /\ cont \in LabelSet /\ end \in LabelSet
  BY <1>1, NamesAreLabels DEF LabelNames
<1>3. \A l : (Due(top, l) <=> l = cont \/ l = end) /\ (Opened(top, l) <=> l = start)
  BY DEF Due, Opened
<1>8. cont /= end
  BY DEF Name
<1>4. EndDoWhile(r, top) = LeaveLoop(Emit(r, lines))
  BY DEF EndDoWhile
<1> HIDE DEF start, end, cont
<1>5. Adds(again, {}, J)
  <2>1. CASE Dead(top.node)
    BY <2>1, AddsNone
  <2>2. CASE ~Dead(top.node)
    <3>1. "cond" \in Parts
      BY DEF Parts
    <3>2. Adds(<<Eval(top.node, "cond")>>, {}, {}) /\ Adds(<<Jne(start)>>, {}, {start})
      BY <1>1, <1>2, <3>1, AddsLines
    <3>3. again = <<Eval(top.node, "cond")>> \o <<Jne(start)>> /\ J = {start}
      BY <2>2, Pairs
    <3>4. {} \cap {} = {} /\ {} = {} \cup {} /\ J = {} \cup {start}
      BY <3>3
    <3> HIDE DEF again, J
    <3> QED
      BY ONLY <3>2, <3>3, <3>4, AddsThen
  <2> QED
    BY <2>1, <2>2
<1>9. J \subseteq {start}
  OBVIOUS
<1> HIDE DEF again, J
<1>10. Adds(lines, D, J)
  <2>1. Adds(<<Label(cont)>>, {cont}, {}) /\ Adds(<<Label(end)>>, {end}, {})
    BY <1>2, AddsLines
  <2>2. {cont} \cap {} = {} /\ {cont} = {cont} \cup {} /\ J = {} \cup J
        /\ {cont} \cap {end} = {} /\ D = {cont} \cup {end} /\ J = J \cup {}
    BY <1>8
  <2>3. Adds(<<Label(cont)>> \o again, {cont}, J)
    BY ONLY <1>5, <2>1, <2>2, AddsThen
  <2> HIDE DEF D
  <2>4. Adds(<<Label(cont)>> \o again \o <<Label(end)>>, D, J)
    BY ONLY <2>1, <2>2, <2>3, AddsThen
  <2> QED
    BY <2>4
<1> HIDE DEF lines
<1>6. /\ D \cup J \subseteq LabelSet
      /\ \A l \in D : Due(top, l)
      /\ \A l : Due(top, l) => l \in D
      /\ \A l \in J : l \in D \/ Opened(top, l)
  BY <1>2, <1>3, <1>9
<1> HIDE DEF D
<1>7. Returning(s, top, r) /\ Kind(top.node) \in Loops
  BY DEF Loops
<1> QED
  BY ONLY <1>4, <1>10, <1>6, <1>7, LoopEndKeeps

LEMMA EndForKeeps ==
  ASSUME NEW s, NEW top, NEW r, Returning(s, top, r), Kind(top.node) = "for"
  PROVE  Generating(EndFor(r, top))
<1> DEFINE start == Name("for_start", top.id)
           cont == Name("for_cont", top.id)
           end == Name("for_end", top.id)
           step == IF prog[top.node].step THEN <<Eval(top.node, "step")>> ELSE <<>>
           D == {cont, end}
           J == {start}
           lines == <<Label(cont)>> \o step \o <<Jmp(start), Label(end)>>
<1>1. top.id \in Nat /\ top.node \in 0..Len(prog)
  BY ReturningIs
<1>2. start \in LabelSet /\ cont \in LabelSet /\ end \in LabelSet
  BY <1>1, NamesAreLabels DEF LabelNames
<1>3. \A l : (Due(top, l) <=> l = cont \/ l = end) /\ (Opened(top, l) <=> l = start)
  BY DEF Due, Opened
<1>8. cont /= end
  BY DEF Name
<1>4. EndFor(r, top) = LeaveLoop(Emit(r, lines))
  BY DEF EndFor
<1> HIDE DEF start, end, cont
<1>5. Adds(step, {}, {})
  <2>1. "step" \in Parts
    BY DEF Parts
  <2> QED
    BY <1>1, <2>1, AddsLines, AddsNone
<1> HIDE DEF step
<1>10. Adds(lines, D, J)
  <2>1. /\ Adds(<<Label(cont)>>, {cont}, {}) /\ Adds(<<Label(end)>>, {end}, {})
        /\ Adds(<<Jmp(start)>>, {}, {start})
    BY <1>2, AddsLines
  <2>2. {cont} \cap {} = {} /\ {cont} = {cont} \cup {} /\ {} = {} \cup {}
        /\ {cont} \cap {end} = {} /\ D = {cont} \cup {end} /\ J = {} \cup J
        /\ {} \cap {end} = {} /\ {end} = {} \cup {end} /\ J = {start} \cup {}
    BY <1>8
  <2>3. Adds(<<Label(cont)>> \o step, {cont}, {})
    BY ONLY <1>5, <2>1, <2>2, AddsThen
  <2>5. <<Jmp(start), Label(end)>> = <<Jmp(start)>> \o <<Label(end)>>
    BY Pairs
  <2> HIDE DEF D, J
  <2>6. Adds(<<Jmp(start)>> \o <<Label(end)>>, {end}, J)
    BY ONLY <2>1, <2>2, AddsThen
  <2>7. Adds(<<Jmp(start), Label(end)>>, {end}, J)
    BY ONLY <2>5, <2>6
  <2>4. Adds(<<Label(cont)>> \o step \o <<Jmp(start), Label(end)>>, D, J)
    BY ONLY <2>2, <2>3, <2>7, AddsThen, ZenonT(90)
  <2> QED
    BY <2>4
<1> HIDE DEF lines
<1>6. /\ D \cup J \subseteq LabelSet
      /\ \A l \in D : Due(top, l)
      /\ \A l : Due(top, l) => l \in D
      /\ \A l \in J : l \in D \/ Opened(top, l)
  BY <1>2, <1>3
<1> HIDE DEF D, J
<1>7. Returning(s, top, r) /\ Kind(top.node) \in Loops
  BY DEF Loops
<1> QED
  BY ONLY <1>4, <1>10, <1>6, <1>7, LoopEndKeeps

(* Nothing is emitted at the end of a block, nor of an if with a literal      *)
(* condition.                                                               *)
LEMMA NothingLeft ==
  ASSUME NEW s, NEW top, NEW r, Returning(s, top, r),
         \/ Kind(top.node) = "block"
         \/ Kind(top.node) = "if" /\ ConstTruth(top.node)
  PROVE  Generating(r)
<1> DEFINE D == {}
<1>1. GenTypeOK(r)
  BY ReturningIs
<1>2. Emit(r, <<>>) = r
  <2>1. r.code \o <<>> = r.code
    BY <1>1 DEF GenTypeOK
  <2>2. r = [r EXCEPT !.code = r.code]
    BY <1>1 DEF GenTypeOK
  <2> QED
    BY <2>1, <2>2 DEF Emit
<1>3. Adds(<<>>, D, {})
  BY AddsNone
<1>4. /\ \A l \in D : Due(top, l)
      /\ \A l : Due(top, l) => l \in D
      /\ D \subseteq LabelSet
      /\ ElsePending(top) => Kids(top.node, "else") = {}
      /\ Kind(top.node) \in {"block", "if"}
      /\ Kind(top.node) = "block" => <<>> = <<>>
  BY DEF Due, ElsePending
<1>5. Returning(s, top, r) /\ r = Emit(r, <<>>)
  BY <1>2
<1> HIDE DEF D
<1> QED
  BY ONLY <1>3, <1>4, <1>5, PlainEndKeeps

LEMMA EndIfKeeps ==
  ASSUME NEW s, NEW top, NEW r, Returning(s, top, r), Kind(top.node) = "if"
  PROVE  Generating(EndIf(r, top))
<1> DEFINE node == top.node
           id == top.id
           other == Name("else", id)
           end == Name("end", id)
<1>1. /\ Body /\ Generating(s) /\ Walked(s) /\ top = s.calls[Len(s.calls)] /\ s.calls \in Seq(Calls)
      /\ s.calls /= <<>>
      /\ GenTypeOK(r) /\ id \in Nat /\ node \in 0..Len(prog) /\ top.slot \in {"body", "else"}
      /\ r.code = s.code /\ r.label_counter = s.label_counter
      /\ r.break = s.break /\ r.continue = s.continue /\ r.switch = s.switch
      /\ r.case_index = s.case_index /\ r.calls = Front(s.calls) /\ r.at = s.at
  BY ReturningIs, Begins
<1>2. other \in LabelSet /\ end \in LabelSet
  BY <1>1, NamesAreLabels DEF LabelNames
<1>3. CASE ConstTruth(node)
  BY <1>3, NothingLeft DEF EndIf
<1>4. CASE ~ConstTruth(node) /\ top.slot = "body" /\ Kids(node, "else") /= {}
  <2> DEFINE x == [node |-> node, slot |-> "else", id |-> id]
             lines == <<Jmp(end), Label(other)>>
             e == Emit(r, lines)
             t == Call(e, node, "else", id)
  <2>1. EndIf(r, top) = t
    BY <1>4 DEF EndIf
  <2>2. x \in Calls /\ x.id = id
    BY <1>1 DEF Calls
  <2>3. Turns(s.calls, x)
    BY <1>1, <1>4 DEF Turns, ElsePending
  <2>4. x = [node |-> node, slot |-> "else", id |-> id] /\ t = Call(e, node, "else", id)
    OBVIOUS
  <2>5. other = Name("else", x.id) /\ end = Name("end", x.id)
    BY <2>2
  <2> HIDE DEF x, other, end
  <2>6. Adds(lines, {other}, {end})
    <3>1. Adds(<<Jmp(end)>>, {}, {end}) /\ Adds(<<Label(other)>>, {other}, {})
      BY <1>2, AddsLines
    <3>2. lines = <<Jmp(end)>> \o <<Label(other)>>
      BY Pairs
    <3>3. {} \cap {other} = {} /\ {other} = {} \cup {other} /\ {end} = {end} \cup {}
      OBVIOUS
    <3> HIDE DEF lines
    <3> QED
      BY ONLY <3>1, <3>2, <3>3, AddsThen
  <2>7. lines \in Seq(Lines)
    BY <2>6 DEF Adds
  <2> HIDE DEF lines
  <2>8. /\ GenTypeOK(e) /\ e.code = r.code \o lines /\ e.label_counter = r.label_counter
        /\ e.break = r.break /\ e.continue = r.continue /\ e.switch = r.switch
        /\ e.case_index = r.case_index /\ e.calls = r.calls /\ e.at = r.at
    BY <1>1, <2>7, EmitIs
  <2> HIDE DEF e, t, node, id
  <2>9. /\ GenTypeOK(t)
        /\ t.calls = Append(e.calls, x) /\ ~t.ends
        /\ t.code = e.code /\ t.label_counter = e.label_counter
        /\ t.break = e.break /\ t.continue = e.continue /\ t.switch = e.switch
        /\ t.case_index = e.case_index /\ t.at = e.at
    BY ONLY <2>2, <2>4, <2>8, CallIs, SMTT(20)
  <2>10. /\ t.code = s.code \o lines /\ t.label_counter = s.label_counter
         /\ t.break = s.break /\ t.continue = s.continue /\ t.switch = s.switch
         /\ t.case_index = s.case_index /\ t.calls = Append(Front(s.calls), x) /\ t.at = s.at
         /\ ~t.ends
    BY <1>1, <2>8, <2>9
  <2>11. Adds(lines, {Name("else", x.id)}, {Name("end", x.id)})
    BY ONLY <2>5, <2>6
  <2>12. Generating(t)
    BY ONLY <1>1, <2>2, <2>3, <2>9, <2>10, <2>11, ElseKeeps
  <2> QED
    BY <2>1, <2>12
<1>5. CASE ~ConstTruth(node) /\ ~(top.slot = "body" /\ Kids(node, "else") /= {})
  <2> DEFINE lines == <<Label(end)>>
             D == {end}
             t == Emit(r, lines)
  <2>1. EndIf(r, top) = t
    BY <1>5 DEF EndIf
  <2>2. \A l : Due(top, l) <=> l = end
    BY <1>5 DEF Due
  <2>3. ElsePending(top) => Kids(top.node, "else") = {}
    BY <1>5 DEF ElsePending
  <2> HIDE DEF end
  <2>4. Adds(lines, D, {}) /\ D \subseteq LabelSet
    BY <1>2, AddsLines
  <2>5. /\ \A l \in D : Due(top, l)
        /\ \A l : Due(top, l) => l \in D
        /\ Kind(top.node) \in {"block", "if"} /\ (Kind(top.node) = "block" => lines = <<>>)
        /\ Returning(s, top, r) /\ t = Emit(r, lines)
    BY <2>2
  <2> HIDE DEF D, lines, t
  <2>6. Generating(t)
    BY ONLY <2>3, <2>4, <2>5, PlainEndKeeps
  <2> QED
    BY <2>1, <2>6
<1> QED
  BY <1>3, <1>4, <1>5

LEMMA EndStmtKeeps ==
  ASSUME NEW s, NEW top, NEW r, Returning(s, top, r)
  PROVE  Generating(EndStmt(r, top))
<1>1. Kind(top.node) \in Breakable \cup {"if", "block"} /\ Returning(s, top, r)
  BY ReturningIs
<1>2. CASE Kind(top.node) = "block"
  BY <1>1, <1>2, NothingLeft DEF EndStmt
<1>3. CASE Kind(top.node) = "if"
  BY <1>1, <1>3, EndIfKeeps DEF EndStmt
<1>4. CASE Kind(top.node) = "while"
  BY <1>1, <1>4, EndWhileKeeps DEF EndStmt
<1>5. CASE Kind(top.node) = "do"
  BY <1>1, <1>5, EndDoWhileKeeps DEF EndStmt
<1>6. CASE Kind(top.node) = "for"
  BY <1>1, <1>6, EndForKeeps DEF EndStmt
<1>7. CASE Kind(top.node) = "switch"
  BY <1>1, <1>7, EndSwitchKeeps DEF EndStmt
<1> QED
  BY <1>1, <1>2, <1>3, <1>4, <1>5, <1>6, <1>7 DEF Breakable, Loops

(***************************************************************************)
(* The steps.                                                              *)
(***************************************************************************)
(* A step that leaves the body alone leaves alone what is said of it.        *)
LEMMA NodesSame ==
  ASSUME prog' = prog
  PROVE  /\ Nodes' = Nodes /\ Lines' = Lines /\ Calls' = Calls
         /\ \A n : Kind(n)' = Kind(n) /\ Ancestors(n)' = Ancestors(n)
         /\ \A n : /\ ConstTruth(n)' = ConstTruth(n)
                   /\ Collect(n)' = Collect(n) /\ CasesOf(n)' = CasesOf(n)
         /\ \A n, slot : Kids(n, slot)' = Kids(n, slot)
<1>1. Nodes' = Nodes /\ Lines' = Lines /\ Calls' = Calls
  BY DEF Nodes, Lines, Calls
<1>2. \A n : Kind(n)' = Kind(n) /\ Ancestors(n)' = Ancestors(n)
  BY DEF Kind, Ancestors
<1>3. \A n, slot : Kids(n, slot)' = Kids(n, slot)
  BY <1>1 DEF Kids
<1>4. \A n : ConstTruth(n)' = ConstTruth(n)
  BY DEF ConstTruth
<1>5. \A n : Collect(n)' = Collect(n)
  BY <1>1, <1>2 DEF Collect
<1>6. \A n : CasesOf(n)' = CasesOf(n)
  BY <1>1, <1>2, <1>5 DEF CasesOf
<1> QED
  BY <1>1, <1>2, <1>3, <1>4, <1>5, <1>6

LEMMA BodySame ==
  ASSUME prog' = prog, Body
  PROVE  Body'
<1>1. \A n : Nested(n) => Nested(n)'
  BY DEF Nested, Ancestors
<1>2. \A n : WellPlaced(n) => WellPlaced(n)'
  BY NodesSame DEF WellPlaced
<1>3. OneDefault => OneDefault'
  BY NodesSame DEF OneDefault
<1> QED
  BY <1>1, <1>2, <1>3, NodesSame DEF Body

LEMMA GeneratingSame ==
  ASSUME prog' = prog, NEW u, Generating(u)
  PROVE  Generating(u)'
<1>1. /\ Nodes' = Nodes /\ Lines' = Lines /\ Calls' = Calls
      /\ \A n : Kind(n)' = Kind(n) /\ Ancestors(n)' = Ancestors(n)
      /\ \A n : /\ ConstTruth(n)' = ConstTruth(n)
                /\ Collect(n)' = Collect(n) /\ CasesOf(n)' = CasesOf(n)
      /\ \A n, slot : Kids(n, slot)' = Kids(n, slot)
  BY NodesSame
<1>2. GenTypeOK(u)'
  BY <1>1 DEF Generating, GenTypeOK
<1>3. Path(u.calls, u.at)'
  BY <1>1 DEF Generating, Path
<1>4. Ids(u.calls, u.label_counter)'
  BY <1>1 DEF Generating, Ids, TakesId
<1>5. Stacks(u)'
  <2>1. CtxOf' = CtxOf /\ IdOf' = IdOf
    BY <1>1 DEF CtxOf, IdOf
  <2>2. \A stack, calls, kinds, entry :
          Tracks(stack, calls, kinds, entry) => Tracks(stack, calls, kinds, entry)'
    BY <1>1 DEF Tracks
  <2> QED
    BY <2>1, <2>2 DEF Generating, Stacks
<1>6. Marks(u.calls, Defs(u.code))'
  BY <1>1 DEF Generating, Marks, Opened, Due
<1>7. Numbering(u.calls, u.case_index)'
  BY <1>1 DEF Generating, Numbering
<1>8. Passed(u.calls, u.at, Defs(u.code))'
  BY <1>1 DEF Generating, Passed, LabelIn
<1>9. Targets(u.calls, u.at, Defs(u.code), Jumps(u.code))'
  <2>1. \A c, l : Due(c, l) => Due(c, l)'
    BY <1>1 DEF Due
  <2>2. \A l : DeadLabel(l) => DeadLabel(l)'
    <3>1. \A c : InDeadArm(c) => InDeadArm(c)'
      BY <1>1 DEF InDeadArm
    <3> QED
      BY <1>1, <3>1 DEF DeadLabel
  <2>3. \A calls, at, l : Awaited(calls, at, l) => Awaited(calls, at, l)'
    <3>1. \A calls, at, c : Ahead(calls, at, c) => Ahead(calls, at, c)'
      BY <1>1 DEF Ahead, ElsePending
    <3>2. \A n, id, c : LabelIn(n, id, c)' = LabelIn(n, id, c)
      BY <1>1 DEF LabelIn
    <3> QED
      BY <1>1, <3>1, <3>2 DEF Awaited
  <2> QED
    BY <2>1, <2>2, <2>3 DEF Generating, Targets
<1> QED
  BY <1>2, <1>3, <1>4, <1>5, <1>6, <1>7, <1>8, <1>9 DEF Generating

LEMMA DoneSame ==
  ASSUME prog' = prog, NEW u, Done(u)
  PROVE  Done(u)'
<1>1. /\ Nodes' = Nodes /\ Lines' = Lines
      /\ \A n : Kind(n)' = Kind(n) /\ Ancestors(n)' = Ancestors(n)
  BY NodesSame
<1>2. \A c : InDeadArm(c) => InDeadArm(c)'
  BY <1>1 DEF InDeadArm
<1>3. \A l : DeadLabel(l) => DeadLabel(l)'
  BY <1>1, <1>2 DEF DeadLabel
<1> QED
  BY <1>1, <1>3 DEF Done

LEMMA StartKeeps ==
  ASSUME Body, StartFunc
  PROVE  Generating(g)'
<1> DEFINE x == [node |-> 0, slot |-> "body", id |-> 0]
<1>1. g' = Call(GenInit, 0, "body", 0) /\ prog' = prog
  BY DEF StartFunc
<1>2. PICK u : u = Call(GenInit, 0, "body", 0)
  OBVIOUS
<1>3. x \in Calls /\ Nodes = 1..Len(prog) /\ Len(prog) \in Nat
  BY DEF Calls, Body, Nodes
<1>4. u = [code |-> <<>>, label_counter |-> 0, break |-> <<>>,
           continue |-> <<>>, switch |-> <<>>,
           case_index |-> [n \in Nodes |-> 0], error |-> FALSE,
           calls |-> <<x>>, at |-> 0, ends |-> FALSE]
  <2> DEFINE index == [n \in Nodes |-> 0]
             calls == Append(<<>>, x)
             init == [code |-> <<>>, label_counter |-> 0, break |-> <<>>,
                      continue |-> <<>>, switch |-> <<>>,
                      case_index |-> index, error |-> FALSE,
                      calls |-> <<>>, at |-> 0, ends |-> FALSE]
  <2>1. calls = <<x>>
    OBVIOUS
  <2>2. u = [init EXCEPT !.calls = calls, !.ends = FALSE]
    BY <1>2 DEF Call, GenInit
  <2> HIDE DEF index, calls
  <2>3. u = [code |-> <<>>, label_counter |-> 0, break |-> <<>>,
             continue |-> <<>>, switch |-> <<>>,
             case_index |-> index, error |-> FALSE,
             calls |-> calls, at |-> 0, ends |-> FALSE]
    BY ONLY <2>2
  <2> QED
    BY <2>1, <2>3 DEF index
<1>5. <<x>> \in Seq(Calls) /\ DOMAIN <<x>> = {1} /\ <<x>>[1] = x /\ Len(<<x>>) = 1
  BY <1>3
<1>6. x.node = 0 /\ Kind(0) = "function" /\ Ancestors(0) = {} /\ x.id = 0 /\ x.slot = "body"
  BY DEF Kind, Ancestors
<1>7. GenTypeOK(u)
  BY <1>3, <1>4, <1>5 DEF GenTypeOK
<1>8. u.calls = <<x>> /\ u.at = 0 /\ u.code = <<>> /\ ~u.ends
      /\ u.break = <<>> /\ u.continue = <<>> /\ u.switch = <<>>
  BY <1>4
<1>0. x = [node |-> 0, slot |-> "body", id |-> 0]
  OBVIOUS
<1> HIDE DEF x
<1>9. Path(<<x>>, 0)
  <2>1. {<<x>>[j].node : j \in 1..(1 - 1)} = {} /\ Cardinality({}) = 0
    BY FS_EmptySet
  <2>2. "function" \notin Leaves
    BY DEF Leaves, Labels
  <2> QED
    BY <1>0, <1>5, <1>6, <2>1, <2>2 DEF Path
<1>10. ~TakesId(x)
  BY <1>6 DEF TakesId, Breakable, Loops
<1>11. Ids(<<x>>, u.label_counter)
  BY <1>5, <1>10 DEF Ids
<1>12. \A kinds, entry : "function" \notin kinds => Tracks(<<>>, <<x>>, kinds, entry)
  <2> SUFFICES ASSUME NEW kinds, NEW entry, "function" \notin kinds
               PROVE  Tracks(<<>>, <<x>>, kinds, entry)
    OBVIOUS
  <2> DEFINE f == [i \in {} |-> 1]
  <2>1. DOMAIN <<>> = {} /\ f \in [{} -> {1}]
    OBVIOUS
  <2>2. \A j \in DOMAIN <<x>> : Kind(<<x>>[j].node) \notin kinds
    BY <1>5, <1>6
  <2> QED
    BY <1>5, <2>1, <2>2 DEF Tracks
<1>13. Stacks(u)
  <2>1. "function" \notin Breakable /\ "function" \notin Loops /\ "function" \notin {"switch"}
    BY DEF Breakable, Loops
  <2> QED
    BY <1>8, <1>12, <2>1 DEF Stacks
<1>14. Defs(<<>>) = {} /\ Jumps(<<>>) = {} /\ DefinedOnce(<<>>)
  BY DEF Defs, Jumps, DefinedOnce
<1>15. Marks(<<x>>, {})
  BY <1>5, <1>10, DueIs DEF Marks
<1>16. Kind(x.node) /= "switch"
  BY <1>6
<1>17. Numbering(<<x>>, u.case_index) /\ Passed(<<x>>, 0, {})
  BY <1>5, <1>16 DEF Numbering, Passed
<1>18. Targets(<<x>>, 0, {}, {}) /\ Bounded({} \cup {}, u.label_counter)
  BY DEF Targets, Bounded
<1>19. Generating(u)
  BY <1>7, <1>8, <1>9, <1>11, <1>13, <1>14, <1>15, <1>17, <1>18 DEF Generating
<1>20. Generating(u)'
  BY <1>1, <1>19, GeneratingSame
<1> QED
  BY ONLY <1>1, <1>2, <1>20

LEMMA GenStmtKeeps ==
  ASSUME Body, Generating(g), GenStmt
  PROVE  Generating(g)'
<1> DEFINE n == Min(Rest)
           b == [g EXCEPT !.at = n, !.ends = FALSE]
<1>1. g' = GenStmtOne(b, n) /\ prog' = prog /\ Rest /= {}
  BY DEF GenStmt
<1>2. g.calls \in Seq(Calls) /\ g.calls /= <<>> /\ Nodes \subseteq Nat
  BY Begins
<1>3. Top = g.calls[Len(g.calls)]
  BY <1>2 DEF Top, Last
<1>4. Rest \subseteq Nat /\ Rest \subseteq Nodes
  BY <1>2 DEF Rest, Kids
<1>5. n \in Rest /\ \A c \in Rest : n <= c
  BY <1>1, <1>4, MinIs
<1> HIDE DEF n
<1>6. Comes(g.calls, g.at, n)
  <2>1. /\ n \in Nodes /\ n > g.at /\ prog[n].up = Top.node /\ prog[n].slot = Top.slot
        /\ \A c \in Kids(Top.node, Top.slot) : c > g.at => n <= c
    BY <1>5 DEF Rest, Kids
  <2> QED
    BY <1>3, <2>1 DEF Comes
<1>7. Begun(g, n, b)
  BY <1>6 DEF Begun
<1> HIDE DEF b
<1>8. Generating(GenStmtOne(b, n))
  BY <1>7, StmtKeeps
<1>9. PICK u : u = GenStmtOne(b, n)
  OBVIOUS
<1>10. Generating(u)
  BY <1>8, <1>9
<1>11. Generating(u)'
  BY <1>1, <1>10, GeneratingSame
<1> QED
  BY ONLY <1>1, <1>9, <1>11

LEMMA EndChainKeeps ==
  ASSUME Body, Generating(g), EndChain
  PROVE  Generating(g)'
<1> DEFINE r == [g EXCEPT !.calls = Front(@), !.ends = @ /\ PassesOn(Kind(Top.node))]
<1>1. g' = EndStmt(r, Top) /\ prog' = prog /\ Rest = {} /\ Top.node /= 0
  BY DEF EndChain
<1>2. g.calls \in Seq(Calls) /\ g.calls /= <<>> /\ g.at \in Nat /\ Nodes \subseteq Nat
  BY Begins
<1>3. Top = g.calls[Len(g.calls)]
  BY <1>2 DEF Top, Last
<1>4. Walked(g)
  <2>1. \A c \in Kids(Top.node, Top.slot) : c <= g.at
    BY <1>1, <1>2 DEF Rest, Kids
  <2> QED
    BY <1>1, <1>3, <2>1 DEF Walked
<1>5. Returning(g, Top, r)
  BY <1>3, <1>4 DEF Returning
<1> HIDE DEF r
<1>6. Generating(EndStmt(r, Top))
  BY <1>5, EndStmtKeeps
<1>7. PICK u : u = EndStmt(r, Top)
  OBVIOUS
<1>8. Generating(u)
  BY <1>6, <1>7
<1>9. Generating(u)'
  BY <1>1, <1>8, GeneratingSame
<1> QED
  BY ONLY <1>1, <1>7, <1>9

(* gen_func() is through when nothing is pending but its own call: then no      *)
(* label is due, and no target is left.                                     *)
LEMMA EndFuncKeeps ==
  ASSUME Body, Generating(g), EndFunc
  PROVE  Done(g)' /\ Returned(g'.code)
<1> DEFINE lines == IF g.ends THEN <<>> ELSE <<Eval(0, "end"), Ret>>
           e == [g EXCEPT !.calls = <<>>]
<1>1. g' = Emit(e, lines) /\ prog' = prog /\ Rest = {} /\ Top.node = 0
  BY DEF EndFunc
<1>2. /\ g.calls \in Seq(Calls) /\ g.calls /= <<>> /\ g.at \in 0..Len(prog)
      /\ Path(g.calls, g.at) /\ g.code \in Seq(Lines)
      /\ g.break \in Seq(Ctx) /\ g.continue \in Seq(Ctx) /\ g.switch \in Seq(Nat)
      /\ g.label_counter \in Nat
      /\ Adds(g.code, Defs(g.code), Jumps(g.code))
  BY Begins
<1>3. \A i \in DOMAIN g.calls : i = Len(g.calls) /\ Kind(g.calls[i].node) = "function"
  <2>1. Top = g.calls[Len(g.calls)]
    BY <1>2 DEF Top, Last
  <2>3. DOMAIN g.calls = 1..Len(g.calls) /\ Len(g.calls) \in Nat /\ Len(g.calls) \in DOMAIN g.calls
    BY <1>2
  <2>4. \A i \in DOMAIN g.calls : i > 1 => g.calls[i].node /= 0
    BY <1>2 DEF Path
  <2>5. g.calls[Len(g.calls)].node = 0
    BY <1>1, <2>1
  <2>6. ~(Len(g.calls) > 1)
    BY ONLY <2>3, <2>4, <2>5
  <2>7. Len(g.calls) \in 1..Len(g.calls) /\ Len(g.calls) \in Nat
    BY <2>3
  <2>2. Len(g.calls) = 1
    <3>1. \A k \in Nat : k \in 1..k /\ ~(k > 1) => k = 1
      OBVIOUS
    <3> QED
      BY ONLY <2>6, <2>7, <3>1
  <2> QED
    BY <1>1, <2>1, <2>2, <2>3 DEF Kind
<1>4. /\ Tracks(g.break, g.calls, Breakable, CtxOf) /\ Tracks(g.continue, g.calls, Loops, CtxOf)
      /\ Tracks(g.switch, g.calls, {"switch"}, IdOf)
  BY DEF Generating, Stacks
<1>5. g.break = <<>> /\ g.continue = <<>> /\ g.switch = <<>>
  <2>1. /\ \A i \in DOMAIN g.calls : Kind(g.calls[i].node) \notin Breakable
        /\ \A i \in DOMAIN g.calls : Kind(g.calls[i].node) \notin Loops
        /\ \A i \in DOMAIN g.calls : Kind(g.calls[i].node) \notin {"switch"}
    BY <1>3 DEF Breakable, Loops
  <2> QED
    BY ONLY <1>2, <1>4, <2>1, TracksNone
<1>6. \A l \in Jumps(g.code) : l \in Defs(g.code) \/ DeadLabel(l)
  <2>1. Targets(g.calls, g.at, Defs(g.code), Jumps(g.code))
    BY DEF Generating
  <2>2. \A i \in DOMAIN g.calls : \A l : ~Due(g.calls[i], l)
    BY <1>3, DueIs DEF TakesId, Breakable, Loops
  <2>3. \A l : ~Awaited(g.calls, g.at, l)
    BY <1>3 DEF Awaited
  <2> QED
    BY ONLY <2>1, <2>2, <2>3 DEF Targets
<1>7. Adds(lines, {}, {})
  <2>1. Len(prog) \in Nat /\ 0 \in 0..Len(prog) /\ "end" \in Parts
    BY DEF Body, Parts
  <2>2. Adds(<<Eval(0, "end")>>, {}, {}) /\ Adds(<<Ret>>, {}, {})
    BY <2>1, AddsLines
  <2>3. <<Eval(0, "end"), Ret>> = <<Eval(0, "end")>> \o <<Ret>>
    BY Pairs
  <2>4. {} \cap {} = {} /\ {} = {} \cup {}
    OBVIOUS
  <2>5. Adds(<<Eval(0, "end")>> \o <<Ret>>, {}, {})
    BY ONLY <2>2, <2>4, AddsThen
  <2> QED
    BY <2>3, <2>5, AddsNone
<1>8. Returned(g.code \o lines)
  <2>1. CASE g.ends
    <3>1. g.code \o lines = g.code
      BY <1>2, <2>1
    <3> QED
      BY <2>1, <3>1 DEF Generating
  <2>2. CASE ~g.ends
    <3>1. Returned(lines) /\ lines \in Seq(Lines)
      BY <1>7, <2>2 DEF Returned, Adds
    <3> QED
      BY <1>2, <3>1, ReturnedAfter
  <2> QED
    BY <2>1, <2>2
<1> HIDE DEF lines
<1>9. Adds(g.code \o lines, Defs(g.code), Jumps(g.code))
  <2>1. Defs(g.code) \cap {} = {} /\ Defs(g.code) = Defs(g.code) \cup {}
        /\ Jumps(g.code) = Jumps(g.code) \cup {}
    OBVIOUS
  <2> QED
    BY ONLY <1>2, <1>7, <2>1, AddsThen
<1>10. GenTypeOK(g)
  BY DEF Generating
<1>11. /\ Emit(e, lines).code = g.code \o lines
       /\ Emit(e, lines).label_counter = g.label_counter
       /\ Emit(e, lines).break = g.break /\ Emit(e, lines).continue = g.continue
       /\ Emit(e, lines).switch = g.switch /\ Emit(e, lines).error = FALSE
  BY <1>10 DEF Emit, GenTypeOK
<1>12. PICK u : u = Emit(e, lines)
  OBVIOUS
<1> HIDE DEF e
<1>13. /\ u.code = g.code \o lines /\ u.label_counter = g.label_counter
       /\ u.break = g.break /\ u.continue = g.continue
       /\ u.switch = g.switch /\ u.error = FALSE
  BY <1>11, <1>12
<1>14. Bounded(Defs(g.code) \cup Jumps(g.code), g.label_counter)
  BY DEF Generating
<1>15. /\ u.code \in Seq(Lines) /\ DefinedOnce(u.code)
       /\ Defs(u.code) = Defs(g.code) /\ Jumps(u.code) = Jumps(g.code)
  BY <1>9, <1>13 DEF Adds
<1>16. Done(u)
  BY ONLY <1>2, <1>5, <1>6, <1>13, <1>14, <1>15 DEF Done
<1>17. Done(u)'
  BY <1>1, <1>16, DoneSame
<1> QED
  BY ONLY <1>1, <1>8, <1>12, <1>13, <1>17

(***************************************************************************)
(* The run.                                                                *)
(***************************************************************************)
(* What a line may hold, by what it is.                                     *)
LEMMA LinesHave ==
  ASSUME NEW line \in Lines
  PROVE  /\ line.op \in {"label", "jmp", "je", "jne", "eval", "ret"}
         /\ line.op \in {"label", "jmp", "je", "jne"} => line.label \in LabelSet
         /\ line.op = "eval" => line.point \in (0..Len(prog)) \X Parts
         /\ line.op = "ret" => line = Ret
BY DEF Lines, Ret

(* A line that is not the last is followed by another.                       *)
LEMMA NextLine ==
  ASSUME NEW code \in Seq(Lines), Returned(code), NEW i \in DOMAIN code, code[i].op /= "ret"
  PROVE  i + 1 \in DOMAIN code
<1>1. Len(code) \in Nat /\ DOMAIN code = 1..Len(code) /\ i \in 1..Len(code) /\ i \in Nat
  OBVIOUS
<1>2. code[Len(code)].op = "ret"
  BY DEF Returned, Ret
<1>3. i /= Len(code)
  BY <1>2
<1> QED
  BY <1>1, <1>3

LEMMA RunKeeps ==
  ASSUME IInv, Run
  PROVE  /\ pc' \in Nat /\ rax' \in Nat /\ UNCHANGED <<prog, g>>
         /\ pc' \in DOMAIN g.code
         /\ phase = "run" /\ phase' \in {"run", "returned"}
<1>1. /\ phase = "run"
      /\ g.code \in Seq(Lines) /\ Returned(g.code) /\ pc \in DOMAIN g.code
      /\ Jumps(g.code) \subseteq Defs(g.code) /\ pc \in Nat /\ rax \in Nat
  <2>1. phase = "run"
    BY DEF Run, RunEval, RunLabel, RunJump, RunRet, Running
  <2> QED
    BY <2>1 DEF IInv, Done
<1>2. Line \in Lines /\ DOMAIN g.code \subseteq Nat
  BY <1>1 DEF Line
<1>3. Line.op /= "ret" => pc + 1 \in DOMAIN g.code /\ pc + 1 \in Nat
  BY <1>1, NextLine DEF Line
<1>4. CASE RunEval
  <2>1. Line.op = "eval" /\ pc' = pc + 1 /\ UNCHANGED <<prog, phase, g>>
    BY <1>4 DEF RunEval, Running
  <2>2. rax' \in Outcomes(Line.point)
    BY <1>4 DEF RunEval
  <2>3. \A point : Outcomes(point) \subseteq Nat
    <3>1. Nodes \subseteq Nat
      BY DEF IInv, Body, Nodes
    <3> QED
      BY <3>1 DEF Outcomes
  <2> QED
    BY <1>1, <1>3, <2>1, <2>2, <2>3
<1>5. CASE RunLabel
  <2>1. Line.op = "label" /\ pc' = pc + 1 /\ UNCHANGED <<prog, phase, g, rax>>
    BY <1>5 DEF RunLabel, Running
  <2> QED
    BY <1>1, <1>3, <2>1
<1>6. CASE RunJump
  <2>1. /\ Line.op \in {"jmp", "je", "jne"} /\ UNCHANGED <<prog, phase, g, rax>>
        /\ pc' = Target(Line.label) \/ pc' = pc + 1
    BY <1>6 DEF RunJump, Running
  <2>2. Line.label \in Jumps(g.code)
    BY <1>1, <2>1 DEF Jumps, Line
  <2>3. \E i \in LabelsOf(g) : g.code[i].label = Line.label
    BY <1>1, <2>2 DEF Defs, LabelsOf
  <2>4. Target(Line.label) \in LabelsOf(g)
    BY <2>3, Zenon DEF Target
  <2>5. Target(Line.label) \in DOMAIN g.code
    BY <2>4 DEF LabelsOf
  <2>6. Line.op /= "ret"
    BY <2>1
  <2> QED
    BY <1>1, <1>2, <1>3, <2>1, <2>5, <2>6
<1>7. CASE RunRet
  BY <1>1, <1>7 DEF RunRet
<1> QED
  BY <1>4, <1>5, <1>6, <1>7 DEF Run

(***************************************************************************)
(* The invariant.                                                          *)
(***************************************************************************)
LEMMA InitHolds == Init => IInv
<1> SUFFICES ASSUME Init PROVE IInv
  OBVIOUS
<1>1. /\ prog = <<>> /\ phase = "write" /\ g = GenInit /\ pc = 1 /\ rax = 0
  BY DEF Init
<1>2. Nodes = {}
  BY <1>1 DEF Nodes
<1>3. Body
  BY <1>1, <1>2 DEF Body, OneDefault
<1>4. Defs(<<>>) = {} /\ Jumps(<<>>) = {} /\ DefinedOnce(<<>>)
  BY DEF Defs, Jumps, DefinedOnce
<1>5. /\ g.code = <<>> /\ g.label_counter = 0 /\ g.error = FALSE
      /\ g.break = <<>> /\ g.continue = <<>> /\ g.switch = <<>>
  BY <1>1 DEF GenInit
<1>6. Done(g)
  BY <1>4, <1>5 DEF Done, Bounded
<1> QED
  BY <1>1, <1>3, <1>5, <1>6 DEF IInv

(* What is written while nothing is generated leaves the generator as it is.  *)
LEMMA DoneBefore ==
  ASSUME Done(g), g.code = <<>>, UNCHANGED g
  PROVE  Done(g)'
<1>1. Defs(<<>>) = {} /\ Jumps(<<>>) = {} /\ DefinedOnce(<<>>)
  BY DEF Defs, Jumps, DefinedOnce
<1>2. PICK u : u = g
  OBVIOUS
<1>3. /\ u.label_counter \in Nat
      /\ u.break = <<>> /\ u.continue = <<>> /\ u.switch = <<>> /\ u.error = FALSE
      /\ u.code = <<>>
  BY <1>2 DEF Done
<1>4. Done(u)'
  BY <1>1, <1>3 DEF Done, Bounded
<1>5. u = g'
  BY <1>2
<1> QED
  BY ONLY <1>4, <1>5

LEMMA NextKeeps == IInv /\ [Next]_vars => IInv'
<1> SUFFICES ASSUME IInv, [Next]_vars PROVE IInv'
  OBVIOUS
<1>1. /\ Body
      /\ phase \in {"write", "generate", "run", "returned", "failed", "unlinkable"}
      /\ pc \in Nat /\ rax \in Nat
      /\ phase = "write" => g.code = <<>>
      /\ phase \in {"write", "generate"} => pc = 1
      /\ phase = "generate" => Generating(g)
      /\ phase /= "generate" => Done(g)
      /\ phase = "run" => /\ Returned(g.code) /\ pc \in DOMAIN g.code
                          /\ Jumps(g.code) \subseteq Defs(g.code)
  BY DEF IInv
<1>2. ASSUME prog' = prog, g' = g, phase /= "generate" PROVE Done(g)'
  <2>1. PICK u : u = g
    OBVIOUS
  <2>2. Done(u) /\ u = g'
    BY <1>1, <1>2, <2>1
  <2>3. Done(u)'
    BY <1>2, <2>2, DoneSame
  <2> QED
    BY ONLY <2>2, <2>3
<1>3. CASE \E kind \in Kinds : WriteStmt(kind)
  <2>1. PICK kind \in Kinds : WriteStmt(kind)
    BY <1>3
  <2>2. phase = "write" /\ UNCHANGED <<phase, g, pc, rax>>
    BY <2>1 DEF WriteStmt
  <2>3. Body'
    BY <1>1, <2>1, WriteKeeps
  <2>4. Done(g)'
    BY <1>1, <2>2, DoneBefore
  <2> QED
    BY <1>1, <2>2, <2>3, <2>4 DEF IInv
<1>4. CASE TooDeep
  <2>1. phase = "write" /\ phase' = "failed" /\ UNCHANGED <<prog, g, pc, rax>>
    BY <1>4 DEF TooDeep
  <2>2. Body' /\ Done(g)'
    BY <1>1, <1>2, <2>1, BodySame
  <2> QED
    BY <1>1, <2>1, <2>2 DEF IInv
<1>5. CASE StartFunc
  <2>1. phase = "write" /\ phase' = "generate" /\ UNCHANGED <<prog, pc, rax>>
    BY <1>5 DEF StartFunc
  <2>2. Body' /\ Generating(g)'
    BY <1>1, <1>5, <2>1, BodySame, StartKeeps
  <2> QED
    BY <1>1, <2>1, <2>2 DEF IInv
<1>6. CASE GenStmt \/ EndChain
  <2>1. phase = "generate" /\ UNCHANGED <<prog, phase, pc, rax>>
    BY <1>6 DEF GenStmt, EndChain
  <2>2. Body' /\ Generating(g)'
    BY <1>1, <1>6, <2>1, BodySame, GenStmtKeeps, EndChainKeeps
  <2> QED
    BY <1>1, <2>1, <2>2 DEF IInv
<1>7. CASE EndFunc
  <2>1. phase = "generate" /\ UNCHANGED <<prog, pc, rax>>
        /\ phase' = CASE g'.error -> "failed"
                      [] ~g'.error /\ (Missing(g') /= {} \/ ~Unique(g')) -> "unlinkable"
                      [] OTHER -> "run"
    BY <1>7 DEF EndFunc
  <2>2. Body' /\ Done(g)' /\ Returned(g'.code)
    BY <1>1, <1>7, <2>1, BodySame, EndFuncKeeps
  <2>3. g'.error = FALSE /\ g'.code \in Seq(Lines)'
    BY <2>2 DEF Done
  <2>4. phase' \in {"run", "unlinkable"} /\ (phase' = "run" => Missing(g') = {})
    BY <2>1, <2>3
  <2>5. phase' = "run" => Jumps(g'.code) \subseteq Defs(g'.code)
    BY <2>4 DEF Missing, Defined, JumpsOf, LabelsOf, Jumps, Defs
  <2>6. 1 \in DOMAIN g'.code
    BY <2>2, <2>3 DEF Returned
  <2>7. pc' = 1
    BY <1>1, <2>1
  <2> QED
    BY <1>1, <2>1, <2>2, <2>4, <2>5, <2>6, <2>7 DEF IInv, Returned, Jumps, Defs
<1>8. CASE Run
  <2>1. /\ pc' \in Nat /\ rax' \in Nat /\ prog' = prog /\ g' = g
        /\ pc' \in DOMAIN g.code
        /\ phase = "run" /\ phase' \in {"run", "returned"}
    BY <1>8, RunKeeps
  <2>2. Body' /\ Done(g)'
    BY <1>1, <1>2, <2>1, BodySame
  <2>3. Returned(g'.code) /\ pc' \in DOMAIN g'.code /\ Jumps(g'.code) \subseteq Defs(g'.code)
    BY <1>1, <2>1
  <2> QED
    BY <2>1, <2>2, <2>3 DEF IInv, Returned, Jumps, Defs
<1>9. CASE UNCHANGED vars
  <2>1. prog' = prog /\ phase' = phase /\ g' = g /\ pc' = pc /\ rax' = rax
    BY <1>9 DEF vars
  <2>2. Body' /\ (phase' /= "generate" => Done(g)')
    BY <1>1, <1>2, <2>1, BodySame
  <2>3. phase' = "generate" => Generating(g)'
    <3> SUFFICES ASSUME phase' = "generate" PROVE Generating(g)'
      OBVIOUS
    <3>1. PICK u : u = g
      OBVIOUS
    <3>2. Generating(u) /\ u = g'
      BY <1>1, <2>1, <3>1
    <3>3. Generating(u)'
      BY <2>1, <3>2, GeneratingSame
    <3> QED
      BY ONLY <3>2, <3>3
  <2> QED
    BY <1>1, <2>1, <2>2, <2>3 DEF IInv, Returned, Jumps, Defs
<1> QED
  BY <1>3, <1>4, <1>5, <1>6, <1>7, <1>8, <1>9 DEF Next, Generate, Stopped

(* The body is as the front end writes it, what is pending are the calls of    *)
(* the statements around the one at hand, and each pending call has its       *)
(* targets on the stacks and its labels out or to come.                     *)
THEOREM InvariantHolds == Spec => []IInv
<1> QED
  BY InitHolds, NextKeeps, PTL DEF Spec

(* Of the output at any time, whatever the generator is at.                 *)
LEMMA OutputIs ==
  ASSUME IInv
  PROVE  /\ g.code \in Seq(Lines) /\ g.label_counter \in Nat /\ g.error = FALSE
         /\ DefinedOnce(g.code)
         /\ Bounded(Defs(g.code) \cup Jumps(g.code), g.label_counter)
<1>1. CASE phase = "generate"
  <2>1. Generating(g)
    BY <1>1 DEF IInv
  <2> QED
    BY <2>1 DEF Generating, GenTypeOK
<1>2. CASE phase /= "generate"
  BY <1>2 DEF IInv, Done
<1> QED
  BY <1>1, <1>2

(* Every line is one the assembler knows, and every label in it carries a      *)
(* number that label_counter has given out, in bodies of any size.            *)
THEOREM TypeCorrect == Spec => []TypeOK
<1>1. IInv => TypeOK
  <2> SUFFICES ASSUME IInv PROVE TypeOK
    OBVIOUS
  <2>1. /\ prog \in Seq(Node)
        /\ phase \in {"write", "generate", "run", "returned", "failed", "unlinkable"}
        /\ pc \in Nat /\ rax \in Nat
    BY DEF IInv, Body
  <2>2. ASSUME NEW i \in DOMAIN g.code
        PROVE  \/ /\ g.code[i].op \in {"label", "jmp", "je", "jne"}
                  /\ g.code[i].label.id \in 0..(g.label_counter - 1)
               \/ g.code[i].op = "eval" /\ g.code[i].point[1] \in 0..Len(prog)
               \/ g.code[i] = Ret
    <3>1. g.code \in Seq(Lines) /\ g.label_counter \in Nat
          /\ Bounded(Defs(g.code) \cup Jumps(g.code), g.label_counter)
      BY OutputIs
    <3>2. g.code[i] \in Lines
      BY <3>1
    <3>3. CASE g.code[i].op \in {"label", "jmp", "je", "jne"}
      <4>1. g.code[i].label \in Defs(g.code) \cup Jumps(g.code)
        BY <3>3 DEF Defs, Jumps
      <4>2. g.code[i].label \in LabelSet
        BY <3>2, <3>3, LinesHave
      <4>3. g.code[i].label.id \in Nat /\ g.code[i].label.id < g.label_counter
        BY <3>1, <4>1, <4>2 DEF Bounded, LabelSet
      <4> QED
        BY <3>1, <3>3, <4>3
    <3>4. CASE g.code[i].op = "eval"
      BY <3>2, <3>4, LinesHave
    <3>5. CASE g.code[i].op = "ret"
      BY <3>2, <3>5, LinesHave
    <3> QED
      BY <3>2, <3>3, <3>4, <3>5, LinesHave
  <2> QED
    BY <2>1, <2>2 DEF TypeOK
<1> QED
  BY <1>1, InvariantHolds, PTL

(* On each of its ways out, however the constructs nest, every construct takes *)
(* back the targets it pushed (gen_while(), gen_do_while(), gen_for(),          *)
(* gen_switch()).                                                           *)
THEOREM StacksDrainedHolds == Spec => []StacksDrained
<1>1. IInv => StacksDrained
  BY DEF IInv, Done, StacksDrained
<1> QED
  BY <1>1, InvariantHolds, PTL

(* For every nesting limit, what the parser accepts fits the stacks of the      *)
(* generator: ctx_push_ok() never has to speak.                             *)
THEOREM NestingCaughtHolds == Spec => []NestingCaught
<1>1. IInv => NestingCaught
  BY OutputIs DEF NestingCaught
<1> QED
  BY <1>1, InvariantHolds, PTL

(* Each label is defined at one place: the numbers that label_counter gives    *)
(* out keep constructs apart, and the numbers of gen_switch() its cases.        *)
THEOREM LabelsUniqueHolds == Spec => []LabelsUnique
<1>1. IInv => LabelsUnique
  <2> SUFFICES ASSUME IInv PROVE Cardinality(Defined(g)) = Cardinality(LabelsOf(g))
    BY DEF LabelsUnique, Unique
  <2>1. g.code \in Seq(Lines) /\ DefinedOnce(g.code)
    BY OutputIs
  <2> DEFINE S == LabelsOf(g)
             T == Defined(g)
             f == [i \in S |-> g.code[i].label]
  <2>2. IsFiniteSet(S)
    <3>1. Len(g.code) \in Nat /\ DOMAIN g.code = 1..Len(g.code)
      BY <2>1
    <3>2. IsFiniteSet(1..Len(g.code))
      BY <3>1, FS_Interval
    <3>3. S \subseteq 1..Len(g.code)
      BY <3>1 DEF LabelsOf
    <3> QED
      BY <3>2, <3>3, FS_Subset
  <2>3. f \in Bijection(S, T)
    <3>1. f \in [S -> T] /\ \A t \in T : \E i \in S : f[i] = t
      BY DEF Defined
    <3>2. \A i, j \in S : f[i] = f[j] => i = j
      BY <2>1 DEF DefinedOnce, LabelsOf
    <3> HIDE DEF f, S, T
    <3>3. f \in Injection(S, T) /\ f \in Surjection(S, T)
      BY ONLY <3>1, <3>2, Zenon DEF Injection, Surjection, IsInjective
    <3> QED
      BY <3>3 DEF Bijection
  <2>4. ExistsBijection(S, T)
    BY <2>3 DEF ExistsBijection
  <2> QED
    BY <2>2, <2>4, FS_Bijection
<1> QED
  BY <1>1, InvariantHolds, PTL

(* The only jumps whose label is missing are those to a case that stands in an *)
(* arm which a literal condition left out.                                   *)
THEOREM OnlyDeadCasesMissingHolds == Spec => []OnlyDeadCasesMissing
<1>1. IInv => OnlyDeadCasesMissing
  <2> SUFFICES ASSUME IInv, phase /= "generate", NEW l \in Missing(g)
               PROVE  l.name \in Labels /\ \E c \in Nodes : Kind(c) = l.name /\ InDeadArm(c)
    BY DEF OnlyDeadCasesMissing
  <2>1. l \in Jumps(g.code) /\ l \notin Defs(g.code)
    BY DEF Missing, Defined, JumpsOf, LabelsOf, Jumps, Defs
  <2>2. DeadLabel(l)
    BY <2>1 DEF IInv, Done
  <2> QED
    BY <2>2 DEF DeadLabel
<1> QED
  BY <1>1, InvariantHolds, PTL

(* Control never runs off the end of a function: after a line that is not a    *)
(* return there is another, and every jump that runs has its target.           *)
THEOREM NeverRunsOffHolds == Spec => []NeverRunsOff
<1>1. IInv => NeverRunsOff
  BY DEF IInv, NeverRunsOff
<1> QED
  BY <1>1, InvariantHolds, PTL
=============================================================================
