---------------------------- MODULE MeaningProofs ----------------------------
(***************************************************************************)
(* The emitted code evaluates what the source says: StmtGen implements       *)
(* StmtMeaning, for bodies of any size.                                     *)
(***************************************************************************)
EXTENDS StmtGenProofs, StmtRuns

(***************************************************************************)
(* Where control is.                                                       *)
(***************************************************************************)
Reach(n) == <<n, "reach">>
After(n) == <<n, "after">>
Again(n) == <<n, "again">>
Test(n) == <<n, "test">>

Enter(n, slot) == IF Kids(n, slot) = {} THEN After(n) ELSE Reach(Min(Kids(n, slot)))

Succ(pt, v) == Meaning!Succ(pt, v)

(* Two places from which the same point is reached. *)
Same(p, q) == Meaning!Settle(Meaning!Moves)[p] = Meaning!Settle(Meaning!Moves)[q]

Defaults(n) == {c \in Collect(n) : Kind(c) = "default"}

(* The place of a label; own says which statement took a number. *)
PlaceOf(own, l) ==
  LET n == own[l.id]
  IN  CASE l.name = "else" -> Enter(n, "else")
        [] l.name \in {"loop_start", "for_start"} -> Test(n)
        [] l.name = "do_start" -> Enter(n, "body")
        [] l.name \in {"do_cont", "for_cont"} -> Again(n)
        [] l.name = "case" -> After(CaseAt(CasesOf(n), l.index))
        [] l.name = "default" -> After(Min(Defaults(n)))
        [] OTHER -> After(n)

(* The place in front of a line, for lines that have one of their own. *)
At(own, line) == IF line.op = "eval" THEN line.point ELSE PlaceOf(own, line.label)
Here(own, line, p) == line.op \in {"label", "jmp", "eval"} /\ Same(At(own, line), p)

(* What follows line i is in place p; to is the place behind the last line. *)
Leads(own, code, i, to, p) ==
  IF i < Len(code) THEN Here(own, code[i + 1], p) ELSE Same(to, p)

(* Line i is the jump of a test, which has two ways on. *)
Decides(own, code, i, to, pt) ==
  \E b \in {0, 1} :
    /\ code[i].op = (IF b = 0 THEN "je" ELSE "jne") /\ code[i].value = 0
    /\ Same(PlaceOf(own, code[i].label), Succ(pt, b))
    /\ Leads(own, code, i, to, Succ(pt, 1 - b))

(* What follows line i are the comparisons of a switch. *)
Selects(own, code, i, pt) ==
  \E k \in Nat :
    /\ i + k < Len(code)
    /\ \A j \in (i + 1)..(i + k) :
         code[j].op = "je" /\ Same(PlaceOf(own, code[j].label), Succ(pt, code[j].value))
    /\ code[i + k + 1].op = "jmp"
    /\ \A v \in Nat :
         (\A j \in (i + 1)..(i + k) : code[j].value /= v)
         => Same(PlaceOf(own, code[i + k + 1].label), Succ(pt, v))

Goes(own, code, i, to) ==
  LET line == code[i]
      pt == line.point
  IN  /\ line.op = "label" => Leads(own, code, i, to, PlaceOf(own, line.label))
      /\ line.op = "eval" =>
           /\ pt[2] \in {"expr", "init", "step"} => Leads(own, code, i, to, Succ(pt, 0))
           /\ pt[2] \in {"return", "end"} => i < Len(code) /\ code[i + 1] = Ret
           /\ pt[2] = "cond" /\ Kind(pt[1]) /= "switch" =>
                i < Len(code) /\ Decides(own, code, i + 1, to, pt)
           /\ pt[2] = "cond" /\ Kind(pt[1]) = "switch" => Selects(own, code, i, pt)

(* code takes control from place from to place to. *)
Seg(own, code, from, to) ==
  /\ IF code = <<>> THEN Same(from, to) ELSE Here(own, code[1], from)
  /\ \A i \in DOMAIN code : Goes(own, code, i, to)

(* The place that the generator has come to. *)
Facing(calls, at) ==
  LET top == calls[Len(calls)]
      rest == {c \in Kids(top.node, top.slot) : c > at}
  IN  CASE rest /= {} -> Reach(Min(rest))
        [] rest = {} /\ Kind(top.node) \in Loops -> Again(top.node)
        [] OTHER -> After(top.node)

Owns(own, calls) ==
  /\ own \in [Nat -> 0..Len(prog)]
  /\ \A i \in DOMAIN calls : TakesId(calls[i]) => own[calls[i].id] = calls[i].node

(* Each pending call was made from the field that its statement is in. *)
Threads(calls) ==
  \A i \in DOMAIN calls : i > 1 => prog[calls[i].node].slot = calls[i - 1].slot

(* The else of an if is not begun before its call is made. *)
Beside(calls, at) ==
  LET top == calls[Len(calls)]
  IN  \A k \in {at} \cup Ancestors(at) :
        k /= 0 /\ prog[k].up = top.node /\ prog[k].slot = "else" => top.slot = "else"

Follows(s, own) ==
  /\ Owns(own, s.calls)
  /\ Threads(s.calls)
  /\ Beside(s.calls, s.at)
  /\ Seg(own, s.code, Enter(0, "body"), Facing(s.calls, s.at))

(***************************************************************************)
(* The machine.                                                            *)
(***************************************************************************)
Ended(last) == last /= NotStarted /\ last[1][2] \in {"return", "end"}
Heading(last) == IF last = NotStarted THEN Enter(0, "body") ELSE Succ(last[1], last[2])

(* The value of a condition is being looked at, at line i. *)
Testing(code, i, value, last) ==
  /\ last /= NotStarted /\ last[1][2] = "cond" /\ value = last[2]
  /\ code[i].op \in {"je", "jne"}
  /\ \E e \in 1..(i - 1) :
       /\ code[e].op = "eval" /\ code[e].point = last[1]
       /\ Kind(last[1][1]) /= "switch" => e = i - 1 /\ value \in {0, 1}
       /\ Kind(last[1][1]) = "switch" =>
            \A j \in (e + 1)..(i - 1) : code[j].op = "je" /\ code[j].value /= value

(* Line i is where the run goes on that evaluated last. *)
RunsAt(own, code, i, value, last) ==
  \/ Ended(last) /\ code[i] = Ret
  \/ ~Ended(last) /\ Here(own, code[i], Heading(last))
  \/ ~Ended(last) /\ Testing(code, i, value, last)

(* What the body has to be like. *)
Testable == \A n \in Nodes : Kind(n) \in {"while", "do"} => prog[n].cond /= "none"
Finished == \A n \in Nodes : Kind(n) \in OneBody => Kids(n, "body") /= {}

MInv ==
  /\ IInv
  /\ Testable
  /\ phase \in {"write", "generate"} => seen = NotStarted
  /\ phase = "generate" => Finished /\ \E own : Follows(g, own)
  /\ phase = "run" =>
       \E own, to : /\ Seg(own, g.code, Enter(0, "body"), to)
                   /\ RunsAt(own, g.code, pc, rax, seen)

(***************************************************************************)
(* Places settle.                                                          *)
(***************************************************************************)
Chosen(S) == CHOOSE q : q \in S

(* The equation that defines Settle has a solution: the points that belong to *)
(* every set which holds the place and is closed under the moves.            *)
LEMMA SettleIs ==
  ASSUME NEW P, NEW moves \in [P -> P]
  PROVE  \A p \in P : Meaning!Settle(moves)[p] =
           IF p[2] \in Parts THEN p ELSE Meaning!Settle(moves)[moves[p]]
<1> DEFINE Closed(C) == \A x \in C : x[2] \notin Parts => moves[x] \in C
           R(p) == {q \in P : /\ q[2] \in Parts
                              /\ \A C \in SUBSET P : p \in C /\ Closed(C) => q \in C}
           f == [p \in P |-> Chosen(R(p))]
<1>1. ASSUME NEW p \in P, p[2] \in Parts PROVE f[p] = p
  <2>1. p \in R(p)
    BY <1>1
  <2>2. ASSUME NEW q \in R(p) PROVE q = p
    <3>1. {p} \in SUBSET P /\ p \in {p} /\ Closed({p})
      BY <1>1
    <3> QED
      BY <2>2, <3>1
  <2>3. R(p) = {p}
    BY <2>1, <2>2
  <2>4. Chosen({p}) = p
    BY DEF Chosen
  <2> QED
    BY <2>3, <2>4
<1>2. ASSUME NEW p \in P, p[2] \notin Parts PROVE f[p] = f[moves[p]]
  <2>1. moves[p] \in P
    OBVIOUS
  <2>2. ASSUME NEW q \in R(p) PROVE q \in R(moves[p])
    <3>1. ASSUME NEW C \in SUBSET P, moves[p] \in C, Closed(C) PROVE q \in C
      <4>1. C \cup {p} \in SUBSET P /\ Closed(C \cup {p})
        BY <1>2, <3>1
      <4>2. q \in C \cup {p}
        BY <2>2, <4>1
      <4>3. q /= p
        BY <1>2, <2>2
      <4> QED
        BY <4>2, <4>3
    <3> QED
      BY <2>2, <3>1
  <2>3. ASSUME NEW q \in R(moves[p]) PROVE q \in R(p)
    BY <1>2, <2>3
  <2>4. R(p) = R(moves[p])
    BY <2>2, <2>3
  <2> HIDE DEF R
  <2> QED
    BY <2>1, <2>4
<1>3. f = [p \in DOMAIN moves |-> IF p[2] \in Meaning!Points THEN p ELSE f[moves[p]]]
  <2>1. DOMAIN moves = P /\ Meaning!Points = Parts
    BY DEF Meaning!Points, Parts
  <2>2. f = [p \in P |-> IF p[2] \in Parts THEN p ELSE f[moves[p]]]
    <3>1. DOMAIN f = P /\ f = [p \in P |-> f[p]]
      OBVIOUS
    <3> HIDE DEF f
    <3> QED
      BY <1>1, <1>2, <3>1
  <2> QED
    BY <2>1, <2>2
<1> HIDE DEF f
<1> DEFINE s == Meaning!Settle(moves)
<1>4. s = [p \in DOMAIN moves |-> IF p[2] \in Meaning!Points THEN p ELSE s[moves[p]]]
  BY <1>3 DEF Meaning!Settle
<1> HIDE DEF s
<1>5. DOMAIN moves = P /\ Meaning!Points = Parts
  BY DEF Meaning!Points, Parts
<1>6. \A p \in P : s[p] = IF p[2] \in Parts THEN p ELSE s[moves[p]]
  BY <1>4, <1>5
<1> QED
  BY <1>6 DEF s

(***************************************************************************)
(* The rules of StmtMeaning, on the tree that StmtGen reads.                *)
(***************************************************************************)
Places == (0..Len(prog)) \X ({"reach", "after", "again", "test"} \cup Parts)

LEMMA SameTree ==
  /\ Meaning!Nodes = Nodes /\ Meaning!Places = Places
  /\ \A n : Meaning!Kind(n) = Kind(n) /\ Meaning!Ancestors(n) = Ancestors(n)
  /\ \A n, slot : Meaning!Kids(n, slot) = Kids(n, slot) /\ Meaning!Enter(n, slot) = Enter(n, slot)
  /\ \A n, kinds : Meaning!Innermost(n, kinds) = Innermost(n, kinds)
  /\ Meaning!Breakable = Breakable /\ Meaning!Loops = Loops /\ Meaning!Labels = Labels
  /\ \A n : /\ Meaning!Reach(n) = Reach(n) /\ Meaning!After(n) = After(n)
            /\ Meaning!Again(n) = Again(n) /\ Meaning!Test(n) = Test(n)
  /\ \A S : Meaning!Min(S) = Min(S) /\ Meaning!Max(S) = Max(S)
<1>1. \A S : Meaning!Min(S) = Min(S) /\ Meaning!Max(S) = Max(S)
  BY DEF Meaning!Min, Meaning!Max, Min, Max
<1>2. Meaning!Breakable = Breakable /\ Meaning!Loops = Loops /\ Meaning!Labels = Labels
  BY DEF Meaning!Breakable, Meaning!Loops, Meaning!Labels, Breakable, Loops, Labels
<1>3. Meaning!Nodes = Nodes /\ \A n : Meaning!Kind(n) = Kind(n) /\ Meaning!Ancestors(n) = Ancestors(n)
  BY DEF Meaning!Nodes, Meaning!Kind, Meaning!Ancestors, Nodes, Kind, Ancestors
<1>4. \A n, slot : Meaning!Kids(n, slot) = Kids(n, slot)
  BY <1>3 DEF Meaning!Kids, Kids
<1>5. \A n : /\ Meaning!Reach(n) = Reach(n) /\ Meaning!After(n) = After(n)
             /\ Meaning!Again(n) = Again(n) /\ Meaning!Test(n) = Test(n)
  BY DEF Meaning!Reach, Meaning!After, Meaning!Again, Meaning!Test, Reach, After, Again, Test
<1>6. \A n, slot : Meaning!Enter(n, slot) = Enter(n, slot)
  BY <1>1, <1>4, <1>5 DEF Meaning!Enter, Enter
<1>7. \A n, kinds : Meaning!Innermost(n, kinds) = Innermost(n, kinds)
  <2>1. ASSUME NEW n, NEW kinds PROVE Meaning!Innermost(n, kinds) = Innermost(n, kinds)
    <3>1. {a \in Meaning!Ancestors(n) : Meaning!Kind(a) \in kinds} = {a \in Ancestors(n) : Kind(a) \in kinds}
      BY <1>3
    <3> QED
      BY <1>1, <3>1 DEF Meaning!Innermost, Innermost
  <2> QED
    BY <2>1
<1>8. Meaning!Places = Places
  BY DEF Meaning!Places, Meaning!Points, Places, Parts
<1> QED
  BY <1>1, <1>2, <1>3, <1>4, <1>5, <1>6, <1>7, <1>8

LEMMA MaxIs ==
  ASSUME NEW m \in Nat, NEW S \in SUBSET (0..m), S /= {}
  PROVE  Max(S) \in S /\ \A x \in S : Max(S) >= x
<1> DEFINE T == {m - x : x \in S}
<1>1. T \in SUBSET Nat /\ T /= {}
  OBVIOUS
<1>2. Min(T) \in T /\ \A x \in T : Min(T) <= x
  <2> HIDE DEF T
  <2> QED
    BY <1>1, MinIs
<1>3. PICK y \in S : Min(T) = m - y
  BY <1>2
<1>4. ASSUME NEW x \in S PROVE y >= x
  <2>1. m - x \in T
    OBVIOUS
  <2>2. m - y <= m - x
    BY <1>2, <1>3, <2>1
  <2> QED
    BY <2>2
<1>5. S \in SUBSET Nat
  OBVIOUS
<1>6. Max(S) = y
  BY <1>3, <1>4, <1>5, MaxUnique
<1> QED
  BY <1>4, <1>6

LEMMA EnterTyped ==
  ASSUME Body, NEW n \in 0..Len(prog), NEW slot
  PROVE  /\ Enter(n, slot) \in Places
         /\ Kids(n, slot) /= {} =>
              /\ Min(Kids(n, slot)) \in Kids(n, slot)
              /\ \A c \in Kids(n, slot) : Min(Kids(n, slot)) <= c
<1>1. Len(prog) \in Nat /\ Kids(n, slot) \in SUBSET (1..Len(prog))
  BY DEF Body, Kids, Nodes
<1>2. Kids(n, slot) \in SUBSET Nat
  BY <1>1
<1>3. Kids(n, slot) /= {} => /\ Min(Kids(n, slot)) \in Kids(n, slot)
                             /\ \A c \in Kids(n, slot) : Min(Kids(n, slot)) <= c
  BY <1>2, MinIs
<1>4. Kids(n, slot) /= {} => Min(Kids(n, slot)) \in 0..Len(prog)
  BY <1>1, <1>3
<1> QED
  BY <1>3, <1>4 DEF Enter, Reach, After, Places

LEMMA InnermostTyped ==
  ASSUME Body, NEW n \in 0..Len(prog), NEW kinds
  PROVE  /\ Innermost(n, kinds) \in 0..Len(prog)
         /\ (\E a \in Ancestors(n) : Kind(a) \in kinds) =>
              /\ Innermost(n, kinds) \in Ancestors(n) /\ Kind(Innermost(n, kinds)) \in kinds
              /\ \A a \in Ancestors(n) : Kind(a) \in kinds => a <= Innermost(n, kinds)
<1> DEFINE around == {a \in Ancestors(n) : Kind(a) \in kinds}
<1>1. Len(prog) \in Nat
  BY DEF Body
<1>2. around \in SUBSET (0..Len(prog))
  BY <1>1, InsideBody
<1>3. around /= {} => Max(around) \in around /\ \A x \in around : Max(around) >= x
  <2> HIDE DEF around
  <2> QED
    BY <1>1, <1>2, MaxIs
<1>4. Innermost(n, kinds) = IF around = {} THEN 0 ELSE Max(around)
  BY DEF Innermost
<1>5. ASSUME around /= {}
      PROVE  /\ Innermost(n, kinds) \in around
             /\ \A a \in Ancestors(n) : Kind(a) \in kinds => a <= Innermost(n, kinds)
  <2>1. Innermost(n, kinds) = Max(around) /\ Max(around) \in around
    BY <1>3, <1>4, <1>5
  <2>2. ASSUME NEW a \in Ancestors(n), Kind(a) \in kinds PROVE a <= Max(around)
    <3>1. a \in around
      BY <2>2
    <3>2. Max(around) \in Int /\ a \in Int
      BY <1>1, <1>2, <2>1, <3>1
    <3> QED
      BY <1>3, <3>1, <3>2
  <2> QED
    BY <2>1, <2>2
<1>6. Innermost(n, kinds) \in 0..Len(prog)
  BY <1>1, <1>2, <1>4, <1>5
<1> QED
  BY <1>5, <1>6

LEMMA LaterTyped ==
  ASSUME Body, NEW n, NEW slot, NEW k, NEW rest, rest = {c \in Kids(n, slot) : c > k}
  PROVE  rest /= {} => /\ Min(rest) \in rest /\ Min(rest) \in Nodes /\ Min(rest) \in 0..Len(prog)
                       /\ \A c \in rest : Min(rest) <= c
<1>1. Len(prog) \in Nat /\ Nodes = 1..Len(prog) /\ rest \in SUBSET Nodes
  BY DEF Body, Kids, Nodes
<1>2. rest \in SUBSET Nat
  BY <1>1
<1> QED
  BY <1>1, <1>2, MinIs

LEMMA MovesTyped ==
  ASSUME Body
  PROVE  /\ Meaning!Moves \in [Places -> Places]
         /\ \A n \in 0..Len(prog) :
              /\ Meaning!Moves[Reach(n)] = Meaning!FromReach(n)
              /\ Meaning!Moves[After(n)] = Meaning!FromAfter(n)
              /\ Meaning!Moves[Again(n)] = Meaning!FromAgain(n)
              /\ Meaning!Moves[Test(n)] = Meaning!FromTest(n)
              /\ {Reach(n), After(n), Again(n), Test(n)} \subseteq Places
<1>1. ASSUME NEW n \in 0..Len(prog)
      PROVE  {Reach(n), After(n), Again(n), Test(n)} \subseteq Places
  BY DEF Reach, After, Again, Test, Places
<1>2. ASSUME NEW n \in 0..Len(prog), NEW part \in Parts PROVE <<n, part>> \in Places
  BY DEF Places
<1>3. ASSUME NEW n \in 0..Len(prog) PROVE Meaning!FromTest(n) \in Places
  <2>1. Enter(n, "body") \in Places
    BY EnterTyped
  <2> QED
    BY <1>1, <1>2, <2>1, SameTree DEF Meaning!FromTest, Parts
<1>4. ASSUME NEW n \in 0..Len(prog) PROVE Meaning!FromAgain(n) \in Places
  BY <1>1, <1>2, SameTree DEF Meaning!FromAgain, Parts
<1>5. ASSUME NEW n \in 0..Len(prog) PROVE Meaning!FromReach(n) \in Places
  <2>1. Enter(n, "body") \in Places /\ Enter(n, "else") \in Places
    BY EnterTyped
  <2>2. Innermost(n, Breakable) \in 0..Len(prog) /\ Innermost(n, Loops) \in 0..Len(prog)
    BY InnermostTyped
  <2>3. After(Innermost(n, Breakable)) \in Places /\ Again(Innermost(n, Loops)) \in Places
    BY <1>1, <2>2
  <2>4. \A part \in {"expr", "return", "cond", "init"} : <<n, part>> \in Places
    BY <1>2 DEF Parts
  <2>5. Test(n) \in Places /\ After(n) \in Places
    BY <1>1
  <2> QED
    BY <2>1, <2>3, <2>4, <2>5, SameTree DEF Meaning!FromReach
<1>6. ASSUME NEW n \in 0..Len(prog) PROVE Meaning!FromAfter(n) \in Places
  <2>1. CASE n = 0
    BY <1>2, <2>1 DEF Meaning!FromAfter, Meaning!End, Parts
  <2>2. CASE n /= 0
    <3> DEFINE up == prog[n].up
               later == {c \in Kids(up, prog[n].slot) : c > n}
    <3>1. Len(prog) \in Nat /\ up \in 0..Len(prog)
      BY <2>2, InsideBody DEF Body
    <3>2. later /= {} => Min(later) \in 0..Len(prog)
      BY LaterTyped
    <3>3. Meaning!FromAfter(n) = CASE later /= {} -> Reach(Min(later))
                                   [] later = {} /\ Kind(up) \in Loops -> Again(up)
                                   [] OTHER -> After(up)
      BY <2>2, SameTree DEF Meaning!FromAfter
    <3> HIDE DEF later, up
    <3> QED
      BY <1>1, <3>1, <3>2, <3>3
  <2> QED
    BY <2>1, <2>2
<1>7. \A p \in Places : p[1] \in 0..Len(prog) /\ p = <<p[1], p[2]>>
  BY DEF Places
<1>8. Meaning!Moves = [p \in Places |-> CASE p[2] = "reach" -> Meaning!FromReach(p[1])
                                          [] p[2] = "after" -> Meaning!FromAfter(p[1])
                                          [] p[2] = "again" -> Meaning!FromAgain(p[1])
                                          [] p[2] = "test" -> Meaning!FromTest(p[1])
                                          [] OTHER -> p]
  BY SameTree DEF Meaning!Moves
<1>9. Meaning!Moves \in [Places -> Places]
  BY <1>3, <1>4, <1>5, <1>6, <1>7, <1>8
<1>10. ASSUME NEW n \in 0..Len(prog)
       PROVE  /\ Meaning!Moves[Reach(n)] = Meaning!FromReach(n)
              /\ Meaning!Moves[After(n)] = Meaning!FromAfter(n)
              /\ Meaning!Moves[Again(n)] = Meaning!FromAgain(n)
              /\ Meaning!Moves[Test(n)] = Meaning!FromTest(n)
  BY <1>1, <1>8 DEF Reach, After, Again, Test
<1> QED
  BY <1>1, <1>9, <1>10

LEMMA Rests ==
  ASSUME Body
  PROVE  \A n \in 0..Len(prog) :
           /\ \A part \in Parts : Meaning!Settle(Meaning!Moves)[<<n, part>>] = <<n, part>>
           /\ Same(Reach(n), Meaning!FromReach(n))
           /\ Same(After(n), Meaning!FromAfter(n))
           /\ Same(Again(n), Meaning!FromAgain(n))
           /\ Same(Test(n), Meaning!FromTest(n))
<1> DEFINE moves == Meaning!Moves
           settled == Meaning!Settle(moves)
<1>1. moves \in [Places -> Places]
  BY MovesTyped
<1>2. \A p \in Places : settled[p] = IF p[2] \in Parts THEN p ELSE settled[moves[p]]
  <2> HIDE DEF moves
  <2> QED
    BY <1>1, SettleIs
<1>3. ASSUME NEW n \in 0..Len(prog)
      PROVE  /\ moves[Reach(n)] = Meaning!FromReach(n)
             /\ moves[After(n)] = Meaning!FromAfter(n)
             /\ moves[Again(n)] = Meaning!FromAgain(n)
             /\ moves[Test(n)] = Meaning!FromTest(n)
             /\ {Reach(n), After(n), Again(n), Test(n)} \subseteq Places
  BY MovesTyped
<1>4. \A p, q : Same(p, q) <=> settled[p] = settled[q]
  BY DEF Same
<1> HIDE DEF settled, moves
<1>5. ASSUME NEW n \in 0..Len(prog), NEW part \in Parts PROVE settled[<<n, part>>] = <<n, part>>
  <2>1. <<n, part>> \in Places
    BY DEF Places
  <2> QED
    BY <1>2, <2>1
<1>6. ASSUME NEW n \in 0..Len(prog)
      PROVE  /\ Reach(n)[2] \notin Parts /\ After(n)[2] \notin Parts
             /\ Again(n)[2] \notin Parts /\ Test(n)[2] \notin Parts
  BY DEF Reach, After, Again, Test, Parts
<1> QED
  BY <1>2, <1>3, <1>4, <1>5, <1>6 DEF settled, moves

(* What the rules say of each kind of statement. *)
LEMMA ReachIs ==
  ASSUME Body, NEW n \in Nodes
  PROVE  /\ Kind(n) \in {"expr", "return"} => Same(Reach(n), <<n, Kind(n)>>)
         /\ Kind(n) \in {"block", "do"} => Same(Reach(n), Enter(n, "body"))
         /\ Kind(n) = "if" => /\ prog[n].cond = "zero" => Same(Reach(n), Enter(n, "else"))
                              /\ prog[n].cond = "nonzero" => Same(Reach(n), Enter(n, "body"))
                              /\ ~ConstTruth(n) => Same(Reach(n), <<n, "cond">>)
         /\ Kind(n) = "while" => Same(Reach(n), Test(n))
         /\ Kind(n) = "for" => Same(Reach(n), IF prog[n].init THEN <<n, "init">> ELSE Test(n))
         /\ Kind(n) = "switch" => Same(Reach(n), <<n, "cond">>)
         /\ Kind(n) = "break" => Same(Reach(n), After(Innermost(n, Breakable)))
         /\ Kind(n) = "continue" => Same(Reach(n), Again(Innermost(n, Loops)))
         /\ Kind(n) \in {"decl"} \cup Labels => Same(Reach(n), After(n))
<1>1. n \in 0..Len(prog)
  BY DEF Body, Nodes
<1>2. Same(Reach(n), Meaning!FromReach(n))
  BY <1>1, Rests
<1>3. Meaning!FromReach(n) =
        CASE Kind(n) \in {"expr", "return"} -> <<n, Kind(n)>>
          [] Kind(n) = "block" -> Enter(n, "body")
          [] Kind(n) = "if" -> CASE prog[n].cond = "zero" -> Enter(n, "else")
                                 [] prog[n].cond = "nonzero" -> Enter(n, "body")
                                 [] OTHER -> <<n, "cond">>
          [] Kind(n) = "while" -> Test(n)
          [] Kind(n) = "do" -> Enter(n, "body")
          [] Kind(n) = "for" -> IF prog[n].init THEN <<n, "init">> ELSE Test(n)
          [] Kind(n) = "switch" -> <<n, "cond">>
          [] Kind(n) = "break" -> After(Innermost(n, Breakable))
          [] Kind(n) = "continue" -> Again(Innermost(n, Loops))
          [] OTHER -> After(n)
  BY SameTree DEF Meaning!FromReach
<1> DEFINE from == Meaning!FromReach(n)
<1> HIDE DEF from
<1>4. \A q : from = q => Same(Reach(n), q)
  BY <1>2 DEF from
<1>5. from = CASE Kind(n) \in {"expr", "return"} -> <<n, Kind(n)>>
          [] Kind(n) = "block" -> Enter(n, "body")
          [] Kind(n) = "if" -> CASE prog[n].cond = "zero" -> Enter(n, "else")
                                 [] prog[n].cond = "nonzero" -> Enter(n, "body")
                                 [] OTHER -> <<n, "cond">>
          [] Kind(n) = "while" -> Test(n)
          [] Kind(n) = "do" -> Enter(n, "body")
          [] Kind(n) = "for" -> IF prog[n].init THEN <<n, "init">> ELSE Test(n)
          [] Kind(n) = "switch" -> <<n, "cond">>
          [] Kind(n) = "break" -> After(Innermost(n, Breakable))
          [] Kind(n) = "continue" -> Again(Innermost(n, Loops))
          [] OTHER -> After(n)
  BY <1>3 DEF from
<1> QED
  BY <1>4, <1>5 DEF Labels, ConstTruth

LEMMA TestIs ==
  ASSUME Body, NEW n \in Nodes
  PROVE  /\ prog[n].cond = "zero" => Same(Test(n), After(n))
         /\ prog[n].cond = "none" => Same(Test(n), Enter(n, "body"))
         /\ prog[n].cond \notin {"zero", "none"} => Same(Test(n), <<n, "cond">>)
<1>1. n \in 0..Len(prog)
  BY DEF Body, Nodes
<1>2. Same(Test(n), Meaning!FromTest(n))
  BY <1>1, Rests
<1>3. Meaning!FromTest(n) = CASE prog[n].cond = "zero" -> After(n)
                              [] prog[n].cond = "none" -> Enter(n, "body")
                              [] OTHER -> <<n, "cond">>
  BY SameTree DEF Meaning!FromTest
<1>4. PICK from : from = Meaning!FromTest(n)
  OBVIOUS
<1> QED
  BY <1>2, <1>3, <1>4

LEMMA AgainIs ==
  ASSUME Body, NEW n \in Nodes
  PROVE  Same(Again(n), IF Kind(n) = "for" /\ prog[n].step THEN <<n, "step">> ELSE Test(n))
<1>1. n \in 0..Len(prog)
  BY DEF Body, Nodes
<1>2. Same(Again(n), Meaning!FromAgain(n))
  BY <1>1, Rests
<1>3. Meaning!FromAgain(n) = IF Kind(n) = "for" /\ prog[n].step THEN <<n, "step">> ELSE Test(n)
  BY SameTree DEF Meaning!FromAgain
<1> QED
  BY <1>2, <1>3

LEMMA SuccIs ==
  ASSUME NEW n, NEW v
  PROVE  /\ Succ(<<n, "expr">>, v) = After(n)
         /\ Succ(<<n, "init">>, v) = Test(n) /\ Succ(<<n, "step">>, v) = Test(n)
         /\ Kind(n) = "switch" => Succ(<<n, "cond">>, v) = Meaning!Select(n, v)
         /\ Kind(n) = "if" =>
              Succ(<<n, "cond">>, v) = Enter(n, IF v = 0 THEN "else" ELSE "body")
         /\ Kind(n) \in Loops =>
              Succ(<<n, "cond">>, v) = IF v = 0 THEN After(n) ELSE Enter(n, "body")
<1>1. \A part : <<n, part>>[1] = n /\ <<n, part>>[2] = part
  OBVIOUS
<1>2. Succ(<<n, "expr">>, v) = After(n)
  BY <1>1, SameTree DEF Succ, Meaning!Succ
<1>3. Succ(<<n, "init">>, v) = Test(n) /\ Succ(<<n, "step">>, v) = Test(n)
  BY <1>1, SameTree DEF Succ, Meaning!Succ
<1>4. Succ(<<n, "cond">>, v) =
        CASE Kind(n) = "switch" -> Meaning!Select(n, v)
          [] Kind(n) = "if" -> Enter(n, IF v = 0 THEN "else" ELSE "body")
          [] OTHER -> IF v = 0 THEN After(n) ELSE Enter(n, "body")
  BY <1>1, SameTree DEF Succ, Meaning!Succ
<1> QED
  BY <1>2, <1>3, <1>4 DEF Loops

(***************************************************************************)
(* The place that the generator has come to.                               *)
(***************************************************************************)
LEMMA FacingNext ==
  ASSUME Body, NEW calls, NEW at, NEW n, Comes(calls, at, n)
  PROVE  Facing(calls, at) = Reach(n)
<1> DEFINE top == calls[Len(calls)]
           rest == {c \in Kids(top.node, top.slot) : c > at}
<1>1. n \in rest /\ \A c \in rest : n <= c
  BY DEF Comes, Kids
<1>2. rest \in SUBSET Nodes /\ Nodes \subseteq Nat
  BY DEF Kids, Body, Nodes
<1>3. Min(rest) = n
  <2> HIDE DEF rest
  <2>1. Min(rest) \in rest /\ \A c \in rest : Min(rest) <= c
    BY <1>1, <1>2, MinIs
  <2>2. Min(rest) \in Nat /\ n \in Nat /\ n <= Min(rest) /\ Min(rest) <= n
    BY <1>1, <1>2, <2>1
  <2> QED
    BY <2>2
<1> QED
  BY <1>1, <1>3 DEF Facing

(* What comes behind statement n, when it is the last one begun in its chain. *)
LEMMA FacingBehind ==
  ASSUME Body, NEW n \in Nodes, NEW calls, NEW at,
         calls[Len(calls)].node = prog[n].up, calls[Len(calls)].slot = prog[n].slot,
         \A c \in Kids(prog[n].up, prog[n].slot) : c > at <=> c > n
  PROVE  Same(After(n), Facing(calls, at))
<1> DEFINE up == prog[n].up
           later == {c \in Kids(up, prog[n].slot) : c > n}
<1>1. n \in 0..Len(prog) /\ n /= 0
  BY DEF Body, Nodes
<1>2. Meaning!FromAfter(n) = CASE later /= {} -> Reach(Min(later))
                               [] later = {} /\ Kind(up) \in Loops -> Again(up)
                               [] OTHER -> After(up)
  BY <1>1, SameTree DEF Meaning!FromAfter
<1>3. later = {c \in Kids(up, prog[n].slot) : c > at}
  OBVIOUS
<1>4. Facing(calls, at) = CASE later /= {} -> Reach(Min(later))
                            [] later = {} /\ Kind(up) \in Loops -> Again(up)
                            [] OTHER -> After(up)
  BY <1>3 DEF Facing
<1>5. Facing(calls, at) = Meaning!FromAfter(n)
  BY <1>2, <1>4
<1>6. Same(After(n), Meaning!FromAfter(n))
  BY <1>1, Rests
<1> QED
  BY <1>5, <1>6

LEMMA FacingLeaf ==
  ASSUME Body, NEW calls, NEW at, NEW n, Comes(calls, at, n)
  PROVE  Same(After(n), Facing(calls, n))
<1>1. n \in Nodes /\ calls[Len(calls)].node = prog[n].up /\ calls[Len(calls)].slot = prog[n].slot
  BY DEF Comes
<1> QED
  BY <1>1, FacingBehind

LEMMA FacingInside ==
  ASSUME Body, NEW calls \in Seq(Calls), NEW x \in Calls, NEW n \in Nodes, x.node = n,
         Kind(n) \in Loops => Kids(n, x.slot) /= {}
  PROVE  Facing(Append(calls, x), n) = Enter(n, x.slot)
<1> DEFINE more == Append(calls, x)
           rest == {c \in Kids(n, x.slot) : c > n}
<1>1. Len(more) = Len(calls) + 1 /\ more[Len(calls) + 1] = x
  BY Grown
<1>2. rest = Kids(n, x.slot)
  <2>1. ASSUME NEW c \in Kids(n, x.slot) PROVE c > n
    <3>1. c \in Nodes /\ prog[c].up = n /\ c \in Nat /\ n \in Nat
      BY DEF Kids, Body, Nodes
    <3>2. Nested(c)
      BY <3>1 DEF Body
    <3> QED
      BY <3>1, <3>2 DEF Nested
  <2> QED
    BY <2>1
<1> HIDE DEF more
<1>3. Facing(more, n) = CASE rest /= {} -> Reach(Min(rest))
                         [] rest = {} /\ Kind(n) \in Loops -> Again(n)
                         [] OTHER -> After(n)
  BY <1>1 DEF Facing
<1> HIDE DEF rest
<1>4. Facing(more, n) = Enter(n, x.slot)
  BY <1>2, <1>3 DEF Enter
<1> QED
  BY <1>4 DEF more

(* The statement of the last call is over. *)
LEMMA FacingOut ==
  ASSUME Body, NEW calls \in Seq(Calls), NEW at \in 0..Len(prog), Path(calls, at),
         Threads(calls), calls[Len(calls)].node /= 0
  PROVE  Same(After(calls[Len(calls)].node), Facing(Front(calls), at))
<1> DEFINE m == Len(calls)
           n == calls[m].node
           out == Front(calls)
<1>1. /\ Len(prog) \in Nat /\ Nodes = 1..Len(prog)
      /\ m \in Nat /\ m > 0 /\ DOMAIN calls = 1..m /\ m \in DOMAIN calls
      /\ n \in 0..Len(prog) /\ n <= at
  BY PathFacts
<1>2. n \in Nodes /\ n /= 0
  BY <1>1
<1>3. /\ out \in Seq(Calls) /\ m > 1 /\ Path(out, at)
  BY PathPop
<1>4. Len(out) = m - 1 /\ out[m - 1] = calls[m - 1] /\ m - 1 \in DOMAIN calls
  <2>1. calls /= <<>>
    BY <1>1
  <2>2. Len(out) = m - 1 /\ \A i \in 1..(m - 1) : out[i] = calls[i]
    BY <2>1, FrontIs
  <2> QED
    BY <1>1, <1>3, <2>2
<1>5. prog[n].slot = calls[m - 1].slot
  BY <1>1, <1>3 DEF Threads
<1>6. prog[n].up = calls[m - 1].node
  <2>1. Ancestors(n) = {calls[j].node : j \in 1..(m - 1)}
    BY <1>1 DEF Path
  <2>2. /\ prog[n].up \in Ancestors(n) /\ prog[n].up \in 0..(n - 1)
        /\ Ancestors(prog[n].up) \subseteq 0..(prog[n].up - 1)
        /\ Ancestors(n) = {prog[n].up} \cup Ancestors(prog[n].up)
    <3>1. /\ prog[n].up \in 0..(n - 1) /\ Ancestors(n) = {prog[n].up} \cup Ancestors(prog[n].up)
      BY <1>1, <1>2, InsideBody
    <3>2. prog[n].up \in 0..Len(prog)
      BY <1>1, <1>2, <3>1
    <3>3. Ancestors(prog[n].up) \subseteq 0..(prog[n].up - 1)
      BY <3>2, InsideBody
    <3> QED
      BY <3>1, <3>3
  <2>3. PICK j \in 1..(m - 1) : prog[n].up = calls[j].node
    BY <2>1, <2>2
  <2>4. calls[m - 1].node \in Ancestors(n)
    BY <1>3, <1>1, <2>1
  <2>5. calls[m - 1].node <= prog[n].up
    <3>1. prog[n].up \in Nat
      BY <1>1, <1>2, <2>2
    <3> QED
      BY <2>2, <2>4, <3>1
  <2>6. j = m - 1 \/ j < m - 1
    <3>1. m \in Nat /\ j \in 1..(m - 1)
      BY <1>1
    <3>2. PICK k \in Nat : k = m
      BY <3>1
    <3>3. j \in 1..(k - 1)
      BY <3>1, <3>2
    <3>4. j = k - 1 \/ j < k - 1
      BY ONLY <3>3
    <3> QED
      BY <3>2, <3>4
  <2>7. j < m - 1 => calls[j].node < calls[m - 1].node
    <3>1. \A i, k \in DOMAIN calls : i < k => calls[i].node < calls[k].node
      BY DEF Path
    <3>2. j \in DOMAIN calls
      BY <1>1, <2>3
    <3> QED
      BY ONLY <1>4, <3>1, <3>2
  <2>8. calls[m - 1].node \in Nat /\ prog[n].up \in Nat
    <3>1. calls[m - 1] \in Calls /\ prog[n].up \in 0..(n - 1)
      BY <1>4, <2>2
    <3> QED
      BY <3>1, SMTT(30) DEF Calls
  <2> QED
    BY <2>3, <2>5, <2>6, <2>7, <2>8
<1>7. ASSUME NEW c \in Kids(prog[n].up, prog[n].slot) PROVE c > at <=> c > n
  <2>1. c \in Nodes /\ prog[c].up = prog[n].up
    BY DEF Kids
  <2>2. ASSUME c > n, c <= at PROVE FALSE
    <3>1. n \in {at} \cup Ancestors(at)
      BY DEF Path
    <3>2. n \in Ancestors(at) /\ c \in (n + 1)..at /\ at \in Nat
      BY <1>1, <2>1, <2>2, <3>1
    <3>3. n \in Ancestors(c)
      BY <3>2, InsideBody
    <3>4. c \in 0..Len(prog) /\ c /= 0 /\ prog[n].up \in 0..(n - 1)
      <4>1. n \in 0..Len(prog)
        BY <1>1
      <4>2. prog[n].up \in 0..(n - 1)
        BY <4>1, <1>2, InsideBody
      <4> QED
        BY <1>1, <2>1, <4>2
    <3>5. Ancestors(c) = {prog[n].up} \cup Ancestors(prog[n].up)
      BY <2>1, <3>4, InsideBody
    <3>6. Ancestors(prog[n].up) \subseteq 0..(prog[n].up - 1)
      <4>1. prog[n].up \in 0..Len(prog)
        BY <1>1, <3>4
      <4> QED
        BY <4>1, InsideBody
    <3> QED
      BY <1>1, <3>3, <3>4, <3>5, <3>6
  <2> QED
    BY <1>1, <2>1, <2>2
<1> HIDE DEF m, n, out
<1>8. Same(After(n), Facing(out, at))
  <2>1. out[Len(out)].node = prog[n].up /\ out[Len(out)].slot = prog[n].slot
    BY <1>4, <1>5, <1>6
  <2> QED
    BY <1>2, <1>7, <2>1, FacingBehind
<1> QED
  BY <1>8 DEF m, n, out

LEMMA FacingEnd ==
  ASSUME NEW calls, NEW at \in Nat, Nodes \subseteq Nat, NEW top, top = calls[Len(calls)],
         \A k \in Kids(top.node, top.slot) : k <= at
  PROVE  Facing(calls, at) = IF Kind(top.node) \in Loops THEN Again(top.node) ELSE After(top.node)
<1> DEFINE rest == {c \in Kids(top.node, top.slot) : c > at}
<1>1. rest = {}
  <2>1. \A c \in Kids(top.node, top.slot) : c \in Nat
    BY DEF Kids
  <2>2. \A c \in Kids(top.node, top.slot) : ~(c > at)
    BY <2>1
  <2> QED
    BY <2>2
<1>2. Facing(calls, at) = CASE rest /= {} -> Reach(Min(rest))
                            [] rest = {} /\ Kind(top.node) \in Loops -> Again(top.node)
                            [] OTHER -> After(top.node)
  BY DEF Facing
<1> HIDE DEF rest
<1> QED
  BY <1>1, <1>2

LEMMA FacingElse ==
  ASSUME Body, NEW calls \in Seq(Calls), NEW at \in 0..Len(prog), Path(calls, at),
         Beside(calls, at), NEW x \in Calls, Turns(calls, x)
  PROVE  Facing(Append(Front(calls), x), at) = Enter(x.node, "else")
<1> DEFINE more == Append(Front(calls), x)
           m == Len(calls)
           n == x.node
           rest == {c \in Kids(n, "else") : c > at}
<1>1. calls /= <<>>
  BY DEF Path
<1>2. more[Len(more)] = x /\ x.slot = "else" /\ Kind(n) = "if" /\ n = calls[m].node
  <2>1. Len(more) = m /\ more[m] = x
    BY <1>1, TurnedCalls
  <2>2. x.slot = "else" /\ Kind(n) = "if" /\ n = calls[m].node
    BY <1>1, TurnedCalls
  <2> QED
    BY <2>1, <2>2
<1>3. Kids(n, "else") /= {} /\ calls[m].slot = "body"
  BY <1>2 DEF Turns, ElsePending
<1>4. Len(prog) \in Nat /\ Nodes = 1..Len(prog) /\ n \in 0..Len(prog)
  BY DEF Body, Nodes, Calls
<1>5. ASSUME NEW e \in Kids(n, "else") PROVE e > at
  <2>1. e \in Nodes /\ prog[e].up = n /\ prog[e].slot = "else"
    BY DEF Kids
  <2>2. Nested(e) /\ WellPlaced(e)
    BY <2>1 DEF Body
  <2>3. e > n /\ n \in Ancestors(e) /\ Ancestors(e) = {n} \cup Ancestors(n)
    <3>1. prog[e].up \in 0..(e - 1)
      BY <2>2 DEF Nested
    <3>2. e \in 0..Len(prog) /\ e /= 0
      BY <1>4, <2>1
    <3>3. Ancestors(e) = {n} \cup Ancestors(n)
      BY <2>1, <3>2, InsideBody
    <3> QED
      BY <1>4, <2>1, <3>1, <3>3
  <2>4. SUFFICES ASSUME e <= at PROVE FALSE
    BY <1>4, <2>1
  <2>5. n \in {at} \cup Ancestors(at)
    BY <1>2 DEF Path
  <2>6. n \in Ancestors(at)
    BY <1>4, <2>1, <2>3, <2>4, <2>5
  <2>7. PICK k \in {at} \cup Ancestors(at) : k /= 0 /\ prog[k].up = n
    BY <2>6, InsideBody
  <2>8. prog[k].slot /= "else"
    BY <1>2, <1>3, <2>7 DEF Beside
  <2>9. k \in Nodes
    <3>1. Ancestors(at) \subseteq 0..(at - 1)
      BY InsideBody
    <3> QED
      BY <1>4, <2>7, <3>1
  <2>10. prog[k].slot = "body"
    <3>1. prog[k] \in Node
      BY <2>9 DEF Body, Nodes
    <3> QED
      BY <2>8, <3>1 DEF Node
  <2>11. k \in Kids(n, "body")
    BY <2>7, <2>9, <2>10 DEF Kids
  <2>12. k < e
    BY <2>1, <2>2, <2>11 DEF WellPlaced
  <2>13. k \in Ancestors(at)
    BY <1>4, <2>1, <2>4, <2>7, <2>9, <2>12
  <2>14. k \in Ancestors(e)
    <3>1. e \in (k + 1)..at
      BY <1>4, <2>1, <2>4, <2>9, <2>12
    <3> QED
      BY <2>13, <3>1, InsideBody
  <2>15. k > n
    <3>1. prog[k].up \in 0..(k - 1)
      <4>1. Nested(k)
        BY <2>9 DEF Body
      <4> QED
        BY <4>1 DEF Nested
    <3> QED
      BY <1>4, <2>7, <2>9, <3>1
  <2>16. Ancestors(n) \subseteq 0..(n - 1)
    BY <1>4, InsideBody
  <2> QED
    BY <1>4, <2>3, <2>9, <2>14, <2>15, <2>16
<1>6. rest = Kids(n, "else")
  BY <1>5
<1> HIDE DEF more, n
<1>7. Facing(more, at) = CASE rest /= {} -> Reach(Min(rest))
                           [] rest = {} /\ Kind(n) \in Loops -> Again(n)
                           [] OTHER -> After(n)
  BY <1>2 DEF Facing, n
<1>8. Facing(more, at) = Enter(n, "else")
  BY <1>3, <1>6, <1>7 DEF Enter
<1> QED
  BY <1>8 DEF more, n

(***************************************************************************)
(* Calls are made from the fields their statements are in.                  *)
(***************************************************************************)
LEMMA BesideLeaf ==
  ASSUME Body, NEW calls \in Seq(Calls), NEW at \in 0..Len(prog), Path(calls, at),
         Beside(calls, at), NEW n, Comes(calls, at, n)
  PROVE  Beside(calls, n)
<1> DEFINE top == calls[Len(calls)]
<1>1. Ancestors(n) = {calls[j].node : j \in DOMAIN calls}
  BY Coming
<1>2. \A j \in DOMAIN calls : calls[j].node \in {at} \cup Ancestors(at)
  <2>1. Len(calls) \in DOMAIN calls /\ DOMAIN calls = 1..Len(calls) /\ Len(calls) \in Nat
    BY PathFacts
  <2>2. top.node \in {at} \cup Ancestors(at)
    BY DEF Path
  <2>3. Ancestors(top.node) = {calls[j].node : j \in 1..(Len(calls) - 1)}
    BY <2>1 DEF Path
  <2>4. Ancestors(top.node) \subseteq Ancestors(at)
    <3>1. \A a \in Ancestors(at) : Ancestors(a) \subseteq Ancestors(at)
      BY InsideBody
    <3> QED
      BY <2>2, <3>1
  <2>5. ASSUME NEW j \in DOMAIN calls PROVE calls[j].node \in {at} \cup Ancestors(at)
    <3>1. j = Len(calls) \/ j \in 1..(Len(calls) - 1)
      BY <2>1
    <3> QED
      BY <2>2, <2>3, <2>4, <3>1
  <2> QED
    BY <2>5
<1>3. prog[n].up = top.node /\ prog[n].slot = top.slot
  BY DEF Comes
<1> QED
  BY <1>1, <1>2, <1>3 DEF Beside

LEMMA BesidePush ==
  ASSUME Body, NEW calls \in Seq(Calls), NEW x \in Calls, NEW n \in Nodes, x.node = n
  PROVE  Beside(Append(calls, x), n)
<1>1. Append(calls, x)[Len(Append(calls, x))] = x
  BY Grown
<1>2. n \in 0..Len(prog) /\ n \in Nat
  BY DEF Body, Nodes
<1>3. Ancestors(n) \subseteq 0..(n - 1)
  BY <1>2, InsideBody
<1>4. ASSUME NEW k \in {n} \cup Ancestors(n), k /= 0 PROVE prog[k].up /= n
  <2>1. k \in Nodes /\ k <= n /\ k \in Nat
    BY <1>2, <1>3, <1>4 DEF Body, Nodes
  <2>2. Nested(k)
    BY <2>1 DEF Body
  <2>3. prog[k].up \in 0..(k - 1)
    BY <2>2 DEF Nested
  <2> QED
    BY <1>2, <2>1, <2>3
<1> QED
  BY <1>1, <1>4 DEF Beside

LEMMA ThreadsPush ==
  ASSUME NEW calls \in Seq(Calls), calls /= <<>>, NEW x \in Calls, Threads(calls),
         prog[x.node].slot = calls[Len(calls)].slot
  PROVE  Threads(Append(calls, x))
<1> DEFINE more == Append(calls, x)
<1>1. /\ Len(calls) \in Nat /\ Len(calls) > 0 /\ DOMAIN calls = 1..Len(calls)
      /\ more[Len(calls) + 1] = x
      /\ \A i \in DOMAIN calls : more[i] = calls[i]
      /\ \A i \in DOMAIN more : i \in DOMAIN calls \/ i = Len(calls) + 1
  BY Grown, EmptySeq
<1> HIDE DEF more
<1>2. ASSUME NEW i \in DOMAIN more, i > 1 PROVE prog[more[i].node].slot = more[i - 1].slot
  <2>1. CASE i \in DOMAIN calls
    <3>1. i - 1 \in DOMAIN calls
      BY <1>1, <1>2, <2>1
    <3>2. prog[calls[i].node].slot = calls[i - 1].slot
      BY <1>2, <2>1 DEF Threads
    <3> QED
      BY <1>1, <2>1, <3>1, <3>2
  <2>2. CASE i = Len(calls) + 1
    <3>1. i - 1 = Len(calls) /\ i - 1 \in DOMAIN calls
      BY <1>1, <2>2
    <3> QED
      BY <1>1, <2>2, <3>1
  <2> QED
    BY <1>1, <2>1, <2>2
<1> QED
  BY <1>2 DEF Threads, more

LEMMA ThreadsPop ==
  ASSUME NEW calls \in Seq(Calls), calls /= <<>>, Threads(calls)
  PROVE  Threads(Front(calls))
<1> DEFINE out == Front(calls)
<1>1. /\ Len(calls) \in Nat /\ DOMAIN calls = 1..Len(calls) /\ DOMAIN out = 1..(Len(calls) - 1)
      /\ \A i \in DOMAIN out : i \in DOMAIN calls /\ out[i] = calls[i]
  BY Shrunk
<1> HIDE DEF out
<1>2. \A i \in DOMAIN out : i > 1 => i - 1 \in DOMAIN out
  BY <1>1
<1> QED
  BY <1>1, <1>2 DEF Threads, out

LEMMA ThreadsElse ==
  ASSUME NEW calls \in Seq(Calls), calls /= <<>>, Threads(calls), NEW x \in Calls,
         Turns(calls, x)
  PROVE  Threads(Append(Front(calls), x))
<1> DEFINE more == Append(Front(calls), x)
<1>1. /\ DOMAIN more = DOMAIN calls /\ DOMAIN calls = 1..Len(calls) /\ Len(calls) \in Nat
      /\ \A i \in DOMAIN calls : /\ more[i].node = calls[i].node
                                 /\ i /= Len(calls) => more[i] = calls[i]
  BY TurnedCalls
<1> HIDE DEF more
<1>2. ASSUME NEW i \in DOMAIN more, i > 1 PROVE prog[more[i].node].slot = more[i - 1].slot
  <2>1. i \in DOMAIN calls /\ i - 1 \in DOMAIN calls /\ i - 1 /= Len(calls)
    BY <1>1, <1>2
  <2>2. prog[calls[i].node].slot = calls[i - 1].slot
    BY <1>2, <2>1 DEF Threads
  <2> QED
    BY <1>1, <2>1, <2>2
<1> QED
  BY <1>2 DEF Threads, more

LEMMA BesidePop ==
  ASSUME Body, NEW calls \in Seq(Calls), NEW at \in 0..Len(prog), Path(calls, at),
         calls[Len(calls)].node /= 0, Threads(calls)
  PROVE  Beside(Front(calls), at)
<1> DEFINE m == Len(calls)
           n == calls[m].node
           out == Front(calls)
           up == calls[m - 1].node
<1>1. /\ Len(prog) \in Nat /\ Nodes = 1..Len(prog)
      /\ m \in Nat /\ m > 0 /\ DOMAIN calls = 1..m /\ m \in DOMAIN calls
      /\ n \in 0..Len(prog) /\ n <= at
      /\ \A i, j \in DOMAIN calls : i < j <=> calls[i].node < calls[j].node
  BY PathFacts
<1>2. m > 1 /\ out \in Seq(Calls)
  BY PathPop
<1>3. out[Len(out)] = calls[m - 1] /\ m - 1 \in DOMAIN calls
  <2>1. calls /= <<>>
    BY <1>1
  <2>2. Len(out) = m - 1 /\ \A i \in 1..(m - 1) : out[i] = calls[i]
    BY <2>1, FrontIs
  <2> QED
    BY <1>1, <1>2, <2>2
<1>4. up < n /\ up \in 0..Len(prog)
  <2>1. calls[m - 1] \in Calls /\ m - 1 < m
    BY <1>1, <1>3
  <2>2. up \in 0..Len(prog)
    BY <2>1 DEF Calls
  <2>3. up < n
    BY <1>1, <1>3, <2>1
  <2> QED
    BY <2>2, <2>3
<1>5. ASSUME NEW k \in {at} \cup Ancestors(at), k /= 0, prog[k].up = up PROVE k = n
  <2>1. n \in {at} \cup Ancestors(at)
    BY DEF Path
  <2>2. Ancestors(at) \subseteq 0..(at - 1)
    BY InsideBody
  <2>3. k \in Nodes /\ n \in Nodes /\ k \in Nat /\ n \in Nat
    BY <1>1, <1>5, <2>2
  <2>4. ~(n < k)
    <3> SUFFICES ASSUME n < k PROVE FALSE
      OBVIOUS
    <3>1. n \in Ancestors(k)
      <4>1. CASE k = at
        BY <1>1, <2>1, <2>3, <4>1
      <4>2. CASE k \in Ancestors(at)
        <5>1. n \in Ancestors(at)
          BY <1>1, <2>1, <2>2, <2>3, <4>2
        <5> QED
          BY <4>2, <5>1, InsideBody
      <4> QED
        BY <4>1, <4>2
    <3>2. k \in 0..Len(prog)
      BY <1>1, <2>3
    <3>3. Ancestors(k) = {up} \cup Ancestors(up) /\ Ancestors(up) \subseteq 0..(up - 1)
      <4>1. Ancestors(k) = {prog[k].up} \cup Ancestors(prog[k].up)
        BY <1>5, <3>2, InsideBody
      <4>2. Ancestors(up) \subseteq 0..(up - 1)
        BY <1>4, InsideBody
      <4> QED
        BY <1>5, <4>1, <4>2
    <3> QED
      BY <1>1, <1>4, <3>1, <3>3
  <2>5. ~(k < n)
    <3> SUFFICES ASSUME k < n PROVE FALSE
      OBVIOUS
    <3>1. k \in Ancestors(n)
      <4>1. CASE n = at
        BY <1>1, <2>3, <4>1
      <4>2. CASE n \in Ancestors(at)
        <5>1. k \in Ancestors(at)
          BY <1>1, <2>2, <2>3, <4>2
        <5> QED
          BY <4>2, <5>1, InsideBody
      <4> QED
        BY <2>1, <4>1, <4>2
    <3>2. PICK j \in 1..(m - 1) : k = calls[j].node
      <4>1. k \in {calls[j].node : j \in 1..(m - 1)}
        BY <1>1, <3>1 DEF Path
      <4> QED
        BY ONLY <4>1
    <3>3. j \in DOMAIN calls /\ j <= m - 1
      BY <1>1, <3>2
    <3>4. k <= up
      <4>1. j = m - 1 \/ j < m - 1
        <5>1. j \in 1..(m - 1) /\ m \in Nat
          BY <1>1
        <5> HIDE DEF m
        <5> QED
          BY ONLY <5>1
      <4>2. j < m - 1 => k < up
        BY <1>1, <1>3, <3>2, <3>3
      <4>3. j = m - 1 => k = up
        BY <3>2
      <4> QED
        BY <1>4, <2>3, <4>1, <4>2, <4>3
    <3>5. prog[k].up \in 0..(k - 1)
      <4>1. Nested(k)
        BY <2>3 DEF Body
      <4> QED
        BY <4>1 DEF Nested
    <3> QED
      BY <1>4, <1>5, <2>3, <3>4, <3>5
  <2> QED
    BY <2>3, <2>4, <2>5
<1>6. prog[n].slot = calls[m - 1].slot
  BY <1>1, <1>2 DEF Threads
<1> HIDE DEF m, n, out, up
<1>7. \A k \in {at} \cup Ancestors(at) :
        k /= 0 /\ prog[k].up = up /\ prog[k].slot = "else" => calls[m - 1].slot = "else"
  BY <1>5, <1>6
<1> QED
  BY <1>3, <1>7 DEF Beside, m, n, out, up

(***************************************************************************)
(* Pieces of code.                                                         *)
(***************************************************************************)
LEMMA Joined ==
  ASSUME NEW a \in Seq(Lines), NEW b \in Seq(Lines), NEW c, c = a \o b
  PROVE  /\ c \in Seq(Lines) /\ Len(a) \in Nat /\ Len(b) \in Nat /\ Len(c) = Len(a) + Len(b)
         /\ DOMAIN a = 1..Len(a) /\ DOMAIN b = 1..Len(b) /\ DOMAIN c = 1..(Len(a) + Len(b))
         /\ \A i \in DOMAIN a : c[i] = a[i]
         /\ \A i \in DOMAIN b : c[Len(a) + i] = b[i]
         /\ \A i \in DOMAIN c : i \in DOMAIN a \/ \E j \in DOMAIN b : i = Len(a) + j
         /\ a = <<>> <=> Len(a) = 0
         /\ b = <<>> <=> Len(b) = 0
<1>1. /\ c \in Seq(Lines) /\ Len(a) \in Nat /\ Len(b) \in Nat /\ Len(c) = Len(a) + Len(b)
      /\ DOMAIN a = 1..Len(a) /\ DOMAIN b = 1..Len(b) /\ DOMAIN c = 1..(Len(a) + Len(b))
      /\ \A i \in DOMAIN a : c[i] = a[i]
      /\ \A i \in DOMAIN b : c[Len(a) + i] = b[i]
  OBVIOUS
<1>2. ASSUME NEW i \in DOMAIN c PROVE i \in DOMAIN a \/ \E j \in DOMAIN b : i = Len(a) + j
  <2>1. CASE i <= Len(a)
    BY <1>1, <2>1
  <2>2. CASE i > Len(a)
    <3>1. i - Len(a) \in DOMAIN b /\ i = Len(a) + (i - Len(a))
      BY <1>1, <2>2
    <3> QED
      BY <3>1
  <2> QED
    BY <1>1, <2>1, <2>2
<1>3. (a = <<>> <=> Len(a) = 0) /\ (b = <<>> <=> Len(b) = 0)
  BY EmptySeq
<1> QED
  BY <1>1, <1>2, <1>3

LEMMA LeadsOn ==
  ASSUME NEW own, NEW a \in Seq(Lines), NEW b \in Seq(Lines), NEW q, NEW r, NEW p,
         Seg(own, b, q, r), NEW i \in DOMAIN a, Leads(own, a, i, q, p)
  PROVE  Leads(own, a \o b, i, r, p)
<1> DEFINE c == a \o b
<1>1. /\ Len(a) \in Nat /\ Len(b) \in Nat /\ Len(c) = Len(a) + Len(b)
      /\ DOMAIN a = 1..Len(a) /\ DOMAIN b = 1..Len(b)
      /\ \A j \in DOMAIN a : c[j] = a[j]
      /\ \A j \in DOMAIN b : c[Len(a) + j] = b[j]
      /\ b = <<>> <=> Len(b) = 0
  BY Joined
<1> HIDE DEF c
<1>2. CASE i < Len(a)
  <2>1. i + 1 \in DOMAIN a /\ i < Len(c)
    BY <1>1, <1>2
  <2>2. Here(own, a[i + 1], p)
    BY <1>2 DEF Leads
  <2> QED
    BY <1>1, <2>1, <2>2 DEF Leads, c
<1>3. CASE i = Len(a)
  <2>1. Same(q, p)
    BY <1>1, <1>3 DEF Leads
  <2>2. CASE b = <<>>
    <3>1. Same(q, r) /\ ~(i < Len(c))
      BY <1>1, <1>3, <2>2 DEF Seg
    <3>2. Same(r, p)
      BY <2>1, <3>1 DEF Same
    <3> QED
      BY <3>1, <3>2 DEF Leads, c
  <2>3. CASE b /= <<>>
    <3>1. Here(own, b[1], q)
      BY <2>3 DEF Seg
    <3>2. Here(own, b[1], p)
      BY <2>1, <3>1 DEF Here, Same
    <3>3. i < Len(c) /\ c[i + 1] = b[1]
      BY <1>1, <1>3, <2>3
    <3> QED
      BY <3>2, <3>3 DEF Leads, c
  <2> QED
    BY <2>2, <2>3
<1> QED
  BY <1>1, <1>2, <1>3

LEMMA LeadsIn ==
  ASSUME NEW own, NEW a \in Seq(Lines), NEW b \in Seq(Lines), NEW r, NEW p,
         NEW i \in DOMAIN b, Leads(own, b, i, r, p)
  PROVE  Leads(own, a \o b, Len(a) + i, r, p)
<1> DEFINE c == a \o b
           k == Len(a) + i
<1>1. /\ Len(a) \in Nat /\ Len(b) \in Nat /\ Len(c) = Len(a) + Len(b)
      /\ DOMAIN b = 1..Len(b)
      /\ \A j \in DOMAIN b : c[Len(a) + j] = b[j]
  BY Joined
<1> HIDE DEF c
<1>2. CASE i < Len(b)
  <2>1. i + 1 \in DOMAIN b /\ k < Len(c) /\ k + 1 = Len(a) + (i + 1)
    BY <1>1, <1>2
  <2>2. Here(own, b[i + 1], p) /\ c[k + 1] = b[i + 1]
    BY <1>1, <1>2, <2>1 DEF Leads
  <2> HIDE DEF k
  <2>3. Leads(own, c, k, r, p)
    BY <2>1, <2>2 DEF Leads
  <2> QED
    BY <2>3 DEF c, k
<1>3. CASE ~(i < Len(b))
  <2>1. Same(r, p) /\ ~(k < Len(c))
    BY <1>1, <1>3 DEF Leads
  <2> HIDE DEF k
  <2>2. Leads(own, c, k, r, p)
    BY <2>1 DEF Leads
  <2> QED
    BY <2>2 DEF c, k
<1> QED
  BY <1>2, <1>3

LEMMA GoesOn ==
  ASSUME NEW own, NEW a \in Seq(Lines), NEW b \in Seq(Lines), NEW q, NEW r,
         Seg(own, b, q, r), NEW i \in DOMAIN a, Goes(own, a, i, q)
  PROVE  Goes(own, a \o b, i, r)
<1> DEFINE c == a \o b
           line == a[i]
           pt == line.point
<1>1. /\ Len(a) \in Nat /\ Len(b) \in Nat /\ Len(c) = Len(a) + Len(b)
      /\ DOMAIN a = 1..Len(a)
      /\ \A j \in DOMAIN a : c[j] = a[j]
  BY Joined
<1>2. \A k \in DOMAIN a : \A p : Leads(own, a, k, q, p) => Leads(own, c, k, r, p)
  BY LeadsOn
<1> HIDE DEF c
<1>3. c[i] = line
  BY <1>1
<1>4. line.op = "label" => Leads(own, c, i, r, PlaceOf(own, line.label))
  BY <1>2 DEF Goes
<1>5. line.op = "eval" /\ pt[2] \in {"expr", "init", "step"} => Leads(own, c, i, r, Succ(pt, 0))
  BY <1>2 DEF Goes
<1>6. line.op = "eval" /\ pt[2] \in {"return", "end"} => i < Len(c) /\ c[i + 1] = Ret
  <2>1. i < Len(a) => i + 1 \in DOMAIN a /\ i < Len(c)
    BY <1>1
  <2> QED
    BY <1>1, <2>1 DEF Goes
<1>7. ASSUME line.op = "eval", pt[2] = "cond", Kind(pt[1]) /= "switch"
      PROVE  i < Len(c) /\ Decides(own, c, i + 1, r, pt)
  <2>1. i < Len(a) /\ Decides(own, a, i + 1, q, pt)
    BY <1>7 DEF Goes
  <2>2. i + 1 \in DOMAIN a /\ c[i + 1] = a[i + 1] /\ i < Len(c)
    BY <1>1, <2>1
  <2>3. PICK b0 \in {0, 1} :
          /\ a[i + 1].op = (IF b0 = 0 THEN "je" ELSE "jne") /\ a[i + 1].value = 0
          /\ Same(PlaceOf(own, a[i + 1].label), Succ(pt, b0))
          /\ Leads(own, a, i + 1, q, Succ(pt, 1 - b0))
    BY <2>1 DEF Decides
  <2>4. Leads(own, c, i + 1, r, Succ(pt, 1 - b0))
    BY <1>2, <2>2, <2>3
  <2> QED
    BY <2>2, <2>3, <2>4 DEF Decides
<1>8. ASSUME line.op = "eval", pt[2] = "cond", Kind(pt[1]) = "switch"
      PROVE  Selects(own, c, i, pt)
  <2>1. PICK k \in Nat :
          /\ i + k < Len(a)
          /\ \A j \in (i + 1)..(i + k) :
               a[j].op = "je" /\ Same(PlaceOf(own, a[j].label), Succ(pt, a[j].value))
          /\ a[i + k + 1].op = "jmp"
          /\ \A v \in Nat :
               (\A j \in (i + 1)..(i + k) : a[j].value /= v)
               => Same(PlaceOf(own, a[i + k + 1].label), Succ(pt, v))
    <3>1. Selects(own, a, i, pt)
      BY <1>8 DEF Goes
    <3> QED
      BY <3>1 DEF Selects
  <2>2. i + k < Len(c) /\ i + k + 1 \in DOMAIN a
    BY <1>1, <2>1
  <2>3. \A j \in (i + 1)..(i + k) : j \in DOMAIN a
    BY <1>1, <2>1
  <2>4. c[i + k + 1] = a[i + k + 1] /\ \A j \in (i + 1)..(i + k) : c[j] = a[j]
    BY <1>1, <2>2, <2>3
  <2>5. /\ \A j \in (i + 1)..(i + k) :
             c[j].op = "je" /\ Same(PlaceOf(own, c[j].label), Succ(pt, c[j].value))
        /\ c[i + k + 1].op = "jmp"
        /\ \A v \in Nat :
             (\A j \in (i + 1)..(i + k) : c[j].value /= v)
             => Same(PlaceOf(own, c[i + k + 1].label), Succ(pt, v))
    BY <2>1, <2>4
  <2> QED
    BY <2>2, <2>5 DEF Selects
<1> HIDE DEF line
<1>9. Goes(own, c, i, r)
  BY <1>3, <1>4, <1>5, <1>6, <1>7, <1>8 DEF Goes
<1> QED
  BY <1>9 DEF c

LEMMA GoesIn ==
  ASSUME NEW own, NEW a \in Seq(Lines), NEW b \in Seq(Lines), NEW r,
         NEW i \in DOMAIN b, Goes(own, b, i, r)
  PROVE  Goes(own, a \o b, Len(a) + i, r)
<1> DEFINE c == a \o b
           m == Len(a)
           line == b[i]
           pt == line.point
<1>1. /\ m \in Nat /\ Len(b) \in Nat /\ Len(c) = m + Len(b)
      /\ DOMAIN b = 1..Len(b)
      /\ \A j \in DOMAIN b : c[m + j] = b[j]
  BY Joined
<1>2. \A k \in DOMAIN b : \A p : Leads(own, b, k, r, p) => Leads(own, c, m + k, r, p)
  BY LeadsIn
<1> HIDE DEF c, m
<1>3. c[m + i] = line
  BY <1>1
<1>4. line.op = "label" => Leads(own, c, m + i, r, PlaceOf(own, line.label))
  BY <1>2 DEF Goes
<1>5. line.op = "eval" /\ pt[2] \in {"expr", "init", "step"} => Leads(own, c, m + i, r, Succ(pt, 0))
  BY <1>2 DEF Goes
<1>6. i < Len(b) => /\ i + 1 \in DOMAIN b /\ m + i < Len(c)
                    /\ m + i + 1 = m + (i + 1) /\ c[m + i + 1] = b[i + 1]
  <2>1. i < Len(b) => i + 1 \in DOMAIN b /\ m + i < Len(c) /\ m + i + 1 = m + (i + 1)
    BY <1>1
  <2> QED
    BY <1>1, <2>1
<1>7. line.op = "eval" /\ pt[2] \in {"return", "end"} => m + i < Len(c) /\ c[m + i + 1] = Ret
  BY <1>6 DEF Goes
<1>8. ASSUME line.op = "eval", pt[2] = "cond", Kind(pt[1]) /= "switch"
      PROVE  m + i < Len(c) /\ Decides(own, c, m + i + 1, r, pt)
  <2>1. i < Len(b) /\ Decides(own, b, i + 1, r, pt)
    BY <1>8 DEF Goes
  <2>2. PICK b0 \in {0, 1} :
          /\ b[i + 1].op = (IF b0 = 0 THEN "je" ELSE "jne") /\ b[i + 1].value = 0
          /\ Same(PlaceOf(own, b[i + 1].label), Succ(pt, b0))
          /\ Leads(own, b, i + 1, r, Succ(pt, 1 - b0))
    BY <2>1 DEF Decides
  <2>3. Leads(own, c, m + i + 1, r, Succ(pt, 1 - b0))
    BY <1>2, <1>6, <2>1, <2>2
  <2> QED
    BY <1>6, <2>1, <2>2, <2>3 DEF Decides
<1>9. ASSUME line.op = "eval", pt[2] = "cond", Kind(pt[1]) = "switch"
      PROVE  Selects(own, c, m + i, pt)
  <2>1. PICK k \in Nat :
          /\ i + k < Len(b)
          /\ \A j \in (i + 1)..(i + k) :
               b[j].op = "je" /\ Same(PlaceOf(own, b[j].label), Succ(pt, b[j].value))
          /\ b[i + k + 1].op = "jmp"
          /\ \A v \in Nat :
               (\A j \in (i + 1)..(i + k) : b[j].value /= v)
               => Same(PlaceOf(own, b[i + k + 1].label), Succ(pt, v))
    <3>1. Selects(own, b, i, pt)
      BY <1>9 DEF Goes
    <3> QED
      BY <3>1 DEF Selects
  <2>2. m + i + k < Len(c) /\ i + k + 1 \in DOMAIN b /\ m + i + k + 1 = m + (i + k + 1)
    BY <1>1, <2>1
  <2>3. \A j \in (i + 1)..(i + k) : j \in DOMAIN b /\ m + j \in (m + i + 1)..(m + i + k)
    BY <1>1, <2>1
  <2>4. ASSUME NEW j \in (m + i + 1)..(m + i + k)
        PROVE  j - m \in (i + 1)..(i + k) /\ j - m \in DOMAIN b /\ j = m + (j - m) /\ c[j] = b[j - m]
    <3>1. j - m \in (i + 1)..(i + k) /\ j = m + (j - m)
      BY <1>1, <2>1
    <3> QED
      BY <1>1, <2>3, <3>1
  <2>5. c[m + i + k + 1] = b[i + k + 1]
    BY <1>1, <2>2
  <2>6. \A j \in (m + i + 1)..(m + i + k) :
          c[j].op = "je" /\ Same(PlaceOf(own, c[j].label), Succ(pt, c[j].value))
    BY <2>1, <2>4
  <2>7. ASSUME NEW v \in Nat, \A j \in (m + i + 1)..(m + i + k) : c[j].value /= v
        PROVE  Same(PlaceOf(own, c[m + i + k + 1].label), Succ(pt, v))
    <3>1. \A j \in (i + 1)..(i + k) : b[j].value /= v
      BY <1>1, <2>3, <2>7
    <3> QED
      BY <2>1, <2>5, <3>1
  <2> QED
    BY <2>1, <2>2, <2>5, <2>6, <2>7 DEF Selects
<1> HIDE DEF line
<1>10. Goes(own, c, m + i, r)
  BY <1>3, <1>4, <1>5, <1>7, <1>8, <1>9 DEF Goes
<1> QED
  BY <1>10 DEF c, m

LEMMA SegBoth ==
  ASSUME NEW own, NEW a \in Seq(Lines), NEW b \in Seq(Lines), NEW p, NEW q, NEW r,
         Seg(own, a, p, q), Seg(own, b, q, r)
  PROVE  Seg(own, a \o b, p, r)
<1> DEFINE c == a \o b
<1>0. c = a \o b
  OBVIOUS
<1> HIDE DEF c
<1>1. /\ Len(a) \in Nat /\ Len(b) \in Nat /\ Len(c) = Len(a) + Len(b) /\ c \in Seq(Lines)
      /\ DOMAIN a = 1..Len(a) /\ DOMAIN b = 1..Len(b)
      /\ \A j \in DOMAIN a : c[j] = a[j]
      /\ \A j \in DOMAIN b : c[Len(a) + j] = b[j]
      /\ a = <<>> <=> Len(a) = 0
      /\ b = <<>> <=> Len(b) = 0
  BY <1>0, Joined
<1>2. ASSUME NEW i \in DOMAIN c PROVE Goes(own, c, i, r)
  <2>1. CASE i \in DOMAIN a
    <3>1. Goes(own, a, i, q)
      BY <2>1 DEF Seg
    <3> QED
      BY <2>1, <3>1, GoesOn DEF c
  <2>2. CASE \E j \in DOMAIN b : i = Len(a) + j
    <3>1. PICK j \in DOMAIN b : i = Len(a) + j
      BY <2>2
    <3>2. Goes(own, b, j, r)
      BY DEF Seg
    <3> QED
      BY <3>1, <3>2, GoesIn DEF c
  <2>3. i \in DOMAIN a \/ \E j \in DOMAIN b : i = Len(a) + j
    BY <1>0, Joined
  <2> QED
    BY <2>1, <2>2, <2>3
<1>3. IF c = <<>> THEN Same(p, r) ELSE Here(own, c[1], p)
  <2>1. c = <<>> <=> Len(c) = 0
    BY <1>1, EmptySeq
  <2>2. CASE a = <<>>
    <3>1. Same(p, q)
      BY <2>2 DEF Seg
    <3>2. CASE b = <<>>
      <4>1. Same(q, r)
        BY <3>2 DEF Seg
      <4> QED
        BY <1>1, <2>1, <2>2, <3>1, <3>2, <4>1 DEF Same
    <3>3. CASE b /= <<>>
      <4>1. Here(own, b[1], q) /\ c[1] = b[1] /\ c /= <<>>
        BY <1>1, <2>1, <2>2, <3>3 DEF Seg
      <4> QED
        BY <3>1, <4>1 DEF Here, Same
    <3> QED
      BY <3>2, <3>3
  <2>3. CASE a /= <<>>
    <3>1. Here(own, a[1], p) /\ c[1] = a[1] /\ c /= <<>>
      BY <1>1, <2>1, <2>3 DEF Seg
    <3> QED
      BY <3>1
  <2> QED
    BY <2>2, <2>3
<1>4. Seg(own, c, p, r)
  BY <1>2, <1>3 DEF Seg
<1> QED
  BY <1>4 DEF c

LEMMA SegNone ==
  ASSUME NEW own, NEW p, NEW q, Same(p, q)
  PROVE  <<>> \in Seq(Lines) /\ Seg(own, <<>>, p, q)
BY DEF Seg

LEMMA SegOne ==
  ASSUME NEW own, NEW p, NEW q, NEW x \in Lines, Here(own, x, p),
         x.op \in {"label", "jmp"}, x.op = "label" => Same(q, PlaceOf(own, x.label))
  PROVE  <<x>> \in Seq(Lines) /\ Seg(own, <<x>>, p, q)
<1> DEFINE code == <<x>>
<1>1. code \in Seq(Lines) /\ Len(code) = 1 /\ DOMAIN code = {1} /\ code[1] = x /\ code /= <<>>
  OBVIOUS
<1> HIDE DEF code
<1>2. Goes(own, code, 1, q)
  <2>1. x.op = "label" => Leads(own, code, 1, q, PlaceOf(own, x.label))
    BY <1>1 DEF Leads
  <2> QED
    BY <1>1, <2>1 DEF Goes
<1>3. code \in Seq(Lines) /\ Seg(own, code, p, q)
  BY <1>1, <1>2 DEF Seg
<1> QED
  BY <1>3 DEF code

LEMMA SegLabel ==
  ASSUME NEW own, NEW l \in LabelSet, NEW p, NEW q,
         Same(PlaceOf(own, l), p), Same(PlaceOf(own, l), q)
  PROVE  <<Label(l)>> \in Seq(Lines) /\ Seg(own, <<Label(l)>>, p, q)
<1>1. Label(l) \in Lines /\ Label(l).op = "label" /\ Label(l).label = l
  BY LinesAre
<1>2. Here(own, Label(l), p)
  BY <1>1 DEF Here, At
<1>3. Same(q, PlaceOf(own, Label(l).label))
  BY <1>1 DEF Same
<1> QED
  BY <1>1, <1>2, <1>3, SegOne

LEMMA SegJmp ==
  ASSUME NEW own, NEW l \in LabelSet, NEW p, NEW q, Same(PlaceOf(own, l), p)
  PROVE  <<Jmp(l)>> \in Seq(Lines) /\ Seg(own, <<Jmp(l)>>, p, q)
<1>1. Jmp(l) \in Lines /\ Jmp(l).op = "jmp" /\ Jmp(l).label = l
  BY LinesAre
<1>2. Here(own, Jmp(l), p)
  BY <1>1 DEF Here, At
<1> QED
  BY <1>1, <1>2, SegOne

LEMMA EvalIs ==
  ASSUME NEW n \in 0..Len(prog), NEW part \in Parts
  PROVE  /\ Eval(n, part) \in Lines /\ Eval(n, part).op = "eval"
         /\ Eval(n, part).point = <<n, part>>
         /\ <<n, part>>[1] = n /\ <<n, part>>[2] = part
<1>1. Eval(n, part) \in Lines /\ Eval(n, part).op = "eval"
  BY LinesAre
<1> QED
  BY <1>1 DEF Eval

LEMMA SegEval ==
  ASSUME NEW own, NEW n \in 0..Len(prog), NEW part \in {"expr", "init", "step"}, NEW p, NEW q,
         Same(<<n, part>>, p), Same(q, Succ(<<n, part>>, 0))
  PROVE  <<Eval(n, part)>> \in Seq(Lines) /\ Seg(own, <<Eval(n, part)>>, p, q)
<1> DEFINE code == <<Eval(n, part)>>
<1>1. /\ Eval(n, part) \in Lines /\ Eval(n, part).op = "eval"
      /\ Eval(n, part).point = <<n, part>>
      /\ <<n, part>>[1] = n /\ <<n, part>>[2] = part
  <2>1. part \in Parts
    BY DEF Parts
  <2> QED
    BY <2>1, EvalIs
<1>2. /\ code \in Seq(Lines) /\ Len(code) = 1 /\ DOMAIN code = {1} /\ code[1] = Eval(n, part)
      /\ code /= <<>>
  BY <1>1
<1> HIDE DEF code
<1>3. Here(own, code[1], p)
  BY <1>1, <1>2 DEF Here, At
<1>4. Leads(own, code, 1, q, Succ(<<n, part>>, 0))
  BY <1>2 DEF Leads
<1>5. Goes(own, code, 1, q)
  BY <1>1, <1>2, <1>4 DEF Goes
<1>6. code \in Seq(Lines) /\ Seg(own, code, p, q)
  BY <1>2, <1>3, <1>5 DEF Seg
<1> QED
  BY <1>6 DEF code

LEMMA SegReturn ==
  ASSUME NEW own, NEW n \in 0..Len(prog), NEW part \in {"return", "end"}, NEW p, NEW q,
         Same(<<n, part>>, p)
  PROVE  /\ <<Eval(n, part), Ret>> \in Seq(Lines)
         /\ Seg(own, <<Eval(n, part), Ret>>, p, q)
<1> DEFINE code == <<Eval(n, part), Ret>>
<1>1. /\ Eval(n, part) \in Lines /\ Eval(n, part).op = "eval"
      /\ Eval(n, part).point = <<n, part>>
      /\ <<n, part>>[1] = n /\ <<n, part>>[2] = part
  <2>1. part \in Parts
    BY DEF Parts
  <2> QED
    BY <2>1, EvalIs
<1>2. Ret \in Lines /\ Ret.op = "ret"
  BY LinesAre
<1>3. /\ code \in Seq(Lines) /\ Len(code) = 2 /\ DOMAIN code = {1, 2}
      /\ code[1] = Eval(n, part) /\ code[2] = Ret /\ code /= <<>>
  BY <1>1, <1>2
<1> HIDE DEF code
<1>4. Here(own, code[1], p)
  BY <1>1, <1>3 DEF Here, At
<1>5. Goes(own, code, 1, q)
  BY <1>1, <1>3 DEF Goes
<1>6. Goes(own, code, 2, q)
  BY <1>2, <1>3 DEF Goes
<1>7. code \in Seq(Lines) /\ Seg(own, code, p, q)
  BY <1>3, <1>4, <1>5, <1>6 DEF Seg
<1> QED
  BY <1>7 DEF code

(* A test: the jump is taken for one of its two outcomes. *)
LEMMA SegTest ==
  ASSUME NEW own, NEW n \in 0..Len(prog), Kind(n) /= "switch", NEW p, NEW q,
         NEW l \in LabelSet, NEW jump, NEW b \in {0, 1}, jump = IF b = 0 THEN Je(l) ELSE Jne(l),
         Same(<<n, "cond">>, p),
         Same(PlaceOf(own, l), Succ(<<n, "cond">>, b)),
         Same(q, Succ(<<n, "cond">>, 1 - b))
  PROVE  /\ <<Eval(n, "cond"), jump>> \in Seq(Lines)
         /\ Seg(own, <<Eval(n, "cond"), jump>>, p, q)
<1> DEFINE pt == <<n, "cond">>
           code == <<Eval(n, "cond"), jump>>
<1>1. /\ Eval(n, "cond") \in Lines /\ Eval(n, "cond").op = "eval"
      /\ Eval(n, "cond").point = pt /\ pt[1] = n /\ pt[2] = "cond"
  <2>1. "cond" \in Parts
    BY DEF Parts
  <2> QED
    BY <2>1, EvalIs
<1>2. /\ jump \in Lines /\ jump.op = (IF b = 0 THEN "je" ELSE "jne") /\ jump.label = l
      /\ jump.value = 0
  <2>1. Je(l).value = 0 /\ Jne(l).value = 0
    BY DEF Je, Jne
  <2> QED
    BY <2>1, LinesAre
<1>3. /\ code \in Seq(Lines) /\ Len(code) = 2 /\ DOMAIN code = {1, 2}
      /\ code[1] = Eval(n, "cond") /\ code[2] = jump /\ code /= <<>>
  BY <1>1, <1>2
<1> HIDE DEF code, pt
<1>4. Here(own, code[1], p)
  BY <1>1, <1>3 DEF Here, At, pt
<1>5. Leads(own, code, 2, q, Succ(pt, 1 - b))
  BY <1>3 DEF Leads, pt
<1>6. Decides(own, code, 2, q, pt)
  BY <1>2, <1>3, <1>5 DEF Decides, pt
<1>7. Goes(own, code, 1, q)
  BY <1>1, <1>3, <1>6 DEF Goes
<1>8. Goes(own, code, 2, q)
  BY <1>2, <1>3 DEF Goes
<1>9. code \in Seq(Lines) /\ Seg(own, code, p, q)
  BY <1>3, <1>4, <1>7, <1>8 DEF Seg
<1> QED
  BY <1>9 DEF code

(* Which statement a switch selects. *)
LEMMA SelectIs ==
  ASSUME Body, NEW n \in Nodes, Kind(n) = "switch", NEW v
  PROVE  /\ v \in CasesOf(n) => Meaning!Select(n, v) = After(v)
         /\ v \notin CasesOf(n) /\ Collect(n) /= CasesOf(n) =>
              Meaning!Select(n, v) = After(Min(Defaults(n)))
         /\ v \notin CasesOf(n) /\ Collect(n) = CasesOf(n) => Meaning!Select(n, v) = After(n)
<1>1. n /= 0
  BY DEF Body, Nodes
<1>2. Meaning!Owned(n) = Collect(n)
  <2>1. Meaning!Owned(n) = {c \in Nodes : Kind(c) \in Labels /\ Innermost(c, {"switch"}) = n}
    BY SameTree DEF Meaning!Owned
  <2>2. ASSUME NEW c \in Collect(n)
        PROVE  c \in Nodes /\ Kind(c) \in Labels /\ Innermost(c, {"switch"}) = n
    <3>1. Innermost(c, {"switch"}) = n
      BY InnermostIs
    <3> QED
      BY <3>1 DEF Collect
  <2>3. ASSUME NEW c \in Nodes, Kind(c) \in Labels, Innermost(c, {"switch"}) = n
        PROVE  c \in Collect(n)
    <3>1. c \in 0..Len(prog) /\ Ancestors(c) \subseteq 0..(c - 1)
      <4>1. c \in 0..Len(prog)
        BY DEF Body, Nodes
      <4> QED
        BY <4>1, InsideBody
    <3>2. \E a \in Ancestors(c) : Kind(a) \in {"switch"}
      <4>1. ~(\E a \in Ancestors(c) : Kind(a) \in {"switch"}) => Innermost(c, {"switch"}) = 0
        BY DEF Innermost
      <4> QED
        BY <1>1, <2>3, <4>1
    <3>3. n \in Ancestors(c) /\ \A a \in Ancestors(c) : Kind(a) \in {"switch"} => a <= n
      BY <2>3, <3>1, <3>2, InnermostTyped
    <3>4. \A a \in Ancestors(c) : a > n => Kind(a) /= "switch"
      BY <3>1, <3>3
    <3> QED
      BY <2>3, <3>3, <3>4 DEF Collect
  <2> QED
    BY <2>1, <2>2, <2>3
<1> DEFINE chosen == {c \in Collect(n) : Kind(c) = "case" /\ c = v}
<1>3. Meaning!Select(n, v) = CASE chosen /= {} -> After(v)
                               [] chosen = {} /\ Defaults(n) /= {} -> After(Min(Defaults(n)))
                               [] OTHER -> After(n)
  BY <1>2, SameTree DEF Meaning!Select, Defaults
<1>4. chosen /= {} <=> v \in CasesOf(n)
  BY DEF CasesOf
<1>5. Defaults(n) /= {} <=> Collect(n) /= CasesOf(n)
  <2>1. Collect(n) = CasesOf(n) \/ \E c \in Collect(n) : Kind(c) = "default"
    BY CollectIs
  <2>2. \A c \in CasesOf(n) : c \in Collect(n) /\ Kind(c) = "case"
    BY CollectIs
  <2> QED
    BY <2>1, <2>2 DEF Defaults
<1> HIDE DEF chosen
<1> QED
  BY <1>3, <1>4, <1>5

LEMMA SegSwitch ==
  ASSUME Body, NEW own, NEW n \in Nodes, Kind(n) = "switch", NEW id \in Nat, own[id] = n,
         NEW cases, cases = CasesOf(n), NEW matches, matches = Tests(cases, id),
         NEW otherwise, otherwise = Jmp(Name(IF Collect(n) = cases THEN "switch_end" ELSE "default", id)),
         NEW p, NEW q, Same(<<n, "cond">>, p)
  PROVE  /\ <<Eval(n, "cond")>> \o matches \o <<otherwise>> \in Seq(Lines)
         /\ Seg(own, <<Eval(n, "cond")>> \o matches \o <<otherwise>>, p, q)
<1> DEFINE pt == <<n, "cond">>
           first == <<Eval(n, "cond")>>
           two == first \o matches
           code == two \o <<otherwise>>
           k == Cardinality(cases)
<1>1. /\ Len(prog) \in Nat /\ cases \in SUBSET (1..Len(prog))
      /\ \A c \in cases : c \in Collect(n) /\ Kind(c) = "case"
  BY CollectIs
<1>2. /\ k \in Nat
      /\ \A c \in cases : Index(cases, c) \in 0..(k - 1)
      /\ \A i \in 0..(k - 1) : CaseAt(cases, i) \in cases /\ Index(cases, CaseAt(cases, i)) = i
      /\ \A c, d \in cases : Index(cases, c) = Index(cases, d) => c = d
  BY <1>1, IndexIs, SMTT(30)
<1>3. matches = [i \in 1..k |-> JeVal(CaseAt(cases, i - 1), CaseName(id, i - 1))]
  BY DEF Tests
<1>4. ASSUME NEW i \in 1..k
      PROVE  /\ matches[i] \in Lines /\ matches[i].op = "je"
             /\ matches[i].label = CaseName(id, i - 1)
             /\ matches[i].value = CaseAt(cases, i - 1)
             /\ CaseAt(cases, i - 1) \in cases /\ i - 1 \in Nat
  <2>1. i - 1 \in 0..(k - 1) /\ i - 1 \in Nat
    BY <1>2
  <2>2. CaseAt(cases, i - 1) \in cases /\ CaseAt(cases, i - 1) \in Nat
    BY <1>1, <1>2, <2>1
  <2>3. CaseName(id, i - 1) \in LabelSet
    BY <2>1, NamesAreLabels
  <2>4. matches[i] = JeVal(CaseAt(cases, i - 1), CaseName(id, i - 1))
    BY <1>3
  <2> QED
    BY <2>1, <2>2, <2>3, <2>4, LinesAre DEF JeVal
<1>5. matches \in Seq(Lines) /\ Len(matches) = k /\ DOMAIN matches = 1..k
  <2>1. matches \in [1..k -> Lines]
    BY <1>3, <1>4
  <2> QED
    BY <1>2, <2>1
<1> DEFINE l == Name(IF Collect(n) = cases THEN "switch_end" ELSE "default", id)
<1>6. l \in LabelSet /\ l.id = id /\ l.name = IF Collect(n) = cases THEN "switch_end" ELSE "default"
  <2>1. "switch_end" \in LabelNames /\ "default" \in LabelNames
    BY DEF LabelNames, Labels
  <2> QED
    BY <2>1, NamesAreLabels DEF Name
<1>7. otherwise \in Lines /\ otherwise.op = "jmp" /\ otherwise.label = l
  BY <1>6, LinesAre
<1> HIDE DEF l
<1>8. /\ Eval(n, "cond") \in Lines /\ Eval(n, "cond").op = "eval"
      /\ Eval(n, "cond").point = pt /\ pt[1] = n /\ pt[2] = "cond"
  <2>1. "cond" \in Parts /\ n \in 0..Len(prog)
    BY DEF Parts, Body, Nodes
  <2> QED
    BY <2>1, EvalIs
<1>9. first \in Seq(Lines) /\ Len(first) = 1 /\ DOMAIN first = {1} /\ first[1] = Eval(n, "cond")
  BY <1>8
<1>10. <<otherwise>> \in Seq(Lines) /\ Len(<<otherwise>>) = 1 /\ DOMAIN <<otherwise>> = {1}
       /\ <<otherwise>>[1] = otherwise
  BY <1>7
<1> HIDE DEF first, k, pt
<1>11. /\ two \in Seq(Lines) /\ Len(two) = 1 + k /\ DOMAIN two = 1..(1 + k)
       /\ two[1] = Eval(n, "cond") /\ \A i \in 1..k : two[1 + i] = matches[i]
  <2>1. /\ two \in Seq(Lines) /\ Len(two) = Len(first) + Len(matches)
        /\ DOMAIN two = 1..(Len(first) + Len(matches))
        /\ \A i \in DOMAIN first : two[i] = first[i]
        /\ \A i \in DOMAIN matches : two[Len(first) + i] = matches[i]
    <3>1. first \in Seq(Lines) /\ matches \in Seq(Lines) /\ two = first \o matches
      BY <1>5, <1>9
    <3> HIDE DEF two
    <3> QED
      BY ONLY <3>1, Joined
  <2>2. /\ Len(first) = 1 /\ 1 \in DOMAIN first /\ first[1] = Eval(n, "cond")
        /\ Len(matches) = k /\ DOMAIN matches = 1..k
    BY <1>5, <1>9
  <2> HIDE DEF two
  <2> QED
    BY <2>1, <2>2
<1> HIDE DEF two
<1>12. /\ code \in Seq(Lines) /\ Len(code) = k + 2 /\ DOMAIN code = 1..(k + 2)
       /\ code[1] = Eval(n, "cond") /\ code[k + 2] = otherwise
       /\ \A i \in 1..k : code[1 + i] = matches[i]
  <2> DEFINE last == <<otherwise>>
  <2>1. last \in Seq(Lines) /\ Len(last) = 1 /\ DOMAIN last = {1} /\ last[1] = otherwise
    BY <1>10
  <2> HIDE DEF last
  <2>2. /\ two \o last \in Seq(Lines) /\ Len(two \o last) = Len(two) + Len(last)
        /\ DOMAIN (two \o last) = 1..(Len(two) + Len(last))
        /\ \A i \in DOMAIN two : (two \o last)[i] = two[i]
        /\ \A i \in DOMAIN last : (two \o last)[Len(two) + i] = last[i]
    <3>1. two \in Seq(Lines) /\ last \in Seq(Lines)
      BY <1>11, <2>1
    <3>2. PICK c : c = two \o last
      OBVIOUS
    <3> QED
      BY ONLY <3>1, <3>2, Joined
  <2>3. code = two \o last
    BY DEF last
  <2> HIDE DEF code
  <2>4. Len(two) + Len(last) = k + 2 /\ Len(two) + 1 = k + 2
    BY <1>2, <1>11, <2>1 DEF k
  <2>5. 1 \in DOMAIN two /\ \A i \in 1..k : 1 + i \in DOMAIN two
    BY <1>2, <1>11 DEF k
  <2>6. code[k + 2] = otherwise
    BY <2>1, <2>2, <2>3, <2>4
  <2>7. code[1] = two[1] /\ \A i \in 1..k : code[1 + i] = two[1 + i]
    BY <2>2, <2>3, <2>5
  <2> QED
    BY <1>11, <2>2, <2>3, <2>4, <2>6, <2>7
<1> HIDE DEF code
<1>13. k \in Nat /\ \A c \in cases : \E i \in 1..k : c = CaseAt(cases, i - 1)
  <2>1. ASSUME NEW c \in cases PROVE \E i \in 1..k : c = CaseAt(cases, i - 1)
    <3> DEFINE i == Index(cases, c) + 1
    <3>1. Index(cases, c) \in 0..(k - 1) /\ k \in Nat
      BY <1>2 DEF k
    <3>2. i \in 1..k /\ i - 1 = Index(cases, c)
      BY <3>1
    <3>3. CaseAt(cases, Index(cases, c)) \in cases
          /\ Index(cases, CaseAt(cases, Index(cases, c))) = Index(cases, c)
      BY <1>2, <3>1 DEF k
    <3>4. CaseAt(cases, Index(cases, c)) = c
      BY <1>2, <3>3
    <3> QED
      BY <3>2, <3>4
  <2> QED
    BY <1>2, <2>1 DEF k
<1>14. \A v : Succ(pt, v) = Meaning!Select(n, v)
  BY SuccIs DEF pt
<1>15. ASSUME NEW j \in 2..(k + 1)
       PROVE  /\ code[j].op = "je" /\ code[j].value \in cases
              /\ code[j].value = CaseAt(cases, j - 2)
              /\ Same(PlaceOf(own, code[j].label), Succ(pt, code[j].value))
  <2>1. j - 1 \in 1..k /\ 1 + (j - 1) = j /\ (j - 1) - 1 = j - 2
    BY <1>13
  <2>2. /\ code[j] = matches[j - 1] /\ code[j].op = "je"
        /\ code[j].label = CaseName(id, j - 2)
        /\ code[j].value = CaseAt(cases, j - 2) /\ CaseAt(cases, j - 2) \in cases
    <3>1. code[j] = matches[j - 1]
      BY <1>12, <2>1
    <3>2. /\ matches[j - 1].op = "je" /\ matches[j - 1].label = CaseName(id, (j - 1) - 1)
          /\ matches[j - 1].value = CaseAt(cases, (j - 1) - 1)
          /\ CaseAt(cases, (j - 1) - 1) \in cases
      BY <1>4, <2>1 DEF k
    <3> QED
      BY <2>1, <3>1, <3>2
  <2>3. PlaceOf(own, code[j].label) = After(CaseAt(cases, j - 2))
    BY <2>2 DEF PlaceOf, CaseName
  <2>4. Meaning!Select(n, CaseAt(cases, j - 2)) = After(CaseAt(cases, j - 2))
    BY <2>2, SelectIs
  <2> QED
    BY <1>14, <2>2, <2>3, <2>4 DEF Same
<1>16. ASSUME NEW v, v \notin cases PROVE Same(PlaceOf(own, otherwise.label), Succ(pt, v))
  <2>1. CASE Collect(n) = cases
    <3>1. PlaceOf(own, otherwise.label) = After(n)
      BY <1>6, <1>7, <2>1 DEF PlaceOf
    <3>2. Meaning!Select(n, v) = After(n)
      BY <1>16, <2>1, SelectIs
    <3> QED
      BY <1>14, <3>1, <3>2 DEF Same
  <2>2. CASE Collect(n) /= cases
    <3>1. PlaceOf(own, otherwise.label) = After(Min(Defaults(n)))
      BY <1>6, <1>7, <2>2 DEF PlaceOf
    <3>2. Meaning!Select(n, v) = After(Min(Defaults(n)))
      BY <1>16, <2>2, SelectIs
    <3> QED
      BY <1>14, <3>1, <3>2 DEF Same
  <2> QED
    BY <2>1, <2>2
<1>17. Selects(own, code, 1, pt)
  <2>1. 1 + k < Len(code) /\ 1 + k + 1 = k + 2 /\ 1 + 1 = 2 /\ 1 + k = k + 1
    BY <1>12, <1>13
  <2>2. ASSUME NEW v \in Nat, \A j \in 2..(k + 1) : code[j].value /= v
        PROVE  Same(PlaceOf(own, otherwise.label), Succ(pt, v))
    <3>1. v \notin cases
      <4> SUFFICES ASSUME v \in cases PROVE FALSE
        OBVIOUS
      <4>1. PICK i \in 1..k : v = CaseAt(cases, i - 1)
        BY <1>13
      <4>2. i + 1 \in 2..(k + 1) /\ (i + 1) - 2 = i - 1
        BY <1>13
      <4>3. code[i + 1].value = CaseAt(cases, i - 1)
        BY <1>15, <4>2
      <4> QED
        BY <2>2, <4>1, <4>2, <4>3
    <3> QED
      BY <1>16, <3>1
  <2>3. code[k + 2].op = "jmp" /\ code[k + 2].label = otherwise.label
    BY <1>7, <1>12
  <2>4. /\ k \in Nat /\ 1 + k < Len(code)
        /\ \A j \in (1 + 1)..(1 + k) :
             code[j].op = "je" /\ Same(PlaceOf(own, code[j].label), Succ(pt, code[j].value))
        /\ code[1 + k + 1].op = "jmp"
        /\ \A v \in Nat :
             (\A j \in (1 + 1)..(1 + k) : code[j].value /= v)
             => Same(PlaceOf(own, code[1 + k + 1].label), Succ(pt, v))
    BY <1>13, <1>15, <2>1, <2>2, <2>3
  <2> QED
    BY ONLY <2>4 DEF Selects
<1>18. ASSUME NEW i \in DOMAIN code PROVE Goes(own, code, i, q)
  <2>1. i = 1 \/ i \in 2..(k + 1) \/ i = k + 2
    BY <1>12, <1>13
  <2>2. CASE i = 1
    BY <1>8, <1>12, <1>17, <2>2 DEF Goes
  <2>3. CASE i \in 2..(k + 1)
    BY <1>15, <2>3 DEF Goes
  <2>4. CASE i = k + 2
    BY <1>7, <1>12, <2>4 DEF Goes
  <2> QED
    BY <2>1, <2>2, <2>3, <2>4
<1>19. Here(own, code[1], p) /\ code /= <<>>
  <2>1. code /= <<>>
    BY <1>12, <1>13
  <2> QED
    BY <1>8, <1>12, <2>1 DEF Here, At, pt
<1>20. code \in Seq(Lines) /\ Seg(own, code, p, q)
  BY <1>12, <1>18, <1>19 DEF Seg
<1> QED
  BY <1>20 DEF code, two, first

(* A number that no label has yet may go to any statement. *)
LEMMA SegOwn ==
  ASSUME NEW code \in Seq(Lines), NEW counter \in Nat,
         Bounded(Defs(code) \cup Jumps(code), counter),
         NEW own, NEW own2, \A i \in Nat : i < counter => own2[i] = own[i],
         NEW p, NEW q, Seg(own, code, p, q)
  PROVE  Seg(own2, code, p, q)
<1>1. ASSUME NEW i \in DOMAIN code, code[i].op \in {"label", "jmp", "je", "jne"}
      PROVE  PlaceOf(own2, code[i].label) = PlaceOf(own, code[i].label)
  <2>1. code[i].label \in Defs(code) \cup Jumps(code)
    BY <1>1 DEF Defs, Jumps
  <2>2. code[i].label.id < counter
    BY <2>1 DEF Bounded
  <2>3. code[i].label \in LabelSet
    BY <1>1, LinesHave
  <2>4. code[i].label.id \in Nat
    BY <2>3 DEF LabelSet
  <2>5. own2[code[i].label.id] = own[code[i].label.id]
    BY <2>2, <2>4
  <2> QED
    BY <2>5 DEF PlaceOf
<1>2. ASSUME NEW i \in DOMAIN code, NEW r, Here(own, code[i], r) PROVE Here(own2, code[i], r)
  <2>1. code[i].op \in {"label", "jmp", "eval"} /\ Same(At(own, code[i]), r)
    BY <1>2 DEF Here
  <2>2. At(own2, code[i]) = At(own, code[i])
    BY <1>1, <2>1 DEF At
  <2> QED
    BY <2>1, <2>2 DEF Here
<1>3. Len(code) \in Nat /\ DOMAIN code = 1..Len(code)
  OBVIOUS
<1>4. ASSUME NEW i \in DOMAIN code, NEW r, Leads(own, code, i, q, r) PROVE Leads(own2, code, i, q, r)
  <2>1. CASE i < Len(code)
    <3>1. i + 1 \in DOMAIN code /\ Here(own, code[i + 1], r)
      BY <1>3, <1>4, <2>1 DEF Leads
    <3>2. Here(own2, code[i + 1], r)
      BY <1>2, <3>1
    <3> QED
      BY <2>1, <3>2 DEF Leads
  <2>2. CASE ~(i < Len(code))
    BY <1>4, <2>2 DEF Leads
  <2> QED
    BY <2>1, <2>2
<1>5. ASSUME NEW i \in DOMAIN code PROVE Goes(own2, code, i, q)
  <2> DEFINE line == code[i]
             pt == line.point
  <2>1. Goes(own, code, i, q)
    BY DEF Seg
  <2>2. line.op = "label" => Leads(own2, code, i, q, PlaceOf(own2, line.label))
    BY <1>1, <1>4, <2>1 DEF Goes
  <2>3. line.op = "eval" /\ pt[2] \in {"expr", "init", "step"} => Leads(own2, code, i, q, Succ(pt, 0))
    BY <1>4, <2>1 DEF Goes
  <2>4. line.op = "eval" /\ pt[2] \in {"return", "end"} => i < Len(code) /\ code[i + 1] = Ret
    BY <2>1 DEF Goes
  <2>5. ASSUME line.op = "eval", pt[2] = "cond", Kind(pt[1]) /= "switch"
        PROVE  i < Len(code) /\ Decides(own2, code, i + 1, q, pt)
    <3>1. i < Len(code) /\ Decides(own, code, i + 1, q, pt)
      BY <2>1, <2>5 DEF Goes
    <3>2. i + 1 \in DOMAIN code
      BY <1>3, <3>1
    <3>3. PICK b \in {0, 1} :
            /\ code[i + 1].op = (IF b = 0 THEN "je" ELSE "jne") /\ code[i + 1].value = 0
            /\ Same(PlaceOf(own, code[i + 1].label), Succ(pt, b))
            /\ Leads(own, code, i + 1, q, Succ(pt, 1 - b))
      BY <3>1 DEF Decides
    <3>4. Leads(own2, code, i + 1, q, Succ(pt, 1 - b))
      BY <1>4, <3>2, <3>3
    <3>5. PlaceOf(own2, code[i + 1].label) = PlaceOf(own, code[i + 1].label)
      BY <1>1, <3>2, <3>3
    <3> QED
      BY <3>1, <3>3, <3>4, <3>5 DEF Decides
  <2>6. ASSUME line.op = "eval", pt[2] = "cond", Kind(pt[1]) = "switch"
        PROVE  Selects(own2, code, i, pt)
    <3>1. PICK k \in Nat :
            /\ i + k < Len(code)
            /\ \A j \in (i + 1)..(i + k) :
                 code[j].op = "je" /\ Same(PlaceOf(own, code[j].label), Succ(pt, code[j].value))
            /\ code[i + k + 1].op = "jmp"
            /\ \A v \in Nat :
                 (\A j \in (i + 1)..(i + k) : code[j].value /= v)
                 => Same(PlaceOf(own, code[i + k + 1].label), Succ(pt, v))
      <4>1. Selects(own, code, i, pt)
        BY <2>1, <2>6 DEF Goes
      <4> QED
        BY <4>1 DEF Selects
    <3>2. i + k + 1 \in DOMAIN code /\ \A j \in (i + 1)..(i + k) : j \in DOMAIN code
      BY <1>3, <3>1
    <3>3. PlaceOf(own2, code[i + k + 1].label) = PlaceOf(own, code[i + k + 1].label)
      BY <1>1, <3>1, <3>2
    <3>4. \A j \in (i + 1)..(i + k) : PlaceOf(own2, code[j].label) = PlaceOf(own, code[j].label)
      BY <1>1, <3>1, <3>2
    <3> QED
      BY <3>1, <3>3, <3>4 DEF Selects
  <2> HIDE DEF line
  <2> QED
    BY <2>2, <2>3, <2>4, <2>5, <2>6 DEF Goes, line
<1>6. IF code = <<>> THEN Same(p, q) ELSE Here(own2, code[1], p)
  <2>1. CASE code = <<>>
    BY <2>1 DEF Seg
  <2>2. CASE code /= <<>>
    <3>1. 1 \in DOMAIN code /\ Here(own, code[1], p)
      BY <1>3, <2>2 DEF Seg
    <3> QED
      BY <1>2, <2>2, <3>1
  <2> QED
    BY <2>1, <2>2
<1> QED
  BY <1>5, <1>6 DEF Seg

LEMMA SegTo ==
  ASSUME NEW own, NEW code \in Seq(Lines), NEW p, NEW q, NEW r, Same(q, r), Seg(own, code, p, q)
  PROVE  Seg(own, code, p, r)
<1>1. Seg(own, <<>>, q, r) /\ <<>> \in Seq(Lines)
  BY SegNone
<1>2. Seg(own, code \o <<>>, p, r)
  BY <1>1, SegBoth
<1>3. code \o <<>> = code
  OBVIOUS
<1> QED
  BY <1>2, <1>3

(***************************************************************************)
(* A step of the generator carries its output on from where it had come to. *)
(***************************************************************************)
LEMMA LeafFollows ==
  ASSUME NEW s, NEW n, NEW b, Begun(s, n, b), NEW own, Follows(s, own),
         NEW lines, lines \in Seq(Lines) /\ Seg(own, lines, Reach(n), After(n)),
         NEW t, t.code = s.code \o lines, t.calls = s.calls, t.at = n
  PROVE  Follows(t, own)
<1>1. Body /\ Generating(s) /\ Comes(s.calls, s.at, n) /\ n \in Nodes
  BY BegunIs
<1>2. /\ s.calls \in Seq(Calls) /\ s.at \in 0..Len(prog) /\ Path(s.calls, s.at)
      /\ s.code \in Seq(Lines)
  BY <1>1, Begins
<1>3. /\ Owns(own, s.calls) /\ Threads(s.calls) /\ Beside(s.calls, s.at)
      /\ Seg(own, s.code, Enter(0, "body"), Facing(s.calls, s.at))
  BY DEF Follows
<1>4. Facing(s.calls, s.at) = Reach(n)
  BY <1>1, FacingNext
<1>5. Same(After(n), Facing(s.calls, n))
  BY <1>1, FacingLeaf
<1>6. Seg(own, s.code \o lines, Enter(0, "body"), After(n))
  BY <1>2, <1>3, <1>4, SegBoth
<1>7. s.code \o lines \in Seq(Lines)
  BY <1>2
<1>8. Seg(own, s.code \o lines, Enter(0, "body"), Facing(s.calls, n))
  BY <1>5, <1>6, <1>7, SegTo
<1>9. Beside(s.calls, n)
  BY <1>1, <1>2, <1>3, BesideLeaf
<1> QED
  BY <1>3, <1>8, <1>9 DEF Follows

(* After the call x on n, the owners of the numbers that were taken before it *)
(* are still their owners.                                                  *)
Hands(s, n, x, own, own2) ==
  /\ own2 \in [Nat -> 0..Len(prog)]
  /\ \A i \in Nat : i < s.label_counter => own2[i] = own[i]
  /\ TakesId(x) => own2[x.id] = n

LEMMA CallFollows ==
  ASSUME NEW s, NEW n, NEW b, Begun(s, n, b), NEW own, Follows(s, own),
         NEW x, CallOf(n, x), Kind(n) \in Loops => Kids(n, x.slot) /= {},
         NEW own2, Hands(s, n, x, own, own2),
         NEW lines, lines \in Seq(Lines) /\ Seg(own2, lines, Reach(n), Enter(n, x.slot)),
         NEW t, t.code = s.code \o lines, t.calls = Append(s.calls, x), t.at = n
  PROVE  Follows(t, own2)
<1> /\ own2 \in [Nat -> 0..Len(prog)]
    /\ \A i \in Nat : i < s.label_counter => own2[i] = own[i]
    /\ TakesId(x) => own2[x.id] = n
  BY DEF Hands
<1>1. Body /\ Generating(s) /\ Comes(s.calls, s.at, n) /\ n \in Nodes
  BY BegunIs
<1>2. /\ s.calls \in Seq(Calls) /\ s.at \in 0..Len(prog) /\ Path(s.calls, s.at)
      /\ s.code \in Seq(Lines) /\ s.calls /= <<>> /\ s.label_counter \in Nat
      /\ Ids(s.calls, s.label_counter)
  BY <1>1, Begins
<1>3. /\ Owns(own, s.calls) /\ Threads(s.calls) /\ Beside(s.calls, s.at)
      /\ Seg(own, s.code, Enter(0, "body"), Facing(s.calls, s.at))
  BY DEF Follows
<1>4. x \in Calls /\ x.node = n
  BY DEF CallOf
<1>5. Facing(s.calls, s.at) = Reach(n)
  BY <1>1, FacingNext
<1>6. Facing(t.calls, t.at) = Enter(n, x.slot)
  BY <1>1, <1>2, <1>4, FacingInside
<1>7. Seg(own2, s.code, Enter(0, "body"), Reach(n))
  <2>1. Bounded(Defs(s.code) \cup Jumps(s.code), s.label_counter)
    BY <1>1 DEF Generating
  <2>2. PICK code, counter, p, q :
          code \in Seq(Lines) /\ counter \in Nat /\ code = s.code /\ counter = s.label_counter /\ p = Enter(0, "body") /\ q = Reach(n)
    BY <1>2
  <2>3. /\ code \in Seq(Lines) /\ counter \in Nat
        /\ Bounded(Defs(code) \cup Jumps(code), counter) /\ Seg(own, code, p, q)
        /\ \A i \in Nat : i < counter => own2[i] = own[i]
    BY <1>3, <1>5, <2>1, <2>2
  <2>4. Seg(own2, code, p, q)
    BY ONLY <2>3, SegOwn
  <2> QED
    BY <2>2, <2>4
<1>8. Seg(own2, s.code \o lines, Enter(0, "body"), Enter(n, x.slot))
  BY <1>2, <1>7, SegBoth
<1>9. Owns(own2, t.calls)
  <2>1. /\ Len(s.calls) \in Nat
        /\ Append(s.calls, x)[Len(s.calls) + 1] = x
        /\ \A i \in DOMAIN s.calls : Append(s.calls, x)[i] = s.calls[i]
        /\ \A i \in DOMAIN Append(s.calls, x) : i \in DOMAIN s.calls \/ i = Len(s.calls) + 1
    <3>1. s.calls \in Seq(Calls) /\ x \in Calls
      BY <1>2, <1>4
    <3> QED
      BY ONLY <3>1, Grown
  <2>2. ASSUME NEW i \in DOMAIN s.calls, TakesId(s.calls[i])
        PROVE  own2[s.calls[i].id] = s.calls[i].node
    <3>1. s.calls[i].id < s.label_counter /\ own[s.calls[i].id] = s.calls[i].node
      BY <1>2, <1>3, <2>2 DEF Ids, Owns
    <3>2. s.calls[i] \in Calls
      <4>1. s.calls \in Seq(Calls) /\ i \in DOMAIN s.calls
        BY <1>2
      <4> QED
        BY ONLY <4>1
    <3>3. s.calls[i].id \in Nat
      BY <3>2 DEF Calls
    <3> QED
      BY <3>1, <3>3
  <2>3. ASSUME NEW i \in DOMAIN t.calls, TakesId(t.calls[i])
        PROVE  own2[t.calls[i].id] = t.calls[i].node
    <3>1. CASE i \in DOMAIN s.calls
      BY <2>1, <2>2, <2>3, <3>1
    <3>2. CASE i = Len(s.calls) + 1
      BY <1>4, <2>1, <2>3, <3>2
    <3> QED
      BY <2>1, <3>1, <3>2
  <2> QED
    BY <2>3 DEF Owns
<1>10. Threads(t.calls)
  <2>1. prog[x.node].slot = s.calls[Len(s.calls)].slot
    BY <1>1, <1>4 DEF Comes
  <2> QED
    BY <1>2, <1>3, <1>4, <2>1, ThreadsPush
<1>11. Beside(t.calls, t.at)
  BY <1>1, <1>2, <1>4, BesidePush
<1> QED
  BY <1>6, <1>8, <1>9, <1>10, <1>11 DEF Follows

LEMMA EndFollows ==
  ASSUME NEW s, NEW top, NEW r, Returning(s, top, r), NEW own, Follows(s, own),
         NEW lines,
         /\ lines \in Seq(Lines)
         /\ Seg(own, lines, IF Kind(top.node) \in Loops THEN Again(top.node) ELSE After(top.node),
                After(top.node)),
         NEW t, t.code = s.code \o lines, t.calls = Front(s.calls), t.at = s.at
  PROVE  Follows(t, own)
<1>1. Body /\ Generating(s) /\ Walked(s) /\ top = s.calls[Len(s.calls)]
  BY DEF Returning
<1>2. /\ s.calls \in Seq(Calls) /\ s.at \in 0..Len(prog) /\ Path(s.calls, s.at)
      /\ s.code \in Seq(Lines) /\ s.calls /= <<>> /\ s.at \in Nat /\ Nodes \subseteq Nat
  BY <1>1, Begins
<1>3. /\ Owns(own, s.calls) /\ Threads(s.calls) /\ Beside(s.calls, s.at)
      /\ Seg(own, s.code, Enter(0, "body"), Facing(s.calls, s.at))
  BY DEF Follows
<1>4. top.node /= 0 /\ \A k \in Kids(top.node, top.slot) : k <= s.at
  BY <1>1 DEF Walked
<1>5. Facing(s.calls, s.at) = IF Kind(top.node) \in Loops THEN Again(top.node) ELSE After(top.node)
  BY <1>1, <1>2, <1>4, FacingEnd
<1>6. Same(After(top.node), Facing(t.calls, t.at))
  BY <1>1, <1>2, <1>3, <1>4, FacingOut
<1>7. Seg(own, s.code \o lines, Enter(0, "body"), After(top.node))
  BY <1>2, <1>3, <1>5, SegBoth
<1>8. Seg(own, t.code, Enter(0, "body"), Facing(t.calls, t.at))
  <2>1. s.code \o lines \in Seq(Lines)
    BY <1>2
  <2>2. PICK code, p, q, to :
          /\ code \in Seq(Lines) /\ code = s.code \o lines /\ p = Enter(0, "body") /\ q = After(top.node)
          /\ to = Facing(t.calls, t.at)
    BY <2>1
  <2>3. code \in Seq(Lines) /\ Same(q, to) /\ Seg(own, code, p, q)
    BY <1>6, <1>7, <2>2
  <2>4. Seg(own, code, p, to)
    BY ONLY <2>3, SegTo
  <2> QED
    BY <2>2, <2>4
<1>9. Owns(own, t.calls)
  <2>1. \A i \in DOMAIN Front(s.calls) : i \in DOMAIN s.calls /\ Front(s.calls)[i] = s.calls[i]
    BY <1>2, Shrunk
  <2> QED
    BY <1>3, <2>1 DEF Owns
<1>10. Threads(t.calls) /\ Beside(t.calls, t.at)
  BY <1>1, <1>2, <1>3, <1>4, ThreadsPop, BesidePop
<1> QED
  BY <1>8, <1>9, <1>10 DEF Follows

LEMMA ElseFollows ==
  ASSUME NEW s, NEW top, NEW r, Returning(s, top, r), NEW own, Follows(s, own),
         NEW x \in Calls, Turns(s.calls, x),
         NEW lines,
         lines \in Seq(Lines) /\ Seg(own, lines, After(top.node), Enter(top.node, "else")),
         NEW t, t.code = s.code \o lines, t.calls = Append(Front(s.calls), x), t.at = s.at
  PROVE  Follows(t, own)
<1>1. Body /\ Generating(s) /\ Walked(s) /\ top = s.calls[Len(s.calls)]
  BY DEF Returning
<1>2. /\ s.calls \in Seq(Calls) /\ s.at \in 0..Len(prog) /\ Path(s.calls, s.at)
      /\ s.code \in Seq(Lines) /\ s.calls /= <<>> /\ s.at \in Nat /\ Nodes \subseteq Nat
  BY <1>1, Begins
<1>3. /\ Owns(own, s.calls) /\ Threads(s.calls) /\ Beside(s.calls, s.at)
      /\ Seg(own, s.code, Enter(0, "body"), Facing(s.calls, s.at))
  BY DEF Follows
<1>4. /\ DOMAIN Append(Front(s.calls), x) = DOMAIN s.calls
      /\ Append(Front(s.calls), x)[Len(s.calls)] = x
      /\ Len(Append(Front(s.calls), x)) = Len(s.calls)
      /\ \A i \in DOMAIN s.calls :
           /\ Append(Front(s.calls), x)[i].node = s.calls[i].node
           /\ Append(Front(s.calls), x)[i].id = s.calls[i].id
           /\ TakesId(Append(Front(s.calls), x)[i]) <=> TakesId(s.calls[i])
  <2>1. s.calls \in Seq(Calls) /\ s.calls /= <<>> /\ x \in Calls /\ Turns(s.calls, x)
    BY <1>2
  <2> QED
    BY ONLY <2>1, TurnedCalls, SMTT(60)
<1>5. x.slot = "else" /\ Kind(x.node) = "if" /\ x.node = top.node
  BY <1>1, <1>2, TurnedCalls
<1>6. Facing(s.calls, s.at) = After(top.node)
  <2>1. \A k \in Kids(top.node, top.slot) : k <= s.at
    BY <1>1 DEF Walked
  <2>2. Kind(top.node) \notin Loops
    BY <1>5 DEF Loops
  <2> QED
    BY <1>1, <1>2, <2>1, <2>2, FacingEnd
<1>7. Facing(t.calls, t.at) = Enter(top.node, "else")
  BY <1>1, <1>2, <1>3, <1>5, FacingElse
<1>8. Seg(own, t.code, Enter(0, "body"), Facing(t.calls, t.at))
  BY <1>2, <1>3, <1>6, <1>7, SegBoth
<1>9. Owns(own, t.calls)
  BY <1>3, <1>4 DEF Owns
<1>10. Threads(t.calls)
  BY <1>2, <1>3, ThreadsElse
<1>11. Beside(t.calls, t.at)
  BY <1>4, <1>5 DEF Beside
<1> QED
  BY <1>8, <1>9, <1>10, <1>11 DEF Follows

(***************************************************************************)
(* The constructs, up to their call.                                       *)
(***************************************************************************)
LEMMA PlaceIs ==
  ASSUME NEW own, NEW id \in Nat, NEW n, own[id] = n
  PROVE  /\ \A name \in LabelNames : Name(name, id) \in LabelSet
         /\ PlaceOf(own, Name("else", id)) = Enter(n, "else")
         /\ PlaceOf(own, Name("loop_start", id)) = Test(n)
         /\ PlaceOf(own, Name("for_start", id)) = Test(n)
         /\ PlaceOf(own, Name("do_start", id)) = Enter(n, "body")
         /\ PlaceOf(own, Name("do_cont", id)) = Again(n)
         /\ PlaceOf(own, Name("for_cont", id)) = Again(n)
         /\ PlaceOf(own, Name("end", id)) = After(n)
         /\ PlaceOf(own, Name("loop_end", id)) = After(n)
         /\ PlaceOf(own, Name("do_end", id)) = After(n)
         /\ PlaceOf(own, Name("for_end", id)) = After(n)
         /\ PlaceOf(own, Name("switch_end", id)) = After(n)
<1>1. \A name : Name(name, id).name = name /\ Name(name, id).id = id
  BY DEF Name
<1>2. \A name \in LabelNames : Name(name, id) \in LabelSet
  BY NamesAreLabels
<1>3. PlaceOf(own, Name("else", id)) = Enter(n, "else")
  BY <1>1 DEF PlaceOf
<1>4. /\ PlaceOf(own, Name("loop_start", id)) = Test(n)
      /\ PlaceOf(own, Name("for_start", id)) = Test(n)
  BY <1>1 DEF PlaceOf
<1>5. PlaceOf(own, Name("do_start", id)) = Enter(n, "body")
  BY <1>1 DEF PlaceOf
<1>6. /\ PlaceOf(own, Name("do_cont", id)) = Again(n)
      /\ PlaceOf(own, Name("for_cont", id)) = Again(n)
  BY <1>1 DEF PlaceOf
<1>7. /\ PlaceOf(own, Name("end", id)) = After(n)
      /\ PlaceOf(own, Name("loop_end", id)) = After(n)
      /\ PlaceOf(own, Name("do_end", id)) = After(n)
      /\ PlaceOf(own, Name("for_end", id)) = After(n)
      /\ PlaceOf(own, Name("switch_end", id)) = After(n)
  BY <1>1 DEF PlaceOf
<1> QED
  BY ONLY <1>2, <1>3, <1>4, <1>5, <1>6, <1>7

(* gen_stmt_one() is called on n, in a body of which we know what follows. *)
Ready(s, n, b, own) == Begun(s, n, b) /\ Follows(s, own) /\ Testable /\ Finished

LEMMA ReadyIs ==
  ASSUME NEW s, NEW n, NEW b, NEW own, Ready(s, n, b, own)
  PROVE  /\ Begun(s, n, b) /\ Follows(s, own) /\ Body
         /\ n \in Nodes /\ n \in 0..Len(prog) /\ n /= 0 /\ Kind(n) = prog[n].kind
         /\ GenTypeOK(b) /\ CtxPushOk(b)
         /\ b.code = s.code /\ b.label_counter = s.label_counter /\ s.label_counter \in Nat
         /\ b.calls = s.calls /\ b.at = n
         /\ Kind(n) \in OneBody => Kids(n, "body") /= {}
         /\ Kind(n) \in {"while", "do"} => prog[n].cond /= "none"
         /\ own \in [Nat -> 0..Len(prog)]
<1>1. Begun(s, n, b) /\ Follows(s, own) /\ Testable /\ Finished
  BY DEF Ready
<1>2. /\ Body /\ n \in Nodes /\ n \in 0..Len(prog) /\ n /= 0
      /\ GenTypeOK(b) /\ CtxPushOk(b)
      /\ b.code = s.code /\ b.label_counter = s.label_counter /\ s.label_counter \in Nat
      /\ b.calls = s.calls /\ b.at = n
  BY <1>1, BegunIs
<1>3. own \in [Nat -> 0..Len(prog)]
  BY <1>1 DEF Follows, Owns
<1> QED
  BY <1>1, <1>2, <1>3 DEF Testable, Finished, Kind

LEMMA EmitFollows ==
  ASSUME NEW s, NEW n, NEW b, NEW own, Ready(s, n, b, own),
         NEW lines, lines \in Seq(Lines) /\ Seg(own, lines, Reach(n), After(n))
  PROVE  Follows(Emit(b, lines), own)
<1> DEFINE t == Emit(b, lines)
<1>1. /\ Begun(s, n, b) /\ Follows(s, own) /\ GenTypeOK(b)
      /\ b.code = s.code /\ b.calls = s.calls /\ b.at = n
  BY ReadyIs
<1>2. lines \in Seq(Lines) /\ Seg(own, lines, Reach(n), After(n))
  OBVIOUS
<1>3. t.code = s.code \o lines /\ t.calls = s.calls /\ t.at = n
  <2>1. GenTypeOK(b) /\ lines \in Seq(Lines)
    BY <1>1
  <2>2. t.code = b.code \o lines /\ t.calls = b.calls /\ t.at = b.at
    BY ONLY <2>1, EmitIs
  <2> QED
    BY <1>1, <2>2
<1> HIDE DEF t
<1>4. Follows(t, own)
  BY ONLY <1>1, <1>2, <1>3, LeafFollows
<1> QED
  BY <1>4 DEF t

LEMMA PlainCallFollows ==
  ASSUME NEW s, NEW n, NEW b, NEW own, Ready(s, n, b, own), NEW slot,
         NEW x, x = [node |-> n, slot |-> slot, id |-> 0], CallOf(n, x), ~TakesId(x),
         Kind(n) \notin Loops, Same(Reach(n), Enter(n, slot))
  PROVE  Follows(Call(b, n, slot, 0), own)
<1> DEFINE t == Call(b, n, slot, 0)
           lines == <<>>
<1>1. /\ Begun(s, n, b) /\ Follows(s, own) /\ GenTypeOK(b)
      /\ b.code = s.code /\ b.calls = s.calls /\ b.at = n
      /\ own \in [Nat -> 0..Len(prog)] /\ s.code \in Seq(Lines)
  <2>1. GenTypeOK(b) /\ b.code = s.code
    BY ReadyIs
  <2>2. s.code \in Seq(Lines)
    BY <2>1 DEF GenTypeOK
  <2> QED
    BY <2>2, ReadyIs, SMTT(30)
<1>2. x \in Calls /\ x = [node |-> n, slot |-> slot, id |-> 0] /\ t = Call(b, n, slot, 0)
  BY DEF CallOf
<1>3. x.slot = slot /\ CallOf(n, x) /\ ~TakesId(x) /\ Kind(n) \notin Loops
  OBVIOUS
<1>4. lines \in Seq(Lines) /\ Seg(own, lines, Reach(n), Enter(n, x.slot))
  BY SegNone
<1>5. s.code = s.code \o lines
  BY <1>1
<1>6. Hands(s, n, x, own, own)
  BY <1>1 DEF Hands
<1>10. GenTypeOK(b)
  BY <1>1
<1> HIDE DEF t, lines
<1>7. t.calls = Append(b.calls, x) /\ t.code = b.code /\ t.at = b.at
  BY ONLY <1>2, <1>10, CallIs, SMTT(20)
<1>8. t.calls = Append(s.calls, x) /\ t.code = s.code \o lines /\ t.at = n
  BY ONLY <1>1, <1>5, <1>7
<1>9. Begun(s, n, b) /\ Follows(s, own) /\ CallOf(n, x) /\ (Kind(n) \in Loops => Kids(n, x.slot) /= {})
  BY <1>1, <1>3
<1>11. Follows(t, own)
  BY ONLY <1>4, <1>6, <1>8, <1>9, CallFollows
<1> QED
  BY <1>11 DEF t

(* The number that a statement takes is its own from there on.             *)
Owning(s, n, own) == [own EXCEPT ![s.label_counter] = n]

LEMMA OwningIs ==
  ASSUME NEW s, NEW n, NEW b, NEW own, Ready(s, n, b, own)
  PROVE  /\ Owning(s, n, own) \in [Nat -> 0..Len(prog)]
         /\ Owning(s, n, own)[s.label_counter] = n
         /\ \A i \in Nat : i < s.label_counter => Owning(s, n, own)[i] = own[i]
<1> DEFINE counter == s.label_counter
           S == 0..Len(prog)
<1>1. n \in S /\ counter \in Nat /\ own \in [Nat -> S]
  BY ReadyIs
<1>2. Owning(s, n, own) = [own EXCEPT ![counter] = n]
  BY DEF Owning
<1> HIDE DEF counter, S
<1>3. /\ Owning(s, n, own) \in [Nat -> S]
      /\ Owning(s, n, own)[counter] = n
      /\ \A i \in Nat : i < counter => Owning(s, n, own)[i] = own[i]
  BY ONLY <1>1, <1>2
<1> QED
  BY <1>3 DEF counter, S

LEMMA NumberedCallFollows ==
  ASSUME NEW s, NEW n, NEW b, NEW own, Ready(s, n, b, own),
         NEW x, x = [node |-> n, slot |-> "body", id |-> s.label_counter], CallOf(n, x),
         NEW e, GenTypeOK(e), e.code = s.code, e.calls = s.calls, e.at = n,
         NEW own2, own2 = Owning(s, n, own),
         NEW lines, lines \in Seq(Lines) /\ Seg(own2, lines, Reach(n), Enter(n, "body"))
  PROVE  Follows(Call(Emit(e, lines), n, "body", s.label_counter), own2)
<1> DEFINE m == Emit(e, lines)
           id == s.label_counter
           slot == "body"
           t == Call(m, n, slot, id)
<1>1. Begun(s, n, b) /\ Follows(s, own) /\ (Kind(n) \in OneBody => Kids(n, "body") /= {})
  BY ReadyIs
<1>2. x \in Calls /\ x = [node |-> n, slot |-> slot, id |-> id] /\ t = Call(m, n, slot, id)
  BY DEF CallOf
<1>3. GenTypeOK(m) /\ m.code = e.code \o lines /\ m.calls = e.calls /\ m.at = e.at
  BY EmitIs
<1>4. /\ own2 \in [Nat -> 0..Len(prog)] /\ own2[id] = n
      /\ \A i \in Nat : i < s.label_counter => own2[i] = own[i]
  <2>1. Ready(s, n, b, own) /\ own2 = Owning(s, n, own)
    OBVIOUS
  <2>2. Ready(s, n, b, own)
    OBVIOUS
  <2>3. /\ Owning(s, n, own) \in [Nat -> 0..Len(prog)]
        /\ Owning(s, n, own)[s.label_counter] = n
        /\ \A i \in Nat : i < s.label_counter => Owning(s, n, own)[i] = own[i]
    BY ONLY <2>2, OwningIs, SMTT(60)
  <2> QED
    BY ONLY <2>1, <2>3
<1>5. x.slot = "body" /\ x.id = id
  OBVIOUS
<1>6. Kind(n) \in Loops => Kids(n, x.slot) /= {}
  BY <1>1, <1>5 DEF OneBody
<1>7. Hands(s, n, x, own, own2)
  BY <1>4, <1>5 DEF Hands
<1>8. lines \in Seq(Lines) /\ Seg(own2, lines, Reach(n), Enter(n, x.slot))
  BY <1>5
<1>9. Begun(s, n, b) /\ Follows(s, own)
  BY <1>1
<1> HIDE DEF t, m, id, slot
<1>10. t.calls = Append(m.calls, x) /\ t.code = m.code /\ t.at = m.at
  BY ONLY <1>2, <1>3, CallIs, SMTT(20)
<1>11. t.calls = Append(s.calls, x) /\ t.code = s.code \o lines /\ t.at = n
  BY <1>3, <1>10
<1>12. CallOf(n, x)
  OBVIOUS
<1>13. Follows(t, own2)
  BY ONLY <1>6, <1>7, <1>8, <1>9, <1>11, <1>12, CallFollows
<1> QED
  BY <1>13 DEF t, m, id, slot

LEMMA DecidesIs ==
  ASSUME NEW n
  PROVE  /\ Kind(n) = "if" => /\ Succ(<<n, "cond">>, 0) = Enter(n, "else")
                              /\ Succ(<<n, "cond">>, 1) = Enter(n, "body")
         /\ Kind(n) \in Loops => /\ Succ(<<n, "cond">>, 0) = After(n)
                                 /\ Succ(<<n, "cond">>, 1) = Enter(n, "body")
<1>1. /\ Kind(n) = "if" => Succ(<<n, "cond">>, 0) = Enter(n, IF 0 = 0 THEN "else" ELSE "body")
      /\ Kind(n) \in Loops => Succ(<<n, "cond">>, 0) = IF 0 = 0 THEN After(n) ELSE Enter(n, "body")
  BY SuccIs
<1>2. /\ Kind(n) = "if" => Succ(<<n, "cond">>, 1) = Enter(n, IF 1 = 0 THEN "else" ELSE "body")
      /\ Kind(n) \in Loops => Succ(<<n, "cond">>, 1) = IF 1 = 0 THEN After(n) ELSE Enter(n, "body")
  BY SuccIs
<1>3. /\ (IF 0 = 0 THEN "else" ELSE "body") = "else"
      /\ (IF 1 = 0 THEN "else" ELSE "body") = "body"
  OBVIOUS
<1> QED
  BY <1>1, <1>2, <1>3

LEMMA BlockFollows ==
  ASSUME NEW s, NEW n, NEW b, NEW own, Ready(s, n, b, own), Kind(n) = "block"
  PROVE  Follows(Call(b, n, "body", 0), own)
<1> DEFINE x == [node |-> n, slot |-> "body", id |-> 0]
<1>1. Body /\ n \in Nodes /\ n \in 0..Len(prog)
  BY ReadyIs
<1>2. x \in Calls /\ x.node = n /\ x.slot = "body"
  BY <1>1 DEF Calls
<1>3. x = [node |-> n, slot |-> "body", id |-> 0]
  OBVIOUS
<1> HIDE DEF x
<1>4. CallOf(n, x) /\ ~TakesId(x) /\ Kind(n) \notin Loops
  BY <1>2 DEF CallOf, TakesId, Leaves, Labels, Loops, Breakable
<1>5. Same(Reach(n), Enter(n, "body"))
  BY <1>1, ReachIs
<1> QED
  BY ONLY Ready(s, n, b, own), <1>3, <1>4, <1>5, PlainCallFollows

LEMMA ConstIfFollows ==
  ASSUME NEW s, NEW n, NEW b, NEW own, Ready(s, n, b, own), Kind(n) = "if", ConstTruth(n)
  PROVE  Follows(GenIf(b, n), own)
<1> DEFINE slot == IF Dead(n) THEN "else" ELSE "body"
           x == [node |-> n, slot |-> slot, id |-> 0]
<1>1. Body /\ n \in Nodes /\ n \in 0..Len(prog)
  BY ReadyIs
<1>2. x \in Calls /\ x.node = n /\ x.slot = slot
  BY <1>1 DEF Calls
<1>3. x = [node |-> n, slot |-> slot, id |-> 0]
  OBVIOUS
<1> HIDE DEF x
<1>4. CallOf(n, x) /\ ~TakesId(x) /\ Kind(n) \notin Loops
  BY <1>2 DEF CallOf, TakesId, Leaves, Labels, Loops, Breakable
<1>5. Same(Reach(n), Enter(n, slot))
  <2>1. /\ prog[n].cond = "zero" => Same(Reach(n), Enter(n, "else"))
        /\ prog[n].cond = "nonzero" => Same(Reach(n), Enter(n, "body"))
    BY <1>1, ReachIs
  <2> QED
    BY <2>1 DEF ConstTruth, Dead
<1>6. GenIf(b, n) = Call(b, n, slot, 0)
  BY DEF GenIf
<1> HIDE DEF slot
<1>7. Ready(s, n, b, own)
  OBVIOUS
<1>8. Follows(Call(b, n, slot, 0), own)
  BY ONLY <1>3, <1>4, <1>5, <1>7, PlainCallFollows
<1> QED
  BY <1>6, <1>8

LEMMA IfFollows ==
  ASSUME NEW s, NEW n, NEW b, NEW own, Ready(s, n, b, own), Kind(n) = "if"
  PROVE  \E own2 : Follows(GenIf(b, n), own2)
<1>1. CASE ConstTruth(n)
  BY <1>1, ConstIfFollows
<1>2. CASE ~ConstTruth(n)
  <2> DEFINE id == s.label_counter
             e == [b EXCEPT !.label_counter = @ + 1]
             other == Name(IF Kids(n, "else") /= {} THEN "else" ELSE "end", id)
             lines == <<Eval(n, "cond"), Je(other)>>
             x == [node |-> n, slot |-> "body", id |-> id]
             own2 == Owning(s, n, own)
  <2>1. /\ Body /\ n \in Nodes /\ n \in 0..Len(prog) /\ GenTypeOK(b)
        /\ b.code = s.code /\ b.label_counter = id /\ id \in Nat
        /\ b.calls = s.calls /\ b.at = n
    BY ReadyIs
  <2>2. GenTypeOK(e) /\ e.code = s.code /\ e.calls = s.calls /\ e.at = n
    <3>1. e = [b EXCEPT !.label_counter = @ + 1]
      OBVIOUS
    <3> HIDE DEF e
    <3> QED
      BY ONLY <2>1, <3>1, CountIs
  <2>3. x \in Calls /\ x.node = n /\ x.slot = "body"
    BY <2>1 DEF Calls
  <2>4. x = [node |-> n, slot |-> "body", id |-> s.label_counter]
    OBVIOUS
  <2>5. CallOf(n, x)
    BY <1>2, <2>3 DEF CallOf, Leaves, Labels
  <2>6. GenIf(b, n) = Call(Emit(e, lines), n, "body", s.label_counter)
    BY <1>2, <2>1 DEF GenIf
  <2>7. lines \in Seq(Lines) /\ Seg(own2, lines, Reach(n), Enter(n, "body"))
    <3>1. own2[id] = n
      BY OwningIs
    <3>2. /\ other \in LabelSet
          /\ PlaceOf(own2, other) = IF Kids(n, "else") /= {} THEN Enter(n, "else") ELSE After(n)
      <4> HIDE DEF own2, id
      <4>1. /\ \A name \in LabelNames : Name(name, id) \in LabelSet
            /\ PlaceOf(own2, Name("else", id)) = Enter(n, "else")
            /\ PlaceOf(own2, Name("end", id)) = After(n)
        BY <2>1, <3>1, PlaceIs
      <4> QED
        BY <4>1 DEF LabelNames
    <3>3. PlaceOf(own2, other) = Enter(n, "else")
      BY <3>2 DEF Enter
    <3>4. /\ Succ(<<n, "cond">>, 0) = Enter(n, "else") /\ Succ(<<n, "cond">>, 1) = Enter(n, "body")
      BY DecidesIs
    <3>5. Same(<<n, "cond">>, Reach(n))
      <4>1. Same(Reach(n), <<n, "cond">>)
        BY <1>2, <2>1, ReachIs
      <4> QED
        BY <4>1 DEF Same
    <3>6. /\ Same(PlaceOf(own2, other), Succ(<<n, "cond">>, 0))
          /\ Same(Enter(n, "body"), Succ(<<n, "cond">>, 1 - 0))
      BY <3>3, <3>4 DEF Same
    <3>7. Je(other) = IF 0 = 0 THEN Je(other) ELSE Jne(other)
      OBVIOUS
    <3>8. n \in 0..Len(prog) /\ Kind(n) /= "switch"
      BY <2>1
    <3> HIDE DEF own2, other
    <3> QED
      BY <3>2, <3>5, <3>6, <3>7, <3>8, SegTest
  <2>8. own2 = Owning(s, n, own)
    OBVIOUS
  <2> HIDE DEF e, x, own2, lines
  <2>9. Ready(s, n, b, own)
    OBVIOUS
  <2>10. Follows(Call(Emit(e, lines), n, "body", s.label_counter), own2)
    BY ONLY <2>2, <2>4, <2>5, <2>7, <2>8, <2>9, NumberedCallFollows
  <2> QED
    BY <2>6, <2>10
<1> QED
  BY <1>1, <1>2

LEMMA LoopFollows ==
  ASSUME NEW s, NEW n, NEW b, NEW own, Ready(s, n, b, own), Kind(n) \in Loops,
         NEW e, e = EnterLoop(b, Kind(n)), NEW own2, own2 = Owning(s, n, own),
         NEW lines, lines \in Seq(Lines) /\ Seg(own2, lines, Reach(n), Enter(n, "body"))
  PROVE  Follows(Call(Emit(e, lines), n, "body", s.label_counter), own2)
<1> DEFINE x == [node |-> n, slot |-> "body", id |-> s.label_counter]
<1>1. Begun(s, n, b) /\ Kind(n) \in Loops
  BY ReadyIs
<1>2. x = [node |-> n, slot |-> "body", id |-> s.label_counter]
  OBVIOUS
<1>3. e = EnterLoop(b, Kind(n))
  OBVIOUS
<1> HIDE DEF x
<1>4. CallOf(n, x) /\ GenTypeOK(e) /\ e.code = s.code /\ e.calls = s.calls /\ e.at = n
  BY ONLY <1>1, <1>2, <1>3, LoopPushes
<1>5. /\ Ready(s, n, b, own) /\ own2 = Owning(s, n, own)
      /\ lines \in Seq(Lines) /\ Seg(own2, lines, Reach(n), Enter(n, "body"))
  OBVIOUS
<1> QED
  BY ONLY <1>2, <1>4, <1>5, NumberedCallFollows

(* A loop's test, in front of its body.                                    *)
LEMMA TestFollows ==
  ASSUME Body, NEW own, NEW n \in Nodes, Kind(n) \in Loops, n \in 0..Len(prog),
         prog[n].cond \notin {"zero", "none"},
         NEW l \in LabelSet, PlaceOf(own, l) = After(n)
  PROVE  /\ <<Eval(n, "cond"), Je(l)>> \in Seq(Lines)
         /\ Seg(own, <<Eval(n, "cond"), Je(l)>>, Test(n), Enter(n, "body"))
<1>1. Kind(n) /= "switch"
  BY DEF Loops
<1>2. Succ(<<n, "cond">>, 0) = After(n) /\ Succ(<<n, "cond">>, 1 - 0) = Enter(n, "body")
  <2>1. 1 - 0 = 1
    OBVIOUS
  <2> QED
    BY <2>1, DecidesIs
<1>3. Same(Test(n), <<n, "cond">>)
  BY TestIs
<1>4. Same(<<n, "cond">>, Test(n))
  BY <1>3 DEF Same
<1>5. /\ Same(PlaceOf(own, l), Succ(<<n, "cond">>, 0))
      /\ Same(Enter(n, "body"), Succ(<<n, "cond">>, 1 - 0))
  BY <1>2 DEF Same
<1>6. Je(l) = IF 0 = 0 THEN Je(l) ELSE Jne(l)
  OBVIOUS
<1> QED
  BY <1>1, <1>4, <1>5, <1>6, SegTest

LEMMA WhileFollows ==
  ASSUME NEW s, NEW n, NEW b, NEW own, Ready(s, n, b, own), Kind(n) = "while"
  PROVE  \E own2 : Follows(GenWhile(b, n), own2)
<1>1. /\ Body /\ n \in Nodes /\ n \in 0..Len(prog) /\ GenTypeOK(b) /\ CtxPushOk(b)
      /\ b.code = s.code /\ b.label_counter = s.label_counter /\ s.label_counter \in Nat
      /\ b.calls = s.calls /\ b.at = n /\ prog[n].cond /= "none"
      /\ Begun(s, n, b) /\ Follows(s, own)
  BY ReadyIs
<1>2. Same(Reach(n), Test(n))
  BY <1>1, ReachIs
<1>3. CASE Dead(n)
  <2>1. GenWhile(b, n) = b
    BY <1>3 DEF GenWhile
  <2>2. Same(Test(n), After(n))
    BY <1>1, <1>3, TestIs DEF Dead
  <2>3. Same(Reach(n), After(n))
    BY <1>2, <2>2 DEF Same
  <2>4. <<>> \in Seq(Lines) /\ Seg(own, <<>>, Reach(n), After(n))
    BY <2>3, SegNone
  <2>5. b.code = s.code \o <<>>
    BY <1>1 DEF GenTypeOK
  <2>6. Follows(b, own)
    BY ONLY <1>1, <2>4, <2>5, LeafFollows
  <2> QED
    BY <2>1, <2>6
<1>4. CASE ~Dead(n)
  <2> DEFINE id == s.label_counter
             e == EnterLoop(b, "while")
             end == Name("loop_end", id)
             test == <<Eval(n, "cond"), Je(end)>>
             start == <<Label(Name("loop_start", id))>>
             lines == <<Label(Name("loop_start", id)), Eval(n, "cond"), Je(end)>>
             own2 == Owning(s, n, own)
  <2>1. GenWhile(b, n) = Call(Emit(e, lines), n, "body", s.label_counter)
    BY <1>1, <1>4 DEF GenWhile
  <2>2. own2[id] = n /\ id \in Nat
    <3>1. own2[id] = n
      BY OwningIs
    <3> QED
      BY <1>1, <3>1
  <2>3. lines = start \o test
    OBVIOUS
  <2>4. lines \in Seq(Lines) /\ Seg(own2, lines, Reach(n), Enter(n, "body"))
    <3> HIDE DEF own2, id
    <3>1. /\ Name("loop_start", id) \in LabelSet /\ end \in LabelSet
          /\ PlaceOf(own2, Name("loop_start", id)) = Test(n)
          /\ PlaceOf(own2, end) = After(n)
      BY <2>2, PlaceIs DEF LabelNames
    <3>2. Kind(n) \in Loops /\ prog[n].cond \notin {"zero", "none"}
      BY <1>1, <1>4 DEF Loops, Dead, ConstTruth
    <3> HIDE DEF end
    <3>3. test \in Seq(Lines) /\ Seg(own2, test, Test(n), Enter(n, "body"))
      BY ONLY <1>1, <3>1, <3>2, TestFollows
    <3>4. /\ Same(PlaceOf(own2, Name("loop_start", id)), Reach(n))
          /\ Same(PlaceOf(own2, Name("loop_start", id)), Test(n))
      BY <1>2, <3>1 DEF Same
    <3>5. start \in Seq(Lines) /\ Seg(own2, start, Reach(n), Test(n))
      BY <3>1, <3>4, SegLabel
    <3> HIDE DEF start, test, lines
    <3>6. Seg(own2, start \o test, Reach(n), Enter(n, "body"))
      BY ONLY <3>3, <3>5, SegBoth
    <3>7. start \o test \in Seq(Lines)
      BY ONLY <3>3, <3>5
    <3> QED
      BY ONLY <2>3, <3>6, <3>7
  <2>5. /\ own2 = Owning(s, n, own) /\ Kind(n) \in Loops /\ e = EnterLoop(b, Kind(n))
        /\ Ready(s, n, b, own)
    BY DEF Loops
  <2> HIDE DEF e, lines, own2
  <2>6. Follows(Call(Emit(e, lines), n, "body", s.label_counter), own2)
    BY ONLY <2>4, <2>5, LoopFollows
  <2> QED
    BY <2>1, <2>6
<1> QED
  BY <1>3, <1>4

LEMMA DoWhileFollows ==
  ASSUME NEW s, NEW n, NEW b, NEW own, Ready(s, n, b, own), Kind(n) = "do"
  PROVE  \E own2 : Follows(GenDoWhile(b, n), own2)
<1> DEFINE id == s.label_counter
           e == EnterLoop(b, "do")
           lines == <<Label(Name("do_start", id))>>
           own2 == Owning(s, n, own)
<1>1. /\ Body /\ n \in Nodes /\ n \in 0..Len(prog) /\ CtxPushOk(b)
      /\ b.label_counter = s.label_counter /\ s.label_counter \in Nat
  BY ReadyIs
<1>2. GenDoWhile(b, n) = Call(Emit(e, lines), n, "body", s.label_counter)
  BY <1>1 DEF GenDoWhile
<1>3. own2[id] = n /\ id \in Nat
  BY <1>1, OwningIs, SMTT(30)
<1>4. lines \in Seq(Lines) /\ Seg(own2, lines, Reach(n), Enter(n, "body"))
  <2> HIDE DEF own2, id
  <2>1. Name("do_start", id) \in LabelSet /\ PlaceOf(own2, Name("do_start", id)) = Enter(n, "body")
    BY <1>3, PlaceIs DEF LabelNames
  <2>2. Same(Reach(n), Enter(n, "body"))
    BY <1>1, ReachIs
  <2>3. /\ Same(PlaceOf(own2, Name("do_start", id)), Reach(n))
        /\ Same(PlaceOf(own2, Name("do_start", id)), Enter(n, "body"))
    BY <2>1, <2>2 DEF Same
  <2> QED
    BY <2>1, <2>3, SegLabel
<1>5. /\ own2 = Owning(s, n, own) /\ Kind(n) \in Loops /\ e = EnterLoop(b, Kind(n))
      /\ Ready(s, n, b, own)
  BY DEF Loops
<1> HIDE DEF e, lines, own2
<1>6. Follows(Call(Emit(e, lines), n, "body", s.label_counter), own2)
  BY ONLY <1>4, <1>5, LoopFollows
<1> QED
  BY <1>2, <1>6

LEMMA ForFollows ==
  ASSUME NEW s, NEW n, NEW b, NEW own, Ready(s, n, b, own), Kind(n) = "for"
  PROVE  \E own2 : Follows(GenFor(b, n), own2)
<1> DEFINE id == s.label_counter
           init == IF prog[n].init THEN <<Eval(n, "init")>> ELSE <<>>
<1>1. /\ Body /\ n \in Nodes /\ n \in 0..Len(prog) /\ CtxPushOk(b)
      /\ b.label_counter = s.label_counter /\ s.label_counter \in Nat
      /\ Ready(s, n, b, own)
  BY ReadyIs
<1>2. ASSUME NEW o PROVE init \in Seq(Lines) /\ Seg(o, init, Reach(n), Test(n))
  <2>1. Same(Reach(n), IF prog[n].init THEN <<n, "init">> ELSE Test(n))
    BY <1>1, ReachIs
  <2>2. CASE prog[n].init
    <3>1. Succ(<<n, "init">>, 0) = Test(n)
      BY SuccIs
    <3>2. Same(<<n, "init">>, Reach(n)) /\ Same(Test(n), Succ(<<n, "init">>, 0))
      BY <2>1, <2>2, <3>1 DEF Same
    <3>3. <<Eval(n, "init")>> \in Seq(Lines) /\ Seg(o, <<Eval(n, "init")>>, Reach(n), Test(n))
      BY <1>1, <3>2, SegEval
    <3> QED
      BY <2>2, <3>3
  <2>3. CASE ~prog[n].init
    <3>1. <<>> \in Seq(Lines) /\ Seg(o, <<>>, Reach(n), Test(n))
      BY <2>1, <2>3, SegNone
    <3> QED
      BY <2>3, <3>1
  <2> QED
    BY <2>2, <2>3
<1>3. CASE Dead(n)
  <2>1. GenFor(b, n) = Emit(b, init)
    BY <1>3 DEF GenFor
  <2>2. Same(Test(n), After(n))
    BY <1>1, <1>3, TestIs DEF Dead
  <2> HIDE DEF init
  <2>3. init \in Seq(Lines) /\ Seg(own, init, Reach(n), After(n))
    BY <1>2, <2>2, SegTo
  <2>4. Follows(Emit(b, init), own)
    BY ONLY <1>1, <2>3, EmitFollows
  <2> QED
    BY <2>1, <2>4
<1>4. CASE ~Dead(n)
  <2> DEFINE e == EnterLoop(b, "for")
             start == <<Label(Name("for_start", id))>>
             end == Name("for_end", id)
             test == IF prog[n].cond = "none" THEN <<>> ELSE <<Eval(n, "cond"), Je(end)>>
             lines == init \o start \o test
             own2 == Owning(s, n, own)
  <2>1. GenFor(b, n) = Call(Emit(e, lines), n, "body", s.label_counter)
    BY <1>1, <1>4 DEF GenFor
  <2>2. own2[id] = n /\ id \in Nat
    BY <1>1, OwningIs, SMTT(30)
  <2>3. init \in Seq(Lines) /\ Seg(own2, init, Reach(n), Test(n))
    BY <1>2
  <2>4. lines \in Seq(Lines) /\ Seg(own2, lines, Reach(n), Enter(n, "body"))
    <3> HIDE DEF own2, id, init
    <3>1. /\ Name("for_start", id) \in LabelSet /\ end \in LabelSet
          /\ PlaceOf(own2, Name("for_start", id)) = Test(n)
          /\ PlaceOf(own2, end) = After(n)
      BY <2>2, PlaceIs DEF LabelNames
    <3>2. Kind(n) \in Loops /\ prog[n].cond /= "zero"
      BY <1>1, <1>4 DEF Loops, Dead, ConstTruth
    <3> HIDE DEF end
    <3>3. test \in Seq(Lines) /\ Seg(own2, test, Test(n), Enter(n, "body"))
      <4>1. CASE prog[n].cond = "none"
        <5>1. Same(Test(n), Enter(n, "body"))
          BY <1>1, <4>1, TestIs
        <5>2. <<>> \in Seq(Lines) /\ Seg(own2, <<>>, Test(n), Enter(n, "body"))
          BY <5>1, SegNone
        <5> QED
          BY <4>1, <5>2
      <4>2. CASE prog[n].cond /= "none"
        <5>1. prog[n].cond \notin {"zero", "none"}
          BY <3>2, <4>2
        <5>2. /\ <<Eval(n, "cond"), Je(end)>> \in Seq(Lines)
              /\ Seg(own2, <<Eval(n, "cond"), Je(end)>>, Test(n), Enter(n, "body"))
          BY ONLY <1>1, <3>1, <3>2, <5>1, TestFollows
        <5> QED
          BY <4>2, <5>2
      <4> QED
        BY <4>1, <4>2
    <3>4. Same(PlaceOf(own2, Name("for_start", id)), Test(n))
      BY <3>1 DEF Same
    <3>5. start \in Seq(Lines) /\ Seg(own2, start, Test(n), Test(n))
      BY <3>1, <3>4, SegLabel
    <3>6. lines = init \o start \o test
      OBVIOUS
    <3> HIDE DEF start, test, lines
    <3>7. Seg(own2, init \o start, Reach(n), Test(n)) /\ init \o start \in Seq(Lines)
      BY ONLY <2>3, <3>5, SegBoth
    <3>8. Seg(own2, (init \o start) \o test, Reach(n), Enter(n, "body"))
      BY ONLY <3>3, <3>7, SegBoth
    <3>9. (init \o start) \o test \in Seq(Lines)
      BY ONLY <3>3, <3>7
    <3> QED
      BY ONLY <3>6, <3>8, <3>9
  <2>5. /\ own2 = Owning(s, n, own) /\ Kind(n) \in Loops /\ e = EnterLoop(b, Kind(n))
        /\ Ready(s, n, b, own)
    BY DEF Loops
  <2> HIDE DEF e, lines, own2
  <2>6. Follows(Call(Emit(e, lines), n, "body", s.label_counter), own2)
    BY ONLY <2>4, <2>5, LoopFollows
  <2> QED
    BY <2>1, <2>6
<1> QED
  BY <1>3, <1>4

LEMMA SwitchFollows ==
  ASSUME NEW s, NEW n, NEW b, NEW own, Ready(s, n, b, own), Kind(n) = "switch"
  PROVE  \E own2 : Follows(GenSwitch(b, n), own2)
<1> DEFINE id == s.label_counter
           cases == CasesOf(n)
           matches == Tests(cases, id)
           otherwise == Jmp(Name(IF Collect(n) = cases THEN "switch_end" ELSE "default", id))
           m == Numbered(b, cases)
           e == EnterSwitch(m)
           x == [node |-> n, slot |-> "body", id |-> id]
           ctx == [kind |-> "switch", id |-> m.label_counter]
           lines == <<Eval(n, "cond")>> \o matches \o <<otherwise>>
           own2 == Owning(s, n, own)
<1>1. /\ Body /\ n \in Nodes /\ n \in 0..Len(prog) /\ GenTypeOK(b) /\ CtxPushOk(b)
      /\ b.code = s.code /\ b.label_counter = id /\ id \in Nat
      /\ b.calls = s.calls /\ b.at = n
  BY ReadyIs
<1>2. GenSwitch(b, n) = Call(Emit(e, lines), n, "body", s.label_counter)
  BY <1>1 DEF GenSwitch, Tests
<1>3. x \in Calls /\ x.node = n /\ x.slot = "body"
  BY <1>1 DEF Calls
<1>4. /\ x = [node |-> n, slot |-> "body", id |-> s.label_counter]
      /\ m = Numbered(b, CasesOf(n)) /\ e = EnterSwitch(m)
      /\ ctx = [kind |-> "switch", id |-> m.label_counter]
      /\ own2 = Owning(s, n, own) /\ cases = CasesOf(n) /\ matches = Tests(cases, id)
      /\ otherwise = Jmp(Name(IF Collect(n) = cases THEN "switch_end" ELSE "default", id))
  OBVIOUS
<1>5. own2[id] = n
  BY OwningIs
<1>6. Ready(s, n, b, own)
  OBVIOUS
<1> HIDE DEF x, m, e, ctx, own2, cases, matches, otherwise, id
<1>7. CallOf(n, x)
  BY <1>3 DEF CallOf, Leaves, Labels
<1>8. /\ GenTypeOK(m) /\ m.code = b.code /\ m.calls = b.calls /\ m.at = b.at
  BY <1>1, <1>4, NumberedIs
<1>9. /\ GenTypeOK(e) /\ e.code = m.code /\ e.calls = m.calls /\ e.at = m.at
  BY ONLY <1>4, <1>8, EnterSwitchIs
<1>10. GenTypeOK(e) /\ e.code = s.code /\ e.calls = s.calls /\ e.at = n
  BY <1>1, <1>8, <1>9
<1>11. Same(<<n, "cond">>, Reach(n))
  <2>1. Same(Reach(n), <<n, "cond">>)
    BY <1>1, ReachIs
  <2> QED
    BY <2>1 DEF Same
<1>12. Kind(n) = "switch"
  OBVIOUS
<1>13. lines \in Seq(Lines) /\ Seg(own2, lines, Reach(n), Enter(n, "body"))
  <2>1. /\ Body /\ n \in Nodes /\ id \in Nat /\ own2[id] = n
        /\ cases = CasesOf(n) /\ matches = Tests(cases, id)
        /\ otherwise = Jmp(Name(IF Collect(n) = cases THEN "switch_end" ELSE "default", id))
    BY <1>1, <1>4, <1>5
  <2>2. PICK p, q : p = Reach(n) /\ q = Enter(n, "body")
    OBVIOUS
  <2>3. Same(<<n, "cond">>, p)
    BY <1>11, <2>2
  <2>4. lines \in Seq(Lines) /\ Seg(own2, lines, p, q)
    BY ONLY <1>12, <2>1, <2>3, SegSwitch, Zenon
  <2> QED
    BY <2>2, <2>4
<1> HIDE DEF lines
<1>14. Follows(Call(Emit(e, lines), n, "body", s.label_counter), own2)
  BY ONLY <1>4, <1>6, <1>7, <1>10, <1>13, NumberedCallFollows
<1> QED
  BY <1>2, <1>14

(***************************************************************************)
(* The statements without a call.                                          *)
(***************************************************************************)
LEMMA AimsAt ==
  ASSUME Body, NEW calls \in Seq(Calls), NEW at \in 0..Len(prog), Path(calls, at),
         NEW n, Comes(calls, at, n), NEW kinds, NEW i \in DOMAIN calls,
         Kind(calls[i].node) \in kinds,
         \A m \in DOMAIN calls : m > i => Kind(calls[m].node) \notin kinds
  PROVE  Innermost(n, kinds) = calls[i].node
<1> DEFINE a == Innermost(n, kinds)
<1>1. /\ n \in 0..Len(prog)
      /\ Ancestors(n) = {calls[j].node : j \in DOMAIN calls}
  <2>1. n \in 1..Len(prog) /\ Ancestors(n) = {calls[j].node : j \in DOMAIN calls}
    BY Coming
  <2>2. 1..Len(prog) \subseteq 0..Len(prog)
    BY DEF Body
  <2> QED
    BY <2>1, <2>2
<1>2. calls[i].node \in Ancestors(n)
  BY <1>1
<1>3. /\ a \in Ancestors(n) /\ Kind(a) \in kinds
      /\ \A o \in Ancestors(n) : Kind(o) \in kinds => o <= a
  BY <1>1, <1>2, InnermostTyped
<1> HIDE DEF a
<1>4. PICK j \in DOMAIN calls : calls[j].node = a
  BY <1>1, <1>3
<1>5. ~ (j > i)
  BY <1>3, <1>4
<1>6. /\ Len(calls) \in Nat /\ DOMAIN calls = 1..Len(calls) /\ Len(prog) \in Nat
      /\ calls[i].node \in 0..Len(prog) /\ calls[j].node \in 0..Len(prog)
      /\ j < i <=> calls[j].node < calls[i].node
  BY PathFacts
<1>7. calls[i].node <= a
  BY <1>2, <1>3
<1>8. ~ (j < i)
  <2>1. a \in Int /\ calls[i].node \in Int
    BY <1>4, <1>6
  <2> QED
    BY <1>4, <1>6, <1>7, <2>1
<1>9. i = j
  <2>1. i \in Int /\ j \in Int
    BY <1>6
  <2> QED
    BY <1>5, <1>8, <2>1
<1> QED
  BY <1>4, <1>9 DEF a

LEMMA BreakFollows ==
  ASSUME NEW s, NEW n, NEW b, NEW own, Ready(s, n, b, own), Kind(n) = "break"
  PROVE  Follows(Emit(b, <<Jmp(BreakLabel(Last(b.break)))>>), own)
<1> DEFINE l == BreakLabel(Last(b.break))
<1>1. /\ Body /\ Generating(s) /\ Comes(s.calls, s.at, n) /\ n \in Nodes /\ b.break = s.break
      /\ Follows(s, own)
  BY ReadyIs, BegunIs
<1>2. /\ s.calls \in Seq(Calls) /\ s.at \in 0..Len(prog) /\ s.break \in Seq(Ctx)
      /\ Path(s.calls, s.at) /\ Tracks(s.break, s.calls, Breakable, CtxOf)
  <2>1. Tracks(s.break, s.calls, Breakable, CtxOf)
    BY <1>1 DEF Generating, Stacks
  <2> QED
    BY <1>1, <2>1, Begins
<1>3. \E a \in Ancestors(n) : Kind(a) \in Breakable
  BY <1>1 DEF Body, WellPlaced, Ancestors, Nodes
<1>4. Ancestors(n) = {s.calls[j].node : j \in DOMAIN s.calls}
  BY ONLY <1>1, <1>2, Coming
<1>5. PICK j \in DOMAIN s.calls : Kind(s.calls[j].node) \in Breakable
  BY <1>3, <1>4
<1>6. /\ s.break /= <<>>
      /\ \E i \in DOMAIN s.calls :
           /\ Kind(s.calls[i].node) \in Breakable /\ s.break[Len(s.break)] = CtxOf[s.calls[i]]
           /\ \A m \in DOMAIN s.calls : m > i => Kind(s.calls[m].node) \notin Breakable
  BY ONLY <1>2, <1>5, TracksLast
<1>7. PICK i \in DOMAIN s.calls :
        /\ Kind(s.calls[i].node) \in Breakable /\ s.break[Len(s.break)] = CtxOf[s.calls[i]]
        /\ \A m \in DOMAIN s.calls : m > i => Kind(s.calls[m].node) \notin Breakable
  BY <1>6
<1>8. s.calls[i] \in Calls /\ s.calls[i].id \in Nat
  <2>1. s.calls[i] \in Calls
    BY <1>2
  <2> QED
    BY <2>1 DEF Calls
<1>9. Last(b.break) = [kind |-> Kind(s.calls[i].node), id |-> s.calls[i].id]
  BY <1>1, <1>7, <1>8 DEF Last, CtxOf
<1>10. Innermost(n, Breakable) = s.calls[i].node
  BY ONLY <1>1, <1>2, <1>7, AimsAt
<1>11. own[s.calls[i].id] = s.calls[i].node
  <2>1. TakesId(s.calls[i])
    BY <1>7 DEF TakesId
  <2> QED
    BY <1>1, <2>1 DEF Follows, Owns
<1>12. l \in LabelSet /\ PlaceOf(own, l) = After(s.calls[i].node)
  <2> DEFINE name == CASE Kind(s.calls[i].node) = "while" -> "loop_end"
                       [] Kind(s.calls[i].node) = "do" -> "do_end"
                       [] Kind(s.calls[i].node) = "for" -> "for_end"
                       [] OTHER -> "switch_end"
  <2>1. l = Name(name, s.calls[i].id)
    BY <1>9 DEF BreakLabel
  <2>2. name \in {"loop_end", "do_end", "for_end", "switch_end"}
    OBVIOUS
  <2> HIDE DEF name, l
  <2>3. /\ \A k \in LabelNames : Name(k, s.calls[i].id) \in LabelSet
        /\ \A k \in {"loop_end", "do_end", "for_end", "switch_end"} :
             PlaceOf(own, Name(k, s.calls[i].id)) = After(s.calls[i].node)
    BY ONLY <1>8, <1>11, PlaceIs
  <2> QED
    BY <2>1, <2>2, <2>3 DEF LabelNames
<1> HIDE DEF l
<1>13. Same(Reach(n), After(Innermost(n, Breakable)))
  BY <1>1, ReachIs
<1>14. Same(PlaceOf(own, l), Reach(n))
  BY <1>10, <1>12, <1>13 DEF Same
<1>15. <<Jmp(l)>> \in Seq(Lines) /\ Seg(own, <<Jmp(l)>>, Reach(n), After(n))
  BY <1>12, <1>14, SegJmp
<1>16. Ready(s, n, b, own)
  OBVIOUS
<1>17. Follows(Emit(b, <<Jmp(l)>>), own)
  BY ONLY <1>15, <1>16, EmitFollows
<1> QED
  BY <1>17 DEF l

LEMMA ContinueFollows ==
  ASSUME NEW s, NEW n, NEW b, NEW own, Ready(s, n, b, own), Kind(n) = "continue"
  PROVE  Follows(Emit(b, <<Jmp(ContinueLabel(Last(b.continue)))>>), own)
<1> DEFINE l == ContinueLabel(Last(b.continue))
<1>1. /\ Body /\ Generating(s) /\ Comes(s.calls, s.at, n) /\ n \in Nodes /\ b.continue = s.continue
      /\ Follows(s, own)
  BY ReadyIs, BegunIs
<1>2. /\ s.calls \in Seq(Calls) /\ s.at \in 0..Len(prog) /\ s.continue \in Seq(Ctx)
      /\ Path(s.calls, s.at) /\ Tracks(s.continue, s.calls, Loops, CtxOf)
  <2>1. Tracks(s.continue, s.calls, Loops, CtxOf)
    BY <1>1 DEF Generating, Stacks
  <2> QED
    BY <1>1, <2>1, Begins
<1>3. \E a \in Ancestors(n) : Kind(a) \in Loops
  BY <1>1 DEF Body, WellPlaced, Ancestors, Nodes
<1>4. Ancestors(n) = {s.calls[j].node : j \in DOMAIN s.calls}
  BY ONLY <1>1, <1>2, Coming
<1>5. PICK j \in DOMAIN s.calls : Kind(s.calls[j].node) \in Loops
  BY <1>3, <1>4
<1>6. /\ s.continue /= <<>>
      /\ \E i \in DOMAIN s.calls :
           /\ Kind(s.calls[i].node) \in Loops /\ s.continue[Len(s.continue)] = CtxOf[s.calls[i]]
           /\ \A m \in DOMAIN s.calls : m > i => Kind(s.calls[m].node) \notin Loops
  BY ONLY <1>2, <1>5, TracksLast, SMTT(30)
<1>7. PICK i \in DOMAIN s.calls :
        /\ Kind(s.calls[i].node) \in Loops /\ s.continue[Len(s.continue)] = CtxOf[s.calls[i]]
        /\ \A m \in DOMAIN s.calls : m > i => Kind(s.calls[m].node) \notin Loops
  BY <1>6
<1>8. s.calls[i] \in Calls /\ s.calls[i].id \in Nat
  <2>1. s.calls[i] \in Calls
    BY <1>2
  <2> QED
    BY <2>1 DEF Calls
<1>9. Last(b.continue) = [kind |-> Kind(s.calls[i].node), id |-> s.calls[i].id]
  BY <1>1, <1>7, <1>8 DEF Last, CtxOf
<1>10. Innermost(n, Loops) = s.calls[i].node
  BY ONLY <1>1, <1>2, <1>7, AimsAt
<1>11. own[s.calls[i].id] = s.calls[i].node
  <2>1. TakesId(s.calls[i])
    BY <1>7 DEF TakesId, Breakable
  <2> QED
    BY <1>1, <2>1 DEF Follows, Owns
<1> DEFINE a == s.calls[i].node
<1>12. l \in LabelSet /\ PlaceOf(own, l) = IF Kind(a) = "while" THEN Test(a) ELSE Again(a)
  <2> DEFINE name == CASE Kind(a) = "do" -> "do_cont"
                       [] Kind(a) = "for" -> "for_cont"
                       [] OTHER -> "loop_start"
  <2>1. l = Name(name, s.calls[i].id)
    BY <1>9 DEF ContinueLabel
  <2>2. \/ Kind(a) = "while" /\ name = "loop_start"
        \/ Kind(a) /= "while" /\ name \in {"do_cont", "for_cont"}
    BY <1>7 DEF Loops
  <2> HIDE DEF name, l
  <2>3. /\ \A k \in LabelNames : Name(k, s.calls[i].id) \in LabelSet
        /\ PlaceOf(own, Name("loop_start", s.calls[i].id)) = Test(a)
        /\ \A k \in {"do_cont", "for_cont"} : PlaceOf(own, Name(k, s.calls[i].id)) = Again(a)
    BY ONLY <1>8, <1>11, PlaceIs
  <2> QED
    BY <2>1, <2>2, <2>3 DEF LabelNames
<1>13. Same(Reach(n), Again(a))
  BY <1>1, <1>10, ReachIs
<1>14. Same(PlaceOf(own, l), Reach(n))
  <2>1. CASE Kind(a) = "while"
    <3>1. a \in Nodes
      <4>1. a \in Ancestors(n) /\ a /= 0
        BY <1>4, <2>1 DEF Kind
      <4>2. Ancestors(n) \subseteq 0..Len(prog) /\ Nodes = 1..Len(prog) /\ Len(prog) \in Nat
        <5>1. /\ \A h \in DOMAIN s.calls : s.calls[h].node \in 0..Len(prog)
              /\ Nodes = 1..Len(prog) /\ Len(prog) \in Nat
          BY ONLY <1>1, <1>2, PathFacts
        <5> QED
          BY <1>4, <5>1
      <4> QED
        BY <4>1, <4>2
    <3>2. Same(Again(a), Test(a))
      BY <1>1, <2>1, <3>1, AgainIs
    <3> QED
      BY <1>12, <1>13, <2>1, <3>2 DEF Same
  <2>2. CASE Kind(a) /= "while"
    BY <1>12, <1>13, <2>2 DEF Same
  <2> QED
    BY <2>1, <2>2
<1> HIDE DEF l
<1>15. <<Jmp(l)>> \in Seq(Lines) /\ Seg(own, <<Jmp(l)>>, Reach(n), After(n))
  BY <1>12, <1>14, SegJmp
<1>16. Ready(s, n, b, own)
  OBVIOUS
<1>17. Follows(Emit(b, <<Jmp(l)>>), own)
  BY ONLY <1>15, <1>16, EmitFollows
<1> QED
  BY <1>17 DEF l

LEMMA ExprFollows ==
  ASSUME NEW s, NEW n, NEW b, NEW own, Ready(s, n, b, own), Kind(n) = "expr"
  PROVE  Follows(Emit(b, <<Eval(n, "expr")>>), own)
<1> DEFINE lines == <<Eval(n, "expr")>>
<1>1. Body /\ n \in Nodes /\ n \in 0..Len(prog) /\ Ready(s, n, b, own)
  BY ReadyIs
<1>2. Same(Reach(n), <<n, "expr">>)
  BY <1>1, ReachIs
<1>3. Succ(<<n, "expr">>, 0) = After(n)
  BY SuccIs
<1>4. Same(<<n, "expr">>, Reach(n)) /\ Same(After(n), Succ(<<n, "expr">>, 0))
  BY <1>2, <1>3 DEF Same
<1>5. lines \in Seq(Lines) /\ Seg(own, lines, Reach(n), After(n))
  BY <1>1, <1>4, SegEval
<1> HIDE DEF lines
<1>6. Follows(Emit(b, lines), own)
  BY ONLY <1>1, <1>5, EmitFollows
<1> QED
  BY <1>6 DEF lines

LEMMA DeclFollows ==
  ASSUME NEW s, NEW n, NEW b, NEW own, Ready(s, n, b, own), Kind(n) = "decl"
  PROVE  Follows(b, own)
<1> DEFINE lines == <<>>
<1>1. /\ Body /\ n \in Nodes /\ Begun(s, n, b) /\ Follows(s, own) /\ GenTypeOK(b)
      /\ b.code = s.code /\ b.calls = s.calls /\ b.at = n
  BY ReadyIs
<1>2. Same(Reach(n), After(n))
  BY <1>1, ReachIs
<1>3. lines \in Seq(Lines) /\ Seg(own, lines, Reach(n), After(n))
  BY <1>2, SegNone
<1>4. b.code = s.code \o lines
  BY <1>1 DEF GenTypeOK
<1> HIDE DEF lines
<1> QED
  BY ONLY <1>1, <1>3, <1>4, LeafFollows

LEMMA ReturnFollows ==
  ASSUME NEW s, NEW n, NEW b, NEW own, Ready(s, n, b, own), Kind(n) = "return"
  PROVE  Follows(GenReturn(b, n), own)
<1> DEFINE lines == <<Eval(n, "return"), Ret>>
           e == Emit(b, lines)
           t == GenReturn(b, n)
<1>1. /\ Body /\ n \in Nodes /\ n \in 0..Len(prog) /\ Begun(s, n, b) /\ Follows(s, own)
      /\ GenTypeOK(b) /\ b.code = s.code /\ b.calls = s.calls /\ b.at = n
  BY ReadyIs
<1>2. Same(Reach(n), <<n, "return">>)
  BY <1>1, ReachIs
<1>3. Same(<<n, "return">>, Reach(n))
  BY <1>2 DEF Same
<1>4. lines \in Seq(Lines) /\ Seg(own, lines, Reach(n), After(n))
  BY <1>1, <1>3, SegReturn
<1>5. t = [e EXCEPT !.ends = TRUE] /\ e = Emit(b, lines)
  BY DEF GenReturn
<1> HIDE DEF lines, e, t
<1>6. GenTypeOK(e) /\ e.code = b.code \o lines /\ e.calls = b.calls /\ e.at = b.at
  BY ONLY <1>1, <1>4, <1>5, EmitIs
<1>7. t.code = e.code /\ t.calls = e.calls /\ t.at = e.at
  BY ONLY <1>5, <1>6 DEF GenTypeOK
<1>8. t.code = s.code \o lines /\ t.calls = s.calls /\ t.at = n
  BY <1>1, <1>6, <1>7
<1>9. Follows(t, own)
  BY ONLY <1>1, <1>4, <1>8, LeafFollows
<1> QED
  BY <1>9 DEF t

LEMMA LabelFollows ==
  ASSUME NEW s, NEW n, NEW b, NEW own, Ready(s, n, b, own), Kind(n) \in Labels,
         NEW l, \/ Kind(n) = "case" /\ l = CaseName(Last(b.switch), b.case_index[n])
                \/ Kind(n) = "default" /\ l = Name("default", Last(b.switch))
  PROVE  Follows(Emit(b, <<Label(l)>>), own)
<1>1. /\ Body /\ Generating(s) /\ Comes(s.calls, s.at, n) /\ n \in Nodes
      /\ b.switch = s.switch /\ b.case_index = s.case_index /\ Follows(s, own)
  BY ReadyIs, BegunIs
<1>2. /\ s.calls \in Seq(Calls) /\ s.at \in 0..Len(prog) /\ s.switch \in Seq(Nat)
      /\ Path(s.calls, s.at) /\ Tracks(s.switch, s.calls, {"switch"}, IdOf)
      /\ s.label_counter \in Nat /\ Ids(s.calls, s.label_counter)
  <2>1. Tracks(s.switch, s.calls, {"switch"}, IdOf)
    BY <1>1 DEF Generating, Stacks
  <2> QED
    BY <1>1, <2>1, Begins
<1>3. Kind(n) \in Labels
  OBVIOUS
<1>4. /\ s.switch /= <<>>
      /\ \E i \in DOMAIN s.calls : /\ Kind(s.calls[i].node) = "switch"
                                   /\ n \in Collect(s.calls[i].node)
                                   /\ s.switch[Len(s.switch)] = s.calls[i].id
  BY ONLY <1>1, <1>2, <1>3, LastSwitch, ZenonT(30)
<1>5. PICK i \in DOMAIN s.calls : /\ Kind(s.calls[i].node) = "switch"
                                  /\ n \in Collect(s.calls[i].node)
                                  /\ s.switch[Len(s.switch)] = s.calls[i].id
  BY <1>4
<1> DEFINE a == s.calls[i].node
           id == s.calls[i].id
           cases == CasesOf(a)
<1>6. Last(b.switch) = id
  BY <1>1, <1>5 DEF Last
<1>7. own[id] = a
  <2>1. TakesId(s.calls[i])
    BY <1>5 DEF TakesId, Breakable
  <2> QED
    BY <1>1, <2>1 DEF Follows, Owns
<1>8. l \in LabelSet
  <2>1. \A m \in DOMAIN s.calls : Kind(s.calls[m].node) = "switch" =>
          \A c \in Collect(s.calls[m].node) :
            LabelIn(s.calls[m].node, s.calls[m].id, c) \in LabelSet
    BY ONLY <1>1, <1>2, SwitchLabels
  <2>2. Kind(n) = "case" => b.case_index[n] = Index(cases, n)
    <3>1. Numbering(s.calls, s.case_index)
      BY <1>1 DEF Generating
    <3>2. Kind(n) = "case" => n \in CasesOf(s.calls[i].node)
      BY <1>5 DEF CasesOf
    <3> QED
      BY <1>1, <1>5, <3>1, <3>2 DEF Numbering
  <2>3. l = LabelIn(s.calls[i].node, s.calls[i].id, n)
    BY <1>6, <2>2 DEF LabelIn
  <2> QED
    BY <1>5, <2>1, <2>3
<1>9. PlaceOf(own, l) = After(n)
  <2>1. CASE Kind(n) = "case"
    <3>1. Numbering(s.calls, s.case_index) /\ n \in cases
      BY <1>1, <1>5, <2>1 DEF Generating, CasesOf
    <3>2. b.case_index[n] = Index(cases, n)
      BY <1>1, <1>5, <3>1 DEF Numbering
    <3>3. Len(prog) \in Nat /\ cases \in SUBSET (1..Len(prog))
      BY <1>1, CollectIs
    <3>4. CaseAt(cases, Index(cases, n)) = n
      <4> DEFINE k == Index(cases, n)
      <4> HIDE DEF cases
      <4>1. k \in 0..(Cardinality(cases) - 1)
        BY <3>1, <3>3, IndexIs
      <4>2. CaseAt(cases, k) \in cases /\ Index(cases, CaseAt(cases, k)) = k
        BY <3>3, <4>1, IndexIs
      <4>3. \A c, d \in cases : Index(cases, c) = Index(cases, d) => c = d
        BY <3>3, IndexIs
      <4> QED
        BY <3>1, <4>2, <4>3
    <3>5. l.name = "case" /\ l.id = id /\ l.index = Index(cases, n)
      BY <1>6, <2>1, <3>2 DEF CaseName
    <3> HIDE DEF id
    <3> QED
      BY <1>7, <3>4, <3>5 DEF PlaceOf
  <2>2. CASE Kind(n) = "default"
    <3>1. \A d \in Defaults(a) : d = n
      <4>1. a \in Nodes
        BY ONLY <1>1, <1>2, <1>5, SwitchLabels
      <4> QED
        BY <1>1, <1>5, <2>2, <4>1 DEF Defaults, Body, OneDefault, Collect
    <3>2. Defaults(a) = {n}
      BY <1>5, <2>2, <3>1 DEF Defaults
    <3>3. Min({n}) = n
      <4>1. {n} \in SUBSET Nat
        BY <1>1, Begins
      <4> QED
        BY <4>1, MinIs
    <3>4. l.name = "default" /\ l.id = id
      BY <1>6, <2>2 DEF Name
    <3> HIDE DEF id
    <3> QED
      BY <1>7, <3>2, <3>3, <3>4 DEF PlaceOf
  <2> QED
    BY <2>1, <2>2
<1>10. Same(Reach(n), After(n))
  BY <1>1, <1>3, ReachIs
<1>11. Same(PlaceOf(own, l), Reach(n)) /\ Same(PlaceOf(own, l), After(n))
  BY <1>9, <1>10 DEF Same
<1>12. <<Label(l)>> \in Seq(Lines) /\ Seg(own, <<Label(l)>>, Reach(n), After(n))
  BY <1>8, <1>11, SegLabel
<1>13. Ready(s, n, b, own)
  OBVIOUS
<1> QED
  BY ONLY <1>12, <1>13, EmitFollows

LEMMA StmtFollows ==
  ASSUME NEW s, NEW n, NEW b, NEW own, Ready(s, n, b, own)
  PROVE  \E own2 : Follows(GenStmtOne(b, n), own2)
<1>1. n \in Nodes /\ n /= 0 /\ Kind(n) = prog[n].kind /\ prog[n] \in Node
  <2>1. n \in Nodes /\ n /= 0 /\ Body
    BY ReadyIs
  <2> QED
    BY <2>1 DEF Body, Kind, Nodes
<1>2. Kind(n) \in Leaves \cup Breakable \cup {"if", "block"}
  BY <1>1 DEF Node, StmtKinds
<1>3. CASE Kind(n) = "block"
  BY <1>3, BlockFollows DEF GenStmtOne
<1>4. CASE Kind(n) = "decl"
  BY <1>4, DeclFollows DEF GenStmtOne
<1>5. CASE Kind(n) = "if"
  BY <1>5, IfFollows DEF GenStmtOne
<1>6. CASE Kind(n) = "while"
  BY <1>6, WhileFollows DEF GenStmtOne
<1>7. CASE Kind(n) = "do"
  BY <1>7, DoWhileFollows DEF GenStmtOne
<1>8. CASE Kind(n) = "for"
  BY <1>8, ForFollows DEF GenStmtOne
<1>9. CASE Kind(n) = "switch"
  BY <1>9, SwitchFollows DEF GenStmtOne
<1>10. CASE Kind(n) = "break"
  BY <1>10, BreakFollows DEF GenStmtOne
<1>11. CASE Kind(n) = "continue"
  BY <1>11, ContinueFollows DEF GenStmtOne
<1>12. CASE Kind(n) = "return"
  BY <1>12, ReturnFollows DEF GenStmtOne
<1>13. CASE Kind(n) = "case"
  BY <1>13, LabelFollows DEF GenStmtOne, Labels
<1>14. CASE Kind(n) = "default"
  BY <1>14, LabelFollows DEF GenStmtOne, Labels
<1>15. CASE Kind(n) = "expr"
  BY <1>15, ExprFollows DEF GenStmtOne
<1> QED
  BY <1>2, <1>3, <1>4, <1>5, <1>6, <1>7, <1>8, <1>9, <1>10, <1>11, <1>12, <1>13, <1>14, <1>15
     DEF Leaves, Breakable, Loops, Labels

(***************************************************************************)
(* After the call.                                                         *)
(***************************************************************************)
Closes(s, top, r, own) == Returning(s, top, r) /\ Follows(s, own) /\ Testable /\ Finished

LEMMA ClosesIs ==
  ASSUME NEW s, NEW top, NEW r, NEW own, Closes(s, top, r, own)
  PROVE  /\ Returning(s, top, r) /\ Follows(s, own) /\ Body
         /\ top.node \in Nodes /\ top.node \in 0..Len(prog) /\ top.id \in Nat
         /\ TakesId(top) => own[top.id] = top.node
         /\ Kind(top.node) \in {"while", "do"} => prog[top.node].cond /= "none"
<1>1. Returning(s, top, r) /\ Follows(s, own) /\ Testable /\ Finished
  BY DEF Closes
<1>2. /\ Body /\ Generating(s) /\ top = s.calls[Len(s.calls)]
      /\ top.node \in 0..Len(prog) /\ top.node /= 0 /\ top.id \in Nat
  BY <1>1, ReturningIs
<1>3. top.node \in Nodes
  BY <1>2 DEF Body, Nodes
<1>4. TakesId(top) => own[top.id] = top.node
  <2>1. s.calls \in Seq(Calls) /\ s.calls /= <<>>
    BY <1>2, Begins
  <2>2. Len(s.calls) \in DOMAIN s.calls
    BY ONLY <2>1
  <2> QED
    BY <1>1, <1>2, <2>2 DEF Follows, Owns
<1> QED
  BY <1>1, <1>2, <1>3, <1>4 DEF Testable

(* The block, and the if that keeps one arm.                               *)
LEMMA NothingFollows ==
  ASSUME NEW s, NEW top, NEW r, NEW own, Closes(s, top, r, own), Kind(top.node) \notin Loops
  PROVE  Follows(r, own)
<1> DEFINE lines == <<>>
<1>1. /\ Returning(s, top, r) /\ Follows(s, own) /\ GenTypeOK(r)
      /\ r.code = s.code /\ r.calls = Front(s.calls) /\ r.at = s.at
  BY ClosesIs, ReturningIs
<1>2. /\ lines \in Seq(Lines)
      /\ Seg(own, lines, IF Kind(top.node) \in Loops THEN Again(top.node) ELSE After(top.node),
             After(top.node))
  <2>1. Same(After(top.node), After(top.node))
    BY DEF Same
  <2> QED
    BY <2>1, SegNone
<1>3. r.code = s.code \o lines
  BY <1>1 DEF GenTypeOK
<1> HIDE DEF lines
<1> QED
  BY ONLY <1>1, <1>2, <1>3, EndFollows

LEMMA LoopEndFollows ==
  ASSUME NEW s, NEW top, NEW r, NEW own, Closes(s, top, r, own), Kind(top.node) \in Loops,
         NEW lines,
         lines \in Seq(Lines) /\ Seg(own, lines, Again(top.node), After(top.node)),
         NEW t, t = LeaveLoop(Emit(r, lines))
  PROVE  Follows(t, own)
<1> DEFINE e == Emit(r, lines)
<1>1. Returning(s, top, r) /\ Follows(s, own)
  BY ClosesIs
<1>2. /\ GenTypeOK(r) /\ r.code = s.code /\ r.calls = Front(s.calls) /\ r.at = s.at
      /\ Front(r.break) \in Seq(Ctx) /\ Front(r.continue) \in Seq(Ctx)
  BY <1>1, ReturningIs DEF Breakable
<1>3. /\ GenTypeOK(e) /\ e.code = r.code \o lines
      /\ e.break = r.break /\ e.continue = r.continue /\ e.calls = r.calls /\ e.at = r.at
  BY <1>2, EmitIs
<1>4. t = LeaveLoop(e)
  OBVIOUS
<1> HIDE DEF e
<1>5. t.code = e.code /\ t.calls = e.calls /\ t.at = e.at
  <2>1. Front(e.break) \in Seq(Ctx) /\ Front(e.continue) \in Seq(Ctx)
    BY <1>2, <1>3
  <2> QED
    BY ONLY <1>3, <1>4, <2>1, LeaveLoopIs
<1>6. t.code = s.code \o lines /\ t.calls = Front(s.calls) /\ t.at = s.at
  BY <1>2, <1>3, <1>5
<1>7. /\ lines \in Seq(Lines)
      /\ Seg(own, lines, IF Kind(top.node) \in Loops THEN Again(top.node) ELSE After(top.node),
             After(top.node))
  OBVIOUS
<1> QED
  BY ONLY <1>1, <1>6, <1>7, EndFollows

LEMMA SegThen ==
  ASSUME NEW own, NEW p, NEW q, NEW r, NEW a, a \in Seq(Lines) /\ Seg(own, a, p, q),
         NEW b, b \in Seq(Lines) /\ Seg(own, b, q, r), NEW c, c = a \o b
  PROVE  c \in Seq(Lines) /\ Seg(own, c, p, r)
<1>1. a \o b \in Seq(Lines)
  OBVIOUS
<1>2. Seg(own, a \o b, p, r)
  BY SegBoth
<1> QED
  BY <1>1, <1>2

LEMMA EndWhileFollows ==
  ASSUME NEW s, NEW top, NEW r, NEW own, Closes(s, top, r, own), Kind(top.node) = "while"
  PROVE  Follows(EndWhile(r, top), own)
<1> DEFINE n == top.node
           start == Name("loop_start", top.id)
           end == Name("loop_end", top.id)
           lines == <<Jmp(start), Label(end)>>
<1>1. Body /\ n \in Nodes /\ top.id \in Nat /\ own[top.id] = n /\ Kind(n) \in Loops
  BY ClosesIs DEF TakesId, Breakable, Loops
<1>2. /\ start \in LabelSet /\ end \in LabelSet
      /\ PlaceOf(own, start) = Test(n) /\ PlaceOf(own, end) = After(n)
  BY <1>1, PlaceIs DEF LabelNames
<1>3. EndWhile(r, top) = LeaveLoop(Emit(r, lines))
  BY DEF EndWhile
<1>4. lines = <<Jmp(start)>> \o <<Label(end)>>
  BY Pairs
<1> HIDE DEF start, end
<1>5. Same(Again(n), Test(n))
  BY <1>1, AgainIs
<1>6. Same(PlaceOf(own, start), Again(n)) /\ Same(PlaceOf(own, end), After(n))
  BY <1>2, <1>5 DEF Same
<1>7. <<Jmp(start)>> \in Seq(Lines) /\ Seg(own, <<Jmp(start)>>, Again(n), After(n))
  BY <1>2, <1>6, SegJmp
<1>8. <<Label(end)>> \in Seq(Lines) /\ Seg(own, <<Label(end)>>, After(n), After(n))
  BY <1>2, <1>6, SegLabel
<1>9. lines \in Seq(Lines) /\ Seg(own, lines, Again(n), After(n))
  <2> DEFINE a == <<Jmp(start)>>
             c == <<Label(end)>>
  <2>1. /\ a \in Seq(Lines) /\ Seg(own, a, Again(n), After(n))
        /\ c \in Seq(Lines) /\ Seg(own, c, After(n), After(n)) /\ lines = a \o c
    BY <1>4, <1>7, <1>8
  <2> HIDE DEF a, c, lines
  <2> QED
    BY ONLY <2>1, SegThen
<1>10. Closes(s, top, r, own)
  OBVIOUS
<1> HIDE DEF lines
<1> QED
  BY <1>1, <1>3, <1>9, <1>10, LoopEndFollows

LEMMA EndDoWhileFollows ==
  ASSUME NEW s, NEW top, NEW r, NEW own, Closes(s, top, r, own), Kind(top.node) = "do"
  PROVE  Follows(EndDoWhile(r, top), own)
<1> DEFINE n == top.node
           start == Name("do_start", top.id)
           cont == Name("do_cont", top.id)
           end == Name("do_end", top.id)
           again == IF Dead(n) THEN <<>> ELSE <<Eval(n, "cond"), Jne(start)>>
           lines == <<Label(cont)>> \o again \o <<Label(end)>>
<1>1. /\ Body /\ n \in Nodes /\ n \in 0..Len(prog) /\ top.id \in Nat /\ own[top.id] = n
      /\ Kind(n) \in Loops /\ Kind(n) /= "switch" /\ Kind(n) = "do" /\ prog[n].cond /= "none"
  BY ClosesIs DEF TakesId, Breakable, Loops
<1>2. /\ start \in LabelSet /\ cont \in LabelSet /\ end \in LabelSet
      /\ PlaceOf(own, start) = Enter(n, "body") /\ PlaceOf(own, cont) = Again(n)
      /\ PlaceOf(own, end) = After(n)
  BY <1>1, PlaceIs DEF LabelNames
<1>3. EndDoWhile(r, top) = LeaveLoop(Emit(r, lines))
  BY DEF EndDoWhile
<1>4. Closes(s, top, r, own)
  OBVIOUS
<1> HIDE DEF start, cont, end
<1>5. Same(Again(n), Test(n))
  BY <1>1, AgainIs
<1>6. again \in Seq(Lines) /\ Seg(own, again, Test(n), After(n))
  <2>1. CASE Dead(n)
    <3>1. Same(Test(n), After(n))
      BY <1>1, <2>1, TestIs DEF Dead
    <3>2. <<>> \in Seq(Lines) /\ Seg(own, <<>>, Test(n), After(n))
      BY <3>1, SegNone
    <3> QED
      BY <2>1, <3>2
  <2>2. CASE ~Dead(n)
    <3>1. Same(Test(n), <<n, "cond">>)
      BY <1>1, <2>2, TestIs DEF Dead, ConstTruth
    <3>2. Succ(<<n, "cond">>, 1) = Enter(n, "body") /\ Succ(<<n, "cond">>, 1 - 1) = After(n)
      <4>1. 1 - 1 = 0
        OBVIOUS
      <4> QED
        BY <1>1, <4>1, DecidesIs
    <3>3. /\ Same(<<n, "cond">>, Test(n))
          /\ Same(PlaceOf(own, start), Succ(<<n, "cond">>, 1))
          /\ Same(After(n), Succ(<<n, "cond">>, 1 - 1))
      BY <1>2, <3>1, <3>2 DEF Same
    <3>4. Jne(start) = IF 1 = 0 THEN Je(start) ELSE Jne(start)
      OBVIOUS
    <3>5. /\ <<Eval(n, "cond"), Jne(start)>> \in Seq(Lines)
          /\ Seg(own, <<Eval(n, "cond"), Jne(start)>>, Test(n), After(n))
      BY <1>1, <1>2, <3>3, <3>4, SegTest
    <3> QED
      BY <2>2, <3>5
  <2> QED
    BY <2>1, <2>2
<1>7. <<Label(cont)>> \in Seq(Lines) /\ Seg(own, <<Label(cont)>>, Again(n), Test(n))
  <2>1. Same(PlaceOf(own, cont), Again(n)) /\ Same(PlaceOf(own, cont), Test(n))
    BY <1>2, <1>5 DEF Same
  <2> QED
    BY <1>2, <2>1, SegLabel
<1>8. <<Label(end)>> \in Seq(Lines) /\ Seg(own, <<Label(end)>>, After(n), After(n))
  <2>1. Same(PlaceOf(own, end), After(n))
    BY <1>2 DEF Same
  <2> QED
    BY <1>2, <2>1, SegLabel
<1>9. lines \in Seq(Lines) /\ Seg(own, lines, Again(n), After(n))
  <2> DEFINE a == <<Label(cont)>>
             c == <<Label(end)>>
  <2>1. lines = a \o again \o c
    OBVIOUS
  <2> HIDE DEF a, again, c, lines
  <2>2. /\ a \in Seq(Lines) /\ Seg(own, a, Again(n), Test(n))
        /\ c \in Seq(Lines) /\ Seg(own, c, After(n), After(n))
    BY <1>7, <1>8 DEF a, c
  <2>3. a \o again \in Seq(Lines) /\ Seg(own, a \o again, Again(n), After(n))
    BY ONLY <1>6, <2>2, SegBoth
  <2>4. (a \o again) \o c \in Seq(Lines)
    BY ONLY <2>2, <2>3
  <2>5. Seg(own, (a \o again) \o c, Again(n), After(n))
    BY ONLY <2>2, <2>3, SegBoth
  <2> QED
    BY <2>1, <2>4, <2>5
<1> HIDE DEF lines
<1> QED
  BY <1>1, <1>3, <1>4, <1>9, LoopEndFollows

LEMMA EndForFollows ==
  ASSUME NEW s, NEW top, NEW r, NEW own, Closes(s, top, r, own), Kind(top.node) = "for"
  PROVE  Follows(EndFor(r, top), own)
<1> DEFINE n == top.node
           start == Name("for_start", top.id)
           cont == Name("for_cont", top.id)
           end == Name("for_end", top.id)
           step == IF prog[n].step THEN <<Eval(n, "step")>> ELSE <<>>
           tail == <<Jmp(start), Label(end)>>
           lines == <<Label(cont)>> \o step \o tail
<1>1. /\ Body /\ n \in Nodes /\ n \in 0..Len(prog) /\ top.id \in Nat /\ own[top.id] = n
      /\ Kind(n) \in Loops /\ Kind(n) = "for"
  BY ClosesIs DEF TakesId, Breakable, Loops
<1>2. /\ start \in LabelSet /\ cont \in LabelSet /\ end \in LabelSet
      /\ PlaceOf(own, start) = Test(n) /\ PlaceOf(own, cont) = Again(n)
      /\ PlaceOf(own, end) = After(n)
  BY <1>1, PlaceIs DEF LabelNames
<1>3. EndFor(r, top) = LeaveLoop(Emit(r, lines))
  BY DEF EndFor
<1>4. Closes(s, top, r, own)
  OBVIOUS
<1>5. tail = <<Jmp(start)>> \o <<Label(end)>>
  BY Pairs
<1> HIDE DEF start, cont, end
<1>6. step \in Seq(Lines) /\ Seg(own, step, Again(n), Test(n))
  <2>1. Same(Again(n), IF prog[n].step THEN <<n, "step">> ELSE Test(n))
    BY <1>1, AgainIs
  <2>2. CASE prog[n].step
    <3>1. Succ(<<n, "step">>, 0) = Test(n)
      BY SuccIs
    <3>2. Same(<<n, "step">>, Again(n)) /\ Same(Test(n), Succ(<<n, "step">>, 0))
      BY <2>1, <2>2, <3>1 DEF Same
    <3>3. <<Eval(n, "step")>> \in Seq(Lines) /\ Seg(own, <<Eval(n, "step")>>, Again(n), Test(n))
      BY <1>1, <3>2, SegEval
    <3> QED
      BY <2>2, <3>3
  <2>3. CASE ~prog[n].step
    <3>1. <<>> \in Seq(Lines) /\ Seg(own, <<>>, Again(n), Test(n))
      BY <2>1, <2>3, SegNone
    <3> QED
      BY <2>3, <3>1
  <2> QED
    BY <2>2, <2>3
<1>7. <<Label(cont)>> \in Seq(Lines) /\ Seg(own, <<Label(cont)>>, Again(n), Again(n))
  <2>1. Same(PlaceOf(own, cont), Again(n))
    BY <1>2 DEF Same
  <2> QED
    BY <1>2, <2>1, SegLabel
<1>8. tail \in Seq(Lines) /\ Seg(own, tail, Test(n), After(n))
  <2>1. Same(PlaceOf(own, start), Test(n)) /\ Same(PlaceOf(own, end), After(n))
    BY <1>2 DEF Same
  <2>2. <<Jmp(start)>> \in Seq(Lines) /\ Seg(own, <<Jmp(start)>>, Test(n), After(n))
    BY <1>2, <2>1, SegJmp
  <2>3. <<Label(end)>> \in Seq(Lines) /\ Seg(own, <<Label(end)>>, After(n), After(n))
    BY <1>2, <2>1, SegLabel
  <2> DEFINE a == <<Jmp(start)>>
             c == <<Label(end)>>
  <2>4. /\ a \in Seq(Lines) /\ Seg(own, a, Test(n), After(n))
        /\ c \in Seq(Lines) /\ Seg(own, c, After(n), After(n)) /\ tail = a \o c
    BY <1>5, <2>2, <2>3
  <2> HIDE DEF a, c, tail
  <2> QED
    BY ONLY <2>4, SegThen
<1>9. lines \in Seq(Lines) /\ Seg(own, lines, Again(n), After(n))
  <2> DEFINE a == <<Label(cont)>>
  <2>1. lines = a \o step \o tail
    OBVIOUS
  <2> HIDE DEF a, step, tail, lines
  <2>2. a \in Seq(Lines) /\ Seg(own, a, Again(n), Again(n))
    BY <1>7 DEF a
  <2>3. a \o step \in Seq(Lines) /\ Seg(own, a \o step, Again(n), Test(n))
    BY ONLY <1>6, <2>2, SegBoth
  <2>4. (a \o step) \o tail \in Seq(Lines)
    BY ONLY <1>8, <2>3
  <2>5. Seg(own, (a \o step) \o tail, Again(n), After(n))
    BY ONLY <1>8, <2>3, SegBoth
  <2> QED
    BY <2>1, <2>4, <2>5
<1> HIDE DEF lines
<1> QED
  BY <1>1, <1>3, <1>4, <1>9, LoopEndFollows

LEMMA EndSwitchFollows ==
  ASSUME NEW s, NEW top, NEW r, NEW own, Closes(s, top, r, own), Kind(top.node) = "switch"
  PROVE  Follows(EndSwitch(r, top), own)
<1> DEFINE n == top.node
           l == Name("switch_end", top.id)
           lines == <<Label(l)>>
           e == Emit(r, lines)
           t == EndSwitch(r, top)
<1>1. /\ top.id \in Nat /\ own[top.id] = n /\ Kind(n) \notin Loops
      /\ Returning(s, top, r) /\ Follows(s, own)
  BY ClosesIs DEF TakesId, Breakable, Loops
<1>2. l \in LabelSet /\ PlaceOf(own, l) = After(n)
  BY <1>1, PlaceIs DEF LabelNames
<1>3. t = LeaveSwitch(e)
  BY DEF EndSwitch
<1> HIDE DEF l
<1>4. lines \in Seq(Lines) /\ Seg(own, lines, After(n), After(n))
  <2>1. Same(PlaceOf(own, l), After(n))
    BY <1>2 DEF Same
  <2> QED
    BY <1>2, <2>1, SegLabel
<1>5. /\ GenTypeOK(r) /\ r.code = s.code /\ r.calls = Front(s.calls) /\ r.at = s.at
      /\ Front(r.break) \in Seq(Ctx) /\ Front(r.switch) \in Seq(Nat)
  BY <1>1, ReturningIs DEF Breakable
<1> HIDE DEF lines
<1>6. /\ GenTypeOK(e) /\ e.code = r.code \o lines
      /\ e.break = r.break /\ e.switch = r.switch /\ e.calls = r.calls /\ e.at = r.at
  BY <1>4, <1>5, EmitIs
<1> HIDE DEF e, t
<1>7. t.code = e.code /\ t.calls = e.calls /\ t.at = e.at
  <2>1. Front(e.break) \in Seq(Ctx) /\ Front(e.switch) \in Seq(Nat)
    BY <1>5, <1>6
  <2> QED
    BY ONLY <1>3, <1>6, <2>1, LeaveSwitchIs
<1>8. t.code = s.code \o lines /\ t.calls = Front(s.calls) /\ t.at = s.at
  BY <1>5, <1>6, <1>7
<1>9. /\ lines \in Seq(Lines)
      /\ Seg(own, lines, IF Kind(top.node) \in Loops THEN Again(top.node) ELSE After(top.node),
             After(top.node))
  BY <1>1, <1>4
<1>10. Follows(t, own)
  BY ONLY <1>1, <1>8, <1>9, EndFollows
<1> QED
  BY <1>10 DEF t

LEMMA EndIfFollows ==
  ASSUME NEW s, NEW top, NEW r, NEW own, Closes(s, top, r, own), Kind(top.node) = "if"
  PROVE  Follows(EndIf(r, top), own)
<1> DEFINE n == top.node
           id == top.id
           other == Name("else", id)
           end == Name("end", id)
<1>1. /\ Body /\ n \in Nodes /\ n \in 0..Len(prog) /\ id \in Nat /\ Kind(n) \notin Loops
      /\ Returning(s, top, r) /\ Follows(s, own)
      /\ TakesId(top) => own[id] = n
  BY ClosesIs DEF Loops
<1>2. /\ top = s.calls[Len(s.calls)] /\ top.slot \in {"body", "else"}
      /\ GenTypeOK(r) /\ r.code = s.code /\ r.calls = Front(s.calls) /\ r.at = s.at
  BY <1>1, ReturningIs
<1>3. CASE ConstTruth(n)
  <2>1. EndIf(r, top) = r
    BY <1>3 DEF EndIf
  <2> QED
    BY <1>1, <2>1, NothingFollows
<1>4. CASE ~ConstTruth(n)
  <2>1. own[id] = n
    BY <1>1, <1>4 DEF TakesId
  <2>2. /\ other \in LabelSet /\ end \in LabelSet
        /\ PlaceOf(own, other) = Enter(n, "else") /\ PlaceOf(own, end) = After(n)
    BY <1>1, <2>1, PlaceIs DEF LabelNames
  <2>3. Same(PlaceOf(own, other), Enter(n, "else")) /\ Same(PlaceOf(own, end), After(n))
    BY <2>2 DEF Same
  <2>4. CASE top.slot = "body" /\ Kids(n, "else") /= {}
    <3> DEFINE x == [node |-> n, slot |-> "else", id |-> id]
               a == <<Jmp(end)>>
               c == <<Label(other)>>
               lines == <<Jmp(end), Label(other)>>
               e == Emit(r, lines)
               t == Call(e, n, "else", id)
    <3>1. EndIf(r, top) = t
      BY <1>4, <2>4 DEF EndIf
    <3>2. x \in Calls
      BY <1>1 DEF Calls
    <3>3. Turns(s.calls, x)
      BY <1>2, <1>4, <2>4 DEF Turns, ElsePending
    <3>4. x = [node |-> n, slot |-> "else", id |-> id] /\ t = Call(e, n, "else", id)
      OBVIOUS
    <3>5. lines = a \o c
      BY Pairs
    <3> HIDE DEF x, other, end
    <3>6. a \in Seq(Lines) /\ Seg(own, a, After(n), Enter(n, "else"))
      BY <2>2, <2>3, SegJmp
    <3>7. c \in Seq(Lines) /\ Seg(own, c, Enter(n, "else"), Enter(n, "else"))
      BY <2>2, <2>3, SegLabel
    <3> HIDE DEF a, c, lines
    <3>8. lines \in Seq(Lines) /\ Seg(own, lines, After(n), Enter(n, "else"))
      <4> PICK p, q : p = After(n) /\ q = Enter(n, "else")
        OBVIOUS
      <4>1. /\ a \in Seq(Lines) /\ Seg(own, a, p, q)
            /\ c \in Seq(Lines) /\ Seg(own, c, q, q) /\ lines = a \o c
        BY <3>5, <3>6, <3>7
      <4>2. lines \in Seq(Lines) /\ Seg(own, lines, p, q)
        BY ONLY <4>1, SegThen
      <4> QED
        BY <4>2
    <3>9. GenTypeOK(e) /\ e.code = r.code \o lines /\ e.calls = r.calls /\ e.at = r.at
      BY <1>2, <3>8, EmitIs
    <3> HIDE DEF e, t, n, id
    <3>10. t.calls = Append(e.calls, x) /\ t.code = e.code /\ t.at = e.at
      <4>1. GenTypeOK(e)
        BY <3>9
      <4> QED
        BY ONLY <3>2, <3>4, <4>1, CallIs, SMTT(60)
    <3>11. t.code = s.code \o lines /\ t.calls = Append(Front(s.calls), x) /\ t.at = s.at
      BY <1>2, <3>9, <3>10
    <3>12. Returning(s, top, r) /\ Follows(s, own)
      BY <1>1
    <3>13. lines \in Seq(Lines) /\ Seg(own, lines, After(top.node), Enter(top.node, "else"))
      BY <3>8 DEF n
    <3>14. Follows(t, own)
      BY ONLY <3>2, <3>3, <3>11, <3>12, <3>13, ElseFollows
    <3> QED
      BY <3>1, <3>14
  <2>5. CASE ~(top.slot = "body" /\ Kids(n, "else") /= {})
    <3> DEFINE lines == <<Label(end)>>
               t == Emit(r, lines)
    <3>1. EndIf(r, top) = t
      BY <1>4, <2>5 DEF EndIf
    <3> HIDE DEF end
    <3>2. lines \in Seq(Lines) /\ Seg(own, lines, After(n), After(n))
      BY <2>2, <2>3, SegLabel
    <3> HIDE DEF lines
    <3>3. t.code = r.code \o lines /\ t.calls = r.calls /\ t.at = r.at
      BY <1>2, <3>2, EmitIs
    <3> HIDE DEF t
    <3>4. t.code = s.code \o lines /\ t.calls = Front(s.calls) /\ t.at = s.at
      BY <1>2, <3>3
    <3>5. /\ lines \in Seq(Lines)
          /\ Seg(own, lines, IF Kind(top.node) \in Loops THEN Again(top.node) ELSE After(top.node),
                 After(top.node))
      BY <1>1, <3>2
    <3>6. Returning(s, top, r) /\ Follows(s, own)
      BY <1>1
    <3>7. Follows(t, own)
      BY ONLY <3>4, <3>5, <3>6, EndFollows
    <3> QED
      BY <3>1, <3>7
  <2> QED
    BY <2>4, <2>5
<1> QED
  BY <1>3, <1>4

LEMMA EndStmtFollows ==
  ASSUME NEW s, NEW top, NEW r, NEW own, Closes(s, top, r, own)
  PROVE  Follows(EndStmt(r, top), own)
<1>1. Kind(top.node) \in Breakable \cup {"if", "block"}
  <2>1. Returning(s, top, r)
    BY ClosesIs
  <2> QED
    BY <2>1, ReturningIs
<1>2. CASE Kind(top.node) = "block"
  BY <1>2, NothingFollows DEF EndStmt, Loops
<1>3. CASE Kind(top.node) = "if"
  BY <1>3, EndIfFollows DEF EndStmt
<1>4. CASE Kind(top.node) = "while"
  BY <1>4, EndWhileFollows DEF EndStmt
<1>5. CASE Kind(top.node) = "do"
  BY <1>5, EndDoWhileFollows DEF EndStmt
<1>6. CASE Kind(top.node) = "for"
  BY <1>6, EndForFollows DEF EndStmt
<1>7. CASE Kind(top.node) = "switch"
  BY <1>7, EndSwitchFollows DEF EndStmt
<1> QED
  BY <1>1, <1>2, <1>3, <1>4, <1>5, <1>6, <1>7 DEF Breakable, Loops

(***************************************************************************)
(* The steps of the generator.                                             *)
(***************************************************************************)
LEMMA MovesSame ==
  ASSUME prog' = prog
  PROVE  /\ Meaning!Settle(Meaning!Moves)' = Meaning!Settle(Meaning!Moves)
         /\ \A n, slot : Meaning!Enter(n, slot)' = Meaning!Enter(n, slot)
         /\ \A pt, v : Succ(pt, v)' = Succ(pt, v)
<1>1. Meaning!Nodes' = Meaning!Nodes
  BY DEF Meaning!Nodes
<1>2. \A n : Meaning!Kind(n)' = Meaning!Kind(n) /\ Meaning!Ancestors(n)' = Meaning!Ancestors(n)
  BY DEF Meaning!Kind, Meaning!Ancestors
<1>3. \A n, slot : Meaning!Kids(n, slot)' = Meaning!Kids(n, slot)
  BY <1>1 DEF Meaning!Kids
<1>4. \A n, kinds : Meaning!Innermost(n, kinds)' = Meaning!Innermost(n, kinds)
  BY <1>2 DEF Meaning!Innermost
<1>5. \A n, slot : Meaning!Enter(n, slot)' = Meaning!Enter(n, slot)
  BY <1>3 DEF Meaning!Enter
<1>6. \A n : Meaning!FromTest(n)' = Meaning!FromTest(n)
  BY <1>5 DEF Meaning!FromTest
<1>7. \A n : Meaning!FromAgain(n)' = Meaning!FromAgain(n)
  BY <1>2 DEF Meaning!FromAgain
<1>8. \A n : Meaning!FromReach(n)' = Meaning!FromReach(n)
  BY <1>2, <1>4, <1>5 DEF Meaning!FromReach
<1>9. \A n : Meaning!FromAfter(n)' = Meaning!FromAfter(n)
  BY <1>2, <1>3 DEF Meaning!FromAfter
<1>10. Meaning!Moves' = Meaning!Moves
  <2>1. Meaning!Places' = Meaning!Places
    BY DEF Meaning!Places
  <2> QED
    BY <1>6, <1>7, <1>8, <1>9, <2>1 DEF Meaning!Moves
<1>11. Meaning!Settle(Meaning!Moves)' = Meaning!Settle(Meaning!Moves)
  BY <1>10 DEF Meaning!Settle
<1>12. \A n : Meaning!Owned(n)' = Meaning!Owned(n)
  BY <1>1, <1>2, <1>4 DEF Meaning!Owned
<1>13. \A n, v : Meaning!Select(n, v)' = Meaning!Select(n, v)
  BY <1>2, <1>12 DEF Meaning!Select
<1>14. \A pt, v : Succ(pt, v)' = Succ(pt, v)
  BY <1>2, <1>5, <1>13 DEF Succ, Meaning!Succ
<1> QED
  BY <1>5, <1>11, <1>14

LEMMA PlacesSame ==
  ASSUME prog' = prog
  PROVE  /\ \A p, q : Same(p, q)' = Same(p, q)
         /\ \A n, slot : Enter(n, slot)' = Enter(n, slot)
         /\ \A own, l : PlaceOf(own, l)' = PlaceOf(own, l)
         /\ \A own, line, p : Here(own, line, p)' = Here(own, line, p)
<1>1. \A p, q : Same(p, q)' = Same(p, q)
  BY MovesSame DEF Same
<1>2. \A n, slot : Enter(n, slot)' = Enter(n, slot)
  BY NodesSame DEF Enter, After, Reach
<1>3. \A n : CasesOf(n)' = CasesOf(n) /\ Defaults(n)' = Defaults(n)
  BY NodesSame DEF Defaults
<1>4. \A own, l : PlaceOf(own, l)' = PlaceOf(own, l)
  BY <1>2, <1>3 DEF PlaceOf
<1>5. \A own, line : At(own, line)' = At(own, line)
  BY <1>4 DEF At
<1>6. \A own, line, p : Here(own, line, p)' = Here(own, line, p)
  BY <1>1, <1>5 DEF Here
<1> QED
  BY <1>1, <1>2, <1>4, <1>6

LEMMA SegSame ==
  ASSUME prog' = prog
  PROVE  \A own, code, from, to : Seg(own, code, from, to)' <=> Seg(own, code, from, to)
<1>1. /\ \A p, q : Same(p, q)' = Same(p, q)
      /\ \A own, l : PlaceOf(own, l)' = PlaceOf(own, l)
      /\ \A own, line, p : Here(own, line, p)' = Here(own, line, p)
  BY PlacesSame
<1>2. \A pt, v : Succ(pt, v)' = Succ(pt, v)
  BY MovesSame
<1>3. \A n : Kind(n)' = Kind(n)
  BY NodesSame
<1>4. \A own, code, i, to, p : Leads(own, code, i, to, p)' = Leads(own, code, i, to, p)
  BY <1>1 DEF Leads
<1>5. \A own, code, i, to, pt : Decides(own, code, i, to, pt)' <=> Decides(own, code, i, to, pt)
  BY <1>1, <1>2, <1>4 DEF Decides
<1>6. \A own, code, i, pt : Selects(own, code, i, pt)' <=> Selects(own, code, i, pt)
  BY <1>1, <1>2 DEF Selects
<1>7. \A own, code, i, to : Goes(own, code, i, to)' <=> Goes(own, code, i, to)
  BY <1>1, <1>2, <1>3, <1>4, <1>5, <1>6 DEF Goes
<1> QED
  BY <1>1, <1>7 DEF Seg

LEMMA FollowsSame ==
  ASSUME prog' = prog, NEW u, NEW own, Follows(u, own)
  PROVE  Follows(u, own)'
<1>1. /\ \A n : Kind(n)' = Kind(n) /\ Ancestors(n)' = Ancestors(n) /\ ConstTruth(n)' = ConstTruth(n)
      /\ \A n, slot : Kids(n, slot)' = Kids(n, slot)
  BY NodesSame
<1>2. \A c : TakesId(c)' = TakesId(c)
  BY <1>1 DEF TakesId
<1>3. Owns(own, u.calls)'
  BY <1>2 DEF Follows, Owns
<1>4. Threads(u.calls)'
  BY DEF Follows, Threads
<1>5. Beside(u.calls, u.at)'
  BY <1>1 DEF Follows, Beside
<1>6. Facing(u.calls, u.at)' = Facing(u.calls, u.at)
  BY <1>1 DEF Facing, Reach, Again, After
<1>7. Enter(0, "body")' = Enter(0, "body")
  BY PlacesSame
<1>8. Seg(own, u.code, Enter(0, "body"), Facing(u.calls, u.at))'
  BY <1>6, <1>7, SegSame DEF Follows
<1> QED
  BY <1>3, <1>4, <1>5, <1>8 DEF Follows

(* gen_func() begins when every loop and every if of the body has its statement. *)
LEMMA FinishedIs ==
  ASSUME Body, Unfinished(prog) = {}
  PROVE  Finished
<1> SUFFICES ASSUME NEW n \in Nodes, Kind(n) \in OneBody PROVE Kids(n, "body") /= {}
  BY DEF Finished
<1>1. /\ Nodes = DOMAIN prog /\ n /= 0 /\ Kind(n) = prog[n].kind
      /\ \A c \in Nodes : prog[c] \in Node /\ WellPlaced(c)
  BY DEF Body, Nodes, Kind
<1>2. PICK c \in Nodes : prog[c].up = n
  BY <1>1 DEF Unfinished
<1>3. CASE prog[c].slot = "body"
  BY <1>2, <1>3 DEF Kids
<1>4. CASE prog[c].slot = "else"
  BY <1>1, <1>2, <1>4 DEF WellPlaced
<1> QED
  BY <1>1, <1>3, <1>4 DEF Node

LEMMA StartFollows ==
  ASSUME Body, StartFunc
  PROVE  Finished' /\ \E own : Follows(g, own)'
<1> DEFINE x == [node |-> 0, slot |-> "body", id |-> 0]
           none == [i \in Nat |-> 0]
<1>1. g' = Call(GenInit, 0, "body", 0) /\ prog' = prog /\ Unfinished(prog) = {}
  BY DEF StartFunc
<1>2. Finished'
  <2>1. Finished
    BY <1>1, FinishedIs
  <2>2. Nodes' = Nodes /\ (\A n : Kind(n)' = Kind(n)) /\ \A n, slot : Kids(n, slot)' = Kids(n, slot)
    BY <1>1, NodesSame
  <2> QED
    BY <2>1, <2>2 DEF Finished
<1>3. PICK u : u = Call(GenInit, 0, "body", 0)
  OBVIOUS
<1>4. u.code = <<>> /\ u.calls = <<x>> /\ u.at = 0
  BY <1>3 DEF Call, GenInit
<1>5. DOMAIN <<x>> = {1} /\ <<x>>[1] = x /\ Len(<<x>>) = 1 /\ x.node = 0 /\ x.slot = "body"
  OBVIOUS
<1>6. Len(prog) \in Nat /\ Nodes = 1..Len(prog)
  BY DEF Body, Nodes
<1>7. Owns(none, <<x>>)
  <2>1. none \in [Nat -> 0..Len(prog)]
    BY <1>6
  <2>2. ~TakesId(x)
    BY <1>5 DEF TakesId, Kind, Breakable, Loops
  <2> QED
    BY <1>5, <2>1, <2>2 DEF Owns
<1> HIDE DEF x, none
<1>8. Threads(<<x>>)
  BY <1>5 DEF Threads
<1>9. Beside(<<x>>, 0)
  BY DEF Beside, Ancestors
<1>10. Facing(<<x>>, 0) = Enter(0, "body")
  <2>1. {c \in Kids(0, "body") : c > 0} = Kids(0, "body")
    BY <1>6 DEF Kids
  <2>2. Kind(0) \notin Loops
    BY DEF Kind, Loops
  <2> QED
    BY <1>5, <2>1, <2>2 DEF Facing, Enter
<1>11. Seg(none, <<>>, Enter(0, "body"), Facing(<<x>>, 0))
  <2>1. Same(Enter(0, "body"), Facing(<<x>>, 0))
    BY <1>10 DEF Same
  <2> QED
    BY <2>1, SegNone
<1>12. Follows(u, none)
  BY <1>4, <1>7, <1>8, <1>9, <1>11 DEF Follows
<1>13. Follows(u, none)'
  BY <1>1, <1>12, FollowsSame
<1>14. Follows(g, none)'
  BY ONLY <1>1, <1>3, <1>13
<1> QED
  BY <1>2, <1>14

LEMMA GenStmtFollows ==
  ASSUME Body, Generating(g), GenStmt, Testable, Finished, NEW own, Follows(g, own)
  PROVE  \E own2 : Follows(g, own2)'
<1> DEFINE n == Min(Rest)
           b == [g EXCEPT !.at = n, !.ends = FALSE]
<1>1. g' = GenStmtOne(b, n) /\ prog' = prog /\ Rest /= {}
  BY DEF GenStmt
<1>2. g.calls \in Seq(Calls) /\ g.calls /= <<>> /\ Nodes \subseteq Nat
  BY Begins
<1>3. Top = g.calls[Len(g.calls)]
  BY <1>2 DEF Top, Last
<1>4. Rest \subseteq Nat /\ Rest \subseteq Nodes
  BY <1>2 DEF Rest, Kids
<1>5. n \in Rest /\ \A c \in Rest : n <= c
  BY <1>1, <1>4, MinIs
<1> HIDE DEF n
<1>6. Comes(g.calls, g.at, n)
  <2>1. /\ n \in Nodes /\ n > g.at /\ prog[n].up = Top.node /\ prog[n].slot = Top.slot
        /\ \A c \in Kids(Top.node, Top.slot) : c > g.at => n <= c
    BY <1>5 DEF Rest, Kids
  <2> QED
    BY <1>3, <2>1 DEF Comes
<1>7. Begun(g, n, b)
  BY <1>6 DEF Begun
<1> HIDE DEF b
<1>8. Ready(g, n, b, own)
  BY <1>7 DEF Ready
<1>9. PICK own2 : Follows(GenStmtOne(b, n), own2)
  BY <1>8, StmtFollows
<1>10. PICK u : u = GenStmtOne(b, n)
  OBVIOUS
<1>11. Follows(u, own2)
  BY <1>9, <1>10
<1>12. Follows(u, own2)'
  BY <1>1, <1>11, FollowsSame
<1>13. Follows(g, own2)'
  BY ONLY <1>1, <1>10, <1>12
<1> QED
  BY <1>13

LEMMA EndChainFollows ==
  ASSUME Body, Generating(g), EndChain, Testable, Finished, NEW own, Follows(g, own)
  PROVE  Follows(g, own)'
<1> DEFINE r == [g EXCEPT !.calls = Front(@), !.ends = @ /\ PassesOn(Kind(Top.node))]
<1>1. g' = EndStmt(r, Top) /\ prog' = prog /\ Rest = {} /\ Top.node /= 0
  BY DEF EndChain
<1>2. g.calls \in Seq(Calls) /\ g.calls /= <<>> /\ g.at \in Nat /\ Nodes \subseteq Nat
  BY Begins
<1>3. Top = g.calls[Len(g.calls)]
  BY <1>2 DEF Top, Last
<1>4. Walked(g)
  <2>1. \A c \in Kids(Top.node, Top.slot) : c <= g.at
    BY <1>1, <1>2 DEF Rest, Kids
  <2> QED
    BY <1>1, <1>3, <2>1 DEF Walked
<1>5. Returning(g, Top, r)
  BY <1>3, <1>4 DEF Returning
<1> HIDE DEF r
<1>6. Closes(g, Top, r, own)
  BY <1>5 DEF Closes
<1>7. PICK u : u = EndStmt(r, Top)
  OBVIOUS
<1>8. Follows(u, own)
  BY <1>6, <1>7, EndStmtFollows
<1>9. Follows(u, own)'
  BY <1>1, <1>8, FollowsSame
<1> QED
  BY ONLY <1>1, <1>7, <1>9

(* The closing brace is reached, or the last statement has left the function. *)
LEMMA EndFuncFollows ==
  ASSUME Body, Generating(g), EndFunc, NEW own, Follows(g, own)
  PROVE  \E to : Seg(own, g.code, Enter(0, "body"), to)'
<1> DEFINE tail == <<Eval(0, "end"), Ret>>
           lines == IF g.ends THEN <<>> ELSE tail
           e == [g EXCEPT !.calls = <<>>]
           from == Enter(0, "body")
           to == Facing(g.calls, g.at)
<1>1. g' = Emit(e, lines) /\ prog' = prog /\ Rest = {} /\ Top.node = 0
  BY DEF EndFunc
<1>2. /\ g.calls \in Seq(Calls) /\ g.calls /= <<>> /\ g.at \in Nat /\ Nodes \subseteq Nat
      /\ g.code \in Seq(Lines) /\ GenTypeOK(g)
  BY Begins DEF Generating
<1>3. Top = g.calls[Len(g.calls)]
  BY <1>2 DEF Top, Last
<1>4. to = After(0)
  <2>1. \A k \in Kids(Top.node, Top.slot) : k <= g.at
    BY <1>1, <1>2 DEF Rest, Kids
  <2>2. to = IF Kind(Top.node) \in Loops THEN Again(Top.node) ELSE After(Top.node)
    BY <1>2, <1>3, <2>1, FacingEnd
  <2>3. Kind(0) \notin Loops
    BY DEF Kind, Loops
  <2> QED
    BY <1>1, <2>2, <2>3
<1>5. Same(<<0, "end">>, After(0))
  <2>1. 0 \in 0..Len(prog)
    BY DEF Body
  <2>2. Same(After(0), Meaning!FromAfter(0))
    BY <2>1, Rests
  <2>3. Meaning!FromAfter(0) = <<0, "end">>
    BY DEF Meaning!FromAfter, Meaning!End
  <2> QED
    BY <2>2, <2>3 DEF Same
<1>6. Seg(own, g.code, from, to)
  BY DEF Follows
<1>7. tail \in Seq(Lines) /\ Seg(own, tail, After(0), After(0))
  <2>1. 0 \in 0..Len(prog)
    BY DEF Body
  <2> QED
    BY <1>5, <2>1, SegReturn
<1> HIDE DEF tail, from, to
<1>8. Seg(own, g.code \o lines, from, to)
  <2>1. CASE g.ends
    <3>1. g.code \o lines = g.code
      BY <1>2, <2>1
    <3> QED
      BY <1>6, <3>1
  <2>2. CASE ~g.ends
    <3>1. /\ g.code \in Seq(Lines) /\ Seg(own, g.code, from, to)
          /\ tail \in Seq(Lines) /\ Seg(own, tail, to, to)
      BY <1>2, <1>4, <1>6, <1>7
    <3>2. Seg(own, g.code \o tail, from, to)
      BY ONLY <3>1, SegBoth
    <3> QED
      BY <2>2, <3>2
  <2> QED
    BY <2>1, <2>2
<1> HIDE DEF lines
<1>9. g'.code = g.code \o lines
  BY <1>1, <1>2 DEF Emit, GenTypeOK
<1>10. PICK code : code = g.code \o lines
  OBVIOUS
<1>11. PICK end : end = to
  OBVIOUS
<1>12. Seg(own, code, Enter(0, "body"), end)
  BY <1>8, <1>10, <1>11 DEF from
<1>13. Enter(0, "body")' = Enter(0, "body")
  BY <1>1, PlacesSame
<1>14. Seg(own, code, Enter(0, "body"), end)'
  BY <1>1, <1>12, <1>13, SegSame
<1>15. Seg(own, g.code, Enter(0, "body"), end)'
  BY ONLY <1>9, <1>10, <1>14
<1> QED
  BY <1>15

(* The first line is in front of the body. *)
LEMMA RunBegins ==
  ASSUME NEW own, NEW code, NEW to, Seg(own, code, Enter(0, "body"), to), code /= <<>>, NEW value
  PROVE  RunsAt(own, code, 1, value, NotStarted)
BY DEF Seg, RunsAt, Ended, Heading

(***************************************************************************)
(* The steps of the machine.                                               *)
(***************************************************************************)
LEMMA EvalGoes ==
  ASSUME Body, NEW own, NEW to, NEW code \in Seq(Lines), NEW i \in DOMAIN code,
         code[i].op = "eval", Goes(own, code, i, to), i + 1 \in DOMAIN code,
         NEW v \in Outcomes(code[i].point), NEW bit
  PROVE  RunsAt(own, code, i + 1, v, <<code[i].point, v, bit>>)
<1> DEFINE pt == code[i].point
           last == <<pt, v, bit>>
<1>1. code[i] \in Lines /\ pt \in (0..Len(prog)) \X Parts
  <2>1. code[i] \in Lines
    OBVIOUS
  <2> QED
    BY <2>1, LinesHave
<1>2. /\ last /= NotStarted /\ last[1] = pt /\ last[2] = v
      /\ i \in Nat /\ i + 1 \in Nat /\ i \in 1..((i + 1) - 1) /\ i < Len(code) /\ i = (i + 1) - 1
      /\ Len(code) \in Nat
  BY DEF NotStarted
<1>3. /\ Heading(last) = Succ(pt, v)
      /\ Ended(last) <=> pt[2] \in {"return", "end"}
  BY <1>2 DEF Heading, Ended
<1>4. v \in Outcomes(pt) /\ code[i].op = "eval" /\ code[i].point = pt
  OBVIOUS
<1>5. /\ pt[2] \in {"expr", "init", "step"} => Leads(own, code, i, to, Succ(pt, 0))
      /\ pt[2] \in {"return", "end"} => i < Len(code) /\ code[i + 1] = Ret
      /\ pt[2] = "cond" /\ Kind(pt[1]) /= "switch" =>
           i < Len(code) /\ Decides(own, code, i + 1, to, pt)
      /\ pt[2] = "cond" /\ Kind(pt[1]) = "switch" => Selects(own, code, i, pt)
  BY <1>4 DEF Goes
<1> HIDE DEF last, pt
<1>6. CASE pt[2] \in {"expr", "init", "step"}
  <2>1. v = 0
    BY <1>4, <1>6 DEF Outcomes
  <2>2. Here(own, code[i + 1], Succ(pt, 0))
    BY <1>2, <1>5, <1>6 DEF Leads
  <2> QED
    BY <1>3, <1>6, <2>1, <2>2 DEF RunsAt, last, pt
<1>7. CASE pt[2] \in {"return", "end"}
  BY <1>3, <1>5, <1>7 DEF RunsAt, last, pt
<1>8. CASE pt[2] = "cond" /\ Kind(pt[1]) /= "switch"
  <2>1. v \in {0, 1}
    BY <1>4, <1>8 DEF Outcomes
  <2>2. code[i + 1].op \in {"je", "jne"}
    BY <1>5, <1>8 DEF Decides
  <2>3. Testing(code, i + 1, v, last)
    BY <1>2, <1>4, <1>8, <2>1, <2>2 DEF Testing
  <2> QED
    BY <1>3, <1>8, <2>3 DEF RunsAt, last, pt
<1>9. CASE pt[2] = "cond" /\ Kind(pt[1]) = "switch"
  <2>1. v \in Nat
    <3>1. Nodes \subseteq Nat
      BY DEF Body, Nodes
    <3> QED
      BY <1>4, <1>9, <3>1 DEF Outcomes
  <2>2. PICK k \in Nat :
          /\ i + k < Len(code)
          /\ \A j \in (i + 1)..(i + k) :
               code[j].op = "je" /\ Same(PlaceOf(own, code[j].label), Succ(pt, code[j].value))
          /\ code[i + k + 1].op = "jmp"
          /\ \A w \in Nat :
               (\A j \in (i + 1)..(i + k) : code[j].value /= w)
               => Same(PlaceOf(own, code[i + k + 1].label), Succ(pt, w))
    BY <1>5, <1>9 DEF Selects
  <2>3. CASE k = 0
    <3>1. i + k + 1 = i + 1 /\ \A j \in (i + 1)..(i + k) : FALSE
      BY <1>2, <2>3
    <3>2. code[i + 1].op = "jmp" /\ Same(PlaceOf(own, code[i + 1].label), Succ(pt, v))
      BY <2>1, <2>2, <3>1
    <3>3. Here(own, code[i + 1], Succ(pt, v))
      BY <3>2 DEF Here, At
    <3> QED
      BY <1>3, <1>9, <3>3 DEF RunsAt, last, pt
  <2>4. CASE k /= 0
    <3>1. i + 1 \in (i + 1)..(i + k) /\ \A j \in (i + 1)..((i + 1) - 1) : FALSE
      BY <1>2, <2>4
    <3>2. code[i + 1].op = "je"
      BY <2>2, <3>1
    <3>3. Testing(code, i + 1, v, last)
      BY <1>2, <1>4, <1>9, <3>1, <3>2 DEF Testing
    <3> QED
      BY <1>3, <1>9, <3>3 DEF RunsAt, last, pt
  <2> QED
    BY <2>3, <2>4
<1>10. pt[2] \in Parts
  BY <1>1
<1> QED
  BY <1>6, <1>7, <1>8, <1>9, <1>10 DEF Parts

(* Where a label is met, and where a jump finds it. *)
LEMMA LabelGoes ==
  ASSUME Body, NEW own, NEW to, NEW code \in Seq(Lines), NEW i \in DOMAIN code,
         code[i].op = "label", Goes(own, code, i, to), i + 1 \in DOMAIN code,
         NEW value, NEW last, RunsAt(own, code, i, value, last)
  PROVE  RunsAt(own, code, i + 1, value, last)
<1>1. ~Ended(last) /\ Here(own, code[i], Heading(last))
  BY DEF RunsAt, Testing, Ret
<1>2. Same(PlaceOf(own, code[i].label), Heading(last))
  BY <1>1 DEF Here, At
<1>3. Leads(own, code, i, to, PlaceOf(own, code[i].label)) /\ i < Len(code)
  BY DEF Goes
<1>4. Here(own, code[i + 1], PlaceOf(own, code[i].label))
  BY <1>3 DEF Leads
<1>5. Here(own, code[i + 1], Heading(last))
  BY <1>2, <1>4 DEF Here, Same
<1> QED
  BY <1>1, <1>5 DEF RunsAt

LEMMA TargetIs ==
  ASSUME NEW own, NEW code, NEW t, NEW l, code[t].op = "label", code[t].label = l,
         NEW p, Same(PlaceOf(own, l), p)
  PROVE  Here(own, code[t], p)
BY DEF Here, At

LEMMA JmpGoes ==
  ASSUME NEW own, NEW code, NEW i, code[i].op = "jmp",
         NEW value, NEW last, RunsAt(own, code, i, value, last),
         NEW t, code[t].op = "label", code[t].label = code[i].label
  PROVE  RunsAt(own, code, t, value, last)
<1>1. ~Ended(last) /\ Here(own, code[i], Heading(last))
  BY DEF RunsAt, Testing, Ret
<1>2. Same(PlaceOf(own, code[i].label), Heading(last))
  BY <1>1 DEF Here, At
<1>3. Here(own, code[t], Heading(last))
  BY <1>2, TargetIs
<1> QED
  BY <1>1, <1>3 DEF RunsAt

(* A test goes one of two ways, a comparison of a switch to its case or on.   *)
LEMMA TestGoes ==
  ASSUME Body, NEW own, NEW to, NEW code \in Seq(Lines), \A i \in DOMAIN code : Goes(own, code, i, to),
         NEW i \in DOMAIN code, code[i].op \in {"je", "jne"}, i + 1 \in DOMAIN code,
         NEW value \in Nat, NEW last, RunsAt(own, code, i, value, last),
         NEW t, code[t].op = "label", code[t].label = code[i].label,
         NEW taken, taken <=> ((value = code[i].value) = (code[i].op = "je"))
  PROVE  RunsAt(own, code, IF taken THEN t ELSE i + 1, value, last)
<1> DEFINE pt == last[1]
<1>1. ~Ended(last) /\ Testing(code, i, value, last)
  BY DEF RunsAt, Here, Ret
<1>2. /\ last /= NotStarted /\ pt[2] = "cond" /\ value = last[2]
      /\ Heading(last) = Succ(pt, value)
  BY <1>1 DEF Testing, Heading
<1>3. PICK e \in 1..(i - 1) :
        /\ code[e].op = "eval" /\ code[e].point = pt
        /\ Kind(pt[1]) /= "switch" => e = i - 1 /\ value \in {0, 1}
        /\ Kind(pt[1]) = "switch" =>
             \A j \in (e + 1)..(i - 1) : code[j].op = "je" /\ code[j].value /= value
  BY <1>1 DEF Testing
<1>4. /\ Len(code) \in Nat /\ DOMAIN code = 1..Len(code) /\ i \in Nat /\ e \in Nat
      /\ i < Len(code) /\ e < i /\ e \in DOMAIN code
  OBVIOUS
<1>5. Goes(own, code, e, to)
  BY <1>4
<1>6. /\ Kind(pt[1]) /= "switch" => Decides(own, code, e + 1, to, pt)
      /\ Kind(pt[1]) = "switch" => Selects(own, code, e, pt)
  BY <1>2, <1>3, <1>5 DEF Goes
<1>7. SUFFICES Here(own, code[IF taken THEN t ELSE i + 1], Succ(pt, value))
               \/ Testing(code, IF taken THEN t ELSE i + 1, value, last)
  BY <1>1, <1>2 DEF RunsAt
<1>8. CASE Kind(pt[1]) /= "switch"
  <2>1. e + 1 = i /\ value \in {0, 1}
    BY <1>3, <1>4, <1>8
  <2>2. PICK b \in {0, 1} :
          /\ code[i].op = (IF b = 0 THEN "je" ELSE "jne") /\ code[i].value = 0
          /\ Same(PlaceOf(own, code[i].label), Succ(pt, b))
          /\ Leads(own, code, i, to, Succ(pt, 1 - b))
    BY <1>6, <1>8, <2>1 DEF Decides
  <2>3. CASE value = b
    <3>1. taken
      BY <2>2, <2>3
    <3>2. Here(own, code[t], Succ(pt, b))
      BY <2>2, TargetIs
    <3> QED
      BY <2>3, <3>1, <3>2
  <2>4. CASE value /= b
    <3>1. ~taken
      BY <2>1, <2>2, <2>4
    <3>2. 1 - b = value
      BY <2>1, <2>4
    <3>3. Here(own, code[i + 1], Succ(pt, 1 - b))
      BY <1>4, <2>2 DEF Leads
    <3> QED
      BY <3>1, <3>2, <3>3
  <2> QED
    BY <2>3, <2>4
<1>9. CASE Kind(pt[1]) = "switch"
  <2>1. \A j \in (e + 1)..(i - 1) : code[j].op = "je" /\ code[j].value /= value
    BY <1>3, <1>9
  <2>2. PICK k \in Nat :
          /\ e + k < Len(code)
          /\ \A j \in (e + 1)..(e + k) :
               code[j].op = "je" /\ Same(PlaceOf(own, code[j].label), Succ(pt, code[j].value))
          /\ code[e + k + 1].op = "jmp"
          /\ \A w \in Nat :
               (\A j \in (e + 1)..(e + k) : code[j].value /= w)
               => Same(PlaceOf(own, code[e + k + 1].label), Succ(pt, w))
    BY <1>6, <1>9 DEF Selects
  <2>3. i <= e + k
    <3>1. i /= e + k + 1
      BY <2>2
    <3>2. ~(i > e + k + 1)
      <4> SUFFICES ASSUME i > e + k + 1 PROVE FALSE
        OBVIOUS
      <4>1. e + k + 1 \in (e + 1)..(i - 1)
        BY <1>4
      <4>2. code[e + k + 1].op = "je" /\ code[e + k + 1].op = "jmp"
        BY <2>1, <2>2, <4>1
      <4> QED
        BY <4>2
    <3> QED
      BY <1>4, <3>1, <3>2
  <2>4. i \in (e + 1)..(e + k)
    BY <1>4, <2>3
  <2>5. code[i].op = "je" /\ Same(PlaceOf(own, code[i].label), Succ(pt, code[i].value))
    BY <2>2, <2>4
  <2>6. CASE value = code[i].value
    <3>1. taken
      BY <2>5, <2>6
    <3>2. Here(own, code[t], Succ(pt, code[i].value))
      BY <2>5, TargetIs
    <3> QED
      BY <2>6, <3>1, <3>2
  <2>7. CASE value /= code[i].value
    <3>1. ~taken
      BY <2>5, <2>7
    <3>2. \A j \in (e + 1)..i : code[j].op = "je" /\ code[j].value /= value
      <4>1. \A j \in (e + 1)..i : j = i \/ j \in (e + 1)..(i - 1)
        BY <1>4
      <4> QED
        BY <2>1, <2>5, <2>7, <4>1
    <3>3. CASE i < e + k
      <4>1. i + 1 \in (e + 1)..(e + k)
        BY <1>4, <3>3
      <4>2. code[i + 1].op = "je"
        BY <2>2, <4>1
      <4>3. (i + 1) - 1 = i /\ e \in 1..((i + 1) - 1)
        BY <1>4
      <4>4. Testing(code, i + 1, value, last)
        BY <1>2, <1>3, <1>9, <3>2, <4>2, <4>3 DEF Testing
      <4> QED
        BY <3>1, <4>4
    <3>4. CASE ~(i < e + k)
      <4>1. i = e + k /\ i + 1 = e + k + 1
        BY <1>4, <2>3, <3>4
      <4>2. code[i + 1].op = "jmp" /\ Same(PlaceOf(own, code[i + 1].label), Succ(pt, value))
        BY <2>2, <3>2, <4>1
      <4>3. Here(own, code[i + 1], Succ(pt, value))
        BY <4>2 DEF Here, At
      <4> QED
        BY <3>1, <4>3
    <3> QED
      BY <3>3, <3>4
  <2> QED
    BY <2>6, <2>7
<1> QED
  BY <1>8, <1>9

LEMMA RunsAtSame ==
  ASSUME prog' = prog
  PROVE  \A own, code, i, value, last :
           RunsAt(own, code, i, value, last)' <=> RunsAt(own, code, i, value, last)
<1>1. \A last : Ended(last)' <=> Ended(last)
  BY DEF Ended
<1>2. \A last : Heading(last)' = Heading(last)
  BY MovesSame, PlacesSame DEF Heading
<1>3. \A code, i, value, last : Testing(code, i, value, last)' <=> Testing(code, i, value, last)
  BY NodesSame DEF Testing
<1>4. \A own, line, p : Here(own, line, p)' = Here(own, line, p)
  BY PlacesSame
<1> QED
  BY <1>1, <1>2, <1>3, <1>4 DEF RunsAt, Ret

(* A step of the machine stays on the way of the source.                     *)
LEMMA RunFollows ==
  ASSUME IInv, Run, phase' = "run", NEW own, NEW to,
         Seg(own, g.code, Enter(0, "body"), to), RunsAt(own, g.code, pc, rax, seen)
  PROVE  RunsAt(own, g.code, pc', rax', seen')
<1>1. /\ Body /\ phase = "run"
      /\ g.code \in Seq(Lines) /\ Returned(g.code) /\ pc \in DOMAIN g.code
      /\ Jumps(g.code) \subseteq Defs(g.code) /\ pc \in Nat /\ rax \in Nat
  <2>1. phase = "run"
    BY RunKeeps
  <2> QED
    BY <2>1 DEF IInv, Done
<1>2. \A i \in DOMAIN g.code : Goes(own, g.code, i, to)
  BY DEF Seg
<1>3. Line = g.code[pc] /\ (Line.op /= "ret" => pc + 1 \in DOMAIN g.code)
  BY <1>1, NextLine DEF Line
<1>4. CASE RunEval
  <2>1. Line.op = "eval" /\ pc' = pc + 1
    BY <1>4 DEF RunEval, Running
  <2>2. PICK v \in Outcomes(Line.point) :
          rax' = v /\ seen' = <<Line.point, v, IF seen = NotStarted THEN 0 ELSE 1 - seen[3]>>
    BY <1>4 DEF RunEval
  <2>3. PICK bit : bit = IF seen = NotStarted THEN 0 ELSE 1 - seen[3]
    OBVIOUS
  <2>4. PICK i \in DOMAIN g.code : i = pc
    BY <1>1
  <2>5. PICK code \in Seq(Lines) : code = g.code
    BY <1>1
  <2>6. /\ i \in DOMAIN code /\ code[i].op = "eval" /\ Goes(own, code, i, to)
        /\ i + 1 \in DOMAIN code /\ v \in Outcomes(code[i].point)
    BY <1>2, <1>3, <2>1, <2>2, <2>4, <2>5
  <2>7. RunsAt(own, code, i + 1, v, <<code[i].point, v, bit>>)
    BY <1>1, <2>6, EvalGoes
  <2> QED
    BY <1>3, <2>1, <2>2, <2>3, <2>4, <2>5, <2>7
<1>5. CASE RunLabel
  <2>1. Line.op = "label" /\ pc' = pc + 1 /\ rax' = rax /\ seen' = seen
    BY <1>5 DEF RunLabel, Running
  <2>2. g.code[pc].op = "label" /\ Goes(own, g.code, pc, to) /\ pc + 1 \in DOMAIN g.code
    BY <1>1, <1>2, <1>3, <2>1
  <2>3. RunsAt(own, g.code, pc + 1, rax, seen)
    BY <1>1, <2>2, LabelGoes
  <2> QED
    BY <2>1, <2>3
<1>6. CASE RunJump
  <2> DEFINE taken == CASE Line.op = "je" -> rax = Line.value
                        [] Line.op = "jne" -> rax /= Line.value
                        [] OTHER -> TRUE
             t == Target(Line.label)
  <2>1. /\ Line.op \in {"jmp", "je", "jne"} /\ rax' = rax /\ seen' = seen
        /\ pc' = IF taken THEN t ELSE pc + 1
    BY <1>6 DEF RunJump, Running
  <2>2. Line.label \in Jumps(g.code)
    BY <1>1, <2>1 DEF Jumps, Line
  <2>3. \E i \in LabelsOf(g) : g.code[i].label = Line.label
    BY <1>1, <2>2 DEF Defs, LabelsOf
  <2>4. t \in LabelsOf(g) /\ g.code[t].label = Line.label
    BY <2>3, Zenon DEF Target
  <2>5. g.code[t].op = "label" /\ g.code[t].label = g.code[pc].label
    BY <1>3, <2>4 DEF LabelsOf
  <2> HIDE DEF t
  <2>6. CASE Line.op = "jmp"
    <3>1. pc' = t /\ g.code[pc].op = "jmp"
      BY <1>3, <2>1, <2>6
    <3>2. RunsAt(own, g.code, t, rax, seen)
      BY <2>5, <3>1, JmpGoes
    <3> QED
      BY <2>1, <3>1, <3>2
  <2>7. CASE Line.op \in {"je", "jne"}
    <3>1. taken <=> ((rax = g.code[pc].value) = (g.code[pc].op = "je"))
      BY <1>3, <2>7
    <3> HIDE DEF taken
    <3>2. g.code[pc].op \in {"je", "jne"} /\ pc + 1 \in DOMAIN g.code
      BY <1>3, <2>7
    <3>3. RunsAt(own, g.code, IF taken THEN t ELSE pc + 1, rax, seen)
      BY <1>1, <1>2, <2>5, <3>1, <3>2, TestGoes
    <3> QED
      BY <2>1, <3>3
  <2> QED
    BY <2>1, <2>6, <2>7
<1>7. CASE RunRet
  BY <1>7 DEF RunRet
<1> QED
  BY <1>4, <1>5, <1>6, <1>7 DEF Run

(***************************************************************************)
(* The invariant.                                                          *)
(***************************************************************************)
(* A while and a do have a condition: the parser takes none without.          *)
LEMMA TestableKeeps ==
  ASSUME Body, Testable, NEW kind, WriteStmt(kind)
  PROVE  Testable'
<1>1. PICK up \in Spine, slot \in {"body", "else"}, s \in Shapes(kind) :
        prog' = Append(prog, [kind |-> kind, up |-> up, around |-> {up} \cup Ancestors(up),
                              slot |-> slot, cond |-> s.cond, init |-> s.init, step |-> s.step])
  BY Zenon DEF WriteStmt
<1> DEFINE x == [kind |-> kind, up |-> up, around |-> {up} \cup Ancestors(up),
                 slot |-> slot, cond |-> s.cond, init |-> s.init, step |-> s.step]
<1>2. x.kind = kind /\ x.cond = s.cond /\ prog' = Append(prog, x)
  BY <1>1
<1>3. kind \in {"while", "do"} => s.cond /= "none"
  BY DEF Shapes
<1> HIDE DEF x
<1>4. prog \in Seq(Node)
  BY DEF Body
<1>5. \A n \in Nodes' : n /= 0 /\ ((n \in Nodes /\ prog'[n] = prog[n]) \/ prog'[n] = x)
  BY <1>2, <1>4 DEF Nodes
<1>6. ASSUME NEW n \in Nodes', Kind(n)' \in {"while", "do"} PROVE prog'[n].cond /= "none"
  <2>1. n /= 0 /\ prog'[n].kind \in {"while", "do"}
    BY <1>5, <1>6 DEF Kind
  <2>2. CASE n \in Nodes /\ prog'[n] = prog[n]
    <3>1. Kind(n) \in {"while", "do"}
      BY <2>1, <2>2 DEF Kind
    <3> QED
      BY <2>2, <3>1 DEF Testable
  <2>3. CASE prog'[n] = x
    BY <1>2, <1>3, <2>1, <2>3
  <2> QED
    BY <1>5, <2>2, <2>3
<1> QED
  BY <1>6 DEF Testable

LEMMA TestableSame ==
  ASSUME prog' = prog
  PROVE  /\ Testable => Testable'
         /\ Finished => Finished'
BY NodesSame DEF Testable, Finished

LEMMA MInitHolds == Init => MInv
<1> SUFFICES ASSUME Init PROVE MInv
  OBVIOUS
<1>1. prog = <<>> /\ phase = "write" /\ seen = NotStarted
  BY DEF Init
<1>2. Testable
  BY <1>1 DEF Testable, Nodes
<1> QED
  BY <1>1, <1>2, InitHolds DEF MInv

LEMMA MNextKeeps == MInv /\ [Next]_vars => MInv'
<1> SUFFICES ASSUME MInv, [Next]_vars PROVE MInv'
  OBVIOUS
<1>1. /\ IInv /\ Body /\ Testable
      /\ phase \in {"write", "generate"} => seen = NotStarted
      /\ phase = "generate" => Generating(g) /\ Finished /\ pc = 1
      /\ phase = "generate" => \E own : Follows(g, own)
      /\ phase = "run" => \E own, to : /\ Seg(own, g.code, Enter(0, "body"), to)
                                       /\ RunsAt(own, g.code, pc, rax, seen)
  BY DEF MInv, IInv
<1>2. IInv'
  BY <1>1, NextKeeps
<1>3. ASSUME prog' = prog PROVE Testable' /\ (Finished => Finished')
  BY <1>1, <1>3, TestableSame
<1>4. CASE \E kind \in Kinds : WriteStmt(kind)
  <2>1. PICK kind \in Kinds : WriteStmt(kind)
    BY <1>4
  <2>2. phase' = "write" /\ phase = "write" /\ seen' = seen
    BY <2>1 DEF WriteStmt
  <2>3. Testable'
    BY <1>1, <2>1, TestableKeeps
  <2> QED
    BY <1>1, <1>2, <2>2, <2>3 DEF MInv, NotStarted
<1>5. CASE TooDeep
  <2>1. phase' = "failed" /\ prog' = prog
    BY <1>5 DEF TooDeep
  <2> QED
    BY <1>2, <1>3, <2>1 DEF MInv
<1>6. CASE StartFunc
  <2>1. phase = "write" /\ phase' = "generate" /\ prog' = prog /\ seen' = seen
    BY <1>6 DEF StartFunc
  <2>2. Finished' /\ \E own : Follows(g, own)'
    BY <1>1, <1>6, StartFollows
  <2> QED
    BY <1>1, <1>2, <1>3, <2>1, <2>2 DEF MInv, NotStarted
<1>7. CASE GenStmt \/ EndChain
  <2>1. phase = "generate" /\ phase' = "generate" /\ prog' = prog /\ seen' = seen
    BY <1>7 DEF GenStmt, EndChain
  <2>2. PICK own : Follows(g, own)
    BY <1>1, <2>1
  <2>3. \E own2 : Follows(g, own2)'
    <3>1. CASE GenStmt
      BY <1>1, <2>1, <2>2, <3>1, GenStmtFollows
    <3>2. CASE EndChain
      BY <1>1, <2>1, <2>2, <3>2, EndChainFollows
    <3> QED
      BY <1>7, <3>1, <3>2
  <2> QED
    BY <1>1, <1>2, <1>3, <2>1, <2>3 DEF MInv, NotStarted
<1>8. CASE EndFunc
  <2>1. /\ phase = "generate" /\ phase' \in {"failed", "unlinkable", "run"}
        /\ prog' = prog /\ seen' = seen /\ pc' = pc
    BY <1>8 DEF EndFunc
  <2>2. PICK own : Follows(g, own)
    BY <1>1, <2>1
  <2>3. PICK to : Seg(own, g.code, Enter(0, "body"), to)'
    BY <1>1, <1>8, <2>1, <2>2, EndFuncFollows
  <2>4. g'.code /= <<>>
    BY <1>1, <1>8, <2>1, EndFuncKeeps DEF Returned
  <2>5. PICK code : code = g'.code
    OBVIOUS
  <2>6. PICK value : value = rax'
    OBVIOUS
  <2>7. Seg(own, code, Enter(0, "body"), to)'
    BY ONLY <2>3, <2>5
  <2>8. Enter(0, "body")' = Enter(0, "body")
    BY <2>1, PlacesSame
  <2>9. Seg(own, code, Enter(0, "body"), to)
    BY <2>1, <2>7, <2>8, SegSame
  <2>10. RunsAt(own, code, 1, value, NotStarted)
    BY <2>4, <2>5, <2>9, RunBegins
  <2>11. RunsAt(own, code, 1, value, <<>>)'
    BY <2>1, <2>10, RunsAtSame DEF NotStarted
  <2>12. pc' = 1 /\ seen' = <<>>
    BY <1>1, <2>1 DEF NotStarted
  <2>13. RunsAt(own, g.code, pc, rax, seen)'
    BY ONLY <2>5, <2>6, <2>11, <2>12
  <2> QED
    BY <1>2, <1>3, <2>1, <2>3, <2>13 DEF MInv
<1>9. CASE Run
  <2>1. prog' = prog /\ g' = g /\ phase = "run" /\ phase' \in {"run", "returned"}
    BY <1>1, <1>9, RunKeeps
  <2>2. CASE phase' = "returned"
    BY <1>2, <1>3, <2>1, <2>2 DEF MInv
  <2>3. CASE phase' = "run"
    <3>1. PICK own, to : /\ Seg(own, g.code, Enter(0, "body"), to)
                         /\ RunsAt(own, g.code, pc, rax, seen)
      BY <1>1, <2>1
    <3>2. RunsAt(own, g.code, pc', rax', seen')
      BY <1>1, <1>9, <2>3, <3>1, RunFollows
    <3>3. PICK code, i, value, last : code = g'.code /\ i = pc' /\ value = rax' /\ last = seen'
      OBVIOUS
    <3>4. RunsAt(own, code, i, value, last) /\ Seg(own, code, Enter(0, "body"), to)
      BY <2>1, <3>1, <3>2, <3>3
    <3>5. RunsAt(own, code, i, value, last)'
      BY <2>1, <3>4, RunsAtSame
    <3>6. Seg(own, code, Enter(0, "body"), to)'
      <4>1. Enter(0, "body")' = Enter(0, "body")
        BY <2>1, PlacesSame
      <4> QED
        BY <2>1, <3>4, <4>1, SegSame
    <3>7. RunsAt(own, g.code, pc, rax, seen)' /\ Seg(own, g.code, Enter(0, "body"), to)'
      BY ONLY <3>3, <3>5, <3>6
    <3> QED
      BY <1>2, <1>3, <2>1, <2>3, <3>7 DEF MInv
  <2> QED
    BY <2>1, <2>2, <2>3
<1>10. CASE UNCHANGED vars
  <2>1. prog' = prog /\ phase' = phase /\ g' = g /\ pc' = pc /\ rax' = rax /\ seen' = seen
    BY <1>10 DEF vars
  <2>2. phase' = "generate" => \E own : Follows(g, own)'
    <3> SUFFICES ASSUME phase' = "generate" PROVE \E own : Follows(g, own)'
      OBVIOUS
    <3>1. PICK own : Follows(g, own)
      BY <1>1, <2>1
    <3>2. PICK u : u = g
      OBVIOUS
    <3>3. Follows(u, own)'
      BY <2>1, <3>1, <3>2, FollowsSame
    <3>4. u = g'
      BY <2>1, <3>2
    <3>5. Follows(g, own)'
      BY ONLY <3>3, <3>4
    <3> QED
      BY <3>5
  <2>3. phase' = "run" => \E own, to : /\ Seg(own, g.code, Enter(0, "body"), to)'
                                       /\ RunsAt(own, g.code, pc, rax, seen)'
    <3> SUFFICES ASSUME phase' = "run"
                 PROVE  \E own, to : /\ Seg(own, g.code, Enter(0, "body"), to)'
                                     /\ RunsAt(own, g.code, pc, rax, seen)'
      OBVIOUS
    <3>1. PICK own, to : /\ Seg(own, g.code, Enter(0, "body"), to)
                         /\ RunsAt(own, g.code, pc, rax, seen)
      BY <1>1, <2>1
    <3>2. PICK code, i, value, last : code = g.code /\ i = pc /\ value = rax /\ last = seen
      OBVIOUS
    <3>3. RunsAt(own, code, i, value, last) /\ Seg(own, code, Enter(0, "body"), to)
      BY <3>1, <3>2
    <3>4. RunsAt(own, code, i, value, last)'
      BY <2>1, <3>3, RunsAtSame
    <3>5. Seg(own, code, Enter(0, "body"), to)'
      <4>1. Enter(0, "body")' = Enter(0, "body")
        BY <2>1, PlacesSame
      <4> QED
        BY <2>1, <3>3, <4>1, SegSame
    <3>6. code = g'.code /\ i = pc' /\ value = rax' /\ last = seen'
      BY <2>1, <3>2
    <3>7. RunsAt(own, g.code, pc, rax, seen)' /\ Seg(own, g.code, Enter(0, "body"), to)'
      BY ONLY <3>4, <3>5, <3>6
    <3> QED
      BY <3>7
  <2> QED
    BY <1>1, <1>2, <1>3, <2>1, <2>2, <2>3 DEF MInv, NotStarted
<1> QED
  BY <1>4, <1>5, <1>6, <1>7, <1>8, <1>9, <1>10 DEF Next, Generate, Stopped

(* While a body is generated, the output so far takes control from the first    *)
(* statement to the place the generator has come to; when it runs, the line at  *)
(* hand is where the source goes on from the expression evaluated last.        *)
THEOREM MeaningInvariant == Spec => []MInv
<1> QED
  BY MInitHolds, MNextKeeps, PTL DEF Spec

(***************************************************************************)
(* The refinement.                                                         *)
(***************************************************************************)
(* A test comes out as a value that the source knows.                        *)
LEMMA OutcomesAre ==
  ASSUME NEW pt
  PROVE  Outcomes(pt) \subseteq Meaning!Values(pt)
<1>1. Meaning!Kind(pt[1]) = Kind(pt[1]) /\ Meaning!Nodes = Nodes /\ \A c : Meaning!Kind(c) = Kind(c)
  BY SameTree
<1>2. CASE pt[2] /= "cond"
  BY <1>2 DEF Outcomes, Meaning!Values
<1>3. CASE pt[2] = "cond" /\ Kind(pt[1]) = "switch"
  BY <1>1, <1>3 DEF Outcomes, Meaning!Values
<1>4. CASE pt[2] = "cond" /\ Kind(pt[1]) /= "switch"
  <2>1. Outcomes(pt) = IF ConstTruth(pt[1]) THEN {IF Dead(pt[1]) THEN 0 ELSE 1} ELSE {0, 1}
    BY <1>4 DEF Outcomes
  <2>2. Meaning!Values(pt) = IF prog[pt[1]].cond = "nonzero" THEN {1} ELSE {0, 1}
    BY <1>1, <1>4 DEF Meaning!Values
  <2> QED
    BY <2>1, <2>2 DEF ConstTruth, Dead
<1> QED
  BY <1>2, <1>3, <1>4

(* The expression at the line at hand is the one the source has next.         *)
LEMMA EvalIsNext ==
  ASSUME Body, NEW own, NEW code \in Seq(Lines), NEW i \in DOMAIN code, code[i].op = "eval",
         NEW value, NEW last, RunsAt(own, code, i, value, last)
  PROVE  ~Ended(last) /\ code[i].point = Meaning!Settle(Meaning!Moves)[Heading(last)]
<1>1. ~Ended(last) /\ Here(own, code[i], Heading(last))
  BY DEF RunsAt, Testing, Ret
<1>2. Same(code[i].point, Heading(last))
  BY <1>1 DEF Here, At
<1>3. PICK n \in 0..Len(prog), part \in Parts : code[i].point = <<n, part>>
  <2>1. code[i] \in Lines
    OBVIOUS
  <2>2. code[i].point \in (0..Len(prog)) \X Parts
    BY <2>1, LinesHave
  <2> QED
    BY <2>2
<1>4. Meaning!Settle(Meaning!Moves)[<<n, part>>] = <<n, part>>
  BY Rests
<1> QED
  BY <1>1, <1>2, <1>3, <1>4 DEF Same

LEMMA InitMeans == Init => Meaning!Init
BY DEF Init, Meaning!Init, NotStarted, Meaning!NotStarted

LEMMA EvalMeans ==
  ASSUME MInv, RunEval
  PROVE  Meaning!Start \/ Meaning!Proceed
<1>1. /\ Body /\ phase = "run" /\ g.code \in Seq(Lines) /\ pc \in DOMAIN g.code
      /\ Line = g.code[pc] /\ Line.op = "eval" /\ prog' = prog
  BY DEF MInv, IInv, Done, RunEval, Running, Line
<1>2. PICK own : RunsAt(own, g.code, pc, rax, seen)
  BY <1>1 DEF MInv
<1>3. ~Ended(seen) /\ Line.point = Meaning!Settle(Meaning!Moves)[Heading(seen)]
  BY <1>1, <1>2, EvalIsNext
<1>4. PICK v \in Meaning!Values(Line.point) :
        seen' = <<Line.point, v, IF seen = NotStarted THEN 0 ELSE 1 - seen[3]>>
  BY OutcomesAre DEF RunEval
<1>5. NotStarted = <<>> /\ Meaning!NotStarted = <<>>
  BY DEF NotStarted, Meaning!NotStarted
<1>6. CASE seen = NotStarted
  <2>1. Heading(seen) = Meaning!Enter(0, "body")
    BY <1>6, SameTree DEF Heading
  <2>2. seen' = <<Line.point, v, 0>>
    BY <1>4, <1>6
  <2> QED
    BY <1>1, <1>3, <1>4, <1>5, <1>6, <2>1, <2>2 DEF Meaning!Start
<1>7. CASE seen /= NotStarted
  <2>1. Heading(seen) = Meaning!Succ(seen[1], seen[2])
    BY <1>7 DEF Heading, Succ
  <2>2. seen' = <<Line.point, v, 1 - seen[3]>>
    BY <1>4, <1>7
  <2>3. ~Meaning!Over
    BY <1>3, <1>5 DEF Ended, Meaning!Over
  <2> QED
    BY <1>1, <1>3, <1>4, <1>5, <1>7, <2>1, <2>2, <2>3 DEF Meaning!Proceed
<1> QED
  BY <1>6, <1>7

LEMMA NextMeans ==
  MInv /\ [Next]_vars => [Meaning!Next]_<<prog, seen>>
<1> SUFFICES ASSUME MInv, [Next]_vars PROVE Meaning!Next \/ UNCHANGED <<prog, seen>>
  OBVIOUS
<1>1. CASE \E kind \in Kinds : WriteStmt(kind)
  <2>1. PICK kind \in Kinds : WriteStmt(kind)
    BY <1>1
  <2>2. phase = "write" /\ seen' = seen
    BY <2>1 DEF WriteStmt
  <2>3. seen = <<>>
    BY <2>2 DEF MInv, NotStarted
  <2>4. PICK x : prog' = Append(prog, x)
    BY <2>1 DEF WriteStmt
  <2>5. prog \in Seq(Node)
    BY DEF MInv, IInv, Body
  <2>6. Len(prog') = Len(prog) + 1 /\ Len(prog) \in Nat
    BY <2>4, <2>5
  <2>7. prog' /= prog
    BY <2>6
  <2> QED
    BY <2>2, <2>3, <2>7 DEF Meaning!Next, Meaning!Write, Meaning!NotStarted
<1>2. CASE TooDeep \/ Generate \/ RunLabel \/ RunJump \/ RunRet \/ UNCHANGED vars \/ Stopped
  BY <1>2 DEF TooDeep, Generate, StartFunc, GenStmt, EndChain, EndFunc, RunLabel, RunJump, RunRet,
              Stopped, vars
<1>3. CASE RunEval
  BY <1>3, EvalMeans DEF Meaning!Next
<1> QED
  BY <1>1, <1>2, <1>3 DEF Next, Run

(* The code that is emitted for a body evaluates, for every outcome of every    *)
(* test, the expressions that the source has, in that order and as often:       *)
(* gen_stmt() and what it calls implement the statements of C.                *)
THEOREM RunsAsWrittenHolds == Spec => RunsAsWritten
<1>1. Init => Meaning!Init
  BY InitMeans
<1>2. MInv /\ [Next]_vars => [Meaning!Next]_<<prog, seen>>
  BY NextMeans
<1> QED
  BY <1>1, <1>2, MeaningInvariant, PTL DEF Spec, RunsAsWritten, Meaning!Spec


(***************************************************************************)
(* What the warning about a missing return goes by.                         *)
(***************************************************************************)
(* A growing map of sets to sets leaves one of them as it is.                 *)
LEMMA LeftAsItIs ==
  ASSUME NEW S, NEW F \in [SUBSET S -> SUBSET S],
         \A A, B \in SUBSET S : A \subseteq B => F[A] \subseteq F[B]
  PROVE  \E L \in SUBSET S : F[L] = L
<1> DEFINE L == {x \in S : \A C \in SUBSET S : F[C] \subseteq C => x \in C}
<1>1. L \in SUBSET S /\ F[L] \in SUBSET S
  OBVIOUS
<1>2. ASSUME NEW C \in SUBSET S, F[C] \subseteq C PROVE L \subseteq C
  BY <1>2
<1>3. F[L] \subseteq L
  <2>1. ASSUME NEW x \in F[L], NEW C \in SUBSET S, F[C] \subseteq C PROVE x \in C
    <3>1. F[L] \subseteq F[C]
      BY <1>1, <1>2, <2>1
    <3> QED
      BY <2>1, <3>1
  <2> QED
    BY <1>1, <2>1
<1>4. L \subseteq F[L]
  <2>1. F[F[L]] \subseteq F[L]
    BY <1>1, <1>3
  <2> QED
    BY <1>1, <1>2, <2>1
<1> QED
  BY <1>1, <1>3, <1>4

LEMMA DefaultIs ==
  \A n \in Nodes :
    LabelledDefault[n] <=>
      \/ Kind(n) = "default"
      \/ /\ Kind(n) \in {"block", "if"} \cup Loops
         /\ \E slot \in {"body", "else"} : \E c \in Kids(n, slot) : LabelledDefault[c]
<1> DEFINE Rule(n, D) == \/ Kind(n) = "default"
                         \/ /\ Kind(n) \in {"block", "if"} \cup Loops
                            /\ \E slot \in {"body", "else"} : \E c \in Kids(n, slot) : c \in D
           F == [D \in SUBSET Nodes |-> {n \in Nodes : Rule(n, D)}]
<1>1. PICK L \in SUBSET Nodes : F[L] = L
  <2>1. F \in [SUBSET Nodes -> SUBSET Nodes]
    OBVIOUS
  <2>2. \A A, B \in SUBSET Nodes : A \subseteq B => F[A] \subseteq F[B]
    OBVIOUS
  <2> HIDE DEF F
  <2> QED
    BY <2>1, <2>2, LeftAsItIs
<1> DEFINE f == [n \in Nodes |-> n \in L]
           G(h) == [n \in Nodes |->
                     \/ Kind(n) = "default"
                     \/ /\ Kind(n) \in {"block", "if"} \cup Loops
                        /\ \E slot \in {"body", "else"} : \E c \in Kids(n, slot) : h[c]]
<1>2. \A n, slot : Kids(n, slot) \subseteq Nodes
  BY DEF Kids
<1>3. f = G(f)
  <2>1. \A n \in Nodes : n \in L <=> Rule(n, L)
    BY <1>1
  <2>2. \A n \in Nodes : Rule(n, L) <=> G(f)[n]
    BY <1>2
  <2>3. ASSUME NEW n \in Nodes PROVE f[n] = G(f)[n]
    <3>1. f[n] \in BOOLEAN /\ G(f)[n] \in BOOLEAN
      OBVIOUS
    <3>2. f[n] <=> G(f)[n]
      BY <2>1, <2>2
    <3> HIDE DEF f, G
    <3> QED
      BY <3>1, <3>2
  <2> QED
    BY <2>3
<1>4. LabelledDefault = CHOOSE h : h = G(h)
  BY DEF LabelledDefault
<1>5. LabelledDefault = G(LabelledDefault)
  <2> HIDE DEF f, G
  <2> QED
    BY <1>3, <1>4
<1> QED
  BY <1>5

LEMMA TerminatesIs ==
  \A n \in Nodes :
    StmtTerminates[n] <=>
      \/ Kind(n) = "return"
      \/ Kind(n) = "block" /\ ListTerminates(Kids(n, "body"))
      \/ Kind(n) = "if" /\ ListTerminates(Kids(n, "body")) /\ ListTerminates(Kids(n, "else"))
      \/ Kind(n) \in {"while", "for"} /\ prog[n].cond \in {"none", "nonzero"}
      \/ Kind(n) = "do" /\ (ListTerminates(Kids(n, "body")) \/ prog[n].cond = "nonzero")
      \/ /\ Kind(n) = "switch"
         /\ HasDefaultLabel(SwitchList(n)) /\ EndsWithReturn(SwitchList(n))
<1> DEFINE In(n, slot, D) == \E c \in Kids(n, slot) : c \in D
           Rule(n, D) == \/ Kind(n) = "return"
                         \/ Kind(n) = "block" /\ In(n, "body", D)
                         \/ Kind(n) = "if" /\ In(n, "body", D) /\ In(n, "else", D)
                         \/ Kind(n) \in {"while", "for"} /\ prog[n].cond \in {"none", "nonzero"}
                         \/ Kind(n) = "do" /\ (In(n, "body", D) \/ prog[n].cond = "nonzero")
                         \/ /\ Kind(n) = "switch"
                            /\ HasDefaultLabel(SwitchList(n)) /\ EndsWithReturn(SwitchList(n))
           F == [D \in SUBSET Nodes |-> {n \in Nodes : Rule(n, D)}]
<1>1. PICK L \in SUBSET Nodes : F[L] = L
  <2>1. F \in [SUBSET Nodes -> SUBSET Nodes]
    OBVIOUS
  <2>2. \A A, B \in SUBSET Nodes : A \subseteq B => F[A] \subseteq F[B]
    OBVIOUS
  <2> HIDE DEF F
  <2> QED
    BY <2>1, <2>2, LeftAsItIs
<1> DEFINE f == [n \in Nodes |-> n \in L]
           ends(h, n, slot) == \E c \in Kids(n, slot) : h[c]
           val(h, n) ==
              CASE Kind(n) = "return" -> TRUE
                [] Kind(n) = "block" -> ends(h, n, "body")
                [] Kind(n) = "if" -> ends(h, n, "body") /\ ends(h, n, "else")
                [] Kind(n) \in {"while", "for"} -> prog[n].cond \in {"none", "nonzero"}
                [] Kind(n) = "do" -> ends(h, n, "body") \/ prog[n].cond = "nonzero"
                [] Kind(n) = "switch" -> /\ HasDefaultLabel(SwitchList(n))
                                         /\ EndsWithReturn(SwitchList(n))
                [] OTHER -> FALSE
           G(h) == [n \in Nodes |-> val(h, n)]
<1>2. \A n, slot : Kids(n, slot) \subseteq Nodes
  BY DEF Kids
<1>3. \A h, n : /\ val(h, n) \in BOOLEAN
                /\ val(h, n) <=>
                     \/ Kind(n) = "return"
                     \/ Kind(n) = "block" /\ ends(h, n, "body")
                     \/ Kind(n) = "if" /\ ends(h, n, "body") /\ ends(h, n, "else")
                     \/ Kind(n) \in {"while", "for"} /\ prog[n].cond \in {"none", "nonzero"}
                     \/ Kind(n) = "do" /\ (ends(h, n, "body") \/ prog[n].cond = "nonzero")
                     \/ /\ Kind(n) = "switch"
                        /\ HasDefaultLabel(SwitchList(n)) /\ EndsWithReturn(SwitchList(n))
  <2>1. ASSUME NEW h, NEW n
        PROVE  /\ val(h, n) \in BOOLEAN
               /\ val(h, n) <=>
                    \/ Kind(n) = "return"
                    \/ Kind(n) = "block" /\ ends(h, n, "body")
                    \/ Kind(n) = "if" /\ ends(h, n, "body") /\ ends(h, n, "else")
                    \/ Kind(n) \in {"while", "for"} /\ prog[n].cond \in {"none", "nonzero"}
                    \/ Kind(n) = "do" /\ (ends(h, n, "body") \/ prog[n].cond = "nonzero")
                    \/ /\ Kind(n) = "switch"
                       /\ HasDefaultLabel(SwitchList(n)) /\ EndsWithReturn(SwitchList(n))
    <3>1. /\ \A slot : ends(h, n, slot) \in BOOLEAN
          /\ HasDefaultLabel(SwitchList(n)) \in BOOLEAN /\ EndsWithReturn(SwitchList(n)) \in BOOLEAN
      BY DEF HasDefaultLabel, EndsWithReturn
    <3> HIDE DEF ends
    <3>2. CASE Kind(n) = "return"
      BY <3>2
    <3>3. CASE Kind(n) = "block"
      BY <3>1, <3>3
    <3>4. CASE Kind(n) = "if"
      BY <3>1, <3>4
    <3>5. CASE Kind(n) \in {"while", "for"}
      <4>1. CASE prog[n].cond \in {"none", "nonzero"}
        <5>1. val(h, n) = TRUE
          BY <3>5, <4>1
        <5> HIDE DEF val
        <5> QED
          BY <3>5, <4>1, <5>1
      <4>2. CASE prog[n].cond \notin {"none", "nonzero"}
        <5>1. val(h, n) = FALSE
          BY <3>5, <4>2
        <5> HIDE DEF val
        <5> QED
          BY <3>5, <4>2, <5>1
      <4> HIDE DEF val
      <4> QED
        BY <4>1, <4>2
    <3>6. CASE Kind(n) = "do"
      BY <3>1, <3>6
    <3>7. CASE Kind(n) = "switch"
      BY <3>1, <3>7
    <3>8. CASE Kind(n) \notin {"return", "block", "if", "while", "for", "do", "switch"}
      <4>1. val(h, n) = FALSE
        BY <3>8
      <4> HIDE DEF val
      <4> QED
        BY <3>8, <4>1
    <3> HIDE DEF val
    <3> QED
      BY <3>2, <3>3, <3>4, <3>5, <3>6, <3>7, <3>8
  <2> HIDE DEF val, ends
  <2> QED
    BY <2>1
<1>4. f = G(f)
  <2>1. \A n \in Nodes : n \in L <=> Rule(n, L)
    BY <1>1
  <2>2. \A n \in Nodes, slot \in {"body", "else"} : In(n, slot, L) <=> ends(f, n, slot)
    BY <1>2
  <2>3. ASSUME NEW n \in Nodes PROVE Rule(n, L) <=> val(f, n)
    <3> HIDE DEF val, In, ends, f
    <3> QED
      BY <1>3, <2>2
  <2>4. ASSUME NEW n \in Nodes PROVE f[n] = G(f)[n]
    <3>1. f[n] \in BOOLEAN /\ G(f)[n] \in BOOLEAN
      <4>1. G(f)[n] = val(f, n) /\ f[n] = (n \in L)
        OBVIOUS
      <4> HIDE DEF val, G, f
      <4> QED
        BY <1>3, <4>1
    <3>2. f[n] <=> G(f)[n]
      <4>1. G(f)[n] = val(f, n) /\ f[n] = (n \in L)
        OBVIOUS
      <4> HIDE DEF val, G, f, Rule
      <4> QED
        BY <2>1, <2>3, <4>1
    <3> HIDE DEF f, G
    <3> QED
      BY <3>1, <3>2
  <2>5. f = [n \in Nodes |-> f[n]] /\ G(f) = [n \in Nodes |-> G(f)[n]]
    <3> HIDE DEF val
    <3> QED
      OBVIOUS
  <2> HIDE DEF f, G
  <2> QED
    BY <2>4, <2>5
<1>5. StmtTerminates = CHOOSE h : h = G(h)
  BY DEF StmtTerminates
<1>6. StmtTerminates = G(StmtTerminates)
  <2> HIDE DEF f, G
  <2> QED
    BY <1>4, <1>5
<1>7. ASSUME NEW n \in Nodes PROVE StmtTerminates[n] = val(StmtTerminates, n)
  <2> HIDE DEF val
  <2>1. G(StmtTerminates)[n] = val(StmtTerminates, n)
    OBVIOUS
  <2> HIDE DEF G
  <2> QED
    BY <1>6, <2>1
<1>8. \A n \in Nodes : \A slot : ends(StmtTerminates, n, slot) <=> ListTerminates(Kids(n, slot))
  BY DEF ListTerminates
<1> HIDE DEF val, ends
<1> QED
  BY <1>3, <1>7, <1>8

(***************************************************************************)
(* Every chain of moves ends.                                              *)
(***************************************************************************)
(* The places that a run can come to, as far as the kind of statement says.   *)
Sound(p) ==
  LET n == p[1]
  IN  /\ p[2] = "reach" => n /= 0
      /\ p[2] \in {"again", "test"} => Kind(n) \in Loops
      /\ p[2] \in {"expr", "return"} => Kind(n) = p[2]
      /\ p[2] \in {"init", "step"} => Kind(n) = "for"
      /\ p[2] = "cond" => /\ Kind(n) \in {"if", "switch"} \cup Loops
                          /\ Kind(n) \in Loops => prog[n].cond \in {"expr", "nonzero"}

(* A for without a condition has a step. *)
Stepping == \A n \in Nodes : Kind(n) = "for" /\ prog[n].cond = "none" => prog[n].step

Later(n) == {c \in Kids(prog[n].up, prog[n].slot) : c > n}

LEMMA MovesAre ==
  ASSUME Body, NEW n \in 0..Len(prog), NEW move, move = Meaning!Moves
  PROVE  /\ Kind(n) \in {"expr", "return"} => move[Reach(n)] = <<n, Kind(n)>>
         /\ Kind(n) \in {"block", "do"} => move[Reach(n)] = Enter(n, "body")
         /\ Kind(n) = "if" =>
              \/ move[Reach(n)] = <<n, "cond">>
              \/ \E slot \in {"body", "else"} : move[Reach(n)] = Enter(n, slot)
         /\ Kind(n) = "while" => move[Reach(n)] = Test(n)
         /\ Kind(n) = "for" => move[Reach(n)] \in {<<n, "init">>, Test(n)}
         /\ Kind(n) = "switch" => move[Reach(n)] = <<n, "cond">>
         /\ Kind(n) = "break" => move[Reach(n)] = After(Innermost(n, Breakable))
         /\ Kind(n) = "continue" => move[Reach(n)] = Again(Innermost(n, Loops))
         /\ Kind(n) \in {"decl"} \cup Labels => move[Reach(n)] = After(n)
         /\ n = 0 => move[After(n)] = <<0, "end">>
         /\ n /= 0 =>
              \/ Later(n) /= {} /\ move[After(n)] = Reach(Min(Later(n)))
              \/ /\ Later(n) = {} /\ Kind(prog[n].up) \in Loops
                 /\ move[After(n)] = Again(prog[n].up)
              \/ /\ Later(n) = {} /\ Kind(prog[n].up) \notin Loops
                 /\ move[After(n)] = After(prog[n].up)
         /\ Kind(n) = "for" /\ prog[n].step => move[Again(n)] = <<n, "step">>
         /\ ~(Kind(n) = "for" /\ prog[n].step) => move[Again(n)] = Test(n)
         /\ prog[n].cond = "zero" => move[Test(n)] = After(n)
         /\ prog[n].cond = "none" => move[Test(n)] = Enter(n, "body")
         /\ prog[n].cond \notin {"zero", "none"} => move[Test(n)] = <<n, "cond">>
<1>1. /\ move[Reach(n)] = Meaning!FromReach(n)
      /\ move[After(n)] = Meaning!FromAfter(n)
      /\ move[Again(n)] = Meaning!FromAgain(n)
      /\ move[Test(n)] = Meaning!FromTest(n)
  BY MovesTyped
<1>2. Meaning!FromReach(n) =
        CASE Kind(n) \in {"expr", "return"} -> <<n, Kind(n)>>
          [] Kind(n) = "block" -> Enter(n, "body")
          [] Kind(n) = "if" -> CASE prog[n].cond = "zero" -> Enter(n, "else")
                                 [] prog[n].cond = "nonzero" -> Enter(n, "body")
                                 [] OTHER -> <<n, "cond">>
          [] Kind(n) = "while" -> Test(n)
          [] Kind(n) = "do" -> Enter(n, "body")
          [] Kind(n) = "for" -> IF prog[n].init THEN <<n, "init">> ELSE Test(n)
          [] Kind(n) = "switch" -> <<n, "cond">>
          [] Kind(n) = "break" -> After(Innermost(n, Breakable))
          [] Kind(n) = "continue" -> Again(Innermost(n, Loops))
          [] OTHER -> After(n)
  BY SameTree DEF Meaning!FromReach
<1>3. /\ n = 0 => Meaning!FromAfter(n) = <<0, "end">>
      /\ n /= 0 => Meaning!FromAfter(n) =
           CASE Later(n) /= {} -> Reach(Min(Later(n)))
             [] Later(n) = {} /\ Kind(prog[n].up) \in Loops -> Again(prog[n].up)
             [] OTHER -> After(prog[n].up)
  BY SameTree DEF Meaning!FromAfter, Meaning!End, Later
<1>4. Meaning!FromAgain(n) = IF Kind(n) = "for" /\ prog[n].step THEN <<n, "step">> ELSE Test(n)
  BY SameTree DEF Meaning!FromAgain
<1>5. /\ prog[n].cond = "zero" => Meaning!FromTest(n) = After(n)
      /\ prog[n].cond = "none" => Meaning!FromTest(n) = Enter(n, "body")
      /\ prog[n].cond \notin {"zero", "none"} => Meaning!FromTest(n) = <<n, "cond">>
  BY SameTree DEF Meaning!FromTest
<1> QED
  BY <1>1, <1>2, <1>3, <1>4, <1>5 DEF Labels

LEMMA Family ==
  ASSUME Body, NEW n \in Nodes
  PROVE  /\ n \in 1..Len(prog) /\ n \in 0..Len(prog) /\ Len(prog) \in Nat
         /\ prog[n].up \in 0..Len(prog) /\ prog[n].up < n /\ prog[n].up \in Ancestors(n)
         /\ Ancestors(n) = {prog[n].up} \cup Ancestors(prog[n].up)
         /\ Kind(prog[n].up) \notin Leaves
         /\ prog[n].slot \in {"body", "else"}
         /\ prog[n].slot = "else" => Kind(prog[n].up) = "if"
         /\ n \in Kids(prog[n].up, prog[n].slot)
         /\ \A a \in Ancestors(n) : a \in 0..Len(prog) /\ a < n /\ Ancestors(a) \subseteq Ancestors(n)
         /\ \A a, b \in Ancestors(n) : a < b => a \in Ancestors(b)
         /\ \A a \in Ancestors(n) : \A k \in (a + 1)..n : a \in Ancestors(k)
         /\ Kind(n) \in StmtKinds /\ Kind(0) = "function"
<1>1. prog \in Seq(Node) /\ Len(prog) \in Nat /\ n \in 1..Len(prog) /\ n /= 0 /\ Nodes = 1..Len(prog)
  BY DEF Body, Nodes
<1>2. prog[n] \in Node
  BY <1>1
<1>3. Nested(n) /\ WellPlaced(n) /\ Ancestors(n) = prog[n].around
  BY <1>1 DEF Body, Ancestors
<1>4. prog[n].slot \in {"body", "else"} /\ Kind(n) \in StmtKinds /\ Kind(0) = "function"
  BY <1>1, <1>2 DEF Node, Kind
<1> QED
  BY <1>1, <1>3, <1>4 DEF Nested, WellPlaced, Kids

LEMMA EnterIs ==
  ASSUME Body, NEW n \in 0..Len(prog), NEW slot
  PROVE  \/ Kids(n, slot) = {} /\ Enter(n, slot) = After(n)
         \/ \E c \in Kids(n, slot) : /\ Enter(n, slot) = Reach(c) /\ c > n
                                     /\ \A d \in Kids(n, slot) : c <= d
<1>1. CASE Kids(n, slot) = {}
  BY <1>1 DEF Enter
<1>2. CASE Kids(n, slot) /= {}
  <2>1. PICK c \in Kids(n, slot) : Enter(n, slot) = Reach(c) /\ \A d \in Kids(n, slot) : c <= d
    BY <1>2, EnterTyped DEF Enter
  <2>2. c > n
    <3>1. c \in Nodes /\ prog[c].up = n
      BY DEF Kids
    <3> QED
      BY <3>1, Family
  <2> QED
    BY <2>1, <2>2
<1> QED
  BY <1>1, <1>2

(* Where a jump leads: out to a statement around. *)
LEMMA JumpsOut ==
  ASSUME Body, NEW n \in Nodes
  PROVE  /\ Kind(n) = "break" => /\ Innermost(n, Breakable) \in Ancestors(n)
                                 /\ Kind(Innermost(n, Breakable)) \in Breakable
         /\ Kind(n) = "continue" => /\ Innermost(n, Loops) \in Ancestors(n)
                                    /\ Kind(Innermost(n, Loops)) \in Loops
<1>1. n \in 0..Len(prog) /\ n /= 0
  BY Family
<1>2. WellPlaced(n) /\ Ancestors(n) = prog[n].around
  BY <1>1 DEF Body, Ancestors
<1> QED
  BY <1>1, <1>2, InnermostTyped DEF WellPlaced

(* Moves go forward in the text: from the places that come last, none goes on.  *)
LEMMA MovesEnd ==
  ASSUME Body, Testable, Finished, Stepping, NEW move, move = Meaning!Moves,
         NEW B \in SUBSET Places,
         \A p \in B : Sound(p) /\ p[2] \notin Parts /\ move[p] \in B
  PROVE  B = {}
<1> DEFINE N == Len(prog)
           Early(p) == p[2] = "reach" \/ (p[2] = "test" /\ prog[p[1]].cond = "none")
           Under(n) == {k \in 0..N : k = n \/ n \in Ancestors(k)}
           Levels(p) == IF Early(p) THEN {p[1]} ELSE Under(p[1])
           X == {k \in 0..N : \E p \in B : k \in Levels(p)}
<1>1. /\ N \in Nat /\ Nodes = 1..N
      /\ \A p \in B : /\ p[1] \in 0..N
                      /\ \/ p = Reach(p[1]) /\ p[2] = "reach"
                         \/ p = After(p[1]) /\ p[2] = "after"
                         \/ p = Again(p[1]) /\ p[2] = "again"
                         \/ p = Test(p[1]) /\ p[2] = "test"
  BY DEF Body, Nodes, Places, Reach, After, Again, Test
<1> DEFINE up(n) == prog[n].up
<1>2. \A n \in 0..N :
        /\ n = 0 => move[After(n)] = <<0, "end">>
        /\ n /= 0 => \/ Later(n) /= {} /\ move[After(n)] = Reach(Min(Later(n)))
                     \/ Later(n) = {} /\ move[After(n)] \in {Again(up(n)), After(up(n))}
        /\ Kind(n) = "for" /\ prog[n].step => move[Again(n)] = <<n, "step">>
        /\ ~(Kind(n) = "for" /\ prog[n].step) => move[Again(n)] = Test(n)
        /\ prog[n].cond = "zero" => move[Test(n)] = After(n)
        /\ prog[n].cond = "none" => move[Test(n)] = Enter(n, "body")
        /\ prog[n].cond \notin {"zero", "none"} => move[Test(n)] = <<n, "cond">>
  BY MovesAre
<1>3. \A n \in 0..N : /\ Reach(n) \in B => n \in Nodes
                      /\ Again(n) \in B \/ Test(n) \in B => n \in Nodes /\ Kind(n) \in Loops
                      /\ \A part \in Parts : <<n, part>> \notin B
                      /\ Reach(n) \in B => move[Reach(n)] \in B
                      /\ After(n) \in B => move[After(n)] \in B
                      /\ Again(n) \in B => move[Again(n)] \in B
                      /\ Test(n) \in B => move[Test(n)] \in B
  BY <1>1 DEF Sound, Reach, After, Again, Test, Kind, Loops
<1>4. SUFFICES ASSUME B /= {} PROVE FALSE
  OBVIOUS
<1>5. PICK K \in X : \A k \in X : k <= K
  <2>1. X \in SUBSET (0..N) /\ X /= {}
    BY <1>1, <1>4
  <2>2. Max(X) \in X /\ \A x \in X : Max(X) >= x
    <3> HIDE DEF X
    <3> QED
      BY <1>1, <2>1, MaxIs
  <2>3. Max(X) \in Int /\ \A x \in X : x \in Int
    BY <1>1, <2>1, <2>2
  <2> QED
    BY <2>2, <2>3
<1>6. \A n \in 0..N : Reach(n) \in B => n <= K
  <2>1. ASSUME NEW n \in 0..N, Reach(n) \in B PROVE n \in X
    BY <2>1 DEF Reach
  <2> QED
    BY <1>5, <2>1
<1>7. K \in 0..N
  OBVIOUS
<1>8. \A n \in 0..N : Again(n) \in B \/ (Test(n) \in B /\ prog[n].cond /= "none") => After(n) \in B
  <2>1. ASSUME NEW n \in 0..N, Test(n) \in B, prog[n].cond /= "none" PROVE After(n) \in B
    BY <1>3, <1>2, <2>1 DEF Parts
  <2>2. ASSUME NEW n \in 0..N, Again(n) \in B PROVE After(n) \in B
    <3>1. n \in Nodes /\ Kind(n) \in Loops
      BY <1>3, <2>2
    <3>2. ~(Kind(n) = "for" /\ prog[n].step)
      BY <1>3, <1>2, <2>2 DEF Parts
    <3>3. Test(n) \in B
      BY <1>3, <1>2, <2>2, <3>2
    <3>4. prog[n].cond /= "none"
      BY <3>1, <3>2 DEF Stepping, Testable, Loops
    <3> QED
      BY <2>1, <3>3, <3>4
  <2> QED
    BY <2>1, <2>2
<1> HIDE DEF X
<1>9. \A n \in 0..N : K = n \/ n \in Ancestors(K) => After(n) \notin B
  <2> DEFINE M == {n \in 0..N : (K = n \/ n \in Ancestors(K)) /\ After(n) \in B}
  <2>1. SUFFICES ASSUME M /= {} PROVE FALSE
    OBVIOUS
  <2>2. PICK n \in M : \A m \in M : n <= m
    <3>1. M \in SUBSET Nat
      BY <1>1
    <3> HIDE DEF M
    <3> QED
      BY <2>1, <3>1, MinIs
  <2>3. n \in 0..N /\ (K = n \/ n \in Ancestors(K)) /\ After(n) \in B
    OBVIOUS
  <2>4. n /= 0
    BY <1>3, <1>2, <2>3 DEF Parts
  <2>5. n \in Nodes
    BY <1>1, <2>3, <2>4
  <2>6. After(up(n)) \notin B /\ Again(up(n)) \notin B
    <3>1. up(n) \in 0..N /\ up(n) < n /\ up(n) \in Ancestors(n)
      BY <2>5, Family
    <3>2. up(n) \in Ancestors(K)
      <4>1. CASE K = n
        BY <3>1, <4>1
      <4>2. CASE n \in Ancestors(K)
        <5>1. K \in Nodes
          BY <1>1, <1>7, <4>2 DEF Ancestors
        <5> QED
          BY <3>1, <4>2, <5>1, Family
      <4> QED
        BY <2>3, <4>1, <4>2
    <3>3. After(up(n)) \notin B
      BY <1>1, <2>2, <2>3, <3>1, <3>2
    <3> QED
      BY <1>8, <3>1, <3>3
  <2>7. Later(n) /= {}
    BY <1>3, <1>2, <2>3, <2>4, <2>6
  <2>8. PICK c \in Later(n) : Reach(c) \in B
    <3>1. Min(Later(n)) \in Later(n)
      BY <2>7, LaterTyped DEF Later
    <3>2. Reach(Min(Later(n))) \in B
      BY <1>3, <1>2, <2>3, <2>4, <2>7
    <3> QED
      BY <3>1, <3>2
  <2>9. c \in Nodes /\ c > n /\ prog[c].up = up(n)
    BY DEF Later, Kids
  <2>10. Ancestors(c) = Ancestors(n)
    BY <2>5, <2>9, Family
  <2>11. c <= K
    BY <1>1, <1>6, <2>8, <2>9
  <2>12. K \in Nodes /\ n \in Ancestors(K) /\ c \in (n + 1)..K
    BY <1>1, <1>7, <2>3, <2>5, <2>9, <2>11
  <2>13. n \in Ancestors(c)
    BY <2>12, Family
  <2> QED
    BY <1>1, <2>5, <2>10, <2>13, Family
<1>10. PICK p \in B : K \in Levels(p)
  BY DEF X
<1>11. CASE ~Early(p)
  <2>1. p[1] \in 0..N /\ (K = p[1] \/ p[1] \in Ancestors(K))
    BY <1>1, <1>10, <1>11
  <2>2. \/ p = After(p[1])
        \/ p = Again(p[1])
        \/ p = Test(p[1]) /\ prog[p[1]].cond /= "none"
    BY <1>1, <1>11
  <2>3. After(p[1]) \in B
    BY <1>8, <2>1, <2>2
  <2> QED
    BY <1>9, <2>1, <2>3
<1>12. After(K) \notin B /\ \A a \in Ancestors(K) : a \in 0..N => After(a) \notin B
  BY <1>7, <1>9
<1>13. \A slot : Enter(K, slot) \notin B
  <2>1. ASSUME NEW slot, NEW c \in Kids(K, slot), c > K, Reach(c) \in B PROVE FALSE
    <3>1. c \in 0..N
      BY <1>1 DEF Kids
    <3> QED
      BY <1>6, <1>7, <2>1, <3>1
  <2> QED
    BY <1>7, <1>12, <2>1, EnterIs
<1>14. Test(K) \notin B
  BY <1>3, <1>7, <1>8, <1>12, <1>13, <1>2
<1>15. CASE Early(p)
  <2>1. p[1] = K /\ p = Reach(K) /\ K \in Nodes
    BY <1>1, <1>3, <1>10, <1>14, <1>15
  <2>2. move[Reach(K)] \in B
    BY <1>3, <1>7, <2>1
  <2>3. \A a \in Ancestors(K) : a \in 0..N /\ After(a) \notin B /\ Again(a) \notin B
    BY <1>8, <1>12, <2>1, Family
  <2>4. Kind(K) \in {"expr", "return", "block", "do", "if", "while", "for", "switch", "break",
                     "continue", "decl"} \cup Labels
    BY <2>1, Family DEF StmtKinds, Leaves, Breakable, Loops
  <2>5. \A part \in Parts : <<K, part>> \notin B
    BY <1>3, <1>7
  <2> QED
    BY <1>7, <1>12, <1>13, <1>14, <2>1, <2>2, <2>3, <2>4, <2>5, MovesAre, JumpsOut DEF Parts
<1> QED
  BY <1>11, <1>15

(***************************************************************************)
(* What a run cannot come to, in a body that no warning is given for.        *)
(***************************************************************************)
(* No case leads past a statement that n stands behind. *)
Clear(n) == \A a \in Ancestors(n) : Kind(a) /= "switch"

(* n is, or is in, a statement that follows one which is never left.         *)
CutBy(a) == a \in Nodes /\ Clear(a) /\ \E c \in Kids(prog[a].up, prog[a].slot) :
                                          c < a /\ StmtTerminates[c]
CutOff(n) == \E a \in {n} \cup Ancestors(n) : CutBy(a)

Unreached ==
  {p \in Places :
     LET n == p[1]
     IN  \/ ~Sound(p)
         \/ CutOff(n)
         \/ n = 0 /\ p[2] \in {"after", "end"}
         \/ n /= 0 /\ p[2] = "after" /\ (Kind(n) = "return" \/ (Clear(n) /\ StmtTerminates[n]))
         \/ /\ Kind(n) = "do" /\ p[2] \in {"again", "test", "cond"}
            /\ Clear(n) /\ ListTerminates(Kids(n, "body"))}

Silent == Body /\ Testable /\ Finished /\ Stepping /\ ~WarnsOfMissingReturn /\ ~WayRound

LEMMA UnreachedIs ==
  ASSUME NEW n \in 0..Len(prog)
  PROVE  /\ Reach(n) \in Unreached <=> n = 0 \/ CutOff(n)
         /\ After(n) \in Unreached <=>
              n = 0 \/ CutOff(n) \/ Kind(n) = "return" \/ (Clear(n) /\ StmtTerminates[n])
         /\ \A p \in {Again(n), Test(n)} : p \in Unreached <=>
              \/ Kind(n) \notin Loops \/ CutOff(n)
              \/ Kind(n) = "do" /\ Clear(n) /\ ListTerminates(Kids(n, "body"))
         /\ \A part \in {"expr", "return"} : <<n, part>> \in Unreached <=> Kind(n) /= part \/ CutOff(n)
         /\ \A part \in {"init", "step"} : <<n, part>> \in Unreached <=> Kind(n) /= "for" \/ CutOff(n)
         /\ <<n, "cond">> \in Unreached <=>
              \/ Kind(n) \notin {"if", "switch"} \cup Loops \/ CutOff(n)
              \/ Kind(n) \in Loops /\ prog[n].cond \notin {"expr", "nonzero"}
              \/ Kind(n) = "do" /\ Clear(n) /\ ListTerminates(Kids(n, "body"))
         /\ <<0, "end">> \in Unreached
         /\ {Reach(n), After(n), Again(n), Test(n)} \subseteq Places
         /\ \A part \in Parts : <<n, part>> \in Places
<1>1. /\ {Reach(n), After(n), Again(n), Test(n)} \subseteq Places
      /\ \A part \in Parts : <<n, part>> \in Places /\ <<0, part>> \in Places
  BY DEF Reach, After, Again, Test, Places
<1> HIDE DEF Places
<1>2. Reach(n) \in Unreached <=> n = 0 \/ CutOff(n)
  BY <1>1 DEF Unreached, Sound, Reach
<1>3. After(n) \in Unreached <=>
        n = 0 \/ CutOff(n) \/ Kind(n) = "return" \/ (Clear(n) /\ StmtTerminates[n])
  BY <1>1 DEF Unreached, Sound, After
<1>4. Again(n) \in Unreached <=>
        \/ Kind(n) \notin Loops \/ CutOff(n)
        \/ Kind(n) = "do" /\ Clear(n) /\ ListTerminates(Kids(n, "body"))
  BY <1>1 DEF Unreached, Sound, Again
<1>5. Test(n) \in Unreached <=>
        \/ Kind(n) \notin Loops \/ CutOff(n)
        \/ Kind(n) = "do" /\ Clear(n) /\ ListTerminates(Kids(n, "body"))
  BY <1>1 DEF Unreached, Sound, Test
<1>6. ASSUME NEW part \in {"expr", "return"}
      PROVE  <<n, part>> \in Unreached <=> Kind(n) /= part \/ CutOff(n)
  BY <1>1 DEF Unreached, Sound, Parts
<1>7. ASSUME NEW part \in {"init", "step"}
      PROVE  <<n, part>> \in Unreached <=> Kind(n) /= "for" \/ CutOff(n)
  BY <1>1 DEF Unreached, Sound, Parts
<1>8. <<n, "cond">> \in Unreached <=>
        \/ Kind(n) \notin {"if", "switch"} \cup Loops \/ CutOff(n)
        \/ Kind(n) \in Loops /\ prog[n].cond \notin {"expr", "nonzero"}
        \/ Kind(n) = "do" /\ Clear(n) /\ ListTerminates(Kids(n, "body"))
  BY <1>1 DEF Unreached, Sound, Parts
<1>9. <<0, "end">> \in Unreached
  BY <1>1 DEF Unreached, Parts
<1> QED
  BY <1>1, <1>2, <1>3, <1>4, <1>5, <1>6, <1>7, <1>8, <1>9

LEMMA CutTree ==
  ASSUME Body, NEW n \in Nodes
  PROVE  /\ \A a \in Ancestors(n) : CutOff(a) => CutOff(n)
         /\ CutOff(n) => CutBy(n) \/ CutOff(prog[n].up)
         /\ Clear(n) <=> Clear(prog[n].up) /\ Kind(prog[n].up) /= "switch"
         /\ ~CutOff(0) /\ Clear(0)
<1>1. \A a \in Ancestors(n) : CutOff(a) => CutOff(n)
  BY Family DEF CutOff
<1>2. CutOff(n) => CutBy(n) \/ CutOff(prog[n].up)
  BY Family DEF CutOff
<1>3. Clear(n) <=> Clear(prog[n].up) /\ Kind(prog[n].up) /= "switch"
  BY Family DEF Clear
<1>4. ~CutOff(0) /\ Clear(0)
  BY DEF CutOff, CutBy, Clear, Ancestors, Nodes, Body
<1> QED
  BY <1>1, <1>2, <1>3, <1>4

(* The end of a list is not come to if a statement of it is never left.      *)
LEMMA ListLeft ==
  ASSUME Body, NEW n \in Nodes, Clear(n), After(n) \notin Unreached, Later(n) = {}
  PROVE  ~ListTerminates(Kids(prog[n].up, prog[n].slot))
<1>1. SUFFICES ASSUME NEW c \in Kids(prog[n].up, prog[n].slot), StmtTerminates[c] PROVE FALSE
  BY DEF ListTerminates
<1>2. n \in 0..Len(prog) /\ n /= 0 /\ c \in Nodes
  BY Family DEF Kids
<1>3. ~CutBy(n) /\ ~StmtTerminates[n]
  BY <1>2, UnreachedIs DEF CutOff
<1>4. ~(c < n)
  BY <1>1, <1>3 DEF CutBy
<1>5. ~(c > n)
  BY DEF Later
<1>6. c = n
  BY <1>2, <1>4, <1>5, Family
<1> QED
  BY <1>1, <1>3, <1>6

LEMMA EnterFree ==
  ASSUME Body, NEW n \in 0..Len(prog), ~CutOff(n), NEW slot, Kids(n, slot) /= {}
  PROVE  Enter(n, slot) \in Places \ Unreached
<1>1. PICK c \in Kids(n, slot) : Enter(n, slot) = Reach(c) /\ c > n /\ \A d \in Kids(n, slot) : c <= d
  BY EnterIs
<1>2. c \in Nodes /\ prog[c].up = n /\ prog[c].slot = slot
  BY DEF Kids
<1>3. ASSUME CutBy(c) PROVE FALSE
  <2>1. PICK d \in Kids(n, slot) : d < c
    BY <1>2, <1>3 DEF CutBy
  <2>2. d \in Nodes
    BY DEF Kids
  <2> QED
    BY <1>1, <1>2, <2>1, <2>2, Family
<1>4. ~CutOff(c) /\ c \in 0..Len(prog) /\ c /= 0
  BY <1>2, <1>3, CutTree, Family
<1> QED
  BY <1>1, <1>4, UnreachedIs

(* An empty list, or a statement in front of which control has come.          *)
LEMMA EnterStays ==
  ASSUME Body, NEW n \in Nodes, ~CutOff(n), NEW slot \in {"body", "else"},
         Kids(n, slot) /= {} \/ Kind(n) = "if" \/ (Kind(n) = "block" /\ slot = "body")
  PROVE  Enter(n, slot) \in Places \ Unreached
<1>1. n \in 0..Len(prog) /\ n /= 0
  BY Family
<1>2. CASE Kids(n, slot) /= {}
  BY <1>1, <1>2, EnterFree
<1>3. CASE Kids(n, slot) = {}
  <2>1. Enter(n, slot) = After(n)
    BY <1>3 DEF Enter
  <2>2. ~ListTerminates(Kids(n, slot))
    BY <1>3 DEF ListTerminates
  <2>3. CASE slot = "body"
    <3>1. Kind(n) \in {"block", "if"}
      BY <1>3
    <3>2. ~StmtTerminates[n]
      BY <2>2, <2>3, <3>1, TerminatesIs
    <3> QED
      BY <1>1, <2>1, <3>1, <3>2, UnreachedIs
  <2>4. CASE slot = "else" /\ Kind(n) = "if"
    <3>1. ~StmtTerminates[n]
      BY <2>2, <2>4, TerminatesIs
    <3> QED
      BY <1>1, <2>1, <2>4, <3>1, UnreachedIs
  <2> QED
    BY <1>3, <2>3, <2>4
<1> QED
  BY <1>2, <1>3

LEMMA ReachStays ==
  ASSUME Silent, NEW n \in 0..Len(prog), Reach(n) \notin Unreached, NEW move, move = Meaning!Moves
  PROVE  move[Reach(n)] \in Places \ Unreached
<1>1. Body /\ n /= 0 /\ ~CutOff(n)
  BY UnreachedIs DEF Silent
<1>2. n \in Nodes
  BY <1>1, InsideBody
<1> DEFINE Free(p) == p \in Places \ Unreached
<1>3. CASE Kind(n) \in {"expr", "return"}
  <2>1. move[Reach(n)] = <<n, Kind(n)>>
    BY <1>1, <1>3, MovesAre
  <2>2. \A part \in {"expr", "return"} : Kind(n) = part => <<n, part>> \in Places \ Unreached
    BY <1>1, UnreachedIs DEF Parts
  <2> QED
    BY <1>3, <2>1, <2>2
<1>4. CASE Kind(n) = "block"
  BY <1>1, <1>2, <1>4, MovesAre, EnterStays
<1>5. CASE Kind(n) = "do"
  <2>1. Kids(n, "body") /= {}
    BY <1>2, <1>5 DEF Silent, Finished, OneBody, Loops
  <2> QED
    BY <1>1, <1>2, <1>5, <2>1, MovesAre, EnterStays
<1>6. CASE Kind(n) = "if"
  <2>1. <<n, "cond">> \in Places \ Unreached
    BY <1>1, <1>6, UnreachedIs DEF Parts, Loops
  <2>2. \A slot \in {"body", "else"} : Enter(n, slot) \in Places \ Unreached
    BY <1>1, <1>2, <1>6, EnterStays
  <2> QED
    BY <1>1, <1>6, <2>1, <2>2, MovesAre
<1>7. CASE Kind(n) \in {"while", "for"}
  <2>1. Test(n) \in Places \ Unreached
    BY <1>1, <1>7, UnreachedIs DEF Loops
  <2>2. Kind(n) = "for" => <<n, "init">> \in Places \ Unreached
    BY <1>1, UnreachedIs DEF Parts
  <2> QED
    BY <1>1, <1>7, <2>1, <2>2, MovesAre
<1>8. CASE Kind(n) = "switch"
  <2>1. <<n, "cond">> \in Places \ Unreached
    BY <1>1, <1>8, UnreachedIs DEF Parts, Loops
  <2> QED
    BY <1>1, <1>8, <2>1, MovesAre
<1>9. CASE Kind(n) = "break"
  <2> DEFINE b == Innermost(n, Breakable)
  <2>1. b \in Ancestors(n) /\ Kind(b) \in Breakable
    BY <1>1, <1>2, <1>9, JumpsOut
  <2>2. b \in 0..Len(prog) /\ ~CutOff(b)
    BY <1>1, <1>2, <2>1, CutTree, Family
  <2>3. ~StmtTerminates[b]
    BY <1>2, <1>9 DEF Silent, WayRound
  <2>4. b /= 0 /\ Kind(b) /= "return"
    BY <2>1 DEF Kind, Breakable, Loops
  <2>5. After(b) \in Places \ Unreached
    <3> HIDE DEF b
    <3> QED
      BY <2>2, <2>3, <2>4, UnreachedIs
  <2> QED
    BY <1>1, <1>9, <2>5, MovesAre
<1>10. CASE Kind(n) = "continue"
  <2> DEFINE b == Innermost(n, Loops)
  <2>1. b \in Ancestors(n) /\ Kind(b) \in Loops
    BY <1>1, <1>2, <1>10, JumpsOut
  <2>2. b \in 0..Len(prog) /\ ~CutOff(b) /\ b \in Nodes
    <3>1. b \in 0..Len(prog) /\ ~CutOff(b)
      BY <1>1, <1>2, <2>1, CutTree, Family
    <3>2. b /= 0
      BY <2>1 DEF Kind, Loops
    <3> QED
      BY <1>1, <3>1, <3>2, InsideBody
  <2>3. Kind(b) = "do" => ~StmtTerminates[b]
    BY <1>2, <1>10 DEF Silent, WayRound
  <2>4. Again(b) \in Places \ Unreached
    <3> HIDE DEF b
    <3>1. Kind(b) = "do" => ~ListTerminates(Kids(b, "body"))
      BY <2>2, <2>3, TerminatesIs
    <3> QED
      BY <2>1, <2>2, <3>1, UnreachedIs
  <2> QED
    BY <1>1, <1>10, <2>4, MovesAre
<1>11. CASE Kind(n) \in {"decl"} \cup Labels
  <2>1. ~StmtTerminates[n] /\ Kind(n) /= "return"
    BY <1>2, <1>11, TerminatesIs DEF Labels
  <2>2. After(n) \in Places \ Unreached
    BY <1>1, <2>1, UnreachedIs
  <2> QED
    BY <1>1, <1>11, <2>2, MovesAre
<1>12. Kind(n) \in {"expr", "return", "block", "do", "if", "while", "for", "switch", "break",
                    "continue", "decl"} \cup Labels
  BY <1>1, <1>2, Family DEF StmtKinds, Leaves, Breakable, Loops
<1> QED
  BY <1>3, <1>4, <1>5, <1>6, <1>7, <1>8, <1>9, <1>10, <1>11, <1>12

LEMMA AfterStays ==
  ASSUME Silent, NEW n \in 0..Len(prog), After(n) \notin Unreached, NEW move, move = Meaning!Moves
  PROVE  move[After(n)] \in Places \ Unreached
<1> DEFINE up == prog[n].up
<1>1. Body /\ n /= 0 /\ ~CutOff(n) /\ Kind(n) /= "return"
  BY UnreachedIs DEF Silent
<1>2. n \in Nodes
  BY <1>1, InsideBody
<1>3. up \in 0..Len(prog) /\ ~CutOff(up) /\ up \in Ancestors(n)
  BY <1>1, <1>2, CutTree, Family
<1>4. CASE Later(n) /= {}
  <2> DEFINE c == Min(Later(n))
  <2>1. c \in Later(n) /\ \A d \in Later(n) : c <= d
    BY <1>1, <1>4, LaterTyped DEF Later
  <2>2. c \in Nodes /\ c > n /\ prog[c].up = up /\ prog[c].slot = prog[n].slot
    BY <2>1 DEF Later, Kids
  <2>3. move[After(n)] = Reach(c)
    BY <1>1, <1>4, MovesAre
  <2> HIDE DEF c
  <2>4. ASSUME CutBy(c) PROVE FALSE
    <3>1. PICK d \in Kids(up, prog[n].slot) : d < c /\ StmtTerminates[d]
      BY <2>2, <2>4 DEF CutBy
    <3>2. d \in Nodes
      BY DEF Kids
    <3>3. ~(d > n)
      <4>1. d > n => d \in Later(n)
        BY DEF Later
      <4> QED
        BY <1>1, <2>1, <2>2, <3>1, <3>2, <4>1, Family
    <3>4. Clear(n)
      BY <1>1, <1>2, <2>2, <2>4, CutTree DEF CutBy
    <3>5. ~(d < n)
      BY <1>1, <1>2, <3>1, <3>4 DEF CutOff, CutBy
    <3>6. d = n
      BY <1>1, <1>2, <3>2, <3>3, <3>5, Family
    <3> QED
      BY <3>1, <3>4, <3>6, UnreachedIs
  <2>5. c \in 0..Len(prog) /\ c /= 0 /\ ~CutOff(c)
    BY <1>1, <1>3, <2>2, <2>4, CutTree, Family
  <2> QED
    BY <2>3, <2>5, UnreachedIs
<1>5. ASSUME Later(n) = {}, Clear(n) PROVE ~ListTerminates(Kids(up, prog[n].slot))
  BY <1>1, <1>2, <1>5, ListLeft
<1>6. prog[n].slot \in {"body", "else"} /\ (Kind(up) /= "if" => prog[n].slot = "body")
  BY <1>1, <1>2, Family
<1>7. Clear(up) /\ Kind(up) /= "switch" => Clear(n)
  BY <1>1, <1>2, CutTree
<1>8. CASE Later(n) = {} /\ Kind(up) \in Loops
  <2>1. Kind(up) = "do" /\ Clear(up) => ~ListTerminates(Kids(up, "body"))
    BY <1>5, <1>6, <1>7, <1>8
  <2>2. Again(up) \in Places \ Unreached
    <3> HIDE DEF up
    <3> QED
      BY <1>3, <1>8, <2>1, UnreachedIs
  <2> QED
    BY <1>1, <1>8, <2>2, MovesAre
<1>9. CASE Later(n) = {} /\ Kind(up) \notin Loops
  <2>1. up /= 0
    <3>1. ASSUME up = 0 PROVE FALSE
      <4>1. Clear(n) /\ prog[n].slot = "body"
        BY <1>1, <1>2, <1>6, <1>7, <3>1, CutTree DEF Kind
      <4> QED
        BY <1>5, <1>9, <3>1, <4>1 DEF Silent, WarnsOfMissingReturn
    <3> QED
      BY <3>1
  <2>2. up \in Nodes
    BY <1>1, <1>3, <2>1, InsideBody
  <2>3. Kind(up) \in {"block", "if", "switch"}
    <3>1. Kind(up) \in StmtKinds /\ Kind(up) \notin Leaves
      BY <1>1, <1>2, <2>2, Family
    <3> QED
      BY <1>9, <3>1 DEF StmtKinds, Breakable
  <2>4. ASSUME Clear(up), StmtTerminates[up] PROVE FALSE
    <3>1. CASE Kind(up) \in {"block", "if"}
      <4>1. Clear(n)
        BY <1>7, <2>4, <3>1
      <4>2. ~ListTerminates(Kids(up, prog[n].slot))
        BY <1>5, <1>9, <4>1
      <4>3. ListTerminates(Kids(up, "body")) /\ (Kind(up) = "if" => ListTerminates(Kids(up, "else")))
        <5> HIDE DEF up
        <5> QED
          BY <2>2, <2>4, <3>1, TerminatesIs
      <4> QED
        BY <1>6, <3>1, <4>2, <4>3
    <3>2. CASE Kind(up) = "switch"
      <4>1. EndsWithReturn(SwitchList(up))
        <5> HIDE DEF up
        <5> QED
          BY <2>2, <2>4, <3>2, TerminatesIs
      <4>2. SwitchList(up) = Kids(up, "body")
        <5> HIDE DEF up
        <5> QED
          BY <2>2, <3>2 DEF Silent, WayRound
      <4>3. n \in Kids(up, "body") /\ \A c \in Kids(up, "body") : ~(c > n)
        <5>1. prog[n].slot = "body"
          BY <1>6, <3>2
        <5> QED
          BY <1>1, <1>2, <1>9, <5>1, Family DEF Later
      <4>4. Max(Kids(up, "body")) = n
        <5>1. Kids(up, "body") \in SUBSET Nat /\ n \in Nat
          BY <1>1, <1>2 DEF Kids, Nodes, Body
        <5>2. \A c \in Kids(up, "body") : n >= c
          BY <4>3, <5>1
        <5> QED
          BY <4>3, <5>1, <5>2, MaxUnique
      <4> QED
        BY <1>1, <4>1, <4>2, <4>4 DEF EndsWithReturn
    <3> QED
      BY <2>3, <3>1, <3>2
  <2>5. After(up) \in Places \ Unreached
    <3> HIDE DEF up
    <3> QED
      BY <1>3, <2>1, <2>3, <2>4, UnreachedIs
  <2> QED
    BY <1>1, <1>9, <2>5, MovesAre
<1> QED
  BY <1>4, <1>8, <1>9

LEMMA TestStays ==
  ASSUME Silent, NEW n \in 0..Len(prog), NEW move, move = Meaning!Moves
  PROVE  /\ Again(n) \notin Unreached => move[Again(n)] \in Places \ Unreached
         /\ Test(n) \notin Unreached => move[Test(n)] \in Places \ Unreached
<1>1. Body
  BY DEF Silent
<1>2. ASSUME Again(n) \notin Unreached PROVE move[Again(n)] \in Places \ Unreached
  <2>1. Test(n) \in Places \ Unreached /\ ~CutOff(n)
    BY <1>2, UnreachedIs
  <2>2. Kind(n) = "for" => <<n, "step">> \in Places \ Unreached
    BY <2>1, UnreachedIs DEF Parts
  <2> QED
    BY <1>1, <2>1, <2>2, MovesAre, UnreachedIs
<1>3. ASSUME Test(n) \notin Unreached PROVE move[Test(n)] \in Places \ Unreached
  <2>1. /\ Kind(n) \in Loops /\ ~CutOff(n)
        /\ ~(Kind(n) = "do" /\ Clear(n) /\ ListTerminates(Kids(n, "body")))
    BY <1>3, UnreachedIs
  <2>2. n /= 0 /\ n \in Nodes
    <3>1. n /= 0
      BY <2>1 DEF Kind, Loops
    <3> QED
      BY <1>1, <3>1, InsideBody
  <2>3. CASE prog[n].cond = "zero"
    <3>1. ~(Clear(n) /\ StmtTerminates[n]) /\ Kind(n) /= "return"
      BY <2>1, <2>2, <2>3, TerminatesIs DEF Loops
    <3>2. After(n) \in Places \ Unreached
      BY <2>1, <2>2, <3>1, UnreachedIs
    <3> QED
      BY <1>1, <2>3, <3>2, MovesAre
  <2>4. CASE prog[n].cond = "none"
    <3>1. Kids(n, "body") /= {}
      BY <2>1, <2>2 DEF Silent, Finished, OneBody
    <3>2. Enter(n, "body") \in Places \ Unreached
      BY <1>1, <2>1, <2>2, <3>1, EnterFree
    <3> QED
      BY <1>1, <2>4, <3>2, MovesAre
  <2>5. CASE prog[n].cond \notin {"zero", "none"}
    <3>1. prog[n].cond \in {"expr", "nonzero"}
      <4>1. prog[n] \in Node
        BY <1>1, <2>2 DEF Body, Nodes
      <4> QED
        BY <2>5, <4>1 DEF Node, Conditions
    <3>2. <<n, "cond">> \in Places \ Unreached
      BY <2>1, <3>1, UnreachedIs DEF Parts
    <3> QED
      BY <1>1, <2>5, <3>2, MovesAre
  <2> QED
    BY <2>3, <2>4, <2>5
<1> QED
  BY <1>2, <1>3

(* From a place that a run can come to, the moves end in a point that it can.  *)
LEMMA SettlesFree ==
  ASSUME Silent, NEW p \in Places \ Unreached
  PROVE  /\ Meaning!Settle(Meaning!Moves)[p] \in Places \ Unreached
         /\ Meaning!Settle(Meaning!Moves)[p][2] \in Parts
<1> DEFINE move == Meaning!Moves
           settled == Meaning!Settle(move)
           Good == {q \in Places \ Unreached : q[2] \in Parts}
           Bad == {q \in Places \ Unreached : settled[q] \notin Good}
<1>1. Body /\ Testable /\ Finished /\ Stepping /\ move \in [Places -> Places]
  BY MovesTyped DEF Silent
<1>2. \A q \in Places : settled[q] = IF q[2] \in Parts THEN q ELSE settled[move[q]]
  <2> HIDE DEF move
  <2> QED
    BY <1>1, SettleIs
<1>3. ASSUME NEW q \in Places \ Unreached PROVE Sound(q)
  BY DEF Unreached
<1>4. ASSUME NEW q \in Places \ Unreached, q[2] \notin Parts PROVE move[q] \in Places \ Unreached
  <2>1. PICK n \in 0..Len(prog) : q \in {Reach(n), After(n), Again(n), Test(n)}
    BY <1>4 DEF Places, Reach, After, Again, Test
  <2> QED
    BY <1>4, <2>1, ReachStays, AfterStays, TestStays
<1> HIDE DEF move, settled
<1>5. ASSUME NEW q \in Bad PROVE Sound(q) /\ q[2] \notin Parts /\ move[q] \in Bad
  <2>1. q[2] \notin Parts
    BY <1>2
  <2> QED
    BY <1>2, <1>3, <1>4, <2>1
<1>6. Bad = {}
  <2>1. Bad \in SUBSET Places
    OBVIOUS
  <2> HIDE DEF Bad
  <2> QED
    BY <1>1, <1>5, <2>1, MovesEnd DEF move
<1> QED
  BY <1>6 DEF move, settled

(***************************************************************************)
(* What a switch selects.                                                  *)
(***************************************************************************)
(* d is the default found at m. *)
Holds(m, d) ==
  /\ d \in Nodes /\ Kind(d) = "default"
  /\ \/ d = m
     \/ m \in Ancestors(d) /\ \A a \in Ancestors(d) : a >= m => Kind(a) /= "switch"

LEMMA HoldsUp ==
  ASSUME Body, NEW c \in Nodes, NEW d, Holds(c, d)
  PROVE  /\ prog[c].up \in Ancestors(d)
         /\ \A a \in Ancestors(d) : a > prog[c].up => Kind(a) /= "switch"
<1> DEFINE m == prog[c].up
<1>1. /\ d \in Nodes /\ m \in Ancestors(c) /\ m < c /\ m \in 0..Len(prog) /\ c \in 0..Len(prog)
      /\ Len(prog) \in Nat
      /\ \A a \in Ancestors(c) : a \in 0..Len(prog) /\ ~(a > m)
  <2>1. \A a \in Ancestors(c) : a = m \/ (a \in 0..Len(prog) /\ a < m)
    <3>1. Ancestors(c) = {m} \cup Ancestors(m) /\ m \in 0..Len(prog)
      BY Family
    <3>2. \A a \in Ancestors(m) : a \in 0..Len(prog) /\ a < m
      BY <3>1, InsideBody
    <3> QED
      BY <3>1, <3>2
  <2> QED
    BY <2>1, Family DEF Holds
<1>2. CASE d = c
  BY <1>1, <1>2
<1>3. CASE c \in Ancestors(d) /\ \A a \in Ancestors(d) : a >= c => Kind(a) /= "switch"
  <2>1. m \in Ancestors(d)
    BY <1>1, <1>3, Family
  <2>2. ASSUME NEW a \in Ancestors(d), a > m PROVE Kind(a) /= "switch"
    <3>1. a \in 0..Len(prog)
      BY <1>1, Family
    <3>2. a < c => a \in Ancestors(c)
      BY <1>1, <1>3, Family
    <3>3. a >= c
      BY <1>1, <2>2, <3>1, <3>2
    <3> QED
      BY <1>3, <3>3
  <2> QED
    BY <2>1, <2>2
<1> QED
  BY <1>2, <1>3 DEF Holds

LEMMA DefaultHeld ==
  ASSUME Body
  PROVE  \A m \in Nodes : LabelledDefault[m] => \E d : Holds(m, d)
<1> DEFINE Bad == {m \in Nodes : LabelledDefault[m] /\ ~(\E d : Holds(m, d))}
<1>1. SUFFICES ASSUME Bad /= {} PROVE FALSE
  OBVIOUS
<1>2. Len(prog) \in Nat /\ Nodes = 1..Len(prog)
  BY DEF Body, Nodes
<1>3. PICK m \in Bad : \A x \in Bad : m >= x
  <2>1. Bad \in SUBSET (0..Len(prog))
    BY <1>2
  <2> HIDE DEF Bad
  <2> QED
    BY <1>1, <1>2, <2>1, MaxIs
<1>4. m \in Nodes /\ LabelledDefault[m] /\ ~(\E d : Holds(m, d))
  OBVIOUS
<1>5. Kind(m) /= "default"
  BY <1>4 DEF Holds
<1>6. PICK slot \in {"body", "else"} : \E c \in Kids(m, slot) : LabelledDefault[c]
  BY <1>4, <1>5, DefaultIs
<1>7. PICK c \in Kids(m, slot) : LabelledDefault[c]
  BY <1>6
<1>8. Kind(m) \in {"block", "if"} \cup Loops
  BY <1>4, <1>5, DefaultIs
<1>9. c \in Nodes /\ prog[c].up = m /\ m < c
  <2>1. c \in Nodes /\ prog[c].up = m
    BY DEF Kids
  <2> QED
    BY <2>1, Family
<1>10. PICK d : Holds(c, d)
  <2>1. c \notin Bad
    BY <1>2, <1>3, <1>4, <1>9
  <2> QED
    BY <1>9, <1>7, <2>1
<1>11. m \in Ancestors(d) /\ \A a \in Ancestors(d) : a > m => Kind(a) /= "switch"
  BY <1>9, <1>10, HoldsUp
<1>12. \A a \in Ancestors(d) : a >= m => Kind(a) /= "switch"
  <2>1. \A a \in Ancestors(d) : a \in 0..Len(prog)
    BY <1>10, Family DEF Holds
  <2>2. Kind(m) /= "switch"
    BY <1>8 DEF Loops
  <2> QED
    BY <1>2, <1>4, <1>11, <2>1, <2>2
<1>13. Holds(m, d)
  BY <1>10, <1>11, <1>12 DEF Holds
<1> QED
  BY <1>4, <1>13

LEMMA DefaultSelected ==
  ASSUME Body, NEW n \in Nodes, HasDefaultLabel(Kids(n, "body"))
  PROVE  Collect(n) /= CasesOf(n)
<1>1. PICK c \in Kids(n, "body") : LabelledDefault[c]
  BY DEF HasDefaultLabel
<1>2. c \in Nodes /\ prog[c].up = n
  BY DEF Kids
<1>3. PICK d : Holds(c, d)
  BY <1>1, <1>2, DefaultHeld
<1>4. d \in Nodes /\ Kind(d) = "default" /\ n \in Ancestors(d)
      /\ \A a \in Ancestors(d) : a > n => Kind(a) /= "switch"
  BY <1>2, <1>3, HoldsUp DEF Holds
<1>5. d \in Collect(n) /\ d \notin CasesOf(n)
  BY <1>4 DEF Collect, CasesOf, Labels
<1> QED
  BY <1>5

LEMMA LabelFree ==
  ASSUME Body, NEW n \in Nodes, Kind(n) = "switch", ~CutOff(n), NEW c \in Collect(n)
  PROVE  After(c) \in Places \ Unreached
<1>1. c \in Nodes /\ Kind(c) \in Labels /\ n \in Ancestors(c)
  BY DEF Collect
<1>2. c \in 0..Len(prog) /\ c /= 0 /\ Len(prog) \in Nat
  BY <1>1, Family
<1>3. ~StmtTerminates[c] /\ Kind(c) /= "return"
  BY <1>1, TerminatesIs DEF Labels
<1>4. ASSUME NEW a \in {c} \cup Ancestors(c), CutBy(a) PROVE FALSE
  <2>1. n \notin Ancestors(a)
    BY <1>4 DEF CutBy, Clear
  <2>2. a \in Ancestors(c)
    BY <1>1, <2>1
  <2>3. a \in 0..Len(prog) /\ n \in 0..Len(prog)
    BY <1>1, <2>2, Family
  <2>4. ~(n < a)
    BY <1>1, <2>1, <2>2, Family
  <2>5. a = n \/ a \in Ancestors(n)
    <3>1. a < n => a \in Ancestors(n)
      BY <1>1, <2>2, Family
    <3> QED
      BY <1>2, <2>3, <2>4, <3>1
  <2> QED
    BY <1>4, <2>5 DEF CutOff
<1>5. ~CutOff(c)
  BY <1>4 DEF CutOff
<1> QED
  BY <1>2, <1>3, <1>5, UnreachedIs

LEMMA SelectFree ==
  ASSUME Silent, NEW n \in Nodes, Kind(n) = "switch", ~CutOff(n), NEW v
  PROVE  Meaning!Select(n, v) \in Places \ Unreached
<1>1. Body /\ n \in 0..Len(prog) /\ n /= 0 /\ Len(prog) \in Nat
  BY Family DEF Silent
<1>2. CASE v \in CasesOf(n)
  <2>1. After(v) \in Places \ Unreached
    <3>1. v \in Collect(n)
      BY <1>2 DEF CasesOf
    <3> QED
      BY <1>1, <3>1, LabelFree
  <2> QED
    BY <1>1, <1>2, <2>1, SelectIs
<1>3. CASE v \notin CasesOf(n) /\ Collect(n) /= CasesOf(n)
  <2>1. Defaults(n) \in SUBSET (0..Len(prog)) /\ Defaults(n) /= {}
    <3>1. Collect(n) \subseteq Nodes /\ Nodes \subseteq 0..Len(prog)
      BY <1>1 DEF Collect, Nodes, Body
    <3>2. \E c \in Collect(n) : Kind(c) = "default"
      BY <1>3 DEF Collect, CasesOf, Labels
    <3> QED
      BY <3>1, <3>2 DEF Defaults
  <2>2. Min(Defaults(n)) \in Defaults(n)
    <3>1. Defaults(n) \in SUBSET Nat
      BY <1>1, <2>1
    <3> QED
      BY <2>1, <3>1, MinIs
  <2>3. Min(Defaults(n)) \in Collect(n)
    BY <2>2 DEF Defaults
  <2>4. After(Min(Defaults(n))) \in Places \ Unreached
    BY <1>1, <2>3, LabelFree
  <2> QED
    BY <1>1, <1>3, <2>4, SelectIs
<1>4. CASE v \notin CasesOf(n) /\ Collect(n) = CasesOf(n)
  <2>1. ASSUME StmtTerminates[n] PROVE FALSE
    <3>1. HasDefaultLabel(SwitchList(n))
      BY <2>1, TerminatesIs
    <3>2. SwitchList(n) = Kids(n, "body")
      BY DEF Silent, WayRound
    <3> QED
      BY <1>1, <1>4, <3>1, <3>2, DefaultSelected
  <2>2. After(n) \in Places \ Unreached
    BY <1>1, <2>1, UnreachedIs
  <2> QED
    BY <1>1, <1>4, <2>2, SelectIs
<1> QED
  BY <1>2, <1>3, <1>4

(* From a point that a run can come to, every value leads to such a place.     *)
LEMMA SuccStays ==
  ASSUME Silent, NEW n \in 0..Len(prog), NEW part \in Parts \ {"return", "end"},
         <<n, part>> \notin Unreached, NEW v \in Meaning!Values(<<n, part>>)
  PROVE  Succ(<<n, part>>, v) \in Places \ Unreached
<1>1. Body /\ Finished
  BY DEF Silent
<1>2. CASE part = "expr"
  <2>1. Kind(n) = "expr" /\ ~CutOff(n)
    BY <1>2, UnreachedIs
  <2>2. n \in Nodes /\ n /= 0
    <3>1. n /= 0
      BY <2>1 DEF Kind
    <3> QED
      BY <1>1, <3>1, InsideBody
  <2>3. ~StmtTerminates[n]
    BY <2>1, <2>2, TerminatesIs
  <2>4. After(n) \in Places \ Unreached
    BY <2>1, <2>2, <2>3, UnreachedIs
  <2> QED
    BY <1>2, <2>4, SuccIs
<1>3. CASE part \in {"init", "step"}
  <2>1. Kind(n) = "for" /\ ~CutOff(n)
    BY <1>3, UnreachedIs
  <2>2. Test(n) \in Places \ Unreached
    BY <2>1, UnreachedIs DEF Loops
  <2> QED
    BY <1>3, <2>2, SuccIs
<1>4. CASE part = "cond"
  <2>1. /\ Kind(n) \in {"if", "switch"} \cup Loops /\ ~CutOff(n)
        /\ Kind(n) \in Loops => prog[n].cond \in {"expr", "nonzero"}
        /\ ~(Kind(n) = "do" /\ Clear(n) /\ ListTerminates(Kids(n, "body")))
    BY <1>4, UnreachedIs
  <2>2. n \in Nodes /\ n /= 0
    <3>1. n /= 0
      BY <2>1 DEF Kind, Loops
    <3> QED
      BY <1>1, <3>1, InsideBody
  <2>3. CASE Kind(n) = "switch"
    <3>1. Meaning!Select(n, v) \in Places \ Unreached
      BY <2>1, <2>2, <2>3, SelectFree
    <3> QED
      BY <1>4, <2>3, <3>1, SuccIs
  <2>4. CASE Kind(n) = "if"
    <3>1. \A slot \in {"body", "else"} : Enter(n, slot) \in Places \ Unreached
      BY <1>1, <2>1, <2>2, <2>4, EnterStays
    <3> QED
      BY <1>4, <2>4, <3>1, SuccIs
  <2>5. CASE Kind(n) \in Loops
    <3>1. Kids(n, "body") /= {}
      BY <1>1, <2>2, <2>5 DEF Finished, OneBody
    <3>2. Enter(n, "body") \in Places \ Unreached
      BY <1>1, <2>1, <2>2, <3>1, EnterFree
    <3>3. ASSUME v = 0 PROVE After(n) \in Places \ Unreached
      <4>1. Meaning!Values(<<n, "cond">>) =
              IF prog[n].cond = "nonzero" THEN {1} ELSE {0, 1}
        <5>1. Kind(n) /= "switch" /\ Meaning!Kind(n) = Kind(n)
          BY <2>5, SameTree DEF Loops
        <5> QED
          BY <5>1 DEF Meaning!Values
      <4>2. prog[n].cond /= "nonzero"
        BY <1>4, <3>3, <4>1
      <4>3. prog[n].cond = "expr"
        BY <2>1, <2>5, <4>2
      <4>4. ~(Clear(n) /\ StmtTerminates[n]) /\ Kind(n) /= "return"
        BY <2>1, <2>2, <2>5, <4>3, TerminatesIs DEF Loops
      <4> QED
        BY <2>1, <2>2, <4>4, UnreachedIs
    <3> QED
      BY <1>4, <2>5, <3>2, <3>3, SuccIs
  <2> QED
    BY <2>1, <2>3, <2>4, <2>5
<1> QED
  BY <1>2, <1>3, <1>4 DEF Parts

(***************************************************************************)
(* The runs of a body that no warning is given for.                         *)
(***************************************************************************)
LEMMA UnreachedSame ==
  ASSUME prog' = prog
  PROVE  /\ Unreached' = Unreached /\ Places' = Places
         /\ Stepping => Stepping'
         /\ WarnsOfMissingReturn' <=> WarnsOfMissingReturn
         /\ WayRound' <=> WayRound
<1>1. Nodes' = Nodes /\ Places' = Places
  BY DEF Nodes, Places
<1>2. \A n : Kind(n)' = Kind(n) /\ Ancestors(n)' = Ancestors(n)
  BY DEF Kind, Ancestors
<1>3. \A n, slot : Kids(n, slot)' = Kids(n, slot)
  BY <1>1 DEF Kids
<1>4. \A n, kinds : Innermost(n, kinds)' = Innermost(n, kinds)
  BY <1>2 DEF Innermost
<1>5. LabelledDefault' = LabelledDefault
  BY <1>1, <1>2, <1>3, ZenonT(60) DEF LabelledDefault
<1>6. \A list : HasDefaultLabel(list)' <=> HasDefaultLabel(list)
  BY <1>5 DEF HasDefaultLabel
<1>7. \A n : SwitchList(n)' = SwitchList(n)
  BY <1>2, <1>3 DEF SwitchList
<1>8. \A list : EndsWithReturn(list)' <=> EndsWithReturn(list)
  BY <1>2 DEF EndsWithReturn
<1>9. StmtTerminates' = StmtTerminates
  <2> DEFINE ends(h, n, slot) == \E c \in Kids(n, slot) : h[c]
             val(h, n) ==
                CASE Kind(n) = "return" -> TRUE
                  [] Kind(n) = "block" -> ends(h, n, "body")
                  [] Kind(n) = "if" -> ends(h, n, "body") /\ ends(h, n, "else")
                  [] Kind(n) \in {"while", "for"} -> prog[n].cond \in {"none", "nonzero"}
                  [] Kind(n) = "do" -> ends(h, n, "body") \/ prog[n].cond = "nonzero"
                  [] Kind(n) = "switch" -> /\ HasDefaultLabel(SwitchList(n))
                                           /\ EndsWithReturn(SwitchList(n))
                  [] OTHER -> FALSE
  <2>1. StmtTerminates = CHOOSE h : h = [n \in Nodes |-> val(h, n)]
    BY DEF StmtTerminates
  <2>2. StmtTerminates' = CHOOSE h : h = [n \in Nodes' |-> val(h, n)']
    BY DEF StmtTerminates
  <2>3. \A h, n, slot : ends(h, n, slot)' = ends(h, n, slot)
    BY <1>3
  <2>4. \A n : (HasDefaultLabel(SwitchList(n)) /\ EndsWithReturn(SwitchList(n)))'
              = (HasDefaultLabel(SwitchList(n)) /\ EndsWithReturn(SwitchList(n)))
    BY <1>6, <1>7, <1>8
  <2> HIDE DEF ends
  <2>5. \A h, n : val(h, n)' = val(h, n)
    BY <1>2, <2>3, <2>4
  <2> HIDE DEF val
  <2> QED
    BY <1>1, <2>1, <2>2, <2>5
<1>10. \A list : ListTerminates(list)' <=> ListTerminates(list)
  BY <1>9 DEF ListTerminates
<1>11. WarnsOfMissingReturn' <=> WarnsOfMissingReturn
  BY <1>3, <1>10 DEF WarnsOfMissingReturn
<1>12. WayRound' <=> WayRound
  BY <1>1, <1>2, <1>3, <1>4, <1>7, <1>9 DEF WayRound
<1>13. Stepping => Stepping'
  BY <1>1, <1>2 DEF Stepping
<1>14. \A n : Clear(n)' <=> Clear(n)
  BY <1>2 DEF Clear
<1>15. \A n : CutBy(n)' <=> CutBy(n)
  BY <1>1, <1>3, <1>9, <1>14 DEF CutBy
<1>16. \A n : CutOff(n)' <=> CutOff(n)
  BY <1>2, <1>15 DEF CutOff
<1>17. \A p : Sound(p)' <=> Sound(p)
  BY <1>2 DEF Sound
<1>18. Unreached' = Unreached
  BY <1>1, <1>2, <1>3, <1>9, <1>10, <1>14, <1>16, <1>17 DEF Unreached
<1> QED
  BY <1>1, <1>11, <1>12, <1>13, <1>18

(* What was evaluated last is a point that such a run can come to.            *)
Arrived(last) ==
  /\ last[1] \in Places \ Unreached /\ last[1][2] \in Parts
  /\ last[2] \in Meaning!Values(last[1])

SInv ==
  /\ Stepping
  /\ phase \in {"generate", "run"} => Finished
  /\ phase = "run" /\ seen /= NotStarted /\ ~WarnsOfMissingReturn /\ ~WayRound => Arrived(seen)

LEMMA ArrivedSame ==
  ASSUME prog' = prog, NEW last, Arrived(last)
  PROVE  Arrived(last)'
<1>1. Meaning!Nodes' = Meaning!Nodes /\ \A n : Meaning!Kind(n)' = Meaning!Kind(n)
  BY DEF Meaning!Nodes, Meaning!Kind
<1>2. Meaning!Values(last[1])' = Meaning!Values(last[1])
  BY <1>1 DEF Meaning!Values
<1> QED
  BY <1>2, UnreachedSame DEF Arrived

(* A for that goes round without a test and without a step is not written.    *)
LEMMA SteppingKeeps ==
  ASSUME Body, Stepping, NEW kind, WriteStmt(kind)
  PROVE  Stepping'
<1>1. PICK up \in Spine, slot \in {"body", "else"}, s \in Shapes(kind) :
        prog' = Append(prog, [kind |-> kind, up |-> up, around |-> {up} \cup Ancestors(up),
                              slot |-> slot, cond |-> s.cond, init |-> s.init, step |-> s.step])
  BY Zenon DEF WriteStmt
<1> DEFINE x == [kind |-> kind, up |-> up, around |-> {up} \cup Ancestors(up),
                 slot |-> slot, cond |-> s.cond, init |-> s.init, step |-> s.step]
<1>2. x.kind = kind /\ x.cond = s.cond /\ x.step = s.step /\ prog' = Append(prog, x)
  BY <1>1
<1>3. kind = "for" /\ s.cond = "none" => s.step
  BY DEF Shapes
<1> HIDE DEF x
<1>4. prog \in Seq(Node)
  BY DEF Body
<1>5. \A n \in Nodes' : n /= 0 /\ ((n \in Nodes /\ prog'[n] = prog[n]) \/ prog'[n] = x)
  BY <1>2, <1>4 DEF Nodes
<1>6. ASSUME NEW n \in Nodes', Kind(n)' = "for", prog'[n].cond = "none" PROVE prog'[n].step
  <2>1. n /= 0 /\ prog'[n].kind = "for"
    BY <1>5, <1>6 DEF Kind
  <2>2. CASE n \in Nodes /\ prog'[n] = prog[n]
    <3>1. Kind(n) = "for" /\ prog[n].cond = "none"
      BY <1>6, <2>1, <2>2 DEF Kind
    <3> QED
      BY <2>2, <3>1 DEF Stepping
  <2>3. CASE prog'[n] = x
    BY <1>2, <1>3, <1>6, <2>1, <2>3
  <2> QED
    BY <1>5, <2>2, <2>3
<1> QED
  BY <1>6 DEF Stepping

(* The next point after one that such a run can come to is another.           *)
LEMMA EvalArrives ==
  ASSUME MInv, SInv, RunEval, ~WarnsOfMissingReturn, ~WayRound
  PROVE  Arrived(seen')
<1>1. phase = "run" /\ Silent
  BY DEF RunEval, Running, MInv, IInv, SInv, Silent
<1>2. NotStarted = <<>> /\ Meaning!NotStarted = <<>> /\ Body
  BY <1>1 DEF NotStarted, Meaning!NotStarted, Silent
<1>3. PICK from \in Places \ Unreached :
        LET point == Meaning!Settle(Meaning!Moves)[from]
        IN  \E v \in Meaning!Values(point) : \E bit : seen' = <<point, v, bit>>
  <2>1. CASE Meaning!Start
    <3>1. Kids(0, "body") /= {}
      BY DEF WarnsOfMissingReturn, ListTerminates
    <3>2. 0 \in 0..Len(prog) /\ ~CutOff(0)
      BY <1>2 DEF CutOff, CutBy, Ancestors, Nodes, Body
    <3>3. Enter(0, "body") \in Places \ Unreached
      BY <1>2, <3>1, <3>2, EnterFree
    <3>4. Meaning!Enter(0, "body") = Enter(0, "body")
      BY SameTree
    <3> QED
      BY <2>1, <3>3, <3>4, Zenon DEF Meaning!Start
  <2>2. CASE Meaning!Proceed
    <3>1. seen /= NotStarted /\ seen[1][2] \notin {"return", "end"}
      BY <1>2, <2>2 DEF Meaning!Proceed, Meaning!Over
    <3>2. Arrived(seen)
      BY <1>1, <3>1 DEF SInv
    <3>3. PICK n \in 0..Len(prog), part \in Parts : seen[1] = <<n, part>>
      BY <3>2 DEF Arrived, Places
    <3>4. /\ part \in Parts \ {"return", "end"} /\ <<n, part>> \notin Unreached
          /\ seen[2] \in Meaning!Values(<<n, part>>)
      BY <3>1, <3>2, <3>3 DEF Arrived
    <3>5. Succ(<<n, part>>, seen[2]) \in Places \ Unreached
      BY <1>1, <3>4, SuccStays
    <3>6. Meaning!Succ(seen[1], seen[2]) \in Places \ Unreached
      BY <3>3, <3>5 DEF Succ
    <3> QED
      BY <2>2, <3>6, Zenon DEF Meaning!Proceed
  <2> QED
    BY <2>1, <2>2, EvalMeans
<1>4. /\ Meaning!Settle(Meaning!Moves)[from] \in Places \ Unreached
      /\ Meaning!Settle(Meaning!Moves)[from][2] \in Parts
  BY <1>1, SettlesFree
<1> QED
  BY <1>3, <1>4 DEF Arrived

LEMMA SInitHolds == Init => SInv
BY DEF Init, SInv, Stepping, Nodes

LEMMA SNextKeeps == MInv /\ SInv /\ [Next]_vars => SInv'
<1> SUFFICES ASSUME MInv, SInv, [Next]_vars PROVE SInv'
  OBVIOUS
<1>1. /\ Body /\ Stepping
      /\ phase \in {"write", "generate"} => seen = NotStarted
      /\ phase \in {"generate", "run"} => Finished
      /\ phase = "run" /\ seen /= NotStarted /\ ~WarnsOfMissingReturn /\ ~WayRound => Arrived(seen)
  BY DEF MInv, IInv, SInv
<1>2. ASSUME prog' = prog PROVE Stepping' /\ (Finished => Finished')
  BY <1>1, <1>2, UnreachedSame, TestableSame
<1>3. NotStarted' = NotStarted
  BY DEF NotStarted
<1>4. CASE \E kind \in Kinds : WriteStmt(kind)
  <2>1. PICK kind \in Kinds : WriteStmt(kind)
    BY <1>4
  <2>2. phase' = "write"
    BY <2>1 DEF WriteStmt
  <2>3. Stepping'
    BY <1>1, <2>1, SteppingKeeps
  <2> QED
    BY <2>2, <2>3 DEF SInv
<1>5. CASE TooDeep
  <2>1. phase' = "failed" /\ prog' = prog
    BY <1>5 DEF TooDeep
  <2> QED
    BY <1>2, <2>1 DEF SInv
<1>6. CASE StartFunc
  <2>1. phase' = "generate" /\ prog' = prog
    BY <1>6 DEF StartFunc
  <2>2. Finished
    BY <1>1, <1>6, FinishedIs DEF StartFunc
  <2> QED
    BY <1>2, <2>1, <2>2 DEF SInv
<1>7. CASE GenStmt \/ EndChain
  <2>1. phase = "generate" /\ phase' = "generate" /\ prog' = prog
    BY <1>7 DEF GenStmt, EndChain
  <2> QED
    BY <1>1, <1>2, <2>1 DEF SInv
<1>8. CASE EndFunc
  <2>1. phase = "generate" /\ prog' = prog /\ seen' = seen
    BY <1>8 DEF EndFunc
  <2>2. seen' = NotStarted'
    BY <1>1, <1>3, <2>1
  <2> QED
    BY <1>1, <1>2, <2>1, <2>2 DEF SInv
<1>9. CASE RunEval
  <2>1. prog' = prog /\ phase = "run"
    BY <1>9 DEF RunEval, Running
  <2>2. ASSUME ~WarnsOfMissingReturn', ~WayRound' PROVE Arrived(seen)'
    <3>1. PICK last : last = seen'
      OBVIOUS
    <3>2. Arrived(last)
      BY <1>9, <2>1, <2>2, <3>1, UnreachedSame, EvalArrives
    <3>3. Arrived(last)'
      BY <2>1, <3>2, ArrivedSame
    <3> QED
      BY ONLY <3>1, <3>3
  <2> QED
    BY <1>1, <1>2, <2>1, <2>2 DEF SInv
<1>10. CASE RunLabel \/ RunJump \/ RunRet \/ UNCHANGED vars
  <2>1. /\ prog' = prog /\ seen' = seen
        /\ phase' \in {"generate", "run"} => phase \in {"generate", "run"}
        /\ phase' = "run" => phase = "run"
    BY <1>10 DEF RunLabel, RunJump, RunRet, vars, Running
  <2>2. ASSUME Arrived(seen) PROVE Arrived(seen)'
    <3>1. PICK last : last = seen
      OBVIOUS
    <3>2. Arrived(last)'
      BY <2>1, <2>2, <3>1, ArrivedSame
    <3>3. last = seen'
      BY <2>1, <3>1
    <3> QED
      BY ONLY <3>2, <3>3
  <2> QED
    BY <1>1, <1>2, <1>3, <2>1, <2>2, UnreachedSame DEF SInv
<1> QED
  BY <1>4, <1>5, <1>6, <1>7, <1>8, <1>9, <1>10 DEF Next, Generate, Run, Stopped

(* A function that check_function() gives no warning for never arrives at the   *)
(* return that gen_func() adds, but by one of the three ways round that         *)
(* stmt_terminates() does not look at.                                      *)
THEOREM SilentMeansReturnsHolds == Spec => []SilentMeansReturns
<1>1. MInv /\ SInv => SilentMeansReturns
  <2> SUFFICES ASSUME MInv, SInv, phase = "run", seen /= NotStarted, seen[1] = <<0, "end">>
               PROVE  WarnsOfMissingReturn \/ WayRound
    BY DEF SilentMeansReturns
  <2>1. <<0, "end">> \in Unreached
    <3>1. 0 \in 0..Len(prog)
      BY DEF MInv, IInv, Body
    <3> QED
      BY <3>1, UnreachedIs
  <2> QED
    BY <2>1 DEF SInv, Arrived
<1> QED
  BY <1>1, SInitHolds, SNextKeeps, MeaningInvariant, PTL DEF Spec
==============================================================================
