---------------------------- MODULE TempPoolProofs ----------------------------
(***************************************************************************)
(* TempPool keeps its books and its values.  The inductive invariant Inv    *)
(* says that the counters are the sum of what every pending operation has   *)
(* parked: it gives the type invariant, the agreement of pushed_count with  *)
(* the stack, the alignment of every call, and that constructs are          *)
(* balanced.  Inv says how many words every pending operation has parked;   *)
(* the second half of the module says where they are and what they hold.    *)
(* That gives that every operation uses the operands it evaluated, and that *)
(* TempPool implements EvalStack.                                           *)
(***************************************************************************)
EXTENDS TempPool, SequenceTheorems, FiniteSetTheorems, TLAPS

(***************************************************************************)
(* What each helper of TempPool does to the generator's counters: the      *)
(* number of temporaries, pushed_count and spill_pending.                  *)
(***************************************************************************)
\* Finite functions from 1..n: what the table and the machine stack are.
Stack(S) == UNION {[1..n -> S] : n \in Nat}
StType == [temps : Stack(EntryType), depth : Nat, pool_used : Nat,
       spill_pending : Nat, pushed : Nat, rax : Pattern,
       rcx : Pattern, r10 : Pattern, mem : Stack(Pattern), rsp : Nat,
       skip : Nat]

\* How many of d temporaries are in the pool register, and how many on the stack.
Regs(d) == IF Optimize /\ d > 0 THEN 1 ELSE 0
OnStack(d) == d - Regs(d)

\* The states between two helpers: with optimisation on the first temporary, and
\* only it, is in %r10; while the machine runs, its stack is as long as counted.
Shape(s) ==
  /\ s \in StType
  /\ s.pool_used = Regs(s.depth)
  /\ s.temps \in [1..s.depth -> EntryType]
  /\ \A i \in 1..s.depth : s.temps[i].is_reg <=> (Optimize /\ i = 1)
  /\ s.mem \in [1..s.rsp -> Pattern]
  /\ Live(s) => s.rsp = s.pushed

\* t is s after some helpers, its counters moved by d, p and q.
Effect(s, t, d, p, q) ==
  /\ Shape(t)
  /\ t.depth = s.depth + d
  /\ t.pushed = s.pushed + p
  /\ t.spill_pending = s.spill_pending + q
  /\ t.skip = s.skip
  /\ t.rsp = IF Live(s) THEN s.rsp + p ELSE s.rsp

\* A function on 1..n is such a stack.
LEMMA StackIntro ==
  ASSUME NEW S, NEW n \in Nat, NEW f \in [1..n -> S]
  PROVE  f \in Stack(S)
BY DEF Stack

\* A move into a register changes no counter.
LEMMA SetEffect ==
  ASSUME NEW s, Shape(s), NEW reg \in {"rax", "rcx", "r10"}, NEW v \in Pattern
  PROVE  Effect(s, Set(s, reg, v), 0, 0, 0)
<1>1. CASE reg = "rax" BY <1>1 DEF Shape, Effect, Set, Live, StType
<1>2. CASE reg = "rcx" BY <1>2 DEF Shape, Effect, Set, Live, StType
<1>3. CASE reg = "r10" BY <1>3 DEF Shape, Effect, Set, Live, StType
<1> QED BY <1>1, <1>2, <1>3

\* Lowering %rsp by k words raises pushed_count by k.
LEMMA GrowEffect ==
  ASSUME NEW s, Shape(s), NEW k \in Nat, NEW v \in Pattern
  PROVE  Effect(s, Grow(s, k, v), 0, k, 0)
<1> DEFINE rsp == IF Live(s) THEN s.rsp + k ELSE s.rsp
           n == s.pushed + k
           mem == [i \in 1..rsp |-> IF i <= s.rsp THEN s.mem[i] ELSE v]
<1>1. rsp \in Nat BY DEF Shape, StType
<1>2. mem \in [1..rsp -> Pattern] BY <1>1 DEF Shape, StType
<1>3. mem \in Stack(Pattern) BY <1>1, <1>2, StackIntro
<1> HIDE DEF mem
<1>4. Grow(s, k, v) = [s EXCEPT !.pushed = n, !.rsp = rsp, !.mem = mem]
  BY DEF Grow, mem
<1>n. n \in Nat BY DEF Shape, StType
<1> HIDE DEF rsp, n
<1> DEFINE t == Grow(s, k, v)
<1>5. t \in StType
  BY <1>1, <1>n, <1>3, <1>4, ZenonT(60) DEF Shape, StType
<1>6. /\ t.pushed = n /\ t.rsp = rsp /\ t.mem = mem /\ t.depth = s.depth
      /\ t.temps = s.temps /\ t.pool_used = s.pool_used /\ t.skip = s.skip
      /\ t.spill_pending = s.spill_pending
  BY <1>4 DEF Shape, StType
<1> HIDE DEF t
<1> QED BY <1>2, <1>5, <1>6 DEF Shape, Effect, Live, StType, rsp, n, t

\* addq $8*k, %rsp gives k words back.
LEMMA ReleaseEffect ==
  ASSUME NEW s, Shape(s), NEW k \in Nat, k <= s.pushed
  PROVE  Effect(s, Release(s, k), 0, -k, 0)
<1> DEFINE rsp == IF Live(s) /\ k <= s.rsp THEN s.rsp - k ELSE s.rsp
           n == s.pushed - k
           mem == Cut(s.mem, rsp)
<1>1. rsp \in Nat /\ rsp <= s.rsp BY DEF Shape, StType
<1>2. mem \in [1..rsp -> Pattern] BY <1>1 DEF Shape, StType, Cut
<1>3. mem \in Stack(Pattern) BY <1>1, <1>2, StackIntro
<1> HIDE DEF mem
<1>4. Release(s, k) = [s EXCEPT !.pushed = n, !.rsp = rsp, !.mem = mem]
  BY DEF Release, mem
<1>n. n \in Nat BY DEF Shape, StType
<1> HIDE DEF rsp, n
<1> DEFINE t == Release(s, k)
<1>5. t \in StType
  BY <1>1, <1>n, <1>3, <1>4, ZenonT(60) DEF Shape, StType
<1>6. /\ t.pushed = n /\ t.rsp = rsp /\ t.mem = mem /\ t.depth = s.depth
      /\ t.temps = s.temps /\ t.pool_used = s.pool_used /\ t.skip = s.skip
      /\ t.spill_pending = s.spill_pending
  BY <1>4 DEF Shape, StType
<1> HIDE DEF t
<1> QED BY <1>2, <1>5, <1>6 DEF Shape, Effect, Live, StType, rsp, n, t

(* The parts of a state no stack or table operation may confuse. *)

\* One more entry on a stack.
LEMMA PutTyped ==
  ASSUME NEW S, NEW n \in Nat, NEW f \in [1..n -> S], NEW v \in S
  PROVE  Put(f, n, v) \in [1..(n + 1) -> S]
BY DEF Put

\* temp_push() adds one temporary, and a word unless the register was free.
LEMMA PushEffect ==
  ASSUME NEW s, Shape(s)
  PROVE  Effect(s, TempPush(s), 1, OnStack(s.depth + 1) - OnStack(s.depth), 0)
<1> DEFINE inReg == Optimize /\ s.pool_used < PoolSize
           entry == [is_reg |-> inReg, spill_at_push |-> s.spill_pending]
           temps == Put(s.temps, s.depth, entry)
           d     == s.depth + 1
           s1    == [s EXCEPT !.temps = temps, !.depth = d]
           t     == TempPush(s)
<1>0. s \in StType /\ s.depth \in Nat /\ d \in Nat /\ s.pool_used \in Nat
  BY DEF Shape, StType
<1>1. inReg <=> (Optimize /\ d = 1)
  BY <1>0 DEF Shape, Regs, PoolSize
<1>2. entry \in EntryType
  BY <1>0, TempPoolAssumption DEF EntryType, StType
<1>3. temps \in [1..d -> EntryType] /\ temps \in Stack(EntryType)
  BY <1>0, <1>2, PutTyped, StackIntro DEF Shape
<1>4. \A i \in 1..d : temps[i].is_reg <=> (Optimize /\ i = 1)
  <2>1. entry.is_reg <=> inReg OBVIOUS
  <2>2. temps[d] = entry BY <1>0 DEF Put
  <2>3. \A i \in 1..s.depth : i \in 1..d /\ i /= d /\ temps[i] = s.temps[i] BY <1>0 DEF Put
  <2>4. \A i \in 1..d : i = d \/ i \in 1..s.depth BY <1>0
  <2>5. d = 1 \/ \A i \in 1..d : i = d => i /= 1 OBVIOUS
  <2> HIDE DEF temps, entry, inReg, d
  <2> QED BY <1>1, <2>1, <2>2, <2>3, <2>4, <2>5 DEF Shape
<1>5. t = IF inReg THEN Set([s1 EXCEPT !.pool_used = @ + 1], "r10", s.rax) ELSE Pushq(s1, s.rax)
  BY DEF TempPush
<1> HIDE DEF t, temps, entry, d
<1>6. CASE inReg
  <2> DEFINE p == s.pool_used + 1
  <2>1. p \in Nat BY <1>0
  <2>2. p = Regs(d) BY <1>0, <1>6, <1>1 DEF Shape, Regs, d
  <2>3. t = Set([s1 EXCEPT !.pool_used = p], "r10", s.rax) BY <1>5, <1>6, <1>0, <1>3 DEF StType
  <2> HIDE DEF p
  <2>4. t \in StType BY <1>0, <1>3, <2>1, <2>3 DEF StType, Set, Live
  <2>5. /\ t.temps = temps /\ t.depth = d /\ t.pool_used = p /\ t.pushed = s.pushed
        /\ t.spill_pending = s.spill_pending /\ t.skip = s.skip /\ t.rsp = s.rsp /\ t.mem = s.mem
    BY <1>0, <2>3 DEF StType, Set, Live
  <2>6. OnStack(s.depth + 1) - OnStack(s.depth) = 0
    BY <1>0, <1>1, <1>6 DEF OnStack, Regs, d
  <2>7. Live(s) => s.rsp = s.pushed BY DEF Shape
  <2>8. Shape(t) BY <1>3, <1>4, <2>2, <2>4, <2>5, <2>7 DEF Shape, Live
  <2> QED BY <1>0, <2>5, <2>6, <2>8 DEF Effect, StType, d, t
<1>7. CASE ~inReg
  <2>1. s1 \in StType BY <1>0, <1>3 DEF StType
  <2>2. /\ s1.temps = temps /\ s1.depth = d /\ s1.pool_used = s.pool_used /\ s1.pushed = s.pushed
        /\ s1.spill_pending = s.spill_pending /\ s1.skip = s.skip /\ s1.rsp = s.rsp /\ s1.mem = s.mem
    BY <1>0 DEF StType
  <2>3. s.pool_used = Regs(d) BY <1>0, <1>7, <1>1 DEF Shape, Regs, d, PoolSize
  <2> HIDE DEF s1
  <2>4. Shape(s1) BY <1>3, <1>4, <2>1, <2>2, <2>3 DEF Shape, Live
  <2>5. Effect(s1, t, 0, 1, 0)
    BY <1>0, <1>5, <1>7, <2>4, GrowEffect DEF Pushq, StType
  <2>6. OnStack(s.depth + 1) - OnStack(s.depth) = 1
    BY <1>0, <1>1, <1>7 DEF OnStack, Regs, d
  <2> QED BY <1>0, <2>2, <2>5, <2>6 DEF Effect, Live, d, StType, t
<1> QED BY <1>6, <1>7

(* Forgetting a register entry, and forgetting a stack entry. *)

\* The register's temporary is the first one, so nothing is left below it.
LEMMA ForgetRegEffect ==
  ASSUME NEW s, Shape(s), TopIsReg(s)
  PROVE  Effect(s, [Forget(s) EXCEPT !.pool_used = @ - 1], -1, 0, 0) /\ s.depth = 1 /\ Optimize
<1> DEFINE temps == Cut(s.temps, s.depth - 1)
           d     == s.depth - 1
           p     == s.pool_used - 1
           t     == [Forget(s) EXCEPT !.pool_used = @ - 1]
<1>0. s \in StType /\ s.depth \in Nat /\ s.depth = 1 /\ Optimize /\ d = 0
  BY DEF Shape, StType, TopIsReg
<1>1. s.pool_used = 1 /\ p = 0 BY <1>0 DEF Shape, Regs
<1>2. temps \in [1..d -> EntryType] /\ temps \in Stack(EntryType)
  <2>1. temps \in [1..d -> EntryType] BY <1>0 DEF Cut, Shape
  <2> QED BY <2>1, <1>0, StackIntro
<1>3. t = [s EXCEPT !.temps = temps, !.depth = d, !.pool_used = p]
  BY <1>0 DEF Forget, StType
<1>4. d \in Nat /\ p \in Nat BY <1>0, <1>1
<1> HIDE DEF t, temps, d, p
<1>5. t \in StType BY <1>0, <1>2, <1>3, <1>4 DEF StType
<1>6. /\ t.temps = temps /\ t.depth = d /\ t.pool_used = p /\ t.pushed = s.pushed
      /\ t.spill_pending = s.spill_pending /\ t.skip = s.skip /\ t.rsp = s.rsp /\ t.mem = s.mem
  BY <1>0, <1>3 DEF StType
<1>7. Live(s) => s.rsp = s.pushed /\ s.mem \in [1..s.rsp -> Pattern] BY DEF Shape
<1>8. s.mem \in [1..s.rsp -> Pattern] BY DEF Shape
<1>9. Shape(t)
  <2>1. p = Regs(d) BY <1>0, <1>1 DEF Regs
  <2>2. \A i \in 1..d : FALSE BY <1>0
  <2> QED BY <1>2, <1>5, <1>6, <1>7, <1>8, <2>1, <2>2 DEF Shape, Live
<1> QED BY <1>0, <1>6, <1>9 DEF Effect, StType, t

\* Whatever is read from the stack is a pattern.
LEMMA WordTyped ==
  ASSUME NEW s, Shape(s), NEW i
  PROVE  Word(s, i) \in Pattern
BY DEF Word, Shape, Pattern

\* So is whatever temp_peek_into() reads.
LEMMA PeekTyped ==
  ASSUME NEW s, Shape(s), NEW d
  PROVE  TempPeek(s, d) \in Pattern
BY WordTyped DEF TempPeek, Shape, StType

\* Effects add up.
LEMMA Chain ==
  ASSUME NEW s, Shape(s), NEW t, NEW u,
         NEW d1 \in Int, NEW p1 \in Int, NEW q1 \in Int, Effect(s, t, d1, p1, q1),
         NEW d2 \in Int, NEW p2 \in Int, NEW q2 \in Int, Effect(t, u, d2, p2, q2)
  PROVE  Effect(s, u, d1 + d2, p1 + p2, q1 + q2)
<1>1. /\ s.depth \in Nat /\ s.pushed \in Nat /\ s.spill_pending \in Nat /\ s.rsp \in Nat
  BY DEF Shape, StType
<1> QED BY <1>1 DEF Effect, Live

\* A temporary that is not the register's accounts for one word.
LEMMA ForgetStackEffect ==
  ASSUME NEW s, Shape(s), s.depth > 0, ~TopIsReg(s)
  PROVE  /\ Effect(s, Forget(s), -1, 0, 0)
         /\ OnStack(s.depth - 1) - OnStack(s.depth) = -1
<1> DEFINE temps == Cut(s.temps, s.depth - 1)
           d     == s.depth - 1
           t     == Forget(s)
<1>0. s \in StType /\ s.depth \in Nat /\ d \in Nat
  BY DEF Shape, StType
<1>1. ~ (Optimize /\ s.depth = 1) BY <1>0 DEF Shape, TopIsReg
<1>2. temps \in [1..d -> EntryType] /\ temps \in Stack(EntryType)
  <2>1. temps \in [1..d -> EntryType] BY <1>0 DEF Cut, Shape
  <2> QED BY <2>1, <1>0, StackIntro
<1>3. \A i \in 1..d : temps[i].is_reg <=> (Optimize /\ i = 1)
  <2>1. \A i \in 1..d : i \in 1..s.depth /\ temps[i] = s.temps[i] BY <1>0 DEF Cut
  <2> HIDE DEF temps, d
  <2> QED BY <2>1 DEF Shape
<1>4. t = [s EXCEPT !.temps = temps, !.depth = d] BY <1>0 DEF Forget, StType
<1> HIDE DEF t, temps
<1>5. t \in StType BY <1>0, <1>2, <1>4 DEF StType
<1>6. /\ t.temps = temps /\ t.depth = d /\ t.pool_used = s.pool_used /\ t.pushed = s.pushed
      /\ t.spill_pending = s.spill_pending /\ t.skip = s.skip /\ t.rsp = s.rsp /\ t.mem = s.mem
  BY <1>0, <1>4 DEF StType
<1>7. s.pool_used = Regs(d) BY <1>0, <1>1 DEF Shape, Regs
<1>8. s.mem \in [1..s.rsp -> Pattern] /\ (Live(s) => s.rsp = s.pushed) BY DEF Shape
<1>9. Shape(t) BY <1>2, <1>3, <1>5, <1>6, <1>7, <1>8 DEF Shape, Live
<1>10. OnStack(s.depth - 1) - OnStack(s.depth) = -1 BY <1>0, <1>1 DEF OnStack, Regs
<1> QED BY <1>0, <1>6, <1>9, <1>10 DEF Effect, StType, t

\* At most the first temporary is off the stack.
LEMMA OnStackInt ==
  ASSUME NEW d \in Nat
  PROVE  OnStack(d) \in Nat
BY DEF OnStack, Regs

\* temp_drop() undoes temp_push().
LEMMA DropEffect ==
  ASSUME NEW s, Shape(s), s.depth > 0, OnStack(s.depth) <= s.pushed
  PROVE  Effect(s, TempDrop(s), -1, OnStack(s.depth - 1) - OnStack(s.depth), 0)
<1>0. s.depth \in Nat /\ s.pushed \in Nat BY DEF Shape, StType
<1>1. CASE TopIsReg(s)
  <2>1. Effect(s, [Forget(s) EXCEPT !.pool_used = @ - 1], -1, 0, 0) /\ s.depth = 1 /\ Optimize
    BY <1>1, ForgetRegEffect
  <2>2. OnStack(s.depth - 1) - OnStack(s.depth) = 0
    <3>1. OnStack(0) = 0 /\ (Optimize => OnStack(1) = 0) BY DEF OnStack, Regs
    <3>2. s.depth - 1 = 0 BY <2>1
    <3> QED BY <2>1, <3>1, <3>2
  <2> QED BY <1>0, <1>1, <2>1, <2>2 DEF TempDrop
<1>2. CASE ~TopIsReg(s)
  <2>1. Effect(s, Forget(s), -1, 0, 0) /\ OnStack(s.depth - 1) - OnStack(s.depth) = -1
    BY <1>2, ForgetStackEffect
  <2>2. Forget(s).pushed = s.pushed /\ Shape(Forget(s)) BY <1>0, <2>1 DEF Effect
  <2>3. 1 <= s.pushed BY <1>0, <2>1, OnStackInt
  <2>4. Effect(Forget(s), Release(Forget(s), 1), 0, -1, 0) BY <2>2, <2>3, ReleaseEffect
  <2>5. Effect(s, Release(Forget(s), 1), -1 + 0, 0 + (-1), 0 + 0) BY <2>1, <2>4, Chain
  <2>6. TempDrop(s) = Release(Forget(s), 1) BY <1>0, <1>2 DEF TempDrop
  <2> QED BY <2>1, <2>5, <2>6
<1> QED BY <1>1, <1>2

\* So does temp_pop_into().
LEMMA PopEffect ==
  ASSUME NEW s, Shape(s), s.depth > 0, OnStack(s.depth) <= s.pushed,
         NEW reg \in {"rax", "rcx", "r10"}
  PROVE  Effect(s, TempPopInto(s, reg), -1, OnStack(s.depth - 1) - OnStack(s.depth), 0)
<1>0. s.depth \in Nat /\ s.pushed \in Nat /\ s.r10 \in Pattern BY DEF Shape, StType
<1>1. CASE TopIsReg(s)
  <2> DEFINE u == [Forget(s) EXCEPT !.pool_used = @ - 1]
  <2>1. Effect(s, u, -1, 0, 0) /\ s.depth = 1 /\ Optimize BY <1>1, ForgetRegEffect
  <2>2. OnStack(s.depth - 1) - OnStack(s.depth) = 0
    <3>1. OnStack(0) = 0 /\ (Optimize => OnStack(1) = 0) BY DEF OnStack, Regs
    <3> HIDE DEF u
    <3>2. s.depth - 1 = 0 BY <2>1
    <3> QED BY <2>1, <3>1, <3>2
  <2>3. TempPopInto(s, reg) = Set(u, reg, s.r10) BY <1>0, <1>1 DEF TempPopInto
  <2> HIDE DEF u
  <2>4. Effect(u, Set(u, reg, s.r10), 0, 0, 0) BY <1>0, <2>1, SetEffect DEF Effect
  <2>5. Effect(s, Set(u, reg, s.r10), -1 + 0, 0 + 0, 0 + 0) BY <2>1, <2>4, Chain
  <2> QED BY <2>2, <2>3, <2>5
<1>2. CASE ~TopIsReg(s)
  <2> DEFINE u == Forget(s)
             w == Set(u, reg, Word(u, u.rsp))
  <2>1. Effect(s, u, -1, 0, 0) /\ OnStack(s.depth - 1) - OnStack(s.depth) = -1
    BY <1>2, ForgetStackEffect
  <2>2. TempPopInto(s, reg) = Release(w, 1) BY <1>0, <1>2 DEF TempPopInto, Popq
  <2> HIDE DEF u
  <2>3. Effect(u, w, 0, 0, 0) BY <2>1, SetEffect, WordTyped DEF Effect
  <2> HIDE DEF w
  <2>4. Effect(s, w, -1 + 0, 0 + 0, 0 + 0) BY <2>1, <2>3, Chain
  <2>5. 1 <= s.pushed BY <1>0, <2>1, OnStackInt
  <2>6. Shape(w) /\ 1 <= w.pushed BY <1>0, <2>4, <2>5 DEF Effect
  <2>7. Effect(w, Release(w, 1), 0, -1, 0) BY <2>6, ReleaseEffect
  <2>8. Effect(s, Release(w, 1), -1 + 0, 0 + (-1), 0 + 0) BY <2>4, <2>7, Chain
  <2> QED BY <2>1, <2>2, <2>8
<1> QED BY <1>1, <1>2

\* Assigning spill_pending moves no other counter.
LEMMA CountSpills ==
  ASSUME NEW s, Shape(s), NEW k \in Nat
  PROVE  Effect(s, [s EXCEPT !.spill_pending = k], 0, 0, k - s.spill_pending)
<1> DEFINE t == [s EXCEPT !.spill_pending = k]
<1>0. s \in StType /\ s.depth \in Nat /\ s.pushed \in Nat /\ s.spill_pending \in Nat
      /\ s.rsp \in Nat
  BY DEF Shape, StType
<1>1. t \in StType BY <1>0 DEF StType
<1>2. /\ t.temps = s.temps /\ t.depth = s.depth /\ t.pool_used = s.pool_used
      /\ t.pushed = s.pushed /\ t.spill_pending = k /\ t.skip = s.skip
      /\ t.rsp = s.rsp /\ t.mem = s.mem
  BY <1>0 DEF StType
<1> HIDE DEF t
<1>3. Shape(t) BY <1>1, <1>2 DEF Shape, Live
<1> QED BY <1>0, <1>2, <1>3 DEF Effect, t

\* The pool is one register.
LEMMA RegsType ==
  ASSUME NEW d \in Nat
  PROVE  Regs(d) \in {0, 1}
BY DEF Regs

\* temp_spill() pushes and counts the register, if it is taken.
LEMMA SpillEffect ==
  ASSUME NEW s, Shape(s)
  PROVE  Effect(s, TempSpill(s), 0, Regs(s.depth), Regs(s.depth))
<1> DEFINE u == Pushq(s, s.r10)
<1>0. /\ s.depth \in Nat /\ s.pushed \in Nat /\ s.spill_pending \in Nat /\ s.rsp \in Nat
      /\ s.r10 \in Pattern /\ s.pool_used = Regs(s.depth)
  BY DEF Shape, StType
<1>1. CASE Regs(s.depth) = 0
  <2>1. TempSpill(s) = s BY <1>0, <1>1 DEF TempSpill
  <2> QED BY <1>0, <1>1, <2>1 DEF Effect
<1>2. CASE Regs(s.depth) = 1
  <2>1. Effect(s, u, 0, 1, 0) BY <1>0, GrowEffect DEF Pushq
  <2> DEFINE k == u.spill_pending + 1
             t == [u EXCEPT !.spill_pending = k]
  <2>2. Shape(u) /\ u.spill_pending \in Nat /\ k \in Nat /\ k - u.spill_pending = 1
    BY <1>0, <2>1 DEF Effect
  <2>3. TempSpill(s) = t BY <1>0, <1>2, <2>2 DEF TempSpill, Shape, StType
  <2> HIDE DEF u
  <2>4. Effect(u, t, 0, 0, 1) BY <2>2, CountSpills
  <2> HIDE DEF t
  <2>5. Effect(s, t, 0 + 0, 1 + 0, 0 + 1) BY <2>1, <2>4, Chain
  <2> QED BY <1>2, <2>3, <2>5
<1> QED BY <1>0, <1>1, <1>2, RegsType

\* temp_unspill() takes that word back.
LEMMA UnspillEffect ==
  ASSUME NEW s, Shape(s), NEW n \in {0, 1}, n <= s.pushed, n <= s.spill_pending
  PROVE  Effect(s, TempUnspill(s, n), 0, -n, -n)
<1>0. s.depth \in Nat /\ s.pushed \in Nat /\ s.spill_pending \in Nat /\ s.rsp \in Nat
  BY DEF Shape, StType
<1>1. CASE n = 0
  <2>1. TempUnspill(s, n) = s BY <1>1 DEF TempUnspill
  <2> QED BY <1>0, <1>1, <2>1 DEF Effect
<1>2. CASE n = 1
  <2> DEFINE w == Set(s, "r10", Word(s, s.rsp))
             u == Release(w, 1)
             k == u.spill_pending - 1
             t == [u EXCEPT !.spill_pending = k]
  <2>1. Effect(s, w, 0, 0, 0) BY SetEffect, WordTyped
  <2>2. TempUnspill(s, n) = [u EXCEPT !.spill_pending = @ - 1]
    BY <1>2 DEF TempUnspill, Popq
  <2> HIDE DEF w
  <2>3. Shape(w) /\ 1 <= w.pushed BY <1>0, <1>2, <2>1 DEF Effect
  <2>4. Effect(w, u, 0, -1, 0) BY <2>3, ReleaseEffect
  <2> HIDE DEF u
  <2>5. Effect(s, u, 0 + 0, 0 + (-1), 0 + 0) BY <2>1, <2>4, Chain
  <2>6. Shape(u) /\ u \in StType /\ k \in Nat /\ k - u.spill_pending = -1
    BY <1>0, <1>2, <2>5 DEF Effect, Shape
  <2>7. TempUnspill(s, n) = t BY <2>2, <2>6 DEF StType
  <2>8. Effect(u, t, 0, 0, -1) BY <2>6, CountSpills
  <2> HIDE DEF t
  <2>9. Effect(s, t, 0 + 0, -1 + 0, 0 + (-1)) BY <2>5, <2>8, Chain
  <2> QED BY <1>2, <2>7, <2>9
<1> QED BY <1>1, <1>2

\* The instructions of an operator move no counter.
LEMMA BinopEffect ==
  ASSUME NEW s, Shape(s), NEW op \in Ops, NEW reg \in {"rcx", "r10"}, NEW v \in Value
  PROVE  Effect(s, EmitBinop(s, op, reg, v), 0, 0, 0)
<1> DEFINE s1 == CASE op = "keep"  -> s
                   [] op = "sub"   -> Set(s, reg, Junk)
                   [] op = "shift" -> Set(s, "rcx", Junk)
                   [] op = "div"   -> Set(s, "r10", Junk)
<1>0. /\ s.depth \in Nat /\ s.pushed \in Nat /\ s.spill_pending \in Nat /\ s.rsp \in Nat
      /\ Junk \in Pattern /\ v \in Pattern
  BY DEF Shape, StType, Pattern
<1>1. EmitBinop(s, op, reg, v) = Set(s1, "rax", v) BY DEF EmitBinop
<1>2. Effect(s, s1, 0, 0, 0)
  <2>1. Effect(s, s, 0, 0, 0) BY <1>0 DEF Effect
  <2>2. /\ Effect(s, Set(s, reg, Junk), 0, 0, 0)
        /\ Effect(s, Set(s, "rcx", Junk), 0, 0, 0)
        /\ Effect(s, Set(s, "r10", Junk), 0, 0, 0)
    BY <1>0, SetEffect
  <2> QED BY <2>1, <2>2 DEF Ops
<1> HIDE DEF s1
<1>3. Effect(s1, Set(s1, "rax", v), 0, 0, 0) BY <1>0, <1>2, SetEffect DEF Effect
<1>4. Effect(s, Set(s1, "rax", v), 0 + 0, 0 + 0, 0 + 0) BY <1>2, <1>3, Chain
<1> QED BY <1>1, <1>4

\* temp_combine() consumes one temporary on each of its three paths.
LEMMA CombineEffect ==
  ASSUME NEW s, Shape(s), s.depth > 0, OnStack(s.depth) <= s.pushed,
         NEW op \in Ops, NEW v \in Value
  PROVE  Effect(s, TempCombine(s, op, v), -1, OnStack(s.depth - 1) - OnStack(s.depth), 0)
<1> DEFINE dp == OnStack(s.depth - 1) - OnStack(s.depth)
<1>0. /\ s.depth \in Nat /\ s.pushed \in Nat /\ s.spill_pending \in Nat /\ s.rsp \in Nat
      /\ s.depth - 1 \in Nat
  BY DEF Shape, StType
<1>1. dp \in Int /\ s.pushed + dp \in Nat
  BY <1>0, OnStackInt
<1>2. CASE InPlace(s, op)
  <2> DEFINE u == [Forget(s) EXCEPT !.pool_used = @ - 1]
  <2>1. Effect(s, u, -1, 0, 0) /\ s.depth = 1 /\ Optimize
    BY <1>2, ForgetRegEffect DEF InPlace
  <2>2. dp = 0
    <3>1. OnStack(0) = 0 /\ (Optimize => OnStack(1) = 0) BY DEF OnStack, Regs
    <3>2. s.depth - 1 = 0 BY <2>1
    <3> QED BY <2>1, <3>1, <3>2
  <2>3. TempCombine(s, op, v) = EmitBinop(u, op, "r10", v) BY <1>2 DEF TempCombine
  <2> HIDE DEF u
  <2>4. Effect(u, EmitBinop(u, op, "r10", v), 0, 0, 0) BY <2>1, BinopEffect DEF Effect
  <2>5. Effect(s, EmitBinop(u, op, "r10", v), -1 + 0, 0 + 0, 0 + 0) BY <2>1, <2>4, Chain
  <2> QED BY <2>2, <2>3, <2>5
<1>3. CASE ~InPlace(s, op)
  <2> DEFINE popped == TempPopInto(s, "rcx")
             kept   == IF ClobbersPool(op) THEN popped.pool_used ELSE 0
             saved  == IF kept > 0 THEN TempSpill(popped) ELSE popped
             done   == EmitBinop(saved, op, "rcx", v)
  <2>1. TempCombine(s, op, v) = TempUnspill(done, kept) BY <1>3 DEF TempCombine
  <2>2. Effect(s, popped, -1, dp, 0) BY PopEffect
  <2> HIDE DEF popped, dp
  <2>3. /\ Shape(popped) /\ popped.depth \in Nat /\ popped.pool_used = Regs(popped.depth)
        /\ popped.pushed \in Nat /\ popped.spill_pending \in Nat
    BY <2>2 DEF Effect, Shape, StType
  <2>4. kept \in {0, 1} /\ (kept > 0 => kept = Regs(popped.depth)) BY <2>3, RegsType
  <2>5. Effect(popped, saved, 0, kept, kept)
    <3>1. CASE kept > 0 BY <2>3, <2>4, <3>1, SpillEffect
    <3>2. CASE ~(kept > 0)
      <4>1. kept = 0 /\ saved = popped BY <2>4, <3>2
      <4> QED BY <2>3, <4>1 DEF Effect, Shape, StType
    <3> QED BY <3>1, <3>2
  <2> HIDE DEF kept, saved
  <2>6. Effect(saved, done, 0, 0, 0) BY <2>5, BinopEffect DEF Effect
  <2> HIDE DEF done
  <2>7. kept \in Int BY <2>4
  <2>8. Effect(popped, done, 0 + 0, kept + 0, kept + 0) BY <2>3, <2>5, <2>6, <2>7, Chain
  <2>9. Effect(popped, done, 0, kept, kept) BY <2>7, <2>8
  <2>10. /\ Shape(done) /\ kept <= done.pushed /\ kept <= done.spill_pending
    BY <2>3, <2>4, <2>9 DEF Effect
  <2>11. Effect(done, TempUnspill(done, kept), 0, -kept, -kept) BY <2>4, <2>10, UnspillEffect
  <2>12. Effect(popped, TempUnspill(done, kept), 0 + 0, kept + (-kept), kept + (-kept))
    BY <2>3, <2>7, <2>9, <2>11, Chain
  <2>13. Effect(popped, TempUnspill(done, kept), 0, 0, 0) BY <2>7, <2>12
  <2>14. Effect(s, TempUnspill(done, kept), -1 + 0, dp + 0, 0 + 0) BY <1>1, <2>2, <2>13, Chain
  <2> QED BY <1>1, <2>1, <2>14 DEF dp
<1> QED BY <1>2, <1>3

\* Forgetting the scratch registers between steps moves no counter.
LEMMA SettledEffect ==
  ASSUME NEW s, Shape(s)
  PROVE  Effect(s, Settled(s), 0, 0, 0)
<1> DEFINE a == IF s.pool_used = 0 THEN Junk ELSE s.r10
           u == [s EXCEPT !.rcx = Junk, !.r10 = a]
           t == IF Live(s) THEN u ELSE s
<1>0. /\ s \in StType /\ s.depth \in Nat /\ s.pushed \in Nat /\ s.spill_pending \in Nat
      /\ s.rsp \in Nat /\ Junk \in Pattern /\ a \in Pattern
  BY DEF Shape, StType, Pattern
<1>1. Settled(s) = t BY <1>0 DEF Settled, StType
<1> HIDE DEF a
<1>2. u \in StType BY <1>0 DEF StType
<1>3. /\ u.temps = s.temps /\ u.depth = s.depth /\ u.pool_used = s.pool_used
      /\ u.pushed = s.pushed /\ u.spill_pending = s.spill_pending /\ u.skip = s.skip
      /\ u.rsp = s.rsp /\ u.mem = s.mem
  BY <1>0 DEF StType
<1> HIDE DEF u
<1>4. Shape(u) BY <1>2, <1>3 DEF Shape, Live
<1>5. Effect(s, u, 0, 0, 0) BY <1>0, <1>3, <1>4 DEF Effect
<1>6. Effect(s, s, 0, 0, 0) BY <1>0 DEF Effect
<1> QED BY <1>1, <1>5, <1>6

\* The set-up of a call pushes the spilled register and the pad.
LEMMA SetupEffect ==
  ASSUME NEW s, Shape(s), NEW n \in Nat
  PROVE  LET padded == IF NeedsPad(TempSpill(s), n) THEN 1 ELSE 0
         IN  Effect(s, CallSetup(s, n), 0, Regs(s.depth) + padded, Regs(s.depth))
<1> DEFINE u == TempSpill(s)
           padded == IF NeedsPad(u, n) THEN 1 ELSE 0
<1>0. s.depth \in Nat /\ Regs(s.depth) \in Int /\ padded \in Int /\ Junk \in Pattern
  BY RegsType DEF Shape, StType, Pattern
<1>1. Effect(s, u, 0, Regs(s.depth), Regs(s.depth)) BY SpillEffect
<1>2. CallSetup(s, n) = IF NeedsPad(u, n) THEN Pushq(u, Junk) ELSE u BY DEF CallSetup
<1> HIDE DEF u
<1>3. CASE NeedsPad(u, n)
  <2>1. Effect(u, Pushq(u, Junk), 0, 1, 0) BY <1>0, <1>1, GrowEffect DEF Pushq, Effect
  <2>2. Effect(s, Pushq(u, Junk), 0 + 0, Regs(s.depth) + 1, Regs(s.depth) + 0)
    BY <1>0, <1>1, <2>1, Chain
  <2> QED BY <1>0, <1>2, <1>3, <2>2 DEF u
<1>4. CASE ~NeedsPad(u, n)
  <2>1. Regs(s.depth) + padded = Regs(s.depth) BY <1>0, <1>4
  <2> QED BY <1>1, <1>2, <1>4, <2>1 DEF u
<1> QED BY <1>3, <1>4

(* The words of a call: n arguments, the pad, the spilled register. *)

\* The call and its clean-up give back the arguments, the pad and the spill.
LEMMA CallEffect ==
  ASSUME NEW s, Shape(s), NEW n \in Nat, NEW spilled \in {0, 1}, NEW padded \in {0, 1},
         NEW v \in Value,
         n + padded + spilled <= s.pushed, spilled <= s.spill_pending
  PROVE  Effect(s, CallEmit(s, n, spilled, padded, v), 0, -(n + padded + spilled), -spilled)
<1> DEFINE a == Release(s, Moved(n))
           b == Grow(a, Shadow, Junk)
           c == Set(b, "r10", Junk)
           d == Set(c, "rcx", Junk)
           e == Set(d, "rax", v)
           cleanup == StackArgs(n) + Shadow + padded
           f == Release(e, cleanup)
           g == TempUnspill(f, spilled)
<1>0. /\ s.pushed \in Nat /\ s.spill_pending \in Nat /\ Shadow \in Nat
      /\ Moved(n) \in Nat /\ StackArgs(n) \in Nat /\ Moved(n) + StackArgs(n) = n
      /\ Junk \in Pattern /\ v \in Pattern
  BY TempPoolAssumption, SMTT(30) DEF Shape, StType, Pattern, Moved, StackArgs
<1>1. CallEmit(s, n, spilled, padded, v) = g BY DEF CallEmit, Ready
<1>2. Effect(s, a, 0, -Moved(n), 0) BY <1>0, ReleaseEffect
<1> HIDE DEF a
<1>3. Effect(a, b, 0, Shadow, 0) BY <1>0, <1>2, GrowEffect DEF Effect
<1> HIDE DEF b
<1>4. Effect(b, c, 0, 0, 0) BY <1>0, <1>3, SetEffect DEF Effect
<1> HIDE DEF c
<1>5. Effect(c, d, 0, 0, 0) BY <1>0, <1>4, SetEffect DEF Effect
<1> HIDE DEF d
<1>6. Effect(d, e, 0, 0, 0) BY <1>0, <1>5, SetEffect DEF Effect
<1> HIDE DEF e
<1>7. Effect(s, b, 0 + 0, (-Moved(n)) + Shadow, 0 + 0) BY <1>0, <1>2, <1>3, Chain
<1>8. Effect(s, e, 0, Shadow - Moved(n), 0) /\ Shape(e)
  <2> DEFINE m == Shadow - Moved(n)
  <2>1. m \in Int /\ (-Moved(n)) + Shadow = m BY <1>0
  <2> HIDE DEF m
  <2>2. Effect(s, b, 0, m, 0) BY <1>7, <2>1
  <2>3. Effect(s, c, 0 + 0, m + 0, 0 + 0) BY <1>4, <2>1, <2>2, Chain
  <2>4. Effect(s, d, 0 + 0, m + 0, 0 + 0) BY <1>5, <2>1, <2>3, Chain
  <2>5. Effect(s, e, 0 + 0, m + 0, 0 + 0) BY <1>6, <2>1, <2>4, Chain
  <2>6. Shape(e) BY <1>6 DEF Effect
  <2> QED BY <2>1, <2>5, <2>6 DEF m
<1>9. cleanup \in Nat /\ cleanup <= e.pushed BY <1>0, <1>8 DEF Effect
<1>10. Effect(e, f, 0, -cleanup, 0) BY <1>8, <1>9, ReleaseEffect
<1> HIDE DEF f
<1>11. Effect(s, f, 0 + 0, (Shadow - Moved(n)) + (-cleanup), 0 + 0)
  <2> DEFINE m == Shadow - Moved(n)
             c2 == -cleanup
  <2>1. m \in Int /\ c2 \in Int BY <1>0, <1>9
  <2> HIDE DEF m, c2, cleanup
  <2>2. Effect(s, e, 0, m, 0) /\ Effect(e, f, 0, c2, 0) BY <1>8, <1>10 DEF m, c2
  <2>3. Effect(s, f, 0 + 0, m + c2, 0 + 0) BY <2>1, <2>2, Chain
  <2> QED BY <2>3 DEF m, c2
<1>12. (Shadow - Moved(n)) + (-cleanup) = -(n + padded) BY <1>0
<1>13. Effect(s, f, 0, -(n + padded), 0) BY <1>11, <1>12
<1>14. Shape(f) /\ spilled <= f.pushed /\ spilled <= f.spill_pending
  BY <1>0, <1>13 DEF Effect
<1>15. Effect(f, g, 0, -spilled, -spilled) BY <1>14, UnspillEffect
<1> HIDE DEF g
<1>16. Effect(s, g, 0 + 0, (-(n + padded)) + (-spilled), 0 + (-spilled))
  BY <1>13, <1>15, Chain
<1>17. (-(n + padded)) + (-spilled) = -(n + padded + spilled) /\ 0 + (-spilled) = -spilled
  OBVIOUS
<1> QED BY <1>1, <1>16, <1>17

(***************************************************************************)
(* What the pending operations have parked.                                *)
(***************************************************************************)
\* The history variables of a frame have their types.
FrameType ==
  [kind : Kinds, step : Nat, n : Nat, asked : Nat, spilled : {0, 1},
   padded : {0, 1}, nest : Nat, rank : Ranks, held : Seq(Pattern), depth0 : Nat,
   pushed0 : Nat, spill0 : Nat]

\* What the frame has parked so far: temporaries, then words of other kinds
\* (the registers gen_assign() saves, the pad, the spill and the arguments).
TempsOf(f) ==
  CASE f.kind \in {"binary", "assign", "struct"} -> f.step
    [] f.kind = "compound" -> 2 * f.step
    [] OTHER -> 0

RawOf(f) ==
  CASE f.kind = "struct" -> (IF Windows THEN 2 ELSE 0)
    [] f.kind = "call" -> f.spilled + f.padded + f.step
    [] OTHER -> 0

\* The counters the frame accounts for, up to and including itself.
DepthAfter(f) == f.depth0 + TempsOf(f)
PushedAfter(f) == f.pushed0 + (OnStack(DepthAfter(f)) - OnStack(f.depth0)) + RawOf(f)
SpillAfter(f) == f.spill0 + (IF f.kind = "call" THEN f.spilled ELSE 0)

\* A frame never holds more than its C function pushes, and a call chose its pad
\* from the counter it was entered with.
FrameOK(f) ==
  /\ f \in FrameType
  /\ f.kind \in {"binary", "compound", "assign", "struct", "logic"} => f.step <= 1
  /\ f.kind = "postfix" => f.step = 0
  /\ f.kind = "ternary" => f.step <= 2
  /\ f.kind = "call" =>
       /\ f.step < f.n
       /\ f.spilled = Regs(f.depth0)
       /\ (f.pushed0 + f.spilled + f.padded + StackArgs(f.n) + Shadow) % 2 = 0
  /\ OnStack(f.depth0) <= f.pushed0

\* A frame was entered where the one around it had got to.
StartsAt(f, d, p, q) == f.depth0 = d /\ f.pushed0 = p /\ f.spill0 = q

Nested(fs) ==
  /\ fs \in Seq(FrameType)
  /\ \A i \in 1..Len(fs) : FrameOK(fs[i])
  /\ Len(fs) > 0 => StartsAt(fs[1], 0, 0, 0)
  /\ \A i \in 1..Len(fs) : i > 1 =>
       StartsAt(fs[i], DepthAfter(fs[i-1]), PushedAfter(fs[i-1]), SpillAfter(fs[i-1]))

\* The generator's counters.
Counted(s, d, p, q) == s.depth = d /\ s.pushed = p /\ s.spill_pending = q

Current(s, fs) ==
  IF Len(fs) = 0 THEN Counted(s, 0, 0, 0)
  ELSE Counted(s, DepthAfter(fs[Len(fs)]), PushedAfter(fs[Len(fs)]), SpillAfter(fs[Len(fs)]))

\* An arm is jumped over from a place where its construct had nothing on the
\* stack, so the machine will resume with the words it had then.
Skipping(s, fs) ==
  /\ s.skip \in 0..Len(fs)
  /\ s.skip > 0 =>
       /\ fs[s.skip].kind \in {"ternary", "logic"}
       /\ fs[s.skip].step >= 1
       /\ s.rsp = fs[s.skip].pushed0

\* The inductive invariant: every counter is the sum of what the pending
\* operations have parked.
Inv(s, fs) == Shape(s) /\ Nested(fs) /\ Current(s, fs) /\ Skipping(s, fs)

IInv == Inv(st, frames)

\* Those sums are counters too.
LEMMA AfterType ==
  ASSUME NEW f, FrameOK(f)
  PROVE  /\ DepthAfter(f) \in Nat /\ PushedAfter(f) \in Nat /\ SpillAfter(f) \in Nat
         /\ OnStack(DepthAfter(f)) <= PushedAfter(f)
<1>1. /\ f.depth0 \in Nat /\ f.pushed0 \in Nat /\ f.spill0 \in Nat /\ f.step \in Nat
      /\ f.spilled \in Nat /\ f.padded \in Nat /\ OnStack(f.depth0) <= f.pushed0
  BY DEF FrameOK, FrameType
<1>2. TempsOf(f) \in Nat BY <1>1 DEF TempsOf
<1>3. RawOf(f) \in Nat BY <1>1 DEF RawOf
<1>4. OnStack(f.depth0) \in Nat /\ OnStack(DepthAfter(f)) \in Nat
  BY <1>1, <1>2, OnStackInt DEF DepthAfter
<1> QED BY <1>1, <1>2, <1>3, <1>4 DEF DepthAfter, PushedAfter, SpillAfter

\* A new innermost frame.
LEMMA EnterKeeps ==
  ASSUME NEW s, NEW fs, Nested(fs), Current(s, fs), Shape(s), Skipping(s, fs),
         NEW f, FrameOK(f), StartsAt(f, s.depth, s.pushed, s.spill_pending),
         NEW t, Shape(t), Counted(t, DepthAfter(f), PushedAfter(f), SpillAfter(f)),
         t.skip = s.skip, ~Live(s) => t.rsp = s.rsp
  PROVE  /\ Nested(Append(fs, f)) /\ Current(t, Append(fs, f))
         /\ Skipping(t, Append(fs, f))
<1> DEFINE gs == Append(fs, f)
<1>1. f \in FrameType /\ fs \in Seq(FrameType) /\ Len(fs) \in Nat BY DEF FrameOK, Nested
<1>2. /\ gs \in Seq(FrameType) /\ Len(gs) = Len(fs) + 1 /\ gs[Len(fs) + 1] = f
      /\ \A i \in 1..Len(fs) : gs[i] = fs[i]
  BY <1>1
<1> HIDE DEF gs
<1>3. \A i \in 1..Len(gs) : i = Len(fs) + 1 \/ i \in 1..Len(fs) BY <1>1, <1>2
<1>4. \A i \in 1..Len(gs) : FrameOK(gs[i]) BY <1>2, <1>3 DEF Nested
<1>5. StartsAt(gs[1], 0, 0, 0)
  <2>1. CASE Len(fs) = 0 BY <1>2, <2>1 DEF Current, Counted, StartsAt
  <2>2. CASE Len(fs) > 0 BY <1>1, <1>2, <2>2 DEF Nested
  <2> QED BY <1>1, <2>1, <2>2
<1>6. ASSUME NEW i \in 1..Len(gs), i > 1
      PROVE  StartsAt(gs[i], DepthAfter(gs[i-1]), PushedAfter(gs[i-1]), SpillAfter(gs[i-1]))
  <2>1. CASE i = Len(fs) + 1
    <3>1. Len(fs) > 0 /\ i - 1 = Len(fs) /\ gs[i-1] = fs[Len(fs)] /\ gs[i] = f
      BY <1>1, <1>2, <1>6, <2>1
    <3> QED BY <3>1 DEF Current, Counted, StartsAt
  <2>2. CASE i \in 1..Len(fs)
    <3>1. i - 1 \in 1..Len(fs) BY <1>1, <1>6, <2>2
    <3> QED BY <1>2, <1>6, <2>2, <3>1 DEF Nested
  <2> QED BY <1>3, <2>1, <2>2
<1>7. Nested(gs) BY <1>2, <1>4, <1>5, <1>6 DEF Nested
<1>8. Current(t, gs) BY <1>1, <1>2 DEF Current
<1>9. Skipping(t, gs)
  <2>1. s.skip \in 0..Len(gs) BY <1>1, <1>2 DEF Skipping
  <2>2. CASE s.skip = 0 BY <2>1, <2>2 DEF Skipping
  <2>3. CASE s.skip > 0
    <3>1. s.skip \in 1..Len(fs) BY <1>1, <2>3 DEF Skipping
    <3> QED BY <1>2, <2>1, <2>3, <3>1 DEF Skipping, Live
  <2> QED BY <2>1, <2>2, <2>3
<1> QED BY <1>7, <1>8, <1>9 DEF gs

\* An arithmetic fact the provers want spelled out.
LEMMA OneOrMore == \A k \in Nat : k > 0 => k = 1 \/ k > 1
OBVIOUS

\* The innermost frame has got further.
LEMMA AdvanceKeeps ==
  ASSUME NEW s, NEW fs, Nested(fs), Current(s, fs), Shape(s), Len(fs) > 0,
         NEW f, FrameOK(f),
         LET g == fs[Len(fs)] IN StartsAt(f, g.depth0, g.pushed0, g.spill0),
         NEW t, Shape(t), Counted(t, DepthAfter(f), PushedAfter(f), SpillAfter(f))
  PROVE  LET gs == [fs EXCEPT ![Len(fs)] = f]
         IN  /\ Nested(gs) /\ Current(t, gs) /\ Len(gs) = Len(fs) /\ gs[Len(fs)] = f
             /\ \A i \in 1..(Len(fs) - 1) : gs[i] = fs[i]
<1> DEFINE gs == [fs EXCEPT ![Len(fs)] = f]
           g == fs[Len(fs)]
<1>0. StartsAt(f, g.depth0, g.pushed0, g.spill0) OBVIOUS
<1>1. f \in FrameType /\ fs \in Seq(FrameType) /\ Len(fs) \in Nat BY DEF FrameOK, Nested
<1>2. /\ gs \in Seq(FrameType) /\ Len(gs) = Len(fs) /\ gs[Len(fs)] = f
      /\ \A i \in 1..Len(fs) : i /= Len(fs) => gs[i] = fs[i]
  BY <1>1
<1> HIDE DEF gs
<1>4. \A i \in 1..Len(gs) : FrameOK(gs[i]) BY <1>1, <1>2 DEF Nested
<1>5. StartsAt(gs[1], 0, 0, 0)
  <2>1. CASE Len(fs) = 1
    <3>1. gs[1] = f /\ g = fs[1] BY <1>2, <2>1
    <3>2. StartsAt(fs[1], 0, 0, 0) BY <2>1 DEF Nested
    <3> QED BY <1>0, <3>1, <3>2 DEF StartsAt
  <2>2. CASE Len(fs) > 1 BY <1>1, <1>2, <2>2 DEF Nested
  <2>3. Len(fs) = 1 \/ Len(fs) > 1 BY <1>1, OneOrMore
  <2> QED BY <2>1, <2>2, <2>3, Zenon
<1>6. ASSUME NEW i \in 1..Len(gs), i > 1
      PROVE  StartsAt(gs[i], DepthAfter(gs[i-1]), PushedAfter(gs[i-1]), SpillAfter(gs[i-1]))
  <2>1. i - 1 \in 1..Len(fs) /\ i - 1 /= Len(fs) /\ gs[i-1] = fs[i-1] /\ i \in 1..Len(fs)
    BY <1>1, <1>2, <1>6
  <2>2. StartsAt(fs[i], DepthAfter(fs[i-1]), PushedAfter(fs[i-1]), SpillAfter(fs[i-1]))
    BY <1>6, <2>1 DEF Nested
  <2>3. CASE i = Len(fs) BY <1>0, <1>2, <2>1, <2>2, <2>3 DEF StartsAt
  <2>4. CASE i /= Len(fs) BY <1>2, <2>1, <2>2, <2>4
  <2> QED BY <2>3, <2>4
<1>7. Nested(gs) BY <1>1, <1>2, <1>4, <1>5, <1>6 DEF Nested
<1>8. Current(t, gs) BY <1>1, <1>2 DEF Current
<1>9. \A i \in 1..(Len(fs) - 1) : gs[i] = fs[i] BY <1>1, <1>2
<1> QED BY <1>1, <1>2, <1>7, <1>8, <1>9 DEF gs

\* All but the last element of a sequence.
LEMMA ButLast ==
  ASSUME NEW S, NEW q \in Seq(S), Len(q) > 0
  PROVE  /\ SubSeq(q, 1, Len(q) - 1) \in Seq(S)
         /\ Len(SubSeq(q, 1, Len(q) - 1)) = Len(q) - 1
         /\ \A i \in 1..(Len(q) - 1) : SubSeq(q, 1, Len(q) - 1)[i] = q[i]
<1> DEFINE n == Len(q) - 1
<1>1. n \in Nat /\ 1 \in Int OBVIOUS
<1>2. \A i \in 1..n : q[i] \in S OBVIOUS
<1> HIDE DEF n
<1>3. /\ SubSeq(q, 1, n) \in Seq(S)
      /\ Len(SubSeq(q, 1, n)) = IF 1 <= n THEN n - 1 + 1 ELSE 0
      /\ \A i \in 1..(n - 1 + 1) : SubSeq(q, 1, n)[i] = q[1 + i - 1]
  BY <1>1, <1>2, SubSeqProperties, Z3
<1>4. Len(SubSeq(q, 1, n)) = n BY <1>1, <1>3
<1>5. \A i \in 1..n : SubSeq(q, 1, n)[i] = q[i] BY <1>1, <1>3
<1> QED BY <1>3, <1>4, <1>5 DEF n

\* The innermost frame is gone.
LEMMA LeaveKeeps ==
  ASSUME NEW s, NEW fs, Nested(fs), Current(s, fs), Shape(s), Len(fs) > 0,
         NEW t, Shape(t),
         LET g == fs[Len(fs)] IN Counted(t, g.depth0, g.pushed0, g.spill0)
  PROVE  LET gs == SubSeq(fs, 1, Len(fs) - 1)
         IN  /\ Nested(gs) /\ Current(t, gs) /\ Len(gs) = Len(fs) - 1
             /\ \A i \in 1..(Len(fs) - 1) : gs[i] = fs[i]
<1> DEFINE gs == SubSeq(fs, 1, Len(fs) - 1)
           g == fs[Len(fs)]
<1>0. Counted(t, g.depth0, g.pushed0, g.spill0) OBVIOUS
<1>1. fs \in Seq(FrameType) /\ Len(fs) \in Nat BY DEF Nested
<1>2. /\ gs \in Seq(FrameType) /\ Len(gs) = Len(fs) - 1
      /\ \A i \in 1..(Len(fs) - 1) : gs[i] = fs[i]
  BY <1>1, ButLast
<1> HIDE DEF gs
<1>3. Nested(gs)
  <2>1. \A i \in 1..Len(gs) : i \in 1..Len(fs) /\ gs[i] = fs[i] BY <1>1, <1>2
  <2>2. \A i \in 1..Len(gs) : i > 1 => i - 1 \in 1..Len(gs) BY <1>1, <1>2
  <2>3. Len(gs) > 0 => 1 \in 1..Len(gs) BY <1>1, <1>2
  <2> QED BY <1>2, <2>1, <2>2, <2>3 DEF Nested
<1>4. Current(t, gs)
  <2>1. CASE Len(fs) = 1
    <3>1. Len(gs) = 0 BY <1>2, <2>1
    <3>2. g = fs[1] /\ StartsAt(fs[1], 0, 0, 0) BY <2>1 DEF Nested
    <3> QED BY <1>0, <3>1, <3>2 DEF StartsAt, Current, Counted
  <2>2. CASE Len(fs) > 1
    <3> DEFINE h == fs[Len(fs) - 1]
    <3>1. Len(gs) # 0 /\ gs[Len(gs)] = h /\ Len(fs) \in 1..Len(fs)
      BY <1>1, <1>2, <2>2
    <3>2. StartsAt(g, DepthAfter(h), PushedAfter(h), SpillAfter(h))
      BY <2>2, <3>1 DEF Nested
    <3> HIDE DEF h
    <3>3. Counted(t, DepthAfter(h), PushedAfter(h), SpillAfter(h))
      BY <1>0, <3>2 DEF StartsAt, Counted
    <3> QED BY <3>1, <3>3 DEF Current
  <2>3. Len(fs) = 1 \/ Len(fs) > 1 BY <1>1, OneOrMore
  <2> QED BY <2>1, <2>2, <2>3, Zenon
<1> QED BY <1>2, <1>3, <1>4 DEF gs

\* Nothing but values changed.
LEMMA StayKeeps ==
  ASSUME NEW s, NEW fs, Inv(s, fs), NEW t, Effect(s, t, 0, 0, 0)
  PROVE  Inv(t, fs)
<1>1. Shape(t) /\ t.depth = s.depth + 0 /\ t.pushed = s.pushed + 0
      /\ t.spill_pending = s.spill_pending + 0 /\ t.skip = s.skip
      /\ (~Live(s) => t.rsp = s.rsp)
  BY DEF Effect
<1>2. s.depth \in Nat /\ s.pushed \in Nat /\ s.spill_pending \in Nat
  BY DEF Inv, Shape, StType
<1>3. t.depth = s.depth /\ t.pushed = s.pushed /\ t.spill_pending = s.spill_pending
  BY <1>1, <1>2
<1>4. Current(t, fs) BY <1>3 DEF Inv, Current, Counted
<1>5. Len(fs) \in Nat BY DEF Inv, Nested
<1>6. s.skip \in Nat BY DEF Inv, Shape, StType
<1>7. s.skip > 0 => ~Live(s) BY <1>6 DEF Live
<1>8. Skipping(t, fs) BY <1>1, <1>7 DEF Inv, Skipping
<1> QED BY <1>1, <1>4, <1>8 DEF Inv

\* Entering: the new frame accounts for what the step pushed.
LEMMA EnterStep ==
  ASSUME NEW s, NEW fs, Inv(s, fs),
         NEW f, FrameOK(f), StartsAt(f, s.depth, s.pushed, s.spill_pending), f.step = 0,
         NEW t, Effect(s, t, 0, RawOf(f), IF f.kind = "call" THEN f.spilled ELSE 0)
  PROVE  Inv(t, Append(fs, f))
<1>1. Shape(t) /\ t.depth = s.depth + 0 /\ t.pushed = s.pushed + RawOf(f)
      /\ t.spill_pending = s.spill_pending + (IF f.kind = "call" THEN f.spilled ELSE 0)
      /\ t.skip = s.skip /\ (~Live(s) => t.rsp = s.rsp)
  BY DEF Effect
<1>2. s.depth \in Nat /\ s.pushed \in Nat /\ s.spill_pending \in Nat
  BY DEF Inv, Shape, StType
<1>3. TempsOf(f) = 0 BY DEF TempsOf
<1>4. DepthAfter(f) = s.depth BY <1>2, <1>3 DEF DepthAfter, StartsAt
<1>5. RawOf(f) \in Nat BY DEF RawOf, FrameOK, FrameType
<1>6. OnStack(s.depth) \in Nat BY <1>2, OnStackInt
<1>7. PushedAfter(f) = s.pushed + RawOf(f)
  BY <1>2, <1>4, <1>5, <1>6 DEF PushedAfter, StartsAt
<1>8. SpillAfter(f) = t.spill_pending BY <1>1 DEF SpillAfter, StartsAt
<1>9. Counted(t, DepthAfter(f), PushedAfter(f), SpillAfter(f))
  BY <1>1, <1>2, <1>4, <1>7, <1>8 DEF Counted
<1> QED BY <1>1, <1>9, EnterKeeps DEF Inv

\* Advancing: what the step parked is what the frame accounts for.
LEMMA AdvanceStep ==
  ASSUME NEW s, NEW fs, Inv(s, fs), Len(fs) > 0,
         fs[Len(fs)].kind \notin {"ternary", "logic"},
         NEW f, FrameOK(f),
         LET g == fs[Len(fs)] IN StartsAt(f, g.depth0, g.pushed0, g.spill0),
         NEW d \in Int, NEW p \in Int, NEW t, Effect(s, t, d, p, 0),
         LET g == fs[Len(fs)]
         IN  /\ DepthAfter(f) = DepthAfter(g) + d
             /\ PushedAfter(f) = PushedAfter(g) + p
             /\ SpillAfter(f) = SpillAfter(g)
  PROVE  Inv(t, [fs EXCEPT ![Len(fs)] = f])
<1> DEFINE g == fs[Len(fs)]
           gs == [fs EXCEPT ![Len(fs)] = f]
<1>0. /\ DepthAfter(f) = DepthAfter(g) + d
      /\ PushedAfter(f) = PushedAfter(g) + p
      /\ SpillAfter(f) = SpillAfter(g)
  OBVIOUS
<1>1. Shape(t) /\ t.depth = s.depth + d /\ t.pushed = s.pushed + p
      /\ t.spill_pending = s.spill_pending + 0
      /\ t.skip = s.skip /\ (~Live(s) => t.rsp = s.rsp)
  BY DEF Effect
<1>2. s.spill_pending \in Nat /\ s.skip \in Nat /\ Len(fs) \in Nat
  BY DEF Inv, Shape, StType, Nested
<1>3. Counted(s, DepthAfter(g), PushedAfter(g), SpillAfter(g))
  BY <1>2 DEF Inv, Current
<1> HIDE DEF g
<1>4. Counted(t, DepthAfter(f), PushedAfter(f), SpillAfter(f))
  BY <1>0, <1>1, <1>2, <1>3 DEF Counted
<1>5. /\ Nested(gs) /\ Current(t, gs) /\ Len(gs) = Len(fs)
      /\ \A i \in 1..(Len(fs) - 1) : gs[i] = fs[i]
  BY <1>1, <1>4, AdvanceKeeps DEF Inv
<1> HIDE DEF gs
<1>6. Skipping(t, gs)
  <2>1. s.skip \in 0..Len(gs) BY <1>2, <1>5 DEF Inv, Skipping
  <2>2. CASE s.skip = 0 BY <1>1, <2>1, <2>2 DEF Skipping
  <2>3. CASE s.skip > 0
    <3>1. fs[s.skip].kind \in {"ternary", "logic"} /\ fs[s.skip].step >= 1
          /\ s.rsp = fs[s.skip].pushed0
      BY <2>3 DEF Inv, Skipping
    <3>2. s.skip /= Len(fs) BY <3>1
    <3>3. s.skip \in 1..(Len(fs) - 1) BY <1>2, <1>5, <2>1, <2>3, <3>2
    <3>4. gs[s.skip] = fs[s.skip] BY <1>5, <3>3
    <3>5. t.rsp = s.rsp BY <1>1, <2>3 DEF Live
    <3> QED BY <1>1, <2>1, <3>1, <3>4, <3>5 DEF Skipping
  <2> QED BY <1>2, <2>2, <2>3
<1> QED BY <1>1, <1>5, <1>6 DEF Inv, gs

\* Leaving: what the step released is what the frame accounted for.
LEMMA LeaveStep ==
  ASSUME NEW s, NEW fs, Inv(s, fs), Len(fs) > 0,
         fs[Len(fs)].kind \notin {"ternary", "logic"},
         NEW d \in Int, NEW p \in Int, NEW q \in Int, NEW t, Effect(s, t, d, p, q),
         LET g == fs[Len(fs)]
         IN  /\ DepthAfter(g) + d = g.depth0
             /\ PushedAfter(g) + p = g.pushed0
             /\ SpillAfter(g) + q = g.spill0
  PROVE  /\ Inv(t, SubSeq(fs, 1, Len(fs) - 1))
         /\ Counted(t, fs[Len(fs)].depth0, fs[Len(fs)].pushed0, fs[Len(fs)].spill0)
<1> DEFINE g == fs[Len(fs)]
           gs == SubSeq(fs, 1, Len(fs) - 1)
<1>0. /\ DepthAfter(g) + d = g.depth0
      /\ PushedAfter(g) + p = g.pushed0
      /\ SpillAfter(g) + q = g.spill0
  OBVIOUS
<1>1. Shape(t) /\ t.depth = s.depth + d /\ t.pushed = s.pushed + p
      /\ t.spill_pending = s.spill_pending + q
      /\ t.skip = s.skip /\ (~Live(s) => t.rsp = s.rsp)
  BY DEF Effect
<1>2. s.skip \in Nat /\ Len(fs) \in Nat
  BY DEF Inv, Shape, StType, Nested
<1>3. Counted(s, DepthAfter(g), PushedAfter(g), SpillAfter(g))
  BY <1>2 DEF Inv, Current
<1>4. Counted(t, g.depth0, g.pushed0, g.spill0)
  <2> HIDE DEF g
  <2> QED BY <1>0, <1>1, <1>3 DEF Counted
<1>5. /\ Nested(gs) /\ Current(t, gs) /\ Len(gs) = Len(fs) - 1
      /\ \A i \in 1..(Len(fs) - 1) : gs[i] = fs[i]
  BY <1>1, <1>4, LeaveKeeps DEF Inv
<1> HIDE DEF gs
<1>6. Skipping(t, gs)
  <2>1. s.skip \in 0..Len(fs) BY DEF Inv, Skipping
  <2>2. CASE s.skip = 0 BY <1>1, <1>2, <1>5, <2>2 DEF Skipping
  <2>3. CASE s.skip > 0
    <3>1. fs[s.skip].kind \in {"ternary", "logic"} /\ fs[s.skip].step >= 1
          /\ s.rsp = fs[s.skip].pushed0
      BY <2>3 DEF Inv, Skipping
    <3>2. s.skip /= Len(fs) BY <3>1
    <3>3. s.skip \in 1..(Len(fs) - 1) BY <1>2, <1>5, <2>1, <2>3, <3>2
    <3>4. gs[s.skip] = fs[s.skip] /\ s.skip \in 0..Len(gs) BY <1>2, <1>5, <3>3
    <3>5. t.rsp = s.rsp BY <1>1, <2>3 DEF Live
    <3> QED BY <1>1, <3>1, <3>4, <3>5 DEF Skipping
  <2> QED BY <1>2, <2>2, <2>3
<1> QED BY <1>1, <1>4, <1>5, <1>6 DEF Inv, gs

\* Where the jump goes is no counter.
LEMMA Reskip ==
  ASSUME NEW s, Shape(s), NEW z \in Nat, z = 0 => s.rsp = s.pushed
  PROVE  LET t == [s EXCEPT !.skip = z]
         IN  /\ Shape(t) /\ t.skip = z /\ t.depth = s.depth /\ t.pushed = s.pushed
             /\ t.spill_pending = s.spill_pending /\ t.rsp = s.rsp
<1> DEFINE t == [s EXCEPT !.skip = z]
<1>1. /\ t \in StType /\ t.skip = z /\ t.depth = s.depth /\ t.pushed = s.pushed
      /\ t.spill_pending = s.spill_pending /\ t.rsp = s.rsp
      /\ t.pool_used = s.pool_used /\ t.temps = s.temps /\ t.mem = s.mem
  BY DEF Shape, StType
<1> HIDE DEF t
<1>2. Shape(t) BY <1>1 DEF Shape, Live
<1> QED BY <1>1, <1>2 DEF t

\* In the arm of a conditional nothing of its own is on the stack.
LEMMA ArmLevel ==
  ASSUME NEW s, NEW fs, Inv(s, fs), Len(fs) > 0,
         fs[Len(fs)].kind \in {"ternary", "logic"}
  PROVE  LET g == fs[Len(fs)]
         IN  /\ Counted(s, g.depth0, g.pushed0, g.spill0)
             /\ DepthAfter(g) = g.depth0 /\ PushedAfter(g) = g.pushed0
             /\ SpillAfter(g) = g.spill0
             /\ Live(s) \/ s.skip = Len(fs) => s.rsp = g.pushed0
<1> DEFINE g == fs[Len(fs)]
<1>1. Len(fs) \in Nat /\ Len(fs) \in 1..Len(fs) BY DEF Inv, Nested
<1>2. FrameOK(g) BY <1>1 DEF Inv, Nested
<1>3. Counted(s, DepthAfter(g), PushedAfter(g), SpillAfter(g)) BY <1>1 DEF Inv, Current
<1>4. s.skip = Len(fs) => s.rsp = g.pushed0 BY <1>1 DEF Inv, Skipping
<1>5. g.kind \in {"ternary", "logic"} OBVIOUS
<1>6. Live(s) => s.rsp = s.pushed BY DEF Inv, Shape
<1> HIDE DEF g
<1>7. TempsOf(g) = 0 /\ RawOf(g) = 0 BY <1>5 DEF TempsOf, RawOf
<1>8. g.depth0 \in Nat /\ g.pushed0 \in Nat /\ g.spill0 \in Nat BY <1>2 DEF FrameOK, FrameType
<1>9. DepthAfter(g) = g.depth0 BY <1>7, <1>8 DEF DepthAfter
<1>10. OnStack(g.depth0) \in Nat BY <1>8, OnStackInt
<1>11. PushedAfter(g) = g.pushed0 BY <1>7, <1>8, <1>9, <1>10 DEF PushedAfter
<1>12. SpillAfter(g) = g.spill0 BY <1>5, <1>8 DEF SpillAfter
<1>13. Counted(s, g.depth0, g.pushed0, g.spill0) BY <1>3, <1>9, <1>11, <1>12
<1>14. s.pushed = g.pushed0 BY <1>13 DEF Counted
<1> QED BY <1>4, <1>6, <1>9, <1>11, <1>12, <1>13, <1>14 DEF g

\* From the condition to an arm, or from one arm to the other.
LEMMA ArmAdvance ==
  ASSUME NEW s, NEW fs, Inv(s, fs), Len(fs) > 0,
         fs[Len(fs)].kind \in {"ternary", "logic"},
         NEW k \in {1, 2}, fs[Len(fs)].kind = "logic" => k = 1,
         NEW z, \/ z = s.skip /\ s.skip /= Len(fs)
                \/ z = Len(fs) /\ Live(s)
                \/ z = 0 /\ s.skip = Len(fs)
  PROVE  Inv([s EXCEPT !.skip = z], [fs EXCEPT ![Len(fs)].step = k])
<1> DEFINE g == fs[Len(fs)]
           f == [g EXCEPT !.step = k]
           gs == [fs EXCEPT ![Len(fs)] = f]
           t == [s EXCEPT !.skip = z]
<1>1. Len(fs) \in Nat /\ Len(fs) \in 1..Len(fs) BY DEF Inv, Nested
<1>2. FrameOK(g) BY <1>1 DEF Inv, Nested
<1>3. /\ Counted(s, g.depth0, g.pushed0, g.spill0)
      /\ Live(s) \/ s.skip = Len(fs) => s.rsp = g.pushed0
  BY ArmLevel
<1>4. g.kind \in {"ternary", "logic"} /\ (g.kind = "logic" => k = 1) OBVIOUS
<1>5. [fs EXCEPT ![Len(fs)].step = k] = gs BY <1>1 DEF Inv, Nested
<1>6. /\ f.kind = g.kind /\ f.step = k /\ f \in FrameType
      /\ StartsAt(f, g.depth0, g.pushed0, g.spill0)
  <2> HIDE DEF g
  <2>1. g \in FrameType BY <1>2 DEF FrameOK
  <2>2. k \in Nat OBVIOUS
  <2>3. f.kind = g.kind /\ f.step = k /\ f.depth0 = g.depth0 /\ f.pushed0 = g.pushed0
        /\ f.spill0 = g.spill0
    BY <2>1 DEF FrameType
  <2>4. f \in FrameType BY <2>1, <2>2 DEF FrameType
  <2> QED BY <2>3, <2>4 DEF StartsAt
<1>7. TempsOf(f) = 0 /\ RawOf(f) = 0 BY <1>4, <1>6 DEF TempsOf, RawOf
<1>8. g.depth0 \in Nat /\ g.pushed0 \in Nat /\ g.spill0 \in Nat /\ OnStack(g.depth0) <= g.pushed0
  BY <1>2 DEF FrameOK, FrameType
<1> HIDE DEF f, g
<1>9. OnStack(g.depth0) \in Nat BY <1>8, OnStackInt
<1>10. DepthAfter(f) = g.depth0 BY <1>6, <1>7, <1>8 DEF DepthAfter, StartsAt
<1>11. PushedAfter(f) = g.pushed0
  BY <1>6, <1>7, <1>8, <1>9, <1>10 DEF PushedAfter, StartsAt
<1>12. SpillAfter(f) = g.spill0 BY <1>4, <1>6, <1>8 DEF SpillAfter, StartsAt
<1>13. FrameOK(f) BY <1>4, <1>6, <1>8 DEF FrameOK, StartsAt
<1>14. z \in 0..Len(fs) BY <1>1 DEF Inv, Skipping
<1>15. z \in Nat BY <1>1, <1>14
<1>16. z = 0 => s.rsp = s.pushed
  <2>1. Live(s) => s.rsp = s.pushed BY DEF Inv, Shape
  <2>2. s.skip = Len(fs) => s.rsp = s.pushed BY <1>3 DEF Counted
  <2>3. z = 0 => Live(s) \/ s.skip = Len(fs) BY <1>1 DEF Live
  <2> QED BY <2>1, <2>2, <2>3
<1>17. /\ Shape(t) /\ t.skip = z /\ t.depth = s.depth /\ t.pushed = s.pushed
       /\ t.spill_pending = s.spill_pending /\ t.rsp = s.rsp
  BY <1>15, <1>16, Reskip DEF Inv
<1> HIDE DEF t
<1>18. Counted(t, DepthAfter(f), PushedAfter(f), SpillAfter(f))
  BY <1>3, <1>10, <1>11, <1>12, <1>17 DEF Counted
<1>19. LET h == fs[Len(fs)] IN StartsAt(f, h.depth0, h.pushed0, h.spill0)
  BY <1>6 DEF g
<1>20. /\ Nested(gs) /\ Current(t, gs) /\ Len(gs) = Len(fs) /\ gs[Len(fs)] = f
       /\ \A i \in 1..(Len(fs) - 1) : gs[i] = fs[i]
  BY <1>13, <1>17, <1>18, <1>19, AdvanceKeeps DEF Inv
<1> HIDE DEF gs
<1>21. Skipping(t, gs)
  <2>1. CASE z = 0 BY <1>14, <1>17, <1>20, <2>1 DEF Skipping
  <2>2. CASE z = Len(fs) /\ Live(s)
    <3>1. t.rsp = f.pushed0 BY <1>3, <1>6, <1>17, <2>2 DEF StartsAt
    <3> QED BY <1>4, <1>6, <1>14, <1>17, <1>20, <2>2, <3>1 DEF Skipping
  <2>3. CASE z > 0 /\ z = s.skip /\ s.skip /= Len(fs)
    <3>1. fs[z].kind \in {"ternary", "logic"} /\ fs[z].step >= 1 /\ s.rsp = fs[z].pushed0
      BY <2>3 DEF Inv, Skipping
    <3>2. gs[z] = fs[z] BY <1>1, <1>14, <1>20, <2>3
    <3> QED BY <1>14, <1>17, <1>20, <3>1, <3>2 DEF Skipping
  <2>4. z = 0 \/ z > 0 BY <1>15
  <2> QED BY <2>1, <2>2, <2>3, <2>4
<1> QED BY <1>5, <1>17, <1>20, <1>21 DEF Inv, t

\* Out of the last arm.
LEMMA ArmLeave ==
  ASSUME NEW s, NEW fs, Inv(s, fs), Len(fs) > 0,
         fs[Len(fs)].kind \in {"ternary", "logic"}
  PROVE  LET t == [s EXCEPT !.skip = IF s.skip = Len(fs) THEN 0 ELSE s.skip]
         IN  /\ Inv(t, SubSeq(fs, 1, Len(fs) - 1))
             /\ Counted(t, fs[Len(fs)].depth0, fs[Len(fs)].pushed0, fs[Len(fs)].spill0)
<1> DEFINE g == fs[Len(fs)]
           z == IF s.skip = Len(fs) THEN 0 ELSE s.skip
           gs == SubSeq(fs, 1, Len(fs) - 1)
           t == [s EXCEPT !.skip = z]
<1>1. Len(fs) \in Nat BY DEF Inv, Nested
<1>2. /\ Counted(s, g.depth0, g.pushed0, g.spill0)
      /\ Live(s) \/ s.skip = Len(fs) => s.rsp = g.pushed0
  BY ArmLevel
<1>3. s.skip \in 0..Len(fs) BY DEF Inv, Skipping
<1>4. z \in Nat /\ z \in 0..(Len(fs) - 1) BY <1>1, <1>3
<1>5. z = 0 => s.rsp = s.pushed
  <2>1. Live(s) => s.rsp = s.pushed BY DEF Inv, Shape
  <2>2. s.skip = Len(fs) => s.rsp = s.pushed BY <1>2 DEF Counted
  <2>3. z = 0 => Live(s) \/ s.skip = Len(fs) BY <1>1 DEF Live
  <2> QED BY <2>1, <2>2, <2>3
<1>6. z > 0 => z = s.skip /\ s.skip > 0 BY <1>3
<1> HIDE DEF z
<1>7. /\ Shape(t) /\ t.skip = z /\ t.depth = s.depth /\ t.pushed = s.pushed
      /\ t.spill_pending = s.spill_pending /\ t.rsp = s.rsp
  BY <1>4, <1>5, Reskip DEF Inv
<1> HIDE DEF t
<1>8. Counted(t, g.depth0, g.pushed0, g.spill0) BY <1>2, <1>7 DEF Counted
<1>9. /\ Nested(gs) /\ Current(t, gs) /\ Len(gs) = Len(fs) - 1
      /\ \A i \in 1..(Len(fs) - 1) : gs[i] = fs[i]
  BY <1>7, <1>8, LeaveKeeps DEF Inv
<1> HIDE DEF gs
<1>10. Skipping(t, gs)
  <2>1. CASE z = 0 BY <1>1, <1>4, <1>7, <1>9, <2>1 DEF Skipping
  <2>2. CASE z > 0
    <3>1. fs[z].kind \in {"ternary", "logic"} /\ fs[z].step >= 1 /\ s.rsp = fs[z].pushed0
      BY <1>6, <2>2 DEF Inv, Skipping
    <3>2. gs[z] = fs[z] /\ z \in 0..Len(gs) BY <1>1, <1>4, <1>9, <2>2
    <3> QED BY <1>7, <3>1, <3>2 DEF Skipping
  <2> QED BY <1>4, <2>1, <2>2
<1>11. Inv(t, gs) BY <1>7, <1>9, <1>10 DEF Inv
<1> QED BY <1>8, <1>11 DEF t, gs, z

\* No step at all.
LEMMA Idle == ASSUME NEW s, Shape(s) PROVE Effect(s, s, 0, 0, 0)
BY DEF Effect, Shape, StType

\* What the invariant says of the innermost frame.
LEMMA TopFacts ==
  ASSUME IInv, fp > 0
  PROVE  /\ fp \in Nat /\ Len(frames) > 0 /\ Top = frames[Len(frames)]
         /\ frames \in Seq(FrameType) /\ FrameOK(Top)
         /\ st.depth = DepthAfter(Top) /\ st.pushed = PushedAfter(Top)
         /\ st.spill_pending = SpillAfter(Top)
<1>1. /\ fp \in Nat /\ fp \in 1..fp /\ frames \in Seq(FrameType)
  BY DEF IInv, Inv, Nested, fp
<1>2. FrameOK(Top) BY <1>1 DEF IInv, Inv, Nested, fp, Top
<1>3. Counted(st, DepthAfter(Top), PushedAfter(Top), SpillAfter(Top))
  BY <1>1 DEF IInv, Inv, Current, fp, Top
<1> QED BY <1>1, <1>2, <1>3 DEF Counted, fp, Top

\* What it says of the counters.
LEMMA StFacts ==
  ASSUME IInv
  PROVE  /\ Shape(st) /\ Inv(st, frames)
         /\ st.depth \in Nat /\ st.pushed \in Nat /\ st.spill_pending \in Nat
         /\ st.rax \in Pattern /\ st.r10 \in Pattern
         /\ st.pool_used = Regs(st.depth)
         /\ OnStack(st.depth) \in Nat
         /\ OnStack(st.depth) <= st.pushed
<1>1. /\ Shape(st) /\ st.depth \in Nat /\ st.pushed \in Nat /\ st.spill_pending \in Nat
      /\ st.rax \in Pattern /\ st.r10 \in Pattern /\ st.pool_used = Regs(st.depth)
  BY DEF IInv, Inv, Shape, StType
<1>2. OnStack(st.depth) \in Nat BY <1>1, OnStackInt
<1>3. OnStack(st.depth) <= st.pushed
  <2>1. CASE fp > 0 BY <2>1, TopFacts, AfterType
  <2>2. CASE fp = 0
    <3>1. st.depth = 0 /\ st.pushed = 0
      BY <2>2 DEF IInv, Inv, Current, Counted, fp
    <3> QED BY <3>1 DEF OnStack, Regs
  <2>3. fp \in Nat BY DEF IInv, Inv, Nested, fp
  <2> QED BY <2>1, <2>2, <2>3
<1> QED BY <1>1, <1>2, <1>3 DEF IInv

\* Where an operand stands is a depth and a rank.
LEMMA OperandType ==
  ASSUME NEW f, FrameOK(f)
  PROVE  Operand(f).nest \in Nat /\ Operand(f).rank \in Nat
<1>1. f.nest \in Nat /\ f.rank \in Nat /\ f.step \in Nat /\ f.kind \in Kinds
  BY TempPoolAssumption DEF FrameOK, FrameType, Ranks, Primary, Unary
<1> QED BY <1>1 DEF Operand, AroundAssign, Place, Kinds, Primary, Comma, Assignment, Or

\* parse_depth is a number.
LEMMA NestType ==
  ASSUME IInv, NEW rank \in Ranks PROVE NestHere \in Nat /\ NestOf(rank) \in Nat
<1>1. Here.nest \in Nat /\ Here.rank \in Nat
  <2>1. CASE fp = 0 BY <2>1 DEF Here, Place, Comma
  <2>2. CASE fp > 0 BY <2>2, TopFacts, OperandType DEF Here
  <2>3. fp \in Nat BY DEF IInv, Inv, Nested, fp
  <2> QED BY <2>1, <2>2, <2>3
<1> QED BY <1>1 DEF NestOf, NestHere

\* The ranks the entering actions use.
LEMMA RankType ==
  /\ {Primary, Comma, Assignment, Conditional, Or, And, Unary} \subseteq Ranks
  /\ BinaryRanks \subseteq Ranks
BY TempPoolAssumption DEF Primary, Comma, Assignment, Conditional, Or, And, Unary, Ranks,
   BinaryRanks

\* The states between steps.
LEMMA SettleAfter ==
  ASSUME NEW s, Shape(s), NEW t, NEW d \in Int, NEW p \in Int, NEW q \in Int,
         Effect(s, t, d, p, q)
  PROVE  Effect(s, Settled(t), d, p, q)
<1>1. Effect(t, Settled(t), 0, 0, 0) BY SettledEffect DEF Effect
<1>2. Effect(s, Settled(t), d + 0, p + 0, q + 0) BY <1>1, Chain
<1> QED BY <1>2

\* A frame just entered has parked nothing.
LEMMA EnteredOK ==
  ASSUME IInv, NEW kind \in Kinds \ {"call"}, NEW rank \in Ranks
  PROVE  LET f == Entered(kind, rank)
         IN  /\ FrameOK(f) /\ f.kind = kind /\ f.step = 0
             /\ StartsAt(f, st.depth, st.pushed, st.spill_pending)
<1> DEFINE f == Entered(kind, rank)
<1>1. NestOf(rank) \in Nat BY NestType
<1>2. <<>> \in Seq(Pattern) OBVIOUS
<1>3. f \in FrameType /\ f.kind = kind /\ f.step = 0 /\ f.depth0 = st.depth
      /\ f.pushed0 = st.pushed /\ f.spill0 = st.spill_pending
  BY <1>1, <1>2, StFacts DEF Entered, FrameType
<1> HIDE DEF f
<1>4. FrameOK(f) BY <1>3, StFacts DEF FrameOK
<1> QED BY <1>3, <1>4 DEF f, StartsAt

\* An action that enters a frame, having pushed what the frame accounts for.
LEMMA EnterAction ==
  ASSUME IInv, NEW kind \in Kinds \ {"call"}, NEW rank \in Ranks,
         NEW s, Effect(st, s, 0, RawOf(Entered(kind, rank)), 0), NEW m,
         EnterWith(Entered(kind, rank), s, m)
  PROVE  IInv'
<1> DEFINE f == Entered(kind, rank)
<1>1. FrameOK(f) /\ f.kind = kind /\ f.step = 0
      /\ StartsAt(f, st.depth, st.pushed, st.spill_pending)
  BY EnteredOK
<1>2. Effect(st, s, 0, RawOf(f), 0) OBVIOUS
<1>3. st' = s /\ frames' = Append(frames, f) BY DEF EnterWith
<1> HIDE DEF f
<1>4. Effect(st, s, 0, RawOf(f), IF f.kind = "call" THEN f.spilled ELSE 0) BY <1>1, <1>2
<1>5. Inv(s, Append(frames, f)) BY <1>1, <1>4, EnterStep DEF IInv
<1> QED BY <1>3, <1>5 DEF IInv

\* An action that enters a frame and emits nothing.
LEMMA EnterPlain ==
  ASSUME IInv, NEW kind \in Kinds \ {"call", "struct"}, NEW rank \in Ranks,
         Enter(kind, rank)
  PROVE  IInv'
<1>1. Entered(kind, rank).kind = kind BY DEF Entered
<1>2. RawOf(Entered(kind, rank)) = 0 BY <1>1 DEF RawOf, Kinds
<1>3. Effect(st, st, 0, RawOf(Entered(kind, rank)), 0) BY <1>2, StFacts, Idle
<1>4. kind \in Kinds \ {"call"} OBVIOUS
<1> QED BY <1>3, <1>4, EnterAction DEF Enter

\* An action that parks the operand just generated.
LEMMA AdvanceAction ==
  ASSUME IInv, fp > 0, Top.kind \in {"binary", "compound", "assign", "struct", "call"},
         Top.kind /= "call" => Top.step = 0,
         Top.kind = "call" => Top.step + 1 < Top.n,
         NEW s, NEW kept \in Seq(Pattern), Advance(s, kept),
         NEW d \in Int, NEW p \in Int, Effect(st, s, d, p, 0),
         d = (IF Top.kind = "compound" THEN 2 ELSE IF Top.kind = "call" THEN 0 ELSE 1),
         p = OnStack(st.depth + d) - OnStack(st.depth) + (IF Top.kind = "call" THEN 1 ELSE 0)
  PROVE  IInv'
<1> DEFINE g == Top
           h == IF Live(st) THEN g.held \o kept ELSE g.held
           f == [g EXCEPT !.step = g.step + 1, !.held = h]
<1>1. /\ fp \in Nat /\ Len(frames) > 0 /\ g = frames[Len(frames)]
      /\ frames \in Seq(FrameType) /\ FrameOK(g)
      /\ st.depth = DepthAfter(g) /\ st.pushed = PushedAfter(g)
      /\ st.spill_pending = SpillAfter(g) /\ fp = Len(frames)
  BY TopFacts DEF fp
<1>2. g \in FrameType BY <1>1 DEF FrameOK
<1>3. g.held \in Seq(Pattern) /\ g.step \in Nat BY <1>2 DEF FrameType
<1>4. h \in Seq(Pattern) BY <1>3
<1>5. frames' = [frames EXCEPT ![Len(frames)] = f] BY <1>1 DEF Advance
<1>6. st' = Settled(s) BY DEF Advance
<1>7. /\ g.kind \in {"binary", "compound", "assign", "struct", "call"}
      /\ (g.kind /= "call" => g.step = 0) /\ (g.kind = "call" => g.step + 1 < g.n)
      /\ d = (IF g.kind = "compound" THEN 2 ELSE IF g.kind = "call" THEN 0 ELSE 1)
      /\ p = OnStack(st.depth + d) - OnStack(st.depth) + (IF g.kind = "call" THEN 1 ELSE 0)
  OBVIOUS
<1> HIDE DEF g, h
<1>8. /\ f.kind = g.kind /\ f.step = g.step + 1 /\ f.depth0 = g.depth0
      /\ f.pushed0 = g.pushed0 /\ f.spill0 = g.spill0 /\ f.n = g.n
      /\ f.spilled = g.spilled /\ f.padded = g.padded
  BY <1>2 DEF FrameType
<1>9. f \in FrameType
  <2>1. g.step + 1 \in Nat BY <1>3
  <2> QED BY <1>2, <1>4, <2>1 DEF FrameType
<1> HIDE DEF f
<1>10. /\ g.depth0 \in Nat /\ g.pushed0 \in Nat /\ g.spill0 \in Nat
       /\ g.spilled \in Nat /\ g.padded \in Nat
  BY <1>2 DEF FrameType
<1>11. FrameOK(f) BY <1>1, <1>3, <1>7, <1>8, <1>9 DEF FrameOK
<1>12. StartsAt(f, g.depth0, g.pushed0, g.spill0) BY <1>8 DEF StartsAt
<1>13. TempsOf(g) \in Nat /\ TempsOf(f) = TempsOf(g) + d
  <2>1. CASE g.kind = "compound"
    <3>1. TempsOf(g) = 2 * g.step /\ TempsOf(f) = 2 * (g.step + 1) BY <1>8, <2>1 DEF TempsOf
    <3>2. d = 2 BY <1>7, <2>1
    <3> QED BY <1>3, <3>1, <3>2
  <2>2. CASE g.kind = "call" BY <1>3, <1>7, <1>8, <2>2 DEF TempsOf
  <2>3. CASE g.kind \in {"binary", "assign", "struct"}
    <3>1. TempsOf(g) = g.step /\ TempsOf(f) = g.step + 1 BY <1>8, <2>3 DEF TempsOf
    <3>2. d = 1 BY <1>7, <2>3
    <3> QED BY <1>3, <3>1, <3>2
  <2>4. g.kind \in {"binary", "assign", "struct"} \/ g.kind = "compound" \/ g.kind = "call"
    BY <1>7
  <2> QED BY <2>1, <2>2, <2>3, <2>4
<1>14. RawOf(g) \in Nat /\ RawOf(f) = RawOf(g) + (IF g.kind = "call" THEN 1 ELSE 0)
  <2>1. CASE g.kind = "struct" BY <1>3, <1>7, <1>8, <2>1 DEF RawOf
  <2>2. CASE g.kind = "call"
    <3>1. RawOf(g) = g.spilled + g.padded + g.step
          /\ RawOf(f) = g.spilled + g.padded + (g.step + 1)
      BY <1>8, <2>2 DEF RawOf
    <3>2. RawOf(g) \in Nat BY <1>3, <1>10, <3>1
    <3>3. RawOf(f) = RawOf(g) + 1
      <4>1. \A i, j, k \in Nat : i + j + (k + 1) = (i + j + k) + 1 OBVIOUS
      <4>2. g.spilled + g.padded + (g.step + 1) = (g.spilled + g.padded + g.step) + 1
        BY <1>3, <1>10, <4>1
      <4> QED BY <3>1, <4>2
    <3> QED BY <2>2, <3>2, <3>3
  <2>3. CASE g.kind \in {"binary", "assign", "compound"} BY <1>3, <1>7, <1>8, <2>3 DEF RawOf
  <2>4. g.kind \in {"binary", "assign", "compound"} \/ g.kind = "struct" \/ g.kind = "call"
    BY <1>7
  <2> QED BY <2>1, <2>2, <2>3, <2>4
<1>15. DepthAfter(f) = DepthAfter(g) + d /\ DepthAfter(g) \in Nat /\ DepthAfter(f) \in Nat
  <2>1. d \in {0, 1, 2} BY <1>7
  <2>2. d \in Nat BY <2>1
  <2>3. DepthAfter(g) = g.depth0 + TempsOf(g) /\ DepthAfter(f) = g.depth0 + (TempsOf(g) + d)
    BY <1>8, <1>13 DEF DepthAfter
  <2> QED BY <1>10, <1>13, <2>2, <2>3, SMTT(30)
<1>16. /\ OnStack(g.depth0) \in Nat /\ OnStack(DepthAfter(g)) \in Nat
       /\ OnStack(DepthAfter(f)) \in Nat
  BY <1>10, <1>15, OnStackInt
<1>17. p = OnStack(DepthAfter(f)) - OnStack(DepthAfter(g)) + (IF g.kind = "call" THEN 1 ELSE 0)
  BY <1>1, <1>7, <1>15
<1>18. PushedAfter(f) = PushedAfter(g) + p
  <2> DEFINE e == IF g.kind = "call" THEN 1 ELSE 0
             a == OnStack(g.depth0)
             b == OnStack(DepthAfter(g))
             c == OnStack(DepthAfter(f))
  <2>1. e \in Nat /\ RawOf(f) = RawOf(g) + e /\ RawOf(g) \in Nat /\ p = c - b + e
    BY <1>14, <1>17
  <2>2. a \in Nat /\ b \in Nat /\ c \in Nat BY <1>16
  <2>3. PushedAfter(g) = g.pushed0 + (b - a) + RawOf(g)
        /\ PushedAfter(f) = g.pushed0 + (c - a) + RawOf(f)
    BY <1>8 DEF PushedAfter
  <2> DEFINE x == g.pushed0
             r == RawOf(g)
  <2>4. x + (c - a) + (r + e) = (x + (b - a) + r) + (c - b + e)
    <3>1. x \in Nat /\ r \in Nat /\ e \in Nat BY <1>10, <2>1
    <3> HIDE DEF a, b, c, e, x, r
    <3> QED BY <2>2, <3>1
  <2> QED BY <2>1, <2>3, <2>4
<1>19. SpillAfter(f) = SpillAfter(g) BY <1>8 DEF SpillAfter
<1>20. Effect(st, Settled(s), d, p, 0) BY StFacts, SettleAfter
<1>21. Inv(st, frames) BY StFacts
<1>22. Inv(Settled(s), [frames EXCEPT ![Len(frames)] = f])
  <2>1. g.kind \notin {"ternary", "logic"} BY <1>7
  <2> QED BY <1>1, <1>11, <1>12, <1>15, <1>18, <1>19, <1>20, <1>21, <2>1, AdvanceStep
<1> QED BY <1>5, <1>6, <1>22 DEF IInv

\* An action that completes the innermost operation.
LEMMA LeaveAction ==
  ASSUME IInv, fp > 0, Top.kind \notin {"ternary", "logic"},
         NEW s, Leave(s), NEW d \in Int, NEW p \in Int, NEW q \in Int,
         Effect(st, s, d, p, q),
         st.depth + d = Top.depth0, st.pushed + p = Top.pushed0,
         st.spill_pending + q = Top.spill0
  PROVE  IInv' /\ LeavesAsEntered
<1> DEFINE g == Top
<1>1. /\ fp \in Nat /\ Len(frames) > 0 /\ g = frames[Len(frames)]
      /\ st.depth = DepthAfter(g) /\ st.pushed = PushedAfter(g)
      /\ st.spill_pending = SpillAfter(g) /\ fp = Len(frames)
  BY TopFacts DEF fp
<1>2. st' = Settled(s) /\ frames' = SubSeq(frames, 1, Len(frames) - 1) BY DEF Leave, fp
<1>3. Effect(st, Settled(s), d, p, q) BY StFacts, SettleAfter
<1>4. Inv(st, frames) BY StFacts
<1>5. g.kind \notin {"ternary", "logic"} /\ st.depth + d = g.depth0
      /\ st.pushed + p = g.pushed0 /\ st.spill_pending + q = g.spill0
  OBVIOUS
<1> HIDE DEF g
<1>6. DepthAfter(g) + d = g.depth0 /\ PushedAfter(g) + p = g.pushed0
      /\ SpillAfter(g) + q = g.spill0
  BY <1>1, <1>5
<1>7. /\ Inv(Settled(s), SubSeq(frames, 1, Len(frames) - 1))
      /\ Counted(Settled(s), g.depth0, g.pushed0, g.spill0)
  BY <1>1, <1>3, <1>4, <1>5, <1>6, LeaveStep
<1>8. IInv' BY <1>2, <1>7 DEF IInv
<1>9. LeavesAsEntered BY <1>2, <1>7 DEF LeavesAsEntered, Counted, g
<1> QED BY <1>8, <1>9

\* t is d temporaries and e words of other kinds above s.
Base(s) == Shape(s) /\ OnStack(s.depth) <= s.pushed
Rise(s, d) == OnStack(s.depth + d) - OnStack(s.depth)
Above(s, t, d, e) == Effect(s, t, d, Rise(s, d) + e, 0)

\* What that says of the counters of t.
LEMMA AboveFacts ==
  ASSUME NEW s, Base(s), NEW t, NEW d \in Int, NEW e \in Int, Above(s, t, d, e)
  PROVE  /\ Shape(s) /\ Shape(t) /\ s.depth \in Nat /\ t.depth \in Nat
         /\ s.pushed \in Nat
         /\ t.depth = s.depth + d /\ t.pushed = s.pushed + (Rise(s, d) + e)
         /\ OnStack(s.depth) \in Nat /\ OnStack(t.depth) \in Nat
         /\ Rise(s, d) \in Int /\ Rise(s, d) = OnStack(t.depth) - OnStack(s.depth)
         /\ (e >= 0 => OnStack(t.depth) <= t.pushed)
<1>1. /\ Shape(s) /\ Shape(t) /\ t.depth = s.depth + d
      /\ t.pushed = s.pushed + (Rise(s, d) + e)
  BY DEF Above, Effect, Base
<1>2. s.depth \in Nat /\ t.depth \in Nat /\ s.pushed \in Nat BY <1>1 DEF Shape, StType
<1>3. OnStack(s.depth) \in Nat /\ OnStack(t.depth) \in Nat BY <1>2, OnStackInt
<1>4. Rise(s, d) = OnStack(t.depth) - OnStack(s.depth) BY <1>1 DEF Rise
<1>5. Rise(s, d) \in Int BY <1>3, <1>4
<1>6. OnStack(s.depth) <= s.pushed BY DEF Base
<1>7. e >= 0 => OnStack(t.depth) <= t.pushed
  <2> DEFINE a == OnStack(s.depth)
             b == OnStack(t.depth)
  <2>1. a \in Nat /\ b \in Nat /\ a <= s.pushed /\ t.pushed = s.pushed + ((b - a) + e)
    BY <1>1, <1>3, <1>4, <1>6
  <2> HIDE DEF a, b
  <2>2. e >= 0 => b <= t.pushed BY <1>2, <2>1
  <2> QED BY <2>2 DEF b
<1> QED BY <1>1, <1>2, <1>3, <1>4, <1>5, <1>7

\* The state itself, then one lemma per helper.
LEMMA AboveStart == ASSUME NEW s, Base(s) PROVE Above(s, s, 0, 0)
<1>1. Shape(s) /\ s.depth \in Nat BY DEF Base, Shape, StType
<1>2. OnStack(s.depth) \in Nat BY <1>1, OnStackInt
<1>3. Rise(s, 0) + 0 = 0 BY <1>1, <1>2 DEF Rise
<1> QED BY <1>1, <1>3, Idle DEF Above

\* A move into a register.
LEMMA AboveSet ==
  ASSUME NEW s, Base(s), NEW t, NEW d \in Int, NEW e \in Int, Above(s, t, d, e),
         NEW reg \in {"rax", "rcx", "r10"}, NEW v \in Pattern
  PROVE  Above(s, Set(t, reg, v), d, e)
<1>1. Shape(s) /\ Shape(t) /\ Rise(s, d) + e \in Int BY AboveFacts
<1>2. Effect(t, Set(t, reg, v), 0, 0, 0) BY <1>1, SetEffect
<1> DEFINE m == Rise(s, d) + e
<1>3. Effect(s, t, d, m, 0) BY DEF Above
<1>4. m \in Int BY <1>1
<1> HIDE DEF m
<1>5. Effect(s, Set(t, reg, v), d + 0, m + 0, 0 + 0) BY <1>1, <1>2, <1>3, <1>4, Chain
<1>6. Effect(s, Set(t, reg, v), d, m, 0) BY <1>4, <1>5
<1> QED BY <1>6 DEF Above, m

\* The end of a step.
LEMMA AboveSettled ==
  ASSUME NEW s, Base(s), NEW t, NEW d \in Int, NEW e \in Int, Above(s, t, d, e)
  PROVE  Above(s, Settled(t), d, e)
<1>1. Shape(s) /\ Rise(s, d) + e \in Int BY AboveFacts
<1> QED BY <1>1, SettleAfter DEF Above

\* temp_push().
LEMMA AbovePush ==
  ASSUME NEW s, Base(s), NEW t, NEW d \in Int, NEW e \in Int, Above(s, t, d, e)
  PROVE  Above(s, TempPush(t), d + 1, e)
<1> DEFINE m == Rise(s, d) + e
           k == OnStack(t.depth + 1) - OnStack(t.depth)
<1>1. /\ Shape(s) /\ Shape(t) /\ t.depth \in Nat /\ t.depth = s.depth + d
      /\ s.depth \in Nat
      /\ Rise(s, d) = OnStack(t.depth) - OnStack(s.depth)
      /\ OnStack(s.depth) \in Nat /\ OnStack(t.depth) \in Nat /\ Rise(s, d) \in Int
  BY AboveFacts
<1>2. OnStack(t.depth + 1) \in Nat BY <1>1, OnStackInt
<1>3. Effect(t, TempPush(t), 1, k, 0) BY <1>1, PushEffect
<1>4. Effect(s, t, d, m, 0) BY DEF Above
<1>5. m \in Int /\ k \in Int BY <1>1, <1>2
<1>6. m + k = Rise(s, d + 1) + e
  <2>1. s.depth + (d + 1) = t.depth + 1 BY <1>1
  <2>2. Rise(s, d + 1) = OnStack(t.depth + 1) - OnStack(s.depth) BY <2>1 DEF Rise
  <2> QED BY <1>1, <1>2, <2>2
<1> HIDE DEF m, k
<1>7. Effect(s, TempPush(t), d + 1, m + k, 0 + 0) BY <1>1, <1>3, <1>4, <1>5, Chain
<1> QED BY <1>6, <1>7 DEF Above

\* An arithmetic fact the provers want spelled out.
LEMMA MinusOne == -1 \in Int /\ \A x \in Int : x + (-1) = x - 1
OBVIOUS

\* The word a temporary gives back was pushed with it.
LEMMA AbovePop ==
  ASSUME NEW s, Base(s), NEW t, NEW d \in Int, NEW e \in Nat, Above(s, t, d, e), NEW u,
         Effect(t, u, -1, OnStack(t.depth - 1) - OnStack(t.depth), 0), t.depth > 0
  PROVE  Above(s, u, d - 1, e)
<1> DEFINE m == Rise(s, d) + e
           k == OnStack(t.depth - 1) - OnStack(t.depth)
           c == -1
<1>1. /\ Shape(s) /\ Shape(t) /\ t.depth \in Nat /\ t.depth = s.depth + d
      /\ s.depth \in Nat
      /\ Rise(s, d) = OnStack(t.depth) - OnStack(s.depth)
      /\ OnStack(s.depth) \in Nat /\ OnStack(t.depth) \in Nat /\ Rise(s, d) \in Int
  BY AboveFacts
<1>2. OnStack(t.depth - 1) \in Nat
  <2>1. \A z \in Nat : z > 0 => z - 1 \in Nat OBVIOUS
  <2>2. t.depth - 1 \in Nat BY <1>1, <2>1
  <2> QED BY <2>2, OnStackInt
<1>3. Effect(t, u, c, k, 0) OBVIOUS
<1>8. c \in Int /\ d + c = d - 1
  <2>1. c \in Int BY MinusOne, Zenon
  <2>2. d + c = d - 1 BY MinusOne, Zenon
  <2> QED BY <2>1, <2>2
<1>4. Effect(s, t, d, m, 0) BY DEF Above
<1>5. m \in Int /\ k \in Int BY <1>1, <1>2
<1>6. m + k = Rise(s, d - 1) + e
  <2>1. s.depth + (d - 1) = t.depth - 1 BY <1>1
  <2>2. Rise(s, d - 1) = OnStack(t.depth - 1) - OnStack(s.depth) BY <2>1 DEF Rise
  <2> QED BY <1>1, <1>2, <2>2
<1> HIDE DEF m, k, c
<1>9. 0 \in Int OBVIOUS
<1>7. Effect(s, u, d + c, m + k, 0 + 0) BY <1>1, <1>3, <1>4, <1>5, <1>8, <1>9, Chain, Zenon
<1> QED BY <1>6, <1>7, <1>8 DEF Above

\* temp_pop_into().
LEMMA AbovePopInto ==
  ASSUME NEW s, Base(s), NEW t, NEW d \in Int, NEW e \in Nat, Above(s, t, d, e),
         s.depth + d > 0, NEW reg \in {"rax", "rcx", "r10"}
  PROVE  Above(s, TempPopInto(t, reg), d - 1, e)
<1>1. Shape(t) /\ t.depth > 0 /\ OnStack(t.depth) <= t.pushed BY AboveFacts
<1> QED BY <1>1, PopEffect, AbovePop

\* temp_drop().
LEMMA AboveDrop ==
  ASSUME NEW s, Base(s), NEW t, NEW d \in Int, NEW e \in Nat, Above(s, t, d, e),
         s.depth + d > 0
  PROVE  Above(s, TempDrop(t), d - 1, e)
<1>1. Shape(t) /\ t.depth > 0 /\ OnStack(t.depth) <= t.pushed BY AboveFacts
<1> QED BY <1>1, DropEffect, AbovePop

\* temp_combine().
LEMMA AboveCombine ==
  ASSUME NEW s, Base(s), NEW t, NEW d \in Int, NEW e \in Nat, Above(s, t, d, e),
         s.depth + d > 0, NEW op \in Ops, NEW v \in Value
  PROVE  Above(s, TempCombine(t, op, v), d - 1, e)
<1>1. Shape(t) /\ t.depth > 0 /\ OnStack(t.depth) <= t.pushed BY AboveFacts
<1> QED BY <1>1, CombineEffect, AbovePop

\* Words of other kinds.
LEMMA AboveMove ==
  ASSUME NEW s, Base(s), NEW t, NEW d \in Int, NEW e \in Int, Above(s, t, d, e), NEW u,
         NEW k \in Int, Effect(t, u, 0, k, 0)
  PROVE  Above(s, u, d, e + k)
<1> DEFINE m == Rise(s, d) + e
<1>1. Shape(s) /\ Rise(s, d) \in Int BY AboveFacts
<1>2. Effect(s, t, d, m, 0) BY DEF Above
<1>3. m \in Int BY <1>1
<1>4. m + k = Rise(s, d) + (e + k) BY <1>1
<1> HIDE DEF m
<1>5. Effect(s, u, d + 0, m + k, 0 + 0) BY <1>1, <1>2, <1>3, Chain
<1>6. d + 0 = d OBVIOUS
<1> QED BY <1>4, <1>5, <1>6 DEF Above

\* No step raises the number of temporaries past the table.
TableHolds == st'.depth <= st.depth \/ st'.depth <= TempMax

\* What every step does.
Good == IInv' /\ LeavesAsEntered /\ TableHolds

\* A step starts from its own state.
LEMMA BaseFact == ASSUME IInv PROVE Base(st) /\ Above(st, st, 0, 0)
BY StFacts, AboveStart DEF Base

\* A value is a pattern, and so is junk.
LEMMA ValueIsPattern == Value \subseteq Pattern /\ Junk \in Pattern
BY DEF Pattern

\* A step that changes no frame and no counter.
LEMMA StayAction ==
  ASSUME IInv, NEW s, Above(st, s, 0, 0), st' = s, UNCHANGED frames
  PROVE  Good
<1>1. Shape(st) /\ st.depth \in Nat BY StFacts
<1>2. OnStack(st.depth) \in Nat BY <1>1, OnStackInt
<1>3. Rise(st, 0) + 0 = 0 BY <1>1, <1>2 DEF Rise
<1>4. Effect(st, s, 0, 0, 0) BY <1>3 DEF Above
<1>5. Inv(s, frames) BY <1>4, StFacts, StayKeeps
<1>6. fp \in Nat BY DEF IInv, Inv, Nested, fp
<1>7. LeavesAsEntered BY <1>6 DEF LeavesAsEntered, fp
<1>8. TableHolds BY <1>1, <1>4 DEF TableHolds, Effect
<1> QED BY <1>5, <1>7, <1>8 DEF Good, IInv

\* Every action preserves the invariant; one lemma for each.
LEMMA KeepsLeaf == ASSUME IInv, GenLeaf PROVE Good
<1>1. PICK v \in Value : st' = Set(st, "rax", v) BY DEF GenLeaf
<1>2. Above(st, Set(st, "rax", v), 0, 0) BY BaseFact, ValueIsPattern, AboveSet
<1> QED BY <1>1, <1>2, StayAction DEF GenLeaf

\* x++ pushes one temporary and pops it.
LEMMA KeepsPostfixVar == ASSUME IInv, GenPostfixVar PROVE Good
<1>1. PICK old \in Value, new \in Value :
        st' = Settled(TempPopInto(Set(TempPush(Set(st, "rax", old)), "rax", new), "rax"))
  BY DEF GenPostfixVar
<1> DEFINE s0 == Set(st, "rax", old)
           s1 == TempPush(s0)
           s2 == Set(s1, "rax", new)
           s3 == TempPopInto(s2, "rax")
<1>2. Base(st) /\ Above(st, st, 0, 0) /\ old \in Pattern /\ new \in Pattern
  BY BaseFact, ValueIsPattern
<1>3. Above(st, s0, 0, 0) BY <1>2, AboveSet
<1> HIDE DEF s0
<1>4. Above(st, s1, 0 + 1, 0) BY <1>2, <1>3, AbovePush
<1>5. Above(st, s1, 1, 0) BY <1>4
<1> HIDE DEF s1
<1>6. Above(st, s2, 1, 0) BY <1>2, <1>5, AboveSet
<1> HIDE DEF s2
<1>7. st.depth + 1 > 0 BY StFacts
<1>8. Above(st, s3, 1 - 1, 0) BY <1>2, <1>6, <1>7, AbovePopInto
<1>9. Above(st, s3, 0, 0) BY <1>8
<1> HIDE DEF s3
<1>10. Above(st, Settled(s3), 0, 0) BY <1>2, <1>9, AboveSettled
<1>11. st' = Settled(s3) BY <1>1 DEF s3, s2, s1, s0
<1> QED BY <1>10, <1>11, StayAction DEF GenPostfixVar

\* The comma operator drops a value that was never parked.
LEMMA KeepsCommaLeft == ASSUME IInv, CommaLeft PROVE Good
BY BaseFact, StayAction DEF CommaLeft

\* Entering never shortens the stack of pending operations.
LEMMA EnterLeaves ==
  ASSUME IInv, NEW f, NEW s, NEW m, EnterWith(f, s, m) PROVE LeavesAsEntered
<1>1. frames \in Seq(FrameType) /\ fp \in Nat BY DEF IInv, Inv, Nested, fp
<1>2. Len(Append(frames, f)) = fp + 1 BY <1>1 DEF fp
<1>3. ~(Len(frames') < fp) BY <1>1, <1>2 DEF EnterWith
<1> QED BY <1>3 DEF LeavesAsEntered

\* The constructs that start by generating their first operand.
LEMMA KeepsEnter ==
  ASSUME IInv, EnterBinary \/ EnterCompound \/ EnterAssign \/ EnterPostfix
               \/ EnterTernary \/ EnterLogic
  PROVE  Good
<1>1. PICK kind \in Kinds \ {"call", "struct"}, rank \in Ranks : Enter(kind, rank)
  BY RankType DEF EnterBinary, EnterCompound, EnterAssign, EnterPostfix, EnterTernary,
         EnterLogic, Kinds
<1>2. IInv' BY <1>1, EnterPlain
<1>3. LeavesAsEntered BY <1>1, EnterLeaves DEF Enter
<1>4. TableHolds BY <1>1, StFacts DEF TableHolds, Enter, EnterWith
<1> QED BY <1>2, <1>3, <1>4 DEF Good

\* On Windows two words are pushed first.
LEMMA KeepsEnterStruct == ASSUME IInv, EnterStruct PROVE Good
<1> DEFINE s == IF Windows THEN Grow(st, 2, Junk) ELSE st
           f == Entered("struct", Assignment)
<1>1. EnterWith(f, s, "gen") BY DEF EnterStruct
<1>2. f.kind = "struct" BY DEF Entered
<1>3. RawOf(f) = IF Windows THEN 2 ELSE 0 BY <1>2 DEF RawOf
<1>4. Effect(st, s, 0, RawOf(f), 0)
  <2>1. CASE Windows BY <1>3, <2>1, StFacts, ValueIsPattern, GrowEffect
  <2>2. CASE ~Windows BY <1>3, <2>2, StFacts, Idle
  <2> QED BY <2>1, <2>2
<1>5. "struct" \in Kinds \ {"call"} /\ Assignment \in Ranks BY RankType DEF Kinds
<1>6. IInv' BY <1>1, <1>4, <1>5, EnterAction
<1>7. LeavesAsEntered BY <1>1, EnterLeaves
<1>8. s.depth = st.depth + 0 /\ st.depth \in Nat /\ st' = s
  BY <1>1, <1>4, StFacts DEF Effect, EnterWith
<1>9. TableHolds BY <1>8 DEF TableHolds
<1> QED BY <1>6, <1>7, <1>9 DEF Good

\* The steps after a first operand push one temporary, or two.
LEMMA AdvanceGood ==
  ASSUME IInv, fp > 0, Top.kind \in {"binary", "compound", "assign", "struct"},
         Top.step = 0, NEW s, NEW kept \in Seq(Pattern), Advance(s, kept),
         NEW d \in Int, Room(d), Above(st, s, d, 0), d = IF Top.kind = "compound" THEN 2 ELSE 1
  PROVE  Good
<1>1. Effect(st, s, d, Rise(st, d) + 0, 0) BY DEF Above
<1>2. Rise(st, d) \in Int
  <2>1. Base(st) /\ 0 \in Int BY BaseFact
  <2> QED BY <2>1, AboveFacts
<1>3. Rise(st, d) + 0 = OnStack(st.depth + d) - OnStack(st.depth)
                        + (IF Top.kind = "call" THEN 1 ELSE 0)
  BY <1>2 DEF Rise
<1>4. IInv'
  <2> DEFINE p == Rise(st, d) + 0
  <2>1. p \in Int BY <1>2
  <2>2. p = OnStack(st.depth + d) - OnStack(st.depth) + (IF Top.kind = "call" THEN 1 ELSE 0)
    BY <1>3
  <2>3. Effect(st, s, d, p, 0) BY <1>1
  <2> HIDE DEF p
  <2> QED BY <2>1, <2>2, <2>3, AdvanceAction
<1>5. fp \in Nat /\ frames \in Seq(FrameType) BY DEF IInv, Inv, Nested, fp
<1>6. Len(frames') = fp BY <1>5 DEF Advance, fp
<1>7. LeavesAsEntered BY <1>5, <1>6 DEF LeavesAsEntered
<1>8. TableHolds
  <2>1. Settled(s).depth = st.depth + d
    <3>1. Base(st) /\ 0 \in Int BY BaseFact
    <3>2. Above(st, Settled(s), d, 0) BY <3>1, AboveSettled
    <3> QED BY <3>1, <3>2, AboveFacts
  <2>2. st'.depth <= TempMax BY <2>1 DEF Advance, Room
  <2> QED BY <2>2 DEF TableHolds
<1> QED BY <1>4, <1>7, <1>8 DEF Good

\* What the guard of a continuing action says.
LEMMA AtFacts ==
  ASSUME IInv, NEW kind, NEW step, At(kind, step)
  PROVE  fp > 0 /\ Top.kind = kind /\ Top.step = step
BY DEF At

\* One value makes a sequence.
LEMMA OneKept == ASSUME NEW v \in Pattern PROVE <<v>> \in Seq(Pattern)
OBVIOUS

\* The left operand is parked.
LEMMA KeepsBinaryLeft == ASSUME IInv, BinaryLeft PROVE Good
<1>1. fp > 0 /\ Top.kind = "binary" /\ Top.step = 0 BY AtFacts DEF BinaryLeft
<1>2. Above(st, TempPush(st), 0 + 1, 0) BY BaseFact, AbovePush
<1>3. Above(st, TempPush(st), 1, 0) BY <1>2
<1>4. <<st.rax>> \in Seq(Pattern) BY StFacts, OneKept
<1>5. Advance(TempPush(st), <<st.rax>>) BY DEF BinaryLeft
<1>6. 1 = IF Top.kind = "compound" THEN 2 ELSE 1 BY <1>1
<1>7. Top.kind \in {"binary", "compound", "assign", "struct"} /\ 1 \in Int BY <1>1
<1>8. Room(1) BY DEF BinaryLeft
<1> QED BY <1>1, <1>3, <1>8, <1>4, <1>5, <1>6, <1>7, AdvanceGood

\* The value to store is parked.
LEMMA KeepsAssignValue == ASSUME IInv, AssignValue PROVE Good
<1>1. fp > 0 /\ Top.kind = "assign" /\ Top.step = 0 BY AtFacts DEF AssignValue
<1>2. Above(st, TempPush(st), 0 + 1, 0) BY BaseFact, AbovePush
<1>3. Above(st, TempPush(st), 1, 0) BY <1>2
<1>4. <<st.rax>> \in Seq(Pattern) BY StFacts, OneKept
<1>5. Advance(TempPush(st), <<st.rax>>) BY DEF AssignValue
<1>6. 1 = IF Top.kind = "compound" THEN 2 ELSE 1 BY <1>1
<1>7. Top.kind \in {"binary", "compound", "assign", "struct"} /\ 1 \in Int BY <1>1
<1>8. Room(1) BY DEF AssignValue
<1> QED BY <1>1, <1>3, <1>8, <1>4, <1>5, <1>6, <1>7, AdvanceGood

\* The destination of a struct copy is parked.
LEMMA KeepsStructTarget == ASSUME IInv, StructTarget PROVE Good
<1>1. fp > 0 /\ Top.kind = "struct" /\ Top.step = 0 BY AtFacts DEF StructTarget
<1>2. Above(st, TempPush(st), 0 + 1, 0) BY BaseFact, AbovePush
<1>3. Above(st, TempPush(st), 1, 0) BY <1>2
<1>4. <<st.rax>> \in Seq(Pattern) BY StFacts, OneKept
<1>5. Advance(TempPush(st), <<st.rax>>) BY DEF StructTarget
<1>6. 1 = IF Top.kind = "compound" THEN 2 ELSE 1 BY <1>1
<1>7. Top.kind \in {"binary", "compound", "assign", "struct"} /\ 1 \in Int BY <1>1
<1>8. Room(1) BY DEF StructTarget
<1> QED BY <1>1, <1>3, <1>8, <1>4, <1>5, <1>6, <1>7, AdvanceGood

\* The address and the old value are parked.
LEMMA KeepsCompoundTarget == ASSUME IInv, CompoundTarget PROVE Good
<1> DEFINE s1 == TempPush(st)
           s2 == Set(s1, "rcx", TempPeek(s1, 0))
<1>1. fp > 0 /\ Top.kind = "compound" /\ Top.step = 0 BY AtFacts DEF CompoundTarget
<1>2. PICK old \in Value :
        Advance(TempPush(Set(s2, "rax", old)), <<st.rax, old>>)
  BY DEF CompoundTarget
<1> DEFINE s3 == Set(s2, "rax", old)
<1>3. Base(st) /\ Above(st, st, 0, 0) /\ old \in Pattern BY BaseFact, ValueIsPattern
<1>4. Above(st, s1, 0 + 1, 0) BY <1>3, AbovePush
<1>5. Above(st, s1, 1, 0) BY <1>4
<1> HIDE DEF s1
<1>6. TempPeek(s1, 0) \in Pattern BY <1>3, <1>5, AboveFacts, PeekTyped
<1>7. Above(st, s2, 1, 0) BY <1>3, <1>5, <1>6, AboveSet
<1> HIDE DEF s2
<1>8. Above(st, s3, 1, 0) BY <1>3, <1>7, AboveSet
<1> HIDE DEF s3
<1>9. Above(st, TempPush(s3), 1 + 1, 0) BY <1>3, <1>8, AbovePush
<1>10. Above(st, TempPush(s3), 2, 0) BY <1>9
<1>11. Advance(TempPush(s3), <<st.rax, old>>) BY <1>2 DEF s3
<1>12. <<st.rax, old>> \in Seq(Pattern) BY <1>3, StFacts
<1>13. 2 = IF Top.kind = "compound" THEN 2 ELSE 1 BY <1>1
<1>14. Top.kind \in {"binary", "compound", "assign", "struct"} /\ 2 \in Int BY <1>1
<1>15. Room(2) BY DEF CompoundTarget
<1> QED BY <1>1, <1>10, <1>11, <1>12, <1>13, <1>14, <1>15, AdvanceGood

\* The steps after a last operand release what the frame accounted for.
LEMMA LeaveGood ==
  ASSUME IInv, fp > 0,
         Top.kind \in {"binary", "compound", "assign", "struct", "postfix"},
         NEW s, Leave(s), NEW d \in Int, NEW e \in Int, Above(st, s, d, e),
         TempsOf(Top) + d = 0, RawOf(Top) + e = 0
  PROVE  Good
<1> DEFINE g == Top
           p == Rise(st, d) + e
<1>0. /\ TempsOf(g) + d = 0 /\ RawOf(g) + e = 0
      /\ g.kind \in {"binary", "compound", "assign", "struct", "postfix"}
  OBVIOUS
<1>1. FrameOK(g) /\ st.depth = DepthAfter(g) /\ st.pushed = PushedAfter(g)
      /\ st.spill_pending = SpillAfter(g)
  BY TopFacts
<1>2. /\ g.depth0 \in Nat /\ g.pushed0 \in Nat /\ g.spill0 \in Nat /\ g.step \in Nat
  BY <1>1 DEF FrameOK, FrameType
<1>3. Effect(st, s, d, p, 0) BY DEF Above
<1>4. Rise(st, d) \in Int
  <2>1. Base(st) BY BaseFact
  <2> QED BY <2>1, AboveFacts
<1>5. p \in Int BY <1>4
<1> HIDE DEF g
<1>6. TempsOf(g) \in Nat /\ RawOf(g) \in Nat
  <2>1. 2 * g.step \in Nat BY <1>2
  <2>2. TempsOf(g) \in Nat BY <1>2, <2>1 DEF TempsOf
  <2>3. RawOf(g) \in Nat BY <1>0 DEF RawOf
  <2> QED BY <2>2, <2>3
<1>7. st.depth + d = g.depth0 BY <1>0, <1>1, <1>2, <1>6 DEF DepthAfter
<1>8. st.spill_pending + 0 = g.spill0 BY <1>0, <1>1, <1>2 DEF SpillAfter
<1>9. st.pushed + p = g.pushed0
  <2> DEFINE a == OnStack(g.depth0)
             b == OnStack(st.depth)
  <2>1. a \in Nat /\ b \in Nat BY <1>2, StFacts, OnStackInt
  <2>2. st.pushed = g.pushed0 + (b - a) + RawOf(g) BY <1>1 DEF PushedAfter
  <2>3. Rise(st, d) = a - b BY <1>7 DEF Rise
  <2> HIDE DEF a, b
  <2>4. p = (a - b) + e BY <2>3
  <2> HIDE DEF p
  <2> QED BY <1>0, <1>2, <1>6, <2>1, <2>2, <2>4
<1> HIDE DEF p
<1>10. g.kind \notin {"ternary", "logic"} BY <1>0
<1>11. IInv' /\ LeavesAsEntered
  BY <1>3, <1>5, <1>7, <1>8, <1>9, <1>10, LeaveAction DEF g
<1>12. TableHolds
  <2>1. st.depth \in Nat /\ d <= 0 BY <1>0, <1>6, StFacts
  <2>2. Settled(s).depth = st.depth + d
    <3>1. Base(st) BY BaseFact
    <3>2. Above(st, Settled(s), d, e) BY <3>1, AboveSettled
    <3> QED BY <3>1, <3>2, AboveFacts
  <2>3. st'.depth <= st.depth BY <2>1, <2>2 DEF Leave
  <2> QED BY <2>3 DEF TableHolds
<1> QED BY <1>11, <1>12 DEF Good

\* What the innermost frame has parked is there to be taken back.
LEMMA TempsThere ==
  ASSUME IInv, fp > 0, NEW k \in Nat, TempsOf(Top) = k
  PROVE  st.depth \in Nat /\ st.depth >= k
<1>1. FrameOK(Top) /\ st.depth = DepthAfter(Top) BY TopFacts
<1>2. Top.depth0 \in Nat BY <1>1 DEF FrameOK, FrameType
<1> QED BY <1>1, <1>2 DEF DepthAfter

\* The operands are combined.
LEMMA KeepsBinaryRight == ASSUME IInv, BinaryRight PROVE Good
<1>1. fp > 0 /\ Top.kind = "binary" /\ Top.step = 1 BY AtFacts DEF BinaryRight
<1>2. PICK op \in Ops, v \in Value : Leave(TempCombine(st, op, v)) BY DEF BinaryRight
<1>3. TempsOf(Top) = 1 /\ RawOf(Top) = 0 BY <1>1 DEF TempsOf, RawOf
<1>4. st.depth \in Nat /\ st.depth >= 1 BY <1>1, <1>3, TempsThere
<1>5. st.depth + 0 > 0 BY <1>4
<1>6. Above(st, TempCombine(st, op, v), 0 - 1, 0) BY <1>5, BaseFact, AboveCombine
<1>7. TempsOf(Top) + (0 - 1) = 0 /\ RawOf(Top) + 0 = 0 /\ 0 - 1 \in Int BY <1>3
<1> QED BY <1>1, <1>2, <1>6, <1>7, LeaveGood

\* The operands are combined and the address is taken back.
LEMMA KeepsCompoundValue == ASSUME IInv, CompoundValue PROVE Good
<1>1. fp > 0 /\ Top.kind = "compound" /\ Top.step = 1 BY AtFacts DEF CompoundValue
<1>2. PICK op \in Ops, v \in Value : Leave(TempPopInto(TempCombine(st, op, v), "rcx"))
  BY DEF CompoundValue
<1> DEFINE s1 == TempCombine(st, op, v)
<1>3. TempsOf(Top) = 2 /\ RawOf(Top) = 0 BY <1>1 DEF TempsOf, RawOf
<1>4. st.depth \in Nat /\ st.depth >= 2 BY <1>1, <1>3, TempsThere
<1>5. st.depth + 0 > 0 /\ st.depth + (0 - 1) > 0 BY <1>4
<1>6. Above(st, s1, 0 - 1, 0) BY <1>5, BaseFact, AboveCombine
<1>7. Leave(TempPopInto(s1, "rcx")) BY <1>2
<1> HIDE DEF s1
<1>8. Above(st, TempPopInto(s1, "rcx"), (0 - 1) - 1, 0) BY <1>5, <1>6, BaseFact, AbovePopInto
<1>9. TempsOf(Top) + ((0 - 1) - 1) = 0 /\ RawOf(Top) + 0 = 0 /\ (0 - 1) - 1 \in Int BY <1>3
<1> QED BY <1>1, <1>7, <1>8, <1>9, LeaveGood

\* The value is taken back and stored.
LEMMA KeepsAssignTarget == ASSUME IInv, AssignTarget PROVE Good
<1> DEFINE s1 == Set(st, "rcx", st.rax)
<1>1. fp > 0 /\ Top.kind = "assign" /\ Top.step = 1 BY AtFacts DEF AssignTarget
<1>2. Leave(TempPopInto(s1, "rax")) BY DEF AssignTarget
<1>3. TempsOf(Top) = 1 /\ RawOf(Top) = 0 BY <1>1 DEF TempsOf, RawOf
<1>4. st.depth \in Nat /\ st.depth >= 1 BY <1>1, <1>3, TempsThere
<1>5. st.depth + 0 > 0 BY <1>4
<1>6. Above(st, s1, 0, 0) BY BaseFact, StFacts, AboveSet
<1> HIDE DEF s1
<1>7. Above(st, TempPopInto(s1, "rax"), 0 - 1, 0) BY <1>5, <1>6, BaseFact, AbovePopInto
<1>8. TempsOf(Top) + (0 - 1) = 0 /\ RawOf(Top) + 0 = 0 /\ 0 - 1 \in Int BY <1>3
<1> QED BY <1>1, <1>2, <1>7, <1>8, LeaveGood

\* Two temporaries are pushed, peeked at, popped and dropped.
LEMMA KeepsPostfixTarget == ASSUME IInv, PostfixTarget PROVE Good
<1> DEFINE s1 == TempPush(st)
           s2 == Set(s1, "rcx", TempPeek(s1, 0))
<1>1. fp > 0 /\ Top.kind = "postfix" /\ Top.step = 0 BY AtFacts DEF PostfixTarget
<1>2. PICK old \in Value, new \in Value :
        LET s4 == TempPush(Set(s2, "rax", old))
            s5 == Set(s4, "rax", new)
            s6 == Set(s5, "rcx", TempPeek(s5, 1))
        IN  Leave(TempDrop(TempPopInto(s6, "rax")))
  BY DEF PostfixTarget
<1> DEFINE s3 == Set(s2, "rax", old)
           s4 == TempPush(s3)
           s5 == Set(s4, "rax", new)
           s6 == Set(s5, "rcx", TempPeek(s5, 1))
           s7 == TempPopInto(s6, "rax")
<1>3. Base(st) /\ Above(st, st, 0, 0) /\ old \in Pattern /\ new \in Pattern
  BY BaseFact, ValueIsPattern
<1>4. Leave(TempDrop(s7)) BY <1>2
<1>5. Above(st, s1, 0 + 1, 0) BY <1>3, AbovePush
<1>6. Above(st, s1, 1, 0) BY <1>5
<1> HIDE DEF s1
<1>7. TempPeek(s1, 0) \in Pattern BY <1>3, <1>6, AboveFacts, PeekTyped
<1>8. Above(st, s2, 1, 0) BY <1>3, <1>6, <1>7, AboveSet
<1> HIDE DEF s2
<1>9. Above(st, s3, 1, 0) BY <1>3, <1>8, AboveSet
<1> HIDE DEF s3
<1>10. Above(st, s4, 1 + 1, 0) BY <1>3, <1>9, AbovePush
<1>11. Above(st, s4, 2, 0) BY <1>10
<1> HIDE DEF s4
<1>12. Above(st, s5, 2, 0) BY <1>3, <1>11, AboveSet
<1> HIDE DEF s5
<1>13. TempPeek(s5, 1) \in Pattern BY <1>3, <1>12, AboveFacts, PeekTyped
<1>14. Above(st, s6, 2, 0) BY <1>3, <1>12, <1>13, AboveSet
<1> HIDE DEF s6
<1>15. st.depth + 2 > 0 /\ st.depth + 1 > 0 BY StFacts
<1>16. Above(st, s7, 2 - 1, 0) BY <1>3, <1>14, <1>15, AbovePopInto
<1>17. Above(st, s7, 1, 0) BY <1>16
<1> HIDE DEF s7
<1>18. Above(st, TempDrop(s7), 1 - 1, 0) BY <1>3, <1>15, <1>17, AboveDrop
<1>19. Above(st, TempDrop(s7), 0, 0) BY <1>18
<1>20. TempsOf(Top) = 0 /\ RawOf(Top) = 0 BY <1>1 DEF TempsOf, RawOf
<1>21. TempsOf(Top) + 0 = 0 /\ RawOf(Top) + 0 = 0 BY <1>20
<1> QED BY <1>1, <1>4, <1>19, <1>21, LeaveGood

\* The destination is peeked at and popped; on Windows two words go too.
LEMMA KeepsStructCopy == ASSUME IInv, StructCopy PROVE Good
<1> DEFINE s1 == Set(st, "rcx", Junk)
           s2 == TempPopInto(s1, "rax")
           s3 == IF Windows THEN Release(s2, 2) ELSE s2
<1>1. fp > 0 /\ Top.kind = "struct" /\ Top.step = 1 BY AtFacts DEF StructCopy
<1>2. Leave(s3) BY DEF StructCopy
<1>3. TempsOf(Top) = 1 /\ RawOf(Top) = IF Windows THEN 2 ELSE 0
  BY <1>1 DEF TempsOf, RawOf
<1>4. st.depth \in Nat /\ st.depth >= 1 BY <1>1, <1>3, TempsThere
<1>5. st.depth + 0 > 0 BY <1>4
<1>6. Base(st) /\ Above(st, st, 0, 0) /\ Junk \in Pattern BY BaseFact, ValueIsPattern
<1>7. Above(st, s1, 0, 0) BY <1>6, AboveSet
<1> HIDE DEF s1
<1>8. Above(st, s2, 0 - 1, 0) BY <1>5, <1>6, <1>7, AbovePopInto
<1> HIDE DEF s2
<1>9. TempsOf(Top) + (0 - 1) = 0 /\ 0 - 1 \in Int BY <1>3
<1>10. CASE ~Windows
  <2>1. s3 = s2 /\ RawOf(Top) + 0 = 0 BY <1>3, <1>10
  <2> HIDE DEF s3
  <2>2. Above(st, s3, 0 - 1, 0) BY <1>8, <2>1
  <2> QED BY <1>1, <1>2, <1>9, <2>1, <2>2, LeaveGood
<1>11. CASE Windows
  <2>1. s3 = Release(s2, 2) /\ RawOf(Top) + (0 - 2) = 0 BY <1>3, <1>11
  <2> HIDE DEF s3
  <2>2. Shape(s2) /\ s2.pushed >= 2
    <3>1. /\ Shape(s2) /\ s2.pushed = st.pushed + (Rise(st, 0 - 1) + 0)
          /\ Rise(st, 0 - 1) = OnStack(s2.depth) - OnStack(st.depth)
          /\ s2.depth = st.depth + (0 - 1)
          /\ OnStack(s2.depth) \in Nat /\ OnStack(st.depth) \in Nat
      BY <1>6, <1>8, <1>9, AboveFacts
    <3>2. /\ FrameOK(Top) /\ st.depth = DepthAfter(Top) /\ st.pushed = PushedAfter(Top)
      BY <1>1, TopFacts
    <3>3. Top.depth0 \in Nat /\ Top.pushed0 \in Nat BY <3>2 DEF FrameOK, FrameType
    <3>4. st.depth = Top.depth0 + 1 BY <1>3, <3>2 DEF DepthAfter
    <3>5. s2.depth = Top.depth0 BY <3>1, <3>3, <3>4
    <3>6. st.pushed = Top.pushed0 + (OnStack(st.depth) - OnStack(Top.depth0)) + 2
      BY <1>3, <1>11, <3>2 DEF PushedAfter
    <3>7. s2.pushed = Top.pushed0 + 2 BY <3>1, <3>3, <3>5, <3>6
    <3> QED BY <3>1, <3>3, <3>7
  <2>3. Effect(s2, s3, 0, -2, 0) BY <2>1, <2>2, ReleaseEffect
  <2>4. Above(st, s3, 0 - 1, 0 + -2) BY <1>6, <1>8, <1>9, <2>3, AboveMove
  <2>5. Above(st, s3, 0 - 1, 0 - 2) BY <2>4
  <2>6. 0 - 2 \in Int OBVIOUS
  <2> QED BY <1>1, <1>2, <1>9, <2>1, <2>5, <2>6, LeaveGood
<1> QED BY <1>10, <1>11

\* The number of arguments passed is a number.
LEMMA KeptType == ASSUME NEW n \in Nat PROVE Kept(n) \in Nat
BY TempPoolAssumption DEF Kept

\* Giving back no words.
LEMMA ReleaseNone ==
  ASSUME NEW s, Shape(s), Live(s)
  PROVE  Shape(Release(s, 0)) /\ Release(s, 0).rsp = s.rsp /\ Live(Release(s, 0))
<1>1. s.pushed \in Nat /\ s.rsp \in Nat BY DEF Shape, StType
<1>2. PICK k \in Nat : k = 0 OBVIOUS
<1> DEFINE r == Release(s, k)
           x == -k
<1>3. k <= s.pushed BY <1>1, <1>2
<1>4. Effect(s, r, 0, x, 0) BY <1>3, ReleaseEffect
<1>5. x = 0
  <2>1. x = 0 - k OBVIOUS
  <2>2. 0 - k = 0 BY <1>2
  <2> QED BY <2>1, <2>2
<1>6. r = Release(s, 0) BY <1>2
<1> HIDE DEF r, x
<1>7. Shape(r) /\ r.skip = s.skip /\ r.rsp = s.rsp + x BY <1>4 DEF Effect
<1>8. r.rsp = s.rsp BY <1>1, <1>5, <1>7
<1>9. Live(r) BY <1>7 DEF Live
<1> QED BY <1>6, <1>7, <1>8, <1>9

\* The pad makes the words at the call instruction even.
LEMMA PadParity ==
  ASSUME NEW s, Shape(s), NEW n \in Nat, NEW padded,
         padded = IF NeedsPad(s, n) THEN 1 ELSE 0
  PROVE  /\ padded \in {0, 1} /\ StackArgs(n) \in Nat
         /\ (s.pushed + padded + StackArgs(n) + Shadow) % 2 = 0
<1>1. s.pushed \in Nat /\ Shadow \in Nat /\ NumArgRegs \in Nat
  BY TempPoolAssumption DEF Shape, StType
<1>2. StackArgs(n) \in Nat BY <1>1 DEF StackArgs
<1> DEFINE a == s.pushed + StackArgs(n) + Shadow
<1>3. a \in Nat BY <1>1, <1>2
<1>4. s.pushed + padded + StackArgs(n) + Shadow = a + padded BY <1>1, <1>2
<1>5. padded = IF a % 2 = 1 THEN 1 ELSE 0 BY DEF NeedsPad
<1> HIDE DEF a
<1>6. (a + padded) % 2 = 0 BY <1>3, <1>5
<1> QED BY <1>2, <1>4, <1>5, <1>6

\* The set-up of a call; without arguments the call itself as well.
LEMMA KeepsEnterCall == ASSUME IInv, EnterCall PROVE Good /\ CallAligned'
<1>1. PICK asked \in 0..MaxArgs :
        LET n       == Kept(asked)
            spilled == st.pool_used
            padded  == IF NeedsPad(TempSpill(st), n) THEN 1 ELSE 0
            frame   == [Entered("call", Primary) EXCEPT
                          !.n = n, !.asked = asked, !.spilled = spilled,
                          !.padded = padded]
            s       == CallSetup(st, n)
        IN  IF n > 0
            THEN CanEnter(Primary) /\ EnterWith(frame, s, "gen")
            ELSE /\ \E v \in Value : st' = Settled(CallEmit(s, 0, spilled, padded, v))
                 /\ Happened("call", <<>>, <<>>, asked, Ready(s, 0).rsp)
                 /\ mode' = "done"
                 /\ UNCHANGED frames
  BY DEF EnterCall
<1> DEFINE n == Kept(asked)
           spilled == st.pool_used
           padded == IF NeedsPad(TempSpill(st), n) THEN 1 ELSE 0
           frame == [Entered("call", Primary) EXCEPT
                       !.n = n, !.asked = asked, !.spilled = spilled, !.padded = padded]
           s == CallSetup(st, n)
<1>2. asked \in Nat BY TempPoolAssumption
<1>3. n \in Nat BY <1>2, KeptType
<1>4. /\ Shape(st) /\ Base(st) /\ spilled = Regs(st.depth) /\ spilled \in {0, 1}
      /\ st.pushed \in Nat /\ st.spill_pending \in Nat /\ st.depth \in Nat
      /\ OnStack(st.depth) \in Nat /\ OnStack(st.depth) <= st.pushed
  BY StFacts, RegsType, BaseFact
<1>5. /\ Effect(st, TempSpill(st), 0, spilled, spilled)
      /\ TempSpill(st).pushed = st.pushed + spilled /\ Shape(TempSpill(st))
  BY <1>4, SpillEffect DEF Effect
<1>6. /\ padded \in {0, 1} /\ StackArgs(n) \in Nat
      /\ (st.pushed + spilled + padded + StackArgs(n) + Shadow) % 2 = 0
  BY <1>3, <1>5, PadParity
<1>7. Effect(st, s, 0, spilled + padded, spilled) BY <1>3, <1>4, SetupEffect
<1>8. CASE n > 0
  <2>1. EnterWith(frame, s, "gen") BY <1>1, <1>8
  <2>2. NestOf(Primary) \in Nat /\ Primary \in Ranks /\ <<>> \in Seq(Pattern)
    BY RankType, NestType
  <2>3. /\ frame \in FrameType /\ frame.kind = "call" /\ frame.step = 0 /\ frame.n = n
        /\ frame.spilled = spilled /\ frame.padded = padded
        /\ frame.depth0 = st.depth /\ frame.pushed0 = st.pushed
        /\ frame.spill0 = st.spill_pending
    <3> HIDE DEF n, spilled, padded
    <3>1. "call" \in Kinds BY DEF Kinds
    <3> QED BY <1>2, <1>3, <1>4, <1>6, <2>2, <3>1 DEF Entered, FrameType
  <2> HIDE DEF frame, s, padded, spilled, n
  <2>4. FrameOK(frame) BY <1>4, <1>6, <1>8, <2>3 DEF FrameOK
  <2>5. RawOf(frame) = spilled + padded BY <1>4, <1>6, <2>3 DEF RawOf
  <2>6. Effect(st, s, 0, RawOf(frame), IF frame.kind = "call" THEN frame.spilled ELSE 0)
    BY <1>7, <2>3, <2>5
  <2>7. StartsAt(frame, st.depth, st.pushed, st.spill_pending) BY <2>3 DEF StartsAt
  <2>8. Inv(s, Append(frames, frame)) BY <2>3, <2>4, <2>6, <2>7, EnterStep, StFacts
  <2>9. IInv' BY <2>1, <2>8 DEF IInv, EnterWith
  <2>10. LeavesAsEntered BY <2>1, EnterLeaves
  <2>11. CallAligned' BY <2>1 DEF CallAligned, EnterWith, Quiet
  <2>12. TableHolds
    <3>1. s.depth = st.depth + 0 /\ st' = s BY <1>7, <2>1 DEF Effect, EnterWith
    <3> QED BY <1>4, <3>1 DEF TableHolds
  <2> QED BY <2>9, <2>10, <2>11, <2>12 DEF Good
<1>9. CASE n = 0
  <2>1. PICK v \in Value : st' = Settled(CallEmit(s, 0, spilled, padded, v))
    BY <1>1, <1>9
  <2>2. Happened("call", <<>>, <<>>, asked, Ready(s, 0).rsp) /\ UNCHANGED frames
    BY <1>1, <1>9
  <2> HIDE DEF s, padded, spilled, frame
  <2>3. /\ Shape(s) /\ s.pushed = st.pushed + (spilled + padded)
        /\ s.spill_pending = st.spill_pending + spilled
        /\ s.skip = st.skip /\ (Live(st) => s.rsp = st.rsp + (spilled + padded))
    BY <1>7 DEF Effect
  <2>4. 0 + padded + spilled <= s.pushed /\ spilled <= s.spill_pending
    BY <1>4, <1>6, <2>3
  <2>5. 0 \in Nat OBVIOUS
  <2>6. Effect(s, CallEmit(s, 0, spilled, padded, v), 0, -(0 + padded + spilled), -spilled)
    BY <1>4, <1>6, <2>3, <2>4, <2>5, CallEffect
  <2> DEFINE u == CallEmit(s, 0, spilled, padded, v)
             k == spilled + padded
             c == -(0 + padded + spilled)
             x == -spilled
  <2>7. k \in Int /\ c \in Int /\ x \in Int /\ k + c = 0 /\ spilled + x = 0 /\ spilled \in Int
    BY <1>4, <1>6
  <2>8. Effect(st, s, 0, k, spilled) /\ Effect(s, u, 0, c, x) BY <1>7, <2>6
  <2> HIDE DEF u, k, c, x
  <2>9. 0 \in Int OBVIOUS
  <2>10. Effect(st, u, 0 + 0, k + c, spilled + x)
    BY <1>4, <2>7, <2>8, <2>9, Chain, Zenon
  <2>11. Effect(st, u, 0, 0, 0) BY <2>7, <2>10
  <2>12. Effect(st, Settled(u), 0, 0, 0) BY <1>4, <2>9, <2>11, SettleAfter
  <2>13. Rise(st, 0) + 0 = 0 BY <1>4 DEF Rise
  <2>14. Above(st, Settled(u), 0, 0) BY <2>12, <2>13 DEF Above
  <2>15. Good BY <2>1, <2>2, <2>14, StayAction DEF u
  <2>16. CallAligned'
    <3>1. CASE Live(st)
      <4>1. Live(s) /\ s.rsp \in Nat /\ Shadow \in Nat /\ NumArgRegs \in Nat
        BY <2>3, <3>1, TempPoolAssumption DEF Live, Shape, StType
      <4>2. Moved(0) = 0 /\ StackArgs(0) = 0 BY <4>1 DEF Moved, StackArgs
      <4>3. st.rsp = st.pushed BY <1>4, <3>1 DEF Shape
      <4>4. Shape(Release(s, 0)) /\ Release(s, 0).rsp = s.rsp /\ Live(Release(s, 0))
        BY <2>3, <4>1, ReleaseNone
      <4>5. Ready(s, 0).rsp = s.rsp + Shadow
        <5>1. Ready(s, 0) = Grow(Release(s, 0), Shadow, Junk) BY <4>2 DEF Ready
        <5>2. Effect(Release(s, 0), Ready(s, 0), 0, Shadow, 0)
          BY <4>1, <4>4, <5>1, ValueIsPattern, GrowEffect
        <5> QED BY <4>4, <5>2 DEF Effect
      <4>6. Ready(s, 0).rsp = st.pushed + spilled + padded + 0 + Shadow
        <5>1. s.rsp = st.pushed + (spilled + padded) BY <2>3, <3>1, <4>3
        <5>2. \A y1, y2, y3, y4 \in Nat : (y1 + (y2 + y3)) + y4 = y1 + y2 + y3 + 0 + y4 OBVIOUS
        <5>3. spilled \in Nat /\ padded \in Nat BY <1>4, <1>6
        <5> QED BY <1>4, <4>1, <4>5, <5>1, <5>2, <5>3
      <4>7. Ready(s, 0).rsp % 2 = 0 BY <1>6, <1>9, <4>2, <4>6
      <4> QED BY <2>2, <4>7 DEF CallAligned, Happened, Quiet
    <3>2. CASE ~Live(st)
      BY <2>2, <3>2 DEF CallAligned, Happened, Quiet
    <3> QED BY <3>1, <3>2
  <2> QED BY <2>15, <2>16
<1> HIDE DEF n
<1>10. n > 0 \/ n = 0 BY <1>3
<1> QED BY <1>8, <1>9, <1>10

\* An argument is pushed.
LEMMA KeepsCallArg == ASSUME IInv, CallArg PROVE Good
<1>1. fp > 0 /\ Top.kind = "call" /\ Top.step + 1 < Top.n BY AtFacts DEF CallArg
<1>2. Advance(Pushq(st, st.rax), <<st.rax>>) BY DEF CallArg
<1>3. Effect(st, Pushq(st, st.rax), 0, 1, 0) BY StFacts, GrowEffect DEF Pushq
<1>4. <<st.rax>> \in Seq(Pattern) BY StFacts, OneKept
<1>5. st.depth + 0 = st.depth /\ OnStack(st.depth) \in Nat BY StFacts
<1>6. 1 = OnStack(st.depth + 0) - OnStack(st.depth) + (IF Top.kind = "call" THEN 1 ELSE 0)
  BY <1>1, <1>5
<1>7. 0 = IF Top.kind = "compound" THEN 2 ELSE IF Top.kind = "call" THEN 0 ELSE 1
  BY <1>1
<1>8. Top.kind \in {"binary", "compound", "assign", "struct", "call"} /\ 0 \in Int /\ 1 \in Int
  BY <1>1
<1>9. IInv' BY <1>1, <1>2, <1>3, <1>4, <1>6, <1>7, <1>8, AdvanceAction
<1>10. fp \in Nat /\ frames \in Seq(FrameType) BY DEF IInv, Inv, Nested, fp
<1>11. Len(frames') = fp BY <1>10, <1>2 DEF Advance, fp
<1>12. LeavesAsEntered BY <1>10, <1>11 DEF LeavesAsEntered
<1>13. TableHolds
  <2>1. Shape(st) /\ st.depth \in Nat BY StFacts
  <2>2. Effect(st, Settled(Pushq(st, st.rax)), 0, 1, 0) BY <1>3, <1>8, <2>1, SettleAfter
  <2>3. st'.depth = st.depth + 0 BY <1>2, <2>2 DEF Advance, Effect
  <2> QED BY <2>1, <2>3 DEF TableHolds
<1> QED BY <1>9, <1>12, <1>13 DEF Good

\* The last argument is pushed and the call is made, %rsp aligned.
LEMMA KeepsCallLastArg == ASSUME IInv, CallLastArg PROVE Good /\ CallAligned'
<1> DEFINE g == Top
           n == g.n
           s == Pushq(st, st.rax)
           spilled == g.spilled
           padded == g.padded
<1>1. fp > 0 /\ g.kind = "call" /\ g.step + 1 = n BY AtFacts DEF CallLastArg
<1>2. PICK v \in Value : Leave(CallEmit(s, n, spilled, padded, v)) BY DEF CallLastArg
<1>3. Happened("call", [k \in 1..n |-> Passed(s, n, n - k)],
               Append(g.held, st.rax), g.asked, Ready(s, n).rsp)
  BY DEF CallLastArg
<1>4. FrameOK(g) /\ st.depth = DepthAfter(g) /\ st.pushed = PushedAfter(g)
      /\ st.spill_pending = SpillAfter(g)
  BY <1>1, TopFacts
<1>5. g.depth0 \in Nat /\ g.pushed0 \in Nat /\ g.spill0 \in Nat /\ g.step \in Nat /\ n \in Nat
      /\ spilled \in {0, 1} /\ padded \in {0, 1}
      /\ (g.pushed0 + spilled + padded + StackArgs(n) + Shadow) % 2 = 0
  BY <1>1, <1>4 DEF FrameOK, FrameType
<1>6. Shape(st) /\ st.rax \in Pattern /\ st.pushed \in Nat /\ st.spill_pending \in Nat
  BY StFacts
<1>7. Effect(st, s, 0, 1, 0) BY <1>6, GrowEffect DEF Pushq
<1> HIDE DEF g, s
<1>8. TempsOf(g) = 0 /\ RawOf(g) = spilled + padded + g.step BY <1>1 DEF TempsOf, RawOf
<1>9. st.depth = g.depth0 BY <1>4, <1>5, <1>8 DEF DepthAfter
<1>10. OnStack(g.depth0) \in Nat BY <1>5, OnStackInt
<1>11. st.pushed = g.pushed0 + (spilled + padded + g.step)
  BY <1>4, <1>5, <1>8, <1>9, <1>10 DEF PushedAfter
<1>12. st.spill_pending = g.spill0 + spilled BY <1>1, <1>4 DEF SpillAfter
<1>13. /\ Shape(s) /\ s.pushed = st.pushed + 1 /\ s.spill_pending = st.spill_pending + 0
       /\ s.skip = st.skip /\ (Live(st) => s.rsp = st.rsp + 1)
  BY <1>7 DEF Effect
<1> HIDE DEF n, spilled, padded
<1>14. s.pushed = g.pushed0 + (spilled + padded + n)
  BY <1>1, <1>5, <1>11, <1>13
<1>15. n + padded + spilled <= s.pushed BY <1>5, <1>14
<1>16. spilled <= s.spill_pending BY <1>5, <1>6, <1>12, <1>13
<1>17. Effect(s, CallEmit(s, n, spilled, padded, v), 0, -(n + padded + spilled), -spilled)
  BY <1>5, <1>13, <1>15, <1>16, CallEffect
<1> DEFINE u == CallEmit(s, n, spilled, padded, v)
           c == -(n + padded + spilled)
           x == -spilled
<1>18. Effect(s, u, 0, c, x) BY <1>17
<1>19. c \in Int /\ x \in Int /\ 0 \in Int /\ 1 \in Int BY <1>5
<1>20. g.pushed0 + (spilled + padded + n) + c = g.pushed0 BY <1>5
<1>21. g.spill0 + spilled + x = g.spill0 BY <1>5
<1>22. Leave(u) BY <1>2
<1> HIDE DEF u, c, x
<1>23. Effect(st, u, 0 + 0, 1 + c, 0 + x) BY <1>6, <1>7, <1>18, <1>19, Chain, Zenon
<1>24. Effect(st, u, 0, 1 + c, x) /\ 1 + c \in Int BY <1>19, <1>23
<1>25. st.depth + 0 = g.depth0 BY <1>5, <1>9
<1>26. st.pushed + (1 + c) = g.pushed0
  <2>1. st.pushed + (1 + c) = s.pushed + c BY <1>6, <1>13, <1>19
  <2> QED BY <1>14, <1>20, <2>1
<1>27. st.spill_pending + x = g.spill0 BY <1>12, <1>21
<1>28. g.kind \notin {"ternary", "logic"} BY <1>1
<1>29. IInv' /\ LeavesAsEntered
  BY <1>1, <1>19, <1>22, <1>24, <1>25, <1>26, <1>27, <1>28, LeaveAction DEF g
<1>30. CallAligned'
  <2>1. CASE ~Live(st) BY <1>3, <2>1 DEF CallAligned, Happened, Quiet
  <2>2. CASE Live(st)
    <3>1. Live(s) /\ s.rsp \in Nat /\ Shadow \in Nat /\ NumArgRegs \in Nat
      BY <1>13, <2>2, TempPoolAssumption DEF Live, Shape, StType
    <3>2. Moved(n) \in Nat /\ Moved(n) <= n /\ n = Moved(n) + StackArgs(n)
          /\ StackArgs(n) \in Nat
      BY <1>5, <3>1 DEF Moved, StackArgs
    <3>3. s.rsp = s.pushed BY <1>13, <3>1 DEF Shape
    <3> DEFINE w == Moved(n)
               r == Release(s, w)
               y == -w
    <3>4. w \in Nat /\ w <= s.pushed BY <1>5, <1>14, <3>2
    <3>5. Effect(s, r, 0, y, 0) BY <1>13, <3>4, ReleaseEffect
    <3>6. Effect(r, Ready(s, n), 0, Shadow, 0)
      BY <3>1, <3>5, ValueIsPattern, GrowEffect DEF Ready, Effect
    <3>7. y = 0 - w BY <3>4
    <3> HIDE DEF w, r, y
    <3>8. r.rsp = s.rsp + y /\ r.skip = s.skip BY <3>1, <3>5 DEF Effect
    <3>9. Ready(s, n).rsp = r.rsp + Shadow BY <3>1, <3>6, <3>8 DEF Effect, Live
    <3>10. Ready(s, n).rsp = g.pushed0 + spilled + padded + StackArgs(n) + Shadow
      <4>1. n = w + StackArgs(n) /\ StackArgs(n) \in Nat BY <3>2 DEF w
      <4>2. s.rsp + (0 - w) = g.pushed0 + spilled + padded + StackArgs(n)
        BY <1>5, <1>14, <3>3, <3>4, <4>1
      <4> QED BY <3>7, <3>8, <3>9, <4>2
    <3> QED BY <1>3, <1>5, <3>10 DEF CallAligned, Happened, Quiet
  <2> QED BY <2>1, <2>2
<1>31. TableHolds
  <2>1. Effect(st, Settled(u), 0, 1 + c, x) BY <1>6, <1>19, <1>24, SettleAfter
  <2>2. st'.depth = st.depth + 0 BY <1>22, <2>1 DEF Leave, Effect
  <2> QED BY <1>5, <1>9, <2>2 DEF TableHolds
<1> QED BY <1>29, <1>30, <1>31 DEF Good

\* Going on with the innermost frame keeps the others.
LEMMA ArmSameLength ==
  ASSUME IInv, NEW k, frames' = [frames EXCEPT ![fp].step = k] PROVE LeavesAsEntered
<1>1. fp \in Nat /\ frames \in Seq(FrameType) BY DEF IInv, Inv, Nested, fp
<1>2. Len(frames') = fp BY <1>1 DEF fp
<1> QED BY <1>1, <1>2 DEF LeavesAsEntered

\* The conditional constructs, seen as moves of the jump's target.
LEMMA ArmAdvanceAction ==
  ASSUME IInv, fp > 0, Top.kind \in {"ternary", "logic"},
         NEW k \in {1, 2}, Top.kind = "logic" => k = 1,
         frames' = [frames EXCEPT ![fp].step = k],
         NEW z, st' = [st EXCEPT !.skip = z],
         \/ z = st.skip /\ st.skip /= fp
         \/ z = fp /\ Live(st)
         \/ z = 0 /\ st.skip = fp
  PROVE  Good
<1>1. Inv(st, frames) BY StFacts
<1>2. Inv([st EXCEPT !.skip = z], [frames EXCEPT ![Len(frames)].step = k])
  BY <1>1, ArmAdvance DEF fp, Top
<1>3. IInv' BY <1>2 DEF IInv, fp
<1>4. LeavesAsEntered BY ArmSameLength
<1>5. st'.depth = st.depth /\ st.depth \in Nat
  <2>1. st \in StType BY StFacts DEF Shape
  <2> QED BY <2>1 DEF StType
<1>6. TableHolds BY <1>5 DEF TableHolds
<1> QED BY <1>3, <1>4, <1>6 DEF Good

\* The end of a conditional construct.
LEMMA ArmLeaveAction ==
  ASSUME IInv, fp > 0, Top.kind \in {"ternary", "logic"},
         NEW t, t = [st EXCEPT !.skip = IF @ = fp THEN 0 ELSE @],
         NEW u, Effect(t, u, 0, 0, 0), Leave(u)
  PROVE  Good
<1> DEFINE gs == SubSeq(frames, 1, Len(frames) - 1)
           g == frames[Len(frames)]
<1>1. Inv(st, frames) BY StFacts
<1>2. t = [st EXCEPT !.skip = IF st.skip = Len(frames) THEN 0 ELSE st.skip]
  BY DEF fp
<1>3. Inv(t, gs) /\ Counted(t, g.depth0, g.pushed0, g.spill0)
  BY <1>1, <1>2, ArmLeave DEF fp, Top
<1>4. Shape(t) BY <1>3 DEF Inv
<1>5. 0 \in Int OBVIOUS
<1>6. Effect(t, Settled(u), 0, 0, 0) BY <1>4, <1>5, SettleAfter
<1>7. Inv(Settled(u), gs) BY <1>3, <1>6, StayKeeps
<1>8. st' = Settled(u) /\ frames' = gs BY DEF Leave, fp
<1>9. IInv' BY <1>7, <1>8 DEF IInv
<1>10. t.depth \in Nat /\ t.pushed \in Nat /\ t.spill_pending \in Nat
  BY <1>4 DEF Shape, StType
<1>11. Counted(Settled(u), g.depth0, g.pushed0, g.spill0)
  <2>1. /\ Settled(u).depth = t.depth + 0 /\ Settled(u).pushed = t.pushed + 0
        /\ Settled(u).spill_pending = t.spill_pending + 0
    BY <1>6 DEF Effect
  <2>2. /\ Settled(u).depth = t.depth /\ Settled(u).pushed = t.pushed
        /\ Settled(u).spill_pending = t.spill_pending
    BY <1>10, <2>1
  <2> QED BY <1>3, <2>2 DEF Counted
<1>12. LeavesAsEntered BY <1>8, <1>11 DEF LeavesAsEntered, Counted, Top, fp
<1>13. TableHolds
  <2>1. g.depth0 = st.depth /\ st.depth \in Nat
    BY <1>1, StFacts, ArmLevel DEF Counted, Top, fp
  <2> QED BY <1>8, <1>11, <2>1 DEF TableHolds, Counted
<1> QED BY <1>9, <1>12, <1>13 DEF Good

\* Whether the machine is running.
LEMMA SkipCases ==
  ASSUME IInv, fp > 0
  PROVE  st.skip \in Nat /\ fp \in Nat /\ (Live(st) <=> st.skip = 0)
BY StFacts, TopFacts DEF Live, Shape, StType

\* From the condition into the first arm.
LEMMA KeepsTernaryCond == ASSUME IInv, TernaryCond PROVE Good
<1>1. fp > 0 /\ Top.kind = "ternary" /\ Top.step = 0 BY AtFacts DEF TernaryCond
<1>2. PICK taken \in 1..2 :
        st' = [st EXCEPT !.skip = IF Live(st) /\ taken = 2 THEN fp ELSE @]
  BY DEF TernaryCond
<1> DEFINE z == IF Live(st) /\ taken = 2 THEN fp ELSE st.skip
<1>3. st' = [st EXCEPT !.skip = z] BY <1>2
<1>4. st.skip /= fp
  <2>1. st.skip = fp => Top.step >= 1
    <3>1. Skipping(st, frames) BY DEF IInv, Inv
    <3> QED BY <1>1, <3>1 DEF Skipping, fp, Top
  <2> QED BY <1>1, <2>1
<1>5. (z = st.skip /\ st.skip /= fp) \/ (z = fp /\ Live(st))
  <2>1. CASE Live(st) /\ taken = 2 BY <2>1
  <2>2. CASE ~(Live(st) /\ taken = 2)
    <3>1. z = st.skip BY <2>2, Zenon
    <3> QED BY <1>4, <3>1, Zenon
  <2> QED BY <2>1, <2>2, Zenon
<1>6. frames' = [frames EXCEPT ![fp].step = 1] BY DEF TernaryCond
<1>7. Top.kind \in {"ternary", "logic"} /\ 1 \in {1, 2} BY <1>1
<1> HIDE DEF z
<1> QED BY <1>1, <1>3, <1>5, <1>6, <1>7, ArmAdvanceAction

\* From the first arm into the second.
LEMMA KeepsTernaryThen == ASSUME IInv, TernaryThen PROVE Good
<1>1. fp > 0 /\ Top.kind = "ternary" /\ Top.step = 1 BY AtFacts DEF TernaryThen
<1> DEFINE z == IF st.skip = fp THEN 0 ELSE IF Live(st) THEN fp ELSE st.skip
<1>2. st' = [st EXCEPT !.skip = z] BY DEF TernaryThen
<1>3. \/ z = st.skip /\ st.skip /= fp
      \/ z = fp /\ Live(st)
      \/ z = 0 /\ st.skip = fp
  OBVIOUS
<1>4. frames' = [frames EXCEPT ![fp].step = 2] BY DEF TernaryThen
<1>5. Top.kind \in {"ternary", "logic"} /\ 2 \in {1, 2} /\ Top.kind /= "logic" BY <1>1
<1> HIDE DEF z
<1> QED BY <1>1, <1>2, <1>3, <1>4, <1>5, ArmAdvanceAction

\* Both arms left the counters alike, so the machine resumes in step.
LEMMA KeepsTernaryElse == ASSUME IInv, TernaryElse PROVE Good
<1> DEFINE t == [st EXCEPT !.skip = IF @ = fp THEN 0 ELSE @]
<1>1. fp > 0 /\ Top.kind = "ternary" BY AtFacts DEF TernaryElse
<1>2. Leave(t) BY DEF TernaryElse
<1>3. Top.kind \in {"ternary", "logic"} BY <1>1
<1>4. Effect(t, t, 0, 0, 0)
  <2>1. t = [st EXCEPT !.skip = IF st.skip = Len(frames) THEN 0 ELSE st.skip] BY DEF fp
  <2>2. Inv(t, SubSeq(frames, 1, Len(frames) - 1))
    BY <1>1, <1>3, <2>1, StFacts, ArmLeave DEF fp, Top
  <2> QED BY <2>2, Idle DEF Inv
<1> HIDE DEF t
<1>5. t = [st EXCEPT !.skip = IF @ = fp THEN 0 ELSE @] BY DEF t
<1> QED BY <1>1, <1>2, <1>3, <1>4, <1>5, ArmLeaveAction

\* From the left operand of && or || to the right one.
LEMMA KeepsLogicLeft == ASSUME IInv, LogicLeft PROVE Good
<1>1. fp > 0 /\ Top.kind = "logic" /\ Top.step = 0 BY AtFacts DEF LogicLeft
<1>2. PICK skipped \in BOOLEAN :
        st' = [st EXCEPT !.skip = IF Live(st) /\ skipped THEN fp ELSE @]
  BY DEF LogicLeft
<1> DEFINE z == IF Live(st) /\ skipped THEN fp ELSE st.skip
<1>3. st' = [st EXCEPT !.skip = z] BY <1>2
<1>4. st.skip /= fp
  <2>1. st.skip = fp => Top.step >= 1
    <3>1. Skipping(st, frames) BY DEF IInv, Inv
    <3> QED BY <1>1, <3>1 DEF Skipping, fp, Top
  <2> QED BY <1>1, <2>1
<1>5. (z = st.skip /\ st.skip /= fp) \/ (z = fp /\ Live(st))
  <2>1. CASE Live(st) /\ skipped BY <2>1
  <2>2. CASE ~(Live(st) /\ skipped)
    <3>1. z = st.skip BY <2>2, Zenon
    <3> QED BY <1>4, <3>1, Zenon
  <2> QED BY <2>1, <2>2, Zenon
<1>6. frames' = [frames EXCEPT ![fp].step = 1] BY DEF LogicLeft
<1>7. Top.kind \in {"ternary", "logic"} /\ 1 \in {1, 2} BY <1>1
<1> HIDE DEF z
<1> QED BY <1>1, <1>3, <1>5, <1>6, <1>7, ArmAdvanceAction

\* The end of && and ||.
LEMMA KeepsLogicRight == ASSUME IInv, LogicRight PROVE Good
<1> DEFINE t == [st EXCEPT !.skip = IF @ = fp THEN 0 ELSE @]
<1>1. fp > 0 /\ Top.kind = "logic" BY AtFacts DEF LogicRight
<1>2. PICK v \in Value : Leave(Set(t, "rax", v)) BY DEF LogicRight
<1>3. Top.kind \in {"ternary", "logic"} BY <1>1
<1>4. Effect(t, Set(t, "rax", v), 0, 0, 0)
  <2>1. t = [st EXCEPT !.skip = IF st.skip = Len(frames) THEN 0 ELSE st.skip] BY DEF fp
  <2>2. Inv(t, SubSeq(frames, 1, Len(frames) - 1))
    BY <1>1, <1>3, <2>1, StFacts, ArmLeave DEF fp, Top
  <2> HIDE DEF t
  <2>3. Shape(t) BY <2>2 DEF Inv
  <2> QED BY <2>3, ValueIsPattern, SetEffect
<1> HIDE DEF t
<1>5. t = [st EXCEPT !.skip = IF @ = fp THEN 0 ELSE @] BY DEF t
<1> QED BY <1>1, <1>2, <1>3, <1>4, <1>5, ArmLeaveAction

\* With nothing pending nothing is parked.
LEMMA Empty ==
  ASSUME IInv, fp = 0
  PROVE  /\ Counted(st, 0, 0, 0) /\ st.skip = 0 /\ Live(st) /\ st.rsp = 0
         /\ st.pool_used = 0 /\ Len(frames) = 0
<1>1. Len(frames) = 0 BY DEF fp
<1>2. Counted(st, 0, 0, 0) BY <1>1 DEF IInv, Inv, Current
<1>3. st.skip = 0 BY <1>1 DEF IInv, Inv, Skipping
<1>4. Live(st) BY <1>3 DEF Live
<1>5. st.rsp = 0 BY <1>2, <1>4 DEF IInv, Inv, Shape, Counted
<1>6. st.pool_used = 0 BY <1>2 DEF IInv, Inv, Shape, Counted, Regs
<1> QED BY <1>1, <1>2, <1>3, <1>4, <1>5, <1>6

\* So the reset in gen_func() loses no word.
LEMMA KeepsEndStatement == ASSUME IInv, EndStatement PROVE Good
<1>1. fp = 0 /\ UNCHANGED frames BY DEF EndStatement
<1>2. CASE st' = st BY <1>1, <1>2, BaseFact, StayAction
<1>3. CASE st' = [st EXCEPT !.temps = <<>>, !.depth = 0, !.pool_used = 0,
                            !.spill_pending = 0, !.mem = <<>>, !.rsp = 0]
  <2> DEFINE t == [st EXCEPT !.temps = <<>>, !.depth = 0, !.pool_used = 0,
                             !.spill_pending = 0, !.mem = <<>>, !.rsp = 0]
  <2>1. Shape(st) /\ st \in StType BY StFacts DEF Shape
  <2>2. /\ Counted(st, 0, 0, 0) /\ st.skip = 0 /\ st.rsp = 0 BY <1>1, Empty
  <2>3. /\ t.temps = <<>> /\ t.depth = 0 /\ t.pool_used = 0 /\ t.spill_pending = 0
        /\ t.mem = <<>> /\ t.rsp = 0 /\ t.pushed = st.pushed /\ t.skip = st.skip
    BY <2>1 DEF StType
  <2>4. <<>> \in [1..0 -> EntryType] /\ <<>> \in [1..0 -> Pattern] OBVIOUS
  <2>5. <<>> \in Stack(EntryType) /\ <<>> \in Stack(Pattern)
    BY <2>4, StackIntro
  <2>6. t \in StType BY <2>1, <2>5 DEF StType
  <2> HIDE DEF t
  <2>7. Shape(t)
    <3>1. st.pushed = 0 BY <2>2 DEF Counted
    <3>2. Regs(0) = 0 BY DEF Regs
    <3>3. \A i \in 1..t.depth : t.temps[i].is_reg <=> (Optimize /\ i = 1) BY <2>3
    <3> QED BY <2>3, <2>4, <2>6, <3>1, <3>2, <3>3 DEF Shape
  <2>8. Effect(st, t, 0, 0, 0) BY <2>2, <2>3, <2>7 DEF Effect, Counted
  <2>9. Inv(t, frames) BY <2>8, StFacts, StayKeeps
  <2>10. IInv' BY <1>1, <1>3, <2>9 DEF IInv, t
  <2>11. LeavesAsEntered BY <1>1 DEF LeavesAsEntered
  <2>12. TableHolds
    <3>1. t.depth = st.depth BY <2>2, <2>3 DEF Counted
    <3>2. st.depth \in Nat BY StFacts
    <3> QED BY <1>3, <3>1, <3>2 DEF TableHolds, t
  <2> QED BY <2>10, <2>11, <2>12 DEF Good
<1> QED BY <1>2, <1>3 DEF EndStatement

\* A step of the mode alone.
LEMMA KeepsStutter == ASSUME IInv, UNCHANGED <<st, frames>> PROVE Good
BY BaseFact, StayAction

\* The invariant holds at the start.
LEMMA InitInv == Init => IInv
<1> SUFFICES ASSUME Init PROVE IInv OBVIOUS
<1>1. PICK v \in Value :
       st = [temps |-> <<>>, depth |-> 0, pool_used |-> 0, spill_pending |-> 0,
             pushed |-> 0, rax |-> v, rcx |-> Junk, r10 |-> Junk,
             mem |-> <<>>, rsp |-> 0, skip |-> 0]
  BY DEF Init
<1>2. frames = <<>> BY DEF Init
<1>3. <<>> \in [1..0 -> EntryType] /\ <<>> \in [1..0 -> Pattern] OBVIOUS
<1>4. <<>> \in Stack(EntryType) /\ <<>> \in Stack(Pattern) BY <1>3, StackIntro
<1>5. v \in Pattern /\ Junk \in Pattern BY ValueIsPattern
<1>6. st \in StType BY <1>1, <1>4, <1>5 DEF StType
<1>7. /\ st.temps = <<>> /\ st.depth = 0 /\ st.pool_used = 0 /\ st.spill_pending = 0
      /\ st.mem = <<>> /\ st.rsp = 0 /\ st.pushed = 0 /\ st.skip = 0
  BY <1>1
<1>8. Shape(st) BY <1>3, <1>6, <1>7 DEF Shape, Regs
<1>9. Len(frames) = 0 /\ frames \in Seq(FrameType) BY <1>2
<1>10. Nested(frames) BY <1>9 DEF Nested
<1>11. Current(st, frames) BY <1>7, <1>9 DEF Current, Counted
<1>12. Skipping(st, frames) BY <1>7, <1>9 DEF Skipping
<1> QED BY <1>8, <1>10, <1>11, <1>12 DEF IInv, Inv

\* Only a call is required to be aligned.
LEMMA HappenedKind ==
  ASSUME NEW kind \in {"postfix", "binary", "compound", "assign", "struct"},
         NEW got, NEW want, NEW asked, NEW rsp, Happened(kind, got, want, asked, rsp)
  PROVE  CallAligned'
BY DEF Happened, Quiet, CallAligned

\* A step that performs no operation.
LEMMA QuietAligned == ASSUME event' = Quiet PROVE CallAligned'
BY DEF Quiet, CallAligned

\* Every step preserves the invariant and leaves a construct as it was entered.
LEMMA StepGood ==
  ASSUME IInv, CallAligned, [Next]_vars
  PROVE  Good /\ CallAligned'
<1>1. CASE GenLeaf
  BY <1>1, KeepsLeaf, QuietAligned DEF GenLeaf
<1>2. CASE GenPostfixVar
  <2>1. CallAligned' BY <1>2, HappenedKind DEF GenPostfixVar
  <2> QED BY <1>2, <2>1, KeepsPostfixVar
<1>3. CASE CommaLeft
  BY <1>3, KeepsCommaLeft, QuietAligned DEF CommaLeft
<1>4. CASE EnterBinary \/ EnterCompound \/ EnterAssign \/ EnterPostfix
           \/ EnterTernary \/ EnterLogic
  <2>1. event' = Quiet
    BY <1>4 DEF EnterBinary, EnterCompound, EnterAssign, EnterPostfix, EnterTernary,
                EnterLogic, Enter, EnterWith
  <2> QED BY <1>4, <2>1, KeepsEnter, QuietAligned
<1>5. CASE EnterStruct
  BY <1>5, KeepsEnterStruct, QuietAligned DEF EnterStruct, EnterWith
<1>6. CASE EnterCall BY <1>6, KeepsEnterCall
<1>7. CASE BinaryLeft BY <1>7, KeepsBinaryLeft, QuietAligned DEF BinaryLeft, Advance
<1>8. CASE BinaryRight
  <2>1. CallAligned' BY <1>8, HappenedKind DEF BinaryRight
  <2> QED BY <1>8, <2>1, KeepsBinaryRight
<1>9. CASE CompoundTarget
  BY <1>9, KeepsCompoundTarget, QuietAligned DEF CompoundTarget, Advance
<1>10. CASE CompoundValue
  <2>1. CallAligned' BY <1>10, HappenedKind DEF CompoundValue
  <2> QED BY <1>10, <2>1, KeepsCompoundValue
<1>11. CASE AssignValue BY <1>11, KeepsAssignValue, QuietAligned DEF AssignValue, Advance
<1>12. CASE AssignTarget
  <2>1. CallAligned' BY <1>12, HappenedKind DEF AssignTarget
  <2> QED BY <1>12, <2>1, KeepsAssignTarget
<1>13. CASE StructTarget
  BY <1>13, KeepsStructTarget, QuietAligned DEF StructTarget, Advance
<1>14. CASE StructCopy
  <2>1. CallAligned' BY <1>14, HappenedKind DEF StructCopy
  <2> QED BY <1>14, <2>1, KeepsStructCopy
<1>15. CASE PostfixTarget
  <2>1. CallAligned' BY <1>15, HappenedKind DEF PostfixTarget
  <2> QED BY <1>15, <2>1, KeepsPostfixTarget
<1>16. CASE CallArg BY <1>16, KeepsCallArg, QuietAligned DEF CallArg, Advance
<1>17. CASE CallLastArg BY <1>17, KeepsCallLastArg
<1>18. CASE TernaryCond BY <1>18, KeepsTernaryCond, QuietAligned DEF TernaryCond
<1>19. CASE TernaryThen BY <1>19, KeepsTernaryThen, QuietAligned DEF TernaryThen
<1>20. CASE TernaryElse BY <1>20, KeepsTernaryElse, QuietAligned DEF TernaryElse
<1>21. CASE LogicLeft BY <1>21, KeepsLogicLeft, QuietAligned DEF LogicLeft
<1>22. CASE LogicRight BY <1>22, KeepsLogicRight, QuietAligned DEF LogicRight
<1>23. CASE EndStatement BY <1>23, KeepsEndStatement, QuietAligned DEF EndStatement
<1>24. CASE TempExhausted BY <1>24, KeepsStutter, QuietAligned DEF TempExhausted
<1>25. CASE Discarded \/ UNCHANGED vars
  <2>1. UNCHANGED <<st, frames>> /\ event' = event BY <1>25 DEF Discarded, vars
  <2>2. CallAligned' BY <2>1 DEF CallAligned
  <2> QED BY <2>1, <2>2, KeepsStutter
<1> QED
  BY <1>1, <1>2, <1>3, <1>4, <1>5, <1>6, <1>7, <1>8, <1>9, <1>10, <1>11, <1>12, <1>13,
     <1>14, <1>15, <1>16, <1>17, <1>18, <1>19, <1>20, <1>21, <1>22, <1>23, <1>24, <1>25
     DEF Next

\* How far the recursion is explored, and the three modes.
Bounded == st.depth <= TempMax /\ fp <= MaxFrames
           /\ mode \in {"gen", "done", "failed"}

\* They are preserved: the guards of the entering actions and of temp_push().
LEMMA StepBounded ==
  ASSUME IInv, Good, Bounded, [Next]_vars
  PROVE  Bounded'
<1>1. st.depth \in Nat /\ st'.depth \in Nat /\ fp \in Nat /\ Len(frames') \in Nat
      /\ frames \in Seq(FrameType)
  BY DEF Good, IInv, Inv, Nested, fp, Shape, StType
<1>2. TempMax \in Nat /\ MaxFrames \in Nat BY TempPoolAssumption
<1>3. st'.depth <= TempMax BY <1>1, <1>2 DEF Good, TableHolds, Bounded
<1>4. Len(frames') <= MaxFrames
  <2>1. CASE \E f, s, m : fp < MaxFrames /\ EnterWith(f, s, m)
    <3>1. PICK f, s, m : fp < MaxFrames /\ EnterWith(f, s, m) BY <2>1
    <3>2. Len(frames') = fp + 1 BY <1>1, <3>1 DEF EnterWith, fp
    <3> QED BY <1>1, <1>2, <3>1, <3>2
  <2>2. CASE Len(frames') <= fp BY <1>1, <1>2, <2>2 DEF Bounded
  <2>3. (\E f, s, m : fp < MaxFrames /\ EnterWith(f, s, m)) \/ Len(frames') <= fp
    <3>1. CASE EnterBinary \/ EnterCompound \/ EnterAssign \/ EnterPostfix
               \/ EnterTernary \/ EnterLogic \/ EnterStruct
      BY <3>1 DEF EnterBinary, EnterCompound, EnterAssign, EnterPostfix, EnterTernary,
                  EnterLogic, EnterStruct, Enter, CanEnter
    <3>2. CASE EnterCall
      <4>1. (\E f, s, m : fp < MaxFrames /\ EnterWith(f, s, m)) \/ UNCHANGED frames
        BY <3>2 DEF EnterCall
      <4> QED BY <1>1, <4>1 DEF fp
    <3>3. CASE \E k : frames' = [frames EXCEPT ![fp].step = k]
      <4>1. Len(frames') = fp BY <1>1, <3>3 DEF fp
      <4> QED BY <1>1, <4>1
    <3>4. CASE TernaryCond \/ TernaryThen \/ LogicLeft
      BY <3>3, <3>4 DEF TernaryCond, TernaryThen, LogicLeft
    <3>5. CASE \E s, kept : Advance(s, kept)
      <4>1. Len(frames') = fp BY <1>1, <3>5 DEF Advance, fp
      <4> QED BY <1>1, <4>1
    <3>6. CASE BinaryLeft \/ CompoundTarget \/ AssignValue \/ StructTarget \/ CallArg
      BY <3>5, <3>6 DEF BinaryLeft, CompoundTarget, AssignValue, StructTarget, CallArg
    <3>7. CASE fp > 0 /\ \E s : Leave(s)
      <4>1. Len(SubSeq(frames, 1, Len(frames) - 1)) = fp - 1
        BY <1>1, <3>7, ButLast DEF fp
      <4>2. Len(frames') = fp - 1 BY <3>7, <4>1 DEF Leave, fp
      <4> QED BY <1>1, <4>2
    <3>8. CASE BinaryRight \/ CompoundValue \/ AssignTarget \/ StructCopy
               \/ PostfixTarget \/ CallLastArg \/ TernaryElse \/ LogicRight
      BY <3>7, <3>8 DEF BinaryRight, CompoundValue, AssignTarget, StructCopy,
         PostfixTarget, CallLastArg, TernaryElse, LogicRight, At
    <3>9. CASE UNCHANGED frames BY <1>1, <3>9 DEF fp
    <3>10. CASE GenLeaf \/ GenPostfixVar \/ CommaLeft \/ EndStatement \/ TempExhausted
                \/ Discarded \/ UNCHANGED vars
      BY <3>9, <3>10 DEF GenLeaf, GenPostfixVar, CommaLeft, EndStatement, TempExhausted,
         Discarded, vars
    <3> QED BY <3>1, <3>2, <3>4, <3>6, <3>8, <3>10 DEF Next
  <2> QED BY <2>1, <2>2, <2>3
<1>5. mode' \in {"gen", "done", "failed"}
  <2>1. CASE UNCHANGED mode BY <2>1 DEF Bounded
  <2>2. mode' \in {"gen", "done", "failed"} \/ UNCHANGED mode
    BY DEF Next, GenLeaf, GenPostfixVar, CommaLeft, EnterBinary, BinaryLeft, BinaryRight,
       EnterCompound, CompoundTarget, CompoundValue, EnterAssign, AssignValue,
       AssignTarget, EnterStruct, StructTarget, StructCopy, EnterPostfix, PostfixTarget,
       EnterCall, CallArg, CallLastArg, EnterTernary, TernaryCond, TernaryThen,
       TernaryElse, EnterLogic, LogicLeft, LogicRight, EndStatement, TempExhausted,
       Discarded, vars, Enter, EnterWith, Advance, Leave
  <2> QED BY <2>1, <2>2
<1> QED BY <1>3, <1>4, <1>5 DEF Bounded, fp

\* In every reachable state the counters of gen_expr() are the sum of what its
\* pending calls have parked (codegen.c, temp_push() to gen_call()).
THEOREM InvariantHolds == Spec => []IInv
<1> DEFINE J == IInv /\ CallAligned
<1>1. Init => J
  BY InitInv, QuietAligned DEF Init, CallAligned, Quiet
<1>2. J /\ [Next]_vars => J' BY StepGood DEF Good
<1>3. J => IInv OBVIOUS
<1> HIDE DEF J
<1> QED BY <1>1, <1>2, <1>3, PTL DEF Spec

\* %rsp is a multiple of 16 at every call instruction the program can execute, for
\* any number of registers, any home area and any expression.
THEOREM CallsAreAligned == Spec => []CallAligned
<1> DEFINE J == IInv /\ CallAligned
<1>1. Init => J
  BY InitInv, QuietAligned DEF Init, CallAligned, Quiet
<1>2. J /\ [Next]_vars => J' BY StepGood DEF Good
<1>3. J => CallAligned OBVIOUS
<1> HIDE DEF J
<1> QED BY <1>1, <1>2, <1>3, PTL DEF Spec

\* pushed_count is the number of words the machine has on its stack, also where the
\* arms of a conditional expression meet.
THEOREM StackAgreesHolds == Spec => []StackAgrees
<1>1. IInv => StackAgrees BY DEF IInv, Inv, Shape, StackAgrees
<1> QED BY <1>1, InvariantHolds, PTL

\* A statement's expression leaves no temporary, spill, word or register taken.
THEOREM NothingLeftHolds == Spec => []NothingLeft
<1>1. IInv => NothingLeft BY Empty DEF NothingLeft, Counted
<1> QED BY <1>1, InvariantHolds, PTL

\* Leaving a construct restores the counters it was entered with.
THEOREM ConstructsBalancedHolds == Spec => ConstructsBalanced
<1> DEFINE J == IInv /\ CallAligned
<1>1. Init => J
  BY InitInv, QuietAligned DEF Init, CallAligned, Quiet
<1>2. J /\ [Next]_vars => J' BY StepGood DEF Good
<1>3. J /\ [Next]_vars => [LeavesAsEntered]_vars BY StepGood DEF Good
<1> HIDE DEF J
<1> QED BY <1>1, <1>2, <1>3, PTL DEF Spec, ConstructsBalanced

\* The counters are counters and the table and the stack have the size they say.
THEOREM TypeCorrect == Spec => []TypeOK
<1> DEFINE J == IInv /\ CallAligned /\ Bounded
<1>1. Init => J
  <2> SUFFICES ASSUME Init PROVE J OBVIOUS
  <2>1. IInv /\ CallAligned BY InitInv DEF Init, CallAligned, Quiet
  <2>2. st.depth = 0 /\ fp = 0 /\ mode = "gen" BY DEF Init, fp
  <2>3. TempMax \in Nat /\ MaxFrames \in Nat BY TempPoolAssumption
  <2> QED BY <2>1, <2>2, <2>3 DEF Bounded
<1>2. J /\ [Next]_vars => J' BY StepGood, StepBounded DEF Good
<1>3. J => TypeOK
  <2> SUFFICES ASSUME J PROVE TypeOK OBVIOUS
  <2>1. Shape(st) /\ st \in StType BY DEF IInv, Inv, Shape
  <2>2. /\ st.depth \in Nat /\ st.spill_pending \in Nat /\ st.pushed \in Nat
        /\ st.rsp \in Nat /\ st.rax \in Pattern /\ st.rcx \in Pattern
        /\ st.r10 \in Pattern
    BY <2>1 DEF StType
  <2>3. st.depth \in 0..TempMax BY <2>2, TempPoolAssumption DEF Bounded
  <2>4. st.temps \in [1..st.depth -> EntryType] /\ st.mem \in [1..st.rsp -> Pattern]
    BY <2>1 DEF Shape
  <2>5. st.pool_used \in 0..PoolSize
    <3>1. st.pool_used \in {0, 1} BY <2>1, <2>2, RegsType DEF Shape
    <3> QED BY <3>1 DEF PoolSize
  <2>6. st.skip \in 0..fp BY DEF IInv, Inv, Skipping, fp
  <2> QED BY <2>2, <2>3, <2>4, <2>5, <2>6 DEF TypeOK, Bounded
<1> HIDE DEF J
<1> QED BY <1>1, <1>2, <1>3, PTL DEF Spec

(***************************************************************************)
(* The table of temporaries and the nesting limit.                         *)
(***************************************************************************)

\* A right side that costs no level is awaited.
Chains(f) == f.rank = Assignment /\ f.step = 1 /\ f.kind /= "assign"

\* None of the operations around the k-th waits for one.
Unchained(fs, k) == \A i \in 1..(k - 1) : ~Chains(fs[i])

\* The ranks of the operations that the parser reads.
Ranked(f) ==
  /\ f.kind \in {"call", "postfix"} => f.rank = Primary
  /\ f.kind = "ternary" => f.rank = Conditional
  /\ f.kind = "logic" => f.rank \in {Or, And}
  /\ f.kind \in {"compound", "assign", "struct"} => f.rank = Assignment
  /\ f.kind = "binary" => f.rank \in BinaryRanks \cup {Primary, Assignment}

\* At most so many temporaries wait where parse_depth and the rank are these: a full
\* set for every level around, and one for each binary rank further out.
Slack(rank) == IF rank = Primary THEN -1 ELSE IF rank <= 6 THEN 0 ELSE rank - 6
Most(nest, rank) == PerLevel * (nest - 1) + Slack(rank)

Level(f) == f.nest >= 1 /\ f.depth0 <= Most(f.nest, f.rank)

\* That holds for every pending operation that has no such right side around it.
Levels(fs) ==
  \A k \in 1..Len(fs) : Ranked(fs[k]) /\ (Unchained(fs, k) => Level(fs[k]))

\* One level more is PerLevel more.
LEMMA OneLevelMore ==
  ASSUME NEW n \in Nat
  PROVE  /\ PerLevel * (n - 1) \in Int /\ PerLevel \in Nat /\ PerLevel >= 3
         /\ PerLevel = OpLevels + 1
         /\ PerLevel * n = PerLevel * (n - 1) + PerLevel
<1>1. PerLevel \in Nat /\ PerLevel >= 3 /\ PerLevel = OpLevels + 1
  BY TempPoolAssumption DEF PerLevel
<1> HIDE DEF PerLevel
<1>2. \A a \in Nat : a * n = a * (n - 1) + a /\ a * (n - 1) \in Int BY SMT
<1> QED BY <1>1, <1>2

\* A rank further in leaves room for as many, and never for a whole level.
LEMMA SlackFacts ==
  /\ \A r \in Ranks : Slack(r) \in Int /\ Slack(r) >= -1 /\ Slack(r) <= PerLevel - 1
  /\ \A r, l \in Ranks : l >= r => Slack(r) <= Slack(l)
BY TempPoolAssumption DEF Slack, Ranks, Primary, Unary, PerLevel

\* An operation waits for its operand with no more than may wait there.
LEMMA OperandRoom ==
  ASSUME NEW f, FrameOK(f), Ranked(f), Level(f)
  PROVE  /\ Operand(f).nest \in Nat /\ Operand(f).nest >= 1 /\ Operand(f).rank \in Ranks
         /\ ~Chains(f) => DepthAfter(f) <= Most(Operand(f).nest, Operand(f).rank)
         /\ Chains(f) => DepthAfter(f) + 1 <= PerLevel * Operand(f).nest
         /\ Pushes(f.kind, f.step) = 2 => Operand(f).rank = Primary
         /\ Chains(f) => Pushes(f.kind, f.step) = 0
<1> DEFINE m == PerLevel * (f.nest - 1)
           o == Operand(f)
<1>1. /\ f.nest \in Nat /\ f.rank \in Ranks /\ f.step \in Nat /\ f.depth0 \in Nat
      /\ f.nest >= 1 /\ f.kind \in Kinds
  BY DEF FrameOK, FrameType, Level
<1>2. /\ m \in Int /\ PerLevel \in Nat /\ PerLevel >= 3 /\ PerLevel = OpLevels + 1
      /\ PerLevel * f.nest = m + PerLevel
  BY <1>1, OneLevelMore
<1>3. f.depth0 <= m + Slack(f.rank) BY DEF Level, Most
<1>4. Most(f.nest, Primary) = m - 1 /\ \A r \in Ranks : Most(f.nest, r) = m + Slack(r)
  BY <1>2, RankType DEF Most, Slack
<1>5. Most(f.nest + 1, Primary) = m + PerLevel - 1
  <2>1. (f.nest + 1) - 1 = f.nest BY <1>1
  <2> QED BY <1>2, <2>1 DEF Most, Slack
<1>6. OpLevels \in Nat /\ OpLevels >= 2 BY TempPoolAssumption
<1> HIDE DEF m, o
<1>7. CASE f.kind = "call"
  <2>1. o = [nest |-> f.nest, rank |-> Assignment] BY <1>7 DEF o, Operand, AroundAssign, Place
  <2>2. DepthAfter(f) = f.depth0 /\ f.rank = Primary
    BY <1>1, <1>7 DEF DepthAfter, TempsOf, Ranked
  <2>3. f.depth0 <= m - 1 BY <1>2, <1>3, <2>2 DEF Slack
  <2>4. Most(f.nest, Assignment) = m BY <1>2, <1>4, RankType DEF Slack, Primary, Assignment
  <2>5. ~Chains(f) BY <2>2 DEF Chains, Primary, Assignment
  <2>6. Pushes(f.kind, f.step) = 0 BY <1>7 DEF Pushes
  <2> QED BY <1>1, <1>2, <2>1, <2>2, <2>3, <2>4, <2>5, <2>6, RankType DEF o
<1>8. CASE f.kind = "postfix"
  <2>1. o = [nest |-> f.nest, rank |-> Primary] BY <1>8 DEF o, Operand, AroundAssign, Place
  <2>2. DepthAfter(f) = f.depth0 /\ f.rank = Primary
    BY <1>1, <1>8 DEF DepthAfter, TempsOf, Ranked
  <2>3. f.depth0 <= m - 1 BY <1>2, <1>3, <2>2 DEF Slack
  <2>5. ~Chains(f) BY <2>2 DEF Chains, Primary, Assignment
  <2> QED BY <1>1, <1>4, <2>1, <2>2, <2>3, <2>5, RankType DEF o
<1>9. CASE f.kind = "ternary"
  <2>1. /\ o.nest = f.nest /\ o.rank \in {Or, Comma, Assignment}
        /\ o = [nest |-> f.nest, rank |-> o.rank]
    BY <1>9 DEF o, Operand, AroundAssign, Place
  <2>2. DepthAfter(f) = f.depth0 /\ f.rank = Conditional
    BY <1>1, <1>9 DEF DepthAfter, TempsOf, Ranked
  <2>3. f.depth0 <= m BY <1>2, <1>3, <2>2 DEF Slack, Conditional, Primary
  <2>4. Most(f.nest, o.rank) = m
    BY <1>2, <1>4, <2>1, RankType DEF Slack, Primary, Assignment, Comma, Or
  <2>5. ~Chains(f) BY <2>2 DEF Chains, Conditional, Assignment
  <2>6. Pushes(f.kind, f.step) = 0 BY <1>9 DEF Pushes
  <2> QED BY <1>1, <2>1, <2>2, <2>3, <2>4, <2>5, <2>6, RankType DEF o
<1>10. CASE f.rank = Assignment /\ f.kind \notin {"call", "postfix", "ternary"}
  <2>1. /\ f.kind \in {"binary", "compound", "assign", "struct"} /\ f.step \in {0, 1}
    BY <1>1, <1>10 DEF Kinds, Ranked, FrameOK, Assignment, Or, And
  <2>2. f.depth0 <= m BY <1>2, <1>3, <1>10 DEF Slack, Assignment, Primary
  <2>3. Most(f.nest, Assignment) = m BY <1>2, <1>4, RankType DEF Slack, Primary, Assignment
  <2>4. CASE (f.step = IF f.kind = "assign" THEN 1 ELSE 0)
    <3>1. o = [nest |-> f.nest + 1, rank |-> Primary] BY <2>1, <1>10, <2>4 DEF o, Operand, AroundAssign, Place
    <3>2. DepthAfter(f) <= f.depth0 + 1
      BY <1>1, <2>1, <2>4 DEF DepthAfter, TempsOf
    <3>3. DepthAfter(f) \in Int BY <1>1, <2>1, <2>4 DEF DepthAfter, TempsOf
    <3>4. ~Chains(f) BY <2>4 DEF Chains
    <3> QED BY <1>1, <1>2, <1>5, <2>2, <3>1, <3>2, <3>3, <3>4, RankType DEF o
  <2>5. CASE ~(f.step = IF f.kind = "assign" THEN 1 ELSE 0)
    <3>1. o = [nest |-> f.nest, rank |-> Assignment] BY <2>1, <1>10, <2>5 DEF o, Operand, AroundAssign, Place
    <3>2. Pushes(f.kind, f.step) /= 2 /\ (Chains(f) => Pushes(f.kind, f.step) = 0)
      BY <2>1, <2>5 DEF Pushes, Chains
    <3>3. ~Chains(f) => DepthAfter(f) = f.depth0
      BY <1>1, <1>10, <2>1, <2>5 DEF Chains, DepthAfter, TempsOf
    <3>4. DepthAfter(f) \in Int /\ DepthAfter(f) <= f.depth0 + 2
      BY <1>1, <2>1 DEF DepthAfter, TempsOf
    <3> QED BY <1>1, <1>2, <2>2, <2>3, <3>1, <3>2, <3>3, <3>4, RankType DEF o
  <2> QED BY <2>4, <2>5
<1>11. CASE f.rank = Primary /\ f.kind \notin {"call", "postfix", "ternary"}
  <2>1. f.kind = "binary" /\ f.step \in {0, 1} /\ f.rank /= Assignment
    BY <1>1, <1>11 DEF Kinds, Ranked, FrameOK, Assignment, Primary, Or, And
  <2>2. f.depth0 <= m - 1 BY <1>2, <1>3, <1>11 DEF Slack
  <2>3. o = [nest |-> f.nest, rank |-> IF f.step = 0 THEN Primary ELSE Comma]
    BY <1>11, <2>1 DEF o, Operand, AroundAssign, Place
  <2>4. DepthAfter(f) = f.depth0 + f.step BY <2>1 DEF DepthAfter, TempsOf
  <2>5. Most(f.nest, Comma) = m BY <1>2, <1>4, RankType DEF Slack, Primary, Comma
  <2>6. ~Chains(f) /\ Pushes(f.kind, f.step) /= 2 BY <2>1 DEF Chains, Pushes
  <2> QED BY <1>1, <1>2, <1>4, <2>1, <2>2, <2>3, <2>4, <2>5, <2>6, RankType DEF o
<1>12. CASE /\ f.kind \notin {"call", "postfix", "ternary"}
            /\ f.rank /= Assignment /\ f.rank /= Primary
  <2>1. /\ \/ f.kind = "binary" /\ f.rank \in BinaryRanks
           \/ f.kind = "logic" /\ f.rank \in {Or, And}
        /\ f.step \in {0, 1}
    BY <1>1, <1>12 DEF Kinds, Ranked, FrameOK
  <2>2. o = [nest |-> f.nest, rank |-> f.rank + f.step] BY <2>1, <1>12 DEF o, Operand, AroundAssign, Place
  <2>3. f.rank + f.step \in Ranks
    BY <1>6, <2>1 DEF Ranks, BinaryRanks, Primary, Unary, Or, And
  <2>4. Most(f.nest, f.rank + f.step) = m + Slack(f.rank + f.step) BY <1>4, <2>3
  <2>5. DepthAfter(f) = f.depth0 + (IF f.kind = "binary" THEN f.step ELSE 0)
    BY <1>1, <2>1 DEF DepthAfter, TempsOf
  <2>6. /\ Slack(f.rank) + (IF f.kind = "binary" THEN f.step ELSE 0) <= Slack(f.rank + f.step)
        /\ Slack(f.rank) \in Int /\ Slack(f.rank + f.step) \in Int
    BY <1>6, <2>1 DEF Slack, BinaryRanks, Primary, Or, And
  <2>7. ~Chains(f) /\ Pushes(f.kind, f.step) /= 2 BY <1>12, <2>1 DEF Chains, Pushes
  <2> QED BY <1>1, <1>2, <1>3, <2>1, <2>2, <2>3, <2>4, <2>5, <2>6, <2>7 DEF o
<1> QED BY <1>7, <1>8, <1>9, <1>10, <1>11, <1>12

\* What waits where an operand is about to be generated.
LEMMA RoomHere ==
  ASSUME IInv, Levels(frames), Unchained(frames, fp + 1)
  PROVE  /\ Here.nest \in Nat /\ Here.nest >= 1 /\ Here.rank \in Ranks
         /\ st.depth <= Most(Here.nest, Here.rank)
<1>1. fp \in Nat /\ fp = Len(frames) BY DEF IInv, Inv, Nested, fp
<1>2. CASE fp = 0
  <2>1. st.depth = 0 BY <1>2, Empty DEF Counted
  <2>2. Here = [nest |-> 1, rank |-> Comma] BY <1>2 DEF Here, Place
  <2>3. PerLevel \in Nat BY TempPoolAssumption DEF PerLevel
  <2>4. Most(1, Comma) = 0
    <3> HIDE DEF PerLevel
    <3> QED BY <2>3 DEF Most, Slack, Comma, Primary
  <2> QED BY <2>1, <2>2, <2>4, RankType
<1>3. CASE fp > 0
  <2>1. FrameOK(Top) /\ st.depth = DepthAfter(Top) /\ Top = frames[fp] /\ fp \in 1..Len(frames)
    BY <1>1, <1>3, TopFacts DEF Top
  <2>2. Unchained(frames, fp) /\ ~Chains(Top) BY <1>1, <1>3, <2>1 DEF Unchained
  <2>3. Ranked(Top) /\ Level(Top) BY <2>1, <2>2 DEF Levels
  <2>4. Here = Operand(Top) BY <1>3 DEF Here
  <2> QED BY <2>1, <2>2, <2>3, <2>4, OperandRoom
<1> QED BY <1>1, <1>2, <1>3

\* The operations pending are as deep as before, or fewer.
LEMMA LevelsKept ==
  ASSUME NEW fs, NEW gs, Levels(fs), Len(fs) \in Nat, Len(gs) \in Nat, Len(gs) <= Len(fs),
         \A i \in 1..(Len(gs) - 1) : gs[i] = fs[i],
         Len(gs) > 0 => LET k == Len(gs)
                        IN  /\ gs[k].nest = fs[k].nest /\ gs[k].depth0 = fs[k].depth0
                            /\ gs[k].rank = fs[k].rank /\ gs[k].kind = fs[k].kind
  PROVE  Levels(gs)
<1> SUFFICES ASSUME NEW k \in 1..Len(gs)
             PROVE  Ranked(gs[k]) /\ (Unchained(gs, k) => Level(gs[k]))
  BY DEF Levels
<1>1. /\ k \in 1..Len(fs) /\ gs[k].nest = fs[k].nest /\ gs[k].depth0 = fs[k].depth0
      /\ gs[k].rank = fs[k].rank /\ gs[k].kind = fs[k].kind
  <2>1. k = Len(gs) \/ k \in 1..(Len(gs) - 1) OBVIOUS
  <2> QED BY <2>1
<1>2. Unchained(gs, k) => Unchained(fs, k) BY DEF Unchained
<1>3. Ranked(fs[k]) /\ (Unchained(fs, k) => Level(fs[k])) BY <1>1 DEF Levels
<1> QED BY <1>1, <1>2, <1>3 DEF Ranked, Level

\* What is entered is read at the depth its rank asks for.
EnteredAs(f, rank) ==
  /\ rank \in Ranks /\ f.rank = rank /\ f.nest = NestOf(rank) /\ f.depth0 = st.depth
  /\ Ranked(f)

\* One more operation: at the same depth if its rank is read there, or a level down.
LEMMA LevelsEnter ==
  ASSUME IInv, Levels(frames), NEW f, NEW rank, EnteredAs(f, rank)
  PROVE  Levels(Append(frames, f))
<1> DEFINE gs == Append(frames, f)
<1>1. fp \in Nat /\ fp = Len(frames) /\ frames \in Seq(FrameType) BY DEF IInv, Inv, Nested, fp
<1>2. /\ Len(gs) = fp + 1 /\ gs[fp + 1] = f
      /\ \A i \in 1..fp : gs[i] = frames[i]
  BY <1>1
<1> HIDE DEF gs
<1> SUFFICES ASSUME NEW k \in 1..(fp + 1)
             PROVE  Ranked(gs[k]) /\ (Unchained(gs, k) => Level(gs[k]))
  BY <1>2 DEF Levels, gs
<1>3. CASE k \in 1..fp
  <2>1. gs[k] = frames[k] /\ k \in 1..Len(frames) BY <1>1, <1>2, <1>3
  <2>2. Unchained(gs, k) => Unchained(frames, k) BY <1>1, <1>2, <1>3 DEF Unchained
  <2> QED BY <2>1, <2>2 DEF Levels
<1>4. CASE k = fp + 1
  <2> SUFFICES ASSUME Unchained(gs, fp + 1) PROVE Level(f) BY <1>2, <1>4 DEF EnteredAs
  <2>1. Unchained(frames, fp + 1) BY <1>1, <1>2 DEF Unchained
  <2> DEFINE n == Here.nest
             r == Here.rank
             m == PerLevel * (n - 1)
  <2>2. n \in Nat /\ n >= 1 /\ r \in Ranks /\ st.depth <= Most(n, r) BY <2>1, RoomHere
  <2>3. /\ m \in Int /\ PerLevel \in Nat /\ PerLevel * n = m + PerLevel
    BY <2>2, OneLevelMore
  <2>4. rank \in Ranks /\ f.rank = rank /\ f.nest = NestOf(rank) /\ f.depth0 = st.depth
    BY DEF EnteredAs
  <2>5. st.depth \in Nat /\ rank \in Nat /\ r \in Nat
    BY <2>2, <2>4, StFacts, TempPoolAssumption DEF Ranks, Primary, Unary
  <2>6. NestOf(rank) = n + (IF rank >= r THEN 0 ELSE 1) BY DEF NestOf, NestHere
  <2>7. st.depth <= m + Slack(r) BY <2>2 DEF Most
  <2>8. Slack(r) \in Int /\ Slack(rank) \in Int /\ Slack(r) <= PerLevel - 1
        /\ Slack(rank) >= -1 /\ (rank >= r => Slack(r) <= Slack(rank))
    BY <2>2, <2>4, SlackFacts
  <2> HIDE DEF n, r, m
  <2>9. CASE rank >= r
    <3>1. f.nest = n BY <2>2, <2>4, <2>6, <2>9
    <3>2. Most(f.nest, f.rank) = m + Slack(rank) BY <2>4, <3>1 DEF Most, m
    <3> QED BY <2>2, <2>3, <2>4, <2>5, <2>7, <2>8, <2>9, <3>1, <3>2 DEF Level
  <2>10. CASE ~(rank >= r)
    <3>1. f.nest = n + 1 /\ (n + 1) - 1 = n BY <2>2, <2>4, <2>6, <2>10
    <3>2. Most(f.nest, f.rank) = PerLevel * n + Slack(rank) BY <2>4, <3>1 DEF Most
    <3> QED BY <2>2, <2>3, <2>4, <2>5, <2>7, <2>8, <3>1, <3>2 DEF Level
  <2> QED BY <2>9, <2>10
<1> QED BY <1>1, <1>3, <1>4

\* An operation goes on at its level.
SameLevel(g) ==
  /\ g.nest = Top.nest /\ g.depth0 = Top.depth0 /\ g.rank = Top.rank /\ g.kind = Top.kind

\* Every step keeps the levels.
LEMMA StepLevels ==
  ASSUME IInv, Levels(frames), [Next]_vars
  PROVE  Levels(frames')
<1>1. fp \in Nat /\ fp = Len(frames) /\ frames \in Seq(FrameType) BY DEF IInv, Inv, Nested, fp
<1>2. CASE \E f, rank, s, m : EnteredAs(f, rank) /\ EnterWith(f, s, m)
  BY <1>2, LevelsEnter DEF EnterWith
<1>3. CASE fp > 0 /\ \E g : /\ frames' = [frames EXCEPT ![fp] = g]
                            /\ SameLevel(g)
  <2>1. PICK g : /\ frames' = [frames EXCEPT ![fp] = g]
                 /\ SameLevel(g)
    BY <1>3
  <2>2. /\ Len(frames') = fp /\ frames'[fp] = g
        /\ \A i \in 1..(fp - 1) : frames'[i] = frames[i]
    BY <1>1, <1>3, <2>1
  <2>3. Len(frames') \in Nat /\ Len(frames') <= Len(frames) BY <1>1, <2>2
  <2>4. \A i \in 1..(Len(frames') - 1) : frames'[i] = frames[i] BY <2>2
  <2>5. /\ frames'[Len(frames')].nest = frames[Len(frames')].nest
        /\ frames'[Len(frames')].depth0 = frames[Len(frames')].depth0
        /\ frames'[Len(frames')].rank = frames[Len(frames')].rank
        /\ frames'[Len(frames')].kind = frames[Len(frames')].kind
    BY <2>1, <2>2 DEF Top, SameLevel
  <2> QED BY <1>1, <2>3, <2>4, <2>5, LevelsKept
<1>4. CASE fp > 0 /\ \E s : Leave(s)
  <2>1. frames' = SubSeq(frames, 1, Len(frames) - 1) BY <1>1, <1>4 DEF Leave
  <2>2. Len(frames') = fp - 1 /\ \A i \in 1..(fp - 1) : frames'[i] = frames[i]
    BY <1>1, <1>4, <2>1, ButLast
  <2>3. Len(frames') \in Nat /\ Len(frames') <= fp BY <1>1, <1>4, <2>2
  <2>4. \A i \in 1..(Len(frames') - 1) : frames'[i] = frames[i] BY <1>1, <2>2
  <2>5. Len(frames') > 0 => frames'[Len(frames')] = frames[Len(frames')] BY <1>1, <2>2
  <2> QED BY <1>1, <2>3, <2>4, <2>5, LevelsKept
<1>5. CASE UNCHANGED frames BY <1>5
<1>6. CASE fp > 0 /\ \E k : frames' = [frames EXCEPT ![fp].step = k]
  <2>1. PICK k : frames' = [frames EXCEPT ![fp].step = k] BY <1>6
  <2> DEFINE g == [Top EXCEPT !.step = k]
  <2>2. Top \in FrameType BY <1>6, TopFacts DEF FrameOK
  <2>3. SameLevel(g) BY <2>2 DEF FrameType, SameLevel
  <2>4. frames' = [frames EXCEPT ![fp] = g] BY <2>1 DEF Top
  <2> HIDE DEF g
  <2> QED BY <1>3, <1>6, <2>3, <2>4
<1>7. CASE fp > 0 /\ \E s, kept : Advance(s, kept)
  <2>1. PICK s, kept : Advance(s, kept) BY <1>7
  <2> DEFINE n == Top.step + 1
             h == IF Live(st) THEN Top.held \o kept ELSE Top.held
             g == [Top EXCEPT !.step = n, !.held = h]
  <2>2. Top \in FrameType BY <1>7, TopFacts DEF FrameOK
  <2>3. frames' = [frames EXCEPT ![fp].step = @ + 1,
                                 ![fp].held = IF Live(st) THEN @ \o kept ELSE @]
    BY <2>1 DEF Advance
  <2>4. frames' = [frames EXCEPT ![fp] = g] BY <1>1, <1>7, <2>2, <2>3 DEF Top, FrameType
  <2> HIDE DEF n, h
  <2>5. SameLevel(g) BY <2>2 DEF FrameType, SameLevel
  <2> HIDE DEF g
  <2> QED BY <1>3, <1>7, <2>4, <2>5
<1>8. CASE EnterBinary \/ EnterCompound \/ EnterAssign \/ EnterPostfix
           \/ EnterTernary \/ EnterLogic \/ EnterStruct
  <2>1. \A rank \in BinaryRanks \cup {Primary, Assignment} :
          EnteredAs(Entered("binary", rank), rank)
    BY RankType DEF Entered, EnteredAs, Ranked
  <2>2. /\ EnteredAs(Entered("compound", Assignment), Assignment)
        /\ EnteredAs(Entered("assign", Assignment), Assignment)
        /\ EnteredAs(Entered("struct", Assignment), Assignment)
        /\ EnteredAs(Entered("postfix", Primary), Primary)
        /\ EnteredAs(Entered("ternary", Conditional), Conditional)
        /\ \A rank \in {Or, And} : EnteredAs(Entered("logic", rank), rank)
    BY RankType DEF Entered, EnteredAs, Ranked
  <2>3. \E kind, rank, s : /\ EnteredAs(Entered(kind, rank), rank)
                           /\ EnterWith(Entered(kind, rank), s, "gen")
    BY <1>8, <2>1, <2>2 DEF EnterBinary, EnterCompound, EnterAssign, EnterPostfix,
                EnterTernary, EnterLogic, EnterStruct, Enter
  <2> QED BY <1>2, <2>3
<1>9. CASE EnterCall
  <2>1. PICK asked \in 0..MaxArgs :
          LET n       == Kept(asked)
              spilled == st.pool_used
              padded  == IF NeedsPad(TempSpill(st), n) THEN 1 ELSE 0
              frame   == [Entered("call", Primary) EXCEPT
                            !.n = n, !.asked = asked, !.spilled = spilled,
                            !.padded = padded]
          IN  IF n > 0 THEN EnterWith(frame, CallSetup(st, n), "gen")
              ELSE UNCHANGED frames
    BY <1>9 DEF EnterCall
  <2> DEFINE n == Kept(asked)
             spilled == st.pool_used
             padded  == IF NeedsPad(TempSpill(st), n) THEN 1 ELSE 0
             frame   == [Entered("call", Primary) EXCEPT
                           !.n = n, !.asked = asked, !.spilled = spilled,
                           !.padded = padded]
             s       == CallSetup(st, n)
  <2>2. UNCHANGED frames \/ EnterWith(frame, s, "gen") BY <2>1
  <2> HIDE DEF n, spilled, padded, s
  <2>3. EnteredAs(frame, Primary) BY RankType DEF Entered, EnteredAs, Ranked
  <2> HIDE DEF frame
  <2> QED BY <1>2, <1>5, <2>2, <2>3
<1>10. CASE TernaryCond \/ TernaryThen \/ LogicLeft
  BY <1>6, <1>10 DEF TernaryCond, TernaryThen, LogicLeft, At
<1>11. CASE BinaryLeft \/ CompoundTarget \/ AssignValue \/ StructTarget \/ CallArg
  BY <1>7, <1>11 DEF BinaryLeft, CompoundTarget, AssignValue, StructTarget, CallArg, At
<1>12. CASE BinaryRight \/ CompoundValue \/ AssignTarget \/ StructCopy \/ PostfixTarget
            \/ CallLastArg \/ TernaryElse \/ LogicRight
  BY <1>4, <1>12 DEF BinaryRight, CompoundValue, AssignTarget, StructCopy, PostfixTarget,
                     CallLastArg, TernaryElse, LogicRight, At
<1>13. CASE GenLeaf \/ GenPostfixVar \/ CommaLeft \/ EndStatement \/ TempExhausted
            \/ Discarded \/ UNCHANGED vars
  BY <1>5, <1>13 DEF GenLeaf, GenPostfixVar, CommaLeft, EndStatement, TempExhausted,
                     Discarded, vars
<1> QED BY <1>8, <1>9, <1>10, <1>11, <1>12, <1>13 DEF Next

\* Where the table is full without such a right side, the parser is deep enough.
LEMMA FullMeans ==
  ASSUME IInv, Levels(frames), TempExhausted
  PROVE  (\E i \in DOMAIN frames : Chained(i)) \/ TempMax < PerLevel * NestHere
<1> SUFFICES ASSUME ~\E i \in DOMAIN frames : Chained(i)
             PROVE  TempMax < PerLevel * NestHere
  OBVIOUS
<1>1. /\ fp \in Nat /\ fp = Len(frames) /\ DOMAIN frames = 1..fp /\ TempMax \in Nat
      /\ st.depth \in Nat
  BY TempPoolAssumption, StFacts DEF IInv, Inv, Nested, fp
<1>2. Unchained(frames, fp) BY <1>1 DEF Unchained, Chained, Chains
<1>3. \/ fp > 0 /\ ~Room(Pushes(Top.kind, Top.step))
      \/ ~Room(1)
  BY DEF TempExhausted
<1>4. CASE Unchained(frames, fp + 1)
  <2> DEFINE n == Here.nest
             r == Here.rank
             m == PerLevel * (n - 1)
  <2>1. n \in Nat /\ n >= 1 /\ r \in Ranks /\ st.depth <= m + Slack(r)
    BY <1>4, RoomHere DEF Most
  <2>2. m \in Int /\ PerLevel \in Nat /\ PerLevel * n = m + PerLevel BY <2>1, OneLevelMore
  <2>3. Slack(r) \in Int /\ Slack(r) <= PerLevel - 1 BY <2>1, SlackFacts
  <2>4. NestHere = n BY DEF NestHere
  <2>5. fp > 0 => \/ Pushes(Top.kind, Top.step) \in {0, 1}
                  \/ Pushes(Top.kind, Top.step) = 2 /\ r = Primary
    <3> SUFFICES ASSUME fp > 0
                 PROVE  \/ Pushes(Top.kind, Top.step) \in {0, 1}
                        \/ Pushes(Top.kind, Top.step) = 2 /\ r = Primary
      OBVIOUS
    <3>1. FrameOK(Top) /\ Top = frames[fp] /\ fp \in 1..Len(frames)
      BY <1>1, TopFacts DEF Top
    <3>2. Ranked(Top) /\ Level(Top) BY <1>2, <3>1 DEF Levels
    <3>3. Pushes(Top.kind, Top.step) = 2 => r = Primary
      BY <3>1, <3>2, OperandRoom DEF Here
    <3> QED BY <3>3 DEF Pushes
  <2> HIDE DEF n, r, m
  <2>6. CASE ~Room(1) BY <1>1, <2>1, <2>2, <2>3, <2>4, <2>6 DEF Room
  <2>7. CASE fp > 0 /\ ~Room(Pushes(Top.kind, Top.step))
    <3>1. CASE Pushes(Top.kind, Top.step) \in {0, 1}
      BY <1>1, <2>1, <2>2, <2>3, <2>4, <2>7, <3>1 DEF Room
    <3>2. CASE Pushes(Top.kind, Top.step) = 2 /\ r = Primary
      <4>1. Slack(r) = -1 BY <3>2 DEF Slack
      <4> QED BY <1>1, <2>1, <2>2, <2>4, <2>7, <3>2, <4>1 DEF Room
    <3> QED BY <2>5, <2>7, <3>1, <3>2
  <2> QED BY <1>3, <2>6, <2>7
<1>5. CASE ~Unchained(frames, fp + 1)
  <2>1. fp > 0 /\ Chains(frames[fp]) BY <1>1, <1>2, <1>5 DEF Unchained
  <2>2. FrameOK(Top) /\ st.depth = DepthAfter(Top) /\ Top = frames[fp] /\ fp \in 1..Len(frames)
    BY <1>1, <2>1, TopFacts DEF Top
  <2>3. Ranked(Top) /\ Level(Top) BY <1>2, <2>2 DEF Levels
  <2>4. NestHere = Operand(Top).nest BY <2>1 DEF NestHere, Here
  <2>5. /\ st.depth + 1 <= PerLevel * NestHere /\ Pushes(Top.kind, Top.step) = 0
        /\ Operand(Top).nest \in Nat
    BY <2>1, <2>2, <2>3, <2>4, OperandRoom
  <2>6. PerLevel * NestHere \in Int
    <3>1. PerLevel \in Nat BY TempPoolAssumption DEF PerLevel
    <3> HIDE DEF PerLevel
    <3> QED BY <2>4, <2>5, <3>1
  <2> QED BY <1>1, <1>3, <2>5, <2>6 DEF Room
<1> QED BY <1>4, <1>5

\* temp_push() finds its table full only below a right side that parse_assignment() reads
\* by calling itself, or where parse_depth is such that the binary operators and subscripts
\* of its levels fill it: no operation leaves an entry behind (codegen.c 293-362).
THEOREM FullByChainOrDepthHolds == Spec => []FullByChainOrDepth
<1> DEFINE J == IInv /\ CallAligned /\ Levels(frames) /\ FullByChainOrDepth
<1>1. Init => J
  <2> SUFFICES ASSUME Init PROVE J OBVIOUS
  <2>1. IInv /\ CallAligned BY InitInv DEF Init, CallAligned, Quiet
  <2>2. Len(frames) = 0 /\ mode = "gen" BY DEF Init
  <2> QED BY <2>1, <2>2 DEF Levels, FullByChainOrDepth
<1>2. J /\ [Next]_vars => J'
  <2> SUFFICES ASSUME J, [Next]_vars PROVE J' OBVIOUS
  <2>1. IInv' /\ CallAligned' BY StepGood DEF Good
  <2>2. Levels(frames)' BY StepLevels
  <2>3. FullByChainOrDepth'
    <3>1. CASE mode' /= "failed" BY <3>1 DEF FullByChainOrDepth
    <3>2. CASE TempExhausted
      <4>1. UNCHANGED frames BY <3>2 DEF TempExhausted
      <4>2. (\E i \in DOMAIN frames : Chained(i)) \/ TempMax < PerLevel * NestHere
        BY <3>2, FullMeans
      <4> QED BY <4>1, <4>2 DEF FullByChainOrDepth, Chained, fp, NestHere, Here, Top
    <3>3. CASE UNCHANGED vars
      BY <3>3 DEF FullByChainOrDepth, Chained, fp, vars, NestHere, Here, Top
    <3>4. mode' /= "failed" \/ TempExhausted \/ UNCHANGED vars
      BY DEF Next, GenLeaf, GenPostfixVar, CommaLeft, EnterBinary, BinaryLeft, BinaryRight,
         EnterCompound, CompoundTarget, CompoundValue, EnterAssign, AssignValue,
         AssignTarget, EnterStruct, StructTarget, StructCopy, EnterPostfix, PostfixTarget,
         EnterCall, CallArg, CallLastArg, EnterTernary, TernaryCond, TernaryThen,
         TernaryElse, EnterLogic, LogicLeft, LogicRight, EndStatement, Discarded,
         Enter, EnterWith, Advance, Leave
    <3> QED BY <3>1, <3>2, <3>3, <3>4
  <2> QED BY <2>1, <2>2, <2>3
<1>3. J => FullByChainOrDepth OBVIOUS
<1> HIDE DEF J
<1> QED BY <1>1, <1>2, <1>3, PTL DEF Spec

-------------------------------------------------------------------------------
(***************************************************************************)
(* Operands held: short sequences.                                         *)
(***************************************************************************)

\* One more operand held.
LEMMA OneMore ==
  ASSUME NEW S, NEW q \in Seq(S), NEW x \in S
  PROVE  /\ q \o <<x>> = Append(q, x)
         /\ q \o <<x>> \in Seq(S) /\ Len(q \o <<x>>) = Len(q) + 1
         /\ \A i \in 1..Len(q) : (q \o <<x>>)[i] = q[i]
         /\ (q \o <<x>>)[Len(q) + 1] = x
BY AppendIsConcat, AppendProperties

\* One or two operands held, and the one just evaluated.
LEMMA HeldOne ==
  ASSUME NEW S, NEW q \in Seq(S), NEW v \in S PROVE Len(q) = 1 => Append(q, v) = <<q[1], v>>
<1> DEFINE a == q \o <<v>>
           b == <<q[1], v>>
<1>1. /\ q \o <<v>> = Append(q, v)
      /\ q \o <<v>> \in Seq(S) /\ Len(q \o <<v>>) = Len(q) + 1
      /\ \A i \in 1..Len(q) : (q \o <<v>>)[i] = q[i]
      /\ (q \o <<v>>)[Len(q) + 1] = v
  BY OneMore
<1>2. HAVE Len(q) = 1
<1>3. 1 \in 1..Len(q) /\ Len(q) + 1 = 2 BY <1>2
<1>4. q[1] \in S BY <1>3, ElementOfSeq
<1>5. b \in Seq(S) /\ Len(b) = 2 /\ b[1] = q[1] /\ b[2] = v BY <1>4
<1>6. \A i \in 1..2 : i = 1 \/ i = 2 OBVIOUS
<1>7. a \in Seq(S) /\ Len(a) = 2 /\ a[1] = q[1] /\ a[2] = v BY <1>1, <1>3
<1> HIDE DEF a, b
<1>8. \A i \in 1..Len(a) : a[i] = b[i] BY <1>5, <1>6, <1>7
<1>9. a = b BY <1>5, <1>7, <1>8, SeqEqual
<1> QED BY <1>1, <1>9 DEF a, b

LEMMA HeldTwo ==
  ASSUME NEW S, NEW q \in Seq(S), NEW v \in S
  PROVE  Len(q) = 2 => Append(q, v) = <<q[1], q[2], v>>
<1> DEFINE a == q \o <<v>>
           b == <<q[1], q[2], v>>
<1>1. /\ q \o <<v>> = Append(q, v)
      /\ q \o <<v>> \in Seq(S) /\ Len(q \o <<v>>) = Len(q) + 1
      /\ \A i \in 1..Len(q) : (q \o <<v>>)[i] = q[i]
      /\ (q \o <<v>>)[Len(q) + 1] = v
  BY OneMore
<1>2. HAVE Len(q) = 2
<1>3. 1 \in 1..Len(q) /\ 2 \in 1..Len(q) /\ Len(q) + 1 = 3 BY <1>2
<1>4. q[1] \in S /\ q[2] \in S BY <1>3, ElementOfSeq
<1>5. b \in Seq(S) /\ Len(b) = 3 /\ b[1] = q[1] /\ b[2] = q[2] /\ b[3] = v BY <1>4
<1>6. \A i \in 1..3 : i = 1 \/ i = 2 \/ i = 3 OBVIOUS
<1>7. a \in Seq(S) /\ Len(a) = 3 /\ a[1] = q[1] /\ a[2] = q[2] /\ a[3] = v BY <1>1, <1>3
<1> HIDE DEF a, b
<1>8. \A i \in 1..Len(a) : a[i] = b[i] BY <1>5, <1>6, <1>7
<1>9. a = b BY <1>5, <1>7, <1>8, SeqEqual
<1> QED BY <1>1, <1>9 DEF a, b

\* A sequence of one or two, and what is appended to it.
LEMMA TwoMore ==
  ASSUME NEW S, NEW q \in Seq(S), NEW x \in S, NEW y \in S
  PROVE  q \o <<x, y>> = Append(Append(q, x), y)
<1>1. <<x>> \in Seq(S) /\ <<y>> \in Seq(S) BY EmptySeq
<1>2. Append(q, x) = q \o <<x>> /\ q \o <<x>> \in Seq(S) BY <1>1, AppendIsConcat, ConcatProperties
<1>3. Append(q \o <<x>>, y) = (q \o <<x>>) \o <<y>> BY <1>2, AppendIsConcat
<1>4. (q \o <<x>>) \o <<y>> = q \o (<<x>> \o <<y>>) BY <1>1, ConcatAssociative
<1>5. <<x>> \o <<y>> = <<x, y>>
  <2>1. Append(<<x>>, y) = <<x>> \o <<y>> BY <1>1, AppendIsConcat
  <2>2. Append(<<x>>, y) = <<x, y>>
    <3>1. Len(<<x>>) = 1 /\ <<x>>[1] = x OBVIOUS
    <3> DEFINE o == <<x>>
    <3>2. o \in Seq(S) /\ Len(o) = 1 /\ o[1] = x BY <1>1, <3>1
    <3> HIDE DEF o
    <3>3. Append(o, y) = <<o[1], y>> BY <3>2, HeldOne
    <3> QED BY <3>2, <3>3 DEF o
  <2> QED BY <2>1, <2>2
<1> QED BY <1>2, <1>3, <1>4, <1>5

(***************************************************************************)
(* Where two states hold the same.                                         *)
(***************************************************************************)

\* The registers an expression uses.
Reg == {"rax", "rcx", "r10"}

\* t has what s has in its first d temporaries and, while the machine runs, in
\* the first p words; while it does not run nothing moves.
Agree(s, t, p, d) ==
  /\ \A i \in 1..d : t.temps[i] = s.temps[i]
  /\ \A i \in 1..(IF Live(s) THEN p ELSE s.rsp) : t.mem[i] = s.mem[i]
  /\ ~Live(s) \/ Regs(d) = 1 => t.r10 = s.r10
  /\ ~Live(s) => t.rax = s.rax

\* Every counter is a number.
LEMMA Counters ==
  ASSUME NEW s, Shape(s)
  PROVE  /\ s.depth \in Nat /\ s.pushed \in Nat /\ s.spill_pending \in Nat
         /\ s.rsp \in Nat /\ s.skip \in Nat /\ s.pool_used = Regs(s.depth)
         /\ s.rax \in Pattern /\ s.rcx \in Pattern /\ s.r10 \in Pattern
         /\ s.temps \in [1..s.depth -> EntryType] /\ s.mem \in [1..s.rsp -> Pattern]
         /\ (Live(s) => s.rsp = s.pushed)
         /\ \A i \in 1..s.depth : s.temps[i].is_reg <=> (Optimize /\ i = 1)
BY DEF Shape, StType

\* A move into a register, field by field.
LEMMA SetFields ==
  ASSUME NEW s, Shape(s), NEW reg \in Reg, NEW v
  PROVE  LET t == Set(s, reg, v)
         IN  /\ t.temps = s.temps /\ t.mem = s.mem /\ t.depth = s.depth
             /\ t.pool_used = s.pool_used /\ t.pushed = s.pushed
             /\ t.spill_pending = s.spill_pending /\ t.rsp = s.rsp /\ t.skip = s.skip
             /\ Live(s) => t[reg] = v /\ \A r \in Reg : r /= reg => t[r] = s[r]
             /\ ~Live(s) => t = s
<1>1. CASE reg = "rax" BY <1>1 DEF Set, Reg, Shape, StType
<1>2. CASE reg = "rcx" BY <1>2 DEF Set, Reg, Shape, StType
<1>3. CASE reg = "r10" BY <1>3 DEF Set, Reg, Shape, StType
<1> QED BY <1>1, <1>2, <1>3 DEF Reg

\* Words pushed, field by field.
LEMMA GrowFields ==
  ASSUME NEW s, Shape(s), NEW k \in Nat, NEW v
  PROVE  LET t == Grow(s, k, v)
         IN  /\ t.temps = s.temps /\ t.depth = s.depth
             /\ t.pool_used = s.pool_used /\ t.pushed = s.pushed + k
             /\ t.spill_pending = s.spill_pending /\ t.skip = s.skip
             /\ t.rax = s.rax /\ t.rcx = s.rcx /\ t.r10 = s.r10
             /\ t.rsp = (IF Live(s) THEN s.rsp + k ELSE s.rsp)
             /\ \A i \in 1..s.rsp : t.mem[i] = s.mem[i]
             /\ \A i \in 1..t.rsp : i > s.rsp => t.mem[i] = v
<1> DEFINE rsp == IF Live(s) THEN s.rsp + k ELSE s.rsp
           n == s.pushed + k
           mem == [i \in 1..rsp |-> IF i <= s.rsp THEN s.mem[i] ELSE v]
<1>1. s.rsp \in Nat /\ rsp \in Nat /\ s.rsp <= rsp BY DEF Shape, StType
<1>2. \A i \in 1..s.rsp : mem[i] = s.mem[i] BY <1>1
<1>3. \A i \in 1..rsp : i > s.rsp => mem[i] = v BY <1>1
<1> HIDE DEF mem
<1>4. Grow(s, k, v) = [s EXCEPT !.pushed = n, !.rsp = rsp, !.mem = mem]
  BY DEF Grow, mem
<1> HIDE DEF rsp, n
<1> QED BY <1>2, <1>3, <1>4 DEF Shape, StType, rsp, n

\* Words given back, field by field.
LEMMA ReleaseFields ==
  ASSUME NEW s, Shape(s), NEW k \in Nat, k <= s.pushed
  PROVE  LET t == Release(s, k)
         IN  /\ t.temps = s.temps /\ t.depth = s.depth
             /\ t.pool_used = s.pool_used /\ t.pushed = s.pushed - k
             /\ t.spill_pending = s.spill_pending /\ t.skip = s.skip
             /\ t.rax = s.rax /\ t.rcx = s.rcx /\ t.r10 = s.r10
             /\ t.rsp = (IF Live(s) THEN s.rsp - k ELSE s.rsp)
             /\ \A i \in 1..t.rsp : t.mem[i] = s.mem[i]
<1> DEFINE rsp == IF Live(s) /\ k <= s.rsp THEN s.rsp - k ELSE s.rsp
           n == s.pushed - k
           mem == Cut(s.mem, rsp)
<1>1. s.rsp \in Nat /\ rsp \in Nat /\ (Live(s) => s.rsp = s.pushed) BY DEF Shape, StType
<1>2. \A i \in 1..rsp : mem[i] = s.mem[i] BY <1>1 DEF Cut
<1>3. rsp = IF Live(s) THEN s.rsp - k ELSE s.rsp BY <1>1
<1> HIDE DEF mem
<1>4. Release(s, k) = [s EXCEPT !.pushed = n, !.rsp = rsp, !.mem = mem]
  BY DEF Release, mem
<1> HIDE DEF rsp, n
<1> QED BY <1>2, <1>3, <1>4 DEF Shape, StType, n

\* The relation is reflexive, transitive, and monotone in both bounds.
LEMMA AgreeSame == ASSUME NEW s, NEW p, NEW d PROVE Agree(s, s, p, d)
BY DEF Agree

\* Agreement from one state to the next and to the one after it.
LEMMA AgreeChain ==
  ASSUME NEW s, NEW t, NEW u, NEW p, NEW d, Agree(s, t, p, d), Agree(t, u, p, d),
         t.skip = s.skip, ~Live(s) => t.rsp = s.rsp
  PROVE  Agree(s, u, p, d)
BY DEF Agree, Live

\* Agreement on less.
LEMMA AgreeLess ==
  ASSUME NEW s, Shape(s), NEW t, NEW p \in Int, NEW d \in Int, Agree(s, t, p, d),
         NEW q \in Int, NEW e \in Int, q <= p, e <= d
  PROVE  Agree(s, t, q, e)
<1>1. Regs(e) = 1 => Regs(d) = 1 BY DEF Regs
<1>2. s.rsp \in Nat BY Counters
<1> QED BY <1>1, <1>2 DEF Agree

\* A move into a register the first d temporaries are not in.
LEMMA AgreeSet ==
  ASSUME NEW s, Shape(s), NEW reg \in Reg, NEW v, NEW p, NEW d,
         reg = "r10" => Regs(d) /= 1
  PROVE  Agree(s, Set(s, reg, v), p, d)
<1>1. "r10" \in Reg BY DEF Reg
<1> QED BY <1>1, SetFields DEF Agree

\* Pushing moves nothing that is there.
LEMMA AgreeGrow ==
  ASSUME NEW s, Shape(s), NEW k \in Nat, NEW v, NEW p \in Int, p <= s.pushed, NEW d
  PROVE  Agree(s, Grow(s, k, v), p, d)
<1>1. s.rsp \in Nat /\ (Live(s) => s.rsp = s.pushed) BY Counters
<1> QED BY <1>1, GrowFields DEF Agree

\* Nor does popping, below what is popped.
LEMMA AgreeRelease ==
  ASSUME NEW s, Shape(s), NEW k \in Nat, k <= s.pushed, NEW p \in Int,
         p <= s.pushed - k, NEW d
  PROVE  Agree(s, Release(s, k), p, d)
<1>1. s.rsp \in Nat /\ s.pushed \in Nat /\ (Live(s) => s.rsp = s.pushed) BY Counters
<1> QED BY <1>1, ReleaseFields DEF Agree

\* The end of a step leaves the pool register alone while it is in use.
LEMMA AgreeSettled ==
  ASSUME NEW s, Shape(s), NEW p \in Int, NEW d \in Int, d <= s.depth
  PROVE  /\ Agree(s, Settled(s), p, d)
         /\ Settled(s).rax = s.rax /\ Settled(s).skip = s.skip
<1> DEFINE r == IF s.pool_used = 0 THEN Junk ELSE s.r10
           u == [s EXCEPT !.rcx = Junk, !.r10 = r]
<1>1. /\ s \in StType /\ s.depth \in Nat /\ s.pool_used = Regs(s.depth)
  BY Counters DEF Shape
<1>2. Settled(s) = IF Live(s) THEN u ELSE s BY <1>1 DEF Settled, StType
<1>3. Regs(d) = 1 => r = s.r10 BY <1>1 DEF Regs
<1> HIDE DEF r
<1>4. u.temps = s.temps /\ u.mem = s.mem /\ u.r10 = r /\ u.rax = s.rax /\ u.skip = s.skip
  BY <1>1 DEF StType
<1> HIDE DEF u
<1> QED BY <1>2, <1>3, <1>4 DEF Agree

\* It leaves the result and the machine's state alone.
LEMMA SettledSkip ==
  ASSUME NEW s, Shape(s) PROVE Settled(s).skip = s.skip /\ Settled(s).rax = s.rax
<1>1. 0 \in Int /\ 0 <= s.depth BY Counters
<1> QED BY <1>1, AgreeSettled

(***************************************************************************)
(* The temporaries.                                                        *)
(***************************************************************************)

\* The value of the temporary pushed last.
TopTemp(s) == IF Optimize /\ s.depth = 1 THEN s.r10 ELSE s.mem[s.rsp]

\* With one more stack entry in the table the state has its shape again.
LEMMA PushedTable ==
  ASSUME NEW s, Shape(s), ~(Optimize /\ s.pool_used < PoolSize)
  PROVE  LET entry == [is_reg |-> Optimize /\ s.pool_used < PoolSize,
                       spill_at_push |-> s.spill_pending]
         IN  Shape([s EXCEPT !.temps = Put(s.temps, s.depth, entry), !.depth = s.depth + 1])
<1> DEFINE inReg == Optimize /\ s.pool_used < PoolSize
           entry == [is_reg |-> inReg, spill_at_push |-> s.spill_pending]
           temps == Put(s.temps, s.depth, entry)
           n     == s.depth + 1
           t     == [s EXCEPT !.temps = temps, !.depth = n]
<1>0. /\ s \in StType /\ s.depth \in Nat /\ n \in Nat /\ s.pool_used = Regs(s.depth)
  BY Counters DEF Shape
<1>1. ~(Optimize /\ n = 1) /\ Regs(n) = Regs(s.depth) BY <1>0 DEF Regs, PoolSize
<1>2. entry \in EntryType BY <1>0, TempPoolAssumption DEF EntryType, StType
<1>3. temps \in [1..n -> EntryType] /\ temps \in Stack(EntryType)
  BY <1>0, <1>2, PutTyped, StackIntro DEF Shape
<1>4. \A i \in 1..n : temps[i].is_reg <=> (Optimize /\ i = 1)
  <2>1. entry.is_reg <=> FALSE BY Zenon
  <2>2. temps[n] = entry BY <1>0 DEF Put
  <2>3. \A i \in 1..s.depth : i /= n /\ temps[i] = s.temps[i] BY <1>0 DEF Put
  <2>4. \A i \in 1..n : i = n \/ i \in 1..s.depth BY <1>0
  <2> HIDE DEF temps, entry, n
  <2> QED BY <1>1, <2>1, <2>2, <2>3, <2>4 DEF Shape
<1> HIDE DEF temps, n, entry
<1>5. t \in StType BY <1>0, <1>3 DEF StType
<1>6. /\ t.temps = temps /\ t.depth = n /\ t.pool_used = s.pool_used /\ t.pushed = s.pushed
      /\ t.skip = s.skip /\ t.rsp = s.rsp /\ t.mem = s.mem
  BY <1>0 DEF StType
<1> HIDE DEF t
<1>7. Shape(t) BY <1>0, <1>1, <1>3, <1>4, <1>5, <1>6 DEF Shape, Live
<1> QED BY <1>7 DEF t, temps, n, entry

\* temp_push() parks %rax and disturbs no other temporary.
LEMMA PushValue ==
  ASSUME NEW s, Shape(s), NEW p \in Int, p <= s.pushed, NEW d \in Int, d <= s.depth
  PROVE  LET t == TempPush(s)
         IN  /\ Agree(s, t, p, d)
             /\ Live(s) => TopTemp(t) = s.rax
             /\ t.temps[t.depth].spill_at_push = s.spill_pending
             /\ t.rax = s.rax /\ t.rcx = s.rcx
<1> DEFINE inReg == Optimize /\ s.pool_used < PoolSize
           entry == [is_reg |-> inReg, spill_at_push |-> s.spill_pending]
           temps == Put(s.temps, s.depth, entry)
           n     == s.depth + 1
           s1    == [s EXCEPT !.temps = temps, !.depth = n]
           t     == TempPush(s)
<1>0. /\ s \in StType /\ s.depth \in Nat /\ s.pushed \in Nat /\ s.rsp \in Nat
      /\ s.pool_used = Regs(s.depth) /\ n \in Nat /\ (Live(s) => s.rsp = s.pushed)
  BY Counters DEF Shape
<1>1. inReg <=> (Optimize /\ n = 1)
  BY <1>0 DEF Regs, PoolSize
<1>2. entry \in EntryType BY <1>0, TempPoolAssumption DEF EntryType, StType
<1>3. temps \in [1..n -> EntryType] /\ temps \in Stack(EntryType)
  BY <1>0, <1>2, PutTyped, StackIntro DEF Shape
<1>4. temps[n] = entry /\ \A i \in 1..s.depth : temps[i] = s.temps[i] BY <1>0 DEF Put
<1>5. entry.spill_at_push = s.spill_pending OBVIOUS
<1>6. t = IF inReg THEN Set([s1 EXCEPT !.pool_used = @ + 1], "r10", s.rax) ELSE Pushq(s1, s.rax)
  BY DEF TempPush
<1>7. \A i \in 1..d : i \in 1..s.depth BY <1>0
<1>10. ~inReg => Shape(s1) BY PushedTable
<1> HIDE DEF t, temps, entry
<1> SUFFICES /\ Agree(s, t, p, d)
             /\ Live(s) => TopTemp(t) = s.rax
             /\ t.temps[t.depth].spill_at_push = s.spill_pending
             /\ t.rax = s.rax /\ t.rcx = s.rcx
  BY DEF t
<1>8. CASE inReg
  <2> DEFINE m == s.pool_used + 1
             u == [s1 EXCEPT !.pool_used = m]
  <2>1. t = Set(u, "r10", s.rax) BY <1>6, <1>8, <1>0, <1>3 DEF StType
  <2>2. Regs(d) /= 1 BY <1>0, <1>1, <1>8 DEF Regs
  <2>3. m \in Nat BY <1>0, RegsType
  <2> HIDE DEF m
  <2>4. /\ t.temps = temps /\ t.depth = n /\ t.mem = s.mem /\ t.rax = s.rax
        /\ t.rcx = s.rcx /\ t.r10 = (IF Live(s) THEN s.rax ELSE s.r10)
    BY <1>0, <2>1 DEF StType, Set, Live
  <2>5. Optimize /\ t.depth = 1 BY <1>1, <1>8, <2>4
  <2> HIDE DEF inReg, n
  <2> QED BY <1>0, <1>4, <1>5, <1>7, <2>2, <2>4, <2>5 DEF Agree, TopTemp
<1>9. CASE ~inReg
  <2>1. Shape(s1) BY <1>9, <1>10
  <2>2. /\ s1.temps = temps /\ s1.depth = n /\ s1.mem = s.mem /\ s1.rax = s.rax
        /\ s1.rcx = s.rcx /\ s1.r10 = s.r10 /\ s1.rsp = s.rsp /\ s1.skip = s.skip
        /\ s1.pushed = s.pushed
    BY <1>0 DEF StType
  <2>3. t = Grow(s1, 1, s.rax) BY <1>6, <1>9 DEF Pushq
  <2> HIDE DEF s1
  <2>4. /\ t.temps = temps /\ t.depth = n /\ t.rax = s.rax /\ t.rcx = s.rcx
        /\ t.r10 = s.r10 /\ \A i \in 1..s.rsp : t.mem[i] = s.mem[i]
        /\ t.rsp = (IF Live(s) THEN s.rsp + 1 ELSE s.rsp)
        /\ \A i \in 1..t.rsp : i > s.rsp => t.mem[i] = s.rax
    BY <2>1, <2>2, <2>3, GrowFields DEF Live
  <2>5. ~(Optimize /\ t.depth = 1) BY <1>1, <1>9, <2>4
  <2>6. Live(s) => t.rsp \in 1..t.rsp /\ t.rsp > s.rsp BY <1>0, <2>4
  <2>7. \A i \in 1..(IF Live(s) THEN p ELSE s.rsp) : i \in 1..s.rsp BY <1>0
  <2> HIDE DEF inReg, n
  <2> QED BY <1>4, <1>5, <1>7, <2>4, <2>5, <2>6, <2>7 DEF Agree, TopTemp
<1> QED BY <1>8, <1>9

\* Forgetting the last entry of the table, field by field.
LEMMA ForgetFields ==
  ASSUME NEW s, Shape(s), s.depth > 0
  PROVE  LET t == Forget(s)
         IN  /\ \A i \in 1..(s.depth - 1) : t.temps[i] = s.temps[i]
             /\ t.depth = s.depth - 1 /\ t.pool_used = s.pool_used /\ t.pushed = s.pushed
             /\ t.spill_pending = s.spill_pending /\ t.skip = s.skip
             /\ t.rax = s.rax /\ t.rcx = s.rcx /\ t.r10 = s.r10
             /\ t.rsp = s.rsp /\ t.mem = s.mem
<1> DEFINE temps == Cut(s.temps, s.depth - 1)
           n == s.depth - 1
<1>1. s \in StType /\ s.depth \in Nat BY DEF Shape, StType
<1>2. \A i \in 1..n : temps[i] = s.temps[i] BY DEF Cut
<1>3. Forget(s) = [s EXCEPT !.temps = temps, !.depth = n] BY <1>1 DEF Forget, StType
<1> HIDE DEF temps
<1> QED BY <1>1, <1>2, <1>3 DEF StType

\* The same when the entry is the register's.
LEMMA ForgetRegFields ==
  ASSUME NEW s, Shape(s), TopIsReg(s)
  PROVE  LET t == [Forget(s) EXCEPT !.pool_used = @ - 1]
         IN  /\ Shape(t) /\ s.depth = 1 /\ Optimize
             /\ t.depth = 0 /\ t.pushed = s.pushed
             /\ t.spill_pending = s.spill_pending /\ t.skip = s.skip
             /\ t.rax = s.rax /\ t.rcx = s.rcx /\ t.r10 = s.r10
             /\ t.rsp = s.rsp /\ t.mem = s.mem
<1> DEFINE u == Forget(s)
           k == u.pool_used - 1
           t == [u EXCEPT !.pool_used = k]
<1>1. Shape(t) /\ s.depth = 1 /\ Optimize BY ForgetRegEffect DEF Effect
<1>2. s \in StType BY DEF Shape
<1>3. t = [s EXCEPT !.temps = Cut(s.temps, s.depth - 1), !.depth = s.depth - 1,
                    !.pool_used = k]
  BY <1>2 DEF Forget, StType
<1>4. /\ t.depth = s.depth - 1 /\ t.pushed = s.pushed
      /\ t.spill_pending = s.spill_pending /\ t.skip = s.skip
      /\ t.rax = s.rax /\ t.rcx = s.rcx /\ t.r10 = s.r10
      /\ t.rsp = s.rsp /\ t.mem = s.mem
  <2> HIDE DEF t, k
  <2> QED BY <1>2, <1>3 DEF StType
<1> QED BY <1>1, <1>4

\* temp_pop_into() fetches what temp_push() parked last.
LEMMA PopValue ==
  ASSUME NEW s, Shape(s), s.depth > 0, OnStack(s.depth) <= s.pushed,
         NEW reg \in {"rax", "rcx"},
         NEW p \in Int, p <= s.pushed + (OnStack(s.depth - 1) - OnStack(s.depth)),
         NEW d \in Int, d <= s.depth - 1
  PROVE  LET t == TempPopInto(s, reg)
         IN  /\ Agree(s, t, p, d)
             /\ Live(s) => t[reg] = TopTemp(s)
             /\ \A r \in {"rax", "rcx"} : r /= reg => t[r] = s[r]
<1>0. /\ s.depth \in Nat /\ s.pushed \in Nat /\ s.rsp \in Nat /\ reg \in Reg /\ reg /= "r10"
      /\ "rax" \in Reg /\ "rcx" \in Reg /\ "r10" \in Reg
      /\ (Live(s) => s.rsp = s.pushed)
  BY Counters DEF Reg
<1>1. CASE TopIsReg(s)
  <2> DEFINE u == [Forget(s) EXCEPT !.pool_used = @ - 1]
             t == Set(u, reg, s.r10)
  <2>1. /\ Shape(u) /\ s.depth = 1 /\ Optimize /\ u.rax = s.rax /\ u.rcx = s.rcx
        /\ u.r10 = s.r10 /\ u.rsp = s.rsp /\ u.mem = s.mem /\ u.skip = s.skip
    BY <1>1, ForgetRegFields
  <2>2. TempPopInto(s, reg) = t BY <1>0, <1>1 DEF TempPopInto
  <2> HIDE DEF u
  <2>4. /\ t.mem = u.mem /\ (Live(u) => t[reg] = s.r10)
        /\ \A r \in Reg : r /= reg => t[r] = u[r]
        /\ (~Live(u) => t = u)
    BY <1>0, <2>1, SetFields
  <2>5. \A i \in 1..d : FALSE BY <2>1
  <2>6. Regs(d) /= 1 BY <2>1 DEF Regs
  <2>7. u["r10"] = s.r10 /\ u["rax"] = s.rax /\ u["rcx"] = s.rcx BY <2>1
  <2>8. t.r10 = s.r10 BY <1>0, <2>4, <2>7
  <2> HIDE DEF t
  <2>9. Live(u) <=> Live(s) BY <2>1 DEF Live
  <2>10. Agree(s, t, p, d) BY <2>1, <2>4, <2>5, <2>8, <2>9 DEF Agree
  <2>11. Live(s) => t[reg] = TopTemp(s) BY <2>1, <2>4, <2>9 DEF TopTemp
  <2>12. \A r \in {"rax", "rcx"} : r /= reg => t[r] = s[r] BY <1>0, <2>4, <2>7
  <2> QED BY <2>2, <2>10, <2>11, <2>12
<1>2. CASE ~TopIsReg(s)
  <2> DEFINE u == Forget(s)
             w == Set(u, reg, Word(u, u.rsp))
             t == Release(w, 1)
  <2>1. Shape(u) /\ OnStack(s.depth - 1) - OnStack(s.depth) = -1
    BY <1>2, ForgetStackEffect DEF Effect
  <2>2. TempPopInto(s, reg) = t BY <1>0, <1>2 DEF TempPopInto, Popq
  <2>3. /\ \A i \in 1..(s.depth - 1) : u.temps[i] = s.temps[i]
        /\ u.pushed = s.pushed /\ u.skip = s.skip
        /\ u.rax = s.rax /\ u.rcx = s.rcx /\ u.r10 = s.r10
        /\ u.rsp = s.rsp /\ u.mem = s.mem
    BY ForgetFields
  <2> HIDE DEF u
  <2>18. Shape(w) BY <2>1, SetEffect, WordTyped DEF Effect
  <2>4. /\ w.temps = u.temps /\ w.mem = u.mem /\ w.rsp = u.rsp /\ w.pushed = u.pushed
        /\ w.skip = u.skip
        /\ (Live(u) => w[reg] = Word(u, u.rsp)) /\ \A r \in Reg : r /= reg => w[r] = u[r]
        /\ (~Live(u) => w = u)
    BY <1>0, <2>1, SetFields
  <2> HIDE DEF w
  <2>5. 1 <= s.pushed
    <3>1. s.depth - 1 \in Nat BY <1>0
    <3>2. OnStack(s.depth - 1) \in Nat /\ OnStack(s.depth) \in Nat BY <1>0, <3>1, OnStackInt
    <3> QED BY <1>0, <2>1, <3>2
  <2>6. /\ t.temps = w.temps /\ t.rax = w.rax /\ t.rcx = w.rcx /\ t.r10 = w.r10
        /\ t.rsp = (IF Live(w) THEN w.rsp - 1 ELSE w.rsp)
        /\ \A i \in 1..t.rsp : t.mem[i] = w.mem[i]
    BY <2>3, <2>4, <2>5, <2>18, ReleaseFields
  <2> HIDE DEF t
  <2>7. (Live(u) <=> Live(s)) /\ (Live(w) <=> Live(s)) BY <2>3, <2>4 DEF Live
  <2>8. Live(s) => Word(u, u.rsp) = TopTemp(s)
    <3>1. ~(Optimize /\ s.depth = 1) BY <1>0, <1>2 DEF Shape, TopIsReg
    <3> QED BY <1>0, <2>3, <2>5, <3>1 DEF Word, TopTemp
  <2>9. /\ t["rax"] = w["rax"] /\ t["rcx"] = w["rcx"] /\ t["r10"] = w["r10"]
        /\ u["rax"] = s["rax"] /\ u["rcx"] = s["rcx"] /\ u["r10"] = s["r10"]
    BY <2>3, <2>6
  <2>10. \A r \in Reg : r /= reg => t[r] = s[r] BY <2>4, <2>9 DEF Reg
  <2>11. Live(s) => t[reg] = TopTemp(s) BY <1>0, <2>4, <2>7, <2>8, <2>9 DEF Reg
  <2>12. ~Live(s) => t.rax = s.rax BY <2>3, <2>4, <2>6, <2>7
  <2>13. t.r10 = s.r10 BY <1>0, <2>10
  <2>14. \A i \in 1..d : t.temps[i] = s.temps[i] BY <1>0, <2>3, <2>4, <2>6
  <2>15. \A i \in 1..(IF Live(s) THEN p ELSE s.rsp) : t.mem[i] = s.mem[i]
    <3>1. p <= s.pushed - 1 BY <1>0, <2>1
    <3>2. t.rsp = IF Live(s) THEN s.rsp - 1 ELSE s.rsp BY <2>3, <2>4, <2>6, <2>7
    <3>3. \A i \in 1..(IF Live(s) THEN p ELSE s.rsp) : i \in 1..t.rsp BY <1>0, <3>1, <3>2
    <3> QED BY <2>3, <2>4, <2>6, <3>3
  <2>16. Agree(s, t, p, d) BY <2>12, <2>13, <2>14, <2>15 DEF Agree
  <2>17. \A r \in {"rax", "rcx"} : r /= reg => t[r] = s[r] BY <2>10 DEF Reg
  <2> QED BY <2>2, <2>11, <2>16, <2>17
<1> QED BY <1>1, <1>2

\* temp_drop() disturbs no value.
LEMMA DropValue ==
  ASSUME NEW s, Shape(s), s.depth > 0, OnStack(s.depth) <= s.pushed,
         NEW p \in Int, p <= s.pushed + (OnStack(s.depth - 1) - OnStack(s.depth)),
         NEW d \in Int, d <= s.depth - 1
  PROVE  LET t == TempDrop(s)
         IN  Agree(s, t, p, d) /\ t.rax = s.rax /\ t.rcx = s.rcx
<1>0. /\ s.depth \in Nat /\ s.pushed \in Nat /\ s.rsp \in Nat
      /\ (Live(s) => s.rsp = s.pushed)
  BY Counters
<1>1. CASE TopIsReg(s)
  <2> DEFINE u == [Forget(s) EXCEPT !.pool_used = @ - 1]
  <2>1. /\ s.depth = 1 /\ Optimize /\ u.rax = s.rax /\ u.rcx = s.rcx
        /\ u.r10 = s.r10 /\ u.mem = s.mem
    BY <1>1, ForgetRegFields
  <2>2. TempDrop(s) = u BY <1>0, <1>1 DEF TempDrop
  <2> HIDE DEF u
  <2>3. \A i \in 1..d : FALSE BY <2>1
  <2> QED BY <2>1, <2>2, <2>3 DEF Agree
<1>2. CASE ~TopIsReg(s)
  <2> DEFINE u == Forget(s)
             t == Release(u, 1)
  <2>1. Shape(u) /\ OnStack(s.depth - 1) - OnStack(s.depth) = -1
    BY <1>2, ForgetStackEffect DEF Effect
  <2>2. TempDrop(s) = t BY <1>0, <1>2 DEF TempDrop
  <2>3. /\ \A i \in 1..(s.depth - 1) : u.temps[i] = s.temps[i]
        /\ u.pushed = s.pushed /\ u.skip = s.skip
        /\ u.rax = s.rax /\ u.rcx = s.rcx /\ u.r10 = s.r10
        /\ u.rsp = s.rsp /\ u.mem = s.mem
    BY ForgetFields
  <2> HIDE DEF u
  <2>4. 1 <= s.pushed
    <3>1. s.depth - 1 \in Nat BY <1>0
    <3>2. OnStack(s.depth - 1) \in Nat /\ OnStack(s.depth) \in Nat BY <1>0, <3>1, OnStackInt
    <3> QED BY <1>0, <2>1, <3>2
  <2>5. /\ t.temps = u.temps /\ t.rax = u.rax /\ t.rcx = u.rcx /\ t.r10 = u.r10
        /\ t.rsp = (IF Live(u) THEN u.rsp - 1 ELSE u.rsp)
        /\ \A i \in 1..t.rsp : t.mem[i] = u.mem[i]
    BY <2>1, <2>3, <2>4, ReleaseFields
  <2> HIDE DEF t
  <2>6. Live(u) <=> Live(s) BY <2>3 DEF Live
  <2>7. \A i \in 1..d : t.temps[i] = s.temps[i] BY <1>0, <2>3, <2>5
  <2>8. \A i \in 1..(IF Live(s) THEN p ELSE s.rsp) : i \in 1..t.rsp
    BY <1>0, <2>1, <2>3, <2>5, <2>6
  <2>9. Agree(s, t, p, d) BY <2>3, <2>5, <2>7, <2>8 DEF Agree
  <2> QED BY <2>2, <2>3, <2>5, <2>9
<1> QED BY <1>1, <1>2

\* temp_peek_into() of the newest temporary.
LEMMA PeekTop ==
  ASSUME NEW s, Shape(s), Live(s), s.depth > 0, OnStack(s.depth) <= s.pushed,
         s.temps[s.depth].spill_at_push = s.spill_pending
  PROVE  TempPeek(s, 0) = TopTemp(s)
<1>0. /\ s.depth \in Nat /\ s.pushed \in Nat /\ s.rsp = s.pushed /\ s.spill_pending \in Nat
      /\ s.depth - 0 = s.depth /\ s.depth \in 1..s.depth
  BY Counters
<1>1. s.temps[s.depth].is_reg <=> (Optimize /\ s.depth = 1) BY <1>0, Counters
<1>2. CASE Optimize /\ s.depth = 1 BY <1>0, <1>1, <1>2 DEF TempPeek, TopTemp
<1>3. CASE ~(Optimize /\ s.depth = 1)
  <2>1. OnStack(s.depth) >= 1 BY <1>0, <1>3 DEF OnStack, Regs
  <2> DEFINE A == {j \in (s.depth + 1)..s.depth : ~s.temps[j].is_reg}
  <2>2. A = {} BY <1>0
  <2>3. Cardinality(A) = 0 BY <2>2, FS_EmptySet
  <2>4. TempPeek(s, 0) = Word(s, s.rsp - (Cardinality(A) + (s.spill_pending - s.temps[s.depth].spill_at_push)))
    BY <1>0, <1>1, <1>3 DEF TempPeek
  <2> HIDE DEF A
  <2>5. s.rsp - (Cardinality(A) + (s.spill_pending - s.temps[s.depth].spill_at_push)) = s.rsp
    BY <1>0, <2>3
  <2>6. s.rsp \in 1..s.rsp BY <1>0, <2>1 DEF OnStack, Regs
  <2> QED BY <1>3, <2>4, <2>5, <2>6 DEF Word, TopTemp
<1> QED BY <1>2, <1>3

\* temp_peek_into() of the one under it: the newest is on the stack.
LEMMA PeekNext ==
  ASSUME NEW s, Shape(s), Live(s), s.depth > 1, OnStack(s.depth) <= s.pushed,
         s.temps[s.depth - 1].spill_at_push = s.spill_pending
  PROVE  TempPeek(s, 1) = IF Optimize /\ s.depth = 2 THEN s.r10 ELSE s.mem[s.rsp - 1]
<1>0. /\ s.depth \in Nat /\ s.pushed \in Nat /\ s.rsp = s.pushed /\ s.spill_pending \in Nat
      /\ s.depth - 1 \in 1..s.depth /\ s.depth \in 1..s.depth /\ (s.depth - 1) + 1 = s.depth
  BY Counters
<1>4. (s.depth - 1 = 1 <=> s.depth = 2) /\ s.depth /= 1 BY <1>0
<1>5. \A i \in 1..s.depth : s.temps[i].is_reg <=> (Optimize /\ i = 1) BY Counters
<1>1. /\ s.temps[s.depth - 1].is_reg <=> (Optimize /\ s.depth = 2)
      /\ ~s.temps[s.depth].is_reg
  BY <1>0, <1>4, <1>5, Zenon
<1>2. CASE Optimize /\ s.depth = 2 BY <1>0, <1>1, <1>2 DEF TempPeek
<1>3. CASE ~(Optimize /\ s.depth = 2)
  <2>1. OnStack(s.depth) >= 2 BY <1>0, <1>3 DEF OnStack, Regs
  <2> DEFINE A == {j \in ((s.depth - 1) + 1)..s.depth : ~s.temps[j].is_reg}
  <2>2. A = {s.depth} BY <1>0, <1>1
  <2>3. Cardinality(A) = 1 BY <2>2, FS_Singleton
  <2>4. TempPeek(s, 1) = Word(s, s.rsp - (Cardinality(A) + (s.spill_pending - s.temps[s.depth - 1].spill_at_push)))
    BY <1>0, <1>1, <1>3 DEF TempPeek
  <2> HIDE DEF A
  <2>5. s.rsp - (Cardinality(A) + (s.spill_pending - s.temps[s.depth - 1].spill_at_push)) = s.rsp - 1
    BY <1>0, <2>3
  <2>6. OnStack(s.depth) \in Nat BY <1>0, OnStackInt
  <2>7. s.rsp - 1 \in 1..s.rsp BY <1>0, <2>1, <2>6
  <2> QED BY <1>3, <2>4, <2>5, <2>7 DEF Word
<1> QED BY <1>2, <1>3

\* temp_spill() puts the pool register on the stack, if it is taken.
LEMMA SpillValue ==
  ASSUME NEW s, Shape(s), NEW p \in Int, p <= s.pushed, NEW d
  PROVE  LET t == TempSpill(s)
         IN  /\ Agree(s, t, p, d)
             /\ t.rax = s.rax /\ t.rcx = s.rcx /\ t.r10 = s.r10
             /\ \A i \in 1..s.rsp : t.mem[i] = s.mem[i]
             /\ Live(s) /\ Regs(s.depth) = 1 => t.mem[s.rsp + 1] = s.r10
<1>0. /\ s.depth \in Nat /\ s.pushed \in Nat /\ s.rsp \in Nat /\ s.pool_used = Regs(s.depth)
      /\ (Live(s) => s.rsp = s.pushed)
  BY Counters
<1>1. CASE Regs(s.depth) = 0
  <2>1. TempSpill(s) = s BY <1>0, <1>1 DEF TempSpill
  <2> QED BY <1>1, <2>1, AgreeSame
<1>2. CASE Regs(s.depth) = 1
  <2> DEFINE u == Grow(s, 1, s.r10)
             k == u.spill_pending + 1
             t == [u EXCEPT !.spill_pending = k]
  <2>1. /\ u.temps = s.temps /\ u.rax = s.rax /\ u.rcx = s.rcx /\ u.r10 = s.r10
        /\ u.rsp = (IF Live(s) THEN s.rsp + 1 ELSE s.rsp)
        /\ \A i \in 1..s.rsp : u.mem[i] = s.mem[i]
        /\ \A i \in 1..u.rsp : i > s.rsp => u.mem[i] = s.r10
    BY GrowFields
  <2>2. s.r10 \in Pattern BY Counters
  <2>3. u \in StType BY <2>2, GrowEffect DEF Effect, Shape
  <2>4. TempSpill(s) = t BY <1>0, <1>2, <2>3 DEF TempSpill, Pushq, StType
  <2> HIDE DEF u, k
  <2>5. /\ t.temps = u.temps /\ t.rax = u.rax /\ t.rcx = u.rcx /\ t.r10 = u.r10
        /\ t.mem = u.mem
    BY <2>3 DEF StType
  <2> HIDE DEF t
  <2>6. \A i \in 1..(IF Live(s) THEN p ELSE s.rsp) : i \in 1..s.rsp BY <1>0
  <2>7. Agree(s, t, p, d) BY <2>1, <2>5, <2>6 DEF Agree
  <2>8. Live(s) => t.mem[s.rsp + 1] = s.r10 BY <1>0, <2>1, <2>5
  <2> QED BY <2>1, <2>4, <2>5, <2>7, <2>8
<1> QED BY <1>0, <1>1, <1>2, RegsType

\* temp_unspill() fetches the pool register from the top of the stack.
LEMMA UnspillValue ==
  ASSUME NEW s, Shape(s), NEW n \in {0, 1}, n <= s.pushed
  PROVE  LET t == TempUnspill(s, n)
         IN  /\ t.temps = s.temps /\ t.rax = s.rax /\ t.rcx = s.rcx
             /\ t.r10 = IF Live(s) /\ n = 1 THEN s.mem[s.rsp] ELSE s.r10
             /\ \A i \in 1..(IF Live(s) THEN s.rsp - n ELSE s.rsp) : t.mem[i] = s.mem[i]
<1>0. /\ s.pushed \in Nat /\ s.rsp \in Nat /\ (Live(s) => s.rsp = s.pushed)
  BY Counters
<1>1. CASE n = 0
  <2>1. TempUnspill(s, n) = s BY <1>1 DEF TempUnspill
  <2> QED BY <1>0, <1>1, <2>1
<1>2. CASE n = 1
  <2> DEFINE w == Set(s, "r10", Word(s, s.rsp))
             u == Release(w, 1)
             k == u.spill_pending - 1
             t == [u EXCEPT !.spill_pending = k]
  <2>1. Shape(w) BY SetEffect, WordTyped DEF Effect
  <2>2. /\ w.temps = s.temps /\ w.mem = s.mem /\ w.rsp = s.rsp /\ w.pushed = s.pushed
        /\ w.skip = s.skip /\ (Live(s) => w.r10 = Word(s, s.rsp))
        /\ w.rax = s.rax /\ w.rcx = s.rcx /\ (~Live(s) => w = s)
    BY SetFields DEF Reg
  <2>3. TempUnspill(s, n) = [u EXCEPT !.spill_pending = @ - 1]
    BY <1>2 DEF TempUnspill, Popq
  <2> HIDE DEF w
  <2>4. /\ u.temps = w.temps /\ u.rax = w.rax /\ u.rcx = w.rcx /\ u.r10 = w.r10
        /\ u.rsp = (IF Live(w) THEN w.rsp - 1 ELSE w.rsp)
        /\ \A i \in 1..u.rsp : u.mem[i] = w.mem[i]
    BY <1>2, <2>1, <2>2, ReleaseFields
  <2>5. u \in StType BY <1>2, <2>1, <2>2, ReleaseEffect DEF Effect, Shape
  <2> HIDE DEF u
  <2>6. TempUnspill(s, n) = t BY <2>3, <2>5 DEF StType
  <2> HIDE DEF k
  <2>7. /\ t.temps = u.temps /\ t.rax = u.rax /\ t.rcx = u.rcx /\ t.r10 = u.r10
        /\ t.mem = u.mem
    BY <2>5 DEF StType
  <2> HIDE DEF t
  <2>8. Live(w) <=> Live(s) BY <2>2 DEF Live
  <2>9. Live(s) => Word(s, s.rsp) = s.mem[s.rsp] BY <1>0, <1>2 DEF Word
  <2>10. t.r10 = IF Live(s) /\ n = 1 THEN s.mem[s.rsp] ELSE s.r10
    BY <1>2, <2>2, <2>4, <2>7, <2>9
  <2>11. \A i \in 1..(IF Live(s) THEN s.rsp - n ELSE s.rsp) : t.mem[i] = s.mem[i]
    BY <1>2, <2>2, <2>4, <2>7, <2>8
  <2> QED BY <2>2, <2>4, <2>6, <2>7, <2>10, <2>11
<1> QED BY <1>1, <1>2

\* The instructions of an operator leave its result in %rax; only a division, and
\* a subtraction in the pool register, write %r10.
LEMMA BinopValue ==
  ASSUME NEW s, Shape(s), NEW op \in Ops, NEW reg \in {"rcx", "r10"}, NEW v \in Value
  PROVE  LET t == EmitBinop(s, op, reg, v)
         IN  /\ t.temps = s.temps /\ t.mem = s.mem /\ t.rsp = s.rsp /\ t.skip = s.skip
             /\ (Live(s) => t.rax = v) /\ (~Live(s) => t = s)
             /\ (~Live(s) \/ (reg = "rcx" /\ op /= "div")) => t.r10 = s.r10
<1> DEFINE s1 == CASE op = "keep"  -> s
                   [] op = "sub"   -> Set(s, reg, Junk)
                   [] op = "shift" -> Set(s, "rcx", Junk)
                   [] op = "div"   -> Set(s, "r10", Junk)
           t == Set(s1, "rax", v)
<1>0. "rax" \in Reg /\ "rcx" \in Reg /\ "r10" \in Reg /\ Junk \in Pattern /\ reg \in Reg
  BY DEF Reg, Pattern
<1>1. EmitBinop(s, op, reg, v) = t BY DEF EmitBinop
<1>2. Shape(s1)
  <2>1. Shape(Set(s, reg, Junk)) /\ Shape(Set(s, "rcx", Junk)) /\ Shape(Set(s, "r10", Junk))
    BY <1>0, SetEffect DEF Effect
  <2> QED BY <2>1 DEF Ops
<1>3. /\ s1.temps = s.temps /\ s1.mem = s.mem /\ s1.rsp = s.rsp /\ s1.skip = s.skip
      /\ (~Live(s) => s1 = s)
      /\ (~Live(s) \/ (reg = "rcx" /\ op /= "div")) => s1["r10"] = s["r10"]
  <2>1. CASE op = "keep" BY <2>1
  <2>2. CASE op = "sub" BY <1>0, <2>2, SetFields
  <2>3. CASE op = "shift" BY <1>0, <2>3, SetFields
  <2>4. CASE op = "div" BY <1>0, <2>4, SetFields
  <2> QED BY <2>1, <2>2, <2>3, <2>4 DEF Ops
<1> HIDE DEF s1
<1>4. /\ t.temps = s1.temps /\ t.mem = s1.mem /\ t.rsp = s1.rsp /\ t.skip = s1.skip
      /\ (Live(s1) => t["rax"] = v) /\ t["r10"] = s1["r10"] /\ (~Live(s1) => t = s1)
  BY <1>0, <1>2, SetFields
<1> HIDE DEF t
<1>5. Live(s1) <=> Live(s) BY <1>3 DEF Live
<1> QED BY <1>1, <1>3, <1>4, <1>5

\* temp_combine() reads the left operand from where it was parked and leaves
\* what else is parked alone, also around the division that writes %r10.
LEMMA CombineValue ==
  ASSUME NEW s, Shape(s), s.depth > 0, OnStack(s.depth) <= s.pushed,
         NEW op \in Ops, NEW v \in Value,
         NEW p \in Int, p <= s.pushed + (OnStack(s.depth - 1) - OnStack(s.depth)),
         NEW d \in Int, d <= s.depth - 1
  PROVE  LET t == TempCombine(s, op, v)
         IN  /\ Agree(s, t, p, d)
             /\ Live(s) => t.rax = v
             /\ Live(s) => CombineLeft(s, op) = TopTemp(s)
<1>0. /\ s.depth \in Nat /\ s.pushed \in Nat /\ s.rsp \in Nat /\ s.depth - 1 \in Nat
      /\ (Live(s) => s.rsp = s.pushed)
  BY Counters
<1>1. CASE InPlace(s, op)
  <2> DEFINE u == [Forget(s) EXCEPT !.pool_used = @ - 1]
             t == EmitBinop(u, op, "r10", v)
  <2>1. /\ Shape(u) /\ s.depth = 1 /\ Optimize /\ u.rax = s.rax
        /\ u.r10 = s.r10 /\ u.mem = s.mem /\ u.skip = s.skip
    BY <1>1, ForgetRegFields DEF InPlace
  <2>2. TempCombine(s, op, v) = t BY <1>1 DEF TempCombine
  <2> HIDE DEF u
  <2>3. /\ t.mem = u.mem /\ (Live(u) => t.rax = v) /\ (~Live(u) => t = u)
    BY <2>1, BinopValue
  <2> HIDE DEF t
  <2>4. Live(u) <=> Live(s) BY <2>1 DEF Live
  <2>5. \A i \in 1..d : FALSE BY <2>1
  <2>6. Regs(d) /= 1 BY <2>1 DEF Regs
  <2>7. Agree(s, t, p, d) BY <2>1, <2>3, <2>4, <2>5, <2>6 DEF Agree
  <2>8. op /= "div" BY <1>1 DEF InPlace, ClobbersScratch
  <2>9. CombineLeft(s, op) = s.r10 BY <1>1, <2>8 DEF CombineLeft, BinopLeft
  <2> QED BY <2>1, <2>2, <2>3, <2>4, <2>7, <2>9 DEF TopTemp
<1>2. CASE ~InPlace(s, op)
  <2> DEFINE popped == TempPopInto(s, "rcx")
             kept   == IF ClobbersPool(op) THEN popped.pool_used ELSE 0
             saved  == IF kept > 0 THEN TempSpill(popped) ELSE popped
             done   == EmitBinop(saved, op, "rcx", v)
             t      == TempUnspill(done, kept)
             pp     == s.pushed + (OnStack(s.depth - 1) - OnStack(s.depth))
  <2>1. TempCombine(s, op, v) = t BY <1>2 DEF TempCombine
  <2>2. Effect(s, popped, -1, OnStack(s.depth - 1) - OnStack(s.depth), 0) BY PopEffect
  <2>3. /\ Agree(s, popped, p, d) /\ (Live(s) => popped["rcx"] = TopTemp(s))
    BY PopValue
  <2>4. CombineLeft(s, op) = popped["rcx"] BY <1>2 DEF CombineLeft, BinopLeft
  <2> HIDE DEF popped
  <2>5. /\ Shape(popped) /\ popped.depth = s.depth - 1 /\ popped.pushed = pp
        /\ popped.skip = s.skip /\ popped.rsp \in Nat /\ popped.pool_used = Regs(popped.depth)
        /\ (Live(popped) => popped.rsp = popped.pushed) /\ popped.pushed \in Nat
        /\ (~Live(s) => popped.rsp = s.rsp)
    BY <1>0, <2>2, Counters DEF Effect
  <2>6. (Live(popped) <=> Live(s)) BY <2>5 DEF Live
  <2>7. p <= pp OBVIOUS
  <2> HIDE DEF pp
  <2>8. kept \in {0, 1} /\ (kept > 0 => op = "div" /\ kept = Regs(popped.depth))
        /\ (kept = 0 => op /= "div" \/ Regs(popped.depth) = 0)
    BY <1>0, <2>5, RegsType DEF ClobbersPool
  <2>9. Effect(popped, saved, 0, kept, kept)
    <3>1. CASE kept > 0 BY <2>5, <2>8, <3>1, SpillEffect
    <3>2. CASE ~(kept > 0)
      <4>1. kept = 0 /\ saved = popped BY <2>8, <3>2
      <4> QED BY <2>5, <4>1, Idle
    <3> QED BY <3>1, <3>2
  <2>10. /\ Agree(popped, saved, p, d) /\ saved.rax = popped.rax /\ saved.r10 = popped.r10
         /\ (Live(s) /\ kept = 1 => saved.mem[popped.rsp + 1] = popped.r10)
         /\ \A i \in 1..popped.rsp : saved.mem[i] = popped.mem[i]
    <3>1. CASE kept > 0
      <4>1. saved = TempSpill(popped) BY <3>1
      <4>2. Regs(popped.depth) = 1 BY <2>8, <3>1
      <4> HIDE DEF kept, saved
      <4> QED BY <2>5, <2>6, <2>7, <4>1, <4>2, SpillValue
    <3>2. CASE ~(kept > 0)
      <4>1. kept = 0 /\ saved = popped BY <2>8, <3>2
      <4> QED BY <4>1, AgreeSame
    <3> QED BY <3>1, <3>2
  <2> HIDE DEF kept, saved
  <2>11. Shape(saved) /\ saved.skip = s.skip /\ saved.pushed = popped.pushed + kept
         /\ saved.rsp = (IF Live(s) THEN popped.rsp + kept ELSE s.rsp)
    BY <2>5, <2>6, <2>9 DEF Effect
  <2>12. Live(saved) <=> Live(s) BY <2>11 DEF Live
  <2>13. /\ done.temps = saved.temps /\ done.mem = saved.mem /\ done.rsp = saved.rsp
         /\ done.skip = saved.skip
         /\ (Live(s) => done.rax = v) /\ (~Live(s) => done = saved)
         /\ (~Live(s) \/ op /= "div" => done.r10 = saved.r10)
    BY <2>11, <2>12, BinopValue
  <2>14. Effect(saved, done, 0, 0, 0) BY <2>11, BinopEffect
  <2> HIDE DEF done
  <2>15. Shape(done) /\ kept <= done.pushed
    <3>1. done.pushed = saved.pushed + 0 /\ Shape(done) BY <2>14 DEF Effect
    <3> QED BY <2>5, <2>8, <2>11, <3>1
  <2>16. Live(done) <=> Live(s) BY <2>11, <2>13 DEF Live
  <2>17. /\ t.temps = done.temps /\ t.rax = done.rax
         /\ t.r10 = (IF Live(done) /\ kept = 1 THEN done.mem[done.rsp] ELSE done.r10)
         /\ \A i \in 1..(IF Live(done) THEN done.rsp - kept ELSE done.rsp) : t.mem[i] = done.mem[i]
    BY <2>8, <2>15, UnspillValue
  <2> HIDE DEF t
  <2>18. \A i \in 1..d : t.temps[i] = popped.temps[i] BY <2>10, <2>13, <2>17 DEF Agree
  <2>19. \A i \in 1..(IF Live(s) THEN p ELSE s.rsp) : t.mem[i] = popped.mem[i]
    <3>1. kept \in Nat BY <2>8
    <3>2. \A i \in 1..(IF Live(s) THEN p ELSE s.rsp) :
            /\ i \in 1..popped.rsp
            /\ i \in 1..(IF Live(done) THEN done.rsp - kept ELSE done.rsp)
      <4>1. Live(s) => done.rsp - kept = popped.rsp /\ p <= popped.rsp
        BY <2>5, <2>6, <2>7, <2>11, <2>13, <3>1
      <4>2. ~Live(s) => done.rsp = popped.rsp /\ s.rsp = popped.rsp BY <2>5, <2>11, <2>13
      <4> QED BY <1>0, <2>5, <2>16, <4>1, <4>2
    <3> QED BY <2>10, <2>13, <2>17, <3>2
  <2>20. ~Live(s) \/ Regs(d) = 1 => t.r10 = popped.r10
    <3>1. CASE ~Live(s) BY <2>10, <2>13, <2>16, <2>17, <3>1
    <3>2. CASE Live(s) /\ Regs(d) = 1
      <4>1. Regs(popped.depth) = 1 BY <1>0, <2>5, <3>2 DEF Regs
      <4>2. CASE kept = 1
        <5>1. done.rsp = popped.rsp + 1 BY <2>11, <2>13, <3>2, <4>2
        <5> QED BY <2>10, <2>13, <2>16, <2>17, <3>2, <4>2, <5>1
      <4>3. CASE kept = 0
        <5>1. op /= "div" BY <2>8, <4>1, <4>3
        <5> QED BY <2>10, <2>13, <2>17, <4>3, <5>1
      <4> QED BY <2>8, <4>2, <4>3
    <3> QED BY <3>1, <3>2
  <2>21. Agree(popped, t, p, d)
    BY <2>5, <2>6, <2>10, <2>13, <2>17, <2>18, <2>19, <2>20 DEF Agree
  <2>22. Agree(s, t, p, d) BY <2>3, <2>5, <2>21, AgreeChain
  <2> QED BY <2>1, <2>3, <2>4, <2>13, <2>17, <2>22
<1> QED BY <1>1, <1>2

\* A call returns its value in %rax; what it clobbers the pool does not miss, the
\* register having been parked below the arguments.
LEMMA CallValue ==
  ASSUME NEW s, Shape(s), NEW n \in Nat, NEW spilled \in {0, 1}, NEW padded \in {0, 1},
         NEW v \in Value, n + padded + spilled <= s.pushed,
         NEW p \in Int, p <= s.pushed - (n + padded + spilled),
         NEW d, Regs(d) = 1 => spilled = 1,
         Live(s) /\ spilled = 1 => s.mem[s.pushed - (n + padded)] = s.r10
  PROVE  LET t == CallEmit(s, n, spilled, padded, v)
         IN  Agree(s, t, p, d) /\ (Live(s) => t.rax = v)
<1> DEFINE a == Release(s, Moved(n))
           b == Grow(a, Shadow, Junk)
           c == Set(b, "r10", Junk)
           e == Set(c, "rcx", Junk)
           f == Set(e, "rax", v)
           cleanup == StackArgs(n) + Shadow + padded
           g == Release(f, cleanup)
           t == TempUnspill(g, spilled)
           low == s.pushed - (n + padded)
<1>0. /\ s.pushed \in Nat /\ s.rsp \in Nat /\ Shadow \in Nat
      /\ Moved(n) \in Nat /\ StackArgs(n) \in Nat /\ Moved(n) + StackArgs(n) = n
      /\ Junk \in Pattern /\ v \in Pattern /\ (Live(s) => s.rsp = s.pushed)
  BY TempPoolAssumption, Counters DEF Pattern, Moved, StackArgs
<1>1. CallEmit(s, n, spilled, padded, v) = t BY DEF CallEmit, Ready
<1>2. /\ Shape(a) /\ a.temps = s.temps /\ a.r10 = s.r10 /\ a.skip = s.skip /\ a.rax = s.rax
      /\ a.pushed = s.pushed - Moved(n)
      /\ a.rsp = (IF Live(s) THEN s.rsp - Moved(n) ELSE s.rsp)
      /\ \A i \in 1..a.rsp : a.mem[i] = s.mem[i]
  <2>1. Moved(n) <= s.pushed BY <1>0
  <2>2. Effect(s, a, 0, -Moved(n), 0) BY <1>0, <2>1, ReleaseEffect
  <2>3. Shape(a) BY <2>2 DEF Effect
  <2> HIDE DEF a
  <2>4. a = Release(s, Moved(n)) BY DEF a
  <2> QED BY <1>0, <2>1, <2>3, <2>4, ReleaseFields
<1> HIDE DEF a
<1>3. /\ Shape(b) /\ b.temps = a.temps /\ b.r10 = a.r10 /\ b.skip = a.skip /\ b.rax = a.rax
      /\ b.pushed = a.pushed + Shadow
      /\ b.rsp = (IF Live(a) THEN a.rsp + Shadow ELSE a.rsp)
      /\ \A i \in 1..a.rsp : b.mem[i] = a.mem[i]
  <2>1. Effect(a, b, 0, Shadow, 0) BY <1>0, <1>2, GrowEffect
  <2>2. Shape(b) BY <2>1 DEF Effect
  <2> QED BY <1>0, <1>2, <2>2, GrowFields
<1> HIDE DEF b
<1>4. /\ Shape(f) /\ f.temps = b.temps /\ f.mem = b.mem /\ f.rsp = b.rsp /\ f.pushed = b.pushed
      /\ f.skip = b.skip /\ (~Live(b) => f = b) /\ (Live(b) => f.rax = v)
  <2>1. Shape(c) BY <1>0, <1>3, SetEffect DEF Effect
  <2>2. /\ c.temps = b.temps /\ c.mem = b.mem /\ c.rsp = b.rsp /\ c.pushed = b.pushed
        /\ c.skip = b.skip /\ (~Live(b) => c = b)
    BY <1>3, SetFields DEF Reg
  <2> HIDE DEF c
  <2>3. Shape(e) BY <1>0, <2>1, SetEffect DEF Effect
  <2>4. /\ e.temps = c.temps /\ e.mem = c.mem /\ e.rsp = c.rsp /\ e.pushed = c.pushed
        /\ e.skip = c.skip /\ (~Live(c) => e = c)
    BY <2>1, SetFields DEF Reg
  <2> HIDE DEF e
  <2>5. Shape(f) BY <1>0, <2>3, SetEffect DEF Effect
  <2>6. /\ f.temps = e.temps /\ f.mem = e.mem /\ f.rsp = e.rsp /\ f.pushed = e.pushed
        /\ f.skip = e.skip /\ (~Live(e) => f = e) /\ (Live(e) => f.rax = v)
    BY <2>3, SetFields DEF Reg
  <2> HIDE DEF f
  <2> QED BY <2>2, <2>4, <2>5, <2>6 DEF Live
<1> HIDE DEF f
<1>5. cleanup \in Nat /\ cleanup <= f.pushed BY <1>0, <1>2, <1>3, <1>4
<1>6. /\ Shape(g) /\ g.temps = f.temps /\ g.rax = f.rax /\ g.r10 = f.r10 /\ g.skip = f.skip
      /\ g.pushed = f.pushed - cleanup
      /\ g.rsp = (IF Live(f) THEN f.rsp - cleanup ELSE f.rsp)
      /\ \A i \in 1..g.rsp : g.mem[i] = f.mem[i]
  <2> HIDE DEF cleanup
  <2>1. Effect(f, g, 0, -cleanup, 0) BY <1>4, <1>5, ReleaseEffect
  <2>2. Shape(g) BY <2>1 DEF Effect
  <2> QED BY <1>4, <1>5, <2>2, ReleaseFields
<1> HIDE DEF g
<1>7. /\ (Live(a) <=> Live(s)) /\ (Live(b) <=> Live(s)) /\ (Live(f) <=> Live(s))
      /\ (Live(g) <=> Live(s))
  BY <1>2, <1>3, <1>4, <1>6 DEF Live
<1>8. /\ g.pushed = low /\ low \in Nat /\ spilled <= low
      /\ (Live(s) => g.rsp = low) /\ (~Live(s) => g.rsp = s.rsp)
  BY <1>0, <1>2, <1>3, <1>4, <1>5, <1>6, <1>7
<1>9. /\ t.temps = g.temps /\ t.rax = g.rax
      /\ t.r10 = (IF Live(g) /\ spilled = 1 THEN g.mem[g.rsp] ELSE g.r10)
      /\ \A i \in 1..(IF Live(g) THEN g.rsp - spilled ELSE g.rsp) : t.mem[i] = g.mem[i]
  BY <1>6, <1>8, UnspillValue
<1> HIDE DEF t
<1>10. \A i \in 1..g.rsp : i \in 1..a.rsp
  <2>1. g.rsp <= a.rsp /\ a.rsp \in Int /\ g.rsp \in Int BY <1>0, <1>2, <1>7, <1>8
  <2> QED BY <2>1
<1>11. \A i \in 1..g.rsp : g.mem[i] = s.mem[i] BY <1>2, <1>3, <1>4, <1>6, <1>10
<1>12. \A i \in 1..(IF Live(s) THEN p ELSE s.rsp) : t.mem[i] = s.mem[i]
  <2>1. p <= low - spilled /\ low - spilled \in Int BY <1>0
  <2>2. \A i \in 1..(IF Live(s) THEN p ELSE s.rsp) :
          i \in 1..g.rsp /\ i \in 1..(IF Live(g) THEN g.rsp - spilled ELSE g.rsp)
    BY <1>0, <1>7, <1>8, <2>1
  <2> QED BY <1>9, <1>11, <2>2
<1>13. ~Live(s) \/ Regs(d) = 1 => t.r10 = s.r10
  <2>1. CASE ~Live(s) BY <1>2, <1>3, <1>4, <1>6, <1>7, <1>9, <2>1
  <2>2. CASE Live(s) /\ Regs(d) = 1
    <3>1. spilled = 1 /\ g.rsp = low /\ g.rsp \in 1..g.rsp BY <1>8, <2>2
    <3> QED BY <1>7, <1>9, <1>11, <2>2, <3>1
  <2> QED BY <2>1, <2>2
<1>14. Live(s) => t.rax = v BY <1>4, <1>6, <1>7, <1>9
<1>15. ~Live(s) => t.rax = s.rax BY <1>2, <1>3, <1>4, <1>6, <1>7, <1>9
<1>16. Agree(s, t, p, d) BY <1>2, <1>3, <1>4, <1>6, <1>9, <1>12, <1>13, <1>15 DEF Agree
<1> QED BY <1>1, <1>14, <1>16

(***************************************************************************)
(* Where a pending operation keeps its operands.                           *)
(***************************************************************************)

\* The word of the j-th temporary of a frame, and its value: the very first
\* temporary of an optimised function is in the pool register.
TempWord(f, j) == f.pushed0 + RawOf(f) + (OnStack(f.depth0 + j) - OnStack(f.depth0))

TempValue(s, f, j) ==
  IF Optimize /\ f.depth0 + j = 1 THEN s.r10 ELSE s.mem[TempWord(f, j)]

\* The word of the j-th argument evaluated: above the spill and the pad.
ArgWord(f, j) == f.pushed0 + f.spilled + f.padded + j

\* Every operand held is where the frame parked it, the entries of the table say
\* how many spills were pending then, and a spilled register is on the stack.
Parked(s, f) ==
  /\ \A j \in 1..TempsOf(f) :
       /\ s.temps[f.depth0 + j].spill_at_push = f.spill0
       /\ f.held[j] = TempValue(s, f, j)
  /\ f.kind = "call" =>
       /\ \A j \in 1..f.step : f.held[j] = s.mem[ArgWord(f, j)]
       /\ f.spilled = 1 => s.mem[f.pushed0 + 1] = s.r10

\* One operand is held for every temporary or argument pushed.
HeldOK(f) ==
  f.held \in Seq(Value) /\ Len(f.held) = IF f.kind = "call" THEN f.step ELSE TempsOf(f)

\* What a frame has parked lies below everything parked later.
Ordered(fs) ==
  \A i, j \in 1..Len(fs) :
    i < j => DepthAfter(fs[i]) <= fs[j].depth0 /\ PushedAfter(fs[i]) <= fs[j].pushed0

\* Of the frames in an arm that is jumped over nothing is claimed.
Run(s, fs) == IF Live(s) THEN Len(fs) ELSE s.skip

ValuesInv(s, fs) ==
  /\ s.rax \in Value
  /\ Ordered(fs)
  /\ \A i \in 1..Run(s, fs) : HeldOK(fs[i]) /\ Parked(s, fs[i])

VInv == ValuesInv(st, frames)

\* The counters a frame was entered with are numbers below those it leaves behind.
LEMMA FrameNumbers ==
  ASSUME NEW f, FrameOK(f)
  PROVE  /\ f.depth0 \in Nat /\ f.pushed0 \in Nat /\ f.spill0 \in Nat /\ f.step \in Nat
         /\ f.spilled \in {0, 1} /\ f.padded \in {0, 1}
         /\ TempsOf(f) \in Nat /\ RawOf(f) \in Nat
         /\ DepthAfter(f) = f.depth0 + TempsOf(f) /\ f.depth0 <= DepthAfter(f)
         /\ PushedAfter(f) \in Nat /\ f.pushed0 + RawOf(f) <= PushedAfter(f)
<1>1. /\ f.depth0 \in Nat /\ f.pushed0 \in Nat /\ f.spill0 \in Nat /\ f.step \in Nat
      /\ f.spilled \in {0, 1} /\ f.padded \in {0, 1}
  BY DEF FrameOK, FrameType
<1>2. TempsOf(f) \in Nat
  <2>1. 2 * f.step \in Nat BY <1>1
  <2> QED BY <1>1, <2>1 DEF TempsOf
<1>3. RawOf(f) \in Nat BY <1>1 DEF RawOf
<1>4. DepthAfter(f) = f.depth0 + TempsOf(f) /\ f.depth0 <= DepthAfter(f) BY <1>1, <1>2 DEF DepthAfter
<1>5. OnStack(f.depth0) \in Nat /\ OnStack(DepthAfter(f)) \in Nat
      /\ OnStack(f.depth0) <= OnStack(DepthAfter(f))
  BY <1>1, <1>2, <1>4 DEF OnStack, Regs
<1>6. PushedAfter(f) \in Nat BY AfterType
<1>7. f.pushed0 + RawOf(f) <= PushedAfter(f) BY <1>1, <1>3, <1>5, <1>6 DEF PushedAfter
<1> QED BY <1>1, <1>2, <1>3, <1>4, <1>6, <1>7

\* A temporary on the stack has a word of its own.
LEMMA TempWordRange ==
  ASSUME NEW f, FrameOK(f), NEW j \in 1..TempsOf(f), ~(Optimize /\ f.depth0 + j = 1)
  PROVE  TempWord(f, j) \in 1..PushedAfter(f)
<1>1. /\ f.depth0 \in Nat /\ f.pushed0 \in Nat /\ TempsOf(f) \in Nat /\ RawOf(f) \in Nat
      /\ DepthAfter(f) = f.depth0 + TempsOf(f)
  BY FrameNumbers
<1>2. /\ OnStack(f.depth0) \in Nat /\ OnStack(f.depth0 + j) \in Nat
      /\ OnStack(DepthAfter(f)) \in Nat
      /\ OnStack(f.depth0) < OnStack(f.depth0 + j)
      /\ OnStack(f.depth0 + j) <= OnStack(DepthAfter(f))
  BY <1>1 DEF OnStack, Regs
<1> QED BY <1>1, <1>2 DEF TempWord, PushedAfter

\* What a frame has parked is there in any state that agrees so far.
LEMMA ParkedKept ==
  ASSUME NEW s, NEW f, FrameOK(f), Parked(s, f), NEW t, NEW p \in Int, NEW d \in Int,
         Agree(s, t, p, d), DepthAfter(f) <= d,
         PushedAfter(f) <= (IF Live(s) THEN p ELSE s.rsp), s.rsp \in Nat
  PROVE  Parked(t, f)
<1> DEFINE m == IF Live(s) THEN p ELSE s.rsp
<1>0. /\ f.depth0 \in Nat /\ f.pushed0 \in Nat /\ f.step \in Nat
      /\ f.spilled \in {0, 1} /\ f.padded \in {0, 1}
      /\ TempsOf(f) \in Nat /\ RawOf(f) \in Nat
      /\ DepthAfter(f) = f.depth0 + TempsOf(f)
      /\ PushedAfter(f) \in Nat /\ f.pushed0 + RawOf(f) <= PushedAfter(f)
  BY FrameNumbers
<1>1. m \in Int /\ PushedAfter(f) <= m /\ \A i \in 1..m : t.mem[i] = s.mem[i] BY DEF Agree
<1> HIDE DEF m
<1>2. \A i \in 1..PushedAfter(f) : t.mem[i] = s.mem[i] BY <1>0, <1>1
<1>3. ASSUME NEW j \in 1..TempsOf(f)
      PROVE  /\ t.temps[f.depth0 + j].spill_at_push = f.spill0
             /\ f.held[j] = TempValue(t, f, j)
  <2>1. f.depth0 + j \in 1..d BY <1>0
  <2>2. t.temps[f.depth0 + j].spill_at_push = f.spill0 BY <2>1 DEF Agree, Parked
  <2>3. CASE Optimize /\ f.depth0 + j = 1
    <3>1. Regs(d) = 1 BY <2>1, <2>3 DEF Regs
    <3> QED BY <2>2, <2>3, <3>1 DEF Agree, Parked, TempValue
  <2>4. CASE ~(Optimize /\ f.depth0 + j = 1)
    <3>1. TempWord(f, j) \in 1..PushedAfter(f) BY <2>4, TempWordRange
    <3> QED BY <1>2, <2>2, <2>4, <3>1 DEF Parked, TempValue
  <2> QED BY <2>3, <2>4
<1>4. ASSUME f.kind = "call"
      PROVE  /\ \A j \in 1..f.step : f.held[j] = t.mem[ArgWord(f, j)]
             /\ f.spilled = 1 => t.mem[f.pushed0 + 1] = t.r10
  <2>1. RawOf(f) = f.spilled + f.padded + f.step BY <1>4 DEF RawOf
  <2>2. \A j \in 1..f.step : ArgWord(f, j) \in 1..PushedAfter(f) BY <1>0, <2>1 DEF ArgWord
  <2>3. f.spilled = 1 => f.pushed0 + 1 \in 1..PushedAfter(f) BY <1>0, <2>1
  <2>4. f.spilled = 1 => Regs(d) = 1
    <3>1. f.spilled = Regs(f.depth0) BY <1>4 DEF FrameOK
    <3> QED BY <1>0, <3>1 DEF Regs
  <2> QED BY <1>2, <1>4, <2>2, <2>3, <2>4 DEF Agree, Parked
<1> QED BY <1>3, <1>4 DEF Parked

\* Everything parked is accounted for by the counters.
LEMMA BelowTop ==
  ASSUME NEW s, NEW fs, Inv(s, fs), Ordered(fs), NEW i \in 1..Len(fs)
  PROVE  /\ FrameOK(fs[i]) /\ DepthAfter(fs[i]) \in Nat /\ PushedAfter(fs[i]) \in Nat
         /\ DepthAfter(fs[i]) <= s.depth /\ PushedAfter(fs[i]) <= s.pushed
<1> DEFINE g == fs[Len(fs)]
<1>1. Len(fs) \in Nat /\ Len(fs) \in 1..Len(fs) BY DEF Inv, Nested
<1>2. FrameOK(g) /\ FrameOK(fs[i]) BY <1>1 DEF Inv, Nested
<1>3. s.depth = DepthAfter(g) /\ s.pushed = PushedAfter(g) BY <1>1 DEF Inv, Current, Counted
<1>4. CASE i = Len(fs) BY <1>2, <1>3, <1>4, AfterType
<1>5. CASE i /= Len(fs)
  <2>1. DepthAfter(fs[i]) <= g.depth0 /\ PushedAfter(fs[i]) <= g.pushed0
    BY <1>1, <1>5 DEF Ordered
  <2> HIDE DEF g
  <2>2. g.depth0 <= DepthAfter(g) /\ g.pushed0 + RawOf(g) <= PushedAfter(g)
        /\ g.depth0 \in Nat /\ g.pushed0 \in Nat /\ RawOf(g) \in Nat
    BY <1>2, FrameNumbers
  <2>3. /\ DepthAfter(fs[i]) \in Nat /\ PushedAfter(fs[i]) \in Nat
        /\ DepthAfter(g) \in Nat /\ PushedAfter(g) \in Nat
    BY <1>2, AfterType
  <2> QED BY <1>2, <1>3, <2>1, <2>2, <2>3
<1> QED BY <1>4, <1>5

\* So a state that agrees far enough keeps what the visible frames have parked.
LEMMA VisibleKept ==
  ASSUME NEW s, NEW fs, Inv(s, fs), ValuesInv(s, fs), NEW t, NEW p \in Int, NEW d \in Int,
         Agree(s, t, p, d), NEW i \in 1..Run(s, fs),
         DepthAfter(fs[i]) <= d, Live(s) => PushedAfter(fs[i]) <= p
  PROVE  HeldOK(fs[i]) /\ Parked(t, fs[i])
<1>1. Len(fs) \in Nat /\ s.rsp \in Nat /\ s.skip \in Nat BY DEF Inv, Nested, Shape, StType
<1>2. HeldOK(fs[i]) /\ Parked(s, fs[i]) BY DEF ValuesInv
<1>3. CASE Live(s)
  <2>1. i \in 1..Len(fs) BY <1>3 DEF Run
  <2>2. FrameOK(fs[i]) BY <2>1 DEF Inv, Nested
  <2> QED BY <1>1, <1>2, <1>3, <2>2, ParkedKept
<1>4. CASE ~Live(s)
  <2>1. i \in 1..s.skip /\ s.skip \in 1..Len(fs) BY <1>1, <1>4 DEF Run, Inv, Skipping, Live
  <2>2. FrameOK(fs[i]) /\ i \in 1..Len(fs) BY <1>1, <2>1 DEF Inv, Nested
  <2> DEFINE g == fs[s.skip]
  <2>3. g.kind \in {"ternary", "logic"} /\ s.rsp = g.pushed0 BY <2>1 DEF Inv, Skipping
  <2>4. CASE i = s.skip
    <3>1. FrameOK(g) /\ fs[i] = g BY <2>2, <2>4
    <3> HIDE DEF g
    <3>2. TempsOf(g) = 0 /\ g.kind /= "call" BY <2>3 DEF TempsOf
    <3> QED BY <1>2, <3>1, <3>2 DEF Parked
  <2>5. CASE i /= s.skip
    <3>1. PushedAfter(fs[i]) <= g.pushed0 BY <1>1, <2>1, <2>2, <2>5 DEF ValuesInv, Ordered
    <3> QED BY <1>1, <1>2, <1>4, <2>2, <2>3, <3>1, ParkedKept
  <2> QED BY <2>4, <2>5
<1> QED BY <1>3, <1>4

\* A step that changes no frame.
LEMMA StayValues ==
  ASSUME NEW s, NEW fs, Inv(s, fs), ValuesInv(s, fs), NEW t,
         Agree(s, t, s.pushed, s.depth), t.rax \in Value, t.skip = s.skip
  PROVE  ValuesInv(t, fs)
<1>1. s.pushed \in Int /\ s.depth \in Int /\ Len(fs) \in Nat /\ s.skip \in 0..Len(fs)
  BY DEF Inv, Nested, Shape, StType, Skipping
<1>2. Run(t, fs) = Run(s, fs) BY DEF Run, Live
<1>3. ASSUME NEW i \in 1..Run(s, fs) PROVE HeldOK(fs[i]) /\ Parked(t, fs[i])
  <2>1. i \in 1..Len(fs) BY <1>1 DEF Run
  <2>2. DepthAfter(fs[i]) <= s.depth /\ PushedAfter(fs[i]) <= s.pushed
    BY <2>1, BelowTop DEF ValuesInv
  <2> QED BY <1>1, <2>2, VisibleKept
<1> QED BY <1>2, <1>3 DEF ValuesInv

\* A step that begins a frame.
LEMMA EnterValues ==
  ASSUME NEW s, NEW fs, Inv(s, fs), ValuesInv(s, fs), NEW t,
         Agree(s, t, s.pushed, s.depth), t.rax \in Value, t.skip = s.skip,
         NEW f, f.depth0 = s.depth, f.pushed0 = s.pushed,
         Live(s) => HeldOK(f) /\ Parked(t, f)
  PROVE  ValuesInv(t, Append(fs, f))
<1> DEFINE gs == Append(fs, f)
<1>1. Len(fs) \in Nat /\ s.skip \in 0..Len(fs) /\ fs \in Seq(FrameType)
  BY DEF Inv, Nested, Skipping
<1>2. /\ Len(gs) = Len(fs) + 1 /\ gs[Len(fs) + 1] = f
      /\ \A i \in 1..Len(fs) : gs[i] = fs[i]
  BY <1>1
<1> HIDE DEF gs
<1>3. ValuesInv(t, fs) BY StayValues
<1>4. Ordered(gs)
  <2> SUFFICES ASSUME NEW i \in 1..Len(gs), NEW j \in 1..Len(gs), i < j
               PROVE  DepthAfter(gs[i]) <= gs[j].depth0 /\ PushedAfter(gs[i]) <= gs[j].pushed0
    BY DEF Ordered
  <2>1. i \in 1..Len(fs) /\ gs[i] = fs[i] BY <1>1, <1>2
  <2>2. CASE j = Len(fs) + 1 BY <1>2, <2>1, <2>2, BelowTop DEF ValuesInv
  <2>3. CASE j /= Len(fs) + 1
    <3>1. j \in 1..Len(fs) /\ gs[j] = fs[j] BY <1>1, <1>2, <2>3
    <3> QED BY <2>1, <3>1 DEF ValuesInv, Ordered
  <2> QED BY <2>2, <2>3
<1>5. ASSUME NEW i \in 1..Run(t, gs) PROVE HeldOK(gs[i]) /\ Parked(t, gs[i])
  <2>1. CASE Live(s) /\ i = Len(fs) + 1 BY <1>2, <2>1
  <2>2. CASE ~(Live(s) /\ i = Len(fs) + 1)
    <3>1. i \in 1..Run(t, fs) /\ i \in 1..Len(fs) BY <1>1, <1>2, <2>2 DEF Run, Live
    <3> QED BY <1>2, <1>3, <3>1 DEF ValuesInv
  <2> QED BY <2>1, <2>2
<1>6. ValuesInv(t, gs) BY <1>3, <1>4, <1>5 DEF ValuesInv
<1> QED BY <1>6 DEF gs

\* A step that changes the innermost frame.
LEMMA AdvanceValues ==
  ASSUME NEW s, NEW fs, Inv(s, fs), ValuesInv(s, fs), NEW t,
         Agree(s, t, s.pushed, s.depth), t.rax \in Value, t.skip = s.skip,
         Len(fs) > 0, fs[Len(fs)].kind \notin {"ternary", "logic"},
         NEW gs, Len(gs) = Len(fs), \A i \in 1..(Len(fs) - 1) : gs[i] = fs[i],
         gs[Len(fs)].depth0 = fs[Len(fs)].depth0, gs[Len(fs)].pushed0 = fs[Len(fs)].pushed0,
         Live(s) => HeldOK(gs[Len(fs)]) /\ Parked(t, gs[Len(fs)])
  PROVE  ValuesInv(t, gs)
<1>1. Len(fs) \in Nat /\ s.skip \in 0..Len(fs) BY DEF Inv, Nested, Skipping
<1>2. ValuesInv(t, fs) BY StayValues
<1>3. Ordered(gs)
  <2> SUFFICES ASSUME NEW i \in 1..Len(gs), NEW j \in 1..Len(gs), i < j
               PROVE  DepthAfter(gs[i]) <= gs[j].depth0 /\ PushedAfter(gs[i]) <= gs[j].pushed0
    BY DEF Ordered
  <2>1. i \in 1..(Len(fs) - 1) /\ i \in 1..Len(fs) /\ j \in 1..Len(fs) BY <1>1
  <2>2. gs[j].depth0 = fs[j].depth0 /\ gs[j].pushed0 = fs[j].pushed0
    <3>1. j = Len(fs) \/ j \in 1..(Len(fs) - 1) BY <1>1, <2>1
    <3> QED BY <3>1
  <2> QED BY <1>2, <2>1, <2>2 DEF ValuesInv, Ordered
<1>4. ASSUME NEW i \in 1..Run(t, gs) PROVE HeldOK(gs[i]) /\ Parked(t, gs[i])
  <2>1. CASE Live(s) /\ i = Len(fs) BY <2>1
  <2>2. CASE ~(Live(s) /\ i = Len(fs))
    <3>1. ~Live(s) => s.skip /= Len(fs) BY <1>1 DEF Inv, Skipping, Live
    <3>2. i \in 1..Run(t, fs) /\ i \in 1..(Len(fs) - 1) BY <1>1, <2>2, <3>1 DEF Run, Live
    <3> QED BY <1>2, <3>2 DEF ValuesInv
  <2> QED BY <2>1, <2>2
<1> QED BY <1>2, <1>3, <1>4 DEF ValuesInv

\* A step that ends the innermost frame.
LEMMA LeaveValues ==
  ASSUME NEW s, NEW fs, Inv(s, fs), ValuesInv(s, fs), NEW t,
         Len(fs) > 0, fs[Len(fs)].kind \notin {"ternary", "logic"},
         Agree(s, t, fs[Len(fs)].pushed0, fs[Len(fs)].depth0), t.rax \in Value,
         t.skip = s.skip
  PROVE  ValuesInv(t, SubSeq(fs, 1, Len(fs) - 1))
<1> DEFINE gs == SubSeq(fs, 1, Len(fs) - 1)
           g == fs[Len(fs)]
<1>1. Len(fs) \in Nat /\ s.skip \in 0..Len(fs) /\ fs \in Seq(FrameType)
  BY DEF Inv, Nested, Skipping
<1>2. Len(gs) = Len(fs) - 1 /\ \A i \in 1..(Len(fs) - 1) : gs[i] = fs[i] BY <1>1, ButLast
<1>3. FrameOK(g) BY <1>1 DEF Inv, Nested
<1> HIDE DEF gs
<1>4. Ordered(gs)
  <2> SUFFICES ASSUME NEW i \in 1..Len(gs), NEW j \in 1..Len(gs), i < j
               PROVE  DepthAfter(gs[i]) <= gs[j].depth0 /\ PushedAfter(gs[i]) <= gs[j].pushed0
    BY DEF Ordered
  <2>1. /\ i \in 1..Len(fs) /\ j \in 1..Len(fs) /\ gs[i] = fs[i] /\ gs[j] = fs[j]
    BY <1>1, <1>2
  <2> QED BY <2>1 DEF ValuesInv, Ordered
<1>5. ASSUME NEW i \in 1..Run(t, gs) PROVE HeldOK(gs[i]) /\ Parked(t, gs[i])
  <2>1. ~Live(s) => s.skip /= Len(fs) BY <1>1 DEF Inv, Skipping, Live
  <2>2. i \in 1..Run(s, fs) /\ i \in 1..(Len(fs) - 1) BY <1>1, <1>2, <2>1 DEF Run, Live
  <2>3. DepthAfter(fs[i]) <= g.depth0 /\ PushedAfter(fs[i]) <= g.pushed0
    BY <1>1, <2>2 DEF ValuesInv, Ordered
  <2>4. g.depth0 \in Int /\ g.pushed0 \in Int
    <3> HIDE DEF g
    <3> QED BY <1>3, FrameNumbers
  <2>5. HeldOK(fs[i]) /\ Parked(t, fs[i]) BY <2>2, <2>3, <2>4, VisibleKept
  <2> QED BY <1>2, <2>2, <2>5
<1>6. ValuesInv(t, gs) BY <1>4, <1>5 DEF ValuesInv
<1> QED BY <1>6 DEF gs

(***************************************************************************)
(* The pending operations as EvalStack sees them.                          *)
(***************************************************************************)

\* Visible and VisibleMode, of any state.
HeldBy(s, fs) == [i \in 1..Run(s, fs) |-> fs[i].held]

SeenMode(s, fs, m) ==
  IF Live(s) \/ m = "failed" THEN m
  ELSE IF fs[s.skip].kind = "ternary" /\ fs[s.skip].step = 1 THEN "gen"
  ELSE "done"

\* They are sequences of operands.
LEMMA HeldType ==
  ASSUME NEW s, NEW fs, Inv(s, fs), ValuesInv(s, fs)
  PROVE  /\ Run(s, fs) \in 0..Len(fs) /\ Len(fs) \in Nat
         /\ HeldBy(s, fs) \in Seq(Seq(Value))
         /\ Len(HeldBy(s, fs)) = Run(s, fs)
         /\ \A i \in 1..Run(s, fs) : HeldBy(s, fs)[i] = fs[i].held
<1>1. Len(fs) \in Nat /\ s.skip \in 0..Len(fs) BY DEF Inv, Nested, Skipping
<1>2. Run(s, fs) \in 0..Len(fs) BY <1>1 DEF Run
<1> DEFINE n == Run(s, fs)
           H == HeldBy(s, fs)
<1>3. \A i \in 1..n : fs[i].held \in Seq(Value) BY DEF ValuesInv, HeldOK
<1>4. H \in [1..n -> Seq(Value)] /\ \A i \in 1..n : H[i] = fs[i].held BY <1>3 DEF HeldBy
<1>5. n \in Nat BY <1>1, <1>2
<1> HIDE DEF n, H
<1>6. H \in Seq(Seq(Value)) /\ Len(H) = n BY <1>4, <1>5
<1> QED BY <1>1, <1>2, <1>4, <1>6 DEF n, H

\* One more, one less, and a new last one.
LEMMA HeldAppend ==
  ASSUME NEW A \in Seq(Seq(Value)), NEW B \in Seq(Seq(Value)), NEW k \in Seq(Value),
         Len(B) = Len(A) + 1, \A i \in 1..Len(A) : B[i] = A[i], B[Len(A) + 1] = k
  PROVE  B = Append(A, k)
<1> DEFINE C == Append(A, k)
<1>1. /\ C \in Seq(Seq(Value)) /\ Len(C) = Len(A) + 1 /\ C[Len(A) + 1] = k
      /\ \A i \in 1..Len(A) : C[i] = A[i]
  BY AppendProperties
<1> HIDE DEF C
<1>2. \A i \in 1..Len(B) : i = Len(A) + 1 \/ i \in 1..Len(A) OBVIOUS
<1>3. \A i \in 1..Len(B) : B[i] = C[i] BY <1>1, <1>2
<1>4. B = C BY <1>1, <1>3, SeqEqual
<1> QED BY <1>4 DEF C

\* The operation begun last is closed.
LEMMA HeldClosed ==
  ASSUME NEW A \in Seq(Seq(Value)), NEW B \in Seq(Seq(Value)), Len(A) > 0,
         Len(B) = Len(A) - 1, \A i \in 1..Len(B) : B[i] = A[i]
  PROVE  B = SubSeq(A, 1, Len(A) - 1)
<1> DEFINE C == SubSeq(A, 1, Len(A) - 1)
<1>1. /\ C \in Seq(Seq(Value)) /\ Len(C) = Len(A) - 1
      /\ \A i \in 1..(Len(A) - 1) : C[i] = A[i]
  BY ButLast
<1> HIDE DEF C
<1>2. B = C BY <1>1, SeqEqual
<1> QED BY <1>2 DEF C

\* The operation begun last holds other operands.
LEMMA HeldNewTop ==
  ASSUME NEW A \in Seq(Seq(Value)), NEW B \in Seq(Seq(Value)), Len(A) > 0,
         Len(B) = Len(A), \A i \in 1..(Len(A) - 1) : B[i] = A[i],
         NEW k \in Seq(Value), B[Len(A)] = k
  PROVE  B = Append(SubSeq(A, 1, Len(A) - 1), k)
<1> DEFINE C == SubSeq(A, 1, Len(A) - 1)
<1>1. /\ C \in Seq(Seq(Value)) /\ Len(C) = Len(A) - 1
      /\ \A i \in 1..(Len(A) - 1) : C[i] = A[i]
  BY ButLast
<1> HIDE DEF C
<1>2. Len(B) = Len(C) + 1 /\ \A i \in 1..Len(C) : B[i] = C[i] BY <1>1
<1>3. B[Len(C) + 1] = k BY <1>1
<1>4. B = Append(C, k) BY <1>1, <1>2, <1>3, HeldAppend
<1> QED BY <1>4 DEF C

\* Nothing has changed.
LEMMA HeldSame ==
  ASSUME NEW A \in Seq(Seq(Value)), NEW B \in Seq(Seq(Value)), Len(B) = Len(A),
         \A i \in 1..Len(A) : B[i] = A[i]
  PROVE  B = A
BY SeqEqual

\* What EvalStack sees of a state and of the next one.
LEMMA Seen ==
  ASSUME IInv, VInv
  PROVE  /\ Visible = HeldBy(st, frames) /\ VisibleMode = SeenMode(st, frames, mode)
         /\ Visible \in Seq(Seq(Value)) /\ Len(Visible) = Run(st, frames)
         /\ Run(st, frames) \in 0..fp /\ fp \in Nat
         /\ \A i \in 1..Run(st, frames) : Visible[i] = frames[i].held
<1>1. Inv(st, frames) /\ ValuesInv(st, frames) BY StFacts DEF VInv
<1>2. Visible = HeldBy(st, frames) BY DEF Visible, HeldBy, Running, Run, fp
<1>3. VisibleMode = SeenMode(st, frames, mode) BY DEF VisibleMode, SeenMode
<1> QED BY <1>1, <1>2, <1>3, HeldType DEF fp

\* The same of the next state.
LEMMA SeenNext ==
  ASSUME IInv', VInv'
  PROVE  /\ Visible' = HeldBy(st', frames') /\ VisibleMode' = SeenMode(st', frames', mode')
         /\ Visible' \in Seq(Seq(Value)) /\ Len(Visible') = Run(st', frames')
         /\ Run(st', frames') \in 0..Len(frames') /\ Len(frames') \in Nat
         /\ \A i \in 1..Run(st', frames') : Visible'[i] = frames'[i].held
<1>1. Inv(st', frames') /\ ValuesInv(st', frames') BY DEF VInv, IInv
<1>2. Visible' = HeldBy(st', frames') BY DEF Visible, HeldBy, Running, Run, fp, Live
<1>3. VisibleMode' = SeenMode(st', frames', mode') BY DEF VisibleMode, SeenMode, Live
<1> QED BY <1>1, <1>2, <1>3, HeldType

\* What every step does.
Faithful == VInv' /\ OperandsIntact' /\ Promise!Next

\* The machine runs: all frames are seen, in the mode the generator is in.
LEMMA LiveSeen ==
  ASSUME IInv, VInv, Live(st)
  PROVE  /\ VisibleMode = mode /\ Len(Visible) = fp /\ fp \in Nat
         /\ \A i \in 1..fp : Visible[i] = frames[i].held
         /\ fp > 0 => Promise!Top = Top.held
<1>1. Run(st, frames) = fp BY DEF Run, fp
<1>2. VisibleMode = mode BY DEF VisibleMode
<1>3. Len(Visible) = fp /\ fp \in Nat /\ \A i \in 1..fp : Visible[i] = frames[i].held
  BY <1>1, Seen
<1>4. fp > 0 => Visible[Len(Visible)] = Top.held BY <1>3 DEF Top
<1> QED BY <1>2, <1>3, <1>4 DEF Promise!Top

\* The machine runs in the next state.
LEMMA LiveSeenNext ==
  ASSUME IInv', VInv', st'.skip = 0
  PROVE  /\ VisibleMode' = mode' /\ Len(Visible') = Len(frames') /\ Len(frames') \in Nat
         /\ \A i \in 1..Len(frames') : Visible'[i] = frames'[i].held
<1>1. Run(st', frames') = Len(frames') BY DEF Run, Live
<1>2. VisibleMode' = mode' BY SeenNext DEF SeenMode, Live
<1> QED BY <1>1, <1>2, SeenNext

\* Nothing visible has changed.
LEMMA SeenSame ==
  ASSUME IInv, VInv, IInv', VInv', Run(st', frames') = Run(st, frames),
         \A i \in 1..Run(st, frames) : frames'[i].held = frames[i].held
  PROVE  Visible' = Visible
<1>1. Len(Visible') = Len(Visible) BY Seen, SeenNext
<1>2. \A i \in 1..Len(Visible) : Visible'[i] = Visible[i] BY Seen, SeenNext
<1>3. Visible \in Seq(Seq(Value)) BY Seen
<1>4. Visible' \in Seq(Seq(Value)) BY SeenNext
<1> QED BY <1>1, <1>2, <1>3, <1>4, HeldSame

\* Code that is jumped over is not seen.
LEMMA HiddenStep ==
  ASSUME IInv, VInv, IInv', VInv', ~Live(st), st'.skip = st.skip, st'.rax = st.rax,
         event'.got = <<>>, mode /= "failed", mode' /= "failed",
         \A i \in 1..st.skip : frames'[i] = frames[i]
  PROVE  Promise!Next
<1>1. st.skip \in Nat /\ st.skip /= 0 BY StFacts DEF Shape, StType, Live
<1>2. Run(st, frames) = st.skip /\ Run(st', frames') = st.skip BY <1>1 DEF Run, Live
<1>3. Visible' = Visible BY <1>2, SeenSame
<1>4. VisibleMode' = VisibleMode
  <2>1. ~Live(st') BY <1>1 DEF Live
  <2>2. frames'[st'.skip] = frames[st.skip] BY <1>1
  <2>3. VisibleMode = SeenMode(st, frames, mode) BY Seen
  <2>4. VisibleMode' = SeenMode(st', frames', mode') BY SeenNext
  <2> QED BY ONLY <2>1, <2>2, <2>3, <2>4, ~Live(st), mode /= "failed", mode' /= "failed" DEF SeenMode
<1>5. Promise!Idle BY <1>3, <1>4 DEF Promise!Idle
<1> QED BY <1>5 DEF Promise!Next

\* An operand is evaluated.
LEMMA OperandStep ==
  ASSUME IInv, VInv, IInv', VInv', Live(st), st'.skip = st.skip,
         mode = "gen", mode' = "done", UNCHANGED frames,
         event'.got \in {<<>>, <<st'.rax>>}
  PROVE  Promise!Next
<1>1. st.skip = 0 BY DEF Live
<1>2. st'.rax \in Value BY DEF VInv, ValuesInv
<1>3. Visible' = Visible
  <2>1. Run(st', frames') = Run(st, frames) BY <1>1 DEF Run, Live
  <2> QED BY <2>1, SeenSame
<1>4. VisibleMode = "gen" /\ VisibleMode' = "done" BY <1>1, LiveSeen, LiveSeenNext
<1>5. Promise!Operand BY <1>2, <1>3, <1>4 DEF Promise!Operand
<1> QED BY <1>5 DEF Promise!Next

\* An operation begins.
LEMMA BeginStep ==
  ASSUME IInv, VInv, IInv', VInv', Live(st), st'.skip = st.skip, st'.rax = st.rax,
         mode = "gen", mode' = "gen", NEW f, frames' = Append(frames, f), f.held = <<>>,
         event'.got = <<>>
  PROVE  Promise!Next
<1>1. st.skip = 0 BY DEF Live
<1>2. frames \in Seq(FrameType) BY StFacts DEF Inv, Nested
<1>3. Len(frames') = fp + 1 /\ frames'[fp + 1] = f /\ \A i \in 1..fp : frames'[i] = frames[i]
  BY <1>2 DEF fp
<1>4. <<>> \in Seq(Value) OBVIOUS
<1>5. Visible' = Append(Visible, <<>>)
  <2>1. Len(Visible') = Len(Visible) + 1 BY <1>1, <1>3, LiveSeen, LiveSeenNext
  <2>2. \A i \in 1..Len(Visible) : Visible'[i] = Visible[i]
    BY <1>1, <1>3, LiveSeen, LiveSeenNext
  <2>3. Visible'[Len(Visible) + 1] = <<>> BY <1>1, <1>3, LiveSeen, LiveSeenNext
  <2> QED BY <1>4, <2>1, <2>2, <2>3, Seen, SeenNext, HeldAppend
<1>6. VisibleMode = "gen" /\ VisibleMode' = "gen" BY <1>1, LiveSeen, LiveSeenNext
<1>7. Promise!Begin BY <1>5, <1>6 DEF Promise!Begin
<1> QED BY <1>7 DEF Promise!Next

\* An operand is held.
LEMMA HoldStep ==
  ASSUME IInv, VInv, IInv', VInv', Live(st), st'.skip = st.skip, fp > 0,
         mode = "done", mode' = "gen", Len(frames') = fp,
         \A i \in 1..(fp - 1) : frames'[i] = frames[i], NEW k, frames'[fp].held = k,
         k \in {Append(Top.held, st.rax), Append(Append(Top.held, st.rax), st'.rax)},
         event'.got = <<>>
  PROVE  Promise!Next
<1>1. st.skip = 0 BY DEF Live
<1>2. st.rax \in Value /\ st'.rax \in Value BY DEF VInv, ValuesInv
<1>3. Top.held \in Seq(Value) /\ Visible[fp] = Top.held
  <2>1. fp \in 1..Len(Visible) /\ Visible[fp] = Top.held BY LiveSeen DEF Top
  <2>2. Visible[fp] \in Seq(Value) BY <2>1, Seen
  <2> QED BY <2>1, <2>2
<1>4. k \in Seq(Value)
  <2>1. Append(Top.held, st.rax) \in Seq(Value) BY <1>2, <1>3
  <2>2. Append(Append(Top.held, st.rax), st'.rax) \in Seq(Value) BY <1>2, <2>1
  <2> QED BY <2>1, <2>2
<1>5. Visible' = Append(SubSeq(Visible, 1, Len(Visible) - 1), k)
  <2>1. Len(Visible') = Len(Visible) /\ Len(Visible) > 0 BY <1>1, LiveSeen, LiveSeenNext
  <2>2. \A i \in 1..(Len(Visible) - 1) : Visible'[i] = Visible[i]
    BY <1>1, LiveSeen, LiveSeenNext
  <2>3. Visible'[Len(Visible)] = k BY <1>1, LiveSeen, LiveSeenNext
  <2> QED BY <1>4, <2>1, <2>2, <2>3, Seen, SeenNext, HeldNewTop
<1>6. VisibleMode = "done" /\ VisibleMode' = "gen" /\ Len(Visible) > 0
  BY <1>1, LiveSeen, LiveSeenNext
<1>7. k \in {Append(Promise!Top, st.rax), Append(Append(Promise!Top, st.rax), st'.rax)}
  BY LiveSeen
<1>8. Promise!Hold BY <1>2, <1>5, <1>6, <1>7 DEF Promise!Hold, Promise!Closed
<1> QED BY <1>8 DEF Promise!Next

\* The innermost frame is gone.
LEMMA ClosedNext ==
  ASSUME IInv, VInv, IInv', VInv', Run(st, frames) = fp, fp > 0, st'.skip = 0,
         frames' = SubSeq(frames, 1, fp - 1)
  PROVE  Visible' = Promise!Closed /\ Len(Visible) > 0
<1>1. frames \in Seq(FrameType) /\ fp \in Nat BY StFacts DEF Inv, Nested, fp
<1>2. Len(frames') = fp - 1 /\ \A i \in 1..(fp - 1) : frames'[i] = frames[i]
  BY <1>1, ButLast DEF fp
<1>3. Len(Visible) = fp /\ \A i \in 1..fp : Visible[i] = frames[i].held BY Seen
<1>4. Len(Visible') = Len(Visible) - 1 /\ \A i \in 1..Len(Visible') : Visible'[i] = Visible[i]
  BY <1>1, <1>2, <1>3, LiveSeenNext
<1>5. Visible' = SubSeq(Visible, 1, Len(Visible) - 1)
  BY <1>3, <1>4, Seen, SeenNext, HeldClosed
<1> QED BY <1>3, <1>5 DEF Promise!Closed

\* An operation is performed.
LEMMA PerformStep ==
  ASSUME IInv, VInv, IInv', VInv', Live(st), st'.skip = st.skip, fp > 0,
         mode = "done", mode' = "done", frames' = SubSeq(frames, 1, fp - 1),
         \/ event'.got = Append(Top.held, st.rax)
         \/ event'.got = <<st.rax, st'.rax>> /\ Top.held = <<>>
  PROVE  Promise!Next
<1>1. st.skip = 0 BY DEF Live
<1>2. Run(st, frames) = fp BY DEF Run, fp
<1>3. st'.rax \in Value BY DEF VInv, ValuesInv
<1>4. Visible' = Promise!Closed /\ Len(Visible) > 0 BY <1>1, <1>2, ClosedNext
<1>5. VisibleMode = "done" /\ VisibleMode' = "done" BY <1>1, LiveSeen, LiveSeenNext
<1>6. Promise!Top = Top.held BY LiveSeen
<1>7. Promise!Perform BY <1>3, <1>4, <1>5, <1>6 DEF Promise!Perform
<1> QED BY <1>7 DEF Promise!Next

\* A value is dropped, or only its truth was wanted.
LEMMA DiscardStep ==
  ASSUME IInv, VInv, IInv', VInv', Live(st), Run(st', frames') = fp, st'.rax = st.rax,
         mode = "done", VisibleMode' = "gen", Len(frames') = fp,
         \A i \in 1..fp : frames'[i].held = frames[i].held, event'.got = <<>>
  PROVE  Promise!Next
<1>1. Visible' = Visible
  <2>1. Run(st, frames) = fp BY DEF Run, fp
  <2> QED BY <2>1, SeenSame
<1>2. VisibleMode = "done" BY LiveSeen
<1>3. Promise!Discard BY <1>1, <1>2 DEF Promise!Discard
<1> QED BY <1>3 DEF Promise!Next

\* The generator moves on and the machine stays where it is.
LEMMA IdleStep ==
  ASSUME IInv, VInv, IInv', VInv', Run(st, frames) = fp, Run(st', frames') = fp,
         st'.rax = st.rax, VisibleMode' = VisibleMode, Len(frames') = fp,
         \A i \in 1..fp : frames'[i].held = frames[i].held, event'.got = <<>>
  PROVE  Promise!Next
<1>1. Visible' = Visible BY SeenSame
<1>2. Promise!Idle BY <1>1 DEF Promise!Idle
<1> QED BY <1>2 DEF Promise!Next

\* A conditional construct ends where the machine is.
LEMMA CloseStep ==
  ASSUME IInv, VInv, IInv', VInv', Run(st, frames) = fp, fp > 0, st'.skip = 0,
         VisibleMode = "done", mode' = "done", frames' = SubSeq(frames, 1, fp - 1),
         Top.held = <<>>, event'.got = <<>>
  PROVE  Promise!Next
<1>1. st'.rax \in Value BY DEF VInv, ValuesInv
<1>2. Visible' = Promise!Closed /\ Len(Visible) > 0 BY ClosedNext
<1>3. VisibleMode' = "done" BY LiveSeenNext
<1>4. Promise!Top = <<>> BY Seen DEF Promise!Top, Top
<1>5. Promise!Close BY <1>1, <1>2, <1>3, <1>4 DEF Promise!Close
<1> QED BY <1>5 DEF Promise!Next

(***************************************************************************)
(* What the actions have in common.                                        *)
(***************************************************************************)

\* The end of a step, after everything before it.
LEMMA SettledAgree ==
  ASSUME NEW s, Shape(s), NEW t, Shape(t), NEW p \in Int, NEW d \in Int, d <= t.depth,
         Agree(s, t, p, d), t.skip = s.skip, ~Live(s) => t.rsp = s.rsp
  PROVE  /\ Agree(s, Settled(t), p, d)
         /\ Settled(t).rax = t.rax /\ Settled(t).skip = s.skip
<1>1. /\ Agree(t, Settled(t), p, d) /\ Settled(t).rax = t.rax /\ Settled(t).skip = t.skip
  BY AgreeSettled
<1> QED BY <1>1, AgreeChain

\* The value in %rax is still one.
LEMMA StillValue ==
  ASSUME NEW s, s.rax \in Value, NEW t, NEW p, NEW d, Agree(s, t, p, d),
         Live(s) => t.rax \in Value
  PROVE  t.rax \in Value
BY DEF Agree

\* An operation that ends does what it should if its values were the right ones.
LEMMA LeaveFaithful ==
  ASSUME IInv, VInv, IInv', fp > 0, Top.kind \notin {"ternary", "logic"}, mode = "done",
         NEW s, Leave(s), Shape(s), s.skip = st.skip, ~Live(st) => s.rsp = st.rsp,
         Top.depth0 <= s.depth, Agree(st, s, Top.pushed0, Top.depth0),
         Live(st) => s.rax \in Value,
         NEW kind, NEW got, NEW want, NEW asked, NEW rsp,
         Happened(kind, got, want, asked, rsp),
         Live(st) => /\ got = want
                     /\ \/ want = Append(Top.held, st.rax)
                        \/ want = <<st.rax, s.rax>> /\ Top.held = <<>>
  PROVE  Faithful
<1>1. /\ fp = Len(frames) /\ fp \in Nat /\ Top = frames[Len(frames)] /\ Inv(st, frames)
      /\ ValuesInv(st, frames) /\ FrameOK(Top) /\ st.rax \in Value
  BY TopFacts, StFacts DEF fp, VInv, ValuesInv
<1>2. Top.depth0 \in Int /\ Top.pushed0 \in Int BY <1>1, FrameNumbers
<1>3. frames' = SubSeq(frames, 1, fp - 1) /\ st' = Settled(s) /\ mode' = "done"
  BY DEF Leave
<1>4. /\ Agree(st, st', Top.pushed0, Top.depth0) /\ st'.rax = s.rax /\ st'.skip = st.skip
  BY <1>2, <1>3, StFacts, SettledAgree
<1>5. st'.rax \in Value BY <1>1, <1>4, StillValue
<1>6. VInv'
  <2>1. ValuesInv(st', SubSeq(frames, 1, Len(frames) - 1)) BY <1>1, <1>4, <1>5, LeaveValues
  <2> QED BY <1>1, <1>3, <2>1 DEF VInv
<1>7. CASE Live(st)
  <2>1. event'.got = got /\ event'.want = want BY <1>7 DEF Happened
  <2>2. OperandsIntact' BY <1>7, <2>1 DEF OperandsIntact
  <2>3. \/ event'.got = Append(Top.held, st.rax)
        \/ event'.got = <<st.rax, st'.rax>> /\ Top.held = <<>>
    BY <1>4, <1>7, <2>1
  <2>4. Promise!Next BY <1>3, <1>4, <1>6, <1>7, <2>3, PerformStep
  <2> QED BY <1>6, <2>2, <2>4 DEF Faithful
<1>8. CASE ~Live(st)
  <2>1. event' = Quiet BY <1>8 DEF Happened
  <2>2. OperandsIntact' BY <2>1 DEF OperandsIntact, Quiet
  <2>3. event'.got = <<>> BY <2>1 DEF Quiet
  <2>4. st'.rax = st.rax BY <1>4, <1>8 DEF Agree
  <2>5. \A i \in 1..st.skip : frames'[i] = frames[i]
    <3>1. st.skip \in Nat /\ st.skip < fp
      BY <1>1, <1>8 DEF Inv, Skipping, Live
    <3>2. frames \in Seq(FrameType) BY <1>1 DEF Inv, Nested
    <3>3. \A i \in 1..(fp - 1) : frames'[i] = frames[i] BY <1>1, <1>3, <3>2, ButLast
    <3> QED BY <1>1, <3>1, <3>3
  <2>6. Promise!Next BY <1>3, <1>4, <1>6, <1>8, <2>3, <2>4, <2>5, HiddenStep
  <2> QED BY <1>6, <2>2, <2>6 DEF Faithful
<1> QED BY <1>7, <1>8

\* An operation begins.
LEMMA EnterFaithful ==
  ASSUME IInv, VInv, IInv', mode = "gen", NEW f, NEW s, EnterWith(f, s, "gen"),
         s.skip = st.skip, s.rax = st.rax, Agree(st, s, st.pushed, st.depth),
         f.depth0 = st.depth, f.pushed0 = st.pushed, f.held = <<>>, f.step = 0,
         Live(st) /\ f.kind = "call" /\ f.spilled = 1 => s.mem[st.pushed + 1] = s.r10
  PROVE  Faithful
<1>1. Inv(st, frames) /\ ValuesInv(st, frames) /\ st.rax \in Value BY StFacts DEF VInv, ValuesInv
<1>2. st' = s /\ frames' = Append(frames, f) /\ mode' = "gen" /\ event' = Quiet BY DEF EnterWith
<1>3. TempsOf(f) = 0
  <2>1. 2 * 0 = 0 OBVIOUS
  <2> QED BY <2>1 DEF TempsOf
<1>4. HeldOK(f)
  <2>1. <<>> \in Seq(Value) /\ Len(<<>>) = 0 OBVIOUS
  <2> QED BY <1>3, <2>1 DEF HeldOK
<1>5. Live(st) => Parked(s, f) BY <1>3 DEF Parked
<1>6. VInv' BY <1>1, <1>2, <1>4, <1>5, EnterValues DEF VInv
<1>7. OperandsIntact' /\ event'.got = <<>> BY <1>2 DEF OperandsIntact, Quiet
<1>8. CASE Live(st)
  <2>1. Promise!Next BY <1>2, <1>6, <1>7, <1>8, BeginStep
  <2> QED BY <1>6, <1>7, <2>1 DEF Faithful
<1>9. CASE ~Live(st)
  <2>1. \A i \in 1..st.skip : frames'[i] = frames[i]
    <3>1. frames \in Seq(FrameType) /\ st.skip \in 0..Len(frames)
      BY <1>1 DEF Inv, Nested, Skipping
    <3> QED BY <1>2, <3>1
  <2>2. Promise!Next BY <1>2, <1>6, <1>7, <1>9, <2>1, HiddenStep
  <2> QED BY <1>6, <1>7, <2>2 DEF Faithful
<1> QED BY <1>8, <1>9

\* The innermost frame after it has got further.
LEMMA AdvanceFrames ==
  ASSUME IInv, fp > 0, NEW s, NEW kept, Advance(s, kept)
  PROVE  /\ Len(frames') = fp /\ \A i \in 1..(fp - 1) : frames'[i] = frames[i]
         /\ frames'[fp].kind = Top.kind /\ frames'[fp].step = Top.step + 1
         /\ frames'[fp].n = Top.n /\ frames'[fp].spilled = Top.spilled
         /\ frames'[fp].padded = Top.padded /\ frames'[fp].depth0 = Top.depth0
         /\ frames'[fp].pushed0 = Top.pushed0 /\ frames'[fp].spill0 = Top.spill0
         /\ frames'[fp].held = IF Live(st) THEN Top.held \o kept ELSE Top.held
<1> DEFINE h == IF Live(st) THEN Top.held \o kept ELSE Top.held
           n == Top.step + 1
           f == [Top EXCEPT !.step = n, !.held = h]
<1>1. /\ fp \in Nat /\ frames \in Seq(FrameType) /\ fp = Len(frames) /\ fp \in 1..Len(frames)
      /\ Top = frames[fp]
  BY TopFacts DEF fp, Top
<1>2. Top \in FrameType BY <1>1
<1>3. frames' = [frames EXCEPT ![fp] = f] BY <1>1 DEF Advance
<1>4. Len(frames') = fp /\ frames'[fp] = f /\ \A i \in 1..(fp - 1) : frames'[i] = frames[i]
  <2> HIDE DEF f
  <2> QED BY <1>1, <1>3
<1> HIDE DEF h, n
<1>5. /\ f.kind = Top.kind /\ f.step = n /\ f.n = Top.n /\ f.spilled = Top.spilled
      /\ f.padded = Top.padded /\ f.depth0 = Top.depth0
      /\ f.pushed0 = Top.pushed0 /\ f.spill0 = Top.spill0 /\ f.held = h
  BY <1>2 DEF FrameType
<1> QED BY <1>4, <1>5 DEF h, n

\* An operand is held, its value where the frame says.
LEMMA AdvanceFaithful ==
  ASSUME IInv, VInv, IInv', fp > 0, Top.kind \notin {"ternary", "logic"}, mode = "done",
         NEW s, NEW kept, Advance(s, kept), Shape(s), s.skip = st.skip,
         ~Live(st) => s.rsp = st.rsp, st.depth <= s.depth,
         Agree(st, s, st.pushed, st.depth), Live(st) => s.rax \in Value,
         Live(st) => /\ HeldOK(frames'[fp]) /\ Parked(st', frames'[fp])
                     /\ kept \in {<<st.rax>>, <<st.rax, s.rax>>}
  PROVE  Faithful
<1>1. /\ fp = Len(frames) /\ fp \in Nat /\ Top = frames[Len(frames)] /\ Inv(st, frames)
      /\ ValuesInv(st, frames) /\ FrameOK(Top) /\ st.rax \in Value /\ Shape(st)
  BY TopFacts, StFacts DEF fp, VInv, ValuesInv
<1>2. st.pushed \in Int /\ st.depth \in Int BY StFacts
<1>3. st' = Settled(s) /\ mode' = "gen" /\ event' = Quiet BY DEF Advance
<1>4. /\ Agree(st, st', st.pushed, st.depth) /\ st'.rax = s.rax /\ st'.skip = st.skip
  BY <1>1, <1>2, <1>3, SettledAgree
<1>5. st'.rax \in Value BY <1>1, <1>4, StillValue
<1>6. /\ Len(frames') = fp /\ \A i \in 1..(fp - 1) : frames'[i] = frames[i]
      /\ frames'[fp].depth0 = Top.depth0 /\ frames'[fp].pushed0 = Top.pushed0
      /\ (Live(st) => frames'[fp].held = Top.held \o kept)
  BY AdvanceFrames
<1>7. VInv'
  <2>1. ValuesInv(st', frames') BY <1>1, <1>4, <1>5, <1>6, AdvanceValues
  <2> QED BY <2>1 DEF VInv
<1>8. OperandsIntact' /\ event'.got = <<>> BY <1>3 DEF OperandsIntact, Quiet
<1>9. CASE Live(st)
  <2>1. Top.held \in Seq(Value) BY <1>1, <1>9 DEF ValuesInv, Run, HeldOK
  <2>2. Top.held \o <<st.rax>> = Append(Top.held, st.rax) BY <1>1, <2>1
  <2>3. Top.held \o <<st.rax, s.rax>> = Append(Append(Top.held, st.rax), s.rax)
    <3>1. st.rax \in Value /\ s.rax \in Value BY <1>1, <1>9
    <3> QED BY <2>1, <3>1, TwoMore
  <2>4. Top.held \o kept \in {Append(Top.held, st.rax),
                              Append(Append(Top.held, st.rax), st'.rax)}
    BY <1>4, <1>9, <2>2, <2>3
  <2>5. frames'[fp].held = Top.held \o kept BY <1>6, <1>9
  <2>6. Promise!Next BY <1>3, <1>4, <1>6, <1>7, <1>8, <1>9, <2>4, <2>5, HoldStep
  <2> QED BY <1>7, <1>8, <2>6 DEF Faithful
<1>10. CASE ~Live(st)
  <2>1. st'.rax = st.rax BY <1>4, <1>10 DEF Agree
  <2>2. st.skip \in Nat /\ st.skip < fp BY <1>1, <1>10 DEF Inv, Skipping, Live
  <2>3. \A i \in 1..st.skip : frames'[i] = frames[i] BY <1>1, <1>6, <2>2
  <2>4. Promise!Next BY <1>3, <1>4, <1>7, <1>8, <1>10, <2>1, <2>3, HiddenStep
  <2> QED BY <1>7, <1>8, <2>4 DEF Faithful
<1> QED BY <1>9, <1>10

\* The counters over the innermost frame, as numbers.
LEMMA TopAt ==
  ASSUME IInv, fp > 0
  PROVE  /\ FrameOK(Top) /\ Shape(st)
         /\ Top.depth0 \in Nat /\ Top.pushed0 \in Nat /\ Top.step \in Nat
         /\ TempsOf(Top) \in Nat /\ RawOf(Top) \in Nat
         /\ st.depth \in Nat /\ st.pushed \in Nat
         /\ OnStack(Top.depth0) \in Nat /\ OnStack(st.depth) \in Nat
         /\ st.depth = Top.depth0 + TempsOf(Top)
         /\ st.pushed = Top.pushed0 + (OnStack(st.depth) - OnStack(Top.depth0)) + RawOf(Top)
         /\ st.spill_pending = SpillAfter(Top)
         /\ (Top.kind /= "call" => st.spill_pending = Top.spill0)
         /\ OnStack(st.depth) <= st.pushed
<1>1. /\ FrameOK(Top) /\ st.depth = DepthAfter(Top) /\ st.pushed = PushedAfter(Top)
      /\ st.spill_pending = SpillAfter(Top)
  BY TopFacts
<1>2. Top.spill0 \in Nat BY <1>1 DEF FrameOK, FrameType
<1>3. Top.depth0 \in Nat BY <1>1, FrameNumbers
<1>4. OnStack(Top.depth0) \in Nat BY <1>3, OnStackInt
<1> QED BY <1>1, <1>2, <1>4, FrameNumbers, StFacts DEF DepthAfter, PushedAfter, SpillAfter

\* While the machine runs, what the innermost frame holds is there.
LEMMA TopHeld ==
  ASSUME IInv, VInv, Live(st), fp > 0
  PROVE  HeldOK(Top) /\ Parked(st, Top)
<1>1. fp = Len(frames) /\ fp \in Nat /\ Top = frames[fp] BY TopFacts DEF fp, Top
<1> QED BY <1>1 DEF VInv, ValuesInv, Run

\* The last temporary of a frame is the last of the table.
LEMMA LastTemp ==
  ASSUME NEW s, Shape(s), Live(s), NEW f, FrameOK(f),
         NEW j \in Nat, f.depth0 + j = s.depth, TempWord(f, j) = s.pushed
  PROVE  TempValue(s, f, j) = TopTemp(s)
<1>1. s.rsp = s.pushed BY Counters
<1> QED BY <1>1 DEF TempValue, TopTemp

\* The last temporary survives the end of a step.
LEMMA SettledTop ==
  ASSUME NEW s, Shape(s), Live(s), s.depth > 0
  PROVE  /\ TopTemp(Settled(s)) = TopTemp(s)
         /\ Settled(s).temps = s.temps
<1> DEFINE r == IF s.pool_used = 0 THEN Junk ELSE s.r10
           u == [s EXCEPT !.rcx = Junk, !.r10 = r]
<1>1. /\ s \in StType /\ s.depth \in Nat /\ s.pool_used = Regs(s.depth)
  BY Counters DEF Shape
<1>2. Settled(s) = u BY <1>1 DEF Settled, StType
<1>3. Optimize => r = s.r10 BY <1>1 DEF Regs
<1> HIDE DEF r
<1>4. u.temps = s.temps /\ u.mem = s.mem /\ u.r10 = r /\ u.depth = s.depth /\ u.rsp = s.rsp
  BY <1>1 DEF StType
<1> HIDE DEF u
<1> QED BY <1>2, <1>3, <1>4 DEF TopTemp

\* A frame that has parked nothing holds nothing, and a first one makes one.
LEMMA NoneHeld ==
  ASSUME IInv, VInv, Live(st), fp > 0,
         (IF Top.kind = "call" THEN Top.step ELSE TempsOf(Top)) = 0
  PROVE  /\ Top.held = <<>>
         /\ \A v : Top.held \o <<v>> = <<v>> /\ Append(Top.held, v) = <<v>>
         /\ \A v, w : Top.held \o <<v, w>> = <<v, w>>
<1>1. HeldOK(Top) BY TopHeld
<1>2. Top.held \in Seq(Value) /\ Len(Top.held) = 0 BY <1>1 DEF HeldOK
<1>3. Top.held = <<>> BY <1>2
<1> QED BY <1>3

(***************************************************************************)
(* One lemma for each action.                                              *)
(***************************************************************************)

\* The left operand, the value to store and the destination of a copy are parked.
LEMMA FirstFaithful ==
  ASSUME IInv, VInv, IInv', BinaryLeft \/ AssignValue \/ StructTarget PROVE Faithful
<1>1. /\ fp > 0 /\ Top.kind \in {"binary", "assign", "struct"} /\ Top.step = 0
      /\ mode = "done" /\ Advance(TempPush(st), <<st.rax>>)
  BY DEF BinaryLeft, AssignValue, StructTarget, At
<1> DEFINE s == TempPush(st)
           f == frames'[fp]
<1>2. TempsOf(Top) = 0 BY <1>1 DEF TempsOf
<1>3. /\ Shape(st) /\ st.depth \in Nat /\ st.pushed \in Nat /\ st.depth = Top.depth0
      /\ OnStack(st.depth) \in Nat /\ st.spill_pending = Top.spill0 /\ st.rax \in Value
  BY <1>1, <1>2, TopAt DEF VInv, ValuesInv
<1>4. Effect(st, s, 1, OnStack(st.depth + 1) - OnStack(st.depth), 0) BY <1>3, PushEffect
<1>5. /\ Agree(st, s, st.pushed, st.depth)
      /\ Live(st) => TopTemp(s) = st.rax
      /\ s.temps[s.depth].spill_at_push = st.spill_pending
      /\ s.rax = st.rax
  BY <1>3, PushValue
<1>6. st' = Settled(s) BY <1>1 DEF Advance
<1> HIDE DEF s
<1>7. /\ Shape(s) /\ s.skip = st.skip /\ (~Live(st) => s.rsp = st.rsp)
      /\ s.depth = st.depth + 1 /\ st.depth <= s.depth
  BY <1>3, <1>4 DEF Effect
<1>8. ASSUME Live(st) PROVE HeldOK(f) /\ Parked(st', f)
  <2>1. /\ f.kind = Top.kind /\ f.step = 1 /\ f.depth0 = Top.depth0
        /\ f.spill0 = Top.spill0 /\ f.held = Top.held \o <<st.rax>>
        /\ Len(frames') = fp
    BY <1>1, <1>8, AdvanceFrames, SMTT(60)
  <2>2. TempsOf(f) = 1 /\ f.kind /= "call" BY <1>1, <2>1 DEF TempsOf
  <2>3. f.held = <<st.rax>> BY <1>1, <1>2, <1>8, <2>1, NoneHeld
  <2>4. HeldOK(f) BY <1>3, <2>2, <2>3 DEF HeldOK
  <2>5. /\ FrameOK(f) /\ st'.depth = DepthAfter(f) /\ st'.pushed = PushedAfter(f) /\ Shape(st')
    <3>1. /\ Len(frames') \in 1..Len(frames') /\ Inv(st', frames')
      BY <1>1, <2>1, TopFacts DEF IInv
    <3> QED BY <1>1, <2>1, <3>1 DEF Inv, Nested, Current, Counted
  <2>6. Live(st') /\ st'.skip = s.skip BY <1>6, <1>7, <1>8, SettledSkip DEF Live
  <2>7. TempWord(f, 1) = st'.pushed /\ f.depth0 + 1 = st'.depth
    <3>1. /\ f.depth0 \in Nat /\ f.pushed0 \in Nat /\ RawOf(f) \in Nat
          /\ DepthAfter(f) = f.depth0 + 1
      BY <2>2, <2>5, FrameNumbers
    <3>2. OnStack(f.depth0) \in Nat /\ OnStack(f.depth0 + 1) \in Nat BY <3>1, OnStackInt
    <3> QED BY <2>5, <3>1, <3>2 DEF TempWord, PushedAfter
  <2>8. TempValue(st', f, 1) = TopTemp(st') BY <2>5, <2>6, <2>7, LastTemp
  <2>9. TopTemp(st') = st.rax /\ st'.temps = s.temps
    <3>1. Live(s) /\ s.depth > 0 BY <1>3, <1>7, <1>8 DEF Live
    <3> QED BY <1>5, <1>6, <1>7, <1>8, <3>1, SettledTop
  <2>10. st'.temps[f.depth0 + 1].spill_at_push = f.spill0
    BY <1>3, <1>5, <1>7, <2>1, <2>9
  <2>11. Parked(st', f) BY <2>2, <2>3, <2>8, <2>9, <2>10 DEF Parked
  <2> QED BY <2>4, <2>11
<1>9. Advance(s, <<st.rax>>) BY <1>1 DEF s
<1>10. Top.kind \notin {"ternary", "logic"} BY <1>1
<1> QED BY <1>1, <1>3, <1>5, <1>7, <1>8, <1>9, <1>10, AdvanceFaithful

\* A temporary keeps its value in a state that agrees so far.
LEMMA TempValueKept ==
  ASSUME NEW s, NEW t, NEW p \in Int, NEW d \in Int, Agree(s, t, p, d), Live(s),
         NEW f, NEW j, f.depth0 + j \in 1..d,
         ~(Optimize /\ f.depth0 + j = 1) => TempWord(f, j) \in 1..p
  PROVE  /\ TempValue(t, f, j) = TempValue(s, f, j)
         /\ t.temps[f.depth0 + j] = s.temps[f.depth0 + j]
<1>1. t.temps[f.depth0 + j] = s.temps[f.depth0 + j] BY DEF Agree
<1>2. CASE Optimize /\ f.depth0 + j = 1
  <2>1. Regs(d) = 1 BY <1>2 DEF Regs
  <2> QED BY <1>1, <1>2, <2>1 DEF Agree, TempValue
<1>3. CASE ~(Optimize /\ f.depth0 + j = 1) BY <1>1, <1>3 DEF Agree, TempValue
<1> QED BY <1>2, <1>3

\* A compound assignment parks the address and, above it, the old value.
LEMMA CompoundTargetFaithful ==
  ASSUME IInv, VInv, IInv', CompoundTarget PROVE Faithful
<1> DEFINE s1 == TempPush(st)
           s2 == Set(s1, "rcx", TempPeek(s1, 0))
           f  == frames'[fp]
<1>1. fp > 0 /\ Top.kind = "compound" /\ Top.step = 0 /\ mode = "done"
  BY DEF CompoundTarget, At
<1>2. PICK old \in Value : Advance(TempPush(Set(s2, "rax", old)), <<st.rax, old>>)
  BY DEF CompoundTarget
<1> DEFINE s3 == Set(s2, "rax", old)
           s  == TempPush(s3)
<1>3. TempsOf(Top) = 0 /\ RawOf(Top) = 0
  <2>1. 2 * 0 = 0 OBVIOUS
  <2> QED BY <1>1, <2>1 DEF TempsOf, RawOf
<1>4. /\ Shape(st) /\ st.depth \in Nat /\ st.pushed \in Nat /\ st.depth = Top.depth0
      /\ st.pushed = Top.pushed0
      /\ OnStack(st.depth) \in Nat /\ st.spill_pending = Top.spill0 /\ st.rax \in Value
  BY <1>1, <1>3, TopAt DEF VInv, ValuesInv
<1>5. /\ Agree(st, s1, st.pushed, st.depth)
      /\ Live(st) => TopTemp(s1) = st.rax
      /\ s1.temps[s1.depth].spill_at_push = st.spill_pending
      /\ Shape(s1) /\ s1.skip = st.skip /\ (~Live(st) => s1.rsp = st.rsp)
      /\ s1.depth = st.depth + 1 /\ s1.spill_pending = st.spill_pending
      /\ s1.pushed = st.pushed + (OnStack(st.depth + 1) - OnStack(st.depth))
      /\ TempPeek(s1, 0) \in Pattern
  <2>1. Effect(st, s1, 1, OnStack(st.depth + 1) - OnStack(st.depth), 0)
    BY <1>4, PushEffect
  <2>2. Base(st) /\ Above(st, s1, 0 + 1, 0) BY BaseFact, AbovePush
  <2>3. Above(st, s1, 1, 0) BY <2>2
  <2>4. TempPeek(s1, 0) \in Pattern BY <2>2, <2>3, AboveFacts, PeekTyped
  <2>5. /\ Agree(st, s1, st.pushed, st.depth) /\ (Live(st) => TopTemp(s1) = st.rax)
        /\ s1.temps[s1.depth].spill_at_push = st.spill_pending
    BY <1>4, PushValue
  <2>6. st.spill_pending + 0 = st.spill_pending BY StFacts
  <2> HIDE DEF s1
  <2> QED BY <2>1, <2>4, <2>5, <2>6 DEF Effect
<1> HIDE DEF s1
<1>6. /\ Shape(s3) /\ s3.temps = s1.temps /\ s3.mem = s1.mem /\ s3.depth = s1.depth
      /\ s3.pushed = s1.pushed /\ s3.rsp = s1.rsp /\ s3.skip = s1.skip
      /\ s3.spill_pending = s1.spill_pending
      /\ s3.r10 = s1.r10 /\ (~Live(st) => s3.rax = s1.rax) /\ (Live(st) => s3.rax = old)
  <2>1. Shape(s2) BY <1>5, SetEffect DEF Effect
  <2>2. /\ s2.temps = s1.temps /\ s2.mem = s1.mem /\ s2.depth = s1.depth
        /\ s2.pushed = s1.pushed /\ s2.rsp = s1.rsp /\ s2.skip = s1.skip
        /\ s2.spill_pending = s1.spill_pending
        /\ s2["r10"] = s1["r10"] /\ s2["rax"] = s1["rax"]
    BY <1>5, SetFields DEF Reg
  <2> HIDE DEF s2
  <2>3. Shape(s3) BY <2>1, ValueIsPattern, SetEffect DEF Effect
  <2>4. /\ s3.temps = s2.temps /\ s3.mem = s2.mem /\ s3.depth = s2.depth
        /\ s3.pushed = s2.pushed /\ s3.rsp = s2.rsp /\ s3.skip = s2.skip
        /\ s3.spill_pending = s2.spill_pending
        /\ s3["r10"] = s2["r10"] /\ (~Live(s2) => s3 = s2) /\ (Live(s2) => s3["rax"] = old)
    BY <2>1, SetFields DEF Reg
  <2> HIDE DEF s3
  <2> QED BY <1>5, <2>2, <2>3, <2>4 DEF Live
<1>7. Advance(s, <<st.rax, old>>) BY <1>2
<1> HIDE DEF s3
<1>8. /\ Agree(s3, s, s1.pushed, s1.depth) /\ (Live(s3) => TopTemp(s) = s3.rax)
      /\ s.temps[s.depth].spill_at_push = s3.spill_pending
      /\ s.rax = s3.rax /\ Shape(s) /\ s.skip = st.skip /\ (~Live(st) => s.rsp = st.rsp)
      /\ s.depth = s1.depth + 1
      /\ s1.depth \in Int /\ s1.pushed \in Int
  <2>1. s3.pushed \in Int /\ s3.depth \in Nat /\ Shape(s3) BY <1>6, Counters
  <2>2. Effect(s3, s, 1, OnStack(s3.depth + 1) - OnStack(s3.depth), 0) BY <2>1, PushEffect
  <2>3. /\ Agree(s3, s, s3.pushed, s3.depth) /\ (Live(s3) => TopTemp(s) = s3.rax)
        /\ s.temps[s.depth].spill_at_push = s3.spill_pending
        /\ s.rax = s3.rax
    BY <2>1, PushValue
  <2> HIDE DEF s
  <2> QED BY <1>5, <1>6, <2>1, <2>2, <2>3 DEF Effect, Live
<1> HIDE DEF s
<1>9. Agree(s1, s3, s1.pushed, s1.depth) /\ (Live(s3) <=> Live(st)) /\ (Live(s1) <=> Live(st))
      /\ (~Live(st) => s3.rsp = s1.rsp)
  BY <1>5, <1>6 DEF Agree, Live
<1>10. Agree(s1, s, s1.pushed, s1.depth) BY <1>6, <1>8, <1>9, AgreeChain
<1>11. /\ OnStack(st.depth + 1) \in Nat /\ OnStack(st.depth) <= OnStack(st.depth + 1)
  BY <1>4 DEF OnStack, Regs
<1>12. Agree(st, s, st.pushed, st.depth)
  <2>1. st.pushed <= s1.pushed /\ st.depth <= s1.depth BY <1>4, <1>5, <1>11
  <2>2. st.pushed \in Int /\ st.depth \in Int BY <1>4
  <2>3. Agree(s1, s, st.pushed, st.depth) BY <1>5, <1>8, <1>10, <2>1, <2>2, AgreeLess
  <2> QED BY <1>5, <2>3, AgreeChain
<1>13. ASSUME Live(st) PROVE HeldOK(f) /\ Parked(st', f)
  <2>1. /\ f.kind = Top.kind /\ f.step = 1 /\ f.depth0 = Top.depth0
        /\ f.pushed0 = Top.pushed0
        /\ f.spill0 = Top.spill0 /\ f.held = Top.held \o <<st.rax, old>>
        /\ Len(frames') = fp
    <3> DEFINE kept == <<st.rax, old>>
    <3>1. Advance(s, kept) BY <1>7
    <3> HIDE DEF kept
    <3>2. /\ f.kind = Top.kind /\ f.step = Top.step + 1 /\ f.depth0 = Top.depth0
          /\ f.pushed0 = Top.pushed0
          /\ f.spill0 = Top.spill0 /\ f.held = Top.held \o kept
          /\ Len(frames') = fp
      BY <1>1, <1>13, <3>1, AdvanceFrames
    <3>3. Top.step + 1 = 1 BY <1>1
    <3> QED BY <3>2, <3>3 DEF kept
  <2>2. TempsOf(f) = 2 /\ f.kind /= "call" /\ RawOf(f) = 0
    <3>1. 2 * 1 = 2 OBVIOUS
    <3> QED BY <1>1, <2>1, <3>1 DEF TempsOf, RawOf
  <2>3. f.held = <<st.rax, old>> BY <1>1, <1>3, <1>13, <2>1, NoneHeld
  <2>4. HeldOK(f)
    <3>1. <<st.rax, old>> \in Seq(Value) /\ Len(<<st.rax, old>>) = 2 BY <1>4
    <3> QED BY <2>2, <2>3, <3>1 DEF HeldOK
  <2>5. /\ FrameOK(f) /\ st'.depth = DepthAfter(f) /\ st'.pushed = PushedAfter(f) /\ Shape(st')
    <3>1. /\ Len(frames') \in 1..Len(frames') /\ Inv(st', frames')
      BY <1>1, <2>1, TopFacts DEF IInv
    <3> QED BY <1>1, <2>1, <3>1 DEF Inv, Nested, Current, Counted
  <2>6. st' = Settled(s) /\ Live(st')
    <3>1. st' = Settled(s) BY <1>7 DEF Advance
    <3>2. st'.skip = s.skip BY <1>8, <3>1, SettledSkip
    <3> QED BY <1>8, <1>13, <3>1, <3>2 DEF Live
  <2>7. TempWord(f, 2) = st'.pushed /\ f.depth0 + 2 = st'.depth
    <3>1. /\ f.depth0 \in Nat /\ f.pushed0 \in Nat /\ RawOf(f) \in Nat
          /\ DepthAfter(f) = f.depth0 + 2
      BY <2>2, <2>5, FrameNumbers
    <3>2. OnStack(f.depth0) \in Nat /\ OnStack(f.depth0 + 2) \in Nat BY <3>1, OnStackInt
    <3> QED BY <2>5, <3>1, <3>2 DEF TempWord, PushedAfter
  <2>8. TempValue(st', f, 2) = TopTemp(st') BY <2>5, <2>6, <2>7, LastTemp
  <2>9. TopTemp(st') = old /\ st'.temps = s.temps
    <3>1. Live(s) /\ s.depth > 0 BY <1>4, <1>5, <1>8, <1>13 DEF Live
    <3> QED BY <1>6, <1>8, <1>9, <1>13, <2>6, <3>1, SettledTop
  <2>10. TempWord(f, 1) = s1.pushed /\ f.depth0 + 1 = s1.depth
    BY <1>4, <1>5, <1>11, <2>1, <2>2 DEF TempWord
  <2>11. TempValue(s1, f, 1) = st.rax
    BY <1>5, <1>9, <1>13, <2>5, <2>10, LastTemp
  <2>12. Agree(s1, st', s1.pushed, s1.depth)
    <3>1. s1.depth <= s.depth BY <1>4, <1>5, <1>8
    <3>2. ~Live(s1) => s.rsp = s1.rsp BY <1>9, <1>13
    <3> QED BY <1>5, <1>8, <1>10, <2>6, <3>1, <3>2, SettledAgree
  <2>13. TempValue(st', f, 1) = st.rax /\ st'.temps[f.depth0 + 1] = s1.temps[f.depth0 + 1]
    <3>1. f.depth0 + 1 \in 1..s1.depth BY <1>4, <1>5, <2>10
    <3>2. ~(Optimize /\ f.depth0 + 1 = 1) => TempWord(f, 1) \in 1..s1.pushed
      <4>1. ASSUME ~(Optimize /\ f.depth0 + 1 = 1) PROVE TempWord(f, 1) \in 1..s1.pushed
        <5>1. 1 \in 1..TempsOf(f) BY <2>2
        <5>2. TempWord(f, 1) \in 1..PushedAfter(f) BY <2>5, <4>1, <5>1, TempWordRange
        <5> QED BY <1>8, <2>10, <5>2
      <4> QED BY <4>1
    <3> QED BY <1>8, <1>9, <1>13, <2>11, <2>12, <3>1, <3>2, TempValueKept
  <2>14. /\ st'.temps[f.depth0 + 1].spill_at_push = f.spill0
         /\ st'.temps[f.depth0 + 2].spill_at_push = f.spill0
    <3>1. f.depth0 + 2 = s.depth BY <1>4, <1>5, <1>8, <2>1, <2>10
    <3> QED BY <1>4, <1>5, <1>6, <1>8, <2>1, <2>9, <2>10, <2>13, <3>1
  <2>15. Parked(st', f) BY <2>2, <2>3, <2>8, <2>9, <2>13, <2>14 DEF Parked
  <2> QED BY <2>4, <2>15
<1>14. Top.kind \notin {"ternary", "logic"} BY <1>1
<1>15. st.depth <= s.depth BY <1>4, <1>5, <1>8
<1>16. Live(st) => s.rax = old BY <1>6, <1>8
<1>17. Live(st) => <<st.rax, old>> \in {<<st.rax>>, <<st.rax, s.rax>>} BY <1>16
<1>18. Live(st) => s.rax \in Value BY <1>16
<1> QED BY <1>1, <1>7, <1>8, <1>12, <1>13, <1>14, <1>15, <1>17, <1>18, AdvanceFaithful

\* The last temporary of the table is the operand held last.
LEMMA TopIsHeld ==
  ASSUME IInv, VInv, Live(st), fp > 0, TempsOf(Top) > 0, Top.kind /= "call"
  PROVE  /\ Top.held \in Seq(Value) /\ Len(Top.held) = TempsOf(Top)
         /\ Top.held[TempsOf(Top)] = TopTemp(st)
         /\ st.temps[st.depth].spill_at_push = st.spill_pending
<1> DEFINE k == TempsOf(Top)
<1>1. /\ FrameOK(Top) /\ Shape(st) /\ k \in Nat /\ RawOf(Top) \in Nat
      /\ st.depth = Top.depth0 + k /\ st.spill_pending = Top.spill0
      /\ Top.pushed0 \in Nat /\ OnStack(Top.depth0) \in Nat /\ OnStack(st.depth) \in Nat
      /\ st.pushed = Top.pushed0 + (OnStack(st.depth) - OnStack(Top.depth0)) + RawOf(Top)
  BY TopAt
<1>2. HeldOK(Top) /\ Parked(st, Top) BY TopHeld
<1>3. k \in 1..k BY <1>1
<1>4. TempWord(Top, k) = st.pushed BY <1>1 DEF TempWord
<1>5. TempValue(st, Top, k) = TopTemp(st) BY <1>1, <1>4, LastTemp
<1> QED BY <1>1, <1>2, <1>3, <1>5 DEF HeldOK, Parked

\* The result of an expression is a value.
LEMMA RaxIsValue == ASSUME VInv PROVE st.rax \in Value
BY DEF VInv, ValuesInv

\* The operands of a binary operator are the ones evaluated.
LEMMA BinaryRightFaithful == ASSUME IInv, VInv, IInv', BinaryRight PROVE Faithful
<1>1. fp > 0 /\ Top.kind = "binary" /\ Top.step = 1 /\ mode = "done"
  BY DEF BinaryRight, At
<1>2. PICK op \in Ops, v \in Value :
        /\ Leave(TempCombine(st, op, v))
        /\ Happened("binary", <<CombineLeft(st, op), st.rax>>,
                    Append(Top.held, st.rax), 0, 0)
  BY DEF BinaryRight
<1> DEFINE s == TempCombine(st, op, v)
<1>3. TempsOf(Top) = 1 /\ RawOf(Top) = 0 BY <1>1 DEF TempsOf, RawOf
<1>4. /\ Shape(st) /\ Top.depth0 \in Nat /\ Top.pushed0 \in Nat
      /\ st.depth = Top.depth0 + 1 /\ OnStack(st.depth) <= st.pushed
      /\ OnStack(Top.depth0) \in Nat /\ OnStack(st.depth) \in Nat
      /\ st.pushed = Top.pushed0 + (OnStack(st.depth) - OnStack(Top.depth0))
  BY <1>1, <1>3, TopAt
<1>5. st.depth - 1 = Top.depth0 /\ st.depth > 0 BY <1>4
<1>6. Top.pushed0 <= st.pushed + (OnStack(st.depth - 1) - OnStack(st.depth))
  BY <1>4, <1>5
<1>7. /\ Agree(st, s, Top.pushed0, Top.depth0) /\ (Live(st) => s.rax = v)
      /\ (Live(st) => CombineLeft(st, op) = TopTemp(st))
  BY <1>4, <1>5, <1>6, CombineValue
<1>8. Effect(st, s, -1, OnStack(st.depth - 1) - OnStack(st.depth), 0)
  BY <1>4, <1>5, CombineEffect
<1> HIDE DEF s
<1>9. /\ Shape(s) /\ s.skip = st.skip /\ (~Live(st) => s.rsp = st.rsp)
      /\ Top.depth0 <= s.depth
  BY <1>4, <1>8 DEF Effect
<1>10. Live(st) => Append(Top.held, st.rax) = <<CombineLeft(st, op), st.rax>>
  <2>1. ASSUME Live(st) PROVE Append(Top.held, st.rax) = <<CombineLeft(st, op), st.rax>>
    <3>1. /\ Top.held \in Seq(Value) /\ Len(Top.held) = 1 /\ Top.held[1] = TopTemp(st)
      BY <1>1, <1>3, <2>1, TopIsHeld
    <3>2. Append(Top.held, st.rax) = <<Top.held[1], st.rax>> BY <3>1, RaxIsValue, HeldOne
    <3>3. Top.held[1] = CombineLeft(st, op) BY <1>7, <2>1, <3>1
    <3> QED BY <3>2, <3>3
  <2> QED BY <2>1
<1>11. Leave(s) BY <1>2 DEF s
<1>12. Live(st) => s.rax \in Value BY <1>7
<1>13. Top.kind \notin {"ternary", "logic"} BY <1>1
<1> QED BY <1>1, <1>2, <1>7, <1>9, <1>10, <1>11, <1>12, <1>13, LeaveFaithful

\* A store writes the value to store through the address it goes to.
LEMMA AssignTargetFaithful == ASSUME IInv, VInv, IInv', AssignTarget PROVE Faithful
<1> DEFINE s0 == Set(st, "rcx", st.rax)
           s  == TempPopInto(s0, "rax")
<1>1. fp > 0 /\ Top.kind = "assign" /\ Top.step = 1 /\ mode = "done"
  BY DEF AssignTarget, At
<1>2. /\ Leave(s)
      /\ Happened("assign", <<s.rax, s.rcx>>, Append(Top.held, st.rax), 0, 0)
  BY DEF AssignTarget
<1>3. TempsOf(Top) = 1 /\ RawOf(Top) = 0 BY <1>1 DEF TempsOf, RawOf
<1>4. /\ Shape(st) /\ Top.depth0 \in Nat /\ Top.pushed0 \in Nat
      /\ st.depth = Top.depth0 + 1 /\ OnStack(st.depth) <= st.pushed
      /\ OnStack(Top.depth0) \in Nat /\ OnStack(st.depth) \in Nat
      /\ st.pushed = Top.pushed0 + (OnStack(st.depth) - OnStack(Top.depth0))
      /\ st.rax \in Value /\ st.rax \in Pattern
  BY <1>1, <1>3, TopAt, StFacts DEF VInv, ValuesInv
<1>5. /\ Shape(s0) /\ s0.temps = st.temps /\ s0.mem = st.mem /\ s0.depth = st.depth
      /\ s0.pushed = st.pushed /\ s0.rsp = st.rsp /\ s0.skip = st.skip
      /\ s0["r10"] = st["r10"] /\ s0["rax"] = st["rax"] /\ (Live(st) => s0["rcx"] = st.rax)
  <2>1. Shape(s0) BY <1>4, SetEffect DEF Effect
  <2> QED BY <1>4, <2>1, SetFields DEF Reg
<1>6. Agree(st, s0, Top.pushed0, Top.depth0) /\ (Live(s0) <=> Live(st))
      /\ TopTemp(s0) = TopTemp(st)
  BY <1>5 DEF Agree, Live, TopTemp
<1> HIDE DEF s0
<1>7. s0.depth - 1 = Top.depth0 /\ s0.depth > 0 /\ OnStack(s0.depth) <= s0.pushed
      /\ Top.pushed0 <= s0.pushed + (OnStack(s0.depth - 1) - OnStack(s0.depth))
  BY <1>4, <1>5
<1>8. /\ Agree(s0, s, Top.pushed0, Top.depth0) /\ (Live(s0) => s["rax"] = TopTemp(s0))
      /\ s["rcx"] = s0["rcx"]
  BY <1>4, <1>5, <1>7, PopValue
<1>9. Effect(s0, s, -1, OnStack(s0.depth - 1) - OnStack(s0.depth), 0)
  BY <1>5, <1>7, PopEffect
<1> HIDE DEF s
<1>10. /\ Shape(s) /\ s.skip = st.skip /\ (~Live(st) => s.rsp = st.rsp)
       /\ Top.depth0 <= s.depth
  BY <1>4, <1>5, <1>6, <1>9 DEF Effect
<1>11. Agree(st, s, Top.pushed0, Top.depth0) BY <1>5, <1>6, <1>8, AgreeChain
<1>12. ASSUME Live(st)
       PROVE  Append(Top.held, st.rax) = <<s.rax, s.rcx>> /\ s.rax \in Value
  <2>1. /\ Top.held \in Seq(Value) /\ Len(Top.held) = 1 /\ Top.held[1] = TopTemp(st)
    BY <1>1, <1>3, <1>12, TopIsHeld
  <2>2. s.rax = Top.held[1] /\ s.rcx = st.rax BY <1>5, <1>6, <1>8, <1>12, <2>1
  <2>3. Append(Top.held, st.rax) = <<Top.held[1], st.rax>> BY <2>1, RaxIsValue, HeldOne
  <2>4. Top.held[1] \in Value BY <2>1
  <2> QED BY <2>2, <2>3, <2>4
<1>13. Top.kind \notin {"ternary", "logic"} BY <1>1
<1> QED BY <1>1, <1>2, <1>10, <1>11, <1>12, <1>13, LeaveFaithful

\* A move into %rcx or %rax parks nothing and disturbs nothing parked.
LEMMA SetScratch ==
  ASSUME NEW s, Shape(s), NEW reg \in {"rax", "rcx"}, NEW v \in Pattern, NEW p, NEW d
  PROVE  LET t == Set(s, reg, v)
         IN  /\ Shape(t) /\ t.temps = s.temps /\ t.mem = s.mem /\ t.depth = s.depth
             /\ t.pushed = s.pushed /\ t.spill_pending = s.spill_pending
             /\ t.rsp = s.rsp /\ t.skip = s.skip /\ t.r10 = s.r10
             /\ (Live(s) => t[reg] = v) /\ (~Live(s) => t = s)
             /\ (reg = "rax" => t.rcx = s.rcx) /\ (reg = "rcx" => t.rax = s.rax)
             /\ Agree(s, t, p, d) /\ (Live(t) <=> Live(s)) /\ TopTemp(t) = TopTemp(s)
<1> DEFINE t == Set(s, reg, v)
<1>1. Shape(t) BY SetEffect DEF Effect
<1>2. /\ t.temps = s.temps /\ t.mem = s.mem /\ t.depth = s.depth
      /\ t.pushed = s.pushed /\ t.spill_pending = s.spill_pending
      /\ t.rsp = s.rsp /\ t.skip = s.skip /\ t["r10"] = s["r10"]
      /\ (Live(s) => t[reg] = v) /\ (~Live(s) => t = s)
      /\ (reg = "rax" => t["rcx"] = s["rcx"]) /\ (reg = "rcx" => t["rax"] = s["rax"])
  BY SetFields DEF Reg
<1> HIDE DEF t
<1>3. t.r10 = s.r10 /\ (Live(t) <=> Live(s)) BY <1>2 DEF Live
<1>4. Agree(s, t, p, d) /\ TopTemp(t) = TopTemp(s) BY <1>2, <1>3 DEF Agree, TopTemp
<1> QED BY <1>1, <1>2, <1>3, <1>4 DEF t

\* A struct is copied from the source just evaluated to the destination parked.
LEMMA StructCopyFaithful == ASSUME IInv, VInv, IInv', StructCopy PROVE Faithful
<1> DEFINE s0 == Set(st, "rcx", Junk)
           s1 == TempPopInto(s0, "rax")
           k  == IF Windows THEN 2 ELSE 0
           s  == IF Windows THEN Release(s1, 2) ELSE s1
<1>1. fp > 0 /\ Top.kind = "struct" /\ Top.step = 1 /\ mode = "done"
  BY DEF StructCopy, At
<1>2. /\ Leave(s)
      /\ Happened("struct", <<TempPeek(st, 0), st.rax>>, Append(Top.held, st.rax), 0, 0)
  BY DEF StructCopy
<1>3. TempsOf(Top) = 1 /\ RawOf(Top) = k /\ k \in {0, 2} BY <1>1 DEF TempsOf, RawOf
<1>4. /\ Shape(st) /\ Top.depth0 \in Nat /\ Top.pushed0 \in Nat
      /\ st.depth = Top.depth0 + 1 /\ OnStack(st.depth) <= st.pushed
      /\ OnStack(Top.depth0) \in Nat /\ OnStack(st.depth) \in Nat
      /\ st.pushed = Top.pushed0 + (OnStack(st.depth) - OnStack(Top.depth0)) + k
      /\ st.rax \in Value /\ Junk \in Pattern
  BY <1>1, <1>3, TopAt, ValueIsPattern DEF VInv, ValuesInv
<1>5. /\ Shape(s0) /\ s0.depth = st.depth /\ s0.pushed = st.pushed
      /\ s0.rsp = st.rsp /\ s0.skip = st.skip /\ TopTemp(s0) = TopTemp(st)
      /\ (Live(s0) <=> Live(st)) /\ Agree(st, s0, Top.pushed0, Top.depth0)
  BY <1>4, SetScratch
<1> HIDE DEF s0
<1>6. s0.depth - 1 = Top.depth0 /\ s0.depth > 0 /\ OnStack(s0.depth) <= s0.pushed
      /\ s0.pushed + (OnStack(s0.depth - 1) - OnStack(s0.depth)) = Top.pushed0 + k
  BY <1>3, <1>4, <1>5
<1>7. Top.pushed0 <= s0.pushed + (OnStack(s0.depth - 1) - OnStack(s0.depth))
  BY <1>3, <1>4, <1>6
<1>8. /\ Agree(s0, s1, Top.pushed0, Top.depth0)
      /\ (Live(s0) => s1["rax"] = TopTemp(s0))
  BY <1>4, <1>5, <1>6, <1>7, PopValue
<1>9. Effect(s0, s1, -1, OnStack(s0.depth - 1) - OnStack(s0.depth), 0)
  BY <1>5, <1>6, PopEffect
<1> HIDE DEF s1
<1>10. /\ Shape(s1) /\ s1.skip = st.skip /\ (~Live(st) => s1.rsp = st.rsp)
       /\ s1.depth = Top.depth0 /\ s1.pushed = Top.pushed0 + k
  BY <1>4, <1>5, <1>6, <1>9 DEF Effect
<1>11. Agree(st, s1, Top.pushed0, Top.depth0) BY <1>5, <1>8, AgreeChain
<1>12. /\ Shape(s) /\ s.skip = s1.skip /\ (~Live(s1) => s.rsp = s1.rsp)
       /\ s.depth = s1.depth /\ s.rax = s1.rax /\ Agree(s1, s, Top.pushed0, Top.depth0)
  <2>1. CASE Windows
    <3>1. 2 \in Nat /\ 2 <= s1.pushed /\ Top.pushed0 <= s1.pushed - 2
      BY <1>4, <1>10, <2>1
    <3>2. Effect(s1, Release(s1, 2), 0, -2, 0) BY <1>10, <3>1, ReleaseEffect
    <3>3. Shape(Release(s1, 2)) BY <3>2 DEF Effect
    <3> QED BY <1>4, <1>10, <2>1, <3>1, <3>3, ReleaseFields, AgreeRelease
  <2>2. CASE ~Windows BY <1>10, <2>2, AgreeSame
  <2> QED BY <2>1, <2>2
<1>13. Leave(s) BY <1>2
<1> HIDE DEF s
<1>14. Agree(st, s, Top.pushed0, Top.depth0) BY <1>10, <1>11, <1>12, AgreeChain
<1>15. ASSUME Live(st)
       PROVE  Append(Top.held, st.rax) = <<TempPeek(st, 0), st.rax>> /\ s.rax \in Value
  <2>1. /\ Top.held \in Seq(Value) /\ Len(Top.held) = 1 /\ Top.held[1] = TopTemp(st)
        /\ st.temps[st.depth].spill_at_push = st.spill_pending
    BY <1>1, <1>3, <1>15, TopIsHeld
  <2>2. TempPeek(st, 0) = TopTemp(st) BY <1>4, <1>15, <2>1, PeekTop, SMTT(30)
  <2>3. s.rax = TopTemp(st) BY <1>5, <1>8, <1>12, <1>15
  <2>4. Top.held[1] \in Value BY <2>1
  <2>5. Append(Top.held, st.rax) = <<Top.held[1], st.rax>> BY <2>1, RaxIsValue, HeldOne
  <2> QED BY <2>1, <2>2, <2>3, <2>4, <2>5
<1>16. Top.kind \notin {"ternary", "logic"} BY <1>1
<1>17. ~Live(st) => s.rsp = st.rsp BY <1>10, <1>12 DEF Live
<1>18. Top.depth0 <= s.depth BY <1>4, <1>10, <1>12
<1>19. s.skip = st.skip BY <1>10, <1>12
<1> QED BY <1>1, <1>2, <1>12, <1>13, <1>14, <1>15, <1>16, <1>17, <1>18, <1>19, LeaveFaithful

\* The result of a compound assignment goes through the address it was read from.
LEMMA CompoundValueFaithful == ASSUME IInv, VInv, IInv', CompoundValue PROVE Faithful
<1>1. fp > 0 /\ Top.kind = "compound" /\ Top.step = 1 /\ mode = "done"
  BY DEF CompoundValue, At
<1>2. PICK op \in Ops, v \in Value :
        /\ Leave(TempPopInto(TempCombine(st, op, v), "rcx"))
        /\ Happened("compound", <<TempPopInto(TempCombine(st, op, v), "rcx").rcx,
                                  CombineLeft(st, op), st.rax>>,
                    Append(Top.held, st.rax), 0, 0)
  BY DEF CompoundValue
<1> DEFINE s1 == TempCombine(st, op, v)
           s  == TempPopInto(s1, "rcx")
           p1 == Top.pushed0 + (OnStack(Top.depth0 + 1) - OnStack(Top.depth0))
           d1 == Top.depth0 + 1
<1>3. TempsOf(Top) = 2 /\ RawOf(Top) = 0
  <2>1. 2 * 1 = 2 OBVIOUS
  <2> QED BY <1>1, <2>1 DEF TempsOf, RawOf
<1>4. /\ Shape(st) /\ Top.depth0 \in Nat /\ Top.pushed0 \in Nat /\ FrameOK(Top)
      /\ st.depth = Top.depth0 + 2 /\ OnStack(st.depth) <= st.pushed
      /\ OnStack(Top.depth0) \in Nat /\ OnStack(st.depth) \in Nat /\ OnStack(d1) \in Nat
      /\ st.pushed = Top.pushed0 + (OnStack(st.depth) - OnStack(Top.depth0))
      /\ OnStack(Top.depth0) <= OnStack(d1) /\ OnStack(Top.depth0) <= Top.pushed0
  <2>1. Top.depth0 \in Nat BY <1>1, TopAt
  <2>2. d1 \in Nat /\ OnStack(Top.depth0) <= OnStack(d1) /\ OnStack(d1) \in Nat
    BY <2>1 DEF OnStack, Regs
  <2> QED BY <1>1, <1>3, <2>2, TopAt DEF FrameOK
<1>5. st.depth - 1 = d1 /\ st.depth > 0 BY <1>4
<1>6. p1 = st.pushed + (OnStack(st.depth - 1) - OnStack(st.depth)) /\ p1 \in Int
      /\ d1 \in Int /\ Top.pushed0 <= p1 /\ Top.depth0 <= d1
      /\ OnStack(d1) <= p1
  BY <1>4, <1>5
<1>7. /\ Agree(st, s1, p1, d1) /\ (Live(st) => s1.rax = v)
      /\ (Live(st) => CombineLeft(st, op) = TopTemp(st))
  BY <1>4, <1>5, <1>6, CombineValue
<1>8. Effect(st, s1, -1, OnStack(st.depth - 1) - OnStack(st.depth), 0)
  BY <1>4, <1>5, CombineEffect
<1>9. /\ Leave(s)
      /\ Happened("compound", <<s.rcx, CombineLeft(st, op), st.rax>>,
                  Append(Top.held, st.rax), 0, 0)
  BY <1>2
<1> HIDE DEF s1, p1
<1>10. /\ Shape(s1) /\ s1.skip = st.skip /\ (~Live(st) => s1.rsp = st.rsp)
       /\ s1.depth = d1 /\ s1.pushed = p1 /\ (Live(s1) <=> Live(st))
  BY <1>4, <1>6, <1>8 DEF Effect, Live
<1>11. s1.depth - 1 = Top.depth0 /\ s1.depth > 0 /\ OnStack(s1.depth) <= s1.pushed
       /\ Top.pushed0 <= s1.pushed + (OnStack(s1.depth - 1) - OnStack(s1.depth))
  <2>1. s1.depth - 1 = Top.depth0 /\ s1.depth > 0
    <3>1. s1.depth = Top.depth0 + 1 BY <1>10
    <3>2. Top.depth0 \in Nat BY <1>4
    <3> QED BY <3>1, <3>2
  <2>2. OnStack(s1.depth) = OnStack(d1) /\ OnStack(s1.depth - 1) = OnStack(Top.depth0)
    BY <1>10, <2>1
  <2>3. p1 + (OnStack(Top.depth0) - OnStack(d1)) = Top.pushed0 BY <1>4 DEF p1
  <2> QED BY <1>4, <1>6, <1>10, <2>1, <2>2, <2>3
<1>12. /\ Agree(s1, s, Top.pushed0, Top.depth0) /\ (Live(s1) => s["rcx"] = TopTemp(s1))
       /\ s["rax"] = s1["rax"]
  BY <1>4, <1>10, <1>11, PopValue
<1>13. Effect(s1, s, -1, OnStack(s1.depth - 1) - OnStack(s1.depth), 0)
  BY <1>10, <1>11, PopEffect
<1> HIDE DEF s
<1>14. /\ Shape(s) /\ s.skip = st.skip /\ (~Live(st) => s.rsp = st.rsp)
       /\ Top.depth0 <= s.depth
  BY <1>4, <1>10, <1>13 DEF Effect
<1>15. Agree(st, s, Top.pushed0, Top.depth0)
  <2>1. Agree(st, s1, Top.pushed0, Top.depth0) BY <1>4, <1>6, <1>7, AgreeLess
  <2> QED BY <1>10, <1>12, <2>1, AgreeChain
<1>16. ASSUME Live(st)
       PROVE  Append(Top.held, st.rax) = <<s.rcx, CombineLeft(st, op), st.rax>>
  <2>1. /\ Top.held \in Seq(Value) /\ Len(Top.held) = 2 /\ Top.held[2] = TopTemp(st)
    BY <1>1, <1>3, <1>16, TopIsHeld
  <2>2. TempWord(Top, 1) = p1 BY <1>3, <1>4 DEF TempWord, p1
  <2>3. TempValue(s1, Top, 1) = TopTemp(s1) BY <1>4, <1>10, <1>16, <2>2, LastTemp
  <2>4. TempValue(s1, Top, 1) = TempValue(st, Top, 1)
    <3>1. Top.depth0 + 1 \in 1..d1 BY <1>4
    <3>2. ~(Optimize /\ Top.depth0 + 1 = 1) => TempWord(Top, 1) \in 1..p1
      <4>1. ASSUME ~(Optimize /\ Top.depth0 + 1 = 1) PROVE TempWord(Top, 1) \in 1..p1
        <5>1. 1 \in 1..TempsOf(Top) BY <1>3
        <5>2. TempWord(Top, 1) \in 1..PushedAfter(Top) BY <1>4, <4>1, <5>1, TempWordRange
        <5> QED BY <1>6, <2>2, <5>2
      <4> QED BY <4>1
    <3> QED BY <1>6, <1>7, <1>16, <3>1, <3>2, TempValueKept
  <2>5. Top.held[1] = TempValue(st, Top, 1)
    <3>1. 1 \in 1..TempsOf(Top) BY <1>3
    <3> QED BY <1>1, <1>16, <3>1, TopHeld DEF Parked
  <2>6. s.rcx = Top.held[1] /\ CombineLeft(st, op) = Top.held[2]
    BY <1>7, <1>10, <1>12, <1>16, <2>1, <2>3, <2>4, <2>5
  <2>7. Append(Top.held, st.rax) = <<Top.held[1], Top.held[2], st.rax>>
    BY <2>1, RaxIsValue, HeldTwo
  <2> QED BY <2>6, <2>7
<1>17. Top.kind \notin {"ternary", "logic"} BY <1>1
<1>18. Live(st) => s.rax \in Value BY <1>7, <1>12
<1> QED BY <1>1, <1>9, <1>14, <1>15, <1>16, <1>17, <1>18, LeaveFaithful

\* temp_push() and temp_pop_into(), counters and values together.
LEMMA PushedFacts ==
  ASSUME NEW s, Shape(s)
  PROVE  LET t == TempPush(s)
         IN  /\ Shape(t) /\ t.skip = s.skip /\ (~Live(s) => t.rsp = s.rsp)
             /\ (Live(t) <=> Live(s)) /\ t.depth = s.depth + 1
             /\ t.pushed = s.pushed + (OnStack(s.depth + 1) - OnStack(s.depth))
             /\ t.spill_pending = s.spill_pending
             /\ Agree(s, t, s.pushed, s.depth) /\ (Live(s) => TopTemp(t) = s.rax)
             /\ t.temps[t.depth].spill_at_push = s.spill_pending /\ t.rax = s.rax
             /\ s.depth \in Nat /\ s.pushed \in Nat /\ OnStack(s.depth) \in Nat
             /\ OnStack(s.depth + 1) \in Nat /\ OnStack(s.depth) <= OnStack(s.depth + 1)
             /\ (OnStack(s.depth) <= s.pushed => OnStack(t.depth) <= t.pushed)
<1> DEFINE t == TempPush(s)
<1>1. /\ s.depth \in Nat /\ s.pushed \in Nat /\ s.spill_pending \in Nat BY Counters
<1>2. Effect(s, t, 1, OnStack(s.depth + 1) - OnStack(s.depth), 0) BY PushEffect
<1>3. /\ Agree(s, t, s.pushed, s.depth) /\ (Live(s) => TopTemp(t) = s.rax)
      /\ t.temps[t.depth].spill_at_push = s.spill_pending /\ t.rax = s.rax
  BY <1>1, PushValue
<1>4. /\ OnStack(s.depth) \in Nat /\ OnStack(s.depth + 1) \in Nat
      /\ OnStack(s.depth) <= OnStack(s.depth + 1)
  BY <1>1 DEF OnStack, Regs
<1> HIDE DEF t
<1>5. /\ Shape(t) /\ t.skip = s.skip /\ (~Live(s) => t.rsp = s.rsp)
      /\ (Live(t) <=> Live(s)) /\ t.depth = s.depth + 1
      /\ t.pushed = s.pushed + (OnStack(s.depth + 1) - OnStack(s.depth))
      /\ t.spill_pending = s.spill_pending
  BY <1>1, <1>2 DEF Effect, Live
<1> QED BY <1>1, <1>3, <1>4, <1>5 DEF t

\* The facts about a temporary popped that the operations need.
LEMMA PoppedFacts ==
  ASSUME NEW s, Shape(s), s.depth > 0, OnStack(s.depth) <= s.pushed,
         NEW reg \in {"rax", "rcx"}
  PROVE  LET t == TempPopInto(s, reg)
             p == s.pushed + (OnStack(s.depth - 1) - OnStack(s.depth))
         IN  /\ Shape(t) /\ t.skip = s.skip /\ (~Live(s) => t.rsp = s.rsp)
             /\ (Live(t) <=> Live(s)) /\ t.depth = s.depth - 1 /\ t.pushed = p
             /\ t.spill_pending = s.spill_pending
             /\ Agree(s, t, p, s.depth - 1) /\ (Live(s) => t[reg] = TopTemp(s))
             /\ \A r \in {"rax", "rcx"} : r /= reg => t[r] = s[r]
             /\ s.depth \in Nat /\ s.pushed \in Nat /\ OnStack(s.depth) \in Nat
             /\ OnStack(s.depth - 1) \in Nat /\ OnStack(t.depth) <= t.pushed
<1> DEFINE t == TempPopInto(s, reg)
           p == s.pushed + (OnStack(s.depth - 1) - OnStack(s.depth))
<1>1. /\ s.depth \in Nat /\ s.pushed \in Nat /\ s.spill_pending \in Nat
      /\ s.depth - 1 \in Nat
  BY Counters
<1>2. OnStack(s.depth) \in Nat /\ OnStack(s.depth - 1) \in Nat BY <1>1, OnStackInt
<1>3. p \in Int BY <1>1, <1>2
<1>4. Effect(s, t, -1, OnStack(s.depth - 1) - OnStack(s.depth), 0) BY PopEffect
<1>5. /\ Agree(s, t, p, s.depth - 1) /\ (Live(s) => t[reg] = TopTemp(s))
      /\ \A r \in {"rax", "rcx"} : r /= reg => t[r] = s[r]
  <2> DEFINE d == s.depth - 1
  <2>1. d \in Int /\ d <= s.depth - 1 BY <1>1
  <2> HIDE DEF d
  <2>2. /\ Agree(s, t, p, d) /\ (Live(s) => t[reg] = TopTemp(s))
        /\ \A r \in {"rax", "rcx"} : r /= reg => t[r] = s[r]
    BY <1>3, <2>1, PopValue
  <2> QED BY <2>2 DEF d
<1> HIDE DEF t
<1>6. /\ Shape(t) /\ t.skip = s.skip /\ (~Live(s) => t.rsp = s.rsp)
      /\ (Live(t) <=> Live(s)) /\ t.depth = s.depth - 1 /\ t.pushed = p
      /\ t.spill_pending = s.spill_pending
  BY <1>1, <1>4 DEF Effect, Live
<1>7. OnStack(t.depth) <= t.pushed BY <1>1, <1>2, <1>6
<1> QED BY <1>1, <1>2, <1>5, <1>6, <1>7 DEF t

\* An operand is evaluated and nothing else moves.
LEMMA StayFaithful ==
  ASSUME IInv, VInv, IInv', mode = "gen", mode' = "done", UNCHANGED frames,
         Agree(st, st', st.pushed, st.depth), st'.skip = st.skip,
         Live(st) => /\ st'.rax \in Value /\ event'.got = event'.want
                     /\ event'.got \in {<<>>, <<st'.rax>>},
         ~Live(st) => event' = Quiet
  PROVE  Faithful
<1>1. Inv(st, frames) /\ ValuesInv(st, frames) /\ st.rax \in Value BY StFacts DEF VInv, ValuesInv
<1>2. st'.rax \in Value BY <1>1, StillValue
<1>3. ValuesInv(st', frames) BY <1>1, <1>2, StayValues
<1>4. VInv' BY <1>3 DEF VInv
<1>5. OperandsIntact' BY DEF OperandsIntact, Quiet
<1>6. CASE Live(st)
  <2>1. Promise!Next BY <1>4, <1>6, OperandStep
  <2> QED BY <1>4, <1>5, <2>1 DEF Faithful
<1>7. CASE ~Live(st)
  <2>1. event'.got = <<>> BY <1>7 DEF Quiet
  <2>2. st'.rax = st.rax BY <1>7 DEF Agree
  <2>3. Promise!Next BY <1>4, <1>7, <2>1, <2>2, HiddenStep
  <2> QED BY <1>4, <1>5, <2>3 DEF Faithful
<1> QED BY <1>6, <1>7

\* A constant or a variable is a new result, nothing else moves.
LEMMA LeafFaithful == ASSUME IInv, VInv, IInv', GenLeaf PROVE Faithful
<1>1. PICK v \in Value : st' = Set(st, "rax", v) BY DEF GenLeaf
<1>2. Shape(st) /\ v \in Pattern BY StFacts, ValueIsPattern
<1>3. /\ Agree(st, st', st.pushed, st.depth) /\ st'.skip = st.skip
      /\ (Live(st) => st'["rax"] = v)
  BY <1>1, <1>2, SetScratch
<1>4. event' = Quiet /\ mode = "gen" /\ mode' = "done" /\ UNCHANGED frames BY DEF GenLeaf
<1>5. event'.got = <<>> /\ event'.want = <<>> BY <1>4 DEF Quiet
<1> QED BY <1>3, <1>4, <1>5, StayFaithful

\* The value of x++ is the one x had.
LEMMA PostfixVarFaithful == ASSUME IInv, VInv, IInv', GenPostfixVar PROVE Faithful
<1>1. PICK old \in Value, new \in Value :
        LET s3 == TempPopInto(Set(TempPush(Set(st, "rax", old)), "rax", new), "rax")
        IN  st' = Settled(s3) /\ Happened("postfix", <<s3.rax>>, <<old>>, 0, 0)
  BY DEF GenPostfixVar
<1> DEFINE s0 == Set(st, "rax", old)
           s1 == TempPush(s0)
           s2 == Set(s1, "rax", new)
           s3 == TempPopInto(s2, "rax")
<1>2. st' = Settled(s3) /\ Happened("postfix", <<s3.rax>>, <<old>>, 0, 0) BY <1>1
<1>3. /\ Shape(st) /\ st.depth \in Nat /\ st.pushed \in Nat /\ OnStack(st.depth) <= st.pushed
      /\ old \in Pattern /\ new \in Pattern
  BY StFacts, ValueIsPattern
<1>4. /\ Shape(s0) /\ s0.depth = st.depth /\ s0.pushed = st.pushed /\ s0.rsp = st.rsp
      /\ s0.skip = st.skip /\ (Live(s0) <=> Live(st)) /\ (Live(st) => s0["rax"] = old)
      /\ Agree(st, s0, st.pushed, st.depth)
  BY <1>3, SetScratch
<1> HIDE DEF s0
<1>5. /\ Shape(s1) /\ s1.skip = s0.skip /\ (~Live(s0) => s1.rsp = s0.rsp)
      /\ (Live(s1) <=> Live(s0)) /\ s1.depth = s0.depth + 1
      /\ s1.pushed = s0.pushed + (OnStack(s0.depth + 1) - OnStack(s0.depth))
      /\ Agree(s0, s1, s0.pushed, s0.depth) /\ (Live(s0) => TopTemp(s1) = s0.rax)
      /\ OnStack(s0.depth) \in Nat /\ OnStack(s0.depth + 1) \in Nat
      /\ OnStack(s1.depth) <= s1.pushed
  BY <1>3, <1>4, PushedFacts
<1> HIDE DEF s1
<1>6. /\ Shape(s2) /\ s2.depth = s1.depth /\ s2.pushed = s1.pushed /\ s2.rsp = s1.rsp
      /\ s2.skip = s1.skip /\ (Live(s2) <=> Live(s1)) /\ TopTemp(s2) = TopTemp(s1)
      /\ Agree(s1, s2, st.pushed, st.depth)
  BY <1>3, <1>5, SetScratch
<1> HIDE DEF s2
<1>7. /\ Shape(s3) /\ s3.skip = s2.skip /\ (~Live(s2) => s3.rsp = s2.rsp)
      /\ s3.depth = s2.depth - 1
      /\ Agree(s2, s3, s2.pushed + (OnStack(s2.depth - 1) - OnStack(s2.depth)), s2.depth - 1)
      /\ (Live(s2) => s3["rax"] = TopTemp(s2))
  BY <1>3, <1>4, <1>5, <1>6, PoppedFacts
<1> HIDE DEF s3
<1>8. s2.pushed + (OnStack(s2.depth - 1) - OnStack(s2.depth)) = st.pushed
      /\ s2.depth - 1 = st.depth
  <2> DEFINE a == OnStack(st.depth)
             b == OnStack(st.depth + 1)
  <2>1. s2.depth = st.depth + 1 /\ s2.depth - 1 = st.depth BY <1>3, <1>4, <1>5, <1>6
  <2>2. s2.pushed = st.pushed + (b - a) /\ a \in Nat /\ b \in Nat BY <1>4, <1>5, <1>6
  <2>3. OnStack(s2.depth) = b /\ OnStack(s2.depth - 1) = a BY <2>1
  <2> HIDE DEF a, b
  <2> QED BY <1>3, <2>1, <2>2, <2>3
<1>9. Agree(st, s3, st.pushed, st.depth)
  <2>1. Agree(st, s1, st.pushed, st.depth) BY <1>4, <1>5, AgreeChain
  <2>2. Agree(st, s2, st.pushed, st.depth) BY <1>4, <1>5, <1>6, <2>1, AgreeChain
  <2> QED BY <1>4, <1>5, <1>6, <1>7, <1>8, <2>2, AgreeChain
<1>10. /\ Agree(st, st', st.pushed, st.depth) /\ st'.skip = st.skip /\ st'.rax = s3.rax
  <2>1. s3.skip = st.skip /\ (~Live(st) => s3.rsp = st.rsp) /\ st.depth <= s3.depth
    BY <1>3, <1>4, <1>5, <1>6, <1>7, <1>8
  <2> QED BY <1>2, <1>3, <1>7, <1>9, <2>1, SettledAgree
<1>11. Live(st) => s3.rax = old BY <1>4, <1>5, <1>6, <1>7
<1>12. mode = "gen" /\ mode' = "done" /\ UNCHANGED frames BY DEF GenPostfixVar
<1>13. ASSUME Live(st)
       PROVE  /\ st'.rax \in Value /\ event'.got = event'.want
              /\ event'.got \in {<<>>, <<st'.rax>>}
  <2>1. event'.got = <<s3.rax>> /\ event'.want = <<old>> BY <1>2, <1>13 DEF Happened
  <2> QED BY <1>10, <1>11, <1>13, <2>1
<1>14. ~Live(st) => event' = Quiet BY <1>2 DEF Happened
<1> QED BY <1>10, <1>12, <1>13, <1>14, StayFaithful

\* The constructs that start by generating their first operand.
LEMMA EnterPlainFaithful ==
  ASSUME IInv, VInv, IInv', EnterBinary \/ EnterCompound \/ EnterAssign \/ EnterPostfix
                            \/ EnterTernary \/ EnterLogic
  PROVE  Faithful
<1>1. PICK kind \in Kinds \ {"call", "struct"}, rank \in Ranks : Enter(kind, rank)
  BY RankType DEF EnterBinary, EnterCompound, EnterAssign, EnterPostfix, EnterTernary,
         EnterLogic, Kinds
<1> DEFINE f == Entered(kind, rank)
<1>2. mode = "gen" /\ EnterWith(f, st, "gen") BY <1>1 DEF Enter, CanEnter
<1>3. f.depth0 = st.depth /\ f.pushed0 = st.pushed /\ f.held = <<>> /\ f.step = 0 /\ f.kind = kind
  BY DEF Entered
<1>4. f.kind /= "call" BY <1>3
<1>5. Agree(st, st, st.pushed, st.depth) BY AgreeSame
<1> HIDE DEF f
<1> QED BY <1>2, <1>3, <1>4, <1>5, EnterFaithful

\* On Windows two words are pushed first.
LEMMA EnterStructFaithful == ASSUME IInv, VInv, IInv', EnterStruct PROVE Faithful
<1> DEFINE s == IF Windows THEN Grow(st, 2, Junk) ELSE st
           f == Entered("struct", Assignment)
<1>1. mode = "gen" /\ EnterWith(f, s, "gen") BY DEF EnterStruct, CanEnter
<1>2. f.depth0 = st.depth /\ f.pushed0 = st.pushed /\ f.held = <<>> /\ f.step = 0
      /\ f.kind /= "call"
  BY DEF Entered
<1>3. s.skip = st.skip /\ s.rax = st.rax /\ Agree(st, s, st.pushed, st.depth)
  <2>1. CASE Windows
    <3>1. Shape(st) /\ st.pushed \in Int /\ st.pushed <= st.pushed /\ 2 \in Nat BY StFacts
    <3>2. Grow(st, 2, Junk).skip = st.skip /\ Grow(st, 2, Junk).rax = st.rax
      BY <3>1, GrowFields
    <3>3. Agree(st, Grow(st, 2, Junk), st.pushed, st.depth) BY <3>1, AgreeGrow
    <3>4. s = Grow(st, 2, Junk) BY <2>1
    <3> HIDE DEF s
    <3> QED BY <3>2, <3>3, <3>4
  <2>2. CASE ~Windows BY <2>2, AgreeSame
  <2> QED BY <2>1, <2>2
<1> HIDE DEF f, s
<1> QED BY <1>1, <1>2, <1>3, EnterFaithful

\* The set-up of a call parks the pool register and disturbs nothing.
LEMMA SetupValue ==
  ASSUME NEW s, Shape(s), NEW n \in Nat
  PROVE  LET t == CallSetup(s, n)
             padded == IF NeedsPad(TempSpill(s), n) THEN 1 ELSE 0
         IN  /\ Shape(t) /\ t.skip = s.skip /\ t.rax = s.rax /\ t.r10 = s.r10
             /\ (~Live(s) => t.rsp = s.rsp) /\ t.depth = s.depth
             /\ padded \in {0, 1}
             /\ t.pushed = s.pushed + (Regs(s.depth) + padded)
             /\ Agree(s, t, s.pushed, s.depth)
             /\ (Live(s) /\ Regs(s.depth) = 1 => t.mem[s.pushed + 1] = s.r10)
<1> DEFINE u == TempSpill(s)
           padded == IF NeedsPad(u, n) THEN 1 ELSE 0
           t == CallSetup(s, n)
<1>1. /\ s.depth \in Nat /\ s.pushed \in Nat /\ s.rsp \in Nat /\ Regs(s.depth) \in {0, 1}
      /\ (Live(s) => s.rsp = s.pushed) /\ Junk \in Pattern
  BY Counters, RegsType, ValueIsPattern
<1>2. Effect(s, u, 0, Regs(s.depth), Regs(s.depth)) BY SpillEffect
<1>3. Effect(s, t, 0, Regs(s.depth) + padded, Regs(s.depth)) BY SetupEffect
<1>4. /\ Agree(s, u, s.pushed, s.depth)
      /\ u.rax = s.rax /\ u.r10 = s.r10
      /\ (Live(s) /\ Regs(s.depth) = 1 => u.mem[s.rsp + 1] = s.r10)
  BY <1>1, SpillValue
<1>5. t = IF NeedsPad(u, n) THEN Grow(u, 1, Junk) ELSE u BY DEF CallSetup, Pushq
<1> HIDE DEF u
<1>6. /\ Shape(u) /\ u.skip = s.skip /\ (Live(u) <=> Live(s)) /\ (~Live(s) => u.rsp = s.rsp)
      /\ u.pushed = s.pushed + Regs(s.depth) /\ u.rsp \in Nat
      /\ (Live(s) => u.rsp = s.rsp + Regs(s.depth))
  BY <1>2, Counters DEF Effect, Live
<1> HIDE DEF t
<1>7. /\ Agree(u, t, s.pushed, s.depth) /\ t.rax = u.rax /\ t.r10 = u.r10
      /\ \A i \in 1..u.rsp : t.mem[i] = u.mem[i]
  <2>1. CASE NeedsPad(u, n)
    <3>1. 1 \in Nat /\ s.pushed \in Int /\ s.pushed <= u.pushed BY <1>1, <1>6
    <3> QED BY <1>5, <1>6, <2>1, <3>1, GrowFields, AgreeGrow
  <2>2. CASE ~NeedsPad(u, n) BY <1>5, <2>2, AgreeSame
  <2> QED BY <2>1, <2>2
<1>8. /\ Shape(t) /\ t.skip = s.skip /\ (~Live(s) => t.rsp = s.rsp) /\ t.depth = s.depth
      /\ t.pushed = s.pushed + (Regs(s.depth) + padded)
  BY <1>1, <1>3 DEF Effect
<1>9. Agree(s, t, s.pushed, s.depth) BY <1>4, <1>6, <1>7, AgreeChain
<1>10. Live(s) /\ Regs(s.depth) = 1 => t.mem[s.pushed + 1] = s.r10
  <2>1. Live(s) /\ Regs(s.depth) = 1 => s.rsp + 1 \in 1..u.rsp /\ s.rsp + 1 = s.pushed + 1
    BY <1>1, <1>6
  <2> QED BY <1>4, <1>7, <2>1
<1>11. padded \in {0, 1} OBVIOUS
<1> QED BY <1>4, <1>7, <1>8, <1>9, <1>10, <1>11 DEF t, u

\* A call begins; without arguments it also ends.
LEMMA EnterCallFaithful == ASSUME IInv, VInv, IInv', EnterCall PROVE Faithful
<1>1. PICK asked \in 0..MaxArgs :
        LET n       == Kept(asked)
            spilled == st.pool_used
            padded  == IF NeedsPad(TempSpill(st), n) THEN 1 ELSE 0
            frame   == [Entered("call", Primary) EXCEPT
                          !.n = n, !.asked = asked, !.spilled = spilled,
                          !.padded = padded]
            s       == CallSetup(st, n)
        IN  IF n > 0
            THEN CanEnter(Primary) /\ EnterWith(frame, s, "gen")
            ELSE /\ \E v \in Value : st' = Settled(CallEmit(s, 0, spilled, padded, v))
                 /\ Happened("call", <<>>, <<>>, asked, Ready(s, 0).rsp)
                 /\ mode' = "done"
                 /\ UNCHANGED frames
  BY DEF EnterCall
<1> DEFINE n == Kept(asked)
           spilled == st.pool_used
           padded == IF NeedsPad(TempSpill(st), n) THEN 1 ELSE 0
           frame == [Entered("call", Primary) EXCEPT
                       !.n = n, !.asked = asked, !.spilled = spilled, !.padded = padded]
           s == CallSetup(st, n)
<1>2. asked \in Nat BY TempPoolAssumption
<1>3. n \in Nat BY <1>2, KeptType
<1>4. /\ Shape(st) /\ spilled = Regs(st.depth) /\ spilled \in {0, 1}
      /\ st.pushed \in Nat /\ st.depth \in Nat /\ (Live(st) => st.rsp = st.pushed)
  BY StFacts, RegsType, Counters
<1>5. /\ Shape(s) /\ s.skip = st.skip /\ s.rax = st.rax /\ s.r10 = st.r10
      /\ (~Live(st) => s.rsp = st.rsp) /\ s.depth = st.depth
      /\ padded \in {0, 1}
      /\ s.pushed = st.pushed + (spilled + padded)
      /\ Agree(st, s, st.pushed, st.depth)
      /\ (Live(st) /\ spilled = 1 => s.mem[st.pushed + 1] = st.r10)
  BY <1>3, <1>4, SetupValue, ZenonT(60)
<1>6. mode = "gen" BY DEF EnterCall
<1>7. CASE n > 0
  <2>1. EnterWith(frame, s, "gen") BY <1>1, <1>7
  <2>2. /\ frame.step = 0 /\ frame.spilled = spilled /\ frame.held = <<>>
        /\ frame.depth0 = st.depth /\ frame.pushed0 = st.pushed
    <3> HIDE DEF n, spilled, padded
    <3> QED BY DEF Entered
  <2> HIDE DEF frame, s, spilled, padded, n
  <2> QED BY <1>5, <1>6, <2>1, <2>2, EnterFaithful
<1>8. CASE n = 0
  <2>1. PICK v \in Value : st' = Settled(CallEmit(s, 0, spilled, padded, v))
    BY <1>1, <1>8
  <2>2. /\ Happened("call", <<>>, <<>>, asked, Ready(s, 0).rsp) /\ UNCHANGED frames
        /\ mode' = "done"
    BY <1>1, <1>8
  <2> DEFINE u == CallEmit(s, 0, spilled, padded, v)
  <2> HIDE DEF s, padded, spilled, frame
  <2>3. (Live(s) <=> Live(st)) /\ 0 \in Nat /\ st.pushed \in Int BY <1>4, <1>5 DEF Live
  <2>4. 0 + padded + spilled <= s.pushed /\ st.pushed <= s.pushed - (0 + padded + spilled)
    BY <1>4, <1>5
  <2>5. Live(s) /\ spilled = 1 => s.mem[s.pushed - (0 + padded)] = s.r10
    BY <1>4, <1>5, <2>3
  <2>6. Regs(st.depth) = 1 => spilled = 1 BY <1>4
  <2>7. Agree(s, u, st.pushed, st.depth) /\ (Live(s) => u.rax = v)
    BY <1>4, <1>5, <2>3, <2>4, <2>5, <2>6, CallValue
  <2>8. spilled <= s.spill_pending
    <3>1. Effect(st, s, 0, Regs(st.depth) + padded, Regs(st.depth))
      BY <1>3, <1>4, SetupEffect DEF s, padded
    <3> QED BY <1>4, <3>1, StFacts DEF Effect
  <2>9. Effect(s, u, 0, -(0 + padded + spilled), -spilled)
    BY <1>4, <1>5, <2>3, <2>4, <2>8, CallEffect
  <2> HIDE DEF u
  <2>10. /\ Shape(u) /\ u.skip = st.skip /\ (~Live(st) => u.rsp = st.rsp)
         /\ st.depth <= u.depth
    BY <1>4, <1>5, <2>3, <2>9 DEF Effect
  <2>11. Agree(st, u, st.pushed, st.depth) BY <1>5, <2>7, AgreeChain
  <2>12. /\ Agree(st, st', st.pushed, st.depth) /\ st'.skip = st.skip /\ st'.rax = u.rax
    BY <1>4, <2>1, <2>3, <2>10, <2>11, SettledAgree DEF u
  <2>13. ASSUME Live(st)
         PROVE  /\ st'.rax \in Value /\ event'.got = event'.want
                /\ event'.got \in {<<>>, <<st'.rax>>}
    <3>1. event'.got = <<>> /\ event'.want = <<>> BY <2>2, <2>13 DEF Happened
    <3> QED BY <2>3, <2>7, <2>12, <2>13, <3>1
  <2>14. ~Live(st) => event' = Quiet BY <2>2 DEF Happened
  <2> QED BY <1>6, <2>2, <2>12, <2>13, <2>14, StayFaithful
<1> HIDE DEF n
<1>9. n > 0 \/ n = 0 BY <1>3
<1> QED BY <1>7, <1>8, <1>9

\* The temporary under the one just pushed is read past it.
LEMMA PeekUnder ==
  ASSUME NEW s, Shape(s), s.depth > 0, OnStack(s.depth) <= s.pushed, Live(s),
         NEW t, Shape(t), Live(t), t.depth = s.depth + 1,
         t.pushed = s.pushed + (OnStack(s.depth + 1) - OnStack(s.depth)),
         t.spill_pending = s.spill_pending, Agree(s, t, s.pushed, s.depth),
         s.temps[s.depth].spill_at_push = s.spill_pending
  PROVE  TempPeek(t, 1) = TopTemp(s)
<1>1. /\ s.depth \in Nat /\ s.pushed \in Nat /\ s.rsp = s.pushed /\ t.rsp = t.pushed
  BY Counters
<1>2. OnStack(s.depth + 1) = OnStack(s.depth) + 1 /\ OnStack(s.depth) \in Nat
  BY <1>1 DEF OnStack, Regs
<1>3. t.pushed = s.pushed + 1 /\ OnStack(t.depth) <= t.pushed BY <1>1, <1>2
<1>4. t.depth - 1 = s.depth /\ t.depth > 1 BY <1>1
<1>5. t.temps[t.depth - 1].spill_at_push = t.spill_pending
  <2>1. s.depth \in 1..s.depth BY <1>1
  <2> QED BY <1>4, <2>1 DEF Agree
<1>6. TempPeek(t, 1) = IF Optimize /\ t.depth = 2 THEN t.r10 ELSE t.mem[t.rsp - 1]
  BY <1>3, <1>4, <1>5, PeekNext
<1>7. CASE Optimize /\ s.depth = 1
  <2>1. Regs(s.depth) = 1 BY <1>7 DEF Regs
  <2> QED BY <1>6, <1>7, <2>1 DEF Agree, TopTemp
<1>8. CASE ~(Optimize /\ s.depth = 1)
  <2>1. OnStack(s.depth) >= 1 BY <1>1, <1>8 DEF OnStack, Regs
  <2>2. s.rsp \in 1..s.pushed /\ t.rsp - 1 = s.rsp BY <1>1, <1>2, <1>3, <2>1
  <2>3. ~(Optimize /\ t.depth = 2) BY <1>1, <1>8
  <2> QED BY <1>6, <1>8, <2>2, <2>3 DEF Agree, TopTemp
<1> QED BY <1>7, <1>8

\* (*p)++ stores through p and yields what was there.
LEMMA PostfixTargetFaithful == ASSUME IInv, VInv, IInv', PostfixTarget PROVE Faithful
<1> DEFINE s1 == TempPush(st)
           s2 == Set(s1, "rcx", TempPeek(s1, 0))
<1>1. fp > 0 /\ Top.kind = "postfix" /\ Top.step = 0 /\ mode = "done"
  BY DEF PostfixTarget, At
<1>2. PICK old \in Value, new \in Value :
        LET s4 == TempPush(Set(s2, "rax", old))
            s5 == Set(s4, "rax", new)
            s6 == Set(s5, "rcx", TempPeek(s5, 1))
            s8 == TempDrop(TempPopInto(s6, "rax"))
        IN  Leave(s8) /\ Happened("postfix", <<s6.rcx, s8.rax>>, <<st.rax, old>>, 0, 0)
  BY DEF PostfixTarget
<1> DEFINE s3 == Set(s2, "rax", old)
           s4 == TempPush(s3)
           s5 == Set(s4, "rax", new)
           s6 == Set(s5, "rcx", TempPeek(s5, 1))
           s7 == TempPopInto(s6, "rax")
           s8 == TempDrop(s7)
           d1 == st.depth + 1
           p1 == st.pushed + (OnStack(d1) - OnStack(st.depth))
<1>3. Leave(s8) /\ Happened("postfix", <<s6.rcx, s8.rax>>, <<st.rax, old>>, 0, 0) BY <1>2
<1>4. TempsOf(Top) = 0 /\ RawOf(Top) = 0 BY <1>1 DEF TempsOf, RawOf
<1>5. /\ Shape(st) /\ st.depth \in Nat /\ st.pushed \in Nat /\ st.depth = Top.depth0
      /\ st.pushed = Top.pushed0 /\ OnStack(st.depth) <= st.pushed
      /\ old \in Pattern /\ new \in Pattern /\ st.rax \in Value
  BY <1>1, <1>4, TopAt, ValueIsPattern DEF VInv, ValuesInv
<1>6. /\ Shape(s1) /\ s1.skip = st.skip /\ (~Live(st) => s1.rsp = st.rsp)
      /\ (Live(s1) <=> Live(st)) /\ s1.depth = d1 /\ s1.pushed = p1
      /\ s1.spill_pending = st.spill_pending
      /\ Agree(st, s1, st.pushed, st.depth) /\ (Live(st) => TopTemp(s1) = st.rax)
      /\ s1.temps[s1.depth].spill_at_push = s1.spill_pending
      /\ OnStack(st.depth) \in Nat /\ OnStack(d1) \in Nat /\ OnStack(st.depth) <= OnStack(d1)
      /\ OnStack(s1.depth) <= s1.pushed /\ TempPeek(s1, 0) \in Pattern
  <2>1. Shape(s1) BY <1>5, PushedFacts
  <2>2. TempPeek(s1, 0) \in Pattern BY <2>1, PeekTyped
  <2> HIDE DEF p1, d1
  <2> QED BY <1>5, <2>1, <2>2, PushedFacts DEF p1, d1
<1> HIDE DEF s1
<1>7. d1 \in Nat /\ p1 \in Nat /\ st.pushed <= p1 /\ st.depth <= d1 /\ d1 > 0 /\ d1 + 1 > 0
      /\ (d1 + 1) - 1 = d1 /\ d1 - 1 = st.depth
      /\ p1 + (OnStack(st.depth) - OnStack(d1)) = st.pushed
  BY <1>5, <1>6
<1> HIDE DEF d1, p1
<1>8. /\ Shape(s3) /\ s3.temps = s1.temps /\ s3.depth = d1 /\ s3.pushed = p1
      /\ s3.spill_pending = s1.spill_pending
      /\ s3.rsp = s1.rsp /\ s3.skip = s1.skip /\ (Live(s3) <=> Live(st))
      /\ Agree(s1, s3, p1, d1) /\ TopTemp(s3) = TopTemp(s1) /\ (Live(st) => s3.rax = old)
  <2>1. /\ Shape(s2) /\ s2.temps = s1.temps /\ s2.depth = d1 /\ s2.pushed = p1
        /\ s2.spill_pending = s1.spill_pending
        /\ s2.rsp = s1.rsp /\ s2.skip = s1.skip /\ (Live(s2) <=> Live(s1))
        /\ Agree(s1, s2, p1, d1) /\ TopTemp(s2) = TopTemp(s1)
    BY <1>6, SetScratch
  <2> HIDE DEF s2
  <2>2. /\ Shape(s3) /\ s3.temps = s2.temps /\ s3.depth = s2.depth /\ s3.pushed = s2.pushed
        /\ s3.spill_pending = s2.spill_pending
        /\ s3.rsp = s2.rsp /\ s3.skip = s2.skip /\ (Live(s3) <=> Live(s2))
        /\ Agree(s2, s3, p1, d1) /\ TopTemp(s3) = TopTemp(s2) /\ (Live(s2) => s3["rax"] = old)
    BY <1>5, <2>1, SetScratch
  <2> HIDE DEF s3
  <2>3. Agree(s1, s3, p1, d1) BY <2>1, <2>2, AgreeChain
  <2> QED BY <1>6, <2>1, <2>2, <2>3
<1> HIDE DEF s2, s3
<1>9. /\ Shape(s4) /\ s4.skip = s3.skip /\ (~Live(s3) => s4.rsp = s3.rsp)
      /\ (Live(s4) <=> Live(s3)) /\ s4.depth = s3.depth + 1
      /\ s4.pushed = s3.pushed + (OnStack(s3.depth + 1) - OnStack(s3.depth))
      /\ s4.spill_pending = s3.spill_pending
      /\ Agree(s3, s4, s3.pushed, s3.depth) /\ (Live(s3) => TopTemp(s4) = s3.rax)
      /\ OnStack(s4.depth) <= s4.pushed /\ OnStack(s3.depth + 1) \in Nat
      /\ OnStack(s3.depth) \in Nat
  BY <1>6, <1>8, PushedFacts
<1> HIDE DEF s4
<1>10. /\ Shape(s5) /\ s5.depth = s4.depth /\ s5.pushed = s4.pushed
       /\ s5.spill_pending = s4.spill_pending
       /\ s5.rsp = s4.rsp /\ s5.skip = s4.skip /\ (Live(s5) <=> Live(s4))
       /\ Agree(s4, s5, p1, d1) /\ TopTemp(s5) = TopTemp(s4)
  BY <1>5, <1>9, SetScratch
<1> HIDE DEF s5
<1>11. TempPeek(s5, 1) \in Pattern BY <1>10, PeekTyped
<1>12. /\ Shape(s6) /\ s6.depth = s5.depth /\ s6.pushed = s5.pushed
       /\ s6.spill_pending = s5.spill_pending
       /\ s6.rsp = s5.rsp /\ s6.skip = s5.skip /\ (Live(s6) <=> Live(s5))
       /\ Agree(s5, s6, p1, d1) /\ TopTemp(s6) = TopTemp(s5)
       /\ (Live(s5) => s6["rcx"] = TempPeek(s5, 1))
  BY <1>10, <1>11, SetScratch
<1> HIDE DEF s6
<1>13. /\ Shape(s7) /\ s7.skip = s6.skip /\ (~Live(s6) => s7.rsp = s6.rsp)
       /\ (Live(s7) <=> Live(s6)) /\ s7.depth = s6.depth - 1
       /\ s7.pushed = s6.pushed + (OnStack(s6.depth - 1) - OnStack(s6.depth))
       /\ Agree(s6, s7, s6.pushed + (OnStack(s6.depth - 1) - OnStack(s6.depth)), s6.depth - 1)
       /\ (Live(s6) => s7["rax"] = TopTemp(s6)) /\ OnStack(s7.depth) <= s7.pushed
  BY <1>7, <1>8, <1>9, <1>10, <1>12, PoppedFacts
<1>14. s6.pushed + (OnStack(s6.depth - 1) - OnStack(s6.depth)) = p1 /\ s6.depth - 1 = d1
  BY <1>7, <1>8, <1>9, <1>10, <1>12
<1> HIDE DEF s7
<1>15. Agree(s7, s8, st.pushed, st.depth) /\ s8.rax = s7.rax
       /\ Effect(s7, s8, -1, OnStack(s7.depth - 1) - OnStack(s7.depth), 0)
  <2>1. s7.depth > 0 /\ st.pushed \in Int /\ st.depth \in Int
        /\ st.pushed <= s7.pushed + (OnStack(s7.depth - 1) - OnStack(s7.depth))
        /\ st.depth <= s7.depth - 1
    BY <1>5, <1>7, <1>13, <1>14
  <2> QED BY <1>13, <2>1, DropValue, DropEffect
<1> HIDE DEF s8
<1>16. /\ Shape(s8) /\ s8.skip = st.skip /\ (~Live(st) => s8.rsp = st.rsp)
       /\ Top.depth0 <= s8.depth
  <2>1. s8.depth = s7.depth + (-1) /\ Shape(s8) /\ s8.skip = s7.skip
        /\ (~Live(s7) => s8.rsp = s7.rsp)
    BY <1>15 DEF Effect
  <2> QED BY <1>5, <1>6, <1>7, <1>8, <1>9, <1>10, <1>12, <1>13, <1>14, <2>1
<1>17. Agree(st, s8, Top.pushed0, Top.depth0)
  <2>1. Agree(s1, s4, p1, d1) BY <1>6, <1>8, <1>9, AgreeChain
  <2>2. Agree(s1, s5, p1, d1) BY <1>6, <1>8, <1>9, <1>10, <2>1, AgreeChain
  <2>3. Agree(s1, s6, p1, d1) BY <1>6, <1>8, <1>9, <1>10, <1>12, <2>2, AgreeChain
  <2>4. Agree(s1, s7, p1, d1) BY <1>6, <1>8, <1>9, <1>10, <1>12, <1>13, <1>14, <2>3, AgreeChain
  <2>5. Agree(s1, s7, st.pushed, st.depth) BY <1>5, <1>6, <1>7, <2>4, AgreeLess
  <2>6. Agree(st, s7, st.pushed, st.depth) BY <1>6, <2>5, AgreeChain
  <2>7. s7.skip = st.skip /\ (~Live(st) => s7.rsp = st.rsp)
    BY <1>6, <1>8, <1>9, <1>10, <1>12, <1>13
  <2> QED BY <1>5, <1>15, <2>6, <2>7, AgreeChain
<1>18. ASSUME Live(st)
       PROVE  /\ <<s6.rcx, s8.rax>> = <<st.rax, old>> /\ s8.rax \in Value
              /\ <<st.rax, old>> = <<st.rax, s8.rax>> /\ Top.held = <<>>
  <2>1. s8.rax = old BY <1>8, <1>9, <1>10, <1>12, <1>13, <1>15, <1>18
  <2>2. TempPeek(s5, 1) = TopTemp(s3)
    <3>1. Agree(s3, s5, p1, d1) BY <1>8, <1>9, <1>10, AgreeChain
    <3>2. s3.temps[s3.depth].spill_at_push = s3.spill_pending BY <1>6, <1>8
    <3>3. s3.depth > 0 /\ OnStack(s3.depth) <= s3.pushed /\ Live(s3) /\ Live(s5)
      BY <1>6, <1>7, <1>8, <1>9, <1>10, <1>18
    <3> QED BY <1>8, <1>9, <1>10, <3>1, <3>2, <3>3, PeekUnder
  <2>3. s6.rcx = st.rax BY <1>6, <1>8, <1>9, <1>10, <1>12, <1>18, <2>2
  <2>4. Top.held = <<>> BY <1>1, <1>4, <1>18, NoneHeld
  <2> QED BY <2>1, <2>3, <2>4
<1>19. Top.kind \notin {"ternary", "logic"} BY <1>1
<1> QED BY <1>1, <1>3, <1>16, <1>17, <1>18, <1>19, LeaveFaithful

\* Where the arguments of the innermost call are.
LEMMA CallWords ==
  ASSUME IInv, VInv, fp > 0, Top.kind = "call"
  PROVE  /\ Top.step \in Nat /\ Top.n \in Nat /\ Top.step < Top.n
         /\ Top.depth0 \in Nat /\ Top.pushed0 \in Nat /\ Top.spill0 \in Nat
         /\ Top.spilled \in {0, 1} /\ Top.padded \in {0, 1}
         /\ Top.spilled = Regs(Top.depth0) /\ st.depth = Top.depth0
         /\ st.pushed = Top.pushed0 + Top.spilled + Top.padded + Top.step
         /\ st.spill_pending = Top.spill0 + Top.spilled
         /\ Shape(st) /\ st.rax \in Value /\ st.rax \in Pattern /\ st.pushed \in Nat
         /\ Live(st) => /\ st.rsp = st.pushed
                        /\ Top.held \in Seq(Value) /\ Len(Top.held) = Top.step
                        /\ \A j \in 1..Top.step : Top.held[j] = st.mem[ArgWord(Top, j)]
                        /\ Top.spilled = 1 => st.mem[Top.pushed0 + 1] = st.r10
<1> DEFINE g == Top
<1>1. /\ FrameOK(g) /\ Shape(st) /\ st.pushed \in Nat /\ st.depth \in Nat
      /\ OnStack(g.depth0) \in Nat
      /\ st.depth = g.depth0 + TempsOf(g)
      /\ st.pushed = g.pushed0 + (OnStack(st.depth) - OnStack(g.depth0)) + RawOf(g)
      /\ st.spill_pending = SpillAfter(g)
  BY TopAt
<1>2. st.rax \in Value /\ st.rax \in Pattern /\ (Live(st) => st.rsp = st.pushed)
  BY StFacts, Counters DEF VInv, ValuesInv
<1>3. Live(st) => HeldOK(g) /\ Parked(st, g) BY TopHeld
<1>4. g.kind = "call" OBVIOUS
<1> HIDE DEF g
<1>5. /\ g.step \in Nat /\ g.n \in Nat /\ g.step < g.n /\ g.spilled \in {0, 1}
      /\ g.padded \in {0, 1} /\ g.spilled = Regs(g.depth0)
      /\ g.depth0 \in Nat /\ g.pushed0 \in Nat /\ g.spill0 \in Nat
  BY <1>1, <1>4 DEF FrameOK, FrameType
<1>6. TempsOf(g) = 0 /\ RawOf(g) = g.spilled + g.padded + g.step
      /\ SpillAfter(g) = g.spill0 + g.spilled
  BY <1>4 DEF TempsOf, RawOf, SpillAfter
<1>7. st.depth = g.depth0 BY <1>1, <1>5, <1>6
<1>8. st.pushed = g.pushed0 + g.spilled + g.padded + g.step
  BY <1>1, <1>5, <1>6, <1>7
<1>9. Live(st) => /\ g.held \in Seq(Value) /\ Len(g.held) = g.step
                  /\ \A j \in 1..g.step : g.held[j] = st.mem[ArgWord(g, j)]
                  /\ g.spilled = 1 => st.mem[g.pushed0 + 1] = st.r10
  BY <1>3, <1>4 DEF HeldOK, Parked
<1> QED BY <1>1, <1>2, <1>5, <1>6, <1>7, <1>8, <1>9 DEF g

\* An argument is pushed above the ones before it.
LEMMA CallArgFaithful == ASSUME IInv, VInv, IInv', CallArg PROVE Faithful
<1>1. /\ fp > 0 /\ Top.kind = "call" /\ mode = "done"
      /\ Advance(Pushq(st, st.rax), <<st.rax>>)
  BY DEF CallArg, At
<1> DEFINE s == Pushq(st, st.rax)
           f == frames'[fp]
           g == Top
<1>2. /\ g.step \in Nat /\ g.pushed0 \in Nat /\ g.depth0 \in Nat
      /\ g.spilled \in {0, 1} /\ g.padded \in {0, 1}
      /\ g.spilled = Regs(g.depth0) /\ st.depth = g.depth0
      /\ st.pushed = g.pushed0 + g.spilled + g.padded + g.step
      /\ Shape(st) /\ st.rax \in Value /\ st.rax \in Pattern /\ st.pushed \in Nat
      /\ (Live(st) => /\ st.rsp = st.pushed
                      /\ g.held \in Seq(Value) /\ Len(g.held) = g.step
                      /\ \A j \in 1..g.step : g.held[j] = st.mem[ArgWord(g, j)]
                      /\ g.spilled = 1 => st.mem[g.pushed0 + 1] = st.r10)
  BY <1>1, CallWords
<1>3. /\ s.depth = st.depth /\ s.pushed = st.pushed + 1 /\ s.skip = st.skip
      /\ s.rax = st.rax /\ s.r10 = st.r10
      /\ s.rsp = (IF Live(st) THEN st.rsp + 1 ELSE st.rsp)
      /\ \A i \in 1..st.rsp : s.mem[i] = st.mem[i]
      /\ \A i \in 1..s.rsp : i > st.rsp => s.mem[i] = st.rax
  BY <1>2, GrowFields DEF Pushq
<1>4. Shape(s) /\ Agree(st, s, st.pushed, st.depth)
  <2>1. 1 \in Nat /\ st.pushed \in Int /\ st.pushed <= st.pushed BY <1>2
  <2>2. Shape(st) /\ st.rax \in Pattern BY <1>2
  <2>3. Effect(st, Grow(st, 1, st.rax), 0, 1, 0) BY <2>1, <2>2, GrowEffect
  <2>4. Agree(st, Grow(st, 1, st.rax), st.pushed, st.depth) BY <2>1, <2>2, AgreeGrow
  <2> QED BY <2>3, <2>4 DEF Pushq, Effect
<1>5. /\ Len(frames') = fp /\ f.kind = "call" /\ f.step = g.step + 1 /\ f.spilled = g.spilled
      /\ f.padded = g.padded /\ f.pushed0 = g.pushed0
      /\ (Live(st) => f.held = g.held \o <<st.rax>>)
  BY <1>1, AdvanceFrames
<1>6. st' = Settled(s) BY <1>1 DEF Advance
<1> HIDE DEF s, f, g
<1>7. s.pushed \in Int /\ s.depth \in Int /\ s.depth = g.depth0 BY <1>2, <1>3
<1>8. Agree(s, st', s.pushed, s.depth) BY <1>4, <1>6, <1>7, AgreeSettled
<1>9. ASSUME Live(st) PROVE HeldOK(f) /\ Parked(st', f)
  <2>1. /\ f.held \in Seq(Value) /\ Len(f.held) = g.step + 1 /\ f.held[g.step + 1] = st.rax
        /\ \A j \in 1..g.step : f.held[j] = g.held[j]
    <3>1. g.held \in Seq(Value) /\ Len(g.held) = g.step /\ st.rax \in Value BY <1>2, <1>9
    <3>2. f.held = g.held \o <<st.rax>> BY <1>5, <1>9
    <3>3. /\ g.held \o <<st.rax>> \in Seq(Value)
          /\ Len(g.held \o <<st.rax>>) = Len(g.held) + 1
          /\ \A i \in 1..Len(g.held) : (g.held \o <<st.rax>>)[i] = g.held[i]
          /\ (g.held \o <<st.rax>>)[Len(g.held) + 1] = st.rax
      BY <3>1, OneMore
    <3> QED BY <3>1, <3>2, <3>3
  <2>2. HeldOK(f) BY <1>5, <2>1 DEF HeldOK
  <2>3. \A i \in 1..s.pushed : st'.mem[i] = s.mem[i]
    <3>1. Live(s) BY <1>3, <1>9 DEF Live
    <3> QED BY <1>8, <3>1 DEF Agree
  <2>4. s.rsp = s.pushed /\ s.pushed = st.rsp + 1 /\ st.rsp \in Nat BY <1>2, <1>3, <1>9
  <2> DEFINE base == g.pushed0 + g.spilled + g.padded
  <2>9. base \in Nat /\ g.step \in Nat /\ st.rsp = base + g.step
    <3>1. g.spilled \in Nat /\ g.padded \in Nat /\ g.pushed0 \in Nat /\ g.step \in Nat BY <1>2
    <3>2. st.rsp = base + g.step BY <1>2, <1>9
    <3> QED BY <3>1, <3>2
  <2>10. \A j \in 1..f.step : /\ ArgWord(f, j) = base + j /\ ArgWord(g, j) = base + j
    BY <1>5 DEF ArgWord
  <2> HIDE DEF base
  <2>5. ASSUME NEW j \in 1..f.step PROVE f.held[j] = st'.mem[ArgWord(f, j)]
    <3>1. ArgWord(f, j) = base + j /\ ArgWord(g, j) = base + j BY <2>10
    <3>2. CASE j = g.step + 1
      <4>1. ArgWord(f, j) = s.pushed /\ s.pushed \in 1..s.rsp /\ s.pushed > st.rsp
        BY <2>4, <2>9, <3>1, <3>2
      <4> QED BY <1>3, <2>1, <2>3, <2>4, <3>2, <4>1
    <3>3. CASE j \in 1..g.step
      <4>1. ArgWord(f, j) \in 1..st.rsp /\ ArgWord(f, j) \in 1..s.pushed
        BY <2>4, <2>9, <3>1, <3>3
      <4>2. st'.mem[ArgWord(f, j)] = st.mem[ArgWord(g, j)] BY <1>3, <2>3, <3>1, <4>1
      <4> QED BY <1>2, <1>9, <2>1, <3>3, <4>2
    <3> QED BY <1>2, <1>5, <3>2, <3>3
  <2>6. ASSUME f.spilled = 1 PROVE st'.mem[f.pushed0 + 1] = st'.r10
    <3>1. Regs(s.depth) = 1 BY <1>2, <1>5, <1>7, <2>6
    <3>2. st'.r10 = st.r10 BY <1>3, <1>8, <3>1 DEF Agree
    <3>4. g.padded \in Nat /\ g.pushed0 \in Nat /\ g.spilled = 1 /\ f.pushed0 = g.pushed0
      BY <1>2, <1>5, <2>6
    <3>5. base = g.pushed0 + 1 + g.padded BY <3>4 DEF base
    <3>3. f.pushed0 + 1 \in 1..st.rsp /\ f.pushed0 + 1 \in 1..s.pushed
      BY <2>4, <2>9, <3>4, <3>5
    <3> QED BY <1>2, <1>3, <1>5, <1>9, <2>3, <2>6, <3>2, <3>3
  <2>7. TempsOf(f) = 0 BY <1>5 DEF TempsOf
  <2>8. Parked(st', f) BY <2>5, <2>6, <2>7 DEF Parked
  <2> QED BY <2>2, <2>8
<1>10. Advance(s, <<st.rax>>) BY <1>1 DEF s
<1>11. /\ Top.kind \notin {"ternary", "logic"} /\ st.depth <= s.depth
       /\ (~Live(st) => s.rsp = st.rsp) /\ s.skip = st.skip
  BY <1>1, <1>2, <1>3
<1>12. Live(st) => /\ HeldOK(frames'[fp]) /\ Parked(st', frames'[fp])
                   /\ <<st.rax>> \in {<<st.rax>>, <<st.rax, s.rax>>}
  BY <1>9 DEF f
<1>13. Live(st) => s.rax \in Value BY <1>2, <1>3
<1> QED BY <1>1, <1>4, <1>10, <1>11, <1>12, <1>13, AdvanceFaithful

\* Every argument is where the callee looks for it.
LEMMA PassedIs ==
  ASSUME NEW s, Shape(s), Live(s), NEW n \in Nat, n <= s.pushed, NEW i \in 0..(n - 1)
  PROVE  Passed(s, n, i) = s.mem[s.rsp - i]
<1> DEFINE a == Release(s, Moved(n))
           b == Grow(a, Shadow, Junk)
<1>1. /\ s.pushed \in Nat /\ s.rsp = s.pushed /\ NumArgRegs \in Nat /\ Shadow \in Nat
  BY Counters, TempPoolAssumption
<1>2. s.rsp - i \in 1..s.rsp BY <1>1
<1>3. Moved(n) \in Nat /\ Moved(n) <= s.pushed /\ (i >= Moved(n) => Moved(n) = NumArgRegs)
  BY <1>1 DEF Moved
<1>4. CASE i < Moved(n) BY <1>2, <1>4 DEF Passed, Word
<1>5. CASE ~(i < Moved(n))
  <2>1. Moved(n) = NumArgRegs BY <1>1, <1>3, <1>5
  <2>2. a.rsp = s.rsp - NumArgRegs /\ a.skip = s.skip BY <1>3, <2>1, ReleaseFields
  <2> DEFINE w == Moved(n)
  <2>3. Shape(a)
    <3>1. w \in Nat /\ w <= s.pushed BY <1>3
    <3> HIDE DEF w
    <3>2. Effect(s, Release(s, w), 0, -w, 0) BY <3>1, ReleaseEffect
    <3> QED BY <3>2 DEF Effect, w
  <2>4. Ready(s, n) = b BY DEF Ready
  <2> HIDE DEF a
  <2>5. b.rsp = a.rsp + Shadow BY <1>1, <2>2, <2>3, GrowFields DEF Live
  <2>6. (Ready(s, n).rsp - Shadow) - (i - NumArgRegs) = s.rsp - i
    BY <1>1, <2>2, <2>4, <2>5
  <2> QED BY <1>2, <1>5, <2>6 DEF Passed, Word
<1> QED BY <1>4, <1>5

\* The callee gets the arguments evaluated, the first one last.
LEMMA CallLastArgFaithful == ASSUME IInv, VInv, IInv', CallLastArg PROVE Faithful
<1> DEFINE g == Top
           n == g.n
           s == Pushq(st, st.rax)
           spilled == g.spilled
           padded == g.padded
           got == [k \in 1..n |-> Passed(s, n, n - k)]
<1>1. fp > 0 /\ g.kind = "call" /\ g.step + 1 = n /\ mode = "done" BY DEF CallLastArg, At
<1>2. PICK v \in Value : Leave(CallEmit(s, n, spilled, padded, v)) BY DEF CallLastArg
<1>3. Happened("call", got, Append(g.held, st.rax), g.asked, Ready(s, n).rsp)
  BY DEF CallLastArg
<1>4. /\ g.step \in Nat /\ n \in Nat /\ g.pushed0 \in Nat /\ g.depth0 \in Nat
      /\ g.spill0 \in Nat
      /\ spilled \in {0, 1} /\ padded \in {0, 1}
      /\ spilled = Regs(g.depth0) /\ st.depth = g.depth0
      /\ st.pushed = g.pushed0 + spilled + padded + g.step
      /\ st.spill_pending = g.spill0 + spilled
      /\ Shape(st) /\ st.rax \in Value /\ st.rax \in Pattern /\ st.pushed \in Nat
      /\ (Live(st) => /\ st.rsp = st.pushed
                      /\ g.held \in Seq(Value) /\ Len(g.held) = g.step
                      /\ \A j \in 1..g.step : g.held[j] = st.mem[ArgWord(g, j)]
                      /\ spilled = 1 => st.mem[g.pushed0 + 1] = st.r10)
  BY <1>1, CallWords
<1>5. /\ s.depth = st.depth /\ s.pushed = st.pushed + 1 /\ s.skip = st.skip
      /\ s.spill_pending = st.spill_pending
      /\ s.rax = st.rax /\ s.r10 = st.r10
      /\ s.rsp = (IF Live(st) THEN st.rsp + 1 ELSE st.rsp)
      /\ \A i \in 1..st.rsp : s.mem[i] = st.mem[i]
      /\ \A i \in 1..s.rsp : i > st.rsp => s.mem[i] = st.rax
  BY <1>4, GrowFields DEF Pushq
<1>6. Shape(s) /\ Agree(st, s, g.pushed0, g.depth0)
  <2>1. g.pushed0 \in Int /\ g.pushed0 <= st.pushed /\ 1 \in Nat BY <1>4
  <2> HIDE DEF g
  <2> QED BY <1>4, <2>1, GrowEffect, AgreeGrow DEF Pushq, Effect
<1> DEFINE u == CallEmit(s, n, spilled, padded, v)
<1>7. Leave(u) BY <1>2
<1> HIDE DEF s, g, n, spilled, padded
<1>8. /\ s.pushed = g.pushed0 + spilled + padded + n
      /\ n + padded + spilled <= s.pushed
      /\ g.pushed0 <= s.pushed - (n + padded + spilled) /\ g.pushed0 \in Int
      /\ spilled <= s.spill_pending
      /\ (Live(s) <=> Live(st))
      /\ s.pushed - (n + padded) = g.pushed0 + spilled
  <2>1. /\ spilled \in Nat /\ padded \in Nat /\ g.pushed0 \in Nat /\ g.spill0 \in Nat
        /\ g.step \in Nat
    BY <1>4
  <2>2. /\ n = g.step + 1 /\ s.pushed = st.pushed + 1
        /\ st.pushed = g.pushed0 + spilled + padded + g.step
        /\ s.spill_pending = g.spill0 + spilled
    BY <1>1, <1>4, <1>5
  <2>3. Live(s) <=> Live(st) BY <1>5 DEF Live
  <2> QED BY <2>1, <2>2, <2>3
<1>9. Live(s) /\ spilled = 1 => s.mem[s.pushed - (n + padded)] = s.r10
  <2>1. ASSUME Live(s), spilled = 1 PROVE s.mem[g.pushed0 + 1] = s.r10
    <3>2. /\ padded \in Nat /\ g.pushed0 \in Nat /\ g.step \in Nat
          /\ st.rsp = g.pushed0 + 1 + padded + g.step
      BY <1>4, <1>8, <2>1
    <3>1. g.pushed0 + 1 \in 1..st.rsp BY <3>2
    <3> QED BY <1>4, <1>5, <1>8, <2>1, <3>1
  <2> QED BY <1>8, <2>1
<1>10. Regs(g.depth0) = 1 => spilled = 1 BY <1>4
<1>11. Agree(s, u, g.pushed0, g.depth0) /\ (Live(s) => u.rax = v)
  <2>1. n \in Nat /\ spilled \in {0, 1} /\ padded \in {0, 1} BY <1>4
  <2>2. Shape(s) /\ v \in Pattern BY <1>6, ValueIsPattern
  <2>3. /\ n + padded + spilled <= s.pushed /\ spilled <= s.spill_pending
        /\ g.pushed0 <= s.pushed - (n + padded + spilled) /\ g.pushed0 \in Int
    BY <1>8
  <2> DEFINE p == g.pushed0
             d == g.depth0
  <2>4. p \in Int /\ p <= s.pushed - (n + padded + spilled) BY <2>3
  <2>5. Regs(d) = 1 => spilled = 1 BY <1>10
  <2>6. v \in Value OBVIOUS
  <2> HIDE DEF p, d, u
  <2>7. /\ Agree(s, CallEmit(s, n, spilled, padded, v), p, d)
        /\ Live(s) => CallEmit(s, n, spilled, padded, v).rax = v
    BY <2>1, <2>2, <2>3, <2>4, <2>5, <2>6, <1>9, CallValue
  <2> QED BY <2>7 DEF p, d, u
<1>12. Effect(s, u, 0, -(n + padded + spilled), -spilled)
  BY <1>4, <1>6, <1>8, CallEffect
<1> HIDE DEF u
<1>13. /\ Shape(u) /\ u.skip = st.skip /\ (~Live(st) => u.rsp = st.rsp)
       /\ g.depth0 <= u.depth
  BY <1>4, <1>5, <1>8, <1>12 DEF Effect
<1>14. Agree(st, u, g.pushed0, g.depth0) BY <1>5, <1>6, <1>11, AgreeChain
<1>15. ASSUME Live(st) PROVE got = Append(g.held, st.rax) /\ u.rax \in Value
  <2> DEFINE want == Append(g.held, st.rax)
             base == g.pushed0 + spilled + padded
  <2>0. base \in Nat /\ s.pushed = base + n
    <3>1. spilled \in Nat BY <1>4
    <3>2. padded \in Nat BY <1>4
    <3>3. g.pushed0 \in Nat BY <1>4
    <3>4. s.pushed = g.pushed0 + spilled + padded + n BY <1>8
    <3> QED BY <3>1, <3>2, <3>3, <3>4
  <2>8. \A k \in 1..n : ArgWord(g, k) = base + k BY DEF ArgWord, spilled, padded
  <2> HIDE DEF base
  <2>1. n \in Nat /\ n <= s.pushed /\ Live(s) /\ st.rsp \in Nat
        /\ s.rsp = s.pushed /\ s.rsp = st.rsp + 1 /\ n - 1 = g.step
    <3>1. Live(s) BY <1>8, <1>15
    <3>2. st.rsp = st.pushed /\ st.rsp \in Nat BY <1>4, <1>15
    <3>3. s.pushed = st.pushed + 1 /\ s.rsp = st.rsp + 1 BY <1>5, <1>15
    <3>4. n \in Nat /\ g.step \in Nat /\ g.step + 1 = n BY <1>1, <1>4
    <3>5. n <= s.pushed BY <2>0, <3>4
    <3> QED BY <3>1, <3>2, <3>3, <3>4, <3>5
  <2>7. base \in Nat /\ s.rsp = base + n BY <2>0, <2>1
  <2>2. ASSUME NEW k \in 1..n PROVE Passed(s, n, n - k) = s.mem[ArgWord(g, k)]
    <3>1. n - k \in 0..(n - 1) BY <2>1
    <3>2. s.rsp - (n - k) = ArgWord(g, k)
      BY <2>1, <2>7, <2>8
    <3> QED BY <1>6, <2>1, <3>1, <3>2, PassedIs
  <2>9. /\ want \in Seq(Value) /\ Len(want) = n /\ want[n] = st.rax
        /\ \A k \in 1..g.step : want[k] = g.held[k]
    <3>1. g.held \in Seq(Value) /\ Len(g.held) = g.step /\ st.rax \in Value BY <1>4, <1>15
    <3>2. g.step + 1 = n BY <1>1
    <3>3. /\ g.held \o <<st.rax>> = want
          /\ g.held \o <<st.rax>> \in Seq(Value)
          /\ Len(g.held \o <<st.rax>>) = Len(g.held) + 1
          /\ \A i \in 1..Len(g.held) : (g.held \o <<st.rax>>)[i] = g.held[i]
          /\ (g.held \o <<st.rax>>)[Len(g.held) + 1] = st.rax
      BY <3>1, OneMore
    <3> HIDE DEF want
    <3> QED BY <3>1, <3>2, <3>3
  <2>3. ASSUME NEW k \in 1..n PROVE s.mem[ArgWord(g, k)] = want[k]
    <3>1. ArgWord(g, k) = base + k BY <2>8
    <3>2. CASE k = n
      <4>1. ArgWord(g, k) \in 1..s.rsp /\ ArgWord(g, k) > st.rsp
        BY <2>1, <2>7, <3>1, <3>2
      <4>2. want[k] = st.rax BY <2>9, <3>2
      <4> QED BY <1>5, <4>1, <4>2
    <3>3. CASE k /= n
      <4>1. k \in 1..g.step /\ ArgWord(g, k) \in 1..st.rsp
        BY <2>1, <2>7, <3>1, <3>3
      <4>2. want[k] = g.held[k] BY <2>9, <4>1
      <4> QED BY <1>4, <1>5, <1>15, <4>1, <4>2
    <3> QED BY <3>2, <3>3
  <2>5. got = [k \in 1..n |-> want[k]] BY <2>2, <2>3
  <2>6. want = [k \in 1..n |-> want[k]]
    <3> HIDE DEF want
    <3> QED BY <2>9
  <2> QED BY <1>8, <1>11, <1>15, <2>5, <2>6
<1>16. g = Top /\ Top.kind \notin {"ternary", "logic"} BY <1>1 DEF g
<1> HIDE DEF got
<1> QED BY <1>1, <1>3, <1>7, <1>13, <1>14, <1>15, <1>16, LeaveFaithful

\* The comma operator drops a value.
LEMMA CommaLeftFaithful == ASSUME IInv, VInv, IInv', CommaLeft PROVE Faithful
<1>1. mode = "done" /\ mode' = "gen" /\ event' = Quiet /\ UNCHANGED <<st, frames>>
  BY DEF CommaLeft
<1>2. VInv' BY <1>1 DEF VInv
<1>3. OperandsIntact' /\ event'.got = <<>> BY <1>1 DEF OperandsIntact, Quiet
<1>4. CASE Live(st)
  <2>1. Run(st', frames') = fp BY <1>1, <1>4 DEF Run, fp
  <2>2. st'.skip = 0 BY <1>1, <1>4 DEF Live
  <2>3. VisibleMode' = "gen" BY <1>1, <1>2, <2>2, LiveSeenNext
  <2>4. Len(frames') = fp BY <1>1 DEF fp
  <2>5. Promise!Next BY <1>1, <1>2, <1>3, <1>4, <2>1, <2>3, <2>4, DiscardStep
  <2> QED BY <1>2, <1>3, <2>5 DEF Faithful
<1>5. CASE ~Live(st)
  <2>1. Promise!Next BY <1>1, <1>2, <1>3, <1>5, HiddenStep
  <2> QED BY <1>2, <1>3, <2>1 DEF Faithful
<1> QED BY <1>4, <1>5

\* A statement ends with nothing pending, so the reset in gen_func() loses nothing.
LEMMA EndStatementFaithful == ASSUME IInv, VInv, IInv', EndStatement PROVE Faithful
<1> DEFINE t == [st EXCEPT !.temps = <<>>, !.depth = 0, !.pool_used = 0,
                           !.spill_pending = 0, !.mem = <<>>, !.rsp = 0]
<1>1. /\ fp = 0 /\ mode = "done" /\ mode' = "gen" /\ event' = Quiet /\ UNCHANGED frames
      /\ st' = st \/ st' = t
  BY DEF EndStatement
<1>2. Live(st) /\ st.skip = 0 /\ Len(frames) = 0 /\ Shape(st) /\ st.rax \in Value
  BY <1>1, Empty, StFacts DEF VInv, ValuesInv
<1>3. st'.rax = st.rax /\ st'.skip = 0
  <2>1. t.rax = st.rax /\ t.skip = st.skip BY <1>2 DEF Shape, StType
  <2> HIDE DEF t
  <2> QED BY <1>1, <1>2, <2>1
<1> HIDE DEF t
<1>4. Run(st', frames') = 0 /\ Len(frames') = 0 BY <1>1, <1>2, <1>3 DEF Run, Live
<1>5. VInv'
  <2>1. Ordered(frames') BY <1>4 DEF Ordered
  <2>2. ValuesInv(st', frames') BY <1>2, <1>3, <1>4, <2>1 DEF ValuesInv
  <2> QED BY <2>2 DEF VInv
<1>6. OperandsIntact' /\ event'.got = <<>> BY <1>1 DEF OperandsIntact, Quiet
<1>7. VisibleMode' = "gen" BY <1>1, <1>3, <1>5, LiveSeenNext
<1>8. \A i \in 1..fp : frames'[i].held = frames[i].held BY <1>1
<1>9. Run(st', frames') = fp /\ Len(frames') = fp BY <1>1, <1>4
<1>10. Promise!Next BY <1>1, <1>2, <1>3, <1>5, <1>6, <1>7, <1>8, <1>9, DiscardStep
<1> QED BY <1>5, <1>6, <1>10 DEF Faithful

\* A frame of a conditional construct parks nothing, whatever its step.
LEMMA ArmFrame ==
  ASSUME NEW f, f.kind \in {"ternary", "logic"}
  PROVE  TempsOf(f) = 0 /\ RawOf(f) = 0 /\ f.kind /= "call" /\ \A s : Parked(s, f)
<1>1. TempsOf(f) = 0 /\ RawOf(f) = 0 BY DEF TempsOf, RawOf
<1> QED BY <1>1 DEF Parked

\* What is parked stays so while the table, the stack and the pool register do.
LEMMA ParkedSame ==
  ASSUME NEW s, NEW t, t.temps = s.temps, t.mem = s.mem, t.r10 = s.r10, NEW f, Parked(s, f)
  PROVE  Parked(t, f)
<1>1. \A j : TempValue(t, f, j) = TempValue(s, f, j) BY DEF TempValue
<1> QED BY <1>1 DEF Parked

\* From one arm to the next: the same frames are seen, and they hold the same.
LEMMA ArmValues ==
  ASSUME IInv, VInv, fp > 0, Top.kind \in {"ternary", "logic"},
         NEW k \in {1, 2}, frames' = [frames EXCEPT ![fp].step = k],
         NEW z, st' = [st EXCEPT !.skip = z],
         \/ z = st.skip /\ st.skip /= fp
         \/ z = fp /\ Live(st)
         \/ z = 0 /\ st.skip = fp
  PROVE  /\ VInv' /\ Run(st', frames') = Run(st, frames) /\ Len(frames') = fp /\ fp \in Nat
         /\ \A i \in 1..(fp - 1) : frames'[i] = frames[i]
         /\ \A i \in 1..fp : frames'[i].held = frames[i].held
         /\ frames'[fp].kind = Top.kind /\ frames'[fp].step = k
         /\ st'.rax = st.rax /\ st'.skip = z
<1> DEFINE f == [Top EXCEPT !.step = k]
<1>1. /\ fp \in Nat /\ frames \in Seq(FrameType) /\ fp = Len(frames) /\ fp \in 1..Len(frames)
      /\ Top = frames[fp] /\ Top \in FrameType
      /\ ValuesInv(st, frames) /\ st \in StType /\ st.skip \in 0..fp
  BY TopFacts, StFacts DEF fp, Top, VInv, FrameOK, Shape, Inv, Skipping
<1>2. /\ f.kind = Top.kind /\ f.step = k /\ f.held = Top.held /\ f.depth0 = Top.depth0
      /\ f.pushed0 = Top.pushed0
  BY <1>1 DEF FrameType
<1>3. /\ Len(frames') = fp /\ frames'[fp] = f /\ \A i \in 1..(fp - 1) : frames'[i] = frames[i]
  BY <1>1
<1>4. /\ st'.rax = st.rax /\ st'.skip = z /\ st'.temps = st.temps /\ st'.mem = st.mem
      /\ st'.r10 = st.r10
  BY <1>1 DEF StType
<1> HIDE DEF f
<1>5. Run(st', frames') = Run(st, frames) BY <1>1, <1>3, <1>4 DEF Run, Live
<1>6. \A i \in 1..fp : i = fp \/ i \in 1..(fp - 1) BY <1>1
<1>7. Ordered(frames')
  <2> SUFFICES ASSUME NEW i \in 1..Len(frames'), NEW j \in 1..Len(frames'), i < j
               PROVE  /\ DepthAfter(frames'[i]) <= frames'[j].depth0
                      /\ PushedAfter(frames'[i]) <= frames'[j].pushed0
    BY DEF Ordered
  <2>1. i \in 1..(fp - 1) /\ i \in 1..Len(frames) /\ j \in 1..Len(frames) BY <1>1, <1>3
  <2>2. frames'[j].depth0 = frames[j].depth0 /\ frames'[j].pushed0 = frames[j].pushed0
    BY <1>1, <1>2, <1>3, <1>6, <2>1
  <2> QED BY <1>1, <1>3, <2>1, <2>2 DEF ValuesInv, Ordered
<1>8. ASSUME NEW i \in 1..Run(st, frames) PROVE HeldOK(frames'[i]) /\ Parked(st', frames'[i])
  <2>1. i \in 1..fp BY <1>1 DEF Run
  <2>2. HeldOK(frames[i]) /\ Parked(st, frames[i]) BY <1>1 DEF ValuesInv
  <2>3. CASE i = fp
    <3>1. f.kind \in {"ternary", "logic"} /\ frames'[i] = f /\ frames[i] = Top
      BY <1>1, <1>2, <1>3, <2>3
    <3>2. Parked(st', f) /\ f.kind /= "call" /\ TempsOf(f) = 0 /\ TempsOf(Top) = 0
          /\ Top.kind /= "call"
      BY <3>1, ArmFrame
    <3>3. HeldOK(f) BY <1>2, <2>2, <3>1, <3>2 DEF HeldOK
    <3> QED BY <3>1, <3>2, <3>3
  <2>4. CASE i \in 1..(fp - 1)
    <3>1. frames'[i] = frames[i] BY <1>3, <2>4
    <3>2. Parked(st', frames[i]) BY <1>4, <2>2, ParkedSame
    <3> QED BY <2>2, <3>1, <3>2
  <2> QED BY <1>6, <2>1, <2>3, <2>4
<1>9. ValuesInv(st', frames') BY <1>1, <1>4, <1>5, <1>7, <1>8 DEF ValuesInv
<1>10. VInv' BY <1>9 DEF VInv
<1>11. \A i \in 1..fp : frames'[i].held = frames[i].held BY <1>1, <1>2, <1>3, <1>6
<1> QED BY <1>1, <1>2, <1>3, <1>4, <1>5, <1>10, <1>11

\* What EvalStack sees of such a step.
LEMMA ArmFaithful ==
  ASSUME IInv, VInv, IInv', fp > 0, Top.kind \in {"ternary", "logic"},
         mode = "done", mode' = "gen", event' = Quiet,
         NEW k \in {1, 2}, frames' = [frames EXCEPT ![fp].step = k],
         NEW z, st' = [st EXCEPT !.skip = z],
         \/ z = st.skip /\ st.skip /= fp /\ ~Live(st)
         \/ z = 0 /\ Live(st)
         \/ z = fp /\ Live(st)
         \/ z = 0 /\ st.skip = fp /\ Top.kind = "ternary" /\ Top.step = 1
  PROVE  Faithful
<1>1. st.skip \in Nat /\ fp \in Nat /\ (Live(st) <=> st.skip = 0) BY SkipCases
<1>2. \/ z = st.skip /\ st.skip /= fp
      \/ z = fp /\ Live(st)
      \/ z = 0 /\ st.skip = fp
  BY <1>1
<1>3. /\ VInv' /\ Run(st', frames') = Run(st, frames) /\ Len(frames') = fp
      /\ \A i \in 1..(fp - 1) : frames'[i] = frames[i]
      /\ \A i \in 1..fp : frames'[i].held = frames[i].held
      /\ frames'[fp].kind = Top.kind /\ frames'[fp].step = k
      /\ st'.rax = st.rax /\ st'.skip = z
  BY <1>2, ArmValues
<1>4. OperandsIntact' /\ event'.got = <<>> BY DEF OperandsIntact, Quiet
<1>5. VisibleMode' = IF z = 0 THEN "gen"
                     ELSE IF frames'[z].kind = "ternary" /\ frames'[z].step = 1 THEN "gen"
                     ELSE "done"
  BY <1>3, SeenNext DEF SeenMode, Live
<1>6. CASE ~Live(st) /\ z = st.skip /\ st.skip /= fp
  <2>1. \A i \in 1..st.skip : frames'[i] = frames[i]
    <3>1. st.skip \in 0..fp BY DEF IInv, Inv, Skipping, fp
    <3> QED BY <1>1, <1>3, <1>6, <3>1
  <2>2. Promise!Next BY <1>3, <1>4, <1>6, <2>1, HiddenStep
  <2> QED BY <1>3, <1>4, <2>2 DEF Faithful
<1>7. CASE Live(st)
  <2>1. Run(st, frames) = fp /\ VisibleMode = "done" BY <1>7, LiveSeen DEF Run, fp
  <2>2. VisibleMode' \in {"gen", "done"} BY <1>5
  <2>3. CASE VisibleMode' = "gen"
    <3>1. Run(st', frames') = fp BY <1>3, <2>1
    <3>2. Promise!Next BY <1>3, <1>4, <1>7, <2>3, <3>1, DiscardStep
    <3> QED BY <1>3, <1>4, <3>2 DEF Faithful
  <2>4. CASE VisibleMode' = "done"
    <3>1. Run(st', frames') = fp /\ VisibleMode' = VisibleMode BY <1>3, <2>1, <2>4
    <3>2. Promise!Next BY <1>3, <1>4, <2>1, <3>1, IdleStep
    <3> QED BY <1>3, <1>4, <3>2 DEF Faithful
  <2> QED BY <2>2, <2>3, <2>4
<1>8. CASE z = 0 /\ st.skip = fp /\ Top.kind = "ternary" /\ Top.step = 1
  <2>1. VisibleMode' = "gen" BY <1>5, <1>8
  <2>2. VisibleMode = "gen" BY <1>1, <1>8, Seen DEF SeenMode, Live, Top
  <2>3. Run(st, frames) = fp BY <1>1, <1>8 DEF Run, Live
  <2>4. Promise!Next BY <1>3, <1>4, <2>1, <2>2, <2>3, IdleStep
  <2> QED BY <1>3, <1>4, <2>4 DEF Faithful
<1> QED BY <1>6, <1>7, <1>8

\* Nothing is skipped by a construct that has not got past its condition.
LEMMA NotSkipped ==
  ASSUME IInv, fp > 0, Top.step = 0
  PROVE  st.skip /= fp
<1>1. Skipping(st, frames) BY DEF IInv, Inv
<1>2. st.skip = fp => Top.step >= 1 BY <1>1 DEF Skipping, fp, Top
<1> QED BY <1>2

\* From the condition into the first arm.
LEMMA TernaryCondFaithful == ASSUME IInv, VInv, IInv', TernaryCond PROVE Faithful
<1>1. fp > 0 /\ Top.kind = "ternary" /\ Top.step = 0 /\ mode = "done"
  BY AtFacts DEF TernaryCond, At
<1>2. PICK taken \in 1..2 :
        st' = [st EXCEPT !.skip = IF Live(st) /\ taken = 2 THEN fp ELSE @]
  BY DEF TernaryCond
<1> DEFINE z == IF Live(st) /\ taken = 2 THEN fp ELSE st.skip
<1>3. st' = [st EXCEPT !.skip = z] BY <1>2
<1>4. st.skip /= fp BY <1>1, NotSkipped
<1>5. \/ z = st.skip /\ st.skip /= fp /\ ~Live(st)
      \/ z = 0 /\ Live(st)
      \/ z = fp /\ Live(st)
  <2>1. CASE Live(st) /\ taken = 2 BY <2>1
  <2>2. CASE ~(Live(st) /\ taken = 2)
    <3>1. z = st.skip BY <2>2, Zenon
    <3> QED BY <1>4, <3>1, Zenon DEF Live
  <2> QED BY <2>1, <2>2, Zenon
<1>6. frames' = [frames EXCEPT ![fp].step = 1] /\ mode' = "gen" /\ event' = Quiet
  BY DEF TernaryCond
<1>7. Top.kind \in {"ternary", "logic"} /\ 1 \in {1, 2} BY <1>1
<1> HIDE DEF z
<1> QED BY <1>1, <1>3, <1>5, <1>6, <1>7, ArmFaithful

\* From the first arm into the second.
LEMMA TernaryThenFaithful == ASSUME IInv, VInv, IInv', TernaryThen PROVE Faithful
<1>1. fp > 0 /\ Top.kind = "ternary" /\ Top.step = 1 /\ mode = "done"
  BY AtFacts DEF TernaryThen, At
<1> DEFINE z == IF st.skip = fp THEN 0 ELSE IF Live(st) THEN fp ELSE st.skip
<1>2. st' = [st EXCEPT !.skip = z] BY DEF TernaryThen
<1>3. \/ z = st.skip /\ st.skip /= fp /\ ~Live(st)
      \/ z = fp /\ Live(st)
      \/ z = 0 /\ st.skip = fp
  OBVIOUS
<1>4. frames' = [frames EXCEPT ![fp].step = 2] /\ mode' = "gen" /\ event' = Quiet
  BY DEF TernaryThen
<1>5. Top.kind \in {"ternary", "logic"} /\ 2 \in {1, 2} BY <1>1
<1> HIDE DEF z
<1> QED BY <1>1, <1>2, <1>3, <1>4, <1>5, ArmFaithful

\* From the left operand of && or || to the right one.
LEMMA LogicLeftFaithful == ASSUME IInv, VInv, IInv', LogicLeft PROVE Faithful
<1>1. fp > 0 /\ Top.kind = "logic" /\ Top.step = 0 /\ mode = "done"
  BY AtFacts DEF LogicLeft, At
<1>2. PICK skipped \in BOOLEAN :
        st' = [st EXCEPT !.skip = IF Live(st) /\ skipped THEN fp ELSE @]
  BY DEF LogicLeft
<1> DEFINE z == IF Live(st) /\ skipped THEN fp ELSE st.skip
<1>3. st' = [st EXCEPT !.skip = z] BY <1>2
<1>4. st.skip /= fp BY <1>1, NotSkipped
<1>5. \/ z = st.skip /\ st.skip /= fp /\ ~Live(st)
      \/ z = 0 /\ Live(st)
      \/ z = fp /\ Live(st)
  <2>1. CASE Live(st) /\ skipped BY <2>1
  <2>2. CASE ~(Live(st) /\ skipped)
    <3>1. z = st.skip BY <2>2, Zenon
    <3> QED BY <1>4, <3>1, Zenon DEF Live
  <2> QED BY <2>1, <2>2, Zenon
<1>6. frames' = [frames EXCEPT ![fp].step = 1] /\ mode' = "gen" /\ event' = Quiet
  BY DEF LogicLeft
<1>7. Top.kind \in {"ternary", "logic"} /\ 1 \in {1, 2} BY <1>1
<1> HIDE DEF z
<1> QED BY <1>1, <1>3, <1>5, <1>6, <1>7, ArmFaithful

\* The machine where the arms of the innermost construct meet.
Rejoined == [st EXCEPT !.skip = IF st.skip = fp THEN 0 ELSE st.skip]

\* A result put into %rax.
LEMMA SetRax ==
  ASSUME NEW s, Shape(s), NEW v \in Value, NEW t, t = Set(s, "rax", v), NEW p, NEW d
  PROVE  /\ Shape(t) /\ t.depth = s.depth /\ t.rsp = s.rsp /\ t.skip = s.skip
         /\ (Live(s) => t["rax"] = v) /\ (~Live(s) => t = s) /\ Agree(s, t, p, d)
BY ValueIsPattern, SetScratch

\* Out of the last arm the machine has what it had before the construct began, and
\* the arm's value.
LEMMA ArmLeaveFaithful ==
  ASSUME IInv, VInv, IInv', fp > 0, Top.kind \in {"ternary", "logic"},
         Top.kind = "ternary" => Top.step = 2, mode = "done", event' = Quiet,
         NEW v \in Value, NEW w, w \in {Rejoined, Set(Rejoined, "rax", v)}, Leave(w)
  PROVE  Faithful
<1> DEFINE gs == SubSeq(frames, 1, fp - 1)
           p == Top.pushed0
           d == Top.depth0
           u == Rejoined
           z == Rejoined.skip
<1>1. /\ fp \in Nat /\ fp = Len(frames) /\ fp \in 1..Len(frames) /\ Top = frames[fp]
      /\ frames \in Seq(FrameType) /\ ValuesInv(st, frames) /\ st.rax \in Value
      /\ st \in StType /\ st.skip \in 0..fp /\ FrameOK(Top) /\ Nested(frames)
      /\ Inv(st, frames)
  BY TopFacts, StFacts DEF fp, Top, VInv, ValuesInv, Shape, Inv, Skipping
<1>2. /\ Len(gs) = fp - 1 /\ \A i \in 1..(fp - 1) : gs[i] = frames[i]
  BY <1>1, ButLast
<1>3. Inv(u, gs) /\ Counted(st, d, p, Top.spill0)
  <2>1. /\ Inv([st EXCEPT !.skip = IF st.skip = Len(frames) THEN 0 ELSE st.skip],
               SubSeq(frames, 1, Len(frames) - 1))
        /\ Counted(st, frames[Len(frames)].depth0, frames[Len(frames)].pushed0,
                   frames[Len(frames)].spill0)
    BY <1>1, ArmLeave, ArmLevel
  <2> QED BY <1>1, <2>1 DEF Rejoined
<1>4. /\ u.temps = st.temps /\ u.mem = st.mem /\ u.r10 = st.r10 /\ u.rax = st.rax
      /\ u.rsp = st.rsp /\ u.depth = st.depth /\ u.skip = z
      /\ z = (IF st.skip = fp THEN 0 ELSE st.skip) /\ (z = st.skip => u = st)
  BY <1>1 DEF StType, Rejoined
<1> HIDE DEF u, z
<1>5. Shape(u) BY <1>3 DEF Inv
<1>6. p \in Int /\ d \in Int /\ st.depth = d
  <2>1. p \in Int /\ d \in Int BY <1>1, FrameNumbers
  <2>2. st.depth = d BY <1>3 DEF Counted
  <2> QED BY <2>1, <2>2
<1> HIDE DEF gs, p, d
<1>7. /\ Shape(w) /\ w.depth = d /\ Agree(u, w, p, d) /\ w.skip = u.skip /\ w.rsp = u.rsp
      /\ (~Live(u) => w = u) /\ w.rax \in Value
  <2>1. CASE w = u BY <1>1, <1>4, <1>5, <1>6, <2>1, AgreeSame
  <2>2. CASE w = Set(u, "rax", v)
    <3>1. /\ Shape(w) /\ w.depth = u.depth /\ w.rsp = u.rsp /\ w.skip = u.skip
          /\ (Live(u) => w["rax"] = v) /\ (~Live(u) => w = u) /\ Agree(u, w, p, d)
      BY <1>5, <2>2, SetRax
    <3>2. w.rax \in Value BY <1>1, <1>4, <3>1
    <3> QED BY <1>4, <1>6, <3>1, <3>2
  <2> QED BY <2>1, <2>2 DEF u
<1>8. frames' = gs /\ st' = Settled(w) /\ mode' = "done" BY <1>1 DEF Leave, gs
<1>9. Agree(u, st', p, d) /\ st'.rax = w.rax /\ st'.skip = z
  <2>1. /\ Agree(u, Settled(w), p, d)
        /\ Settled(w).rax = w.rax /\ Settled(w).skip = u.skip
    <3>1. d <= w.depth BY <1>6, <1>7
    <3>2. ~Live(u) => w.rsp = u.rsp BY <1>7
    <3> QED BY <1>5, <1>6, <1>7, <3>1, <3>2, SettledAgree
  <2> QED BY <1>4, <1>8, <2>1
<1>10. OperandsIntact' /\ event'.got = <<>> BY DEF OperandsIntact, Quiet
<1>11. Ordered(gs)
  <2> SUFFICES ASSUME NEW i \in 1..Len(gs), NEW j \in 1..Len(gs), i < j
               PROVE  DepthAfter(gs[i]) <= gs[j].depth0 /\ PushedAfter(gs[i]) <= gs[j].pushed0
    BY DEF Ordered
  <2>1. /\ i \in 1..Len(frames) /\ j \in 1..Len(frames) /\ gs[i] = frames[i]
        /\ gs[j] = frames[j]
    BY <1>1, <1>2
  <2> QED BY <1>1, <2>1 DEF ValuesInv, Ordered
<1>12. CASE ~Live(st) /\ st.skip /= fp
  <2>1. u = st /\ st.skip \in 1..(fp - 1)
    <3>1. z = st.skip BY <1>4, <1>12
    <3>2. u = st BY <1>4, <3>1
    <3> QED BY <1>1, <1>12, <3>2 DEF Live
  <2>2. st' = st /\ ~Live(u) BY <1>7, <1>8, <1>12, <2>1 DEF Settled
  <2>3. Run(st', gs) = st.skip /\ Run(st, frames) = st.skip BY <1>12, <2>2 DEF Run
  <2>4. \A i \in 1..st.skip : gs[i] = frames[i] BY <1>1, <1>2, <2>1
  <2>5. ValuesInv(st', gs) BY <1>1, <1>11, <2>2, <2>3, <2>4 DEF ValuesInv
  <2>6. VInv' BY <1>8, <2>5 DEF VInv
  <2>7. Promise!Next BY <1>8, <1>10, <1>12, <2>2, <2>4, <2>6, HiddenStep
  <2> QED BY <1>10, <2>6, <2>7 DEF Faithful
<1>13. CASE Live(st) \/ st.skip = fp
  <2>1. z = 0 /\ Live(u) /\ st'.skip = 0 BY <1>4, <1>9, <1>13 DEF Live
  <2>2. Run(st, frames) = fp BY <1>1, <1>13 DEF Run, Live
  <2>3. Run(st', gs) = fp - 1 BY <1>2, <2>1 DEF Run, Live
  <2>4. ASSUME NEW i \in 1..(fp - 1) PROVE HeldOK(gs[i]) /\ Parked(st', gs[i])
    <3>1. i \in 1..Run(st, frames) /\ i \in 1..Len(frames) /\ i < fp BY <1>1, <2>2
    <3>2. HeldOK(frames[i]) /\ Parked(st, frames[i]) /\ FrameOK(frames[i])
      BY <1>1, <3>1 DEF ValuesInv, Nested
    <3>3. Parked(u, frames[i]) BY <1>4, <3>2, ParkedSame
    <3>4. DepthAfter(frames[i]) <= d /\ PushedAfter(frames[i]) <= p
      BY <1>1, <3>1 DEF ValuesInv, Ordered, d, p
    <3>5. u.rsp \in Nat BY <1>5, Counters
    <3>6. Parked(st', frames[i])
      BY <1>6, <1>9, <2>1, <3>2, <3>3, <3>4, <3>5, ParkedKept
    <3> QED BY <1>2, <3>2, <3>6
  <2>5. st'.rax \in Value BY <1>7, <1>9
  <2>6. ValuesInv(st', gs) BY <1>11, <2>3, <2>4, <2>5 DEF ValuesInv
  <2>7. VInv' BY <1>8, <2>6 DEF VInv
  <2>8. Top.held = <<>>
    <3>1. HeldOK(Top) BY <1>1, <2>2 DEF ValuesInv
    <3>2. TempsOf(Top) = 0 /\ Top.kind /= "call" BY ArmFrame
    <3> QED BY <3>1, <3>2 DEF HeldOK
  <2>9. VisibleMode = "done"
    <3>1. CASE Live(st) BY <3>1 DEF VisibleMode
    <3>2. CASE st.skip = fp /\ ~Live(st)
      <4>1. ~(Top.kind = "ternary" /\ Top.step = 1) OBVIOUS
      <4> QED BY <1>1, <3>2, <4>1 DEF VisibleMode
    <3> QED BY <1>13, <3>1, <3>2
  <2>10. frames' = SubSeq(frames, 1, fp - 1) BY <1>8 DEF gs
  <2>11. Promise!Next BY <1>8, <1>10, <2>1, <2>2, <2>7, <2>8, <2>9, <2>10, CloseStep
  <2> QED BY <1>10, <2>7, <2>11 DEF Faithful
<1> QED BY <1>12, <1>13

\* The end of the conditional operator: its value is that of the arm that ran.
LEMMA TernaryElseFaithful == ASSUME IInv, VInv, IInv', TernaryElse PROVE Faithful
<1> DEFINE z == IF st.skip = fp THEN 0 ELSE st.skip
           u == [st EXCEPT !.skip = z]
<1>1. fp > 0 /\ Top.kind = "ternary" /\ Top.step = 2 /\ mode = "done"
  BY AtFacts DEF TernaryElse, At
<1>2. Leave(u) /\ event' = Quiet BY DEF TernaryElse
<1>3. Top.kind \in {"ternary", "logic"} BY <1>1
<1>4. PICK v \in Value : TRUE BY TempPoolAssumption
<1>5. u \in {u, Set(u, "rax", v)} OBVIOUS
<1> HIDE DEF u
<1>6. u = Rejoined BY DEF u, Rejoined
<1> QED BY <1>1, <1>2, <1>3, <1>4, <1>5, <1>6, ArmLeaveFaithful

\* The end of && and ||.
LEMMA LogicRightFaithful == ASSUME IInv, VInv, IInv', LogicRight PROVE Faithful
<1> DEFINE z == IF st.skip = fp THEN 0 ELSE st.skip
           u == [st EXCEPT !.skip = z]
<1>1. fp > 0 /\ Top.kind = "logic" /\ mode = "done" BY AtFacts DEF LogicRight, At
<1>2. PICK v \in Value : Leave(Set(u, "rax", v)) BY DEF LogicRight
<1>3. event' = Quiet BY DEF LogicRight
<1>4. Top.kind \in {"ternary", "logic"} /\ Top.kind /= "ternary" BY <1>1
<1>5. Set(u, "rax", v) \in {u, Set(u, "rax", v)} OBVIOUS
<1> HIDE DEF u
<1>6. u = Rejoined BY DEF u, Rejoined
<1> QED BY <1>1, <1>2, <1>3, <1>4, <1>5, <1>6, ArmLeaveFaithful

\* A full table ends in an error, whatever was pending.
LEMMA ExhaustedFaithful == ASSUME IInv, VInv, IInv', TempExhausted PROVE Faithful
<1>1. /\ mode \in {"gen", "done"} /\ mode' = "failed" /\ event' = Quiet
      /\ UNCHANGED <<st, frames>>
  BY DEF TempExhausted
<1>2. VInv' BY <1>1 DEF VInv
<1>3. OperandsIntact' /\ event'.got = <<>> BY <1>1 DEF OperandsIntact, Quiet
<1>4. Visible' = Visible
  <2>1. Run(st', frames') = Run(st, frames) BY <1>1
  <2> QED BY <1>1, <1>2, <2>1, SeenSame
<1>5. VisibleMode' = "failed" BY <1>1, <1>2, SeenNext DEF SeenMode
<1>6. VisibleMode /= "failed" BY <1>1 DEF VisibleMode
<1>7. Promise!Fail BY <1>1, <1>3, <1>4, <1>5, <1>6 DEF Promise!Fail
<1> QED BY <1>2, <1>3, <1>7 DEF Faithful, Promise!Next

\* No step of the generator is also none of EvalStack.
LEMMA StutterFaithful ==
  ASSUME VInv, OperandsIntact, UNCHANGED vars
  PROVE  VInv' /\ OperandsIntact' /\ UNCHANGED Promise!vars
<1>1. st' = st /\ frames' = frames /\ mode' = mode /\ event' = event BY DEF vars
<1>2. Visible' = Visible BY <1>1 DEF Visible, Running, Live, fp
<1>3. VisibleMode' = VisibleMode BY <1>1 DEF VisibleMode, Live
<1>4. UNCHANGED Promise!vars BY <1>1, <1>2, <1>3 DEF Promise!vars
<1> QED BY <1>1, <1>4 DEF VInv, OperandsIntact

\* Every step of the generator keeps every parked value and is a step of EvalStack.
LEMMA StepFaithful ==
  ASSUME IInv, CallAligned, VInv, OperandsIntact, [Next]_vars
  PROVE  VInv' /\ OperandsIntact' /\ [Promise!Next]_Promise!vars
<1>1. IInv' BY StepGood DEF Good
<1>2. ASSUME Faithful PROVE VInv' /\ OperandsIntact' /\ [Promise!Next]_Promise!vars
  BY <1>2 DEF Faithful
<1>3. CASE GenLeaf BY <1>1, <1>2, <1>3, LeafFaithful
<1>4. CASE GenPostfixVar BY <1>1, <1>2, <1>4, PostfixVarFaithful
<1>5. CASE CommaLeft BY <1>1, <1>2, <1>5, CommaLeftFaithful
<1>6. CASE EnterBinary \/ EnterCompound \/ EnterAssign \/ EnterPostfix
           \/ EnterTernary \/ EnterLogic
  BY <1>1, <1>2, <1>6, EnterPlainFaithful
<1>7. CASE EnterStruct BY <1>1, <1>2, <1>7, EnterStructFaithful
<1>8. CASE EnterCall BY <1>1, <1>2, <1>8, EnterCallFaithful
<1>9. CASE BinaryLeft \/ AssignValue \/ StructTarget BY <1>1, <1>2, <1>9, FirstFaithful
<1>10. CASE BinaryRight BY <1>1, <1>2, <1>10, BinaryRightFaithful
<1>11. CASE CompoundTarget BY <1>1, <1>2, <1>11, CompoundTargetFaithful
<1>12. CASE CompoundValue BY <1>1, <1>2, <1>12, CompoundValueFaithful
<1>13. CASE AssignTarget BY <1>1, <1>2, <1>13, AssignTargetFaithful
<1>14. CASE StructCopy BY <1>1, <1>2, <1>14, StructCopyFaithful
<1>15. CASE PostfixTarget BY <1>1, <1>2, <1>15, PostfixTargetFaithful
<1>16. CASE CallArg BY <1>1, <1>2, <1>16, CallArgFaithful
<1>17. CASE CallLastArg BY <1>1, <1>2, <1>17, CallLastArgFaithful
<1>18. CASE TernaryCond BY <1>1, <1>2, <1>18, TernaryCondFaithful
<1>19. CASE TernaryThen BY <1>1, <1>2, <1>19, TernaryThenFaithful
<1>20. CASE TernaryElse BY <1>1, <1>2, <1>20, TernaryElseFaithful
<1>21. CASE LogicLeft BY <1>1, <1>2, <1>21, LogicLeftFaithful
<1>22. CASE LogicRight BY <1>1, <1>2, <1>22, LogicRightFaithful
<1>23. CASE EndStatement BY <1>1, <1>2, <1>23, EndStatementFaithful
<1>24. CASE TempExhausted BY <1>1, <1>2, <1>24, ExhaustedFaithful
<1>25. CASE Discarded \/ UNCHANGED vars
  <2>1. UNCHANGED vars BY <1>25 DEF Discarded
  <2> QED BY <2>1, StutterFaithful
<1> QED
  BY <1>3, <1>4, <1>5, <1>6, <1>7, <1>8, <1>9, <1>10, <1>11, <1>12, <1>13, <1>14, <1>15,
     <1>16, <1>17, <1>18, <1>19, <1>20, <1>21, <1>22, <1>23, <1>24, <1>25
     DEF Next

\* The whole invariant: the counters, the values, and what the last operation used.
Sound == IInv /\ CallAligned /\ VInv /\ OperandsIntact

\* A program starts with nothing pending, in EvalStack's initial state.
LEMMA InitSound == ASSUME Init PROVE Sound /\ Promise!Init
<1>1. IInv /\ CallAligned BY InitInv DEF CallAligned, Init, Quiet
<1>2. /\ frames = <<>> /\ mode = "gen" /\ event = Quiet /\ st.rax \in Value
      /\ st.skip = 0
  BY DEF Init
<1>3. Run(st, frames) = 0 /\ Len(frames) = 0 BY <1>2 DEF Run
<1>4. VInv
  <2>1. Ordered(frames) BY <1>3 DEF Ordered
  <2>2. ValuesInv(st, frames) BY <1>2, <1>3, <2>1 DEF ValuesInv
  <2> QED BY <2>2 DEF VInv
<1>5. OperandsIntact /\ event.got = <<>> BY <1>2 DEF OperandsIntact, Quiet
<1>6. Visible = <<>> BY <1>1, <1>3, <1>4, Seen
<1>7. VisibleMode = "gen" BY <1>2 DEF VisibleMode, Live
<1>8. Promise!Init BY <1>2, <1>5, <1>6, <1>7 DEF Promise!Init
<1> QED BY <1>1, <1>4, <1>5, <1>8 DEF Sound

\* It is inductive, and every step maps to a step of EvalStack or to none.
LEMMA StepSound ==
  ASSUME Sound, [Next]_vars
  PROVE  Sound' /\ [Promise!Next]_Promise!vars
<1>1. IInv' /\ CallAligned' BY StepGood DEF Sound, Good
<1>2. VInv' /\ OperandsIntact' /\ [Promise!Next]_Promise!vars BY StepFaithful DEF Sound
<1> QED BY <1>1, <1>2 DEF Sound

\* Every binary operator, store, struct copy and call that codegen.c emits uses the
\* values its operands had when they were evaluated, whatever temp_push(),
\* temp_spill_regs() and the code in between did to registers and stack.
THEOREM OperandsIntactHolds == Spec => []OperandsIntact
<1>1. Init => Sound BY InitSound
<1>2. Sound /\ [Next]_vars => Sound' BY StepSound
<1>3. Sound => OperandsIntact BY DEF Sound
<1> QED BY <1>1, <1>2, <1>3, PTL DEF Spec

\* gen_expr() with its pool, spills, pads and jumped-over arms implements the plain
\* stack of pending operations of EvalStack.
THEOREM ImplementsHolds == Spec => Implements
<1>1. Init => Sound /\ Promise!Init BY InitSound
<1>2. Sound /\ [Next]_vars => Sound' BY StepSound
<1>3. Sound /\ [Next]_vars => [Promise!Next]_Promise!vars BY StepSound
<1> QED BY <1>1, <1>2, <1>3, PTL DEF Spec, Implements, Promise!Spec
==============================================================================
