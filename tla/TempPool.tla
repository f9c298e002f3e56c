------------------------------- MODULE TempPool -------------------------------
(***************************************************************************)
(* The expression half of src/codegen.c: how the generator parks the value *)
(* of one operand while it generates another.                              *)
(*                                                                         *)
(* One variable, st, holds both what the generator believes and what the   *)
(* machine does when it runs the emitted lines: the temporaries table, the *)
(* pool and the counters on one side; %rax, %rcx, %r10 and the stack on    *)
(* the other.  Every C helper is an operator from one such state to the    *)
(* next.  The recursion of gen_expr() is the sequence frames: one frame per *)
(* gen_binary(), gen_call(), ... still waiting for an operand.  When mode  *)
(* is "gen" an operand is about to be generated, when it is "done" its      *)
(* value is in %rax and the innermost frame goes on.                       *)
(*                                                                         *)
(* Code is emitted for every arm of a conditional expression and the       *)
(* machine runs one of them: while st.skip is the number of a frame, the    *)
(* counters move and the machine does not.                                 *)
(***************************************************************************)
EXTENDS Integers, Sequences, FiniteSets

CONSTANTS
  Value,        \* 64-bit patterns, as far as the properties tell them apart
  Junk,         \* what an instruction leaves in a register it clobbers
  Optimize,     \* g_optimize: FALSE under --no-opt
  NumArgRegs,   \* arg_reg_count(): 6 on System V, 4 on Windows
  Shadow,       \* the Windows home area in words (4); 0 on System V
  ArgCap,       \* the length of gen_call()'s array args (32)
  TempMax,      \* TEMP_MAX (512)
  MaxNest,      \* MYCC_MAX_NEST (256)
  OpLevels,     \* parser.c's levels of binary operators: 8 without && and ||
  MaxArgs,      \* bound: arguments of an explored call
  MaxFrames     \* bound: operations pending in an explored expression

ASSUME TempPoolAssumption ==
  /\ Junk \notin Value
  /\ Value /= {}
  /\ Optimize \in BOOLEAN
  /\ {NumArgRegs, Shadow, ArgCap, TempMax, MaxNest, MaxArgs, MaxFrames} \subseteq Nat
  /\ OpLevels \in Nat \ {0, 1}

VARIABLES st, frames, mode, event

vars == <<st, frames, mode, event>>

fp == Len(frames)
Top == frames[fp]
Windows == Shadow > 0

(* TEMP_POOL_SIZE: %r10 and nothing else. *)
PoolSize == 1

(* The operators, by what emit_binop_reg() does to registers: "keep" reads the *)
(* left one (+ * & | ^ and the comparisons), "sub" writes it, "shift" goes      *)
(* through %r11 and %rcx, "div" (also %) writes %r10 before it reads the left.  *)
Ops == {"keep", "sub", "shift", "div"}

(***************************************************************************)
(* The machine.                                                            *)
(***************************************************************************)
Live(s) == s.skip = 0

(* The first n entries of a stack, and those with v on top of them. *)
Cut(stack, n) == [i \in 1..n |-> stack[i]]
Put(stack, n, v) == [i \in 1..(n + 1) |-> IF i <= n THEN stack[i] ELSE v]

(* The word i places above the frame base; below %rsp nothing is kept. *)
Word(s, i) == IF i \in 1..s.rsp THEN s.mem[i] ELSE Junk

Set(s, reg, v) == IF Live(s) THEN [s EXCEPT ![reg] = v] ELSE s

(* k words, each holding v, are pushed (or %rsp is lowered over them). *)
Grow(s, k, v) ==
  LET rsp == IF Live(s) THEN s.rsp + k ELSE s.rsp
  IN  [s EXCEPT !.pushed = @ + k, !.rsp = rsp,
                !.mem = [i \in 1..rsp |-> IF i <= s.rsp THEN s.mem[i] ELSE v]]

Pushq(s, v) == Grow(s, 1, v)

(* addq $8*n, %rsp: n words are given back. *)
Release(s, n) ==
  LET rsp == IF Live(s) /\ n <= s.rsp THEN s.rsp - n ELSE s.rsp
  IN  [s EXCEPT !.pushed = @ - n, !.rsp = rsp, !.mem = Cut(s.mem, rsp)]

Popq(s, reg) == Release(Set(s, reg, Word(s, s.rsp)), 1)

(***************************************************************************)
(* The temporaries: temp_push() and its companions.                        *)
(***************************************************************************)
TopIsReg(s) == s.depth > 0 /\ s.temps[s.depth].is_reg

TempPush(s) ==
  LET inReg == Optimize /\ s.pool_used < PoolSize
      entry == [is_reg |-> inReg, spill_at_push |-> s.spill_pending]
      s1    == [s EXCEPT !.temps = Put(s.temps, s.depth, entry), !.depth = @ + 1]
  IN  IF inReg THEN Set([s1 EXCEPT !.pool_used = @ + 1], "r10", s.rax)
               ELSE Pushq(s1, s.rax)

Forget(s) == [s EXCEPT !.temps = Cut(s.temps, s.depth - 1), !.depth = @ - 1]

TempDrop_KeepsRegister(s) ==
  IF s.depth = 0 THEN s ELSE IF TopIsReg(s) THEN Forget(s) ELSE Release(Forget(s), 1)

TempDrop(s) ==
  IF s.depth = 0 THEN s
  ELSE IF TopIsReg(s) THEN [Forget(s) EXCEPT !.pool_used = @ - 1]
  ELSE Release(Forget(s), 1)

TempPopInto_AlwaysStack(s, reg) == IF s.depth = 0 THEN s ELSE Popq(Forget(s), reg)

TempPopInto_EntryLeft(s, reg) == IF s.depth = 0 THEN s ELSE Popq(s, reg)

TempPopInto(s, reg) ==
  IF s.depth = 0 THEN s
  ELSE IF TopIsReg(s) THEN Set([Forget(s) EXCEPT !.pool_used = @ - 1], reg, s.r10)
  ELSE Popq(Forget(s), reg)

(* temp_peek_into(): the offset from %rsp counts the stack entries above the *)
(* entry and the call spills made since it was pushed.                       *)
TempPeek(s, d) ==
  LET i     == s.depth - d
      above == Cardinality({j \in (i + 1)..s.depth : ~s.temps[j].is_reg})
  IN  IF s.temps[i].is_reg THEN s.r10
      ELSE Word(s, s.rsp - (above + (s.spill_pending - s.temps[i].spill_at_push)))

TempSpill_Uncounted(s) ==
  IF s.pool_used = 0 THEN s
  ELSE [Pushq(s, s.r10) EXCEPT !.spill_pending = @ + 1, !.pushed = @ - 1]

TempSpill(s) ==
  IF s.pool_used = 0 THEN s
  ELSE [Pushq(s, s.r10) EXCEPT !.spill_pending = @ + 1]

TempUnspill_StillPending(s, n) == IF n = 0 THEN s ELSE Popq(s, "r10")

TempUnspill(s, n) ==
  IF n = 0 THEN s ELSE [Popq(s, "r10") EXCEPT !.spill_pending = @ - 1]

(***************************************************************************)
(* Binary operators.                                                       *)
(***************************************************************************)
ClobbersScratch_ShiftOnly(op) == op = "shift"
ClobbersScratch(op) == op \in {"div", "shift"}
ClobbersPool_Never(op) == FALSE
ClobbersPool(op) == op = "div"

(* The left operand as emit_binop_reg() reads it, and what the instructions *)
(* leave behind when the result is v.                                       *)
BinopLeft(s, op, reg) == IF op = "div" /\ reg = "r10" THEN s.rax ELSE s[reg]

EmitBinop(s, op, reg, v) ==
  LET s1 == CASE op = "keep"  -> s
              [] op = "sub"   -> Set(s, reg, Junk)
              [] op = "shift" -> Set(s, "rcx", Junk)
              [] op = "div"   -> Set(s, "r10", Junk)
  IN  Set(s1, "rax", v)

(* temp_combine(): straight out of the pool register, or by way of %rcx with *)
(* what is left in the pool saved around an instruction that writes it.      *)
InPlace(s, op) == TopIsReg(s) /\ ~ClobbersScratch(op)

CombineLeft(s, op) ==
  IF InPlace(s, op) THEN BinopLeft(s, op, "r10")
                    ELSE BinopLeft(TempPopInto(s, "rcx"), op, "rcx")

TempCombine(s, op, v) ==
  LET popped == TempPopInto(s, "rcx")
      kept   == IF ClobbersPool(op) THEN popped.pool_used ELSE 0
      saved  == IF kept > 0 THEN TempSpill(popped) ELSE popped
  IN  IF InPlace(s, op)
      THEN EmitBinop([Forget(s) EXCEPT !.pool_used = @ - 1], op, "r10", v)
      ELSE TempUnspill(EmitBinop(saved, op, "rcx", v), kept)

(***************************************************************************)
(* Calls.                                                                  *)
(***************************************************************************)
StackArgs(n) == IF n > NumArgRegs THEN n - NumArgRegs ELSE 0

NeedsPad_NoStackArgs(s, n) == (s.pushed + Shadow) % 2 = 1

NeedsPad(s, n) == (s.pushed + StackArgs(n) + Shadow) % 2 = 1

(* Up to the first argument: the pool is parked, then the stack padded. *)
CallSetup(s, n) ==
  LET spilled == TempSpill(s)
  IN  IF NeedsPad(spilled, n) THEN Pushq(spilled, Junk) ELSE spilled

Moved(n) == IF n < NumArgRegs THEN n ELSE NumArgRegs

(* %rsp at the call instruction, counted in words from the frame base. *)
Ready(s, n) == Grow(Release(s, Moved(n)), Shadow, Junk)

(* Argument number i (from 0) where the callee looks for it: in its register *)
(* -- the i-th word popped -- or above the return address and the home area. *)
Passed(s, n, i) ==
  IF i < Moved(n) THEN Word(s, s.rsp - i)
                  ELSE Word(s, (Ready(s, n).rsp - Shadow) - (i - NumArgRegs))

CallEmit_HomeLeft(s, n, spilled, padded, v) ==
  LET called == Set(Set(Set(Ready(s, n), "r10", Junk), "rcx", Junk), "rax", v)
  IN  TempUnspill(Release(called, StackArgs(n) + padded), spilled)

(* After the last argument: registers filled, home area made, the call, which *)
(* clobbers the caller-saved registers and returns v, cleanup, pool restored. *)
CallEmit(s, n, spilled, padded, v) ==
  LET called  == Set(Set(Set(Ready(s, n), "r10", Junk), "rcx", Junk), "rax", v)
      cleanup == StackArgs(n) + Shadow + padded
  IN  TempUnspill(Release(called, cleanup), spilled)

(***************************************************************************)
(* The frames.  kind names the C function, step counts the operands it has *)
(* generated.  held, depth0, pushed0 and spill0 are history: the values of *)
(* those operands, and the counters when the function was entered.         *)
(***************************************************************************)
Kinds == {"binary", "compound", "assign", "struct", "postfix", "call",
          "ternary", "logic"}

(* The functions parser.c reads an expression with, from the outermost on: each  *)
(* is one rank, the levels of binary operators | ^ & == < << + * are BinaryRanks. *)
(* A call, a subscript and a postfix operator are read by parse_primary().        *)
Primary == 0
Comma == 1
Assignment == 2
Conditional == 3
Or == 4
And == 5
BinaryRanks == 6..(5 + OpLevels)
Unary == 6 + OpLevels
Ranks == Primary..Unary

(* Where the operand of a frame stands: parse_depth there, and the rank of the   *)
(* function that reads it.  parse_unary() alone counts a level, so that only what *)
(* stands behind it, between parentheses or brackets, is a level further down.    *)
(* In `a op= b` the target is read by parse_unary() and b by parse_assignment().   *)
Place(nest, rank) == [nest |-> nest, rank |-> rank]

AroundAssign(f) ==
  IF f.step = (IF f.kind = "assign" THEN 1 ELSE 0)
  THEN Place(f.nest + 1, Primary) ELSE Place(f.nest, Assignment)

Operand(f) ==
  CASE f.kind = "call" -> Place(f.nest, Assignment)
    [] f.kind = "postfix" -> Place(f.nest, Primary)
    [] f.kind = "ternary" ->
         Place(f.nest, IF f.step = 0 THEN Or ELSE IF f.step = 1 THEN Comma ELSE Assignment)
    [] f.kind = "logic" -> Place(f.nest, f.rank + f.step)
    [] f.kind \in {"compound", "assign", "struct"} -> AroundAssign(f)
    [] f.kind = "binary" ->
         IF f.rank = Assignment THEN AroundAssign(f)
         ELSE IF f.rank = Primary THEN Place(f.nest, IF f.step = 0 THEN Primary ELSE Comma)
         ELSE Place(f.nest, f.rank + f.step)

Here == IF fp = 0 THEN Place(1, Comma) ELSE Operand(Top)

NestHere == Here.nest

(* parse_depth where an operation is read: it can stand where its rank or one     *)
(* further out is read, and is otherwise parenthesised; parse_primary() is called *)
(* by way of parse_unary().  Casts and prefix operators, which are no frames,      *)
(* count levels of their own, so that the program has at least this depth.        *)
NestOf(rank) == NestHere + (IF rank >= Here.rank THEN 0 ELSE 1)

Entered(kind, rank) ==
  [kind |-> kind, step |-> 0, n |-> 0, asked |-> 0, spilled |-> 0, padded |-> 0,
   nest |-> NestOf(rank), rank |-> rank, held |-> <<>>,
   depth0 |-> st.depth, pushed0 |-> st.pushed, spill0 |-> st.spill_pending]

CanEnter(rank) == mode = "gen" /\ fp < MaxFrames /\ NestOf(rank) < MaxNest

Room(k) == st.depth + k <= TempMax

(* Whether the innermost frame is at the given point, its operand in %rax. *)
At(kind, step) == mode = "done" /\ fp > 0 /\ Top.kind = kind /\ Top.step = step

(* The operation the last step performed, if any: the values its instructions *)
(* used and the values they ought to have used.                               *)
Quiet == [kind |-> "none", got |-> <<>>, want |-> <<>>, asked |-> 0, rsp |-> 0]

Happened(kind, got, want, asked, rsp) ==
  event' = IF Live(st)
           THEN [kind |-> kind, got |-> got, want |-> want, asked |-> asked,
                 rsp |-> rsp]
           ELSE Quiet

(* Between steps %rcx is never needed, nor is %r10 outside the pool: whoever *)
(* reads one of them then reads garbage.                                     *)
Settled(s) ==
  IF Live(s) THEN [s EXCEPT !.rcx = Junk, !.r10 = IF s.pool_used = 0 THEN Junk ELSE @]
             ELSE s

EnterWith(frame, s, m) ==
  /\ frames' = Append(frames, frame)
  /\ st' = s
  /\ mode' = m
  /\ event' = Quiet

Enter(kind, rank) ==
  CanEnter(rank) /\ EnterWith(Entered(kind, rank), st, "gen")

(* The innermost frame holds more values and asks for its next operand. *)
Advance(s, kept) ==
  /\ frames' = [frames EXCEPT ![fp].step = @ + 1,
                              ![fp].held = IF Live(st) THEN @ \o kept ELSE @]
  /\ st' = Settled(s)
  /\ mode' = "gen"
  /\ event' = Quiet

Leave(s) ==
  /\ frames' = SubSeq(frames, 1, fp - 1)
  /\ st' = Settled(s)
  /\ mode' = "done"

-------------------------------------------------------------------------------
Init ==
  /\ \E v \in Value :
       st = [temps |-> <<>>, depth |-> 0, pool_used |-> 0, spill_pending |-> 0,
             pushed |-> 0, rax |-> v, rcx |-> Junk, r10 |-> Junk,
             mem |-> <<>>, rsp |-> 0, skip |-> 0]
  /\ frames = <<>>
  /\ mode = "gen"
  /\ event = Quiet

(* gen_expr() on a literal, a string, a variable; gen_addr() on a variable.  *)
(* Loads, casts, member offsets and literal right operands (gen_binary_imm)  *)
(* only rewrite %rax, whose value is arbitrary here, and are not steps.      *)
GenLeaf ==
  /\ mode = "gen"
  /\ \E v \in Value : st' = Set(st, "rax", v)
  /\ mode' = "done"
  /\ event' = Quiet
  /\ UNCHANGED frames

(* gen_postfix() on a variable: the old value is parked while the new one is *)
(* stored, and is the result.                                                *)
GenPostfixVar ==
  /\ mode = "gen"
  /\ Room(1)
  /\ \E old, new \in Value :
       LET s1 == TempPush(Set(st, "rax", old))
           s2 == TempPopInto(Set(s1, "rax", new), "rax")
       IN  /\ st' = Settled(s2)
           /\ Happened("postfix", <<s2.rax>>, <<old>>, 0, 0)
  /\ mode' = "done"
  /\ UNCHANGED frames

(* gen_binary(): left operand, temp_push, right operand, temp_combine.  It also *)
(* generates the addition in `a[i]`, and `x op= b` of a variable as x op b.       *)
EnterBinary ==
  \E rank \in BinaryRanks \cup {Primary, Assignment} : Enter("binary", rank)

BinaryLeft ==
  /\ At("binary", 0)
  /\ Room(1)
  /\ Advance(TempPush(st), <<st.rax>>)

BinaryRight ==
  /\ At("binary", 1)
  /\ \E op \in Ops, v \in Value :
       /\ Leave(TempCombine(st, op, v))
       /\ Happened("binary", <<CombineLeft(st, op), st.rax>>,
                   Append(Top.held, st.rax), 0, 0)

(* The comma operator: the left value is dropped. *)
CommaLeft ==
  /\ mode = "done"
  /\ mode' = "gen"
  /\ event' = Quiet
  /\ UNCHANGED <<st, frames>>

(* gen_compound_assign(): the address is parked, the old value loaded through *)
(* it and parked too, the right operand combined, the result stored.          *)
EnterCompound == Enter("compound", Assignment)

CompoundTarget ==
  /\ At("compound", 0)
  /\ Room(2)
  /\ \E old \in Value :
       LET s1 == TempPush(st)
           s2 == Set(Set(s1, "rcx", TempPeek(s1, 0)), "rax", old)
       IN  Advance(TempPush(s2), <<st.rax, old>>)

CompoundValue ==
  /\ At("compound", 1)
  /\ \E op \in Ops, v \in Value :
       LET s1 == TempCombine(st, op, v)
           s2 == TempPopInto(s1, "rcx")
       IN  /\ Leave(s2)
           /\ Happened("compound", <<s2.rcx, CombineLeft(st, op), st.rax>>,
                       Append(Top.held, st.rax), 0, 0)

(* gen_assign() through a pointer or a member: value first, then address. *)
EnterAssign == Enter("assign", Assignment)

AssignValue ==
  /\ At("assign", 0)
  /\ Room(1)
  /\ Advance(TempPush(st), <<st.rax>>)

AssignTarget ==
  /\ At("assign", 1)
  /\ LET s == TempPopInto(Set(st, "rcx", st.rax), "rax")
     IN  /\ Leave(s)
         /\ Happened("assign", <<s.rax, s.rcx>>, Append(Top.held, st.rax), 0, 0)

(* gen_assign() of a struct: on Windows %rdi and %rsi are saved around it. *)
EnterStruct ==
  /\ CanEnter(Assignment)
  /\ EnterWith(Entered("struct", Assignment),
               IF Windows THEN Grow(st, 2, Junk) ELSE st, "gen")

StructTarget ==
  /\ At("struct", 0)
  /\ Room(1)
  /\ Advance(TempPush(st), <<st.rax>>)

StructCopy ==
  /\ At("struct", 1)
  /\ LET rdi == TempPeek(st, 0)
         s   == TempPopInto(Set(st, "rcx", Junk), "rax")
     IN  /\ Leave(IF Windows THEN Release(s, 2) ELSE s)
         /\ Happened("struct", <<rdi, st.rax>>, Append(Top.held, st.rax), 0, 0)

(* gen_postfix() through an address: both the address and the old value are *)
(* parked while the new value is formed; the old one is the result.          *)
EnterPostfix == Enter("postfix", Primary)

PostfixTarget ==
  /\ At("postfix", 0)
  /\ Room(2)
  /\ \E old, new \in Value :
       LET s1 == TempPush(st)
           s2 == TempPush(Set(Set(s1, "rcx", TempPeek(s1, 0)), "rax", old))
           s3 == Set(s2, "rax", new)
           s4 == Set(s3, "rcx", TempPeek(s3, 1))
           s5 == TempDrop(TempPopInto(s4, "rax"))
       IN  /\ Leave(s5)
           /\ Happened("postfix", <<s4.rcx, s5.rax>>, <<st.rax, old>>, 0, 0)

(* gen_call(): argument n-1 first, argument 0 last, each pushed as it comes; *)
(* the arguments past the end of args[] are not looked at.                   *)
Kept(n) == IF n < ArgCap THEN n ELSE ArgCap

EnterCall ==
  /\ mode = "gen" /\ fp < MaxFrames /\ NestOf(Primary) <= MaxNest
  /\ \E asked \in 0..MaxArgs :
       LET n       == Kept(asked)
           spilled == st.pool_used
           padded  == IF NeedsPad(TempSpill(st), n) THEN 1 ELSE 0
           frame   == [Entered("call", Primary) EXCEPT
                         !.n = n, !.asked = asked, !.spilled = spilled,
                         !.padded = padded]
           s       == CallSetup(st, n)
       IN  IF n > 0
           THEN CanEnter(Primary) /\ EnterWith(frame, s, "gen")
           ELSE /\ \E v \in Value : st' = Settled(CallEmit(s, 0, spilled, padded, v))
                /\ Happened("call", <<>>, <<>>, asked, Ready(s, 0).rsp)
                /\ mode' = "done"
                /\ UNCHANGED frames

CallArg ==
  /\ At("call", Top.step)
  /\ Top.step + 1 < Top.n
  /\ Advance(Pushq(st, st.rax), <<st.rax>>)

CallLastArg ==
  /\ At("call", Top.step)
  /\ Top.step + 1 = Top.n
  /\ LET n == Top.n
         s == Pushq(st, st.rax)
     IN  /\ \E v \in Value : Leave(CallEmit(s, n, Top.spilled, Top.padded, v))
         /\ Happened("call", [k \in 1..n |-> Passed(s, n, n - k)],
                     Append(Top.held, st.rax), Top.asked, Ready(s, n).rsp)

(* gen_ternary(): both arms are generated, the machine runs the one taken. *)
EnterTernary == Enter("ternary", Conditional)

TernaryCond ==
  /\ At("ternary", 0)
  /\ frames' = [frames EXCEPT ![fp].step = 1]
  /\ \E taken \in 1..2 :
       st' = [st EXCEPT !.skip = IF Live(st) /\ taken = 2 THEN fp ELSE @]
  /\ mode' = "gen"
  /\ event' = Quiet

TernaryThen ==
  /\ At("ternary", 1)
  /\ frames' = [frames EXCEPT ![fp].step = 2]
  /\ st' = [st EXCEPT !.skip = IF st.skip = fp THEN 0
                               ELSE IF Live(st) THEN fp ELSE @]
  /\ mode' = "gen"
  /\ event' = Quiet

TernaryElse ==
  /\ At("ternary", 2)
  /\ Leave([st EXCEPT !.skip = IF @ = fp THEN 0 ELSE @])
  /\ event' = Quiet

(* gen_binary() on && and ||: the right operand may be jumped over. *)
EnterLogic == \E rank \in {Or, And} : Enter("logic", rank)

LogicLeft ==
  /\ At("logic", 0)
  /\ frames' = [frames EXCEPT ![fp].step = 1]
  /\ \E skipped \in BOOLEAN :
       st' = [st EXCEPT !.skip = IF Live(st) /\ skipped THEN fp ELSE @]
  /\ mode' = "gen"
  /\ event' = Quiet

LogicRight ==
  /\ At("logic", 1)
  /\ \E v \in Value :
       Leave(Set([st EXCEPT !.skip = IF @ = fp THEN 0 ELSE @], "rax", v))
  /\ event' = Quiet

(* The expression statement is complete; the next one may be in another    *)
(* function, where gen_func() resets the table but not pushed_count.        *)
EndStatement ==
  /\ mode = "done"
  /\ fp = 0
  /\ mode' = "gen"
  /\ \/ st' = st
     \/ st' = [st EXCEPT !.temps = <<>>, !.depth = 0, !.pool_used = 0,
                         !.spill_pending = 0, !.mem = <<>>, !.rsp = 0]
  /\ event' = Quiet
  /\ UNCHANGED frames

(* temp_push() with the table full reports an error; main.c then discards the *)
(* output, so what is emitted after it does not matter.                       *)
Pushes(kind, step) ==
  CASE kind \in {"compound", "postfix"} /\ step = 0 -> 2
    [] kind \in {"binary", "assign", "struct"} /\ step = 0 -> 1
    [] OTHER -> 0

TempExhausted ==
  /\ \/ mode = "done" /\ fp > 0 /\ ~Room(Pushes(Top.kind, Top.step))
     \/ mode = "gen" /\ ~Room(1)
  /\ mode' = "failed"
  /\ event' = Quiet
  /\ UNCHANGED <<st, frames>>

Discarded == mode = "failed" /\ UNCHANGED vars

Next ==
  \/ GenLeaf \/ GenPostfixVar \/ CommaLeft
  \/ EnterBinary \/ BinaryLeft \/ BinaryRight
  \/ EnterCompound \/ CompoundTarget \/ CompoundValue
  \/ EnterAssign \/ AssignValue \/ AssignTarget
  \/ EnterStruct \/ StructTarget \/ StructCopy
  \/ EnterPostfix \/ PostfixTarget
  \/ EnterCall \/ CallArg \/ CallLastArg
  \/ EnterTernary \/ TernaryCond \/ TernaryThen \/ TernaryElse
  \/ EnterLogic \/ LogicLeft \/ LogicRight
  \/ EndStatement \/ TempExhausted \/ Discarded

Spec == Init /\ [][Next]_vars

-------------------------------------------------------------------------------
(***************************************************************************)
(* Properties.                                                             *)
(***************************************************************************)
EntryType == [is_reg : BOOLEAN, spill_at_push : Nat]
Pattern == Value \cup {Junk}

(* The counters of the generator are counters (none is ever driven below     *)
(* zero) and the table and the machine stack have the size they say.          *)
TypeOK ==
  /\ st.depth \in 0..TempMax
  /\ st.temps \in [1..st.depth -> EntryType]
  /\ st.pool_used \in 0..PoolSize
  /\ {st.spill_pending, st.pushed, st.rsp} \subseteq Nat
  /\ st.mem \in [1..st.rsp -> Pattern]
  /\ {st.rax, st.rcx, st.r10} \subseteq Pattern
  /\ st.skip \in 0..fp
  /\ fp <= MaxFrames
  /\ mode \in {"gen", "done", "failed"}

(* Every operation the machine performs -- a binary operator, a store, a      *)
(* struct copy, a call -- uses exactly the values its operands had when they  *)
(* were evaluated, wherever temp_push() parked them and whatever divisions,   *)
(* calls and nested expressions ran in between (BUG-001, 002, 026).           *)
OperandsIntact == event.got = event.want

(* %rsp is a multiple of 16 at every call: the number of words above the     *)
(* aligned frame is even, with the pad gen_call() decided on before its       *)
(* arguments, however deep in parked temporaries, spills and outer arguments. *)
CallAligned == event.kind = "call" => event.rsp % 2 = 0

(* pushed_count, which every alignment decision and every peek rests on, is  *)
(* the number of words really on the stack -- also where the arms of a       *)
(* conditional expression meet, of which the machine ran only one.           *)
StackAgrees == Live(st) => st.pushed = st.rsp

(* No statement leaves anything behind: no temporary, no spill, no pushed    *)
(* word, no register taken.  gen_func() resets the table but relies on this   *)
(* for pushed_count.                                                          *)
NothingLeft ==
  fp = 0 /\ mode = "done" =>
    st.depth = 0 /\ st.pool_used = 0 /\ st.spill_pending = 0 /\ st.pushed = 0

(* The code for a conditional arm has the same effect on the generator's     *)
(* counters whichever arm it is: leaving any construct restores the counters *)
(* it was entered with.                                                      *)
LeavesAsEntered ==
  fp > 0 /\ Len(frames') < fp =>
    /\ st'.depth = Top.depth0
    /\ st'.pushed = Top.pushed0
    /\ st'.spill_pending = Top.spill0
ConstructsBalanced == [][LeavesAsEntered]_vars

(* A call passes every argument the program gave it (README: "any number of *)
(* parameters").                                                            *)
EveryArgumentPassed == event.kind = "call" => Len(event.got) = event.asked

(* codegen.c 297-298 has of a full table "Unreachable: the parser caps nesting  *)
(* at MYCC_MAX_NEST (256), and each level pushes at most two entries".  A level    *)
(* pushes one for every rank of binary operators and one for a subscript, as in   *)
(* `a|b^c&d==e<f<<g+h*p[...]`; and the right side of `x op= ...` or of a struct     *)
(* assignment is read by parse_assignment() calling itself, at no level at all.   *)
PerLevel == OpLevels + 1

Chained(i) ==
  i < fp /\ frames[i].rank = Assignment /\ frames[i].step = 1 /\ frames[i].kind /= "assign"

(* temp_push() finds its table full only under such a chain of assignments, or   *)
(* where the parser is deep enough: no operation, in whatever order they are      *)
(* nested and repeated, leaves an entry behind that fills the table earlier.      *)
FullByChainOrDepth ==
  mode = "failed" => \/ \E i \in DOMAIN frames : Chained(i)
                     \/ TempMax < PerLevel * NestHere

(***************************************************************************)
(* The frames the machine knows of: those outside the arm being jumped over. *)
(* A skipped first arm of ?: leaves an operand due, any other skipped code    *)
(* leaves its operand in %rax.                                               *)
(***************************************************************************)
Running == IF Live(st) THEN fp ELSE st.skip

Visible == [i \in 1..Running |-> frames[i].held]

VisibleMode ==
  IF Live(st) \/ mode = "failed" THEN mode
  ELSE IF frames[st.skip].kind = "ternary" /\ frames[st.skip].step = 1 THEN "gen"
  ELSE "done"

Promise == INSTANCE EvalStack WITH
  pending <- Visible, acc <- st.rax, mode <- VisibleMode, event <- event.got

(* Registers, spills, pads and peeks implement the stack of pending operations. *)
Implements == Promise!Spec
===============================================================================
