-------------------------------- MODULE Scopes --------------------------------
(***************************************************************************)
(* Names and stack slots: the scope chain of src/symtab.c and the frame      *)
(* layout of src/semantic.c.                                                *)
(*                                                                         *)
(* check_function() walks a body once, in source order, so a behaviour is   *)
(* that walk: a declaration, a use, the beginning or the end of a construct  *)
(* with a scope of its own, each with everything the pass does for it.       *)
(* The global declarations come first, all of them (sem_decl_pass()).        *)
(***************************************************************************)
EXTENDS Integers, Sequences, FiniteSets

CONSTANTS
  Names,       \* the identifiers
  Types,       \* the declared types: [element: bytes, count: elements]
  IntLimit,    \* 2^31: one past the largest int of the compiler itself
  MaxObjects,  \* bound: objects a function can name, the globals included
  MaxScopes,   \* bound: the scopes opened in a function
  None         \* no declaration

ASSUME ScopesAssumption ==
  /\ Types \subseteq [element : Nat, count : Nat]
  /\ IntLimit \in Nat \ {0}
  /\ {MaxObjects, MaxScopes} \subseteq Nat
  /\ None \notin [name : Names, is_global : BOOLEAN, stack_offset : Int]

VARIABLES
  scopes,   \* the chain current_scope, ..., global_scope, outermost first;
            \* a scope is its symbols, the latest insertion first
  frame,    \* the bytes of stack handed out in this function (ctx->frame),
            \* an int
  needed,   \* history: the bytes its locals really take
  errors,   \* an error was reported: no code will be generated
  at,       \* "file", "params", "body"
  open,     \* history: the numbers of the scopes of the chain
  opened,   \* history: how many scopes were opened, in this function
  objects,  \* history: what was declared so far, in the order of the text
  event     \* the names just used: what was found and what is meant by each

vars == <<scopes, frame, needed, errors, at, open, opened, objects, event>>

Quiet == [found |-> <<>>, meant |-> <<>>]

(***************************************************************************)
(* Types, and the arithmetic of the compiler on their sizes: ints, which     *)
(* wrap.  / rounds towards zero.                                            *)
(***************************************************************************)
ToInt(n) == ((n + IntLimit) % (2 * IntLimit)) - IntLimit

(* m / unit * unit *)
WholeUnits(m, unit) == IF m >= 0 THEN m - (m % unit) ELSE m + ((-m) % unit)

(* (n + unit - 1) / unit * unit *)
RoundUp(n, unit) == WholeUnits(ToInt(n + unit - 1), unit)

Bytes(t) == t.element * t.count

(* type_array(): base->size * array_size. *)
Size(t) == ToInt(Bytes(t))

(* type_is_complete() looks at the number of elements, not at the size. *)
Complete(t) == t.element > 0 /\ t.count > 0

(* Mutant: every variable takes a word. *)
Slot_Word(t) == 8

(* What check_stmt() adds to the frame for a declaration. *)
Slot(t) == RoundUp(IF Size(t) <= 0 THEN 8 ELSE Size(t), 8)

Grown(slot) == ToInt(frame + slot)

(* The bytes an object takes, in words and at least one of them. *)
Room(bytes) == IF bytes = 0 THEN 8 ELSE bytes + 7 - ((bytes + 7) % 8)

(***************************************************************************)
(* The symbol table.                                                       *)
(***************************************************************************)
Current == Len(scopes)

Named(scope, name) == {i \in DOMAIN scope : scope[i].name = name}

(* The symbol a walk along one scope meets first. *)
First(scope, name) ==
  scope[CHOOSE i \in Named(scope, name) : \A j \in Named(scope, name) : i <= j]

LookupCurrent(name) == Named(scopes[Current], name) /= {}

(* Mutant: from the global scope inwards. *)
Lookup_Outermost(name) ==
  LET hits == {s \in DOMAIN scopes : Named(scopes[s], name) /= {}}
  IN  IF hits = {} THEN None
      ELSE First(scopes[CHOOSE s \in hits : \A t \in hits : s <= t], name)

(* symbol_lookup(): from the current scope outwards. *)
Lookup(name) ==
  LET hits == {s \in DOMAIN scopes : Named(scopes[s], name) /= {}}
  IN  IF hits = {} THEN None
      ELSE First(scopes[CHOOSE s \in hits : \A t \in hits : s >= t], name)

Insert(symbol) == scopes' = [scopes EXCEPT ![Current] = <<symbol>> \o @]

(***************************************************************************)
(* What a use of a name means: the latest declaration of it in the text      *)
(* before, of those that are not in a construct which has ended.             *)
(***************************************************************************)
Visible(name) ==
  {j \in DOMAIN objects :
     objects[j].name = name /\ \E s \in DOMAIN open : open[s] = objects[j].scope}

Ref(object) ==
  [name |-> object.name, is_global |-> object.is_global,
   stack_offset |-> object.stack_offset]

Meant(name) ==
  LET candidates == Visible(name)
  IN  IF candidates = {} THEN None
      ELSE Ref(objects[CHOOSE j \in candidates : \A k \in candidates : j >= k])

-------------------------------------------------------------------------------
Init ==
  /\ scopes = <<<<>>>>
  /\ frame = 0
  /\ needed = 0
  /\ errors = FALSE
  /\ at = "file"
  /\ open = <<0>>
  /\ opened = 0
  /\ objects = <<>>
  /\ event = Quiet

(* symbol_insert() of a fresh symbol, or the error for a duplicate. *)
Declared(name, is_global, offset, bytes) ==
  IF LookupCurrent(name)
  THEN /\ errors' = TRUE
       /\ UNCHANGED <<scopes, objects>>
  ELSE /\ Insert([name |-> name, is_global |-> is_global, stack_offset |-> offset])
       /\ objects' = Append(objects,
            [name |-> name, is_global |-> is_global, stack_offset |-> offset,
             bytes |-> bytes, scope |-> open[Current]])

(* sem_decl_pass() on a variable; globals have no slot. *)
DeclareGlobal(name, t) ==
  /\ at = "file"
  /\ Len(objects) < MaxObjects
  /\ Declared(name, TRUE, 0, Bytes(t))
  /\ ~LookupCurrent(name) => errors' = (errors \/ ~Complete(t))
  /\ event' = Quiet
  /\ UNCHANGED <<frame, needed, at, open, opened>>

(* check_function() begins: a scope for the parameters, an empty frame.  What *)
(* an earlier function declared is out of sight, and the history forgets it.  *)
EnterFunction ==
  /\ at \in {"file", "between"}
  /\ at' = "params"
  /\ scopes' = Append(scopes, <<>>)
  /\ open' = Append(open, 1)
  /\ opened' = 1
  /\ frame' = 0
  /\ needed' = 0
  /\ objects' = SubSeq(objects, 1, Len(scopes[1]))
  /\ event' = Quiet
  /\ UNCHANGED errors

(* A parameter has a slot of 8 bytes, whatever its type. *)
DeclareParam(name) ==
  /\ at = "params"
  /\ Len(objects) < MaxObjects
  /\ Declared(name, FALSE, ToInt(-Grown(8)), 8)
  /\ IF LookupCurrent(name) THEN UNCHANGED <<frame, needed>>
     ELSE frame' = Grown(8) /\ needed' = needed + Room(8) /\ UNCHANGED errors
  /\ event' = Quiet
  /\ UNCHANGED <<at, open, opened>>

(* scope_push() and scope_pop(). *)
ScopePush ==
  /\ scopes' = Append(scopes, <<>>)
  /\ open' = Append(open, opened + 1)
  /\ opened' = opened + 1

(* Mutant: check_function() leaves only the body. *)
ScopePop_Once(n) ==
  /\ scopes' = SubSeq(scopes, 1, Len(scopes) - 1)
  /\ open' = SubSeq(open, 1, Len(open) - 1)

ScopePop(n) ==
  /\ scopes' = SubSeq(scopes, 1, Len(scopes) - n)
  /\ open' = SubSeq(open, 1, Len(open) - n)

(* The body is a block, with a scope inside that of the parameters. *)
EnterBody ==
  /\ at = "params"
  /\ at' = "body"
  /\ ScopePush
  /\ event' = Quiet
  /\ UNCHANGED <<frame, needed, errors, objects>>

(* check_stmt() on a declaration: the frame grows and never shrinks again. *)
Declare(name, t) ==
  /\ at = "body"
  /\ Len(objects) < MaxObjects
  /\ Declared(name, FALSE, ToInt(-Grown(Slot(t))), Bytes(t))
  /\ IF LookupCurrent(name) THEN UNCHANGED <<frame, needed>>
     ELSE /\ frame' = Grown(Slot(t)) /\ needed' = needed + Room(Bytes(t))
          /\ errors' = (errors \/ ~Complete(t))
  /\ event' = Quiet
  /\ UNCHANGED <<at, open, opened>>

(* A block, a for with its init clause, a switch. *)
Enter ==
  /\ at = "body"
  /\ opened < MaxScopes
  /\ ScopePush
  /\ event' = Quiet
  /\ UNCHANGED <<frame, needed, errors, at, objects>>

Leave ==
  /\ at = "body"
  /\ Current > 3
  /\ ScopePop(1)
  /\ event' = Quiet
  /\ UNCHANGED <<frame, needed, errors, at, opened, objects>>

(* resolve_var() on the variables of an expression: each node gets the place  *)
(* of the symbol it finds.                                                   *)
Use(names) ==
  /\ at = "body"
  /\ errors' = (errors \/ \E name \in names : Lookup(name) = None)
  /\ event' = [found |-> [name \in names |-> Lookup(name)],
               meant |-> [name \in names |-> Meant(name)]]
  /\ UNCHANGED <<scopes, frame, needed, at, open, opened, objects>>

(* The closing brace of the function: frame_size is what frame is now. *)
LeaveFunction ==
  /\ at = "body"
  /\ Current = 3
  /\ at' = "between"
  /\ ScopePop(2)
  /\ event' = Quiet
  /\ UNCHANGED <<frame, needed, errors, opened, objects>>

Next ==
  \/ \E name \in Names, t \in Types : DeclareGlobal(name, t) \/ Declare(name, t)
  \/ \E name \in Names : DeclareParam(name)
  \/ \E names \in SUBSET Names : Use(names)
  \/ EnterFunction \/ EnterBody \/ Enter \/ Leave \/ LeaveFunction

Spec == Init /\ [][Next]_vars

(***************************************************************************)
(* Properties.                                                             *)
(***************************************************************************)
Symbol == [name : Names, is_global : BOOLEAN, stack_offset : Int]
Object == [name : Names, is_global : BOOLEAN, stack_offset : Int, bytes : Nat,
           scope : Nat]

(* Every symbol has a name and a place, and between functions only the       *)
(* global scope is open.                                                    *)
TypeOK ==
  /\ scopes \in Seq(Seq(Symbol)) /\ scopes /= <<>>
  /\ frame \in -IntLimit..(IntLimit - 1)
  /\ needed \in Nat
  /\ errors \in BOOLEAN
  /\ at \in {"file", "params", "body", "between"}
  /\ open \in Seq(Nat) /\ Len(open) = Len(scopes)
  /\ at \in {"file", "between"} => Len(scopes) = 1
  /\ opened \in Nat
  /\ objects \in Seq(Object)

(* A name denotes the object C says it denotes: shadowing ends with the       *)
(* construct it began in, an inner declaration does not reach uses before it, *)
(* and no scope survives its function (symtab.c 26-79, semantic.c 502-523).   *)
UsesBind == event.found = event.meant

(* What gen_func() takes off %rsp. *)
AlignedFrame == IF RoundUp(frame, 16) > 0 THEN RoundUp(frame, 16) ELSE 0

(* No int of the layout overflows, the last rounding included.  Nothing in    *)
(* the compiler asks: more locals than that are accepted and share slots.     *)
FrameFits == needed + 15 < IntLimit

(* The objects of a function lie in its frame, below the saved %rbp, and no   *)
(* two of them share a byte, scopes that ended included: opt.c 40-43 and every *)
(* pointer into a block that is over rely on it.  An array whose size is no   *)
(* int, and locals that are too much only together, are the exception.        *)
Locals == {j \in DOMAIN objects : ~objects[j].is_global}

OwnSlots ==
  FrameFits =>
    \A j \in Locals :
      /\ objects[j].stack_offset >= -AlignedFrame
      /\ objects[j].stack_offset + objects[j].bytes <= 0
      /\ objects[j].stack_offset < 0
      /\ \A k \in Locals : j < k =>
           objects[k].stack_offset + objects[k].bytes <= objects[j].stack_offset
===============================================================================
