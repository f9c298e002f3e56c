----------------------------- MODULE StructLayout -----------------------------
(***************************************************************************)
(* Where the members of structs lie: parse_type_specifier() in src/parser.c  *)
(* and struct_add_member() in src/util.c.                                   *)
(*                                                                         *)
(* What is read is a file of struct definitions, nested or not, without names *)
(* of members: "{" begins the body of a tag, a member has a scalar type, a    *)
(* pointer or the type of a tag, and "}" ends the innermost body, whose type  *)
(* a nested one gives a member (or a pointer) in turn.                       *)
(***************************************************************************)
EXTENDS Integers, SequencesExt

CONSTANT Tags   \* bound: the tags of a file

VARIABLES
  declared,    \* the structs, in the order they were registered, and the open bodies
  unfinished   \* history: a member took the size of a struct that was not finished

lvars == <<declared, unfinished>>

Char == [kind |-> "char", no |-> 0]
Ptr == [kind |-> "ptr", no |-> 0]
Struct(no) == [kind |-> "struct", no |-> no]

(* type_struct(): a struct, and no members yet. *)
NewStruct(tag) == [tag |-> tag, members |-> <<>>, size |-> 0, align |-> 1]

(* What is declared so far: the structs in the order they were registered,   *)
(* and the bodies that are open, the innermost last.                         *)
Nothing == [structs |-> <<>>, open |-> <<>>, errors |-> FALSE]

(* struct_lookup(): the registered last; 0 if there is none. *)
Lookup(s, tag) ==
  Max({0} \cup {no \in DOMAIN s.structs : s.structs[no].tag = tag})

Register(s, tag) == [s EXCEPT !.structs = Append(@, NewStruct(tag))]

SizeOf(s, type) ==
  CASE type.kind = "char" -> 1
    [] type.kind = "struct" -> s.structs[type.no].size
    [] OTHER -> 8
AlignOf(s, type) ==
  CASE type.kind = "char" -> 1
    [] type.kind = "struct" -> s.structs[type.no].align
    [] OTHER -> 8

(* type_is_complete() *)
IsComplete(s, type) ==
  type.kind = "struct" =>
    s.structs[type.no].members /= <<>> /\ s.structs[type.no].size > 0

(* The next multiple of align. *)
Up(n, align) == ((n + align - 1) \div align) * align

(* Mutant: a member comes right behind the one before. *)
AddMember_Packed(st, type, size, align) ==
  [st EXCEPT !.members = Append(@, [type |-> type, offset |-> st.size, size |-> size, align |-> align]),
             !.size = st.size + size,
             !.align = IF align > @ THEN align ELSE @]

(* struct_add_member(), with the size and alignment the type has by then. *)
AddMember(st, type, size, align) ==
  LET offset == Up(st.size, align)
  IN  [st EXCEPT !.members = Append(@, [type |-> type, offset |-> offset, size |-> size, align |-> align]),
                 !.size = offset + size,
                 !.align = IF align > @ THEN align ELSE @]

(* The size is rounded up where the body ends. *)
Close(st) == [st EXCEPT !.size = Up(@, st.align)]

(***************************************************************************)
(* parse_type_specifier().                                                 *)
(***************************************************************************)
(* "struct tag {": a struct that has members is not defined again. *)
OpenBody(s, tag) ==
  LET no == Lookup(s, tag)
      again == no /= 0 /\ s.structs[no].members /= <<>>
      t == IF no = 0 \/ again THEN Register(s, tag) ELSE s
  IN  [t EXCEPT !.open = Append(@, Lookup(t, tag)), !.errors = @ \/ again]

(* "type member;" in the innermost body. *)
DeclareMember(s, type) ==
  LET no == Last(s.open)
      whole == type /= Struct(no) /\ IsComplete(s, type)
      size == SizeOf(s, type)
  IN  [s EXCEPT !.structs[no] = AddMember(@, type, IF size > 0 THEN size ELSE 8, AlignOf(s, type)),
                !.errors = @ \/ ~whole]

(* "struct tag member;" *)
DeclareTagged(s, tag) ==
  LET t == IF Lookup(s, tag) = 0 THEN Register(s, tag) ELSE s
  IN  DeclareMember(t, Struct(Lookup(t, tag)))

(* "} member;", "} *member;" in a nested body, "};" in an outermost one. *)
CloseBody(s, pointer) ==
  LET no == Last(s.open)
      t == [s EXCEPT !.structs[no] = Close(@), !.open = Front(@)]
  IN  IF t.open = <<>> THEN t ELSE DeclareMember(t, IF pointer THEN Ptr ELSE Struct(no))

(***************************************************************************)
(* A file, item by item.                                                   *)
(***************************************************************************)
(* A member whose type is a struct with its body still open has the size that *)
(* struct had by then.  Only the innermost body is looked at for that ("base   *)
(* == st", parser.c 211), and C forbids every one.                           *)
TakesUnfinished(s) ==
  /\ s.open /= <<>>
  /\ s.structs[Last(s.open)].members /= <<>>
  /\ LET type == Last(s.structs[Last(s.open)].members).type
     IN  type.kind = "struct" /\ type.no \in Range(s.open)

Read(s) == declared' = s /\ unfinished' = (unfinished \/ TakesUnfinished(s))

BeginBody == \E tag \in Tags : Read(OpenBody(declared, tag))

InBody == declared.open /= <<>>
ScalarMember == InBody /\ \E type \in {Char, Ptr} : Read(DeclareMember(declared, type))
TaggedMember == InBody /\ \E tag \in Tags : Read(DeclareTagged(declared, tag))

(* A nested body is closed by a member, an outermost one is not. *)
EndBody ==
  InBody /\ \E pointer \in BOOLEAN :
    /\ pointer => Len(declared.open) > 1
    /\ Read(CloseBody(declared, pointer))

LayoutInit == declared = Nothing /\ unfinished = FALSE
LayoutNext == BeginBody \/ ScalarMember \/ TaggedMember \/ EndBody
LayoutSpec == LayoutInit /\ [][LayoutNext]_lvars

(***************************************************************************)
(* Properties.                                                             *)
(***************************************************************************)

(* The members lie one behind the other, each aligned, within the size; the   *)
(* struct is aligned as its members need it.                                 *)
EndOf(m) == m.offset + m.size
Fits(st) ==
  \A i \in DOMAIN st.members :
    /\ st.members[i].offset % st.members[i].align = 0
    /\ st.align % st.members[i].align = 0
    /\ EndOf(st.members[i]) <= st.size
    /\ \A j \in DOMAIN st.members : i < j => EndOf(st.members[i]) <= st.members[j].offset

(* No two members of a struct share a byte, members of struct type included    *)
(* with the size that type has in the end, and all of them lie within the      *)
(* size that arrays, frames and copies of the struct go by (util.c 377-415,    *)
(* parser.c 165-243).                                                        *)
LayoutSound ==
  ~declared.errors /\ ~unfinished =>
    \A no \in DOMAIN declared.structs :
      LET st == declared.structs[no]
      IN  /\ Fits(st)
          /\ no \notin Range(declared.open) => st.size % st.align = 0
          /\ \A i \in DOMAIN st.members :
               /\ st.members[i].size = SizeOf(declared, st.members[i].type)
               /\ st.members[i].align = AlignOf(declared, st.members[i].type)
===============================================================================
