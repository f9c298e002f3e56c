------------------------------- MODULE MycVars -------------------------------
(***************************************************************************)
(* The toy language of src/myc.c: how its parser decides whether "say"       *)
(* prints a number or a string, and what semantic.c makes of the tree.       *)
(*                                                                         *)
(* Of a program the functions with their parameters, the blocks, and the      *)
(* names that are declared and said are left.  A program may stop anywhere:   *)
(* its blocks are then closed.                                               *)
(***************************************************************************)
EXTENDS Integers, FiniteSets, SequencesExt

CONSTANTS
  Names,     \* bound: the names of a program
  MaxVars    \* MYC_MAX_VARS (128)

VARIABLES
  vars,        \* g_vars, the parser's table: name -> is_string
  scopes,      \* those of semantic.c, the innermost last: name -> is it a char *
  arms,        \* the bodies of ifs around the place: may an else follow?
  misscoped,   \* error: a name that is not in scope, or is declared there already
  unlike,      \* error: say prints a name as what it is not
  full,        \* error: too many variables in one function
  kinds,       \* history: the names the function declared, each with what it is
  mixed        \* history: a function declared a name both as a number and as a string

mvars == <<vars, scopes, arms, misscoped, unlike, full, kinds, mixed>>

Bind(table, name, string) ==
  [n \in DOMAIN table \cup {name} |-> IF n = name THEN string ELSE table[n]]

(* Mutant: the names of one function are still known in the next. *)
VarsReset_Kept(table) == table

(* vars_reset() *)
VarsReset(table) == <<>>

(* vars_declare(): a name has one entry in a function, whatever its block. *)
VarsDeclare(name, string) ==
  IF name \in DOMAIN vars \/ Cardinality(DOMAIN vars) < MaxVars
  THEN vars' = Bind(vars, name, string) /\ UNCHANGED full
  ELSE full' = TRUE /\ UNCHANGED vars

VarsIsString(name) == name \in DOMAIN vars /\ vars[name]

(***************************************************************************)
(* A program, item by item.                                                *)
(***************************************************************************)
Outside == scopes = <<>>
Inside == scopes /= <<>>

(* What a function has declared by now. *)
Declares(k) ==
  /\ kinds' = k
  /\ mixed' = (mixed \/ \E name \in Names : {<<name, TRUE>>, <<name, FALSE>>} \subseteq k)

(* parse_fn(); check_function() opens a scope for the parameters, which are    *)
(* ints, and one for the body.                                               *)
ParseFn ==
  /\ Outside
  /\ \E params \in SUBSET Names :
       /\ vars' = VarsReset(vars)
       /\ scopes' = <<[p \in params |-> FALSE], <<>>>>
       /\ Declares(params \X {FALSE})
  /\ UNCHANGED <<arms, misscoped, unlike, full>>

(* parse_let(); check_stmt() of the declaration. *)
ParseLet ==
  /\ Inside
  /\ \E name \in Names, string \in BOOLEAN :
       LET scope == Last(scopes)
       IN  /\ VarsDeclare(name, string)
           /\ misscoped' = (misscoped \/ name \in DOMAIN scope)
           /\ scopes' = [scopes EXCEPT ![Len(scopes)] =
                           IF name \in DOMAIN scope THEN scope ELSE Bind(scope, name, string)]
           /\ Declares(kinds \cup {<<name, string>>})
  /\ UNCHANGED <<arms, unlike>>

(* parse_say(): print_str or print_int, and what check_call() finds it is      *)
(* given: types_compatible() lets neither take the other's argument.         *)
ParseSay ==
  /\ Inside
  /\ \E name \in Names :
       LET known == {i \in DOMAIN scopes : name \in DOMAIN scopes[i]}
       IN  /\ misscoped' = (misscoped \/ known = {})
           /\ unlike' = (unlike \/ (known /= {} /\ VarsIsString(name) /= scopes[Max(known)][name]))
  /\ UNCHANGED <<vars, scopes, arms, full, kinds, mixed>>

(* parse_stmt() and parse_block_body(): the body of an if or a while, and that  *)
(* of an else, are each a block.                                             *)
Block(open, around) ==
  /\ scopes' = open /\ arms' = around
  /\ UNCHANGED <<vars, misscoped, unlike, full, kinds, mixed>>

ParseIf == Inside /\ Block(Append(scopes, <<>>), Append(arms, TRUE))
ParseElse ==
  /\ Inside /\ arms /= <<>> /\ Last(arms)
  /\ Block(Append(Front(scopes), <<>>), Append(Front(arms), FALSE))
EndBlock == Inside /\ arms /= <<>> /\ Block(Front(scopes), Front(arms))
EndFn == Inside /\ arms = <<>> /\ Block(<<>>, <<>>)

MycInit ==
  /\ vars = <<>> /\ scopes = <<>> /\ arms = <<>>
  /\ misscoped = FALSE /\ unlike = FALSE /\ full = FALSE
  /\ kinds = {} /\ mixed = FALSE
MycNext == ParseFn \/ ParseLet \/ ParseSay \/ ParseIf \/ ParseElse \/ EndBlock \/ EndFn
MycSpec == MycInit /\ [][MycNext]_mvars

(***************************************************************************)
(* Properties.                                                             *)
(***************************************************************************)

(* Where every name is declared before it is said, once in its block, and as   *)
(* one kind of thing throughout its function, "say" prints it as what it is:   *)
(* the flat table of the parser agrees with the scopes of the analysis, which  *)
(* would refuse the program otherwise, and no name of another function counts *)
(* (myc.c 165-170, 943-945).                                                 *)
SaysWhatItIs == ~mixed => ~unlike \/ misscoped \/ full
==============================================================================
