------------------------------- MODULE Linkage -------------------------------
(***************************************************************************)
(* The functions and variables of a file: which declarations and calls      *)
(* semantic.c accepts, and which symbols the output defines and calls.      *)
(*                                                                         *)
(* A file is a sequence of declarations.  A body is the calls in it; types   *)
(* are left out, and so is everything but the number of parameters and       *)
(* arguments.                                                               *)
(***************************************************************************)
EXTENDS Naturals, Sequences, FiniteSets

CONSTANT Declarations   \* bound: the declarations of a file

VARIABLES
  unit,      \* the file, as far as it is written
  globals,   \* the global scope after the first pass: name -> symbol
  errors     \* the first pass found an error

uvars == <<unit, globals, errors>>

(* A name with the kind "variable", "prototype", "extern" or "definition". *)
Declaration(kind, name, params, calls) ==
  [kind |-> kind, name |-> name, params |-> params, calls |-> calls]
Call(name, args) == [name |-> name, args |-> args]

ASSUME LinkageAssumption ==
  \A d \in Declarations :
    /\ d.kind \in {"variable", "prototype", "extern", "definition"}
    /\ d.calls /= {} => d.kind = "definition"

(* The functions that are there without a declaration, with their parameters. *)
Helpers == [print_int |-> 1, print_char |-> 1, print_str |-> 1, print_endl |-> 0]
Libc == [printf |-> 1, puts |-> 1, putchar |-> 1]

(***************************************************************************)
(* semantic.c.                                                             *)
(***************************************************************************)
Symbol(function, params, defined, extern, builtin) ==
  [is_function |-> function, param_count |-> params, is_defined |-> defined,
   is_extern |-> extern, is_builtin |-> builtin]

Insert(table, name, symbol) ==
  [n \in DOMAIN table \cup {name} |-> IF n = name THEN symbol ELSE table[n]]

NewSymbol(d) ==
  IF d.kind = "variable" THEN Symbol(FALSE, 0, FALSE, FALSE, FALSE)
  ELSE Symbol(TRUE, d.params, d.kind = "definition", d.kind = "extern", FALSE)

Defines(symbol, d) == symbol.is_defined \/ d.kind = "definition"

(* Mutant: a definition leaves an earlier extern in force. *)
Redeclared_StaysExtern(symbol, d) == [symbol EXCEPT !.is_defined = Defines(symbol, d)]

(* A function that is declared again; extern on a later declaration is not    *)
(* noted, and on an earlier one it ends with the definition.                 *)
Redeclared(symbol, d) ==
  [symbol EXCEPT !.is_defined = Defines(symbol, d),
                 !.is_extern = @ /\ ~Defines(symbol, d)]

Clashes(symbol, d) ==
  \/ ~symbol.is_function
  \/ d.kind = "variable"
  \/ symbol.param_count /= d.params
  \/ symbol.is_defined /\ d.kind = "definition"

MainTakes(d) == d.kind /= "variable" /\ d.name = "main" /\ d.params > 0

(* sem_decl_pass(), one declaration. *)
Declare(d) ==
  LET again == d.name \in DOMAIN globals
      clash == again /\ Clashes(globals[d.name], d)
      symbol == IF again THEN Redeclared(globals[d.name], d) ELSE NewSymbol(d)
  IN  /\ unit' = Append(unit, d)
      /\ globals' = IF clash THEN globals ELSE Insert(globals, d.name, symbol)
      /\ errors' = (errors \/ clash \/ MainTakes(d))

UnitInit == unit = <<>> /\ globals = <<>> /\ errors = FALSE
UnitNext == \E d \in Declarations : Declare(d)
UnitSpec == UnitInit /\ [][UnitNext]_uvars

(* register_builtins(): what the file declared itself stays. *)
Builtins ==
  [n \in DOMAIN Helpers \cup DOMAIN Libc |->
     Symbol(TRUE, IF n \in DOMAIN Helpers THEN Helpers[n] ELSE Libc[n], TRUE, TRUE, TRUE)]
Table ==
  [n \in DOMAIN globals \cup DOMAIN Builtins |->
     IF n \in DOMAIN globals THEN globals[n] ELSE Builtins[n]]

Definitions == {i \in DOMAIN unit : unit[i].kind = "definition"}
Calls == UNION {unit[i].calls : i \in Definitions}

(* check_call(): an extern function may be variadic. *)
CallChecks(call) ==
  /\ call.name \in DOMAIN Table
  /\ Table[call.name].is_function
  /\ IF Table[call.name].is_extern THEN call.args >= Table[call.name].param_count
     ELSE call.args = Table[call.name].param_count

(* A called prototype has to be defined in the file or declared extern. *)
Supplied(call) == Table[call.name].is_defined \/ Table[call.name].is_extern

HaveMain == \E i \in DOMAIN unit : unit[i].name = "main" /\ unit[i].kind /= "variable"

(* semantic_analyze() finds no error. *)
Analyzed ==
  /\ ~errors
  /\ \A call \in Calls : CallChecks(call) /\ Supplied(call)
  /\ HaveMain

(***************************************************************************)
(* The output.                                                             *)
(***************************************************************************)
(* rewrite_builtin_call(): the call that codegen.c sees. *)
Rewritten(call) ==
  IF ~Table[call.name].is_builtin THEN call
  ELSE CASE call.name \in {"print_int", "print_str"} -> Call("printf", call.args + 1)
         [] call.name = "print_char" -> Call("putchar", call.args)
         [] call.name = "print_endl" -> Call("putchar", 1)
         [] OTHER -> call

(* gen_data() and gen_func(): the symbols that get a label. *)
Emitted == {i \in DOMAIN unit : unit[i].kind \in {"variable", "definition"}}
EmittedNames == {unit[i].name : i \in Emitted}

(* The linker finds what the output calls: a label in it, the C library's, or *)
(* one that an extern declaration promises.                                  *)
Promised == {unit[i].name : i \in {j \in DOMAIN unit : unit[j].kind = "extern"}}
Linked(call) ==
  \/ \E i \in Definitions : unit[i].name = call.name /\ unit[i].params = call.args
  \/ call.name \in (DOMAIN Libc \cup Promised) \ EmittedNames

(***************************************************************************)
(* Properties.                                                             *)
(***************************************************************************)

(* A file the analysis accepts is one the assembler and the linker accept,    *)
(* and in which every function gets as many arguments as it has parameters:   *)
(* no label twice, a main, and behind every call its function (the reason for *)
(* semantic.c 1513-1517).  Two things get through.  A mere declaration of     *)
(* main counts as a main (1494-1498).  And a print helper is lowered to printf *)
(* or putchar by name, whatever the file itself calls so (552-581).          *)
MainOnlyDeclared ==
  \A i \in DOMAIN unit : unit[i].name = "main" => unit[i].kind \in {"prototype", "extern"}

Captured(call) ==
  call.name \in DOMAIN Helpers /\ Rewritten(call).name \in EmittedNames

UnitLinks ==
  Analyzed =>
    /\ Cardinality(EmittedNames) = Cardinality(Emitted)
    /\ "main" \in EmittedNames \/ MainOnlyDeclared
    /\ \A call \in Calls : Linked(Rewritten(call)) \/ Captured(call)
==============================================================================
