----------------------------- MODULE ParserText -----------------------------
(***************************************************************************)
(* Texts for Parser, and what C's grammar says of them.                     *)
(*                                                                         *)
(* A program is a derivation tree of the grammar: a rule and its parts.     *)
(* Written gives its text, with the parentheses that C's table of           *)
(* precedences asks for and no other; Meant gives the tree it stands for.   *)
(* Neither looks at how the parser goes about it.  A text may then lose a   *)
(* token, or have one doubled, before it is compiled.                       *)
(***************************************************************************)
EXTENDS Parser, SequencesExt

CONSTANTS
  Rules,        \* bound: the rules of the explored programs: [sort, form, op, parts, weight]
  Budget,       \* bound: the weight of a program
  DamageLength  \* bound: the tokens of a text that is damaged

ASSUME ParserTextAssumption == {Budget, DamageLength} \subseteq Nat

VARIABLES
  plan,     \* the rules a program is derived with, leftmost part first
  holes,    \* the sorts of the parts that are still to be derived
  left,     \* what is left of the budget
  tree,     \* the program
  text,     \* its tokens, perhaps damaged; empty until it is written
  damaged,
  result    \* the cursor parse_program() ends with, or NotRun

vars == <<plan, holes, left, tree, text, damaged, result>>

(***************************************************************************)
(* Derivation trees.                                                       *)
(***************************************************************************)
Tree(form, op, parts) == [form |-> form, op |-> op, parts |-> parts]

(* The tree a list of rules begins with, or count of them; and what follows. *)
RECURSIVE Derived(_), DerivedParts(_, _)
Derived(rules) ==
  LET parts == DerivedParts(Len(Head(rules).parts), Tail(rules))
  IN  <<Tree(Head(rules).form, Head(rules).op, parts[1]), parts[2]>>
DerivedParts(count, rules) ==
  IF count = 0 THEN <<<<>>, rules>>
  ELSE LET first == Derived(rules)
           others == DerivedParts(count - 1, first[2])
       IN  <<<<first[1]>> \o others[1], others[2]>>

RECURSIVE Within(_)
Within(t) == {t} \cup UNION {Within(t.parts[i]) : i \in DOMAIN t.parts}

(* A label belongs to the statement that follows it. *)
Labels == {"case", "default"}
RECURSIVE Labelled(_)
Labelled(t) == IF t.form \in Labels THEN Labelled(t.parts[1]) ELSE t

(* An if without else at the end of a statement takes the else that follows. *)
RECURSIVE Open(_)
Open(t) == \/ t.form = "if"
           \/ t.form \in {"else", "while", "for"} \cup Labels /\ Open(Last(t.parts))
Unambiguous(t) == \A s \in Within(t) : s.form = "else" => ~Open(s.parts[2])

(***************************************************************************)
(* The text of a program.                                                  *)
(***************************************************************************)
Precedence == "||" :> 3 @@ "&&" :> 4 @@ "|" :> 5 @@ "^" :> 6 @@ "&" :> 7 @@ "==" :> 8
   @@ "!=" :> 8 @@ "<" :> 9 @@ ">=" :> 9 @@ "<<" :> 10 @@ ">>" :> 10 @@ "+" :> 11
   @@ "-" :> 11 @@ "*" :> 12 @@ "/" :> 12 @@ "%" :> 12

Level(t) ==
  CASE t.form = "comma" -> 0 [] t.form = "assign" -> 1 [] t.form = "cond" -> 2
    [] t.form = "bin" -> Precedence[t.op]
    [] t.form \in {"pre", "cast"} -> 13
    [] OTHER -> 15

(* The declarators of the explored programs, and the type each one declares. *)
IntType == Node("int", "", <<>>)
Declarator ==
  "plain" :> [before |-> <<>>, after |-> <<>>, type |-> IntType]
  @@ "pointer" :> [before |-> <<"*">>, after |-> <<>>, type |-> Ptr(IntType)]
  @@ "rows" :> [before |-> <<>>, after |-> <<"[", "2", "]", "[", "3", "]">>,
                type |-> Array(Array(IntType, 3), 2)]
  @@ "pointers" :> [before |-> <<"*", "*">>, after |-> <<"[", "2", "]">>,
                    type |-> Array(Ptr(Ptr(IntType)), 2)]
  @@ "set" :> [before |-> <<>>, after |-> <<"=", "7">>, type |-> IntType]
  @@ "set rows" :> [before |-> <<>>, after |-> <<"[", "2", "]", "=", "7">>,
                    type |-> Array(IntType, 2)]
  @@ "cube" :> [before |-> <<>>, after |-> <<"[", "2", "]", "[", "3", "]", "[", "2", "]">>,
                type |-> Array(Array(Array(IntType, 2), 3), 2)]

(* The declarations without parts, and what they stand for. *)
Prototype(form, params) == Node(form, "f", <<IntType, Node("params", "", params)>>)
Fixed ==
  "struct" :> [text |-> <<"struct", "S", "{", "int", "x", ";", "struct", "S", "*", "y", ";", "}", ";">>,
               nodes |-> <<>>]
  @@ "extern" :> [text |-> <<"extern", "int", "f", "(", "void", ")", ";">>,
                  nodes |-> <<Prototype("extern function", <<>>)>>]
  @@ "prototype" :> [text |-> <<"int", "f", "(", "int", "x", ",", "char", "*", "y", ")", ";">>,
                     nodes |-> <<Prototype("function", <<Node("param", "x", <<IntType>>),
                                   Node("param", "y", <<Ptr(Node("char", "", <<>>))>>)>>)>>]

(* Token, and part i in a place where C wants something at least as tight as min. *)
T(word) == [word |-> word, part |-> 0, min |-> 0]
P(i, min) == [word |-> "", part |-> i, min |-> min]
Words(words) == [i \in DOMAIN words |-> T(words[i])]

Shape(t) ==
  CASE t.form \in {"var", "num", "string"} -> <<T(IF t.form = "string" THEN "string" ELSE t.op)>>
    [] t.form = "bin" -> <<P(1, Level(t)), T(t.op), P(2, Level(t) + 1)>>
    [] t.form = "comma" -> <<P(1, 0), T(","), P(2, 1)>>
    [] t.form = "assign" -> <<P(1, 13), T(t.op), P(2, 1)>>
    [] t.form = "cond" -> <<P(1, 3), T("?"), P(2, 0), T(":"), P(3, 2)>>
    [] t.form = "pre" -> <<T(t.op), P(1, 13)>>
    [] t.form = "cast" -> Words(<<"(", "unsigned", "*", ")">>) \o <<P(1, 13)>>
    [] t.form = "post" -> <<P(1, 14), T(t.op)>>
    [] t.form = "member" -> <<P(1, 14), T(t.op), T("y")>>
    [] t.form = "index" -> <<P(1, 14), T("["), P(2, 0), T("]")>>
    [] t.form = "call" -> Words(<<"f", "(">>) \o <<P(1, 1), T(","), P(2, 1), T(")")>>
    [] t.form = "call0" -> Words(<<"f", "(", ")">>)
    [] t.form = "expr" -> <<P(1, 0), T(";")>>
    [] t.form = "empty" -> <<T(";")>>
    [] t.form = "block" -> <<T("{"), P(1, 0), T("}")>>
    [] t.form = "if" -> Words(<<"if", "(">>) \o <<P(1, 0), T(")"), P(2, 0)>>
    [] t.form = "else" -> Words(<<"if", "(">>) \o <<P(1, 0), T(")"), P(2, 0), T("else"), P(3, 0)>>
    [] t.form = "while" -> Words(<<"while", "(">>) \o <<P(1, 0), T(")"), P(2, 0)>>
    [] t.form = "do" -> <<T("do"), P(1, 0)>> \o Words(<<"while", "(">>) \o <<P(2, 0), T(")"), T(";")>>
    [] t.form = "for" ->
         Words(<<"for", "(">> \o CASE t.op = "all" -> <<"x", ";", "x", ";", "x", ")">>
                                   [] t.op = "decl" -> <<"int", "x", ";", ";", ")">>
                                   [] OTHER -> <<";", ";", ")">>) \o <<P(1, 0)>>
    [] t.form = "switch" -> Words(<<"switch", "(">>) \o <<P(1, 0), T(")"), T("{"), P(2, 0), T("}")>>
    [] t.form = "jump" -> <<T(t.op), T(";")>>
    [] t.form = "return" -> <<T("return"), P(1, 0), T(";")>>
    [] t.form = "case" -> Words(<<"case", "7", ":">>) \o <<P(1, 0)>>
    [] t.form = "default" -> Words(<<"default", ":">>) \o <<P(1, 0)>>
    [] t.form = "none" -> <<>>
    [] t.form = "then" -> <<P(1, 0), P(2, 0)>>
    [] t.form = "local" -> <<T("int"), P(1, 0), T(";"), P(2, 0)>>
    [] t.form = "last" -> Words(Declarator[t.op].before \o <<"y">> \o Declarator[t.op].after)
    [] t.form = "more" -> Words(Declarator[t.op].before \o <<"x">> \o Declarator[t.op].after \o <<",">>)
                          \o <<P(1, 0)>>
    [] t.form = "body" -> Words(<<"int", "f", "(", "void", ")", "{">>) \o <<P(1, 0), T("}")>>
    [] t.form = "globals" -> <<T("int"), P(1, 0), T(";")>>
    [] t.form = "fixed" -> Words(Fixed[t.op].text)
    [] t.form = "unit" -> <<P(1, 0), P(2, 0)>>

RECURSIVE Written(_, _)
Written(t, min) ==
  LET plain == FlattenSeq([i \in DOMAIN Shape(t) |->
                 LET s == Shape(t)[i]
                 IN  IF s.part = 0 THEN <<s.word>> ELSE Written(t.parts[s.part], s.min)])
  IN  IF Level(t) < min THEN <<"(">> \o plain \o <<")">> ELSE plain

(***************************************************************************)
(* The tree it stands for.  A label is a node before the statement it        *)
(* belongs to; where C has room for one statement, the two are in a block.   *)
(***************************************************************************)
Bodied == {"if", "else", "while", "do", "for"}
AsOne(nodes) == IF Len(nodes) = 1 THEN nodes ELSE <<Node("block", "", nodes)>>

RECURSIVE Meant(_)
Meant(t) ==
  LET part(i) == IF t.form \in Bodied THEN AsOne(Meant(t.parts[i])) ELSE Meant(t.parts[i])
      all == FlattenSeq([i \in DOMAIN t.parts |-> part(i)])
      one(kind, v) == <<Node(kind, v, all)>>
      loop == CASE t.op = "all" -> <<Node("init", "", <<Node("var_ref", "x", <<>>)>>),
                                     Node("var_ref", "x", <<>>), Node("var_ref", "x", <<>>)>>
                [] t.op = "decl" -> <<Node("init", "", <<Node("var_decl", "x", <<IntType>>)>>), Absent, Absent>>
                [] OTHER -> <<Node("init", "", <<Absent>>), Absent, Absent>>
      declared(name) ==
        <<Node("var_decl", name, <<Declarator[t.op].type>>)>>
          \o IF t.op = "set" THEN <<Node("assign", "", <<Node("var_ref", name, <<>>), IntLit(7)>>)>> ELSE <<>>
  IN  CASE t.form = "var" -> one("var_ref", t.op)
        [] t.form = "num" -> <<IntLit(Value[t.op])>>
        [] t.form = "bin" -> one("bin", t.op)
        [] t.form = "comma" -> one("bin", ",")
        [] t.form = "assign" ->
             IF t.op = "=" THEN one("assign", "") ELSE <<Compound(part(1), CompoundOp[t.op], part(2))>>
        [] t.form = "cond" -> one("ternary", "")
        [] t.form = "pre" -> <<Prefixed(t.op, all)>>
        [] t.form = "cast" -> <<Node("cast", "", <<Ptr(Node("uint", "", <<>>))>> \o all)>>
        [] t.form = "post" -> one("postfix", t.op)
        [] t.form = "member" -> <<Member(IF t.op = "." THEN all ELSE <<Prefixed("*", all)>>, "y")>>
        [] t.form = "index" -> <<Indexed(part(1), part(2))>>
        [] t.form \in {"call", "call0"} -> one("call", "f")
        [] t.form = "block" -> one("block", "")
        [] t.form = "empty" -> one("block", "")
        [] t.form \in {"if", "else"} -> one("if", "")
        [] t.form \in {"while", "do", "switch", "return", "string"} -> one(t.form, "")
        [] t.form = "for" -> <<Node("for", "", loop \o all)>>
        [] t.form = "jump" -> one(t.op, "")
        [] t.form = "case" -> <<Node("case", "", <<IntLit(7)>>)>> \o all
        [] t.form = "default" -> <<Node("default", "", <<>>)>> \o all
        [] t.form = "last" -> declared("y")
        [] t.form = "more" -> declared("x") \o all
        [] t.form = "body" -> <<Node("function", "f", <<IntType, Node("params", "", <<>>), Node("block", "", all)>>)>>
        [] t.form = "fixed" -> Fixed[t.op].nodes
        [] OTHER -> all

(* What is refused: a struct defined again, a target that is no object, an   *)
(* array with one value or (here) three dimensions, too large a number.     *)
RECURSIVE Structs(_)
Structs(t) == IF t.form = "unit" THEN Structs(t.parts[1]) + Structs(t.parts[2])
              ELSE IF t.op = "struct" THEN 1 ELSE 0

Legal(t) ==
  /\ Structs(t) <= 1
  /\ \A s \in Within(t) :
       /\ s.form \in {"assign", "post"} \/ (s.form = "pre" /\ s.op \in {"++", "--"}) =>
            Lvalue(Meant(s.parts[1])[1])
       /\ s.form \in {"last", "more"} => s.op \notin {"set rows", "cube"}
       /\ s.form = "num" => Value[s.op] < LLong

(* How deep a text nests: statements in statements, and operands of prefix   *)
(* operators, parentheses, subscripts and arguments in the operand around.   *)
(* The right side of an assignment, the arms of ?: and a label add nothing;  *)
(* a case outside the list of a switch is a statement around its value.      *)
Largest(numbers) == CHOOSE n \in numbers : \A m \in numbers : m <= n

RECURSIVE Nesting(_, _)
Nesting(t, min) ==
  LET places == {Shape(t)[i] : i \in DOMAIN Shape(t)}
      part == [i \in DOMAIN t.parts |->
                 Nesting(t.parts[i], (CHOOSE s \in places : s.part = i).min)]
      inner == Largest({0} \cup {part[i] : i \in DOMAIN part})
      plain ==
        CASE t.form \in {"bin", "comma", "assign", "cond", "post", "member", "local",
                         "default", "body", "globals", "unit"} -> inner
          [] t.form \in {"last", "more"} -> IF t.op = "set" THEN Largest({1, inner}) ELSE inner
          [] t.form = "index" -> Largest({part[1], 1 + part[2]})
          [] t.form = "for" -> 1 + Largest({inner, IF t.op = "all" THEN 1 ELSE 0})
          [] t.form = "case" -> Largest({2, inner})
          [] t.form = "then" ->
               Largest({part[2], IF t.op = "switch" THEN Nesting(Labelled(t.parts[1]), 0) ELSE part[1]})
          [] t.form \in {"none", "fixed"} -> 0
          [] OTHER -> 1 + inner
  IN  IF Level(t) < min THEN 1 + plain ELSE plain

(* Every bracket closed by its own kind. *)
Opening == ")" :> "(" @@ "]" :> "[" @@ "}" :> "{"
Balanced(words) ==
  LET step(stack, w) ==
        CASE w \in {"(", "[", "{"} -> Append(stack, w)
          [] w \in DOMAIN Opening ->
               IF stack /= <<>> /\ Last(stack) = Opening[w] THEN Front(stack) ELSE Append(stack, w)
          [] OTHER -> stack
  IN  FoldLeft(step, <<>>, words) = <<>>

(***************************************************************************)
(* The machine: a text is written, perhaps spoiled, and compiled.          *)
(***************************************************************************)
Blank == Tree("blank", "", <<>>)
NotRun == [Start(<<>>) EXCEPT !.ok = FALSE]
Done == result /= NotRun
Readable == tree /= Blank /\ ~Done

Init ==
  /\ plan = <<>> /\ holes = <<"program">> /\ left = Budget
  /\ tree = Blank /\ text = <<>> /\ damaged = FALSE
  /\ result = NotRun

Derive ==
  /\ holes /= <<>>
  /\ \E r \in Rules :
       /\ r.sort = Head(holes) /\ r.weight <= left
       /\ plan' = Append(plan, r)
       /\ holes' = r.parts \o Tail(holes)
       /\ left' = left - r.weight
  /\ UNCHANGED <<tree, text, damaged, result>>

Write ==
  /\ holes = <<>> /\ plan /= <<>>
  /\ tree' = Derived(plan)[1]
  /\ Unambiguous(tree')
  /\ text' = Written(tree', 0)
  /\ plan' = <<>>
  /\ UNCHANGED <<holes, left, damaged, result>>

Spoil ==
  /\ Readable /\ ~damaged
  /\ Len(text) <= DamageLength
  /\ damaged' = TRUE
  /\ UNCHANGED <<plan, holes, left, tree, result>>

DropToken == Spoil /\ \E i \in DOMAIN text : text' = RemoveAt(text, i)
DoubleToken == Spoil /\ \E i \in DOMAIN text : text' = InsertAt(text, i, text[i])

Compile ==
  /\ Readable
  /\ result' = ParseProgram(text)
  /\ UNCHANGED <<plan, holes, left, tree, text, damaged>>

(* The text is compiled, or C could not tell whose an else in it is. *)
Ended ==
  /\ \/ Done
     \/ holes = <<>> /\ plan /= <<>> /\ ~Unambiguous(Derived(plan)[1])
  /\ UNCHANGED vars

Next == Derive \/ Write \/ DropToken \/ DoubleToken \/ Compile \/ Ended

Spec == Init /\ [][Next]_vars

(***************************************************************************)
(* Properties.                                                             *)
(***************************************************************************)
(* main() goes on if there is a tree and no error was counted (main.c 204). *)
Accepted == Done /\ result.ok /\ result.errors = 0

AtFileScope(t) == \E s \in Within(t) : s.form = "globals"

(* The tree the parser hands on is the one C gives the text: precedence and  *)
(* associativity of all the operators, the if an else belongs to, what the   *)
(* prefix and postfix operators bind to, the order of declarations and the   *)
(* assignments that initialize them (parser.c 271-1674).  File-scope         *)
(* variables are for DeclaredTypes.  One thing is read otherwise, and        *)
(* nothing else: for parse_statement() a label is a whole statement          *)
(* (parser.c 1638-1665), so `if (x) case 7: y;` is an if around the label     *)
(* alone, and y; follows it; C's body is the label with y; behind it.        *)
LabelledBody(t) ==
  \E s \in Within(t) : s.form \in Bodied /\ \E i \in DOMAIN s.parts : s.parts[i].form \in Labels

ReadsAsC ==
  Accepted /\ ~damaged /\ ~AtFileScope(tree) =>
    (result.out = <<Node("program", "", Meant(tree))>>) = ~LabelledBody(tree)

(* A text is refused exactly if C's rules refuse it or it nests deeper than  *)
(* the limit (README.md 43: "capped at 256 levels, reported as a clean       *)
(* error"): the counter neither forgets a level nor keeps one that is over,  *)
(* so however long a shallow text is, it is accepted (parser.c 63-77, 745,   *)
(* 1607).  One error is reported, "not a cascade" (README.md 89).  The        *)
(* misread label may leave an else or the while of a do with nothing to      *)
(* belong to, and what it labels nests less than C has it.                   *)
LimitIsNesting ==
  Done /\ ~damaged =>
    /\ ~LabelledBody(tree) => Accepted = (Legal(tree) /\ Nesting(tree, 0) <= MaxNest)
    /\ ~Accepted => result.errors = 1

(* Whatever the text: a parse that succeeds has read every token, in         *)
(* balanced brackets; one that fails hands on nothing and has said so, and   *)
(* the nesting counter is back where it was on every way out.  A member of a  *)
(* struct that starts with no type is the one error nothing is said of: the  *)
(* NULL of parse_type_specifier() is handed up in silence (parser.c 197-202).*)
NoTypeInStruct ==
  /\ Cur(result) \notin TypeStart
  /\ \E i \in 3..(result.pos - 1) :
       /\ text[i - 2] = "struct" /\ text[i] = "{"
       /\ \A j \in i..(result.pos - 1) : text[j] /= "}"
FailsLoudly ==
  Done =>
    /\ result.depth = 0
    /\ IF result.ok THEN result.pos = Len(text) + 1 /\ Balanced(text)
       ELSE result.out = <<>> /\ (result.errors > 0 \/ NoTypeInStruct)

(* Every declarator at file scope has its own stars and dimensions, but for   *)
(* those behind a first one that is a pointer, each of which has another type *)
(* than C gives it: the code gives the stars of the first to all of them,     *)
(* against the comment at parser.c 1898 ("`int *a, b;` keeps meaning "pointer  *)
(* a, plain b"").                                                            *)
RECURSIVE FileScope(_)
FileScope(t) ==
  CASE t.form = "unit" -> FileScope(t.parts[1]) \o FileScope(t.parts[2])
    [] t.form = "globals" ->
         LET decls == SelectSeq(Meant(t), LAMBDA n : n.t = "var_decl")
             starred == Declarator[t.parts[1].op].before /= <<>>
         IN  [i \in DOMAIN decls |-> [decl |-> decls[i], own |-> i = 1 \/ ~starred]]
    [] OTHER -> <<>>

DeclaredTypes ==
  Done /\ ~damaged /\ result.ok =>
    LET got == SelectSeq(result.out[1].kids, LAMBDA n : n.t = "var_decl")
        meant == FileScope(tree)
    IN  /\ Len(got) = Len(meant)
        /\ \A i \in DOMAIN got : /\ got[i].v = meant[i].decl.v
                                 /\ meant[i].own = (got[i].kids[1] = meant[i].decl.kids[1])
=============================================================================
