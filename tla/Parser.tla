------------------------------- MODULE Parser -------------------------------
(***************************************************************************)
(* src/parser.c: recursive descent from tokens to the tree.                 *)
(*                                                                         *)
(* Every parse function is an operator on a cursor: the token it stands at, *)
(* the static nesting counter, the errors reported so far, and the nodes    *)
(* the last call returned (out).  A NULL is ok = FALSE; every caller hands  *)
(* it up at once, so a cursor that is not ok passes through every operator  *)
(* as it is, except that the counter is counted down on the way out.        *)
(*                                                                         *)
(* Tokens are words.  Source positions, and the wording of errors, are left *)
(* out.  A struct tag is known by whether it has members; what its members  *)
(* take up is in StructLayout.                                              *)
(***************************************************************************)
EXTENDS Integers, Sequences, TLC

CONSTANTS
  Idents,    \* the identifiers of the explored texts
  Value,     \* the value of each number token
  LLong,     \* bound: integers from LLong on are outside long long (2^63)
  IntHalf,   \* bound: an int holds -IntHalf .. IntHalf - 1 (2^31)
  MaxNest,   \* MYCC_MAX_NEST (256)
  MaxDims    \* MAX_DIMS (8)

ASSUME ParserAssumption ==
  /\ \A n \in DOMAIN Value : Value[n] \in Nat
  /\ {LLong, IntHalf, MaxNest, MaxDims} \subseteq Nat \ {0}

(***************************************************************************)
(* Nodes.  ASTNode and Type alike: a kind, a name or an operator, children. *)
(***************************************************************************)
Node(t, v, kids) == [t |-> t, v |-> v, kids |-> kids]
IntLit(n) == Node("int_lit", ToString(n), <<>>)
Absent == Node("absent", "", <<>>)
Lvalue(node) == node.t \in {"var_ref", "deref", "member"}

Ptr(type) == Node("ptr", "", <<type>>)
Array(type, n) == Node("array", ToString(n), <<type>>)

(***************************************************************************)
(* The cursor.                                                             *)
(***************************************************************************)
Start(text) == [text |-> text, pos |-> 1, depth |-> 0, said |-> FALSE,
                errors |-> 0, ok |-> TRUE, out |-> <<>>, tags |-> {}]

Cur(c) == IF c.pos \in DOMAIN c.text THEN c.text[c.pos] ELSE "eof"
Sees(c, tokens) == c.ok /\ Cur(c) \in tokens

Advance(c) == IF c.ok THEN [c EXCEPT !.pos = @ + 1] ELSE c
Report(c) == IF c.ok THEN [c EXCEPT !.errors = @ + 1] ELSE c
GiveUp(c) == [c EXCEPT !.ok = FALSE, !.out = <<>>]
Fail(c) == GiveUp(Report(c))
Yield(c, nodes) == IF c.ok THEN [c EXCEPT !.out = nodes] ELSE c
Build(c, t, v, kids) == Yield(c, <<Node(t, v, kids)>>)

(* Mutant: the token is taken if it is there, and nothing is said if not. *)
Expect_Lenient(c, token) == IF Sees(c, {token}) THEN Advance(c) ELSE c
(* parser_expect() *)
Expect(c, token) == IF Sees(c, {token}) THEN Advance(c) ELSE Fail(c)

(* parse_depth_enter(), which speaks once a compilation, and the decrement   *)
(* after the call it guards.                                                *)
TooDeep(c) == c.depth >= MaxNest
Refuse(c) == [GiveUp(IF c.said THEN c ELSE Report(c)) EXCEPT !.said = TRUE]
Enter(c) == [c EXCEPT !.depth = @ + 1]
Leave(c) == [c EXCEPT !.depth = @ - 1]

(***************************************************************************)
(* Types.                                                                  *)
(***************************************************************************)
TypeStart == {"int", "char", "signed", "unsigned", "void", "struct"}

Complete(c, type) ==
  /\ type.t /= "void"
  /\ type.t = "struct" => type.v \in c.tags

RECURSIVE ParseStars(_)
ParseStars(c) ==
  IF Sees(c, {"*"}) THEN ParseStars(Yield(Advance(c), <<Ptr(c.out[1])>>)) ELSE c

(* signed and unsigned, bare or before int or char. *)
SignedType(c) ==
  LET word == Cur(Advance(c))
      base == IF word = "char" THEN "char" ELSE "int"
      type == IF Cur(c) = "unsigned" THEN "u" \o base ELSE base
  IN  Build(IF word \in {"int", "char"} THEN Advance(Advance(c)) ELSE Advance(c), type, "", <<>>)

RECURSIVE ParseTypeSpecifier(_), StructMembers(_, _)

(* A word that starts no type ends the parse here without a report. *)
ParseTypeSpecifier(c) ==
  CASE ~c.ok -> c
    [] Sees(c, {"signed", "unsigned"}) -> SignedType(c)
    [] Sees(c, {"int", "char", "void"}) -> Build(Advance(c), Cur(c), "", <<>>)
    [] Sees(c, {"struct"}) ->
         LET tag == Cur(Advance(c))
             named == Advance(Advance(c))
             opened == Advance(IF tag \in c.tags
                               THEN [Report(named) EXCEPT !.tags = @ \ {tag}] ELSE named)
         IN  CASE tag \notin Idents -> Fail(Advance(c))
               [] tag \in Idents /\ Sees(named, {"{"}) ->
                    Build(Expect(StructMembers(opened, tag), "}"), "struct", tag, <<>>)
               [] OTHER -> Build(named, "struct", tag, <<>>)
    [] OTHER -> GiveUp(c)

StructMembers(c, tag) ==
  IF ~c.ok \/ Sees(c, {"}", "eof"}) THEN c
  ELSE LET typed == ParseStars(ParseTypeSpecifier(c))
           whole == typed.ok /\ typed.out /= <<Node("struct", tag, <<>>)>>
                             /\ Complete(typed, typed.out[1])
           added == [(IF whole THEN typed ELSE Report(typed)) EXCEPT !.tags = @ \cup {tag}]
       IN  IF ~typed.ok THEN typed
           ELSE IF Cur(typed) \notin Idents THEN Fail(typed)
           ELSE StructMembers(Expect(Advance(added), ";"), tag)

(* An int keeps the low bits of the size. *)
ToInt(n) == ((n + IntHalf) % (2 * IntHalf)) - IntHalf

(* Mutant: the dimensions are applied in the order they are read. *)
RECURSIVE Nested_InOrder(_, _)
Nested_InOrder(base, dims) ==
  IF dims = <<>> THEN base ELSE Nested_InOrder(Array(base, Head(dims)), Tail(dims))
(* int a[2][3] is an array of 2 arrays of 3: the last dimension goes on first. *)
RECURSIVE Nested(_, _)
Nested(base, dims) ==
  IF dims = <<>> THEN base ELSE Array(Nested(base, Tail(dims)), Head(dims))

RECURSIVE Dimensions(_, _)
Dimensions(c, dims) ==
  IF ~Sees(c, {"["}) THEN Yield(c, <<Nested(c.out[1], dims)>>)
  ELSE LET size == Advance(c)
       IN  IF Cur(size) \notin DOMAIN Value \/ Len(dims) = MaxDims THEN Fail(size)
           ELSE Dimensions(Expect(Advance(size), "]"), Append(dims, ToInt(Value[Cur(size)])))
ParseArrayDimensions(c) == Dimensions(c, <<>>)

(* The parse functions call one another in a circle, which is closed by     *)
(* Parse(f, c): the function named f on the cursor c.                       *)
RECURSIVE Parse(_, _)
Expression(c) == Parse("expression", c)
Assignment(c) == Parse("assignment", c)
Unary(c) == Parse("unary", c)
Statement(c) == Parse("statement", c)

(***************************************************************************)
(* Expressions.                                                            *)
(***************************************************************************)
RECURSIVE CommaTail(_)
CommaTail(l) ==
  IF ~Sees(l, {","}) THEN l
  ELSE LET r == Assignment(Advance(l))
       IN  CommaTail(Build(r, "bin", ",", l.out \o r.out))
ParseExpression(c) == CommaTail(Assignment(c))

(* The binary operators, one function each, from the loosest to the tightest. *)
Logical == <<{"||"}, {"&&"}>>
BitOps == <<{"|"}, {"^"}, {"&"}>>
Comparisons == <<{"==", "!="}, {"<", ">", "<=", ">="}>>
Arithmetic == <<{"<<", ">>"}, {"+", "-"}, {"*", "/", "%"}>>
Levels == Logical \o BitOps \o Comparisons \o Arithmetic

RECURSIVE ParseBinary(_, _), BinaryTail(_, _)
ParseBinary(c, level) ==
  IF level > Len(Levels) THEN Unary(c)
  ELSE BinaryTail(ParseBinary(c, level + 1), level)
(* Mutant: the right operand takes the operators of its own level too. *)
BinaryTail_RightFirst(l, level) ==
  IF ~Sees(l, Levels[level]) THEN l
  ELSE LET r == ParseBinary(Advance(l), level)
       IN  BinaryTail(Build(r, "bin", Cur(l), l.out \o r.out), level)
BinaryTail(l, level) ==
  IF ~Sees(l, Levels[level]) THEN l
  ELSE LET r == ParseBinary(Advance(l), level + 1)
       IN  BinaryTail(Build(r, "bin", Cur(l), l.out \o r.out), level)

ParseTernary(c) ==
  LET cond == ParseBinary(c, 1)
      then == Expression(Advance(cond))
      else == Assignment(Expect(then, ":"))
  IN  IF Sees(cond, {"?"}) THEN Build(else, "ternary", "", cond.out \o then.out \o else.out)
      ELSE cond

CompoundOp == "+=" :> "+" @@ "-=" :> "-" @@ "*=" :> "*" @@ "/=" :> "/" @@ "%=" :> "%"
   @@ "&=" :> "&" @@ "|=" :> "|" @@ "^=" :> "^" @@ "<<=" :> "<<" @@ ">>=" :> ">>"

AssignOps == {"="} \cup DOMAIN CompoundOp

(* target op= value: the node of the target hangs in the tree twice ("shared"). *)
Compound(target, op, value) == Node("assign", "shared", target \o <<Node("bin", op, target \o value)>>)

ParseAssignment(c) ==
  LET l == ParseTernary(c)
      r == Assignment(Advance(l))
  IN  CASE ~Sees(l, AssignOps) -> l
        [] Sees(l, AssignOps) /\ ~Lvalue(l.out[1]) -> Fail(l)
        [] Sees(l, {"="}) /\ Lvalue(l.out[1]) -> Build(r, "assign", "", l.out \o r.out)
        [] OTHER -> Yield(r, <<Compound(l.out, CompoundOp[Cur(l)], r.out)>>)

(* What a prefix operator is turned into; operand is a sequence of one node. *)
Prefixed(op, operand) ==
  CASE op = "-" -> Node("bin", "-", <<IntLit(0)>> \o operand)
    [] op = "+" -> operand[1]
    [] op = "!" -> Node("bin", "==", operand \o <<IntLit(0)>>)
    [] op = "~" -> Node("bin", "^", operand \o <<IntLit(-1)>>)
    [] op = "&" -> Node("addr_of", "", operand)
    [] op = "*" -> Node("deref", "", operand)
    [] OTHER -> Compound(operand, IF op = "++" THEN "+" ELSE "-", <<IntLit(1)>>)
PrefixOps == {"-", "+", "!", "~", "&", "*", "++", "--"}

RECURSIVE PostfixTail(_), Arguments(_, _)

Arguments(c, args) ==
  LET arg == Assignment(c)
      all == args \o arg.out
  IN  IF Sees(arg, {","}) THEN Arguments(Advance(arg), all) ELSE Yield(arg, all)

ParseCall(c) ==
  LET first == Advance(Advance(c))
      args == IF Sees(first, {")"}) THEN Yield(first, <<>>) ELSE Arguments(first, <<>>)
  IN  Build(Expect(args, ")"), "call", Cur(c), args.out)

ParseCast(c) ==
  LET type == ParseStars(ParseTypeSpecifier(Advance(c)))
      closed == Expect(type, ")")
      operand == Unary(closed)
  IN  IF closed.ok /\ type.out[1].t = "struct" THEN Fail(closed)
      ELSE Build(operand, "cast", "", type.out \o operand.out)

(* a[i] becomes *(a + i), p->m becomes ( *p).m *)
Indexed(array, index) == Node("deref", "", <<Node("bin", "+", array \o index)>>)
Member(object, name) == Node("member", name, object)

PostfixTail(c) ==
  LET index == Expression(Advance(c))
      name == Cur(Advance(c))
  IN  CASE Sees(c, {"++", "--"}) ->
             IF Lvalue(c.out[1]) THEN PostfixTail(Build(Advance(c), "postfix", Cur(c), c.out))
             ELSE Fail(c)
        [] Sees(c, {"["}) -> PostfixTail(Yield(Expect(index, "]"), <<Indexed(c.out, index.out)>>))
        [] Sees(c, {".", "->"}) ->
             IF name \notin Idents THEN Fail(Advance(c))
             ELSE PostfixTail(Yield(Advance(Advance(c)),
                    <<Member(IF Cur(c) = "." THEN c.out ELSE <<Prefixed("*", c.out)>>, name)>>))
        [] OTHER -> c

ParsePrimary(c) ==
  PostfixTail(
    CASE Cur(c) \in DOMAIN Value ->
           IF Value[Cur(c)] >= LLong THEN Fail(c) ELSE Yield(Advance(c), <<IntLit(Value[Cur(c)])>>)
      [] Sees(c, {"string"}) -> Build(Advance(c), "string", "", <<>>)
      [] Cur(c) \in Idents ->
           IF Sees(Advance(c), {"("}) THEN ParseCall(c) ELSE Build(Advance(c), "var_ref", Cur(c), <<>>)
      [] Sees(c, {"("}) ->
           IF Sees(Advance(c), TypeStart) THEN ParseCast(c) ELSE Expect(Expression(Advance(c)), ")")
      [] OTHER -> Fail(c))

ParseUnaryInner(c) ==
  LET operand == Unary(Advance(c))
  IN  CASE ~Sees(c, PrefixOps) -> ParsePrimary(c)
        [] Sees(c, {"++", "--"}) /\ operand.ok /\ ~Lvalue(operand.out[1]) -> Fail(operand)
        [] OTHER -> Yield(operand, <<Prefixed(Cur(c), operand.out)>>)

(* Mutant: only statements are counted. *)
ParseUnary_Unguarded(c) == IF ~c.ok THEN c ELSE ParseUnaryInner(c)
ParseUnary(c) ==
  CASE ~c.ok -> c
    [] c.ok /\ TooDeep(c) -> Refuse(c)
    [] OTHER -> Leave(ParseUnaryInner(Enter(c)))

(***************************************************************************)
(* Declarations.                                                           *)
(***************************************************************************)
(* One declarator after its name: [dims] and an initializer.  Only a type    *)
(* that has none of the kinds in closed takes one.                          *)
Initialized(c, closed) ==
  IF ~Sees(c, {"="}) THEN Yield(c, <<>>)
  ELSE IF c.out[1].t \in closed THEN Fail(Advance(c)) ELSE Assignment(Advance(c))

(* parse_var_decl(): every declarator starts again from the base type; an    *)
(* initializer becomes an assignment that follows the declaration.           *)
RECURSIVE Declarators(_, _, _)
Declarators(c, base, chain) ==
  LET starred == ParseStars(Yield(c, base))
      name == Cur(starred)
      type == ParseArrayDimensions(Advance(starred))
      init == Initialized(type, {"array"})
      stores == IF init.out = <<>> THEN <<>>
                ELSE <<Node("assign", "", <<Node("var_ref", name, <<>>)>> \o init.out)>>
      all == chain \o <<Node("var_decl", name, type.out)>> \o stores
  IN  CASE ~c.ok -> c
        [] c.ok /\ name \notin Idents -> Fail(starred)
        [] c.ok /\ name \in Idents /\ Sees(init, {","}) -> Declarators(Advance(init), base, all)
        [] OTHER -> Expect(Yield(init, all), ";")
ParseVarDecl(c) == Declarators(c, c.out, <<>>)

(***************************************************************************)
(* Statements.                                                             *)
(***************************************************************************)
RECURSIVE BlockItems(_, _), SwitchItems(_, _)

Item(c) == IF Sees(c, TypeStart) THEN ParseVarDecl(ParseTypeSpecifier(c)) ELSE Statement(c)

BlockItems(c, items) ==
  IF ~c.ok \/ Sees(c, {"}", "eof"}) THEN Yield(c, items)
  ELSE LET item == Item(c) IN BlockItems(item, items \o item.out)

ParseBlock(c) ==
  LET items == BlockItems(Expect(c, "{"), <<>>)
  IN  Build(Expect(items, "}"), "block", "", items.out)

(* ( expression ), after a keyword. *)
Parenthesized(c) == Expect(Expression(Expect(Advance(c), "(")), ")")

ParseIf(c) ==
  LET cond == Parenthesized(c)
      body == Statement(cond)
      else == Statement(Advance(body))
  IN  IF Sees(body, {"else"}) THEN Build(else, "if", "", cond.out \o body.out \o else.out)
      ELSE Build(body, "if", "", cond.out \o body.out)

ParseWhile(c) ==
  LET cond == Parenthesized(c)
      body == Statement(cond)
  IN  Build(body, "while", "", cond.out \o body.out)

ParseDoWhile(c) ==
  LET body == Statement(Advance(c))
      cond == IF Sees(body, {"while"}) THEN Parenthesized(body) ELSE Fail(body)
  IN  Build(Expect(cond, ";"), "do", "", body.out \o cond.out)

ParseExprStmt(c) == Expect(Expression(c), ";")

(* An expression up to the token end, or nothing where it stands already. *)
OptionalUpTo(c, end) ==
  LET given == IF Sees(c, {end}) THEN Yield(c, <<Absent>>) ELSE Expression(c)
  IN  Expect(given, end)

ParseFor(c) ==
  LET open == Expect(Advance(c), "(")
      init == CASE Sees(open, {";"}) -> Yield(Advance(open), <<Absent>>)
                [] Sees(open, TypeStart) -> ParseVarDecl(ParseTypeSpecifier(open))
                [] OTHER -> ParseExprStmt(open)
      cond == OptionalUpTo(init, ";")
      step == OptionalUpTo(cond, ")")
      body == Statement(step)
  IN  Build(body, "for", "", <<Node("init", "", init.out)>> \o cond.out \o step.out \o body.out)

ParseCase(c) ==
  LET value == Expression(Advance(c))
  IN  Build(Expect(value, ":"), "case", "", value.out)
ParseDefault(c) == Build(Expect(Advance(c), ":"), "default", "", <<>>)

SwitchItems(c, items) ==
  IF ~c.ok \/ Sees(c, {"}", "eof"}) THEN Yield(c, items)
  ELSE LET item == CASE Sees(c, {"case"}) -> ParseCase(c)
                     [] Sees(c, {"default"}) -> ParseDefault(c)
                     [] OTHER -> Item(c)
       IN  SwitchItems(item, items \o item.out)

ParseSwitch(c) ==
  LET cond == Parenthesized(c)
      items == SwitchItems(Expect(cond, "{"), <<>>)
  IN  Build(Expect(items, "}"), "switch", "", cond.out \o items.out)

ParseJump(c) == Build(Expect(Advance(c), ";"), Cur(c), "", <<>>)

ParseReturn(c) ==
  LET value == OptionalUpTo(Advance(c), ";") IN Build(value, "return", "", value.out)

ParseStatementInner(c) ==
  CASE Sees(c, {"{"}) -> ParseBlock(c)
    [] Sees(c, {"if"}) -> ParseIf(c)
    [] Sees(c, {"while"}) -> ParseWhile(c)
    [] Sees(c, {"do"}) -> ParseDoWhile(c)
    [] Sees(c, {"for"}) -> ParseFor(c)
    [] Sees(c, {"switch"}) -> ParseSwitch(c)
    [] Sees(c, {"break", "continue"}) -> ParseJump(c)
    [] Sees(c, {"case"}) -> ParseCase(c)
    [] Sees(c, {"default"}) -> ParseDefault(c)
    [] Sees(c, {"return"}) -> ParseReturn(c)
    [] Sees(c, {";"}) -> Build(Advance(c), "block", "", <<>>)
    [] OTHER -> ParseExprStmt(c)

ParseStatement(c) ==
  CASE ~c.ok -> c
    [] c.ok /\ TooDeep(c) -> Refuse(c)
    [] OTHER -> Leave(ParseStatementInner(Enter(c)))

(***************************************************************************)
(* The top level.                                                          *)
(***************************************************************************)
RECURSIVE Parameters(_, _)
Parameters(c, params) ==
  LET type == ParseStars(ParseTypeSpecifier(c))
      typed == IF type.ok /\ ~Complete(type, type.out[1]) THEN Report(type) ELSE type
      all == Append(params, Node("param", Cur(typed), typed.out))
  IN  CASE ~Sees(c, TypeStart) -> Fail(c)
        [] Sees(c, TypeStart) /\ Cur(typed) \notin Idents -> Fail(typed)
        [] Sees(c, TypeStart) /\ Sees(Advance(typed), {","}) -> Parameters(Advance(Advance(typed)), all)
        [] OTHER -> Yield(Advance(typed), all)

ParseParamList(c) ==
  Expect(CASE Sees(c, {")"}) -> Yield(c, <<>>)
           [] Sees(c, {"void"}) -> Yield(Advance(c), <<>>)
           [] OTHER -> Parameters(c, <<>>), ")")

(* The node of a function: its type, its parameters, and a body unless it is *)
(* a prototype.                                                             *)
ParseFunctionAfterName(c, name, ret) ==
  LET params == ParseParamList(Expect(c, "("))
      head == ret \o <<Node("params", "", params.out)>>
      body == ParseBlock(params)
  IN  IF Sees(params, {";"}) THEN Build(Advance(params), "function", name, head)
      ELSE Build(body, "function", name, head \o body.out)

(* parse_global_vars(): the first declarator has the type with the stars that *)
(* parse_program() read, and so has every later one.                         *)
RECURSIVE Globals(_, _, _, _)
Globals(c, name, base, chain) ==
  LET type == ParseArrayDimensions(c)
      init == Initialized(type, {"array", "struct"})
      all == Append(chain, Node("var_decl", name, type.out \o init.out))
      next == ParseStars(Yield(Advance(init), base))
  IN  CASE ~Sees(init, {","}) -> Expect(Yield(init, all), ";")
        [] Sees(init, {","}) /\ Cur(next) \notin Idents -> Fail(next)
        [] OTHER -> Globals(Advance(next), Cur(next), base, all)
ParseGlobalVars(c, name) == Globals(c, name, c.out, <<>>)

TopLevel(c) ==
  LET typed == ParseTypeSpecifier(c)
      starred == ParseStars(typed)
      name == Cur(starred)
      after == Advance(starred)
      kind == starred.out[1].t
  IN  CASE ~Sees(c, TypeStart) -> Fail(c)
        [] Sees(c, TypeStart) /\ ~typed.ok -> typed
        [] Sees(typed, {";"}) -> Yield(Advance(typed), <<>>)
        [] typed.ok /\ ~Sees(typed, {";"}) /\ name \notin Idents -> Fail(starred)
        [] typed.ok /\ name \in Idents /\ Sees(after, {"("}) ->
             ParseFunctionAfterName(IF kind \in {"char", "uchar", "struct"} THEN Report(after)
                                    ELSE after, name, starred.out)
        [] OTHER -> IF kind = "void" THEN Fail(after) ELSE ParseGlobalVars(after, name)

(* extern marks a function, with or without a body, and no variable. *)
Marked(decls, extern) ==
  [i \in DOMAIN decls |-> IF extern /\ decls[i].t = "function"
                          THEN [decls[i] EXCEPT !.t = "extern function"] ELSE decls[i]]

RECURSIVE Declarations(_, _)
Declarations(c, decls) ==
  LET extern == Sees(c, {"extern"})
      decl == Parse("top level", IF extern THEN Advance(c) ELSE c)
  IN  IF ~c.ok \/ Sees(c, {"eof"}) THEN Build(c, "program", "", decls)
      ELSE Declarations(decl, decls \o Marked(decl.out, extern))

Parse(function, c) ==
  CASE function = "expression" -> ParseExpression(c)
    [] function = "assignment" -> ParseAssignment(c)
    [] function = "unary" -> ParseUnary(c)
    [] function = "statement" -> ParseStatement(c)
    [] function = "top level" -> TopLevel(c)
    [] function = "program" -> Declarations(c, <<>>)

ParseProgram(text) == Parse("program", Start(text))
=============================================================================
