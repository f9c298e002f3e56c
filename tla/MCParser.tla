------------------------------ MODULE MCParser ------------------------------
(* ParserText for TLC: the grammar of the explored programs.  The loose      *)
(* weights let three of the common forms meet, and every two of the others.  *)
EXTENDS ParserText

Rule(sort, form, op, parts, weight) ==
  [sort |-> sort, form |-> form, op |-> op, parts |-> parts, weight |-> weight]

Expressions ==
  {Rule("e", "var", "x", <<>>, 0), Rule("e", "num", "7", <<>>, 3),
   Rule("e", "num", "99", <<>>, 5), Rule("e", "string", "", <<>>, 4), Rule("e", "call0", "", <<>>, 3)}
  \cup {Rule("e", "bin", op, <<"e", "e">>, 2) : op \in {"+", "-", "||", "<"}}
  \cup {Rule("e", "bin", op, <<"e", "e">>, 3) : op \in {"&&", "|", "^", "&", "==", ">>", "/"}}
  \cup {Rule("e", "assign", op, <<"e", "e">>, 2) : op \in {"=", "-="}}
  \cup {Rule("e", "comma", "", <<"e", "e">>, 2), Rule("e", "cond", "", <<"e", "e", "e">>, 2)}
  \cup {Rule("e", "pre", op, <<"e">>, 2) : op \in {"*", "-"}}
  \cup {Rule("e", "pre", op, <<"e">>, 3) : op \in {"!", "~", "&", "++"}}
  \cup {Rule("e", "post", "++", <<"e">>, 2), Rule("e", "index", "", <<"e", "e">>, 2),
        Rule("e", "member", ".", <<"e">>, 3), Rule("e", "member", "->", <<"e">>, 3),
        Rule("e", "cast", "", <<"e">>, 3), Rule("e", "call", "", <<"e", "e">>, 3)}

Statements ==
  {Rule("s", "expr", "", <<"e">>, 0), Rule("s", "empty", "", <<>>, 3),
   Rule("s", "if", "", <<"e", "s">>, 2), Rule("s", "else", "", <<"e", "s", "s">>, 2),
   Rule("s", "while", "", <<"e", "s">>, 2), Rule("s", "do", "", <<"s", "e">>, 2),
   Rule("s", "block", "", <<"b">>, 2), Rule("s", "switch", "", <<"e", "w">>, 2),
   Rule("s", "return", "", <<"e">>, 3), Rule("s", "case", "", <<"s">>, 2), Rule("s", "default", "", <<"s">>, 2)}
  \cup {Rule("s", "for", op, <<"s">>, 2) : op \in {"all", "decl", "none"}}
  \cup {Rule("s", "jump", op, <<>>, 3) : op \in {"break", "continue"}}

Lists ==
  UNION {{Rule(sort, "none", "", <<>>, 0),
          Rule(sort, "then", "", <<"s", "more">>, IF sort = "more" THEN 1 ELSE 0),
          Rule(sort, "local", "", <<"d", "more">>, 1)} : sort \in {"b", "more"}}
  \cup {Rule("w", "none", "", <<>>, 0), Rule("w", "then", "switch", <<"s", "w">>, 1)}
  \cup {Rule("d", "last", op, <<>>, IF op = "plain" THEN 0 ELSE 1) : op \in DOMAIN Declarator}
  \cup {Rule("d", "more", op, <<"d">>, 2) : op \in DOMAIN Declarator}

Tops ==
  {Rule("t", "body", "", <<"b">>, 0), Rule("t", "globals", "", <<"d">>, 1)}
  \cup {Rule("t", "fixed", op, <<>>, 1) : op \in DOMAIN Fixed}
  \cup {Rule("program", "unit", "", <<"t", "rest">>, 0), Rule("rest", "unit", "", <<"t", "rest">>, 2),
        Rule("rest", "none", "", <<>>, 0)}

Grammar == Expressions \cup Statements \cup Lists \cup Tops

Number == "2" :> 2 @@ "3" :> 3 @@ "7" :> 7 @@ "99" :> 99
=============================================================================
