-------------------------------- MODULE Lexer --------------------------------
(***************************************************************************)
(* From characters to tokens: src/lexer.c, and the value of a literal        *)
(* (parse_integer_literal() in src/util.c).                                 *)
(*                                                                         *)
(* A text of one of the Alphabets is a source file, a character an item; "NL" *)
(* is the end of a line, and behind the last item is the terminating NUL.    *)
(* Lines and columns are left out, and which word is a keyword.              *)
(***************************************************************************)
EXTENDS Text, SequencesExt

CONSTANTS
  Alphabets,   \* bound: subject -> its characters
  Code,        \* character -> its byte
  LLongMax     \* bound: the largest long long

ASSUME LexerAssumption ==
  /\ LLongMax \in Nat
  /\ Code \in [DOMAIN Code -> 0..255] /\ "end" \notin DOMAIN Code
  /\ \A a \in DOMAIN Alphabets : Alphabets[a] \subseteq DOMAIN Code

Places == 1..(Len(text) + 1)
At(i) == CASE i \in DOMAIN text -> text[i] [] i = Len(text) + 1 -> "end"

DigitOrder == <<"0", "1", "2", "3", "4", "5", "6", "7", "8", "9", "a", "b", "c", "d", "e", "f">>
DigitValue == [d \in Range(DigitOrder) |-> CHOOSE v \in 0..15 : DigitOrder[v + 1] = d]
DigitsOf(base) == {d \in DOMAIN DigitValue : DigitValue[d] < base}
ReadIn(base, digits) ==
  LET n[k \in 0..Len(digits)] == IF k = 0 THEN 0 ELSE n[k - 1] * base + DigitValue[digits[k]]
  IN  n[Len(digits)]

Letter == {"a", "b", "c", "d", "e", "f", "x", "u", "l", "n", "_"}
Alnum == Letter \cup DigitsOf(10)

(* The first place from i on that has none of these characters. *)
Past(i, chars) ==
  CHOOSE j \in i..(Len(text) + 1) : At(j) \notin chars /\ \A k \in i..(j - 1) : At(k) \in chars
LineEnd(i) == Past(i, DOMAIN Code \ {"NL"})

Token(kind, word, bytes) == [kind |-> kind, word |-> word, bytes |-> bytes]
Lexed(token, next, bad) == [token |-> token, next |-> next, bad |-> bad]
Spelled(i, next) == SubSeq(text, i, next - 1)

(***************************************************************************)
(* lexer.c.                                                                *)
(***************************************************************************)
SkipTrivia[i \in Places] ==
  LET closing == {j \in (i + 2)..Len(text) : At(j) = "*" /\ At(j + 1) = "/"}
      line == SkipTrivia[LineEnd(i)]
  IN  CASE At(i) \in {" ", "NL"} -> SkipTrivia[i + 1]
        [] At(i) = "/" /\ At(i + 1) = "/" -> line
        [] At(i) = "/" /\ At(i + 1) = "*" ->
             IF closing = {} THEN [next |-> Len(text) + 1, bad |-> TRUE]
             ELSE SkipTrivia[Min(closing) + 2]
        [] At(i) = "#" -> [line EXCEPT !.bad = TRUE]
        [] OTHER -> [next |-> i, bad |-> FALSE]

LexIdent(i) == LET next == Past(i, Alnum) IN Lexed(Token("ident", Spelled(i, next), <<>>), next, FALSE)

(* Mutant: a hexadecimal literal is never out of range. *)
ParseIntegerLiteral_HexInRange(digits) ==
  LET hex == Len(digits) > 2 /\ digits[2] = "x"
      base == CASE hex -> 16 [] digits[1] = "0" /\ ~hex -> 8 [] OTHER -> 10
      body == IF hex THEN SubSeq(digits, 3, Len(digits)) ELSE digits
      ok == Range(body) \subseteq DigitsOf(base)
  IN  IF ok /\ (hex \/ ReadIn(base, body) <= LLongMax)
      THEN [ok |-> TRUE, value |-> ReadIn(base, body)]
      ELSE [ok |-> FALSE, value |-> 0]

(* strtoll() with base 0: its digits have to be all there is, and in range. *)
ParseIntegerLiteral(digits) ==
  LET base == CASE Len(digits) > 2 /\ digits[2] = "x" -> 16
                [] digits[1] = "0" /\ ~(Len(digits) > 2 /\ digits[2] = "x") -> 8
                [] OTHER -> 10
      body == IF base = 16 THEN SubSeq(digits, 3, Len(digits)) ELSE digits
      ok == Range(body) \subseteq DigitsOf(base)
  IN  IF ok /\ ReadIn(base, body) <= LLongMax
      THEN [ok |-> TRUE, value |-> ReadIn(base, body)]
      ELSE [ok |-> FALSE, value |-> 0]

(* The suffix is dropped; the parser reports a literal without a value. *)
LexNumber(i) ==
  LET hex == At(i) = "0" /\ At(i + 1) = "x"
      end == IF hex THEN Past(i + 2, DigitsOf(16)) ELSE Past(i, DigitsOf(10))
      literal == ParseIntegerLiteral(Spelled(i, end))
      malformed == IF hex THEN end = i + 2
                   ELSE At(i) = "0" /\ ~(Range(Spelled(i, end)) \subseteq DigitsOf(8))
  IN  Lexed(Token("number", <<>>, <<literal.value>>), Past(end, {"u", "l"}),
            malformed \/ ~literal.ok)

Simple == {"n", "a", "b", "f", "\\", "'", "\""}
SimpleValue(c) == CASE c = "n" -> 10 [] c = "a" -> 7 [] c = "b" -> 8 [] c = "f" -> 12 [] OTHER -> Code[c]

(* The escape whose backslash is before i. *)
ReadEscape(i) ==
  LET c == At(i)
      hex == Past(i + 1, DigitsOf(16))
      octal == Min({Past(i, DigitsOf(8)), i + 3})
  IN  CASE c = "end" -> [value |-> 0, next |-> i, bad |-> FALSE]
        [] c \in Simple -> [value |-> SimpleValue(c), next |-> i + 1, bad |-> FALSE]
        [] c = "x" -> [value |-> ReadIn(16, Spelled(i + 1, hex)), next |-> hex, bad |-> hex = i + 1]
        [] c \in DigitsOf(8) -> [value |-> ReadIn(8, Spelled(i, octal)), next |-> octal, bad |-> FALSE]
        [] OTHER -> [value |-> Code[c], next |-> i + 1, bad |-> TRUE]

LexChar(i) ==
  LET body == CASE At(i + 1) \in {"end", "'"} -> [value |-> 0, next |-> i + 1, bad |-> TRUE]
                [] At(i + 1) = "\\" -> ReadEscape(i + 2)
                [] OTHER -> [value |-> Code[At(i + 1)], next |-> i + 2, bad |-> FALSE]
      closed == At(body.next) = "'"
  IN  Lexed(Token("char", <<>>, <<body.value>>),
            IF closed THEN body.next + 1 ELSE body.next, body.bad \/ ~closed)

(* What is left of a string literal. *)
StringFrom[i \in Places] ==
  LET escape == ReadEscape(i + 1)
      then(value, next, bad) ==
        LET rest == StringFrom[next]
        IN  [bytes |-> <<value>> \o rest.bytes, next |-> rest.next, bad |-> bad \/ rest.bad]
  IN  CASE At(i) \in {"end", "NL"} -> [bytes |-> <<>>, next |-> i, bad |-> TRUE]
        [] At(i) = "\"" -> [bytes |-> <<>>, next |-> i + 1, bad |-> FALSE]
        [] At(i) = "\\" -> then(escape.value % 256, escape.next, escape.bad)
        [] OTHER -> then(Code[At(i)], i + 1, FALSE)

LexString(i) ==
  LET string == StringFrom[i + 1]
  IN  Lexed(Token("string", <<>>, string.bytes), string.next, string.bad)

(* The operators that begin with a character, and what may be behind it. *)
Single == {"~", "(", ")", "{", "}", ",", ";", "?", ":", "[", "]", "."}
Doubled == {"+", "&", "|", "<", ">", "-"}
WithEqual == Doubled \cup {"*", "/", "%", "^", "=", "!"}
Second(c) ==
  {d \in {c, "=", ">"} :
     \/ d = c /\ c \in Doubled
     \/ d = "=" /\ c \in WithEqual
     \/ d = ">" /\ c = "-"}

(* Any other character is reported, and ends the file for the parser. *)
LexOperator(i) ==
  LET c == At(i)
      known == c \in Single \cup WithEqual
      shift == c \in {"<", ">"} /\ At(i + 1) = c
      next == CASE ~known -> Len(text) + 1
                [] known /\ At(i + 1) \notin Second(c) -> i + 1
                [] OTHER -> IF shift /\ At(i + 2) = "=" THEN i + 3 ELSE i + 2
  IN  Lexed(Token("operator", Spelled(i, next), <<>>), next, ~known)

(* lexer_next_token(), where no more trivia are. *)
NextToken(i) ==
  CASE At(i) \in Letter -> LexIdent(i)
    [] At(i) \in DigitsOf(10) -> LexNumber(i)
    [] At(i) = "'" -> LexChar(i)
    [] At(i) = "\"" -> LexString(i)
    [] OTHER -> LexOperator(i)

(* lexer_next_token(), called until the file ends. *)
LexFrom[i \in Places] ==
  LET start == SkipTrivia[i]
      lexed == NextToken(start.next)
      rest == LexFrom[lexed.next]
  IN  IF At(start.next) = "end" THEN [tokens |-> <<>>, bad |-> start.bad]
      ELSE [tokens |-> <<lexed.token>> \o rest.tokens,
            bad |-> start.bad \/ lexed.bad \/ rest.bad]

Lex == LexFrom[1]

(***************************************************************************)
(* C's lexical grammar: at every place the longest lexeme there is.         *)
(***************************************************************************)
Punctuators ==
  {<<"+">>, <<"-">>, <<"*">>, <<"/">>, <<"%">>, <<"&">>, <<"|">>, <<"^">>, <<"~">>, <<"!">>, <<"=">>,
   <<"<">>, <<">">>, <<"(">>, <<")">>, <<"{">>, <<"}">>, <<"[">>, <<"]">>, <<",">>, <<";">>, <<"?">>,
   <<":">>, <<".">>, <<"+", "+">>, <<"-", "-">>, <<"-", ">">>, <<"&", "&">>, <<"|", "|">>, <<"=", "=">>,
   <<"!", "=">>, <<"<", "=">>, <<">", "=">>, <<"<", "<">>, <<">", ">">>, <<"+", "=">>, <<"-", "=">>,
   <<"*", "=">>, <<"/", "=">>, <<"%", "=">>, <<"&", "=">>, <<"|", "=">>, <<"^", "=">>,
   <<"<", "<", "=">>, <<">", ">", "=">>}

(* The text from i to j. *)
Piece(i, j) == SubSeq(text, i, Min({j, Len(text)}))
(* The farthest of these ends, 0 if there is none. *)
Farthest(ends) == Max({0} \cup ends)

IsComment(w) ==
  LET closes == {k \in 3..(Len(w) - 1) : w[k] = "*" /\ w[k + 1] = "/"}
  IN  /\ Len(w) >= 2 /\ w[1] = "/"
      /\ \/ w[2] = "/" /\ "NL" \notin Range(w)
         \/ w[2] = "*" /\ closes = {Len(w) - 1}

(* A character or an escape in a literal, and the number it stands for. *)
IsUnit(u) ==
  \/ Len(u) = 1 /\ u[1] \notin {"\\", "NL"}
  \/ /\ Len(u) > 1 /\ u[1] = "\\"
     /\ \/ Len(u) = 2 /\ u[2] \in Simple
        \/ Len(u) <= 4 /\ Range(Tail(u)) \subseteq DigitsOf(8)
        \/ Len(u) > 2 /\ u[2] = "x" /\ Range(SubSeq(u, 3, Len(u))) \subseteq DigitsOf(16)
UnitValue(u) ==
  CASE Len(u) = 1 -> Code[u[1]]
    [] Len(u) > 1 /\ u[2] \in Simple -> SimpleValue(u[2])
    [] Len(u) > 1 /\ u[2] = "x" -> ReadIn(16, SubSeq(u, 3, Len(u)))
    [] OTHER -> ReadIn(8, Tail(u))

(* The end of the unit at i. *)
UnitEnd(i) == Farthest({j \in i..Len(text) : IsUnit(Piece(i, j))})

(* From i on, the values of the units up to the quote, and where that is; 0 if  *)
(* something comes before it that is no unit.                               *)
Units(quote) ==
  LET units[i \in Places] ==
        LET rest == units[UnitEnd(i) + 1]
        IN  CASE UnitEnd(i) = 0 -> [end |-> 0, values |-> <<>>]
              [] UnitEnd(i) > 0 /\ At(i) = quote -> [end |-> i, values |-> <<>>]
              [] OTHER -> [end |-> rest.end,
                           values |-> <<UnitValue(Piece(i, UnitEnd(i)))>> \o rest.values]
  IN  units

(* The literal at i: where it ends, and the values of its units. *)
Values(i) == Units(At(i))[i + 1].values
LiteralEnd(i) == IF At(i) = "'" /\ Len(Values(i)) /= 1 THEN 0 ELSE Units(At(i))[i + 1].end

NumberSuffixes == {<<>>, <<"u">>, <<"l">>, <<"l", "l">>, <<"u", "l">>, <<"l", "u">>,
             <<"u", "l", "l">>, <<"l", "l", "u">>}

(* The base and the digits of a number that a word begins with. *)
Constants(w) ==
  {[base |-> 16, digits |-> SubSeq(w, 3, k), rest |-> SubSeq(w, k + 1, Len(w))] :
     k \in {n \in 3..Len(w) : w[1] = "0" /\ w[2] = "x" /\ Range(SubSeq(w, 3, n)) \subseteq DigitsOf(16)}}
  \cup {[base |-> b, digits |-> SubSeq(w, 1, k), rest |-> SubSeq(w, k + 1, Len(w))] :
     k \in 1..Len(w), b \in {IF w[1] = "0" THEN 8 ELSE 10}}
LegalNumbers(w) ==
  {c \in Constants(w) : /\ Range(c.digits) \subseteq DigitsOf(c.base)
                        /\ ReadIn(c.base, c.digits) <= LLongMax
                        /\ c.rest \in NumberSuffixes}

(* What is at i: where it ends, 0 if C allows nothing there; and its token. *)
CLexeme(i) ==
  LET word == Piece(i, Farthest({j \in i..Len(text) : Range(Piece(i, j)) \subseteq Alnum}))
      numbers == LegalNumbers(word)
      comment == Farthest({j \in i..Len(text) : IsComment(Piece(i, j))})
      at(end, tokens) == [end |-> end, tokens |-> tokens]
  IN  CASE At(i) \in {" ", "NL"} -> at(i, <<>>)
        [] At(i) \in Letter -> at(i + Len(word) - 1, <<Token("ident", word, <<>>)>>)
        [] At(i) \in DigitsOf(10) ->
             IF numbers = {} THEN at(0, <<>>)
             ELSE LET c == CHOOSE n \in numbers : TRUE
                  IN  at(i + Len(word) - 1, <<Token("number", <<>>, <<ReadIn(c.base, c.digits)>>)>>)
        [] At(i) \in {"'", "\""} ->
             IF LiteralEnd(i) = 0 \/ \E v \in Range(Values(i)) : v > 255 THEN at(0, <<>>)
             ELSE at(LiteralEnd(i),
                     <<Token(IF At(i) = "'" THEN "char" ELSE "string", <<>>, Values(i))>>)
        [] OTHER ->
             IF comment > 0 THEN at(comment, <<>>)
             ELSE IF Piece(i, i + 1) = <<"/", "*">> THEN at(0, <<>>)
             ELSE LET end == Farthest({j \in i..Len(text) : Piece(i, j) \in Punctuators})
                  IN  at(end, IF end = 0 THEN <<>> ELSE <<Token("operator", Piece(i, end), <<>>)>>)

(* The tokens from i on, and the place of the first thing that is none. *)
CTokens[i \in Places] ==
  LET lexeme == CLexeme(i)
      rest == CTokens[lexeme.end + 1]
  IN  CASE i > Len(text) -> [tokens |-> <<>>, wrong |-> 0]
        [] i <= Len(text) /\ lexeme.end = 0 -> [tokens |-> <<>>, wrong |-> i]
        [] OTHER -> [tokens |-> lexeme.tokens \o rest.tokens, wrong |-> rest.wrong]

(***************************************************************************)
(* The texts.                                                              *)
(***************************************************************************)
LexInit == subject \in DOMAIN Alphabets /\ text = <<>>
LexNext == \E c \in Alphabets[subject] : text' = Append(text, c) /\ UNCHANGED subject
LexSpec == LexInit /\ [][LexNext]_tvars

(***************************************************************************)
(* Properties.                                                             *)
(***************************************************************************)
(* What C forbids and the lexer lets pass: letters that are no digits right    *)
(* behind a number in range (the suffixes in any number and order, the others *)
(* as a word of their own), where the x of 0x is no such letter; the end of a *)
(* line as a character, and an escape for more than a byte.                  *)
Tolerated(i) ==
  \/ /\ At(i) \in DigitsOf(10)
     /\ \E c \in Constants(Piece(i, Past(i, Alnum) - 1)) :
          /\ Range(c.digits) \subseteq DigitsOf(c.base) /\ ReadIn(c.base, c.digits) <= LLongMax
          /\ c.rest /= <<>> /\ Head(c.rest) \in Letter \ DigitsOf(c.base)
          /\ At(i) = "0" /\ At(i + 1) = "x" => c.base = 16
  \/ Piece(i, i + 2) = <<"'", "NL", "'">>
  \/ At(i) \in {"'", "\""} /\ LiteralEnd(i) > 0 /\ \E v \in Range(Values(i)) : v > 255

(* A text that C allows is cut into the tokens C gives it, with their values,  *)
(* and nothing is reported; in one that C forbids something is: a literal out  *)
(* of range, digits that are none, literals and comments without an end, also *)
(* at the end of the file, are neither taken as something else nor read past  *)
(* the end (lexer.c 79-631, util.c 137-142).  A byte of 128 and more in a     *)
(* character literal keeps its value, where char is signed.                   *)
LexesAsC ==
  subject \in DOMAIN Alphabets =>
    LET meant == CTokens[1]
    IN  IF meant.wrong = 0 THEN Lex = [tokens |-> meant.tokens, bad |-> FALSE]
        ELSE Lex.bad \/ Tolerated(meant.wrong)
==============================================================================
