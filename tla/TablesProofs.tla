----------------------------- MODULE TablesProofs -----------------------------
(* What the tables of names say: the flat one of the toy language's parser,     *)
(* the one of the functions of a file, and that of its structs.              *)
EXTENDS MycVars, Linkage, StructLayout, SequenceTheorems, FiniteSetTheorems, WellFoundedInduction, TLAPS

(* The innermost scope with a name, and the newest struct with a tag, are ones *)
(* that have it.                                                            *)
LEMMA MaxIsIn ==
  ASSUME NEW n \in Nat, NEW S \in SUBSET (0..n), S /= {}
  PROVE  Max(S) \in S /\ \A x \in S : Max(S) >= x
<1> DEFINE T == {n - x : x \in S}
<1>1. T \subseteq Nat /\ T /= {}
  <2>1. \A x \in S : x \in Int /\ n - x \in Nat
    OBVIOUS
  <2> QED
    BY <2>1, Zenon
<1>2. PICK y \in T : \A z \in T : ~(<<z, y>> \in OpToRel(<, Nat))
  BY <1>1, WFMin, NatLessThanWellFounded, Zenon
<1>3. \A z \in T : ~(z < y)
  BY <1>1, <1>2 DEF OpToRel
<1>4. PICK x \in S : y = n - x
  OBVIOUS
<1>5. \A z \in S : x >= z
  BY <1>3, <1>4
<1> QED
  BY <1>5 DEF Max

(***************************************************************************)
(* say prints a name as what it is.                                        *)
(***************************************************************************)
Tables == UNION {[D -> BOOLEAN] : D \in SUBSET Names}

(* The tables are tables. *)
MycTyped ==
  /\ vars \in Tables /\ scopes \in Seq(Tables)
  /\ kinds \subseteq Names \X BOOLEAN

(* The entries of both are declarations of the function, and a name that an    *)
(* open scope has as a string has an entry in the parser's table.            *)
TablesAgree ==
  /\ \A n \in DOMAIN vars : <<n, vars[n]>> \in kinds
  /\ \A i \in DOMAIN scopes : \A n \in DOMAIN scopes[i] :
       <<n, scopes[i][n]>> \in kinds /\ (scopes[i][n] => n \in DOMAIN vars)
  /\ \A n \in Names : ~({<<n, TRUE>>, <<n, FALSE>>} \subseteq kinds)
  /\ ~unlike

MycInv ==
  /\ MycTyped
  /\ ~mixed /\ ~misscoped /\ ~full => TablesAgree

LEMMA TablesAre ==
  /\ \A t \in Tables : DOMAIN t \in SUBSET Names /\ \A n \in DOMAIN t : t[n] \in BOOLEAN
  /\ \A D \in SUBSET Names : \A t \in [D -> BOOLEAN] : t \in Tables
  /\ <<>> \in Tables /\ DOMAIN <<>> = {}
<1>1. \A t \in Tables : DOMAIN t \in SUBSET Names /\ \A n \in DOMAIN t : t[n] \in BOOLEAN
  <2> SUFFICES ASSUME NEW t \in Tables
               PROVE  DOMAIN t \in SUBSET Names /\ \A n \in DOMAIN t : t[n] \in BOOLEAN
    OBVIOUS
  <2>1. PICK D \in SUBSET Names : t \in [D -> BOOLEAN]
    BY DEF Tables
  <2> QED
    BY <2>1
<1>2. \A D \in SUBSET Names : \A t \in [D -> BOOLEAN] : t \in Tables
  BY DEF Tables
<1>3. <<>> \in [{} -> BOOLEAN] /\ DOMAIN <<>> = {}
  OBVIOUS
<1> QED
  BY <1>1, <1>2, <1>3

LEMMA BindIs ==
  ASSUME NEW t \in Tables, NEW name \in Names, NEW string \in BOOLEAN
  PROVE  /\ Bind(t, name, string) \in Tables
         /\ DOMAIN Bind(t, name, string) = DOMAIN t \cup {name}
         /\ Bind(t, name, string)[name] = string
         /\ \A n \in DOMAIN t : n /= name => Bind(t, name, string)[n] = t[n]
<1> DEFINE b == Bind(t, name, string)
           D == DOMAIN t \cup {name}
<1>1. D \in SUBSET Names /\ \A n \in DOMAIN t : t[n] \in BOOLEAN
  BY TablesAre
<1>2. b = [n \in D |-> IF n = name THEN string ELSE t[n]]
  BY DEF Bind
<1>3. \A n \in D : (IF n = name THEN string ELSE t[n]) \in BOOLEAN
  BY <1>1
<1> HIDE DEF b, D
<1>4. b \in [D -> BOOLEAN]
  BY <1>2, <1>3
<1> QED
  BY <1>1, <1>2, <1>4, TablesAre DEF b, D

(* A step that only opens and closes blocks: the scopes that are open were     *)
(* open before, or are empty.                                                *)
LEMMA BlockKeeps ==
  ASSUME MycInv, NEW around,
         NEW open \in Seq(Tables), Block(open, around),
         \A i \in DOMAIN open : open[i] = <<>> \/ (i \in DOMAIN scopes /\ open[i] = scopes[i])
  PROVE  MycInv'
<1>1. /\ scopes' = open /\ vars' = vars /\ misscoped' = misscoped
      /\ unlike' = unlike /\ full' = full /\ kinds' = kinds /\ mixed' = mixed
  BY DEF Block
<1>2. MycTyped'
  BY <1>1 DEF MycInv, MycTyped
<1>3. ASSUME TablesAgree PROVE TablesAgree'
  <2>1. \A i \in DOMAIN open : \A n \in DOMAIN open[i] :
          <<n, open[i][n]>> \in kinds /\ (open[i][n] => n \in DOMAIN vars)
    <3> SUFFICES ASSUME NEW i \in DOMAIN open, NEW n \in DOMAIN open[i]
                 PROVE  <<n, open[i][n]>> \in kinds /\ (open[i][n] => n \in DOMAIN vars)
      OBVIOUS
    <3>1. open[i] /= <<>>
      BY TablesAre
    <3> QED
      BY <1>3, <3>1 DEF TablesAgree
  <2> QED
    BY <1>1, <1>3, <2>1 DEF TablesAgree
<1> QED
  BY <1>1, <1>2, <1>3 DEF MycInv

LEMMA FnKeeps == ASSUME MycInv, ParseFn PROVE MycInv'
<1>1. PICK params \in SUBSET Names :
        /\ vars' = <<>> /\ scopes' = <<[p \in params |-> FALSE], <<>>>>
        /\ kinds' = params \X {FALSE}
  BY DEF ParseFn, VarsReset, Declares
<1>2. misscoped' = misscoped /\ unlike' = unlike /\ full' = full /\ (mixed => mixed')
  BY DEF ParseFn, Declares
<1> DEFINE ints == [p \in params |-> FALSE]
<1>3. ints \in Tables /\ DOMAIN ints = params /\ \A p \in params : ints[p] = FALSE
  <2>1. ints \in [params -> BOOLEAN]
    OBVIOUS
  <2> QED
    BY <2>1, TablesAre
<1> HIDE DEF ints
<1>4. /\ DOMAIN scopes' = {1, 2} /\ scopes'[1] = ints /\ scopes'[2] = <<>>
      /\ scopes' \in Seq(Tables)
  BY <1>1, <1>3, TablesAre DEF ints
<1>5. MycTyped'
  <2>1. kinds' \subseteq Names \X BOOLEAN
    BY <1>1
  <2> QED
    BY <1>1, <1>4, <2>1, TablesAre DEF MycTyped
<1>6. ASSUME ~unlike PROVE TablesAgree'
  <2>1. \A n \in Names : <<n, TRUE>> \notin kinds'
    BY <1>1
  <2>2. \A n \in params : <<n, FALSE>> \in kinds'
    BY <1>1
  <2>3. DOMAIN vars' = {} /\ DOMAIN scopes'[2] = {}
    BY <1>1, <1>4, TablesAre
  <2>4. ASSUME NEW i \in DOMAIN scopes', NEW n \in DOMAIN scopes'[i]
        PROVE  <<n, scopes'[i][n]>> \in kinds' /\ ~scopes'[i][n]
    <3>1. scopes'[i] = ints /\ n \in params
      BY <1>3, <1>4, <2>3
    <3> QED
      BY <1>3, <2>2, <3>1
  <2> QED
    BY <1>2, <1>6, <2>1, <2>3, <2>4 DEF TablesAgree
<1>7. ~mixed /\ ~misscoped /\ ~full => ~unlike
  BY DEF MycInv, TablesAgree
<1> QED
  BY <1>2, <1>5, <1>6, <1>7 DEF MycInv

LEMMA LetKeeps == ASSUME MycInv, ParseLet PROVE MycInv'
<1> DEFINE n == Len(scopes)
           scope == Last(scopes)
<1>1. PICK name \in Names, string \in BOOLEAN :
        /\ VarsDeclare(name, string)
        /\ misscoped' = (misscoped \/ name \in DOMAIN scope)
        /\ scopes' = [scopes EXCEPT ![n] =
                        IF name \in DOMAIN scope THEN scope ELSE Bind(scope, name, string)]
        /\ Declares(kinds \cup {<<name, string>>})
  BY DEF ParseLet
<1>2. /\ unlike' = unlike /\ kinds' = kinds \cup {<<name, string>>}
      /\ mixed' = (mixed \/ \E m \in Names : {<<m, TRUE>>, <<m, FALSE>>} \subseteq kinds')
  BY <1>1 DEF ParseLet, Declares
<1>3. /\ n \in Nat /\ DOMAIN scopes = 1..n /\ n \in 1..n /\ scope = scopes[n]
      /\ scope \in Tables /\ vars \in Tables
  BY DEF MycInv, MycTyped, ParseLet, Inside, Last
<1>4. /\ vars' \in Tables
      /\ full => full'
      /\ ~full' => vars' = Bind(vars, name, string)
  <2>1. Bind(vars, name, string) \in Tables
    BY <1>3, BindIs
  <2>2. \/ vars' = Bind(vars, name, string) /\ full' = full
        \/ vars' = vars /\ full' = TRUE
    BY <1>1 DEF VarsDeclare
  <2> QED
    BY <1>3, <2>1, <2>2
<1> DEFINE new == IF name \in DOMAIN scope THEN scope ELSE Bind(scope, name, string)
<1>5. new \in Tables
  BY <1>3, BindIs
<1>6. /\ DOMAIN scopes' = 1..n /\ scopes'[n] = new
      /\ \A i \in 1..n : i /= n => scopes'[i] = scopes[i]
      /\ scopes' \in Seq(Tables)
  <2>1. scopes' = [scopes EXCEPT ![n] = new] /\ scopes \in Seq(Tables)
    BY <1>1 DEF MycInv, MycTyped
  <2> HIDE DEF new
  <2> QED
    BY <1>3, <1>5, <2>1
<1> HIDE DEF scope, n
<1>8. MycTyped'
  <2>1. kinds' \subseteq Names \X BOOLEAN
    BY <1>2 DEF MycInv, MycTyped
  <2> QED
    BY <1>4, <1>6, <2>1 DEF MycTyped
<1>9. ASSUME ~mixed', ~misscoped', ~full' PROVE TablesAgree'
  <2>1. TablesAgree /\ name \notin DOMAIN scope
    BY <1>1, <1>2, <1>4, <1>9 DEF MycInv
  <2>2. /\ DOMAIN vars' = DOMAIN vars \cup {name} /\ vars'[name] = string
        /\ \A m \in DOMAIN vars : m /= name => vars'[m] = vars[m]
    <3>1. vars' = Bind(vars, name, string) /\ vars \in Tables
      BY <1>3, <1>4, <1>9
    <3> DEFINE b == Bind(vars, name, string)
    <3>2. /\ DOMAIN b = DOMAIN vars \cup {name} /\ b[name] = string
          /\ \A m \in DOMAIN vars : m /= name => b[m] = vars[m]
      <4>1. vars \in Tables
        BY <1>3
      <4> QED
        BY ONLY <4>1, BindIs, name \in Names, string \in BOOLEAN
    <3> HIDE DEF b
    <3>3. vars' = b
      BY <3>1 DEF b
    <3> QED
      BY <3>2, <3>3
  <2>3. /\ DOMAIN new = DOMAIN scope \cup {name} /\ new[name] = string
        /\ \A m \in DOMAIN scope : new[m] = scope[m]
    <3>1. new = Bind(scope, name, string) /\ scope \in Tables
      BY <1>3, <2>1
    <3>2. \A m \in DOMAIN scope : m /= name
      BY <2>1
    <3> DEFINE b == Bind(scope, name, string)
    <3>3. /\ DOMAIN b = DOMAIN scope \cup {name} /\ b[name] = string
          /\ \A m \in DOMAIN scope : m /= name => b[m] = scope[m]
      BY <3>1, BindIs
    <3>4. new = b
      BY <3>1
    <3> HIDE DEF new, b
    <3> QED
      BY <3>2, <3>3, <3>4
  <2>4. <<name, string>> \in kinds' /\ kinds \subseteq kinds'
    BY <1>2
  <2> HIDE DEF new
  <2>5. \A m \in DOMAIN vars' : <<m, vars'[m]>> \in kinds'
    BY <2>1, <2>2, <2>4 DEF TablesAgree
  <2>6. ASSUME NEW i \in 1..n, NEW m \in DOMAIN scopes'[i]
        PROVE  <<m, scopes'[i][m]>> \in kinds' /\ (scopes'[i][m] => m \in DOMAIN vars')
    <3>1. CASE i = n /\ m = name
      BY <1>6, <2>2, <2>3, <2>4, <3>1
    <3>2. CASE i = n /\ m /= name
      <4>1. m \in DOMAIN scopes[n] /\ scopes'[i][m] = scopes[n][m]
        BY <1>3, <1>6, <2>3, <3>2
      <4> QED
        BY <1>3, <2>1, <2>2, <2>4, <4>1 DEF TablesAgree
    <3>3. CASE i /= n
      <4>1. scopes'[i] = scopes[i] /\ i \in DOMAIN scopes
        BY <1>3, <1>6, <3>3
      <4> QED
        BY <2>1, <2>2, <2>4, <4>1 DEF TablesAgree
    <3> QED
      BY <3>1, <3>2, <3>3
  <2>7. \A m \in Names : ~({<<m, TRUE>>, <<m, FALSE>>} \subseteq kinds')
    BY <1>2, <1>9
  <2>8. ~unlike'
    BY <1>2, <2>1 DEF TablesAgree
  <2> QED
    BY <1>6, <2>5, <2>6, <2>7, <2>8 DEF TablesAgree
<1> QED
  BY <1>8, <1>9 DEF MycInv

LEMMA SayKeeps == ASSUME MycInv, ParseSay PROVE MycInv'
<1>1. PICK name \in Names :
        LET known == {i \in DOMAIN scopes : name \in DOMAIN scopes[i]}
        IN  /\ misscoped' = (misscoped \/ known = {})
            /\ unlike' = (unlike \/ (known /= {} /\ VarsIsString(name) /= scopes[Max(known)][name]))
  BY DEF ParseSay
<1>2. UNCHANGED <<vars, scopes, arms, full, kinds, mixed>>
  BY DEF ParseSay
<1>3. MycTyped'
  BY <1>2 DEF MycInv, MycTyped
<1>4. ASSUME ~mixed', ~misscoped', ~full' PROVE TablesAgree'
  <2>1. TablesAgree
    BY <1>1, <1>2, <1>4 DEF MycInv
  <2> DEFINE known == {i \in DOMAIN scopes : name \in DOMAIN scopes[i]}
             j == Max(known)
  <2>2. known /= {}
    BY <1>1, <1>4
  <2>3. j \in known
    <3>1. Len(scopes) \in Nat /\ known \in SUBSET (0..Len(scopes))
      BY DEF MycInv, MycTyped
    <3> QED
      BY <2>2, <3>1, MaxIsIn
  <2> HIDE DEF j
  <2>4. <<name, scopes[j][name]>> \in kinds /\ (scopes[j][name] => name \in DOMAIN vars)
    BY <2>1, <2>3 DEF TablesAgree
  <2>5. name \in DOMAIN vars => <<name, vars[name]>> \in kinds
    BY <2>1 DEF TablesAgree
  <2>6. scopes[j][name] \in BOOLEAN /\ (name \in DOMAIN vars => vars[name] \in BOOLEAN)
    BY <2>3, TablesAre DEF MycInv, MycTyped
  <2>7. ~(<<name, TRUE>> \in kinds /\ <<name, FALSE>> \in kinds)
    BY <2>1 DEF TablesAgree
  <2>8. VarsIsString(name) = scopes[j][name]
    BY <2>4, <2>5, <2>6, <2>7, Zenon DEF VarsIsString
  <2>9. ~unlike'
    BY <1>1, <2>1, <2>8 DEF TablesAgree, j
  <2> QED
    BY <1>2, <2>1, <2>9 DEF TablesAgree
<1> QED
  BY <1>3, <1>4 DEF MycInv

LEMMA FrontIs ==
  ASSUME NEW T, NEW q \in Seq(T), q /= <<>>
  PROVE  /\ Front(q) \in Seq(T)
         /\ DOMAIN Front(q) = 1..(Len(q) - 1)
         /\ \A i \in 1..(Len(q) - 1) : i \in DOMAIN q /\ Front(q)[i] = q[i]
<1>1. /\ Len(q) \in Nat \ {0} /\ DOMAIN q = 1..Len(q) /\ \A i \in 1..Len(q) : q[i] \in T
      /\ Front(q) = SubSeq(q, 1, Len(q) - 1)
  BY DEF Front
<1>2. \A i \in 1..(Len(q) - 1) : i \in 1..Len(q) /\ q[i] \in T
  BY <1>1
<1>3. /\ SubSeq(q, 1, Len(q) - 1) \in Seq(T)
      /\ Len(SubSeq(q, 1, Len(q) - 1)) = IF 1 <= Len(q) - 1 THEN Len(q) - 1 - 1 + 1 ELSE 0
      /\ \A i \in 1..(Len(q) - 1 - 1 + 1) : SubSeq(q, 1, Len(q) - 1)[i] = q[1 + i - 1]
  BY <1>1, <1>2, SubSeqProperties
<1> QED
  BY <1>1, <1>2, <1>3

LEMMA StepMyc == ASSUME MycInv, [MycNext]_mvars PROVE MycInv'
<1>1. scopes \in Seq(Tables) /\ <<>> \in Tables /\ <<>> \in Seq(Tables)
  BY TablesAre DEF MycInv, MycTyped
<1>2. \A q \in Seq(Tables) :
        /\ Append(q, <<>>) \in Seq(Tables)
        /\ \A i \in DOMAIN Append(q, <<>>) :
             \/ Append(q, <<>>)[i] = <<>>
             \/ i \in DOMAIN q /\ Append(q, <<>>)[i] = q[i]
  BY <1>1
<1>3. CASE ParseIf
  BY <1>1, <1>2, <1>3, BlockKeeps DEF ParseIf
<1>4. ASSUME Inside
      PROVE  /\ Front(scopes) \in Seq(Tables)
             /\ \A i \in DOMAIN Front(scopes) :
                  i \in DOMAIN scopes /\ Front(scopes)[i] = scopes[i]
  BY <1>1, <1>4, FrontIs DEF Inside
<1>5. CASE ParseElse
  <2> DEFINE q == Front(scopes)
  <2>1. /\ q \in Seq(Tables)
        /\ \A i \in DOMAIN q : i \in DOMAIN scopes /\ q[i] = scopes[i]
        /\ Block(Append(q, <<>>), Append(Front(arms), FALSE))
    BY <1>4, <1>5 DEF ParseElse
  <2> HIDE DEF q
  <2>2. \A i \in DOMAIN Append(q, <<>>) :
          \/ Append(q, <<>>)[i] = <<>>
          \/ i \in DOMAIN scopes /\ Append(q, <<>>)[i] = scopes[i]
    BY <1>2, <2>1
  <2> QED
    BY <1>2, <2>1, <2>2, BlockKeeps
<1>6. CASE EndBlock
  BY <1>4, <1>6, BlockKeeps DEF EndBlock
<1>7. CASE EndFn
  <2>1. DOMAIN <<>> = {}
    OBVIOUS
  <2> QED
    BY <1>1, <1>7, <2>1, BlockKeeps DEF EndFn
<1>8. CASE UNCHANGED mvars
  BY <1>8 DEF mvars, MycInv, MycTyped, TablesAgree
<1> QED
  BY <1>3, <1>5, <1>6, <1>7, <1>8, FnKeeps, LetKeeps, SayKeeps DEF MycNext

\* Where every name is one kind of thing throughout its function, and is declared
\* before it is said, "say" prints it as what it is, whatever blocks and functions
\* there are and however many names (myc.c 165-170).
THEOREM SaysWhatItIsHolds == MycSpec => []SaysWhatItIs
<1>1. MycInit => MycInv
  BY TablesAre DEF MycInit, MycInv, MycTyped, TablesAgree
<1>2. MycInv /\ [MycNext]_mvars => MycInv'
  BY StepMyc
<1>3. MycInv => SaysWhatItIs
  BY DEF MycInv, TablesAgree, SaysWhatItIs
<1> QED
  BY <1>1, <1>2, <1>3, PTL DEF MycSpec

(***************************************************************************)
(* What the analysis accepts links.                                        *)
(***************************************************************************)
IsSymbol(s) ==
  s = Symbol(s.is_function, s.param_count, s.is_defined, s.is_extern, s.is_builtin)

(* A symbol tells of a declaration of its name what it is. *)
TellsOf(s, d) ==
  /\ d.kind = "variable" => ~s.is_function
  /\ d.kind /= "variable" => s.is_function /\ s.param_count = d.params
  /\ d.kind = "definition" => s.is_defined

(* What a symbol says of a name is so for a declaration in the file. *)
IsSo(n, s) ==
  /\ IsSymbol(s) /\ ~s.is_builtin
  /\ s.is_defined => ~s.is_extern /\ \E i \in Definitions : unit[i].name = n
  /\ s.is_extern => n \in Promised

Consistent ==
  /\ \A i \in DOMAIN unit : unit[i].name \in DOMAIN globals /\ TellsOf(globals[unit[i].name], unit[i])
  /\ \A n \in DOMAIN globals : IsSo(n, globals[n])
  /\ \A i, j \in Emitted : unit[i].name = unit[j].name => i = j

UnitInv ==
  /\ unit \in Seq(Declarations)
  /\ ~errors => Consistent

LEMMA NewSymbolIs ==
  ASSUME NEW d \in Declarations
  PROVE  LET s == NewSymbol(d)
         IN  /\ IsSymbol(s) /\ ~s.is_builtin /\ TellsOf(s, d)
             /\ s.is_defined => ~s.is_extern /\ d.kind = "definition"
             /\ s.is_extern => d.kind = "extern"
  BY LinkageAssumption DEF NewSymbol, Symbol, IsSymbol, TellsOf

LEMMA RedeclaredIs ==
  ASSUME NEW s, IsSymbol(s), ~s.is_builtin, s.is_defined => ~s.is_extern,
         NEW d \in Declarations, ~Clashes(s, d)
  PROVE  LET r == Redeclared(s, d)
         IN  /\ IsSymbol(r) /\ ~r.is_builtin /\ TellsOf(r, d)
             /\ r.is_function = s.is_function /\ r.param_count = s.param_count
             /\ r.is_defined = Defines(s, d)
             /\ r.is_extern = (s.is_extern /\ ~Defines(s, d))
<1> DEFINE r == Redeclared(s, d)
<1>1. s = Symbol(s.is_function, s.param_count, s.is_defined, s.is_extern, s.is_builtin)
  BY DEF IsSymbol
<1>2. r = [s EXCEPT !.is_defined = Defines(s, d), !.is_extern = s.is_extern /\ ~Defines(s, d)]
  BY DEF Redeclared
<1> HIDE DEF r
<1>3. r = Symbol(s.is_function, s.param_count, Defines(s, d),
                 s.is_extern /\ ~Defines(s, d), s.is_builtin)
  BY <1>1, <1>2 DEF Symbol
<1>4. /\ r.is_function = s.is_function /\ r.param_count = s.param_count
      /\ r.is_defined = Defines(s, d) /\ r.is_builtin = s.is_builtin
      /\ r.is_extern = (s.is_extern /\ ~Defines(s, d))
  BY <1>3 DEF Symbol
<1>5. IsSymbol(r)
  BY <1>3, <1>4 DEF IsSymbol
<1>6. TellsOf(r, d)
  BY <1>4 DEF TellsOf, Clashes, Defines
<1> QED
  BY <1>4, <1>5, <1>6 DEF r

LEMMA DeclareKeeps ==
  ASSUME UnitInv, NEW d \in Declarations, Declare(d)
  PROVE  UnitInv'
<1> DEFINE n == Len(unit)
           again == d.name \in DOMAIN globals
           clash == again /\ Clashes(globals[d.name], d)
           s == globals[d.name]
           symbol == IF again THEN Redeclared(s, d) ELSE NewSymbol(d)
<1>1. /\ unit' = Append(unit, d)
      /\ globals' = IF clash THEN globals ELSE Insert(globals, d.name, symbol)
      /\ errors' = (errors \/ clash \/ MainTakes(d))
  BY DEF Declare
<1>2. unit \in Seq(Declarations) /\ n \in Nat /\ DOMAIN unit = 1..n
  BY DEF UnitInv
<1>3. /\ unit' \in Seq(Declarations) /\ DOMAIN unit' = 1..(n + 1)
      /\ unit'[n + 1] = d /\ \A i \in 1..n : unit'[i] = unit[i]
      /\ \A i \in 1..(n + 1) : i \in 1..n \/ i = n + 1
      /\ \A i \in 1..n : i \in 1..(n + 1) /\ i /= n + 1
      /\ n + 1 \in 1..(n + 1)
  BY <1>1, <1>2
<1> HIDE DEF n
<1>4. /\ \A i \in Definitions : i \in Definitions' /\ unit'[i].name = unit[i].name
      /\ d.kind = "definition" => n + 1 \in Definitions'
      /\ Promised \subseteq Promised' /\ (d.kind = "extern" => d.name \in Promised')
  BY <1>2, <1>3 DEF Definitions, Promised
<1>5. ASSUME ~errors' PROVE Consistent'
  <2>1. ~errors /\ ~clash /\ Consistent
    BY <1>1, <1>5 DEF UnitInv
  <2>2. globals' = Insert(globals, d.name, symbol)
    BY <1>1, <2>1
  <2>3. /\ IsSymbol(symbol) /\ ~symbol.is_builtin /\ TellsOf(symbol, d)
        /\ symbol.is_defined => ~symbol.is_extern /\ \E i \in Definitions' : unit'[i].name = d.name
        /\ symbol.is_extern => d.name \in Promised'
        /\ \A i \in 1..n : unit[i].name = d.name => TellsOf(symbol, unit[i])
        /\ d.kind \in {"variable", "definition"} =>
             \A i \in 1..n : unit[i].name = d.name => unit[i].kind \notin {"variable", "definition"}
    <3>1. CASE again
      <4>1. IsSo(d.name, s) /\ ~Clashes(s, d)
        BY <2>1, <3>1 DEF Consistent
      <4>2. symbol = Redeclared(s, d)
        BY <3>1
      <4>3. /\ IsSymbol(symbol) /\ ~symbol.is_builtin /\ TellsOf(symbol, d)
            /\ symbol.is_function = s.is_function /\ symbol.param_count = s.param_count
            /\ symbol.is_defined = Defines(s, d)
            /\ symbol.is_extern = (s.is_extern /\ ~Defines(s, d))
        BY <4>1, <4>2, RedeclaredIs DEF IsSo
      <4> HIDE DEF symbol, s
      <4>4. \A i \in 1..n : unit[i].name = d.name => TellsOf(s, unit[i])
        BY <1>2, <2>1 DEF Consistent, s
      <4>5. \A i \in 1..n : unit[i].name = d.name => TellsOf(symbol, unit[i])
        BY <4>3, <4>4 DEF TellsOf, Defines
      <4>6. symbol.is_defined => ~symbol.is_extern /\ \E i \in Definitions' : unit'[i].name = d.name
        BY <1>3, <1>4, <4>1, <4>3 DEF Defines, IsSo
      <4>7. symbol.is_extern => d.name \in Promised'
        BY <1>4, <4>1, <4>3 DEF IsSo
      <4>8. d.kind \in {"variable", "definition"} =>
              \A i \in 1..n : unit[i].name = d.name => unit[i].kind \notin {"variable", "definition"}
        BY <4>1, <4>4 DEF Clashes, TellsOf
      <4> QED
        BY <4>3, <4>5, <4>6, <4>7, <4>8
    <3>2. CASE ~again
      <4>1. \A i \in 1..n : unit[i].name /= d.name
        BY <1>2, <2>1, <3>2 DEF Consistent
      <4>2. symbol = NewSymbol(d)
        BY <3>2
      <4> HIDE DEF symbol
      <4>3. /\ IsSymbol(symbol) /\ ~symbol.is_builtin /\ TellsOf(symbol, d)
            /\ symbol.is_defined => ~symbol.is_extern /\ d.kind = "definition"
            /\ symbol.is_extern => d.kind = "extern"
        BY <4>2, NewSymbolIs
      <4> QED
        BY <1>3, <1>4, <4>1, <4>3
    <3> QED
      BY <3>1, <3>2
  <2> HIDE DEF symbol, again
  <2>4. /\ DOMAIN globals' = DOMAIN globals \cup {d.name} /\ globals'[d.name] = symbol
        /\ \A m \in DOMAIN globals : m /= d.name => globals'[m] = globals[m]
    <3>1. globals' = [m \in DOMAIN globals \cup {d.name} |-> IF m = d.name THEN symbol ELSE globals[m]]
      BY <2>2 DEF Insert
    <3> QED
      BY ONLY <3>1
  <2>5. ASSUME NEW i \in 1..(n + 1)
        PROVE  unit'[i].name \in DOMAIN globals' /\ TellsOf(globals'[unit'[i].name], unit'[i])
    <3>1. CASE unit'[i].name = d.name
      BY <1>3, <2>3, <2>4, <3>1
    <3>2. CASE unit'[i].name /= d.name
      <4>1. i \in 1..n /\ unit'[i] = unit[i]
        BY <1>3, <3>2
      <4> QED
        BY <1>2, <2>1, <2>4, <3>2, <4>1 DEF Consistent
    <3> QED
      BY <3>1, <3>2
  <2>6. ASSUME NEW m \in DOMAIN globals'
        PROVE  /\ IsSymbol(globals'[m]) /\ ~globals'[m].is_builtin
               /\ globals'[m].is_defined =>
                    ~globals'[m].is_extern /\ \E i \in Definitions' : unit'[i].name = m
               /\ globals'[m].is_extern => m \in Promised'
    <3>1. CASE m = d.name
      BY <2>3, <2>4, <3>1
    <3>2. CASE m /= d.name
      <4>1. IsSo(m, globals[m]) /\ globals'[m] = globals[m]
        BY <2>1, <2>4, <3>2 DEF Consistent
      <4> QED
        BY <1>4, <4>1 DEF IsSo
    <3> QED
      BY <3>1, <3>2
  <2>7. ASSUME NEW i \in Emitted', NEW j \in Emitted', unit'[i].name = unit'[j].name
        PROVE  i = j
    <3>1. /\ i \in 1..(n + 1) /\ unit'[i].kind \in {"variable", "definition"}
          /\ j \in 1..(n + 1) /\ unit'[j].kind \in {"variable", "definition"}
      BY <1>3 DEF Emitted
    <3>2. CASE i \in 1..n /\ j \in 1..n
      <4>1. i \in Emitted /\ j \in Emitted /\ unit[i].name = unit[j].name
        BY <1>2, <1>3, <2>7, <3>1, <3>2 DEF Emitted
      <4> QED
        BY <2>1, <4>1 DEF Consistent
    <3>3. CASE i = n + 1 \/ j = n + 1
      BY <1>3, <2>3, <2>7, <3>1, <3>3
    <3> QED
      BY <1>3, <3>1, <3>2, <3>3
  <2> QED
    BY <1>3, <2>5, <2>6, <2>7 DEF Consistent, IsSo
<1> QED
  BY <1>3, <1>5 DEF UnitInv

(* No label twice: what is emitted has names of its own. *)
LEMMA NoLabelTwice ==
  ASSUME unit \in Seq(Declarations), \A i, j \in Emitted : unit[i].name = unit[j].name => i = j
  PROVE  Cardinality(EmittedNames) = Cardinality(Emitted)
<1> DEFINE f == [i \in Emitted |-> unit[i].name]
<1>1. IsFiniteSet(Emitted)
  <2>1. Emitted \subseteq 1..Len(unit) /\ Len(unit) \in Int /\ 1 \in Int
    BY DEF Emitted
  <2>2. IsFiniteSet(1..Len(unit))
    BY <2>1, FS_Interval
  <2> QED
    BY <2>1, <2>2, FS_Subset
<1>2. f \in Bijection(Emitted, EmittedNames)
  <2>1. f \in [Emitted -> EmittedNames]
    BY DEF EmittedNames
  <2>2. \A i, j \in Emitted : f[i] = f[j] => i = j
    OBVIOUS
  <2>3. \A m \in EmittedNames : \E i \in Emitted : f[i] = m
    BY DEF EmittedNames
  <2> HIDE DEF f
  <2> QED
    BY <2>1, <2>2, <2>3 DEF Bijection, Injection, Surjection, IsInjective
<1>3. ExistsBijection(Emitted, EmittedNames)
  BY <1>2 DEF ExistsBijection
<1> QED
  BY <1>1, <1>3, FS_Bijection

(* Behind every call there is the function it names, or the C library's; but   *)
(* for a print helper, which another function may take over.                 *)
LEMMA CallLinks ==
  ASSUME UnitInv, ~errors, NEW call, CallChecks(call), Supplied(call)
  PROVE  Linked(Rewritten(call)) \/ Captured(call)
<1> DEFINE s == Table[call.name]
<1>1. /\ DOMAIN Table = DOMAIN globals \cup DOMAIN Builtins
      /\ DOMAIN Builtins = DOMAIN Helpers \cup DOMAIN Libc
      /\ DOMAIN Helpers = {"print_int", "print_char", "print_str", "print_endl"}
      /\ DOMAIN Libc = {"printf", "puts", "putchar"}
  BY DEF Table, Builtins, Helpers, Libc
<1>2. Consistent
  BY DEF UnitInv
<1>3. CASE call.name \in DOMAIN globals
  <2>1. s = globals[call.name]
    BY <1>1, <1>3 DEF Table
  <2>2. IsSo(call.name, s)
    BY <1>2, <1>3, <2>1 DEF Consistent
  <2>3. Rewritten(call) = call
    <3>1. ~Table[call.name].is_builtin
      BY <2>2 DEF IsSo
    <3> QED
      BY ONLY <3>1 DEF Rewritten
  <2>4. CASE s.is_defined
    <3>1. PICK i \in Definitions : unit[i].name = call.name
      BY <2>2, <2>4 DEF IsSo
    <3>2. unit[i].kind = "definition" /\ i \in DOMAIN unit
      BY DEF Definitions
    <3>3. TellsOf(s, unit[i])
      BY <1>2, <2>1, <3>1, <3>2 DEF Consistent
    <3>4. s.param_count = unit[i].params /\ ~s.is_extern
      BY <2>2, <2>4, <3>2, <3>3 DEF TellsOf, IsSo
    <3>5. call.args = unit[i].params
      BY <3>4 DEF CallChecks
    <3> QED
      BY <2>3, <3>1, <3>5 DEF Linked
  <2>5. CASE ~s.is_defined
    <3>1. s.is_extern /\ call.name \in Promised
      BY <2>2, <2>5 DEF Supplied, IsSo
    <3>2. call.name \notin EmittedNames
      <4>1. ASSUME NEW i \in Emitted, unit[i].name = call.name PROVE FALSE
        <5>1. i \in DOMAIN unit /\ unit[i].kind \in {"variable", "definition"}
          BY DEF Emitted
        <5>2. TellsOf(s, unit[i])
          BY <1>2, <2>1, <4>1, <5>1 DEF Consistent
        <5> QED
          BY <2>5, <5>1, <5>2 DEF TellsOf, CallChecks
      <4> QED
        BY <4>1 DEF EmittedNames
    <3> QED
      BY <2>3, <3>1, <3>2 DEF Linked
  <2> QED
    BY <2>4, <2>5
<1>4. CASE call.name \notin DOMAIN globals
  <2>1. call.name \in DOMAIN Helpers \cup DOMAIN Libc
    BY <1>1, <1>4 DEF CallChecks
  <2>2. s.is_builtin
    BY <1>1, <1>4, <2>1 DEF Table, Builtins, Symbol
  <2>3. CASE call.name \in DOMAIN Helpers
    <3>1. Rewritten(call).name \in DOMAIN Libc
      BY <1>1, <2>2, <2>3 DEF Rewritten, Call
    <3> QED
      BY <2>3, <3>1 DEF Linked, Captured
  <2>4. CASE call.name \in DOMAIN Libc /\ call.name \notin DOMAIN Helpers
    <3>1. Rewritten(call) = call
      BY <1>1, <2>2, <2>4 DEF Rewritten
    <3>2. call.name \notin EmittedNames
      BY <1>2, <1>4 DEF Consistent, EmittedNames, Emitted
    <3> QED
      BY <2>4, <3>1, <3>2 DEF Linked
  <2> QED
    BY <2>1, <2>3, <2>4
<1> QED
  BY <1>3, <1>4

(* The main that counted is in the output, or there are mere declarations.    *)
LEMMA MainThere ==
  ASSUME UnitInv, ~errors, HaveMain
  PROVE  "main" \in EmittedNames \/ MainOnlyDeclared
<1>1. Consistent /\ unit \in Seq(Declarations)
  BY DEF UnitInv
<1>2. PICK i \in DOMAIN unit : unit[i].name = "main" /\ unit[i].kind /= "variable"
  BY DEF HaveMain
<1>3. globals["main"].is_function
  BY <1>1, <1>2 DEF Consistent, TellsOf
<1>4. ASSUME NEW j \in DOMAIN unit, unit[j].name = "main", "main" \notin EmittedNames
      PROVE  unit[j].kind \in {"prototype", "extern"}
  <2>1. unit[j].kind \in {"variable", "prototype", "extern", "definition"}
    BY <1>1, LinkageAssumption
  <2>2. unit[j].kind /= "definition"
    BY <1>4 DEF EmittedNames, Emitted
  <2>3. unit[j].kind /= "variable"
    BY <1>1, <1>3, <1>4 DEF Consistent, TellsOf
  <2> QED
    BY <2>1, <2>2, <2>3
<1> QED
  BY <1>4 DEF MainOnlyDeclared

\* What semantic.c accepts, the assembler and the linker accept, whatever a file
\* declares, in whatever order: no label twice, a main, and every call reaches a
\* function with as many parameters as it has arguments (semantic.c 1513-1517).
THEOREM UnitLinksHolds == UnitSpec => []UnitLinks
<1>1. UnitInit => UnitInv
  BY DEF UnitInit, UnitInv, Consistent, Emitted
<1>2. UnitInv /\ [UnitNext]_uvars => UnitInv'
  <2> SUFFICES ASSUME UnitInv, [UnitNext]_uvars PROVE UnitInv'
    OBVIOUS
  <2>1. CASE UnitNext
    BY <2>1, DeclareKeeps DEF UnitNext
  <2>2. CASE UNCHANGED uvars
    BY <2>2 DEF uvars, UnitInv, Consistent, Emitted, IsSo, Definitions, Promised
  <2> QED
    BY <2>1, <2>2
<1>3. UnitInv => UnitLinks
  <2> SUFFICES ASSUME UnitInv, Analyzed
               PROVE  /\ Cardinality(EmittedNames) = Cardinality(Emitted)
                      /\ "main" \in EmittedNames \/ MainOnlyDeclared
                      /\ \A call \in Calls : Linked(Rewritten(call)) \/ Captured(call)
    BY DEF UnitLinks
  <2>1. ~errors /\ HaveMain /\ \A call \in Calls : CallChecks(call) /\ Supplied(call)
    BY DEF Analyzed
  <2>2. Cardinality(EmittedNames) = Cardinality(Emitted)
    BY <2>1, NoLabelTwice DEF UnitInv, Consistent
  <2> QED
    BY <2>1, <2>2, MainThere, CallLinks
<1> QED
  BY <1>1, <1>2, <1>3, PTL DEF UnitSpec

(***************************************************************************)
(* Members keep apart, however many there are and whatever their sizes, in  *)
(* every file of struct definitions.                                       *)
(***************************************************************************)
Types == [kind : {"char", "ptr", "struct"}, no : Nat]
MemberRecords == [type : Types, offset : Nat, size : Nat, align : {1, 8}]
StructRecords == [tag : Tags, members : Seq(MemberRecords), size : Nat, align : {1, 8}]

(* What parse_type_specifier() has of a struct, complete or not. *)
IsStruct(st) == st \in StructRecords /\ Fits(st)

LEMMA UpIsNext ==
  ASSUME NEW n \in Nat, NEW align \in {1, 8}
  PROVE  /\ Up(n, align) \in Nat
         /\ Up(n, align) >= n
         /\ Up(n, align) % align = 0
  BY DEF Up

(* A new struct has its members apart. *)
LEMMA NewStructFits == \A tag \in Tags : IsStruct(NewStruct(tag))
  BY DEF NewStruct, IsStruct, Fits, StructRecords

(* struct_add_member() puts a member behind all the others, aligned, and      *)
(* leaves those where they are (util.c 377-415).                             *)
THEOREM AddMemberFits ==
  ASSUME NEW st, IsStruct(st), NEW type \in Types, NEW size \in Nat \ {0},
         NEW align \in {1, 8}
  PROVE  IsStruct(AddMember(st, type, size, align))
<1> DEFINE offset == Up(st.size, align)
           m == [type |-> type, offset |-> offset, size |-> size, align |-> align]
           new == AddMember(st, type, size, align)
           n == Len(st.members)
<1>1. st \in StructRecords /\ Fits(st)
  BY DEF IsStruct
<1>2. st.members \in Seq(MemberRecords) /\ st.size \in Nat /\ st.align \in {1, 8} /\ st.tag \in Tags
  BY <1>1 DEF StructRecords
<1>3. offset \in Nat /\ offset >= st.size /\ offset % align = 0
  BY <1>2, UpIsNext
<1>4. m \in MemberRecords
  BY <1>3 DEF MemberRecords
<1>5. /\ new.members = Append(st.members, m)
      /\ new.size = offset + size
      /\ new.align = IF align > st.align THEN align ELSE st.align
      /\ new \in StructRecords
  <2>1. /\ Append(st.members, m) \in Seq(MemberRecords)
        /\ offset + size \in Nat
        /\ (IF align > st.align THEN align ELSE st.align) \in {1, 8}
    BY <1>2, <1>3, <1>4
  <2> HIDE DEF m, offset
  <2>2. new = [st EXCEPT !.members = Append(@, m), !.size = offset + size,
                         !.align = IF align > @ THEN align ELSE @]
    BY DEF AddMember, m, offset
  <2> HIDE DEF new
  <2>3. /\ new.members = Append(st.members, m)
        /\ new.size = offset + size
        /\ new.align = IF align > st.align THEN align ELSE st.align
    BY <1>1, <2>2 DEF StructRecords
  <2>4. new \in StructRecords
    BY <1>1, <2>1, <2>2 DEF StructRecords
  <2> QED
    BY <2>3, <2>4
<1>6. /\ n \in Nat
      /\ DOMAIN new.members = 1..(n + 1)
      /\ new.members[n + 1] = m
      /\ \A i \in 1..n : new.members[i] = st.members[i] /\ st.members[i] \in MemberRecords
  BY <1>2, <1>4, <1>5
<1> HIDE DEF new, offset
<1>7. ASSUME NEW i \in 1..n
      PROVE  /\ new.members[i].offset % new.members[i].align = 0
             /\ new.align % new.members[i].align = 0
             /\ EndOf(new.members[i]) <= offset
             /\ EndOf(new.members[i]) <= new.size
             /\ \A j \in 1..n : i < j => EndOf(new.members[i]) <= new.members[j].offset
  <2>1. /\ st.members[i].offset % st.members[i].align = 0
        /\ st.align % st.members[i].align = 0
        /\ EndOf(st.members[i]) <= st.size
        /\ \A j \in 1..n : i < j => EndOf(st.members[i]) <= st.members[j].offset
    BY <1>1, <1>2 DEF Fits
  <2>2. st.members[i].align \in {1, 8} /\ EndOf(st.members[i]) \in Nat
    BY <1>6 DEF MemberRecords, EndOf
  <2>3. new.align % st.members[i].align = 0
    BY <1>2, <1>5, <2>1, <2>2
  <2> QED
    BY <1>2, <1>3, <1>5, <1>6, <2>1, <2>2, <2>3
<1>8. /\ m.offset % m.align = 0
      /\ new.align % m.align = 0
      /\ EndOf(m) <= new.size
      /\ m.offset = offset
  BY <1>2, <1>3, <1>5 DEF EndOf
<1>9. Fits(new)
  <2> SUFFICES ASSUME NEW i \in 1..(n + 1)
               PROVE  /\ new.members[i].offset % new.members[i].align = 0
                      /\ new.align % new.members[i].align = 0
                      /\ EndOf(new.members[i]) <= new.size
                      /\ \A j \in 1..(n + 1) : i < j => EndOf(new.members[i]) <= new.members[j].offset
    BY <1>6 DEF Fits
  <2>1. CASE i = n + 1
    BY <1>6, <1>8, <2>1
  <2>2. CASE i \in 1..n
    <3>1. \A j \in 1..(n + 1) : j \in 1..n \/ j = n + 1
      BY <1>6
    <3> QED
      BY <1>6, <1>7, <1>8, <2>2, <3>1
  <2>3. i = n + 1 \/ i \in 1..n
    BY <1>6
  <2> QED
    BY <2>1, <2>2, <2>3, Zenon
<1> QED
  BY <1>5, <1>9 DEF IsStruct, new

(* Where a body ends its struct is rounded up: the members still lie in it,    *)
(* and one behind the other in an array they are all aligned (parser.c 238).  *)
THEOREM CloseFits ==
  ASSUME NEW st, IsStruct(st)
  PROVE  IsStruct(Close(st)) /\ Close(st).size % Close(st).align = 0
<1>1. st.size \in Nat /\ st.align \in {1, 8} /\ st.members \in Seq(MemberRecords)
  BY DEF IsStruct, StructRecords
<1>2. Up(st.size, st.align) \in Nat /\ Up(st.size, st.align) >= st.size
      /\ Up(st.size, st.align) % st.align = 0
  BY <1>1, UpIsNext
<1>3. /\ Close(st) \in StructRecords
      /\ Close(st).members = st.members
      /\ Close(st).align = st.align
      /\ Close(st).size = Up(st.size, st.align)
  BY <1>2 DEF Close, IsStruct, StructRecords
<1>4. \A i \in DOMAIN st.members : EndOf(st.members[i]) \in Nat
  <2>1. \A i \in DOMAIN st.members : st.members[i] \in MemberRecords
    BY <1>1
  <2> QED
    BY <2>1 DEF EndOf, MemberRecords
<1>5. Fits(Close(st))
  BY <1>1, <1>2, <1>3, <1>4 DEF Fits, IsStruct
<1> QED
  BY <1>2, <1>3, <1>5 DEF IsStruct

(* The tables are in order, and every struct has its members apart. *)
Typed(s) ==
  /\ s \in [structs : Seq(StructRecords), open : Seq(Nat), errors : BOOLEAN]
  /\ \A i \in DOMAIN s.open : s.open[i] \in DOMAIN s.structs
  /\ \A no \in DOMAIN s.structs : Fits(s.structs[no])

(* A member has the size of its type, which is a struct that nothing changes  *)
(* any more: its body is closed, and it has members.                         *)
Whole(s, m) ==
  /\ m.size = SizeOf(s, m.type) /\ m.align = AlignOf(s, m.type)
  /\ m.type.kind = "struct" =>
       m.type.no \in DOMAIN s.structs \ Range(s.open) /\ IsComplete(s, m.type)

(* Closed structs are rounded up, and members are whole. *)
Finished(s) ==
  /\ \A no \in DOMAIN s.structs \ Range(s.open) :
       s.structs[no].size % s.structs[no].align = 0
  /\ \A no \in DOMAIN s.structs : \A i \in DOMAIN s.structs[no].members :
       Whole(s, s.structs[no].members[i])

LayoutInv ==
  /\ Typed(declared)
  /\ ~declared.errors /\ ~unfinished => Finished(declared)

LEMMA TypedIs ==
  ASSUME NEW s, Typed(s)
  PROVE  /\ s = [structs |-> s.structs, open |-> s.open, errors |-> s.errors]
         /\ s.structs \in Seq(StructRecords) /\ s.open \in Seq(Nat) /\ s.errors \in BOOLEAN
  BY DEF Typed

(* struct_lookup() finds a struct of the table, or nothing. *)
LEMMA LookupIs ==
  ASSUME NEW s, Typed(s), NEW tag
  PROVE  /\ Lookup(s, tag) \in {0} \cup DOMAIN s.structs
         /\ \A no \in DOMAIN s.structs : s.structs[no].tag = tag => Lookup(s, tag) >= no
<1> DEFINE S == {0} \cup {no \in DOMAIN s.structs : s.structs[no].tag = tag}
<1>1. DOMAIN s.structs = 1..Len(s.structs) /\ Len(s.structs) \in Nat
  BY DEF Typed
<1>2. S \in SUBSET (0..Len(s.structs)) /\ S /= {}
  BY <1>1
<1>3. Max(S) \in S /\ \A x \in S : Max(S) >= x
  BY <1>1, <1>2, MaxIsIn
<1> QED
  BY <1>3 DEF Lookup

(* struct_register(): nothing else changes. *)
LEMMA RegisterKeeps ==
  ASSUME NEW s, Typed(s), NEW tag \in Tags
  PROVE  LET t == Register(s, tag)
         IN  /\ Typed(t) /\ t.errors = s.errors /\ t.open = s.open
             /\ Lookup(t, tag) \in DOMAIN t.structs
             /\ t.structs[Lookup(t, tag)] = NewStruct(tag)
             /\ Finished(s) => Finished(t)
<1> DEFINE t == Register(s, tag)
           n == Len(s.structs)
<1>1. /\ s \in [structs : Seq(StructRecords), open : Seq(Nat), errors : BOOLEAN]
      /\ s.structs \in Seq(StructRecords) /\ n \in Nat
      /\ DOMAIN s.structs = 1..n
  BY DEF Typed
<1>2. NewStruct(tag) \in StructRecords /\ Fits(NewStruct(tag))
  BY NewStructFits DEF IsStruct
<1>3. /\ t \in [structs : Seq(StructRecords), open : Seq(Nat), errors : BOOLEAN]
      /\ t.structs = Append(s.structs, NewStruct(tag))
      /\ t.open = s.open /\ t.errors = s.errors
  <2> DEFINE more == Append(s.structs, NewStruct(tag))
  <2>1. more \in Seq(StructRecords)
    BY <1>1, <1>2
  <2>2. t = [s EXCEPT !.structs = more]
    BY DEF Register
  <2> HIDE DEF more
  <2>3. t = [structs |-> more, open |-> s.open, errors |-> s.errors]
    BY <2>2, TypedIs
  <2>4. t \in [structs : Seq(StructRecords), open : Seq(Nat), errors : BOOLEAN]
    BY <2>1, <2>3, TypedIs
  <2> QED
    BY <2>3, <2>4 DEF more
<1> HIDE DEF t
<1>4. /\ DOMAIN t.structs = 1..(n + 1)
      /\ t.structs[n + 1] = NewStruct(tag)
      /\ \A no \in 1..n : t.structs[no] = s.structs[no]
  BY <1>1, <1>2, <1>3
<1>5. Typed(t)
  <2>1. \A i \in DOMAIN t.open : t.open[i] \in DOMAIN t.structs
    BY <1>1, <1>3, <1>4 DEF Typed
  <2>2. \A no \in 1..(n + 1) : Fits(t.structs[no])
    <3>1. \A no \in 1..n : Fits(s.structs[no])
      BY <1>1 DEF Typed
    <3>2. \A no \in 1..(n + 1) : no \in 1..n \/ no = n + 1
      BY <1>1
    <3> QED
      BY <1>2, <1>4, <3>1, <3>2
  <2> QED
    BY <1>3, <1>4, <2>1, <2>2 DEF Typed
<1>6. Lookup(t, tag) = n + 1
  <2>1. t.structs[n + 1].tag = tag
    BY <1>4 DEF NewStruct
  <2>2. Lookup(t, tag) >= n + 1 /\ Lookup(t, tag) \in {0} \cup 1..(n + 1)
    BY <1>1, <1>4, <1>5, <2>1, LookupIs
  <2> QED
    BY <1>1, <2>2
<1>7. ASSUME Finished(s) PROVE Finished(t)
  <2>1. ASSUME NEW m, Whole(s, m)
        PROVE  Whole(t, m)
    <3>1. CASE m.type.kind = "struct"
      <4>1. m.type.no \in 1..n /\ m.type.no \in 1..(n + 1) /\ m.type.no \notin Range(t.open)
        BY <1>1, <1>3, <2>1, <3>1 DEF Whole
      <4>2. t.structs[m.type.no] = s.structs[m.type.no]
        BY <1>4, <4>1
      <4> QED
        BY <1>4, <2>1, <3>1, <4>1, <4>2 DEF Whole, SizeOf, AlignOf, IsComplete
    <3>2. CASE m.type.kind /= "struct"
      BY <2>1, <3>2 DEF Whole, SizeOf, AlignOf
    <3> QED
      BY <3>1, <3>2
  <2>2. ASSUME NEW no \in 1..n, NEW i \in DOMAIN s.structs[no].members
        PROVE  Whole(t, s.structs[no].members[i])
    <3>1. Whole(s, s.structs[no].members[i])
      BY <1>1, <1>7 DEF Finished
    <3> QED
      BY <2>1, <3>1
  <2>3. NewStruct(tag).members = <<>> /\ NewStruct(tag).size % NewStruct(tag).align = 0
    BY DEF NewStruct
  <2>4. \A no \in 1..(n + 1) : no \in 1..n \/ no = n + 1
    BY <1>1
  <2> QED
    BY <1>1, <1>3, <1>4, <1>7, <2>2, <2>3, <2>4 DEF Finished
<1> QED
  BY <1>1, <1>3, <1>4, <1>5, <1>6, <1>7 DEF t

(* struct_add_member(), as parse_type_specifier() calls it for the body at    *)
(* work: that struct alone changes, and nobody has it as a member.           *)
LEMMA DeclareMemberKeeps ==
  ASSUME NEW s, Typed(s), s.open /= <<>>,
         NEW type \in Types, type.kind = "struct" => type.no \in DOMAIN s.structs
  PROVE  LET t == DeclareMember(s, type)
         IN  /\ Typed(t) /\ (s.errors => t.errors)
             /\ Finished(s) /\ ~t.errors /\ ~TakesUnfinished(t) => Finished(t)
<1> DEFINE no == Last(s.open)
           whole == type /= Struct(no) /\ IsComplete(s, type)
           had == SizeOf(s, type)
           size == IF had > 0 THEN had ELSE 8
           align == AlignOf(s, type)
           old == s.structs[no]
           new == AddMember(old, type, size, align)
           t == DeclareMember(s, type)
           m == Last(new.members)
<1>1. /\ s \in [structs : Seq(StructRecords), open : Seq(Nat), errors : BOOLEAN]
      /\ s.structs \in Seq(StructRecords) /\ s.open \in Seq(Nat)
      /\ Len(s.open) \in 1..Len(s.open) /\ no = s.open[Len(s.open)]
      /\ no \in DOMAIN s.structs /\ no \in Range(s.open)
  BY DEF Typed, Last, Range
<1>2. old \in StructRecords /\ IsStruct(old)
  BY <1>1 DEF Typed, IsStruct
<1>3. had \in Nat /\ size \in Nat \ {0} /\ align \in {1, 8}
  <2>1. ASSUME type.kind = "struct"
        PROVE  s.structs[type.no].size \in Nat /\ s.structs[type.no].align \in {1, 8}
    <3>1. s.structs[type.no] \in StructRecords
      BY <1>1, <2>1
    <3> QED
      BY <3>1 DEF StructRecords
  <2> QED
    BY <2>1 DEF SizeOf, AlignOf
<1> HIDE DEF had, size, align
<1>4. IsStruct(new)
  BY <1>2, <1>3, AddMemberFits
<1>5. /\ new.members = Append(old.members, [type |-> type, offset |-> Up(old.size, align),
                                            size |-> size, align |-> align])
      /\ old.members \in Seq(MemberRecords)
  BY <1>2 DEF AddMember, StructRecords
<1>6. /\ Len(new.members) = Len(old.members) + 1 /\ Len(old.members) \in Nat
      /\ \A i \in 1..Len(old.members) : new.members[i] = old.members[i]
      /\ m = new.members[Len(old.members) + 1]
      /\ m = [type |-> type, offset |-> Up(old.size, align), size |-> size, align |-> align]
      /\ new.members /= <<>> /\ DOMAIN new.members = 1..(Len(old.members) + 1)
  <2>1. /\ Len(new.members) = Len(old.members) + 1 /\ Len(old.members) \in Nat
        /\ \A i \in 1..Len(old.members) : new.members[i] = old.members[i]
        /\ new.members[Len(old.members) + 1]
             = [type |-> type, offset |-> Up(old.size, align), size |-> size, align |-> align]
        /\ new.members /= <<>> /\ DOMAIN new.members = 1..(Len(old.members) + 1)
    <3> DEFINE last == [type |-> type, offset |-> Up(old.size, align),
                        size |-> size, align |-> align]
    <3>1. new.members = Append(old.members, last) /\ old.members \in Seq(MemberRecords)
      BY <1>5
    <3> HIDE DEF last, new, old
    <3>2. /\ Len(new.members) = Len(old.members) + 1 /\ Len(old.members) \in Nat
          /\ \A i \in 1..Len(old.members) : new.members[i] = old.members[i]
          /\ new.members[Len(old.members) + 1] = last
          /\ new.members /= <<>> /\ DOMAIN new.members = 1..(Len(old.members) + 1)
      BY ONLY <3>1
    <3> QED
      BY <3>2 DEF last
  <2> QED
    BY <2>1 DEF Last
<1>7. t = [s EXCEPT !.structs[no] = new, !.errors = @ \/ ~whole]
  BY DEF DeclareMember, had, size, align
<1> HIDE DEF old, new, t, m
<1>8. /\ t \in [structs : Seq(StructRecords), open : Seq(Nat), errors : BOOLEAN]
      /\ t.structs = [s.structs EXCEPT ![no] = new]
      /\ t.open = s.open /\ t.errors = (s.errors \/ ~whole)
  <2>1. [s.structs EXCEPT ![no] = new] \in Seq(StructRecords)
    BY <1>1, <1>4 DEF IsStruct
  <2>2. /\ t.structs = [s.structs EXCEPT ![no] = new]
        /\ t.open = s.open /\ t.errors = (s.errors \/ ~whole)
    BY <1>1, <1>7, Zenon
  <2>3. s.errors \in BOOLEAN /\ (s.errors \/ ~whole) \in BOOLEAN
    BY <1>1
  <2> QED
    BY <1>1, <1>7, <2>1, <2>2, <2>3
<1>9. /\ DOMAIN t.structs = DOMAIN s.structs /\ t.structs[no] = new
      /\ \A other \in DOMAIN s.structs : other /= no => t.structs[other] = s.structs[other]
  BY <1>1, <1>8
<1>10. Typed(t)
  BY <1>1, <1>4, <1>8, <1>9 DEF Typed, IsStruct
<1>11. ASSUME Finished(s), ~t.errors, ~TakesUnfinished(t) PROVE Finished(t)
  <2>1. whole
    BY <1>8, <1>11
  <2>2. ASSUME NEW w, w.type.kind = "struct" => w.type.no \in DOMAIN s.structs \ Range(s.open),
               Whole(s, w)
        PROVE  Whole(t, w)
    <3>1. CASE w.type.kind = "struct"
      <4>1. w.type.no \in DOMAIN s.structs \ Range(s.open) /\ w.type.no /= no
        BY <1>1, <2>2, <3>1
      <4>2. t.structs[w.type.no] = s.structs[w.type.no]
        BY <1>9, <4>1
      <4> QED
        BY <1>8, <1>9, <2>2, <3>1, <4>1, <4>2 DEF Whole, SizeOf, AlignOf, IsComplete
    <3>2. CASE w.type.kind /= "struct"
      BY <2>2, <3>2 DEF Whole, SizeOf, AlignOf
    <3> QED
      BY <3>1, <3>2
  <2>3. \A other \in DOMAIN s.structs : \A i \in DOMAIN s.structs[other].members :
          Whole(t, s.structs[other].members[i])
    BY <1>11, <2>2 DEF Finished, Whole
  <2>4. Whole(t, m)
    <3>1. m.type = type /\ m.size = size /\ m.align = align
      BY <1>6
    <3>2. type.kind = "struct" => type.no \in DOMAIN s.structs \ Range(s.open)
      <4>1. Last(t.open) = no /\ t.open /= <<>>
        BY <1>8
      <4>2. t.structs[no].members = new.members /\ new.members /= <<>>
        BY <1>6, <1>9
      <4>3. ~(type.kind = "struct" /\ type.no \in Range(t.open))
        BY <1>11, <3>1, <4>1, <4>2 DEF TakesUnfinished, m
      <4> QED
        BY <1>8, <4>3
    <3>3. had > 0
      BY <2>1 DEF IsComplete, SizeOf, had
    <3>4. size = SizeOf(s, type) /\ align = AlignOf(s, type)
      BY <3>3 DEF size, had, align
    <3>5. Whole(s, m)
      BY <2>1, <3>1, <3>2, <3>4 DEF Whole
    <3> QED
      BY <2>2, <3>1, <3>2, <3>5
  <2>5. \A i \in DOMAIN new.members : Whole(t, new.members[i])
    <3>1. \A i \in DOMAIN new.members : i \in 1..Len(old.members) \/ i = Len(old.members) + 1
      BY <1>6
    <3>2. DOMAIN old.members = 1..Len(old.members) /\ old = s.structs[no]
      BY <1>5 DEF old
    <3> QED
      BY <1>1, <1>6, <2>3, <2>4, <3>1, <3>2
  <2>6. \A other \in DOMAIN t.structs \ Range(t.open) :
          t.structs[other].size % t.structs[other].align = 0
    BY <1>1, <1>8, <1>9, <1>11 DEF Finished
  <2> QED
    BY <1>9, <2>3, <2>5, <2>6 DEF Finished
<1> QED
  BY <1>8, <1>10, <1>11 DEF t

(* "struct tag {": the tag has a struct without members now. *)
LEMMA OpenBodyKeeps ==
  ASSUME NEW s, Typed(s), NEW tag \in Tags
  PROVE  LET t == OpenBody(s, tag)
         IN  /\ Typed(t) /\ (s.errors => t.errors)
             /\ Finished(s) /\ ~t.errors => Finished(t)
<1> DEFINE no == Lookup(s, tag)
           again == no /= 0 /\ s.structs[no].members /= <<>>
           u == IF no = 0 \/ again THEN Register(s, tag) ELSE s
           here == Lookup(u, tag)
           t == OpenBody(s, tag)
<1>1. /\ Typed(u) /\ u.errors = s.errors /\ u.open = s.open
      /\ here \in DOMAIN u.structs /\ u.structs[here].members = <<>>
      /\ Finished(s) => Finished(u)
  <2>1. CASE no = 0 \/ again
    <3>1. u = Register(s, tag)
      BY <2>1
    <3>2. NewStruct(tag).members = <<>>
      BY DEF NewStruct
    <3> HIDE DEF u
    <3> QED
      BY <3>1, <3>2, RegisterKeeps
  <2>2. CASE ~(no = 0 \/ again)
    <3>1. u = s
      BY <2>2
    <3>2. no \in {0} \cup DOMAIN s.structs
      BY LookupIs
    <3> HIDE DEF u
    <3> QED
      BY <2>2, <3>1, <3>2
  <2> QED
    BY <2>1, <2>2
<1>2. t = [u EXCEPT !.open = Append(@, here), !.errors = @ \/ again]
  BY DEF OpenBody
<1> HIDE DEF u, here, t
<1>3. /\ u \in [structs : Seq(StructRecords), open : Seq(Nat), errors : BOOLEAN]
      /\ here \in Nat
  BY <1>1 DEF Typed
<1>4. /\ t \in [structs : Seq(StructRecords), open : Seq(Nat), errors : BOOLEAN]
      /\ t.structs = u.structs /\ t.open = Append(u.open, here)
      /\ t.errors = (u.errors \/ again)
  <2> DEFINE more == Append(u.open, here)
             bad == u.errors \/ again
  <2>1. more \in Seq(Nat) /\ bad \in BOOLEAN
    BY <1>3
  <2>2. t = [u EXCEPT !.open = more, !.errors = bad]
    BY <1>2
  <2> HIDE DEF more, bad
  <2>3. /\ u = [structs |-> u.structs, open |-> u.open, errors |-> u.errors]
        /\ u.structs \in Seq(StructRecords)
    BY <1>1, TypedIs
  <2>4. t = [structs |-> u.structs, open |-> more, errors |-> bad]
    BY <2>2, <2>3
  <2>5. t \in [structs : Seq(StructRecords), open : Seq(Nat), errors : BOOLEAN]
    BY <2>1, <2>3, <2>4
  <2> QED
    BY <2>4, <2>5 DEF more, bad
<1>5. /\ DOMAIN t.open = 1..(Len(u.open) + 1) /\ t.open[Len(u.open) + 1] = here
      /\ Len(u.open) \in Nat /\ DOMAIN u.open = 1..Len(u.open)
      /\ \A i \in 1..Len(u.open) : t.open[i] = u.open[i]
  BY <1>3, <1>4
<1>6. \A i \in DOMAIN t.open : i \in DOMAIN u.open \/ i = Len(u.open) + 1
  BY <1>5
<1>7. Typed(t)
  BY <1>1, <1>4, <1>5, <1>6 DEF Typed
<1>8. /\ Range(u.open) \subseteq Range(t.open)
      /\ \A x \in Range(t.open) : x \in Range(u.open) \/ x = here
  <2>1. \A i \in DOMAIN u.open : i \in DOMAIN t.open /\ t.open[i] = u.open[i]
    BY <1>5
  <2>2. \A i \in DOMAIN t.open : (i \in DOMAIN u.open /\ t.open[i] = u.open[i]) \/ t.open[i] = here
    BY <1>5, <1>6, <2>1
  <2>3. Range(u.open) \subseteq Range(t.open)
    BY <2>1, Zenon DEF Range
  <2>4. \A x \in Range(t.open) : x \in Range(u.open) \/ x = here
    BY <2>2, Zenon DEF Range
  <2> QED
    BY <2>3, <2>4
<1>9. ASSUME Finished(s), ~t.errors PROVE Finished(t)
  <2>1. Finished(u)
    BY <1>1, <1>9
  <2>2. ASSUME NEW w, Whole(u, w) PROVE Whole(t, w)
    BY <1>1, <1>4, <1>8, <2>2 DEF Whole, SizeOf, AlignOf, IsComplete
  <2> QED
    BY <1>4, <1>8, <2>1, <2>2 DEF Finished
<1> QED
  BY <1>1, <1>4, <1>7, <1>9 DEF t

(* "}": the innermost body is rounded up, and is closed unless a body of the  *)
(* same tag is open around it.                                               *)
Ended(s) == [s EXCEPT !.structs[Last(s.open)] = Close(@), !.open = Front(@)]

LEMMA EndKeeps ==
  ASSUME NEW s, Typed(s), s.open /= <<>>
  PROVE  LET t == Ended(s)
         IN  /\ Typed(t) /\ t.errors = s.errors
             /\ DOMAIN t.structs = DOMAIN s.structs /\ Last(s.open) \in DOMAIN s.structs
             /\ Finished(s) => Finished(t)
<1> DEFINE t == Ended(s)
           no == Last(s.open)
           n == Len(s.open)
           new == Close(s.structs[no])
           table == [s.structs EXCEPT ![no] = new]
           inner == Front(s.open)
<1>1. /\ s.structs \in Seq(StructRecords) /\ s.open \in Seq(Nat) /\ s.errors \in BOOLEAN
      /\ n \in Nat \ {0} /\ no = s.open[n] /\ no \in DOMAIN s.structs
  BY TypedIs DEF Typed, Last
<1>2. IsStruct(s.structs[no])
  BY <1>1 DEF Typed, IsStruct
<1>3. IsStruct(new) /\ new.size % new.align = 0
  BY <1>2, CloseFits
<1>4. new.members = s.structs[no].members
  <2>1. s.structs[no] \in StructRecords
    BY <1>2 DEF IsStruct
  <2> QED
    BY <2>1 DEF Close, StructRecords
<1>5. /\ inner \in Seq(Nat) /\ Len(inner) = n - 1
      /\ \A i \in 1..(n - 1) : inner[i] = s.open[i]
      /\ DOMAIN inner = 1..(n - 1) /\ DOMAIN s.open = 1..n
  BY <1>1 DEF Front
<1> HIDE DEF new, inner
<1>6. table \in Seq(StructRecords)
  BY <1>1, <1>3 DEF IsStruct
<1>7. t = [structs |-> table, open |-> inner, errors |-> s.errors]
  <2>1. t = [s EXCEPT !.structs = table, !.open = inner]
    BY DEF new, inner, Ended
  <2>2. s = [structs |-> s.structs, open |-> s.open, errors |-> s.errors]
    BY TypedIs
  <2> HIDE DEF table, t
  <2> QED
    BY <2>1, <2>2
<1>8. /\ t.structs = table /\ t.open = inner /\ t.errors = s.errors
      /\ t \in [structs : Seq(StructRecords), open : Seq(Nat), errors : BOOLEAN]
  <2> HIDE DEF table, t
  <2>1. t.structs = table /\ t.open = inner /\ t.errors = s.errors
    BY <1>7
  <2> QED
    BY <1>1, <1>5, <1>6, <1>7
<1>9. /\ DOMAIN t.structs = DOMAIN s.structs /\ t.structs[no] = new
      /\ \A other \in DOMAIN s.structs : other /= no => t.structs[other] = s.structs[other]
  BY <1>1, <1>8
<1> HIDE DEF table, no, t
<1>10. \A i \in 1..(n - 1) : i \in 1..n /\ t.open[i] = s.open[i]
  <2>1. n \in Nat
    BY <1>1
  <2> HIDE DEF n
  <2>2. \A i \in 1..(n - 1) : i \in 1..n
    BY <2>1
  <2> QED
    BY <1>5, <1>8, <2>2
<1>11. Typed(t)
  <2>1. \A i \in DOMAIN t.open : i \in DOMAIN s.open /\ t.open[i] = s.open[i]
    BY <1>5, <1>8, <1>10
  <2> QED
    BY <1>3, <1>8, <1>9, <2>1 DEF Typed, IsStruct
<1>12. /\ no \in Range(s.open) /\ Range(t.open) \subseteq Range(s.open)
       /\ \A x \in Range(s.open) : x \in Range(t.open) \/ x = no
  <2>1. \A i \in DOMAIN s.open : i = n \/ i \in 1..(n - 1)
    BY <1>1
  <2>2. DOMAIN t.open = 1..(n - 1) /\ DOMAIN s.open = 1..n
    BY <1>1, <1>5, <1>8
  <2>3. no \in Range(s.open)
    BY <1>1, <2>2 DEF Range
  <2>4. ASSUME NEW x \in Range(t.open) PROVE x \in Range(s.open)
    <3>1. PICK i \in 1..(n - 1) : x = t.open[i]
      BY <2>2 DEF Range
    <3>2. i \in 1..n /\ x = s.open[i]
      BY <1>10, <3>1
    <3> QED
      BY <2>2, <3>2 DEF Range
  <2>5. ASSUME NEW x \in Range(s.open) PROVE x \in Range(t.open) \/ x = no
    <3>1. PICK i \in DOMAIN s.open : x = s.open[i]
      BY DEF Range
    <3>2. CASE i = n
      BY <1>1, <3>1, <3>2
    <3>3. CASE i \in 1..(n - 1)
      <4>1. i \in DOMAIN t.open /\ x = t.open[i]
        BY <1>5, <1>8, <2>2, <3>1, <3>3
      <4> QED
        BY <4>1 DEF Range
    <3> QED
      BY <2>1, <3>2, <3>3
  <2> QED
    BY <2>3, <2>4, <2>5
<1>13. ASSUME Finished(s) PROVE Finished(t)
  <2>1. ASSUME NEW w, Whole(s, w) PROVE Whole(t, w)
    <3>1. CASE w.type.kind = "struct"
      <4>1. w.type.no \in DOMAIN s.structs /\ w.type.no \notin Range(s.open)
        BY <2>1, <3>1 DEF Whole
      <4>2. t.structs[w.type.no] = s.structs[w.type.no] /\ w.type.no \notin Range(t.open)
        BY <1>9, <1>12, <4>1
      <4> QED
        BY <1>9, <2>1, <3>1, <4>1, <4>2 DEF Whole, SizeOf, AlignOf, IsComplete
    <3>2. CASE w.type.kind /= "struct"
      BY <2>1, <3>2 DEF Whole, SizeOf, AlignOf
    <3> QED
      BY <3>1, <3>2
  <2>2. \A other \in DOMAIN t.structs : t.structs[other].members = s.structs[other].members
    BY <1>4, <1>9
  <2> QED
    BY <1>3, <1>9, <1>12, <1>13, <2>1, <2>2 DEF Finished
<1> QED
  BY <1>1, <1>8, <1>9, <1>11, <1>13 DEF t, no

(* Every item of a file keeps the invariant. *)
LEMMA ReadKeeps ==
  ASSUME LayoutInv, NEW s, Read(s), Typed(s), declared.errors => s.errors,
         Finished(declared) /\ ~s.errors /\ ~TakesUnfinished(s) => Finished(s)
  PROVE  LayoutInv'
<1>1. declared' = s /\ unfinished' = (unfinished \/ TakesUnfinished(s))
  BY DEF Read
<1>2. ~declared.errors /\ ~unfinished => Finished(declared)
  BY DEF LayoutInv
<1> QED
  BY <1>1, <1>2 DEF LayoutInv

(* The types there are. *)
LEMMA TypesAre ==
  /\ Char \in Types /\ Char.kind /= "struct"
  /\ Ptr \in Types /\ Ptr.kind /= "struct"
  /\ \A no \in Nat : Struct(no) \in Types /\ Struct(no).no = no
<1>1. Char \in Types /\ Char.kind /= "struct"
  BY DEF Char, Types
<1>2. Ptr \in Types /\ Ptr.kind /= "struct"
  BY DEF Ptr, Types
<1>3. \A no \in Nat : Struct(no) \in Types /\ Struct(no).no = no
  BY DEF Struct, Types
<1> QED
  BY <1>1, <1>2, <1>3

LEMMA StepLayout ==
  ASSUME LayoutInv, [LayoutNext]_lvars
  PROVE  LayoutInv'
<1>1. Typed(declared)
  BY DEF LayoutInv
<1>2. CASE BeginBody
  <2>1. PICK tag \in Tags : Read(OpenBody(declared, tag))
    BY <1>2 DEF BeginBody
  <2> QED
    BY <1>1, <2>1, OpenBodyKeeps, ReadKeeps
<1>3. CASE ScalarMember
  <2>1. PICK type \in {Char, Ptr} : Read(DeclareMember(declared, type))
    BY <1>3 DEF ScalarMember
  <2>2. type \in Types /\ type.kind /= "struct"
    BY TypesAre
  <2>3. declared.open /= <<>>
    BY <1>3 DEF ScalarMember, InBody
  <2> QED
    BY <1>1, <2>1, <2>2, <2>3, DeclareMemberKeeps, ReadKeeps
<1>4. CASE TaggedMember
  <2>1. PICK tag \in Tags : Read(DeclareTagged(declared, tag))
    BY <1>4 DEF TaggedMember
  <2>2. declared.open /= <<>>
    BY <1>4 DEF TaggedMember, InBody
  <2> DEFINE u == IF Lookup(declared, tag) = 0 THEN Register(declared, tag) ELSE declared
             type == Struct(Lookup(u, tag))
  <2>3. /\ Typed(u) /\ u.errors = declared.errors /\ u.open = declared.open
        /\ Lookup(u, tag) \in DOMAIN u.structs
        /\ Finished(declared) => Finished(u)
    <3>1. CASE Lookup(declared, tag) = 0
      <4>1. u = Register(declared, tag)
        BY <3>1
      <4> HIDE DEF u
      <4> QED
        BY <1>1, <4>1, RegisterKeeps
    <3>2. CASE Lookup(declared, tag) /= 0
      BY <1>1, <3>2, LookupIs
    <3> QED
      BY <3>1, <3>2
  <2>4. DeclareTagged(declared, tag) = DeclareMember(u, type)
    BY DEF DeclareTagged
  <2> HIDE DEF u
  <2>5. type \in Types /\ type.no \in DOMAIN u.structs
    <3>1. u.structs \in Seq(StructRecords)
      BY <2>3, TypedIs
    <3>2. Lookup(u, tag) \in Nat
      BY <2>3, <3>1
    <3> QED
      BY <2>3, <3>2, TypesAre
  <2> HIDE DEF type
  <2> DEFINE t == DeclareMember(u, type)
  <2>6. /\ Typed(t) /\ (u.errors => t.errors)
        /\ Finished(u) /\ ~t.errors /\ ~TakesUnfinished(t) => Finished(t)
    BY <2>2, <2>3, <2>5, DeclareMemberKeeps
  <2>7. Read(t)
    BY <2>1, <2>4
  <2> HIDE DEF t
  <2> QED
    BY <2>3, <2>6, <2>7, ReadKeeps
<1>5. CASE EndBody
  <2>1. PICK pointer \in BOOLEAN : Read(CloseBody(declared, pointer))
    BY <1>5 DEF EndBody
  <2>2. declared.open /= <<>>
    BY <1>5 DEF EndBody, InBody
  <2> DEFINE no == Last(declared.open)
             u == Ended(declared)
             type == IF pointer THEN Ptr ELSE Struct(no)
  <2>3. /\ Typed(u) /\ u.errors = declared.errors
        /\ DOMAIN u.structs = DOMAIN declared.structs /\ no \in DOMAIN declared.structs
        /\ Finished(declared) => Finished(u)
    BY <1>1, <2>2, EndKeeps
  <2>4. CloseBody(declared, pointer) = IF u.open = <<>> THEN u ELSE DeclareMember(u, type)
    BY DEF CloseBody, Ended
  <2> HIDE DEF u
  <2>5. CASE u.open = <<>>
    <3>1. Read(u)
      BY <2>1, <2>4, <2>5
    <3> QED
      BY <2>3, <3>1, ReadKeeps
  <2>6. CASE u.open /= <<>>
    <3>1. type \in Types /\ (type.kind = "struct" => type.no \in DOMAIN u.structs)
      <4>1. declared.structs \in Seq(StructRecords)
        BY <1>1, TypedIs
      <4>2. no \in Nat
        BY <2>3, <4>1
      <4> HIDE DEF no
      <4> QED
        BY <2>3, <4>2, TypesAre
    <3> HIDE DEF type
    <3> DEFINE t == DeclareMember(u, type)
    <3>2. /\ Typed(t) /\ (u.errors => t.errors)
          /\ Finished(u) /\ ~t.errors /\ ~TakesUnfinished(t) => Finished(t)
      BY <2>3, <2>6, <3>1, DeclareMemberKeeps
    <3>3. Read(t)
      BY <2>1, <2>4, <2>6
    <3> HIDE DEF t
    <3> QED
      BY <2>3, <3>2, <3>3, ReadKeeps
  <2> QED
    BY <2>5, <2>6
<1>6. CASE UNCHANGED lvars
  BY <1>6 DEF lvars, LayoutInv
<1> QED
  BY <1>2, <1>3, <1>4, <1>5, <1>6 DEF LayoutNext

(* In every file of struct definitions the members of a struct keep apart with *)
(* the sizes their types have in the end, and lie within the struct's size;   *)
(* but for files with errors, and members of a struct that is being defined. *)
THEOREM LayoutSoundHolds == LayoutSpec => []LayoutSound
<1>1. LayoutInit => LayoutInv
  BY DEF LayoutInit, LayoutInv, Nothing, Typed, Finished
<1>2. LayoutInv /\ [LayoutNext]_lvars => LayoutInv'
  BY StepLayout
<1>3. LayoutInv => LayoutSound
  BY DEF LayoutInv, LayoutSound, Typed, Finished, Whole
<1> QED
  BY <1>1, <1>2, <1>3, PTL DEF LayoutSpec
=============================================================================
