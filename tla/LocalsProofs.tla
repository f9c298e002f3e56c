----------------------------- MODULE LocalsProofs -----------------------------
(***************************************************************************)
(* Proofs about Scopes, for any names, any number of declarations and any    *)
(* depth of nesting: names bind as C says, and the slots of a frame are      *)
(* disjoint as long as their bytes are an int.  Then proofs about            *)
(* DeadStores, for bodies of any length over any variables: what is pruned   *)
(* cannot be told from what was written.                                     *)
(***************************************************************************)
EXTENDS DeadStores, FiniteSetTheorems, WellFoundedInduction, TLAPS

(***************************************************************************)
(* Names and slots.                                                        *)
(***************************************************************************)
(* A non-empty set of numbers below a bound has a greatest element: of the    *)
(* sets {y \in T : y >= x}, one is minimal.                                  *)
LEMMA HasGreatest ==
  ASSUME NEW n \in Nat, NEW T, T \subseteq 1..n, T /= {}
  PROVE  \E x \in T : \A y \in T : x >= y
<1> DEFINE Above(x) == {y \in T : y >= x}
           Cones == {Above(x) : x \in T}
           R == StrictSubsetOrdering(T)
<1>1. IsFiniteSet(T)
  <2>1. IsFiniteSet(1..n) BY FS_Interval
  <2> QED BY <2>1, FS_Subset
<1>2. IsWellFoundedOn(R, SUBSET T)
  BY <1>1, FS_FiniteSubsetsOfFinite, FS_StrictSubsetOrderingWellFounded
<1>3. Cones \subseteq SUBSET T /\ Cones /= {}
  OBVIOUS
<1>4. PICK least \in Cones : \A other \in Cones : ~(<<other, least>> \in R)
  <2> HIDE DEF Cones, R
  <2> QED BY <1>2, <1>3, WFMin
<1>5. PICK x \in T : least = Above(x)
  BY <1>4
<1>6. ASSUME NEW y \in T, ~(x >= y) PROVE FALSE
  <2>0. \A z \in T : z \in Int
    OBVIOUS
  <2>1. y > x
    BY <1>6, <2>0
  <2>2. Above(y) \subseteq Above(x)
    <3>1. \A z \in T : z >= y => z >= x
      BY <2>0, <2>1
    <3> QED BY <3>1
  <2>3. x \in Above(x) /\ x \notin Above(y)
    BY <2>0, <2>1
  <2>4. <<Above(y), Above(x)>> \in R
    BY <2>2, <2>3 DEF StrictSubsetOrdering
  <2> QED BY <1>4, <1>5, <2>4
<1> QED BY <1>6

-------------------------------------------------------------------------------
(***************************************************************************)
(* The scope chain.  Chain relates the scopes sc, their numbers op, the      *)
(* largest number n given out and the declared objects ob.                   *)
(***************************************************************************)
(* The symbols of a scope are the objects declared in it, one per name. *)
Matches(scope, number, ob) ==
  /\ \A i \in DOMAIN scope : \E j \in DOMAIN ob :
       ob[j].scope = number /\ Ref(ob[j]) = scope[i]
  /\ \A j \in DOMAIN ob : ob[j].scope = number =>
       \E i \in DOMAIN scope : scope[i] = Ref(ob[j])
  /\ \A i, k \in DOMAIN scope : scope[i].name = scope[k].name => i = k

(* Inner scopes have larger numbers, and their objects came later. *)
Ordered(op, ob) ==
  /\ \A s, t \in DOMAIN op : s < t => op[s] < op[t]
  /\ \A j, k \in DOMAIN ob : \A s, t \in DOMAIN op :
       ob[j].scope = op[s] /\ ob[k].scope = op[t] /\ j <= k => s <= t

(* Scope 0 is the file's, and its objects are the first ones. *)
FileFirst(sc, op, ob) ==
  /\ op[1] = 0
  /\ Len(sc[1]) <= Len(ob)
  /\ \A j \in DOMAIN ob : /\ j <= Len(sc[1]) <=> ob[j].scope = 0
                          /\ ob[j].is_global <=> ob[j].scope = 0

Chain(sc, op, n, ob) ==
  /\ sc \in Seq(Seq(Symbol)) /\ op \in Seq(Nat) /\ ob \in Seq(Object) /\ n \in Nat
  /\ Len(op) = Len(sc) /\ Len(sc) >= 1
  /\ \A s \in DOMAIN op : op[s] <= n
  /\ \A j \in DOMAIN ob : ob[j].scope <= n
  /\ \A s \in DOMAIN sc : Matches(sc[s], op[s], ob)
  /\ Ordered(op, ob)
  /\ FileFirst(sc, op, ob)

(* The reference of an object is a symbol with its name. *)
LEMMA RefType ==
  ASSUME NEW object \in Object
  PROVE  Ref(object) \in Symbol /\ Ref(object).name = object.name
BY DEF Object, Ref, Symbol

(* Putting a symbol at the head of a scope. *)
LEMMA Prepend ==
  ASSUME NEW scope \in Seq(Symbol), NEW symbol \in Symbol
  PROVE  LET longer == <<symbol>> \o scope
         IN  /\ longer \in Seq(Symbol)
             /\ Len(longer) = Len(scope) + 1
             /\ longer[1] = symbol
             /\ \A i \in 1..Len(scope) : longer[i + 1] = scope[i]
             /\ \A i \in 2..Len(longer) : longer[i] = scope[i - 1]
OBVIOUS

(* A fresh name is inserted in the current scope. *)
LEMMA InsertKeepsChain ==
  ASSUME NEW sc, NEW op, NEW n, NEW ob, Chain(sc, op, n, ob),
         NEW object \in Object,
         NEW c, c = Len(sc),
         object.scope = op[c],
         object.is_global <=> c = 1,
         c = 1 => Len(ob) = Len(sc[1]),
         Named(sc[c], object.name) = {}
  PROVE  Chain([sc EXCEPT ![c] = <<Ref(object)>> \o @], op, n, Append(ob, object))
<1> DEFINE symbol == Ref(object)
           longer == <<symbol>> \o sc[c]
           sc2 == [sc EXCEPT ![c] = <<symbol>> \o @]
           ob2 == Append(ob, object)
<1>1. /\ sc \in Seq(Seq(Symbol)) /\ op \in Seq(Nat) /\ ob \in Seq(Object) /\ n \in Nat
      /\ Len(op) = c /\ c \in Nat /\ c >= 1
      /\ DOMAIN sc = 1..c /\ DOMAIN op = 1..c /\ DOMAIN ob = 1..Len(ob) /\ Len(ob) \in Nat
  BY DEF Chain
<1>a. \A s \in 1..c : sc[s] \in Seq(Symbol) /\ op[s] \in Nat
  BY <1>1
<1>b. /\ sc[c] \in Seq(Symbol) /\ c \in 1..c
      /\ DOMAIN sc[c] = 1..Len(sc[c]) /\ Len(sc[c]) \in Nat
  BY <1>1, <1>a
<1>2. symbol \in Symbol /\ symbol.name = object.name
  BY RefType
<1>3. /\ longer \in Seq(Symbol) /\ Len(longer) = Len(sc[c]) + 1
      /\ DOMAIN longer = 1..(Len(sc[c]) + 1)
      /\ longer[1] = symbol
      /\ \A i \in 1..Len(sc[c]) : longer[i + 1] = sc[c][i]
      /\ \A i \in 2..Len(longer) : longer[i] = sc[c][i - 1]
  BY <1>b, <1>2, Prepend
<1>4. /\ sc2 \in Seq(Seq(Symbol)) /\ Len(sc2) = c /\ DOMAIN sc2 = 1..c
      /\ sc2[c] = longer
      /\ \A s \in 1..c : s /= c => sc2[s] = sc[s]
  BY <1>1, <1>3
<1>5. /\ ob2 \in Seq(Object) /\ Len(ob2) = Len(ob) + 1 /\ DOMAIN ob2 = 1..(Len(ob) + 1)
      /\ \A j \in 1..Len(ob) : ob2[j] = ob[j]
      /\ ob2[Len(ob) + 1] = object
  BY <1>1
<1> HIDE DEF longer, sc2, ob2, symbol
<1>6. \A s \in 1..c : op[s] = op[c] <=> s = c
  <2>0. Ordered(op, ob)
    BY DEF Chain
  <2>1. \A s \in 1..c : s < c => op[s] < op[c]
    BY <2>0, <1>1, <1>b DEF Ordered
  <2>2. \A s \in 1..c : s \in Nat /\ s <= c /\ op[s] \in Nat
    BY <1>1, <1>a
  <2>3. \A s \in 1..c : s < c \/ s = c
    BY <2>2, <1>1
  <2> QED BY <2>1, <2>2, <2>3
<1>7. ASSUME NEW s \in 1..c PROVE Matches(sc2[s], op[s], ob2)
  <2>0. Matches(sc[s], op[s], ob)
    BY <1>1, <1>7 DEF Chain
  <2>1. CASE s /= c
    <3>1. sc2[s] = sc[s] /\ op[s] /= op[c]
      BY <2>1, <1>7, <1>4, <1>6
    <3>2. \A j \in 1..Len(ob) : j \in DOMAIN ob /\ j \in DOMAIN ob2 /\ ob2[j] = ob[j]
      BY <1>1, <1>5
    <3>3. \A j \in DOMAIN ob2 : ob2[j].scope = op[s] => j \in DOMAIN ob /\ ob2[j] = ob[j]
      BY <3>1, <1>1, <1>5
    <3>4. \A i \in DOMAIN sc[s] : \E j \in DOMAIN ob2 :
            ob2[j].scope = op[s] /\ Ref(ob2[j]) = sc[s][i]
      <4>1. ASSUME NEW i \in DOMAIN sc[s]
            PROVE \E j \in DOMAIN ob2 : ob2[j].scope = op[s] /\ Ref(ob2[j]) = sc[s][i]
        <5>1. PICK j \in DOMAIN ob : ob[j].scope = op[s] /\ Ref(ob[j]) = sc[s][i]
          BY <4>1, <2>0 DEF Matches
        <5>2. j \in DOMAIN ob2 /\ ob2[j] = ob[j]
          BY <3>2, <1>1
        <5> QED BY <5>1, <5>2
      <4> QED BY <4>1
    <3>5. \A j \in DOMAIN ob2 : ob2[j].scope = op[s] =>
            \E i \in DOMAIN sc[s] : sc[s][i] = Ref(ob2[j])
      BY <3>3, <2>0 DEF Matches
    <3>6. \A i, k \in DOMAIN sc[s] : sc[s][i].name = sc[s][k].name => i = k
      BY <2>0 DEF Matches
    <3> QED BY <3>1, <3>4, <3>5, <3>6 DEF Matches
  <2>2. CASE s = c
    <3>0. DOMAIN sc[c] = 1..Len(sc[c]) /\ Len(sc[c]) \in Nat /\ Matches(sc[c], op[c], ob)
      BY <1>b, <2>0, <2>2
    <3>1. ASSUME NEW i \in DOMAIN longer
          PROVE \E j \in DOMAIN ob2 : ob2[j].scope = op[c] /\ Ref(ob2[j]) = longer[i]
      <4>1. CASE i = 1
        <5>1. Len(ob) + 1 \in DOMAIN ob2 /\ ob2[Len(ob) + 1] = object
          BY <1>1, <1>5
        <5>2. ob2[Len(ob) + 1].scope = op[c] /\ Ref(ob2[Len(ob) + 1]) = symbol
          BY <5>1 DEF symbol
        <5> QED BY <4>1, <5>1, <5>2, <1>3
      <4>2. CASE i /= 1
        <5>1. i - 1 \in DOMAIN sc[c] /\ longer[i] = sc[c][i - 1]
          BY <3>0, <3>1, <4>2, <1>3
        <5>2. PICK j \in DOMAIN ob : ob[j].scope = op[c] /\ Ref(ob[j]) = sc[c][i - 1]
          BY <3>0, <5>1 DEF Matches
        <5> QED BY <1>1, <1>5, <5>1, <5>2
      <4> QED BY <4>1, <4>2
    <3>2. ASSUME NEW j \in DOMAIN ob2, ob2[j].scope = op[c]
          PROVE \E i \in DOMAIN longer : longer[i] = Ref(ob2[j])
      <4>1. CASE j = Len(ob) + 1
        <5>1. ob2[j] = object /\ Ref(object) = symbol
          BY <4>1, <1>5 DEF symbol
        <5>2. 1 \in DOMAIN longer /\ longer[1] = symbol
          BY <3>0, <1>3
        <5> QED BY <5>1, <5>2
      <4>2. CASE j /= Len(ob) + 1
        <5>1. j \in DOMAIN ob /\ ob2[j] = ob[j]
          BY <4>2, <3>2, <1>1, <1>5
        <5>2. PICK i \in DOMAIN sc[c] : sc[c][i] = Ref(ob[j])
          BY <5>1, <3>0, <3>2 DEF Matches
        <5> QED BY <5>1, <5>2, <3>0, <1>3, SMTT(30)
      <4> QED BY <4>1, <4>2
    <3>3. ASSUME NEW i \in DOMAIN longer, NEW k \in DOMAIN longer,
                 longer[i].name = longer[k].name
          PROVE i = k
      <4>1. \A m \in 1..Len(sc[c]) : sc[c][m].name /= symbol.name
        BY <3>0, <1>2 DEF Named
      <4>2. \A m \in 2..Len(longer) : m - 1 \in 1..Len(sc[c]) /\ longer[m] = sc[c][m - 1]
        BY ONLY <1>3, <1>b
      <4>3. i \in 1..Len(longer) /\ k \in 1..Len(longer) /\ Len(longer) \in Nat
        BY <3>0, <3>3, <1>3
      <4>4. CASE i = 1 \/ k = 1
        <5>1. \A m \in 2..Len(longer) : longer[m].name /= symbol.name
          BY <4>1, <4>2
        <5>2. \A m \in 1..Len(longer) : m = 1 \/ m \in 2..Len(longer)
          BY <4>3
        <5> QED BY <5>1, <5>2, <4>3, <4>4, <3>3, <1>3
      <4>5. CASE i /= 1 /\ k /= 1
        <5>1. i - 1 \in DOMAIN sc[c] /\ k - 1 \in DOMAIN sc[c]
              /\ sc[c][i - 1].name = sc[c][k - 1].name
          BY <4>2, <4>3, <4>5, <3>0, <3>3, SMTT(30)
        <5>2. i - 1 = k - 1
          BY <5>1, <3>0 DEF Matches
        <5> QED BY <5>2, <4>3
      <4> QED BY <4>4, <4>5
    <3> QED BY <3>1, <3>2, <3>3, <2>2, <1>4 DEF Matches
  <2> QED BY <2>1, <2>2
<1>8. Ordered(op, ob2)
  <2>0. Ordered(op, ob)
    BY DEF Chain
  <2>1. ASSUME NEW j \in DOMAIN ob2, NEW k \in DOMAIN ob2, NEW s \in DOMAIN op, NEW t \in DOMAIN op,
               ob2[j].scope = op[s], ob2[k].scope = op[t], j <= k
        PROVE s <= t
    <3>1. CASE k = Len(ob) + 1
      <4>1. ob2[k].scope = op[c]
        BY <3>1, <1>1, <1>5
      <4>2. s \in 1..c /\ t \in 1..c
        BY <2>1, <1>1
      <4>3. t = c
        BY <2>1, <4>1, <4>2, <1>6
      <4> QED BY <4>2, <4>3
    <3>2. CASE k /= Len(ob) + 1
      <4>a. DOMAIN ob = 1..Len(ob) /\ Len(ob) \in Nat
        BY <1>1
      <4>b. j \in 1..Len(ob) /\ k \in 1..Len(ob)
        BY ONLY <4>a, <3>2, <2>1, <1>5
      <4>1. j \in DOMAIN ob /\ k \in DOMAIN ob /\ ob2[j] = ob[j] /\ ob2[k] = ob[k]
        BY ONLY <4>a, <4>b, <1>5
      <4> QED BY <4>1, <2>0, <2>1 DEF Ordered
    <3> QED BY <3>1, <3>2
  <2> QED BY <2>0, <2>1 DEF Ordered
<1>9. FileFirst(sc2, op, ob2)
  <2>0. FileFirst(sc, op, ob) /\ sc[1] \in Seq(Symbol) /\ Len(sc[1]) \in Nat
    BY <1>1 DEF Chain
  <2>1. CASE c = 1
    <3>1. Len(sc2[1]) = Len(ob) + 1
      BY <2>1, <1>3, <1>4
    <3>2. object.scope = 0 /\ object.is_global
      BY <2>0, <2>1 DEF FileFirst
    <3>3. \A j \in DOMAIN ob2 : /\ j <= Len(sc2[1]) <=> ob2[j].scope = 0
                                /\ ob2[j].is_global <=> ob2[j].scope = 0
      <4>1. \A j \in DOMAIN ob : ob[j].scope = 0 /\ ob[j].is_global
        BY <2>0, <2>1, <1>1 DEF FileFirst
      <4>2. \A j \in DOMAIN ob2 : ob2[j].scope = 0 /\ ob2[j].is_global /\ j <= Len(ob) + 1
        <5>1. ASSUME NEW j \in DOMAIN ob2
              PROVE ob2[j].scope = 0 /\ ob2[j].is_global /\ j <= Len(ob) + 1
          <6>1. CASE j \in DOMAIN ob
            BY <4>1, <6>1, <1>1, <1>5
          <6>2. CASE j \notin DOMAIN ob
            <7>1. j = Len(ob) + 1
              BY <5>1, <6>2, <1>1, <1>5
            <7> QED BY <7>1, <3>2, <1>1, <1>5
          <6> QED BY <6>1, <6>2
        <5> QED BY <5>1
      <4> QED BY <4>2, <3>1
    <3> QED BY <2>0, <3>1, <3>3, <1>1, <1>5 DEF FileFirst
  <2>2. CASE c /= 1
    <3>1. sc2[1] = sc[1] /\ op[c] /= op[1] /\ op[1] = 0
      BY <2>0, <2>2, <1>1, <1>4, <1>6 DEF FileFirst
    <3>2. ~object.is_global /\ object.scope /= 0
      BY <2>2, <3>1
    <3>3. ASSUME NEW j \in DOMAIN ob2
          PROVE /\ j <= Len(sc[1]) <=> ob2[j].scope = 0
                /\ ob2[j].is_global <=> ob2[j].scope = 0
      <4>1. CASE j = Len(ob) + 1
        BY <4>1, <3>2, <2>0, <1>1, <1>5 DEF FileFirst
      <4>2. CASE j /= Len(ob) + 1
        <5>1. j \in DOMAIN ob /\ ob2[j] = ob[j]
          BY <4>2, <1>1, <1>5
        <5> QED BY ONLY <5>1, <2>0 DEF FileFirst
      <4> QED BY <4>1, <4>2
    <3> QED BY <3>1, <3>3, <2>0, <1>1, <1>5 DEF FileFirst
  <2> QED BY <2>1, <2>2
<1>10. /\ \A s \in DOMAIN op : op[s] <= n
       /\ \A j \in DOMAIN ob2 : ob2[j].scope <= n
  <2>1. \A s \in DOMAIN op : op[s] <= n
    BY DEF Chain
  <2>2. \A j \in DOMAIN ob : ob[j].scope <= n
    BY DEF Chain
  <2>3. object.scope <= n
    BY <2>1, <1>1, <1>b
  <2>4. ASSUME NEW j \in DOMAIN ob2 PROVE ob2[j].scope <= n
    <3>1. CASE j \in DOMAIN ob
      BY <2>2, <3>1, <1>1, <1>5
    <3>2. CASE j \notin DOMAIN ob
      <4>1. j = Len(ob) + 1
        BY <2>4, <3>2, <1>1, <1>5
      <4> QED BY <4>1, <2>3, <1>1, <1>5
    <3> QED BY <3>1, <3>2
  <2> QED BY <2>1, <2>4
<1> QED BY <1>1, <1>4, <1>5, <1>7, <1>8, <1>9, <1>10 DEF Chain, sc2, ob2, symbol

(* scope_push(). *)
LEMMA PushKeepsChain ==
  ASSUME NEW sc, NEW op, NEW n, NEW ob, Chain(sc, op, n, ob)
  PROVE  Chain(Append(sc, <<>>), Append(op, n + 1), n + 1, ob)
<1> DEFINE c == Len(sc)
           sc2 == Append(sc, <<>>)
           op2 == Append(op, n + 1)
<1>1. /\ sc \in Seq(Seq(Symbol)) /\ op \in Seq(Nat) /\ ob \in Seq(Object) /\ n \in Nat
      /\ Len(op) = c /\ c \in Nat /\ c >= 1
      /\ DOMAIN sc = 1..c /\ DOMAIN op = 1..c
  BY DEF Chain
<1>2. <<>> \in Seq(Symbol)
  OBVIOUS
<1>3. /\ sc2 \in Seq(Seq(Symbol)) /\ Len(sc2) = c + 1 /\ DOMAIN sc2 = 1..(c + 1)
      /\ \A s \in 1..c : sc2[s] = sc[s]
      /\ sc2[c + 1] = <<>>
  BY <1>1, <1>2
<1>4. /\ op2 \in Seq(Nat) /\ Len(op2) = c + 1 /\ DOMAIN op2 = 1..(c + 1)
      /\ \A s \in 1..c : op2[s] = op[s]
      /\ op2[c + 1] = n + 1
  BY <1>1
<1>5. /\ \A s \in 1..c : op[s] \in Nat /\ op[s] <= n
      /\ \A j \in DOMAIN ob : ob[j].scope \in Nat /\ ob[j].scope <= n
  <2>1. \A j \in DOMAIN ob : ob[j] \in Object
    BY <1>1
  <2>2. \A j \in DOMAIN ob : ob[j].scope \in Nat
    BY <2>1 DEF Object
  <2>3. /\ \A s \in DOMAIN op : op[s] <= n
        /\ \A j \in DOMAIN ob : ob[j].scope <= n
    BY DEF Chain
  <2> HIDE DEF sc2, op2, c
  <2>4. \A s \in DOMAIN op : op[s] \in Nat
    BY <1>1, SMTT(30)
  <2> QED BY <2>2, <2>3, <2>4, <1>1
<1> HIDE DEF sc2, op2, c
<1>6. ASSUME NEW s \in 1..(c + 1) PROVE s \in 1..c \/ s = c + 1
  BY <1>1
<1>7. ASSUME NEW s \in DOMAIN sc2 PROVE Matches(sc2[s], op2[s], ob)
  <2>1. CASE s \in 1..c
    BY <2>1, <1>1, <1>3, <1>4 DEF Chain
  <2>2. CASE s = c + 1
    <3>1. \A j \in DOMAIN ob : ob[j].scope /= n + 1
      BY <1>1, <1>5
    <3> QED BY <2>2, <3>1, <1>3, <1>4 DEF Matches
  <2> QED BY <2>1, <2>2, <1>3, <1>6
<1>8. Ordered(op2, ob)
  <2>0. Ordered(op, ob)
    BY DEF Chain
  <2>1. ASSUME NEW s \in DOMAIN op2, NEW t \in DOMAIN op2, s < t PROVE op2[s] < op2[t]
    <3>1. s \in 1..c
      BY <2>1, <1>1, <1>4
    <3>2. CASE t \in 1..c
      BY <2>0, <2>1, <3>1, <3>2, <1>1, <1>4 DEF Ordered
    <3>3. CASE t = c + 1
      <4>1. op2[s] = op[s] /\ op[s] \in Nat /\ op[s] <= n
        BY <3>1, <1>4, <1>5
      <4>2. op2[t] = n + 1
        BY <3>3, <1>4
      <4> QED BY <4>1, <4>2, <1>1
    <3> QED BY <3>2, <3>3, <1>4, <1>6
  <2>2. ASSUME NEW j \in DOMAIN ob, NEW k \in DOMAIN ob, NEW s \in DOMAIN op2, NEW t \in DOMAIN op2,
               ob[j].scope = op2[s], ob[k].scope = op2[t], j <= k
        PROVE s <= t
    <3>1. \A r \in DOMAIN op2 : \A i \in DOMAIN ob : ob[i].scope = op2[r] => r \in 1..c
      BY <1>1, <1>4, <1>5, <1>6, SMTT(30)
    <3>2. s \in 1..c /\ t \in 1..c
      BY <2>2, <3>1
    <3>3. op2[s] = op[s] /\ op2[t] = op[t] /\ s \in DOMAIN op /\ t \in DOMAIN op
      BY <3>2, <1>1, <1>4
    <3> QED BY <2>0, <2>2, <3>3 DEF Ordered
  <2> QED BY <2>1, <2>2 DEF Ordered
<1>9. FileFirst(sc2, op2, ob)
  <2>0. 1 \in 1..c
    BY ONLY <1>1
  <2>1. sc2[1] = sc[1] /\ op2[1] = op[1]
    BY ONLY <2>0, <1>3, <1>4
  <2> QED BY <2>1 DEF Chain, FileFirst
<1>10. /\ \A s \in DOMAIN op2 : op2[s] <= n + 1
       /\ \A j \in DOMAIN ob : ob[j].scope <= n + 1
       /\ n + 1 \in Nat
  <2>1. n + 1 \in Nat
    BY <1>1
  <2>2. ASSUME NEW s \in DOMAIN op2 PROVE op2[s] <= n + 1
    <3>1. CASE s \in 1..c
      <4>1. op2[s] = op[s] /\ op[s] \in Nat /\ op[s] <= n
        BY <3>1, <1>4, <1>5
      <4> QED BY <4>1, <1>1
    <3>2. CASE s = c + 1
      BY <3>2, <1>1, <1>4
    <3> QED BY <2>2, <3>1, <3>2, <1>4, <1>6
  <2>3. ASSUME NEW j \in DOMAIN ob PROVE ob[j].scope <= n + 1
    BY <2>3, <1>1, <1>5
  <2> QED BY <2>1, <2>2, <2>3
<1>11. Len(op2) = Len(sc2) /\ Len(sc2) >= 1
  BY <1>1, <1>3, <1>4
<1> QED BY <1>1, <1>3, <1>4, <1>7, <1>8, <1>9, <1>10, <1>11 DEF Chain, sc2, op2

(* scope_pop(), m scopes being left. *)
LEMMA PopKeepsChain ==
  ASSUME NEW sc, NEW op, NEW n, NEW ob, Chain(sc, op, n, ob), NEW m \in 1..Len(sc)
  PROVE  Chain(SubSeq(sc, 1, m), SubSeq(op, 1, m), n, ob)
<1> DEFINE sc2 == SubSeq(sc, 1, m)
           op2 == SubSeq(op, 1, m)
<1>1. /\ sc \in Seq(Seq(Symbol)) /\ op \in Seq(Nat) /\ ob \in Seq(Object) /\ n \in Nat
      /\ Len(op) = Len(sc) /\ Len(sc) \in Nat
      /\ DOMAIN sc = 1..Len(sc) /\ DOMAIN op = 1..Len(sc)
  BY DEF Chain
<1>2. m \in Nat /\ m >= 1 /\ m <= Len(sc) /\ \A s \in 1..m : s \in 1..Len(sc)
  BY <1>1
<1>3. /\ sc2 \in Seq(Seq(Symbol)) /\ Len(sc2) = m /\ DOMAIN sc2 = 1..m
      /\ \A s \in 1..m : sc2[s] = sc[s]
  BY <1>1, <1>2
<1>4. /\ op2 \in Seq(Nat) /\ Len(op2) = m /\ DOMAIN op2 = 1..m
      /\ \A s \in 1..m : op2[s] = op[s]
  BY <1>1, <1>2
<1> HIDE DEF sc2, op2
<1>5. \A s \in DOMAIN sc2 : Matches(sc2[s], op2[s], ob)
  BY <1>1, <1>2, <1>3, <1>4 DEF Chain
<1>6. Ordered(op2, ob)
  <2>0. Ordered(op, ob)
    BY DEF Chain
  <2> QED BY <2>0, <1>1, <1>2, <1>4 DEF Ordered
<1>7. FileFirst(sc2, op2, ob)
  <2>1. 1 \in 1..m
    BY <1>2
  <2>2. sc2[1] = sc[1] /\ op2[1] = op[1]
    BY <2>1, <1>3, <1>4
  <2> QED BY <2>2 DEF Chain, FileFirst
<1>8. \A s \in DOMAIN op2 : op2[s] <= n
  BY <1>1, <1>2, <1>4 DEF Chain
<1> QED BY <1>1, <1>2, <1>3, <1>4, <1>5, <1>6, <1>7, <1>8 DEF Chain, sc2, op2

(* Between functions: what was declared in the last one is forgotten. *)
LEMMA ForgetKeepsChain ==
  ASSUME NEW sc, NEW op, NEW n, NEW ob, Chain(sc, op, n, ob), Len(sc) = 1
  PROVE  /\ Chain(sc, op, 0, SubSeq(ob, 1, Len(sc[1])))
         /\ \A j \in DOMAIN SubSeq(ob, 1, Len(sc[1])) : SubSeq(ob, 1, Len(sc[1]))[j].is_global
<1> DEFINE g == Len(sc[1])
           ob2 == SubSeq(ob, 1, g)
<1>1. /\ sc \in Seq(Seq(Symbol)) /\ op \in Seq(Nat) /\ ob \in Seq(Object)
      /\ Len(op) = 1 /\ DOMAIN sc = {1} /\ DOMAIN op = {1} /\ op[1] = 0
      /\ DOMAIN ob = 1..Len(ob) /\ Len(ob) \in Nat
  BY DEF Chain, FileFirst
<1>2. g \in Nat /\ g <= Len(ob)
  <2>1. sc[1] \in Seq(Symbol)
    <3> HIDE DEF ob2, g
    <3>1. \A s \in DOMAIN sc : sc[s] \in Seq(Symbol)
      BY <1>1
    <3> QED BY <3>1, <1>1
  <2> QED BY <2>1 DEF Chain, FileFirst
<1>3. /\ ob2 \in Seq(Object) /\ Len(ob2) = g /\ DOMAIN ob2 = 1..g
      /\ \A j \in 1..g : j \in DOMAIN ob /\ ob2[j] = ob[j]
  BY <1>1, <1>2
<1>4. \A j \in DOMAIN ob : /\ j <= g <=> ob[j].scope = 0
                           /\ ob[j].is_global <=> ob[j].scope = 0
  BY DEF Chain, FileFirst
<1>5. \A j \in DOMAIN ob2 : ob2[j].scope = 0 /\ ob2[j].is_global /\ j <= g
  BY <1>2, <1>3, <1>4
<1>6. Matches(sc[1], 0, ob2)
  <2>0. Matches(sc[1], 0, ob)
    BY <1>1 DEF Chain
  <2>1. \A j \in DOMAIN ob : ob[j].scope = 0 => j \in DOMAIN ob2 /\ ob2[j] = ob[j]
    BY <1>1, <1>2, <1>3, <1>4
  <2>2. \A j \in DOMAIN ob2 : j \in DOMAIN ob /\ ob2[j] = ob[j]
    BY <1>3
  <2> HIDE DEF ob2, g
  <2> QED BY <2>0, <2>1, <2>2 DEF Matches
<1> HIDE DEF ob2, g
<1>7. Ordered(op, ob2)
  BY <1>1 DEF Ordered
<1>8. FileFirst(sc, op, ob2)
  BY <1>1, <1>2, <1>3, <1>5 DEF FileFirst, g
<1>9. Chain(sc, op, 0, ob2)
  BY <1>1, <1>3, <1>5, <1>6, <1>7, <1>8 DEF Chain
<1> QED BY <1>5, <1>9 DEF ob2, g

-------------------------------------------------------------------------------
(***************************************************************************)
(* What a name denotes.                                                    *)
(***************************************************************************)
(* In a scope whose symbols have different names the walk finds the only one. *)
LEMMA OnlyOne ==
  ASSUME NEW scope \in Seq(Symbol), NEW name, NEW i \in DOMAIN scope, scope[i].name = name,
         \A j \in DOMAIN scope : scope[j].name = scope[i].name => j = i
  PROVE  First(scope, name) = scope[i]
<1>1. Named(scope, name) = {i}
  BY DEF Named
<1>2. i <= i
  <2>1. i \in Nat
    OBVIOUS
  <2> QED BY <2>1
<1>3. (CHOOSE k \in {i} : \A j \in {i} : k <= j) = i
  BY <1>2
<1> QED BY <1>1, <1>3 DEF First

(* symbol_lookup() finds the latest visible declaration: the innermost scope  *)
(* with the name is that of the last visible object with it.                 *)
LEMMA Binding ==
  ASSUME NEW n, Chain(scopes, open, n, objects), NEW name
  PROVE  Lookup(name) = Meant(name)
<1> DEFINE hits == {s \in DOMAIN scopes : Named(scopes[s], name) /= {}}
           cand == Visible(name)
<1>1. /\ scopes \in Seq(Seq(Symbol)) /\ objects \in Seq(Object)
      /\ DOMAIN scopes = 1..Len(scopes) /\ DOMAIN open = DOMAIN scopes
      /\ DOMAIN objects = 1..Len(objects)
      /\ Len(scopes) \in Nat /\ Len(objects) \in Nat
  BY DEF Chain
<1>2. \A s \in DOMAIN scopes : scopes[s] \in Seq(Symbol)
  BY <1>1
<1>3. \A s \in DOMAIN scopes : Matches(scopes[s], open[s], objects)
  BY DEF Chain
<1>4. \A j \in DOMAIN objects : Ref(objects[j]).name = objects[j].name
  BY DEF Ref
<1>5. ASSUME NEW j \in cand PROVE
        \E s \in hits : objects[j].scope = open[s]
  <2>1. PICK s \in DOMAIN open : open[s] = objects[j].scope
    BY <1>5 DEF Visible
  <2>2. j \in DOMAIN objects /\ objects[j].name = name
    BY <1>5 DEF Visible
  <2>3. PICK i \in DOMAIN scopes[s] : scopes[s][i] = Ref(objects[j])
    BY <1>1, <1>3, <2>1, <2>2 DEF Matches
  <2>4. i \in Named(scopes[s], name)
    BY <1>4, <2>2, <2>3 DEF Named
  <2> QED BY <1>1, <2>1, <2>4
<1>6. ASSUME NEW s \in hits, NEW i \in Named(scopes[s], name) PROVE
        \E j \in cand : objects[j].scope = open[s] /\ Ref(objects[j]) = scopes[s][i]
  <2>1. i \in DOMAIN scopes[s] /\ scopes[s][i].name = name
    BY <1>6 DEF Named
  <2>2. PICK j \in DOMAIN objects :
          objects[j].scope = open[s] /\ Ref(objects[j]) = scopes[s][i]
    BY <1>3, <2>1 DEF Matches
  <2>3. j \in cand
    BY <1>1, <1>4, <2>1, <2>2 DEF Visible
  <2> QED BY <2>2, <2>3
<1>7. CASE cand = {}
  <2>1. hits = {}
    BY <1>6, <1>7
  <2> QED BY <1>7, <2>1 DEF Lookup, Meant
<1>8. CASE cand /= {}
  <2>1. hits /= {} /\ hits \subseteq 1..Len(scopes) /\ cand \subseteq 1..Len(objects)
    BY <1>1, <1>5, <1>8 DEF Visible
  <2> HIDE DEF hits, cand
  <2> DEFINE deepest == CHOOSE s \in hits : \A t \in hits : s >= t
             latest == CHOOSE j \in cand : \A k \in cand : j >= k
  <2>2. deepest \in hits /\ \A t \in hits : deepest >= t
    <3>1. \E s \in hits : \A t \in hits : s >= t
      BY <1>1, <2>1, HasGreatest
    <3> QED BY <3>1
  <2>3. latest \in cand /\ \A k \in cand : latest >= k
    <3>1. \E j \in cand : \A k \in cand : j >= k
      BY <1>1, <1>8, <2>1, HasGreatest
    <3> QED BY <3>1
  <2> HIDE DEF deepest, latest
  <2>4. PICK i : i \in Named(scopes[deepest], name)
    BY <2>2 DEF hits
  <2>5. PICK k \in cand :
          objects[k].scope = open[deepest] /\ Ref(objects[k]) = scopes[deepest][i]
    BY <1>6, <2>2, <2>4
  <2>6. PICK t \in hits : objects[latest].scope = open[t]
    BY <1>5, <2>3
  <2>7. t = deepest
    <3>1. deepest \in DOMAIN open /\ t \in DOMAIN open
      BY <1>1, <2>1, <2>2
    <3>2. k \in DOMAIN objects /\ latest \in DOMAIN objects /\ k <= latest
      <4>1. k \in 1..Len(objects) /\ latest \in 1..Len(objects) /\ latest >= k
        BY <2>1, <2>3, <2>5
      <4> QED BY <1>1, <4>1
    <3>3. deepest <= t
      BY <2>5, <2>6, <3>1, <3>2 DEF Chain, Ordered
    <3>4. deepest >= t /\ deepest \in Nat /\ t \in Nat
      BY <1>1, <2>1, <2>2
    <3> QED BY <3>3, <3>4
  <2>8. i \in DOMAIN scopes[deepest] /\ scopes[deepest][i].name = name
    BY <2>4 DEF Named
  <2>9. deepest \in DOMAIN scopes /\ latest \in DOMAIN objects /\ objects[latest].name = name
    BY <1>1, <2>1, <2>2, <2>3 DEF cand, Visible
  <2>10. PICK m \in DOMAIN scopes[deepest] : scopes[deepest][m] = Ref(objects[latest])
    BY <1>3, <2>6, <2>7, <2>9 DEF Matches
  <2>11. scopes[deepest][m].name = name
    BY <1>4, <2>9, <2>10
  <2>12. First(scopes[deepest], name) = scopes[deepest][m]
    <3>1. \A j \in DOMAIN scopes[deepest] :
            scopes[deepest][j].name = scopes[deepest][m].name => j = m
      BY <1>3, <2>9, <2>10 DEF Matches
    <3> QED BY <1>2, <2>9, <2>10, <2>11, <3>1, OnlyOne
  <2>13. Lookup(name) = First(scopes[deepest], name)
    BY <2>1 DEF Lookup, hits, deepest
  <2>14. Meant(name) = Ref(objects[latest])
    BY <1>8 DEF Meant, cand, latest
  <2> QED BY <2>10, <2>12, <2>13, <2>14
<1> QED BY <1>7, <1>8
-------------------------------------------------------------------------------
(***************************************************************************)
(* The walk.  The invariant: the chain, where in the function the walk is,   *)
(* and that the last use found what it meant.                               *)
(***************************************************************************)
Whereabouts ==
  /\ frame \in -IntLimit..(IntLimit - 1)
  /\ needed \in Nat
  /\ errors \in BOOLEAN
  /\ at \in {"file", "params", "body", "between"}
  /\ at = "file" => Len(scopes) = 1 /\ Len(objects) = Len(scopes[1])
  /\ at = "between" => Len(scopes) = 1
  /\ at = "params" => Len(scopes) = 2
  /\ at = "body" => Len(scopes) >= 3

IInv == Chain(scopes, open, opened, objects) /\ Whereabouts /\ UsesBind

(* An int stays one, and what fits one is not changed. *)
LEMMA Ints ==
  ASSUME NEW n \in Int
  PROVE  /\ ToInt(n) \in -IntLimit..(IntLimit - 1)
         /\ ToInt(n) \in Int
         /\ -IntLimit <= n /\ n < IntLimit => ToInt(n) = n
<1>1. IntLimit \in Nat /\ IntLimit > 0 /\ 2 * IntLimit \in Nat \ {0}
  BY ScopesAssumption
<1>2. \A a \in Int, b \in Nat \ {0} : 0 <= a % b /\ a % b < b /\ a % b \in Int
  OBVIOUS
<1>3. \A a \in Int, b \in Nat \ {0} : 0 <= a /\ a < b => a % b = a
  OBVIOUS
<1>4. n + IntLimit \in Int
  BY <1>1
<1>5. /\ 0 <= (n + IntLimit) % (2 * IntLimit)
      /\ (n + IntLimit) % (2 * IntLimit) < 2 * IntLimit
      /\ (n + IntLimit) % (2 * IntLimit) \in Int
  BY <1>1, <1>2, <1>4
<1>6. ASSUME -IntLimit <= n, n < IntLimit PROVE ToInt(n) = n
  <2>1. 0 <= n + IntLimit /\ n + IntLimit < 2 * IntLimit
    BY <1>1, <1>6
  <2>2. (n + IntLimit) % (2 * IntLimit) = n + IntLimit
    BY <1>1, <1>3, <1>4, <2>1
  <2> QED BY <1>1, <2>2 DEF ToInt
<1> DEFINE rest == (n + IntLimit) % (2 * IntLimit)
<1>7. ToInt(n) = rest - IntLimit
  BY DEF ToInt
<1>8. 0 <= rest /\ rest < 2 * IntLimit /\ rest \in Int
  BY <1>5
<1> HIDE DEF rest
<1>9. ToInt(n) \in -IntLimit..(IntLimit - 1) /\ ToInt(n) \in Int
  BY <1>1, <1>7, <1>8
<1> QED BY <1>6, <1>9

(* Rounding an int gives one. *)
LEMMA RoundedIsInt ==
  ASSUME NEW n \in Int
  PROVE  RoundUp(n, 8) \in Int /\ RoundUp(n, 16) \in Int
<1>1. ToInt(n + 8 - 1) \in Int /\ ToInt(n + 16 - 1) \in Int
  BY Ints
<1>2. \A m \in Int : WholeUnits(m, 8) \in Int /\ WholeUnits(m, 16) \in Int
  BY DEF WholeUnits
<1> QED BY <1>1, <1>2 DEF RoundUp

(* The numbers of a declaration. *)
LEMMA Sizes ==
  ASSUME NEW t \in Types
  PROVE  Bytes(t) \in Nat /\ Size(t) \in Int /\ Slot(t) \in Int
<1>1. t.element \in Nat /\ t.count \in Nat
  BY ScopesAssumption
<1>2. \A x, y \in Nat : x * y \in Nat
  OBVIOUS
<1>3. Bytes(t) \in Nat
  BY <1>1, <1>2 DEF Bytes
<1>4. Bytes(t) \in Int
  BY <1>3
<1>5. Size(t) \in Int
  BY <1>4, Ints DEF Size
<1>6. (IF Size(t) <= 0 THEN 8 ELSE Size(t)) \in Int
  BY <1>5
<1>7. Slot(t) \in Int
  BY <1>6, RoundedIsInt DEF Slot
<1> QED BY <1>3, <1>5, <1>7

(* A slot is at least as large as its object. *)
LEMMA Rooms ==
  ASSUME NEW bytes \in Nat
  PROVE  Room(bytes) \in Nat /\ Room(bytes) >= bytes /\ Room(bytes) > 0
BY DEF Room

(* Where the next object of a function goes. *)
LEMMA GrownIsInt ==
  ASSUME Whereabouts, NEW slot \in Int
  PROVE  /\ Grown(slot) \in -IntLimit..(IntLimit - 1)
         /\ ToInt(-Grown(slot)) \in Int
<1>1. frame + slot \in Int
  <2>1. IntLimit \in Nat
    BY ScopesAssumption
  <2> QED BY <2>1 DEF Whereabouts
<1>2. Grown(slot) \in -IntLimit..(IntLimit - 1) /\ Grown(slot) \in Int
  BY <1>1, Ints DEF Grown
<1>3. -Grown(slot) \in Int
  BY <1>2
<1> QED BY <1>2, <1>3, Ints

(* symbol_insert(), or a duplicate: either way the chain stays one. *)
LEMMA DeclaredKeepsChain ==
  ASSUME Chain(scopes, open, opened, objects),
         NEW name \in Names, NEW global \in BOOLEAN, NEW offset \in Int, NEW bytes \in Nat,
         global <=> Len(scopes) = 1,
         Len(scopes) = 1 => Len(objects) = Len(scopes[1]),
         Declared(name, global, offset, bytes),
         open' = open, opened' = opened
  PROVE  /\ Chain(scopes', open', opened', objects')
         /\ Len(scopes') = Len(scopes)
         /\ Len(scopes) = 1 => Len(objects') = Len(scopes'[1])
<1>1. CASE LookupCurrent(name)
  BY <1>1 DEF Declared
<1>2. CASE ~LookupCurrent(name)
  <2> DEFINE object == [name |-> name, is_global |-> global, stack_offset |-> offset,
                        bytes |-> bytes, scope |-> open[Len(scopes)]]
             c == Len(scopes)
  <2>1. /\ scopes \in Seq(Seq(Symbol)) /\ open \in Seq(Nat) /\ objects \in Seq(Object)
        /\ c \in Nat /\ c >= 1 /\ Len(open) = c /\ DOMAIN scopes = 1..c
    BY DEF Chain
  <2>2. object \in Object
    <3>1. open[c] \in Nat
      <4> HIDE DEF c
      <4> QED BY <2>1
    <3> QED BY <3>1 DEF Object
  <2>3. Ref(object) = [name |-> name, is_global |-> global, stack_offset |-> offset]
    BY DEF Ref
  <2>4. object.scope = open[c] /\ (object.is_global <=> c = 1) /\ object.name = name
    OBVIOUS
  <2>5. Named(scopes[c], object.name) = {}
    BY <1>2 DEF LookupCurrent, Current
  <2>6. /\ scopes' = [scopes EXCEPT ![c] = <<Ref(object)>> \o @]
        /\ objects' = Append(objects, object)
    BY <1>2, <2>3 DEF Declared, Insert, Current
  <2> HIDE DEF object, c
  <2>7. c = Len(scopes)
    BY DEF c
  <2>8. Chain([scopes EXCEPT ![c] = <<Ref(object)>> \o @], open, opened, Append(objects, object))
    BY <2>2, <2>4, <2>5, <2>7, InsertKeepsChain
  <2>9. Len(scopes') = Len(scopes)
    BY <2>1, <2>6, <2>8 DEF Chain, c
  <2>10. ASSUME c = 1 PROVE Len(objects') = Len(scopes'[1])
    <3>1. \A s \in DOMAIN scopes : scopes[s] \in Seq(Symbol)
      BY <2>1
    <3>2. scopes'[1] = <<Ref(object)>> \o scopes[1] /\ scopes[1] \in Seq(Symbol)
      BY <2>1, <2>6, <2>10, <3>1
    <3>3. Ref(object) \in Symbol
      BY <2>2, RefType
    <3>4. Len(scopes'[1]) = Len(scopes[1]) + 1
      BY <3>2, <3>3, Prepend
    <3> QED BY <2>1, <2>2, <2>6, <2>7, <2>10, <3>4
  <2> QED BY <2>6, <2>7, <2>8, <2>9, <2>10
<1> QED BY <1>1, <1>2

LEMMA KeepsDeclareGlobal ==
  ASSUME IInv, NEW name \in Names, NEW t \in Types, DeclareGlobal(name, t) PROVE IInv'
<1>1. Bytes(t) \in Nat
  BY Sizes
<1>2. /\ Chain(scopes', open', opened', objects') /\ Len(scopes') = Len(scopes)
      /\ Len(objects') = Len(scopes'[1])
  <2>1. Chain(scopes, open, opened, objects) /\ Len(scopes) = 1 /\ Len(objects) = Len(scopes[1])
    BY DEF IInv, Whereabouts, DeclareGlobal
  <2>2. Declared(name, TRUE, 0, Bytes(t)) /\ open' = open /\ opened' = opened
    BY DEF DeclareGlobal
  <2>3. TRUE \in BOOLEAN /\ 0 \in Int
    OBVIOUS
  <2> QED BY <1>1, <2>1, <2>2, <2>3, DeclaredKeepsChain
<1>3. errors' \in BOOLEAN
  BY DEF DeclareGlobal, Declared
<1>4. Whereabouts'
  BY <1>2, <1>3 DEF IInv, Whereabouts, DeclareGlobal
<1>5. UsesBind'
  BY DEF DeclareGlobal, Quiet, UsesBind
<1> QED BY <1>2, <1>4, <1>5 DEF IInv

LEMMA KeepsDeclare ==
  ASSUME IInv, NEW name \in Names, NEW t \in Types, Declare(name, t) PROVE IInv'
<1>1. Bytes(t) \in Nat /\ Slot(t) \in Int /\ Room(Bytes(t)) \in Nat /\ needed \in Nat
  BY Sizes, Rooms DEF IInv, Whereabouts
<1>2. /\ ToInt(-Grown(Slot(t))) \in Int
      /\ Grown(Slot(t)) \in -IntLimit..(IntLimit - 1)
  BY <1>1, GrownIsInt DEF IInv
<1>3. Len(scopes) >= 3 /\ Len(scopes) \in Nat
  BY DEF IInv, Whereabouts, Declare, Chain
<1>4. Chain(scopes', open', opened', objects') /\ Len(scopes') = Len(scopes)
  <2>1. Len(scopes) /= 1 /\ FALSE \in BOOLEAN
    <3>1. \A x \in Nat : x >= 3 => x /= 1
      OBVIOUS
    <3> QED BY <1>3, <3>1
  <2>2. Chain(scopes, open, opened, objects)
    BY DEF IInv
  <2>3. Declared(name, FALSE, ToInt(-Grown(Slot(t))), Bytes(t)) /\ open' = open /\ opened' = opened
    BY DEF Declare
  <2> QED BY <1>1, <1>2, <2>1, <2>2, <2>3, DeclaredKeepsChain
<1>5. errors' \in BOOLEAN
  BY DEF Declare, Declared
<1>6. frame' \in -IntLimit..(IntLimit - 1) /\ needed' \in Nat
  <2>1. \A a, b \in Nat : a + b \in Nat
    OBVIOUS
  <2>2. needed + Room(Bytes(t)) \in Nat
    BY <1>1, <2>1
  <2> QED BY <1>2, <2>2 DEF Declare, IInv, Whereabouts
<1>7. Whereabouts'
  BY <1>3, <1>4, <1>5, <1>6 DEF Whereabouts, Declare
<1>8. UsesBind'
  BY DEF Declare, Quiet, UsesBind
<1> QED BY <1>4, <1>7, <1>8 DEF IInv

LEMMA KeepsDeclareParam ==
  ASSUME IInv, NEW name \in Names, DeclareParam(name) PROVE IInv'
<1>1. /\ 8 \in Nat
      /\ ToInt(-Grown(8)) \in Int
      /\ Grown(8) \in -IntLimit..(IntLimit - 1)
  <2>1. 8 \in Nat /\ 8 \in Int
    OBVIOUS
  <2> QED BY <2>1, GrownIsInt DEF IInv
<1>2. Len(scopes) = 2
  BY DEF IInv, Whereabouts, DeclareParam
<1>3. Chain(scopes', open', opened', objects') /\ Len(scopes') = Len(scopes)
  <2>1. Len(scopes) /= 1 /\ FALSE \in BOOLEAN
    BY <1>2
  <2>2. Chain(scopes, open, opened, objects)
    BY DEF IInv
  <2>3. Declared(name, FALSE, ToInt(-Grown(8)), 8) /\ open' = open /\ opened' = opened
    BY DEF DeclareParam
  <2> QED BY <1>1, <2>1, <2>2, <2>3, DeclaredKeepsChain
<1>4. errors' \in BOOLEAN
  BY DEF DeclareParam, Declared, IInv, Whereabouts
<1>5. frame' \in -IntLimit..(IntLimit - 1) /\ needed' \in Nat
  <2>1. \A a, b \in Nat : a + b \in Nat
    OBVIOUS
  <2>2. needed + Room(8) \in Nat
    BY <1>1, <2>1, Rooms DEF IInv, Whereabouts
  <2> QED BY <1>1, <2>2 DEF DeclareParam, IInv, Whereabouts
<1>6. Whereabouts'
  BY <1>2, <1>3, <1>4, <1>5 DEF Whereabouts, DeclareParam
<1>7. UsesBind'
  BY DEF DeclareParam, Quiet, UsesBind
<1> QED BY <1>3, <1>6, <1>7 DEF IInv

LEMMA KeepsEnterFunction ==
  ASSUME IInv, EnterFunction PROVE IInv'
<1>1. Chain(scopes, open, opened, objects) /\ Len(scopes) = 1
  BY DEF IInv, Whereabouts, EnterFunction
<1>2. Chain(scopes, open, 0, SubSeq(objects, 1, Len(scopes[1])))
  BY <1>1, ForgetKeepsChain
<1>3. Chain(scopes', open', opened', objects')
  <2>1. Chain(Append(scopes, <<>>), Append(open, 0 + 1), 0 + 1, SubSeq(objects, 1, Len(scopes[1])))
    BY <1>2, PushKeepsChain
  <2>2. 0 + 1 = 1
    OBVIOUS
  <2> QED BY <2>1, <2>2 DEF EnterFunction
<1>4. Len(scopes') = 2
  <2>1. scopes \in Seq(Seq(Symbol)) /\ scopes' = Append(scopes, <<>>)
    BY <1>1 DEF EnterFunction, Chain
  <2>2. Len(Append(scopes, <<>>)) = Len(scopes) + 1
    BY <2>1
  <2> QED BY <1>1, <2>1, <2>2
<1>5. 0 \in -IntLimit..(IntLimit - 1) /\ 0 \in Nat
  BY ScopesAssumption
<1>6. Whereabouts' /\ UsesBind'
  BY <1>4, <1>5 DEF IInv, Whereabouts, UsesBind, EnterFunction, Quiet
<1> QED BY <1>3, <1>6 DEF IInv

(* scope_push() in a function. *)
LEMMA PushStep ==
  ASSUME Chain(scopes, open, opened, objects), ScopePush, objects' = objects
  PROVE  Chain(scopes', open', opened', objects') /\ Len(scopes') = Len(scopes) + 1
<1>1. Chain(scopes', open', opened', objects')
  BY PushKeepsChain DEF ScopePush
<1>2. scopes \in Seq(Seq(Symbol)) /\ scopes' = Append(scopes, <<>>)
  BY DEF ScopePush, Chain
<1>3. Len(Append(scopes, <<>>)) = Len(scopes) + 1
  BY <1>2
<1> QED BY <1>1, <1>2, <1>3

LEMMA KeepsEnterBody ==
  ASSUME IInv, EnterBody PROVE IInv'
<1>1. Chain(scopes', open', opened', objects') /\ Len(scopes') = 3
  <2>1. Len(scopes) = 2
    BY DEF IInv, Whereabouts, EnterBody
  <2>2. ScopePush /\ objects' = objects /\ Chain(scopes, open, opened, objects)
    BY DEF IInv, EnterBody
  <2>3. Len(scopes') = Len(scopes) + 1 /\ Chain(scopes', open', opened', objects')
    BY <2>2, PushStep
  <2> QED BY <2>1, <2>3
<1>2. Whereabouts' /\ UsesBind'
  BY <1>1 DEF IInv, Whereabouts, UsesBind, EnterBody, Quiet
<1> QED BY <1>1, <1>2 DEF IInv

LEMMA KeepsEnter ==
  ASSUME IInv, Enter PROVE IInv'
<1>1. Chain(scopes', open', opened', objects') /\ Len(scopes') >= 3
  <2>1. Len(scopes) >= 3 /\ Len(scopes) \in Nat
    BY DEF IInv, Whereabouts, Enter, Chain
  <2>2. Chain(scopes', open', opened', objects') /\ Len(scopes') = Len(scopes) + 1
    <3>1. ScopePush /\ objects' = objects /\ Chain(scopes, open, opened, objects)
      BY DEF IInv, Enter
    <3> QED BY <3>1, PushStep
  <2> QED BY <2>1, <2>2
<1>2. Whereabouts' /\ UsesBind'
  BY <1>1 DEF IInv, Whereabouts, UsesBind, Enter, Quiet
<1> QED BY <1>1, <1>2 DEF IInv

(* scope_pop() that leaves the outermost m scopes. *)
LEMMA PopStep ==
  ASSUME Chain(scopes, open, opened, objects), NEW n \in Nat, n < Len(scopes),
         ScopePop(n), opened' = opened, objects' = objects
  PROVE  Chain(scopes', open', opened', objects') /\ Len(scopes') = Len(scopes) - n
<1>0. Len(open) = Len(scopes) /\ scopes \in Seq(Seq(Symbol)) /\ Len(scopes) \in Nat
  BY DEF Chain
<1>1. Len(scopes) - n \in 1..Len(scopes)
  BY <1>0
<1>2. Chain(SubSeq(scopes, 1, Len(scopes) - n), SubSeq(open, 1, Len(scopes) - n), opened, objects)
  BY <1>1, PopKeepsChain
<1>3. Len(SubSeq(scopes, 1, Len(scopes) - n)) = Len(scopes) - n
  BY <1>0, <1>1
<1> QED BY <1>0, <1>2, <1>3 DEF ScopePop

LEMMA KeepsLeave ==
  ASSUME IInv, Leave PROVE IInv'
<1>1. Chain(scopes', open', opened', objects') /\ Len(scopes') >= 3
  <2>1. Len(scopes) > 3 /\ Len(scopes) \in Nat
    BY DEF Leave, Current, IInv, Chain
  <2>2. Chain(scopes', open', opened', objects') /\ Len(scopes') = Len(scopes) - 1
    <3>1. /\ ScopePop(1) /\ objects' = objects /\ opened' = opened
          /\ Chain(scopes, open, opened, objects)
      BY DEF IInv, Leave
    <3>2. 1 \in Nat /\ 1 < Len(scopes)
      BY <2>1
    <3> QED BY <3>1, <3>2, PopStep
  <2> QED BY <2>1, <2>2
<1>2. Whereabouts' /\ UsesBind'
  BY <1>1 DEF IInv, Whereabouts, UsesBind, Leave, Quiet
<1> QED BY <1>1, <1>2 DEF IInv

LEMMA KeepsLeaveFunction ==
  ASSUME IInv, LeaveFunction PROVE IInv'
<1>1. Chain(scopes', open', opened', objects') /\ Len(scopes') = 1
  <2>1. Len(scopes) = 3
    BY DEF LeaveFunction, Current
  <2>2. /\ ScopePop(2) /\ objects' = objects /\ opened' = opened
        /\ Chain(scopes, open, opened, objects)
    BY DEF IInv, LeaveFunction
  <2>3. 2 \in Nat /\ 2 < Len(scopes)
    BY <2>1
  <2>4. Len(scopes') = Len(scopes) - 2 /\ Chain(scopes', open', opened', objects')
    BY <2>2, <2>3, PopStep
  <2> QED BY <2>1, <2>4
<1>2. Whereabouts' /\ UsesBind'
  BY <1>1 DEF IInv, Whereabouts, UsesBind, LeaveFunction, Quiet
<1> QED BY <1>1, <1>2 DEF IInv

(* Every name of an expression finds what it means. *)
LEMMA KeepsUse ==
  ASSUME IInv, NEW names \in SUBSET Names, Use(names) PROVE IInv'
<1>1. \A name \in names : Lookup(name) = Meant(name)
  BY Binding DEF IInv
<1>2. UsesBind'
  <2>1. event'.found = [name \in names |-> Lookup(name)]
        /\ event'.meant = [name \in names |-> Meant(name)]
    BY DEF Use
  <2> QED BY <1>1, <2>1 DEF UsesBind
<1>3. errors' \in BOOLEAN
  BY DEF Use
<1>4. Whereabouts'
  BY <1>3 DEF IInv, Whereabouts, Use
<1>5. Chain(scopes', open', opened', objects')
  BY DEF IInv, Use
<1> QED BY <1>2, <1>4, <1>5 DEF IInv

(* At the beginning of the file there is the one scope, and it is empty. *)
LEMMA InitIsChain ==
  ASSUME Init PROVE IInv
<1>1. /\ scopes = <<<<>>>> /\ open = <<0>> /\ opened = 0 /\ objects = <<>>
      /\ Len(scopes) = 1 /\ scopes[1] = <<>> /\ DOMAIN scopes = {1}
      /\ Len(open) = 1 /\ open[1] = 0 /\ DOMAIN open = {1}
      /\ Len(objects) = 0 /\ DOMAIN objects = {}
  BY DEF Init
<1>2. scopes \in Seq(Seq(Symbol)) /\ open \in Seq(Nat) /\ objects \in Seq(Object)
  <2>1. <<>> \in Seq(Symbol)
    OBVIOUS
  <2> QED BY <1>1, <2>1
<1>3. Chain(scopes, open, opened, objects)
  BY <1>1, <1>2 DEF Chain, Matches, Ordered, FileFirst
<1>4. Whereabouts /\ UsesBind
  <2>1. 0 \in -IntLimit..(IntLimit - 1) /\ 0 \in Nat
    BY ScopesAssumption
  <2> QED BY <1>1, <2>1 DEF Init, Whereabouts, UsesBind, Quiet
<1> QED BY <1>3, <1>4 DEF IInv

(* The chain is one in the beginning and after every step. *)
THEOREM InvariantHolds == Spec => []IInv
<1>1. Init => IInv
  BY InitIsChain
<1>2. IInv /\ [Next]_vars => IInv'
  <2> SUFFICES ASSUME IInv, [Next]_vars PROVE IInv'
    OBVIOUS
  <2>1. CASE UNCHANGED vars
    BY <2>1 DEF vars, IInv, Whereabouts, UsesBind
  <2>2. CASE Next
    BY <2>2, KeepsDeclareGlobal, KeepsDeclare, KeepsDeclareParam, KeepsUse, KeepsEnterFunction,
       KeepsEnterBody, KeepsEnter, KeepsLeave, KeepsLeaveFunction DEF Next
  <2> QED BY <2>1, <2>2
<1> QED BY <1>1, <1>2, PTL DEF Spec

(* Every variable keeps its type, and no scope survives its function         *)
(* (symtab.c 26-42, semantic.c 502-523).                                    *)
THEOREM TypeCorrect == Spec => []TypeOK
<1>1. IInv => TypeOK
  <2> SUFFICES ASSUME IInv PROVE TypeOK
    OBVIOUS
  <2>1. /\ scopes \in Seq(Seq(Symbol)) /\ open \in Seq(Nat) /\ objects \in Seq(Object)
        /\ opened \in Nat /\ Len(open) = Len(scopes) /\ Len(scopes) >= 1
    BY DEF IInv, Chain
  <2>2. scopes /= <<>>
    BY <2>1
  <2> QED BY <2>1, <2>2 DEF TypeOK, IInv, Whereabouts
<1> QED BY <1>1, InvariantHolds, PTL

(* However deep the scopes nest, whatever is shadowed and whichever scopes    *)
(* have ended, a name finds the object C says it denotes (symtab.c 56-79).    *)
THEOREM UsesBindHolds == Spec => []UsesBind
<1>1. IInv => UsesBind
  BY DEF IInv
<1> QED BY <1>1, InvariantHolds, PTL

-------------------------------------------------------------------------------
(***************************************************************************)
(* The frame.                                                              *)
(***************************************************************************)
(* The locals lie in the fr bytes below %rbp, the later the lower. *)
LaidOut(fr, ob) ==
  \A j \in DOMAIN ob : ~ob[j].is_global =>
    /\ ob[j].stack_offset >= -fr
    /\ ob[j].stack_offset < 0
    /\ ob[j].stack_offset + ob[j].bytes <= 0
    /\ \A k \in DOMAIN ob : ~ob[k].is_global /\ j < k =>
         ob[k].stack_offset + ob[k].bytes <= ob[j].stack_offset

(* A slot that fits an int is what its object takes. *)
LEMMA SlotIsRoom ==
  ASSUME NEW t \in Types, Room(Bytes(t)) + 15 < IntLimit
  PROVE  Slot(t) = Room(Bytes(t))
<1>1. /\ Bytes(t) \in Nat /\ IntLimit \in Nat
      /\ Room(Bytes(t)) \in Nat /\ Room(Bytes(t)) >= Bytes(t) /\ Room(Bytes(t)) > 0
  BY Sizes, Rooms, ScopesAssumption
<1>2. Size(t) = Bytes(t)
  <2>1. Bytes(t) \in Int /\ -IntLimit <= Bytes(t) /\ Bytes(t) < IntLimit
    BY <1>1
  <2> QED BY <2>1, Ints DEF Size
<1>3. ASSUME NEW n \in Nat, n + 15 < IntLimit PROVE RoundUp(n, 8) = n + 7 - ((n + 7) % 8)
  <2>1. n + 8 - 1 = n + 7 /\ n + 7 \in Int /\ -IntLimit <= n + 7 /\ n + 7 < IntLimit
    BY <1>1, <1>3
  <2>2. ToInt(n + 7) = n + 7
    BY <2>1, Ints
  <2>3. n + 7 >= 0
    OBVIOUS
  <2> QED BY <2>1, <2>2, <2>3 DEF RoundUp, WholeUnits
<1>4. CASE Bytes(t) = 0
  <2>1. Room(Bytes(t)) = 8 /\ Size(t) <= 0
    BY <1>2, <1>4 DEF Room
  <2>2. RoundUp(8, 8) = 8 + 7 - ((8 + 7) % 8)
    BY <1>1, <1>3, <2>1
  <2> QED BY <2>1, <2>2 DEF Slot
<1>5. CASE Bytes(t) /= 0
  <2>1. Bytes(t) > 0 /\ Bytes(t) + 15 < IntLimit
    BY <1>1, <1>5
  <2>2. Slot(t) = RoundUp(Bytes(t), 8)
    BY <1>1, <1>2, <2>1 DEF Slot
  <2> QED BY <1>1, <1>3, <1>5, <2>1, <2>2 DEF Room
<1> QED BY <1>4, <1>5

(* The frame is what the locals take. *)
LEMMA FrameIsNeeded ==
  ASSUME frame \in Nat, NEW slot \in Nat, frame + slot < IntLimit
  PROVE  Grown(slot) = frame + slot /\ ToInt(-Grown(slot)) = -(frame + slot)
<1>1. IntLimit \in Nat
  BY ScopesAssumption
<1>2. frame + slot \in Int /\ -IntLimit <= frame + slot
  BY <1>1
<1>3. Grown(slot) = frame + slot
  BY <1>2, Ints DEF Grown
<1>4. -(frame + slot) \in Int /\ -IntLimit <= -(frame + slot) /\ -(frame + slot) < IntLimit
  BY <1>1, <1>2
<1>5. ToInt(-(frame + slot)) = -(frame + slot)
  BY <1>4, Ints
<1> QED BY <1>3, <1>5

(* The next object goes below all the others. *)
LEMMA AppendKeepsLayout ==
  ASSUME NEW fr \in Nat, NEW ob \in Seq(Object), LaidOut(fr, ob),
         NEW size \in Nat, size > 0, NEW object \in Object, object.bytes <= size,
         object.stack_offset = -(fr + size)
  PROVE  LaidOut(fr + size, Append(ob, object))
<1> DEFINE ob2 == Append(ob, object)
           last == Len(ob) + 1
<1>1. /\ DOMAIN ob = 1..Len(ob) /\ DOMAIN ob2 = 1..last /\ Len(ob) \in Nat
      /\ \A j \in 1..Len(ob) : ob2[j] = ob[j]
      /\ ob2[last] = object
  OBVIOUS
<1>2. \A j \in DOMAIN ob : ob[j].stack_offset \in Int /\ ob[j].bytes \in Nat
  <2>1. \A j \in DOMAIN ob : ob[j] \in Object
    OBVIOUS
  <2> QED BY <2>1 DEF Object
<1>3. object.bytes \in Nat /\ object.stack_offset \in Int
  BY DEF Object
<1>4. object.stack_offset < 0 /\ object.stack_offset + object.bytes <= -fr
  BY <1>3
<1>5. \A j \in DOMAIN ob2 : j \in Nat /\ (j = last \/ (j \in DOMAIN ob /\ ob2[j] = ob[j]))
  BY <1>1
<1>6. \A j \in DOMAIN ob : j < last
  BY <1>1
<1>l. last \in Nat
  BY <1>1
<1> HIDE DEF ob2, last
<1>7. ASSUME NEW j \in DOMAIN ob2, ~ob2[j].is_global
      PROVE /\ ob2[j].stack_offset >= -(fr + size)
            /\ ob2[j].stack_offset < 0
            /\ ob2[j].stack_offset + ob2[j].bytes <= 0
            /\ \A k \in DOMAIN ob2 : ~ob2[k].is_global /\ j < k =>
                 ob2[k].stack_offset + ob2[k].bytes <= ob2[j].stack_offset
  <2>1. CASE j = last
    <3>1. \A k \in DOMAIN ob2 : ~(j < k)
      <4>1. \A k \in DOMAIN ob2 : k \in Nat /\ (k = last \/ k < last)
        BY <1>5, <1>6
      <4> QED BY <2>1, <4>1, <1>l
    <3>2. ob2[j] = object
      BY <2>1, <1>1
    <3>3. object.stack_offset >= -(fr + size) /\ object.stack_offset + object.bytes <= 0
      BY <1>3, <1>4
    <3> QED BY <3>1, <3>2, <3>3, <1>4
  <2>2. CASE j /= last
    <3>1. j \in DOMAIN ob /\ ob2[j] = ob[j]
      BY <2>2, <1>5, <1>7
    <3>2. ~ob[j].is_global
      BY <3>1, <1>7
    <3>3. /\ ob[j].stack_offset >= -fr
          /\ ob[j].stack_offset < 0
          /\ ob[j].stack_offset + ob[j].bytes <= 0
      BY <3>1, <3>2 DEF LaidOut
    <3>4. ASSUME NEW k \in DOMAIN ob2, ~ob2[k].is_global, j < k
          PROVE ob2[k].stack_offset + ob2[k].bytes <= ob[j].stack_offset
      <4>1. CASE k = last
        <5>1. ob2[k] = object
          BY <4>1, <1>1
        <5>2. \A a, b, c \in Int : a + b <= -fr /\ c >= -fr => a + b <= c
          OBVIOUS
        <5>3. ob[j].stack_offset \in Int /\ ob[j].stack_offset >= -fr
          BY <3>1, <3>3, <1>2
        <5>4. object.stack_offset + object.bytes <= ob[j].stack_offset
          BY <5>2, <5>3, <1>3, <1>4
        <5> QED BY <5>1, <5>4
      <4>2. CASE k /= last
        <5>1. k \in DOMAIN ob /\ ob2[k] = ob[k]
          BY <4>2, <1>5
        <5> QED BY <5>1, <3>1, <3>2, <3>4 DEF LaidOut
      <4> QED BY <4>1, <4>2
    <3>5. ob[j].stack_offset >= -(fr + size)
      BY <3>1, <3>3, <1>2
    <3> QED BY <3>1, <3>3, <3>4, <3>5
  <2> QED BY <2>1, <2>2
<1> QED BY <1>7 DEF LaidOut, ob2

(* A declaration in a function. *)
LEMMA DeclaredKeepsLayout ==
  ASSUME Chain(scopes, open, opened, objects), NEW low \in Nat, LaidOut(low, objects),
         NEW name \in Names, NEW size \in Nat, size > 0, NEW bytes \in Nat, bytes <= size,
         Declared(name, FALSE, -(low + size), bytes), ~LookupCurrent(name)
  PROVE  LaidOut(low + size, objects')
<1> DEFINE object == [name |-> name, is_global |-> FALSE, stack_offset |-> -(low + size),
                      bytes |-> bytes, scope |-> open[Len(scopes)]]
<1>1. open[Len(scopes)] \in Nat /\ objects \in Seq(Object)
  <2>1. open \in Seq(Nat) /\ Len(open) = Len(scopes) /\ Len(scopes) >= 1
    BY DEF Chain
  <2>2. Len(scopes) \in 1..Len(open)
    BY <2>1
  <2>3. objects \in Seq(Object)
    BY DEF Chain
  <2> QED BY <2>1, <2>2, <2>3
<1>2. -(low + size) \in Int
  OBVIOUS
<1>3. object \in Object
  BY <1>1, <1>2 DEF Object
<1>4. object.bytes <= size /\ object.stack_offset = -(low + size)
  OBVIOUS
<1>5. objects' = Append(objects, object)
  BY DEF Declared, Current
<1> HIDE DEF object
<1> QED BY <1>1, <1>3, <1>4, <1>5, AppendKeepsLayout

(* As long as no int overflows, the frame is what the locals take. *)
Laid == FrameFits => frame = needed /\ LaidOut(needed, objects)

(* A local of so many bytes, accepted or not. *)
LEMMA LocalKeepsLayout ==
  ASSUME Chain(scopes, open, opened, objects), Whereabouts, Laid,
         NEW name \in Names, NEW bytes \in Nat, NEW slot \in Int,
         Room(bytes) + 15 < IntLimit => slot = Room(bytes),
         Declared(name, FALSE, ToInt(-Grown(slot)), bytes),
         IF LookupCurrent(name) THEN UNCHANGED <<frame, needed>>
         ELSE frame' = Grown(slot) /\ needed' = needed + Room(bytes)
  PROVE  Laid'
<1>1. CASE LookupCurrent(name)
  <2>1. objects' = objects /\ frame' = frame /\ needed' = needed
    BY <1>1 DEF Declared
  <2> QED BY <2>1 DEF Laid, FrameFits
<1>2. CASE ~LookupCurrent(name)
  <2> SUFFICES ASSUME FrameFits' PROVE frame' = needed' /\ LaidOut(needed', objects')
    BY DEF Laid
  <2>1. /\ needed \in Nat /\ IntLimit \in Nat
        /\ Room(bytes) \in Nat /\ Room(bytes) >= bytes /\ Room(bytes) > 0
    BY Rooms, ScopesAssumption DEF Whereabouts
  <2>2. frame' = Grown(slot) /\ needed' = needed + Room(bytes)
    BY <1>2
  <2>3. needed + Room(bytes) + 15 < IntLimit
    BY <2>2 DEF FrameFits
  <2>4. slot = Room(bytes)
    <3>1. Room(bytes) + 15 < IntLimit
      BY <2>1, <2>3
    <3> QED BY <3>1
  <2>5. frame = needed /\ LaidOut(needed, objects)
    <3>1. FrameFits
      BY <2>1, <2>3 DEF FrameFits
    <3> QED BY <3>1 DEF Laid
  <2>6. needed + Room(bytes) < IntLimit
    BY <2>1, <2>3
  <2>7. /\ Grown(slot) = needed + Room(bytes)
        /\ ToInt(-Grown(slot)) = -(needed + Room(bytes))
    BY <2>1, <2>4, <2>5, <2>6, FrameIsNeeded
  <2>8. LaidOut(needed + Room(bytes), objects')
    BY <1>2, <2>1, <2>5, <2>7, DeclaredKeepsLayout
  <2> QED BY <2>2, <2>7, <2>8
<1> QED BY <1>1, <1>2

(* A layout of globals alone is one, whatever the frame. *)
LEMMA GlobalsNeedNoSlot ==
  ASSUME NEW fr, NEW ob, \A j \in DOMAIN ob : ob[j].is_global
  PROVE  LaidOut(fr, ob)
BY DEF LaidOut

(* At file scope everything declared is global. *)
LEMMA FileIsGlobal ==
  ASSUME NEW sc, NEW op, NEW n, NEW ob, Chain(sc, op, n, ob), Len(ob) = Len(sc[1])
  PROVE  \A j \in DOMAIN ob : ob[j].is_global
<1>1. \A j \in DOMAIN ob : j <= Len(sc[1])
  <2>1. ob \in Seq(Object)
    BY DEF Chain
  <2> QED BY <2>1
<1> QED BY <1>1 DEF Chain, FileFirst

(* As long as no int of the layout overflows, the objects of a function lie in *)
(* its frame and no two of them share a byte, whether their scopes have ended  *)
(* or not (semantic.c 1081-1113, 1342-1374, codegen.c 1701-1716).            *)
THEOREM OwnSlotsHolds == Spec => []OwnSlots
<1>1. Init => Laid
  <2> SUFFICES ASSUME Init PROVE Laid
    OBVIOUS
  <2>1. DOMAIN objects = {} /\ frame = needed
    BY DEF Init
  <2> QED BY <2>1 DEF Laid, LaidOut
<1>2. IInv /\ IInv' /\ Laid /\ [Next]_vars => Laid'
  <2> SUFFICES ASSUME IInv, IInv', Laid, [Next]_vars PROVE Laid'
    OBVIOUS
  <2>0. Chain(scopes, open, opened, objects) /\ Whereabouts
    BY DEF IInv
  <2>1. ASSUME NEW name \in Names, NEW t \in Types, DeclareGlobal(name, t)
        PROVE Laid'
    <3>1. at' = "file" /\ frame' = frame /\ needed' = needed
      BY <2>1 DEF DeclareGlobal
    <3>2. \A j \in DOMAIN objects' : objects'[j].is_global
      <4>1. Chain(scopes', open', opened', objects') /\ Len(objects') = Len(scopes'[1])
        BY <3>1 DEF IInv, Whereabouts
      <4> QED BY <4>1, FileIsGlobal
    <3>3. LaidOut(needed', objects')
      BY <3>2, GlobalsNeedNoSlot
    <3> QED BY <3>1, <3>3 DEF Laid, FrameFits
  <2>2. ASSUME NEW name \in Names, NEW t \in Types, Declare(name, t)
        PROVE Laid'
    <3>1. Slot(t) \in Int /\ Bytes(t) \in Nat
      BY Sizes
    <3>2. Room(Bytes(t)) + 15 < IntLimit => Slot(t) = Room(Bytes(t))
      BY SlotIsRoom
    <3>3. /\ Declared(name, FALSE, ToInt(-Grown(Slot(t))), Bytes(t))
          /\ IF LookupCurrent(name) THEN UNCHANGED <<frame, needed>>
             ELSE frame' = Grown(Slot(t)) /\ needed' = needed + Room(Bytes(t))
      BY <2>2 DEF Declare
    <3> QED BY <2>0, <3>1, <3>2, <3>3, LocalKeepsLayout
  <2>3. ASSUME NEW name \in Names, DeclareParam(name) PROVE Laid'
    <3>1. 8 \in Nat /\ 8 \in Int /\ Room(8) = 8
      BY DEF Room
    <3>2. /\ Declared(name, FALSE, ToInt(-Grown(8)), 8)
          /\ IF LookupCurrent(name) THEN UNCHANGED <<frame, needed>>
             ELSE frame' = Grown(8) /\ needed' = needed + Room(8)
      BY <2>3 DEF DeclareParam
    <3> QED BY <2>0, <3>1, <3>2, LocalKeepsLayout
  <2>4. CASE EnterFunction
    <3>1. /\ Len(scopes) = 1 /\ objects' = SubSeq(objects, 1, Len(scopes[1]))
          /\ frame' = 0 /\ needed' = 0
      BY <2>4 DEF EnterFunction, IInv, Whereabouts
    <3>2. \A j \in DOMAIN objects' : objects'[j].is_global
      BY <2>0, <3>1, ForgetKeepsChain
    <3>3. LaidOut(needed', objects')
      BY <3>2, GlobalsNeedNoSlot
    <3> QED BY <3>1, <3>3 DEF Laid
  <2>5. ASSUME UNCHANGED <<frame, needed, objects>> PROVE Laid'
    BY <2>5 DEF Laid, FrameFits
  <2>6. CASE \/ \E names \in SUBSET Names : Use(names)
             \/ EnterBody \/ Enter \/ Leave \/ LeaveFunction
             \/ UNCHANGED vars
    BY <2>5, <2>6 DEF Use, EnterBody, Enter, Leave, LeaveFunction, vars
  <2> QED BY <2>1, <2>2, <2>3, <2>4, <2>6 DEF Next
<1>3. IInv /\ Laid => OwnSlots
  <2> SUFFICES ASSUME IInv, Laid, FrameFits PROVE OwnSlots
    BY DEF OwnSlots
  <2>1. /\ frame = needed /\ LaidOut(needed, objects)
        /\ needed \in Nat /\ objects \in Seq(Object) /\ IntLimit \in Nat
    BY ScopesAssumption DEF Laid, IInv, Whereabouts, Chain
  <2>2. AlignedFrame \in Nat /\ AlignedFrame >= needed
    <3>1. needed + 16 - 1 = needed + 15 /\ needed + 15 \in Int
          /\ -IntLimit <= needed + 15 /\ needed + 15 < IntLimit
      BY <2>1 DEF FrameFits
    <3>2. RoundUp(frame, 16) = needed + 15 - ((needed + 15) % 16)
      <4>1. ToInt(needed + 15) = needed + 15
        BY <3>1, Ints
      <4>2. needed + 15 >= 0
        BY <2>1
      <4> QED BY <2>1, <3>1, <4>1, <4>2 DEF RoundUp, WholeUnits
    <3>3. \A n \in Nat : n + 15 - ((n + 15) % 16) \in Nat /\ n + 15 - ((n + 15) % 16) >= n
      OBVIOUS
    <3>4. RoundUp(frame, 16) \in Nat /\ RoundUp(frame, 16) >= needed
      BY <2>1, <3>2, <3>3
    <3> QED BY <2>1, <3>4 DEF AlignedFrame
  <2>3. \A j \in DOMAIN objects : objects[j].stack_offset \in Int
    <3>1. \A j \in DOMAIN objects : objects[j] \in Object
      BY <2>1
    <3> QED BY <3>1 DEF Object
  <2>4. \A j \in Locals : objects[j].stack_offset >= -needed
    BY <2>1 DEF LaidOut, Locals
  <2>5. \A j \in Locals : objects[j].stack_offset >= -AlignedFrame
    BY <2>1, <2>2, <2>3, <2>4 DEF Locals
  <2> QED BY <2>1, <2>5 DEF LaidOut, Locals, OwnSlots
<1> QED BY <1>1, <1>2, <1>3, InvariantHolds, PTL DEF Spec

(***************************************************************************)
(* Dead stores.                                                            *)
(***************************************************************************)
(* A variable whose address is taken, or that others can reach anyway. *)
Reachable(place) == ~IsLocal(place) \/ place \in Taken

(* The memories of the two runs. *)
IsMemory(mem) ==
  /\ mem = [p \in Places |-> mem[p]]
  /\ \A p \in Places : mem[p] \in Places => Reachable(mem[p])

Agree(w, m) ==
  /\ IsMemory(w) /\ IsMemory(m)
  /\ \A p \in Places : w[p] /= m[p] => IsLocal(p) /\ p \notin Reads \cup Taken

(* A statement is about objects that exist. *)
IsStmt(s) ==
  /\ s.op \in {"store", "through"} => s.place \in Places
  /\ s.e.op \in Operators
  /\ s.e.op \notin {"lit", "call"} => s.e.place \in Places

(* What may be written down as a place, and the statements. *)
Sites == {NoPlace} \cup ({"global"} \X Names) \cup ({"local"} \X Int)

Statement ==
  [op : {"store", "through", "call", "while", "end"}, place : Sites,
   e : [op : Operators, place : Sites], loop : Nat]

(* The body is written after the declarations outside it. *)
BodyOK ==
  /\ body \in Seq(Statement)
  /\ \A i \in DOMAIN body : IsStmt(body[i])
  /\ phase = "write" /\ body /= <<>> => at = "body"

Lockstep ==
  /\ deleted \subseteq {i \in DOMAIN body : IsDeadStore(body[i])}
  /\ phase = "write" => deleted = {}
  /\ phase = "run" => Agree(written, pruned)
  /\ phase /= "over" => shown.written = shown.pruned
  /\ SameBehaviour

DInv == IInv /\ BodyOK /\ Lockstep

-------------------------------------------------------------------------------
(* No number is an address. *)
LEMMA NumbersAreNoPlaces ==
  ASSUME NEW n PROVE Numeral(n) \notin Places
BY DEF Numeral, Places, Place

(* A name that is known names an object (symtab.c 66-79). *)
LEMMA KnownHasPlace ==
  ASSUME IInv, NEW name \in Known
  PROVE  Place(Lookup(name)) \in Places
<1>1. Lookup(name) = Meant(name) /\ Lookup(name) /= None
  BY Binding DEF IInv, Known
<1>2. Visible(name) /= {} /\ Visible(name) \subseteq DOMAIN objects
  BY <1>1 DEF Meant, Visible
<1>3. DOMAIN objects = 1..Len(objects) /\ Len(objects) \in Nat
  BY DEF IInv, Chain
<1>4. PICK j \in Visible(name) : \A k \in Visible(name) : j >= k
  BY <1>2, <1>3, HasGreatest
<1> DEFINE latest == CHOOSE i \in Visible(name) : \A k \in Visible(name) : i >= k
<1>5. latest \in Visible(name)
  BY <1>4
<1>6. Meant(name) = Ref(objects[latest])
  BY <1>2 DEF Meant
<1> HIDE DEF latest
<1> QED BY <1>1, <1>2, <1>5, <1>6 DEF Places

-------------------------------------------------------------------------------
(***************************************************************************)
(* One statement that is in both runs.                                      *)
(***************************************************************************)
(* What a statement reads, a variable that is read holds in both memories. *)
LEMMA ReadAgrees ==
  ASSUME NEW i \in DOMAIN body, NEW w, NEW m, Agree(w, m),
         NEW p \in ReadIn(body[i]) \cap Places
  PROVE  w[p] = m[p]
<1>1. ~IsLocal(p) \/ p \in Reads
  BY DEF Reads
<1> QED BY <1>1 DEF Agree

(* So does what can be reached through a pointer. *)
LEMMA PointeeAgrees ==
  ASSUME NEW w, NEW m, Agree(w, m), NEW p \in Places, w[p] \in Places
  PROVE  w[w[p]] = m[w[p]]
BY DEF Agree, IsMemory, Reachable

(* The operand of an expression is the same, whatever is stale. *)
LEMMA SameOperand ==
  ASSUME NEW i \in DOMAIN body, NEW w, NEW m, Agree(w, m), IsStmt(body[i])
  PROVE  LET e == body[i].e
         IN  /\ Faults(e, w) <=> Faults(e, m)
             /\ ~Faults(e, w) => Value(e, w) = Value(e, m)
<1> DEFINE e == body[i].e
<1>1. e.op \in {"var", "deref", "div"} => w[e.place] = m[e.place]
  <2>1. e.op \in {"var", "deref", "div"} => e.place \in ReadIn(body[i]) \cap Places
    BY DEF ReadIn, ReadBy, IsStmt, Operators
  <2> QED BY <2>1, ReadAgrees
<1>2. e.op = "deref" /\ w[e.place] \in Places => w[w[e.place]] = m[w[e.place]]
  BY PointeeAgrees DEF IsStmt
<1>3. Faults(e, w) <=> Faults(e, m)
  BY <1>1 DEF Faults
<1>4. ~Faults(e, w) => Value(e, w) = Value(e, m)
  <2>1. CASE e.op = "deref"
    BY <2>1, <1>1, <1>2 DEF Faults, Value
  <2>2. CASE e.op = "var"
    BY <2>2, <1>1 DEF Value
  <2>3. CASE e.op \notin {"deref", "var"}
    BY <2>3 DEF Value
  <2> QED BY <2>1, <2>2, <2>3
<1> QED BY <1>3, <1>4

(* A value that is an address is one that can be reached. *)
LEMMA ValueReachable ==
  ASSUME NEW i \in DOMAIN body, NEW w, IsMemory(w), IsStmt(body[i]),
         ~Faults(body[i].e, w), Value(body[i].e, w) \in Places
  PROVE  Reachable(Value(body[i].e, w))
<1> DEFINE e == body[i].e
<1>1. CASE e.op = "var"
  BY <1>1 DEF Value, IsStmt, IsMemory
<1>2. CASE e.op = "addr"
  <2>1. Value(e, w) = e.place /\ e.place \in Places
    BY <1>2 DEF Value, IsStmt
  <2>2. IsLocal(e.place) => e.place \in Taken
    BY <1>2 DEF Taken, TakenBy
  <2> QED BY <2>1, <2>2 DEF Reachable
<1>3. CASE e.op = "deref"
  <2>1. e.place \in Places /\ w[e.place] \in Places /\ Value(e, w) = w[w[e.place]]
    BY <1>3 DEF Value, IsStmt, Faults
  <2> QED BY <2>1 DEF IsMemory
<1>4. CASE e.op \notin {"var", "addr", "deref"}
  BY <1>4, NumbersAreNoPlaces DEF Value
<1> QED BY <1>1, <1>2, <1>3, <1>4

(* Storing the same thing at the same place of both memories, or something    *)
(* at a place of one of them that nobody reads or points to.                 *)
LEMMA StoreBoth ==
  ASSUME NEW w, NEW m, Agree(w, m), NEW p \in Places, NEW v, v \in Places => Reachable(v)
  PROVE  Agree([w EXCEPT ![p] = v], [m EXCEPT ![p] = v])
<1> DEFINE w2 == [w EXCEPT ![p] = v]
           m2 == [m EXCEPT ![p] = v]
<1>1. /\ w = [q \in Places |-> w[q]] /\ m = [q \in Places |-> m[q]]
  BY DEF Agree, IsMemory
<1>2. /\ w2 = [q \in Places |-> IF q = p THEN v ELSE w[q]]
      /\ m2 = [q \in Places |-> IF q = p THEN v ELSE m[q]]
  BY <1>1
<1>3. \A q \in Places : /\ w2[q] = IF q = p THEN v ELSE w[q]
                        /\ m2[q] = IF q = p THEN v ELSE m[q]
  BY <1>2
<1>4. w2 = [q \in Places |-> w2[q]] /\ m2 = [q \in Places |-> m2[q]]
  BY <1>2
<1> HIDE DEF w2, m2
<1>5. IsMemory(w2) /\ IsMemory(m2)
  BY <1>3, <1>4 DEF Agree, IsMemory
<1>6. \A q \in Places : w2[q] /= m2[q] => IsLocal(q) /\ q \notin Reads \cup Taken
  BY <1>3 DEF Agree
<1>7. Agree(w2, m2)
  BY <1>5, <1>6 DEF Agree
<1> QED BY <1>7 DEF w2, m2

LEMMA StoreOne ==
  ASSUME NEW w, NEW m, Agree(w, m), NEW p \in Places, IsLocal(p), p \notin Reads \cup Taken,
         NEW v, v \in Places => Reachable(v)
  PROVE  Agree([w EXCEPT ![p] = v], m)
<1> DEFINE w2 == [w EXCEPT ![p] = v]
<1>1. w = [q \in Places |-> w[q]]
  BY DEF Agree, IsMemory
<1>2. w2 = [q \in Places |-> IF q = p THEN v ELSE w[q]]
  BY <1>1
<1>3. \A q \in Places : w2[q] = IF q = p THEN v ELSE w[q]
  BY <1>2
<1>4. w2 = [q \in Places |-> w2[q]]
  BY <1>2
<1> HIDE DEF w2
<1>5. IsMemory(w2)
  BY <1>3, <1>4 DEF Agree, IsMemory
<1>6. \A q \in Places : w2[q] /= m[q] => IsLocal(q) /\ q \notin Reads \cup Taken
  BY <1>3 DEF Agree
<1>7. Agree(w2, m)
  BY <1>5, <1>6 DEF Agree
<1> QED BY <1>7 DEF w2

(* The assignment in an expression. *)
LEMMA WrittenAgrees ==
  ASSUME NEW w, NEW m, Agree(w, m), NEW s, IsStmt(s)
  PROVE  Agree(Written(s.e, w), Written(s.e, m))
<1>1. CASE s.e.op = "set"
  <2>1. s.e.place \in Places
    BY <1>1 DEF IsStmt
  <2>2. Agree([w EXCEPT ![s.e.place] = Numeral(1)], [m EXCEPT ![s.e.place] = Numeral(1)])
    BY <2>1, StoreBoth, NumbersAreNoPlaces
  <2> QED BY <1>1, <2>2 DEF Written
<1>2. CASE s.e.op /= "set"
  BY <1>2 DEF Written
<1> QED BY <1>1, <1>2

(* The globals are never stale. *)
LEMMA SameGlobals ==
  ASSUME NEW w, NEW m, Agree(w, m)
  PROVE  Globals(w) = Globals(m)
<1>1. \A q \in {p \in Places : ~IsLocal(p)} : w[q] = m[q]
  BY DEF Agree
<1> QED BY <1>1 DEF Globals

(* Where a store goes, and whether the statement traps. *)
LEMMA SameTarget ==
  ASSUME NEW i \in DOMAIN body, NEW w, NEW m, Agree(w, m), IsStmt(body[i])
  PROVE  LET s == body[i]
         IN  /\ s.op \in {"store", "through"} =>
                  Target(s, Written(s.e, w)) = Target(s, Written(s.e, m))
             /\ Stops(s, w) <=> Stops(s, m)
<1> DEFINE s == body[i]
           w2 == Written(s.e, w)
           m2 == Written(s.e, m)
<1>1. Agree(w2, m2)
  BY WrittenAgrees
<1>2. s.op = "through" => s.place \in ReadIn(s) \cap Places
  BY DEF ReadIn, IsStmt
<1> HIDE DEF w2, m2
<1>3. s.op = "through" => w2[s.place] = m2[s.place]
  BY <1>1, <1>2, ReadAgrees
<1>4. s.op \in {"store", "through"} => Target(s, w2) = Target(s, m2)
  BY <1>3 DEF Target
<1>5. Faults(s.e, w) <=> Faults(s.e, m)
  BY SameOperand
<1>6. Stops(s, w) <=> Stops(s, m)
  BY <1>4, <1>5 DEF Stops, w2, m2
<1> QED BY <1>4, <1>6 DEF w2, m2

(* Both runs show the same. *)
LEMMA SameShown ==
  ASSUME NEW i \in DOMAIN body, NEW w, NEW m, Agree(w, m), IsStmt(body[i])
  PROVE  Shows(body[i], w) = Shows(body[i], m)
<1> DEFINE s == body[i]
<1>1. Stops(s, w) <=> Stops(s, m)
  BY SameTarget
<1>2. Globals(w) = Globals(m) /\ Globals(Written(s.e, w)) = Globals(Written(s.e, m))
  BY SameGlobals, WrittenAgrees
<1>3. ~Stops(s, w) => Value(s.e, w) = Value(s.e, m)
  BY SameOperand DEF Stops
<1>4. CASE Stops(s, w)
  BY <1>1, <1>2, <1>4 DEF Shows
<1>5. CASE ~Stops(s, w)
  BY <1>1, <1>2, <1>3, <1>5 DEF Shows
<1> QED BY <1>4, <1>5

(* And their memories agree afterwards. *)
LEMMA LeavesAgree ==
  ASSUME NEW i \in DOMAIN body, NEW w, NEW m, Agree(w, m), IsStmt(body[i]),
         ~Stops(body[i], w)
  PROVE  Agree(Leaves(body[i], w), Leaves(body[i], m))
<1> DEFINE s == body[i]
           w2 == Written(s.e, w)
           m2 == Written(s.e, m)
           t == Target(s, w2)
           v == Value(s.e, w)
<1>1. Agree(w2, m2)
  BY WrittenAgrees
<1>2. ~Stops(s, m)
  BY SameTarget
<1>3. CASE s.op \notin {"store", "through"}
  BY <1>1, <1>3 DEF Leaves
<1>4. CASE s.op \in {"store", "through"}
  <2>1. t = Target(s, m2)
    BY <1>4, SameTarget
  <2>2. t \in Places
    BY <1>4 DEF Stops, Target, IsStmt
  <2>3. ~Faults(s.e, w)
    BY DEF Stops
  <2>4. v = Value(s.e, m)
    BY <2>3, SameOperand
  <2>5. v \in Places => Reachable(v)
    BY <2>3, ValueReachable DEF Agree
  <2>6. /\ Leaves(s, w) = [w2 EXCEPT ![t] = v]
        /\ Leaves(s, m) = [m2 EXCEPT ![t] = v]
    BY <2>1, <2>4, <1>2, <1>4 DEF Leaves
  <2> HIDE DEF t, v, w2, m2
  <2>7. Agree([w2 EXCEPT ![t] = v], [m2 EXCEPT ![t] = v])
    BY <1>1, <2>2, <2>5, StoreBoth
  <2> QED BY <2>6, <2>7
<1> QED BY <1>3, <1>4

-------------------------------------------------------------------------------
(***************************************************************************)
(* One statement that was deleted.                                          *)
(***************************************************************************)
(* It only makes a variable stale that nobody reads, and what it showed, if    *)
(* anything, was the trap of a division.                                     *)
LEMMA DeletedStep ==
  ASSUME NEW i \in DOMAIN body, NEW w, NEW m, Agree(w, m), IsStmt(body[i]),
         IsDeadStore(body[i])
  PROVE  LET s == body[i]
         IN  /\ Stops(s, w) => s.e.op = "div" /\ Shows(s, w) = <<"trap">>
             /\ ~Stops(s, w) => Shows(s, w) = <<>> /\ Agree(Leaves(s, w), m)
<1> DEFINE s == body[i]
<1>1. /\ s.op = "store" /\ s.place \in Places /\ IsLocal(s.place)
      /\ s.place \notin Reads \cup Taken /\ s.e.op \in {"lit", "var", "div"}
  BY DEF IsDeadStore, Pure, IsStmt
<1>2. <<>> \o <<>> = <<>> /\ <<>> \o <<"trap">> = <<"trap">>
  OBVIOUS
<1>3. Stops(s, w) => s.e.op = "div"
  BY <1>1 DEF Stops, Faults
<1>4. Stops(s, w) => Shows(s, w) = <<"trap">>
  BY <1>1, <1>2 DEF Shows
<1>5. ~Stops(s, w) => Shows(s, w) = <<>>
  BY <1>1, <1>2 DEF Shows
<1>6. ASSUME ~Stops(s, w) PROVE Agree(Leaves(s, w), m)
  <2>1. Leaves(s, w) = [w EXCEPT ![s.place] = Value(s.e, w)]
    BY <1>1, <1>6 DEF Leaves, Written, Target
  <2>2. Value(s.e, w) \in Places => Reachable(Value(s.e, w))
    BY <1>6, ValueReachable DEF Agree, Stops
  <2>3. Agree([w EXCEPT ![s.place] = Value(s.e, w)], m)
    BY <1>1, <2>2, StoreOne
  <2> QED BY <2>1, <2>3
<1> QED BY <1>3, <1>4, <1>5, <1>6
-------------------------------------------------------------------------------
(***************************************************************************)
(* Writing the body.                                                       *)
(***************************************************************************)
LEMMA PlacesAreSites ==
  ASSUME IInv PROVE Places \subseteq Sites
<1>1. ASSUME NEW j \in DOMAIN objects PROVE Place(Ref(objects[j])) \in Sites
  <2>1. objects[j] \in Object
    BY DEF IInv, Chain
  <2>2. objects[j].name \in Names /\ objects[j].stack_offset \in Int
    BY <2>1 DEF Object
  <2> QED BY <2>2 DEF Place, Ref, Sites
<1> QED BY <1>1 DEF Places

(* A statement on names that are known. *)
LEMMA OnKnown ==
  ASSUME IInv, NEW op \in Operators, NEW name \in Known
  PROVE  /\ On(op, name) \in [op : Operators, place : Sites]
         /\ On(op, name).op = op
         /\ op \notin {"lit", "call"} => On(op, name).place \in Places
<1>1. Place(Lookup(name)) \in Places /\ Place(Lookup(name)) \in Sites
  BY KnownHasPlace, PlacesAreSites
<1>2. NoPlace \in Sites
  BY DEF Sites
<1> QED BY <1>1, <1>2 DEF On, Expr

(* One more statement, in the body of the function. *)
LEMMA AppendKeepsBody ==
  ASSUME IInv, BodyOK, NEW s \in Statement, IsStmt(s), body' = Append(body, s),
         objects' = objects, at' = "body"
  PROVE  BodyOK'
<1>1. body \in Seq(Statement)
  BY DEF BodyOK
<1>2. body' \in Seq(Statement)
  BY <1>1
<1>3. Places' = Places
  BY DEF Places
<1>4. ASSUME NEW i \in DOMAIN body' PROVE IsStmt(body'[i])
  <2>1. CASE i \in DOMAIN body
    <3>1. body'[i] = body[i]
      BY <1>1, <2>1
    <3> QED BY <2>1, <3>1 DEF BodyOK
  <2>2. CASE i \notin DOMAIN body
    <3>1. body'[i] = s
      BY <1>1, <1>4, <2>2
    <3> QED BY <3>1
  <2> QED BY <2>1, <2>2
<1>5. (\A i \in DOMAIN body : IsStmt(body[i]))'
  BY <1>3, <1>4 DEF IsStmt
<1> QED BY <1>2, <1>5 DEF BodyOK

(* The objects of before are there still, the statements too. *)
LEMMA SamePlacesKeepBody ==
  ASSUME BodyOK, body' = body, Places \subseteq Places',
         phase' = "write" /\ body /= <<>> => at' = "body"
  PROVE  BodyOK'
BY DEF BodyOK, IsStmt

(* While the body is written nothing is deleted and nothing runs. *)
LEMMA WritingKeepsLockstep ==
  ASSUME Lockstep, phase = "write", UNCHANGED <<deleted, run>>
  PROVE  Lockstep'
<1>1. deleted' = {} /\ phase' = "write" /\ shown' = shown
  BY DEF Lockstep, run
<1> QED BY <1>1 DEF Lockstep, SameBehaviour
(* A declaration puts one object more at the end, or none. *)
LEMMA DeclaredAddsPlace ==
  ASSUME IInv, NEW name, NEW is_global, NEW offset, NEW bytes,
         Declared(name, is_global, offset, bytes)
  PROVE  Places \subseteq Places'
<1>1. objects \in Seq(Object)
  BY DEF IInv, Chain
<1>2. CASE objects' = objects
  BY <1>2 DEF Places
<1>3. CASE objects' /= objects
  <2>1. PICK object : objects' = Append(objects, object)
    BY <1>3 DEF Declared
  <2>2. \A j \in DOMAIN objects : j \in DOMAIN objects' /\ objects'[j] = objects[j]
    BY <1>1, <2>1
  <2> QED BY <2>2 DEF Places
<1> QED BY <1>2, <1>3

LEMMA KeepsWriteDeclaration ==
  ASSUME DInv, WriteDeclaration PROVE DInv'
<1>1. phase = "write" /\ UNCHANGED <<body, deleted, run>> /\ phase' = "write"
  BY DEF WriteDeclaration, run
<1>2. IInv'
  BY KeepsDeclareGlobal, KeepsDeclare, KeepsDeclareParam, KeepsEnterFunction, KeepsEnterBody
     DEF WriteDeclaration, DInv
<1>3. BodyOK'
  <2>1. CASE body = <<>>
    BY <1>1, <2>1 DEF BodyOK
  <2>2. CASE body /= <<>>
    <3>1. at = "body"
      BY <1>1, <2>2 DEF DInv, BodyOK
    <3>2. PICK name \in Names, t \in Types : Declare(name, t)
      BY <3>1 DEF WriteDeclaration, DeclareGlobal, DeclareParam, EnterFunction, EnterBody
    <3>3. Places \subseteq Places'
      BY <3>2, DeclaredAddsPlace DEF Declare, DInv
    <3>4. at' = "body"
      BY <3>1, <3>2 DEF Declare
    <3> QED BY <1>1, <3>3, <3>4, SamePlacesKeepBody DEF DInv
  <2> QED BY <2>1, <2>2
<1>4. Lockstep'
  BY <1>1, WritingKeepsLockstep DEF DInv, run
<1> QED BY <1>2, <1>3, <1>4 DEF DInv

LEMMA KeepsWriteStore ==
  ASSUME DInv, WriteStore PROVE DInv'
<1>1. PICK shape \in Shapes, target \in Known, name \in Known :
        /\ shape[1] \in {"store", "through"}
        /\ Use({target, name})
        /\ body' = Append(body, Stmt(shape[1], Place(Lookup(target)), On(shape[2], name), 0))
  BY DEF WriteStore
<1> DEFINE s == Stmt(shape[1], Place(Lookup(target)), On(shape[2], name), 0)
<1>2. phase = "write" /\ UNCHANGED <<deleted, run>>
  BY DEF WriteStore, Writing
<1>3. IInv'
  BY <1>1, KeepsUse DEF DInv, Known
<1>4. shape[2] \in Operators
  BY DeadStoresAssumption
<1>5. Place(Lookup(target)) \in Places /\ Place(Lookup(target)) \in Sites
  BY KnownHasPlace, PlacesAreSites DEF DInv
<1>6. s \in Statement /\ IsStmt(s)
  BY <1>1, <1>4, <1>5, OnKnown DEF DInv, Stmt, Statement, IsStmt
<1> HIDE DEF s
<1>7. BodyOK'
  BY <1>1, <1>6, AppendKeepsBody DEF DInv, Use, s
<1>8. Lockstep'
  BY <1>2, WritingKeepsLockstep DEF DInv, run
<1> QED BY <1>3, <1>7, <1>8 DEF DInv
LEMMA KeepsWriteCall ==
  ASSUME DInv, WriteCall PROVE DInv'
<1>1. PICK shape \in Shapes, name \in Known :
        /\ Use({name})
        /\ body' = Append(body, Stmt("call", NoPlace, On(shape[2], name), 0))
  BY DEF WriteCall
<1> DEFINE s == Stmt("call", NoPlace, On(shape[2], name), 0)
<1>2. UNCHANGED <<deleted, run>> /\ phase = "write"
  BY DEF WriteCall, Writing
<1>3. IInv'
  BY <1>1, KeepsUse DEF DInv, Known
<1>4. shape[2] \in Operators
  BY DeadStoresAssumption
<1>5. s \in Statement /\ IsStmt(s)
  BY <1>4, OnKnown DEF DInv, Stmt, Statement, IsStmt, Sites
<1> HIDE DEF s
<1>6. BodyOK'
  BY <1>1, <1>5, AppendKeepsBody DEF DInv, Use, s
<1>7. Lockstep'
  BY <1>2, WritingKeepsLockstep DEF DInv
<1> QED BY <1>3, <1>6, <1>7 DEF DInv

(* The beginning or the end of a loop. *)
LEMMA BracketIsStmt ==
  ASSUME NEW op \in {"while", "end"}, NEW n \in Nat
  PROVE  LET s == Stmt(op, NoPlace, Expr("lit", NoPlace), n)
         IN  s \in Statement /\ IsStmt(s)
BY DEF Stmt, Expr, Statement, IsStmt, Sites, Operators

LEMMA KeepsWriteWhile ==
  ASSUME DInv, WriteWhile PROVE DInv'
<1> DEFINE s == Stmt("while", NoPlace, Expr("lit", NoPlace), opened')
<1>1. /\ Enter /\ body' = Append(body, s) /\ UNCHANGED <<deleted, run>>
      /\ phase = "write"
  BY DEF WriteWhile, Writing
<1>2. IInv'
  BY <1>1, KeepsEnter DEF DInv
<1>3. opened' \in Nat
  BY <1>2 DEF IInv, Chain
<1>4. s \in Statement /\ IsStmt(s)
  BY <1>3, BracketIsStmt
<1> HIDE DEF s
<1>5. BodyOK'
  BY <1>1, <1>4, AppendKeepsBody DEF DInv, Enter
<1>6. Lockstep'
  BY <1>1, WritingKeepsLockstep DEF DInv
<1> QED BY <1>2, <1>5, <1>6 DEF DInv

LEMMA KeepsWriteEnd ==
  ASSUME DInv, WriteEnd PROVE DInv'
<1> DEFINE s == Stmt("end", NoPlace, Expr("lit", NoPlace), open[Current])
<1>1. /\ Leave /\ body' = Append(body, s) /\ UNCHANGED <<deleted, run>>
      /\ phase = "write"
  BY DEF WriteEnd
<1>2. IInv'
  BY <1>1, KeepsLeave DEF DInv
<1>3. open[Current] \in Nat
  <2>1. open \in Seq(Nat) /\ Len(open) = Len(scopes) /\ Len(scopes) >= 1
    BY DEF DInv, IInv, Chain
  <2> QED BY <2>1 DEF Current
<1>4. s \in Statement /\ IsStmt(s)
  BY <1>3, BracketIsStmt
<1> HIDE DEF s
<1>5. BodyOK'
  BY <1>1, <1>4, AppendKeepsBody DEF DInv, Leave
<1>6. Lockstep'
  BY <1>1, WritingKeepsLockstep DEF DInv
<1> QED BY <1>2, <1>5, <1>6 DEF DInv

-------------------------------------------------------------------------------
(***************************************************************************)
(* The pass and the two runs.                                              *)
(***************************************************************************)
(* What the table of locals and the memories are about does not change. *)
LEMMA SameTables ==
  ASSUME UNCHANGED <<objects, body>>
  PROVE  Places' = Places /\ Reads' = Reads /\ Taken' = Taken
<1>1. objects' = objects /\ body' = body
  OBVIOUS
<1> QED BY <1>1 DEF Places, Reads, Taken

LEMMA AgreeStays ==
  ASSUME UNCHANGED <<objects, body>>, Agree(written', pruned')
  PROVE  Agree(written, pruned)'
BY SameTables DEF Agree, IsMemory, Reachable

LEMMA BodyStays ==
  ASSUME BodyOK, UNCHANGED <<objects, body>>, phase' /= "write"
  PROVE  BodyOK'
BY SameTables, SamePlacesKeepBody

LEMMA KeepsPrune ==
  ASSUME DInv, Prune PROVE DInv'
<1>1. /\ LeaveFunction /\ phase = "write" /\ phase' = "run"
      /\ written' = [p \in Places |-> Numeral(0)] /\ pruned' = written'
      /\ UNCHANGED <<body, shown>>
  BY DEF Prune
<1>2. UNCHANGED <<objects, body>>
  BY <1>1 DEF LeaveFunction
<1>3. IInv'
  BY <1>1, KeepsLeaveFunction DEF DInv
<1>4. BodyOK'
  BY <1>1, <1>2, BodyStays DEF DInv
<1>5. deleted' \subseteq {i \in DOMAIN body : IsDeadStore(body[i])}
  BY DEF Prune
<1>6. (deleted \subseteq {i \in DOMAIN body : IsDeadStore(body[i])})'
  BY <1>2, <1>5, SameTables DEF IsDeadStore
<1>7. Agree(written', pruned')
  <2>1. \A p \in Places : written'[p] \notin Places
    BY <1>1, NumbersAreNoPlaces
  <2>2. written' = [p \in Places |-> written'[p]]
    BY <1>1
  <2> QED BY <1>1, <2>1, <2>2 DEF Agree, IsMemory
<1>8. Lockstep'
  BY <1>1, <1>2, <1>6, <1>7, AgreeStays DEF Lockstep, DInv, SameBehaviour
<1> QED BY <1>3, <1>4, <1>8 DEF DInv

LEMMA KeepsRunStmt ==
  ASSUME DInv, RunStmt PROVE DInv'
<1> DEFINE s == body[pc]
           stops == Stops(s, written) \/ (pc \notin deleted /\ Stops(s, pruned))
<1>1. /\ phase = "run" /\ pc \in DOMAIN body
      /\ written' = Leaves(s, written)
      /\ pruned' = IF pc \in deleted THEN pruned ELSE Leaves(s, pruned)
      /\ shown' = [written |-> Shows(s, written),
                   pruned |-> IF pc \in deleted THEN <<>> ELSE Shows(s, pruned)]
      /\ phase' = IF stops THEN "over" ELSE "run"
      /\ UNCHANGED <<vars, body, deleted>>
  BY DEF RunStmt
<1>2. objects' = objects /\ body' = body /\ deleted' = deleted /\ phase' /= "write"
  BY <1>1 DEF vars
<1>3. IInv'
  BY <1>1 DEF DInv, IInv, Whereabouts, UsesBind, vars
<1>4. BodyOK'
  BY <1>2, BodyStays DEF DInv
<1>5. Agree(written, pruned) /\ IsStmt(s) /\ body \in Seq(Statement)
  BY <1>1 DEF DInv, Lockstep, BodyOK
<1>6. (deleted \subseteq {i \in DOMAIN body : IsDeadStore(body[i])})'
  BY <1>2, SameTables DEF IsDeadStore, DInv, Lockstep
<1>7. CASE pc \in deleted
  <2>1. IsDeadStore(s)
    BY <1>7 DEF DInv, Lockstep
  <2>2. /\ Stops(s, written) => s.e.op = "div" /\ Shows(s, written) = <<"trap">>
        /\ ~Stops(s, written) => Shows(s, written) = <<>> /\ Agree(Leaves(s, written), pruned)
    BY <1>1, <1>5, <2>1, DeletedStep
  <2>3. CASE Stops(s, written)
    <3>1. phase' = "over" /\ shown' = [written |-> <<"trap">>, pruned |-> <<>>]
      BY <1>1, <1>7, <2>2, <2>3
    <3>2. pc' = pc + 1
      BY <2>1 DEF RunStmt, IsDeadStore
    <3>3. pc' - 1 = pc
      <4>1. pc \in Int
        BY <1>1, <1>5
      <4> QED BY <3>2, <4>1
    <3>4. TrapDeleted'
      BY <1>2, <1>7, <2>2, <2>3, <3>1, <3>3 DEF TrapDeleted
    <3> QED BY <1>2, <1>3, <1>4, <1>6, <3>1, <3>4 DEF DInv, Lockstep, SameBehaviour
  <2>4. CASE ~Stops(s, written)
    <3>1. phase' = "run" /\ shown'.written = shown'.pruned
      BY <1>1, <1>7, <2>2, <2>4
    <3>2. Agree(written', pruned')
      BY <1>1, <1>7, <2>2, <2>4
    <3> QED BY <1>2, <1>3, <1>4, <1>6, <3>1, <3>2, AgreeStays DEF DInv, Lockstep, SameBehaviour
  <2> QED BY <2>3, <2>4
<1>8. CASE pc \notin deleted
  <2>1. shown'.written = shown'.pruned
    BY <1>1, <1>5, <1>8, SameShown
  <2>2. CASE stops
    BY <1>1, <1>2, <1>3, <1>4, <1>6, <2>1, <2>2 DEF DInv, Lockstep, SameBehaviour
  <2>3. CASE ~stops
    <3>1. Agree(written', pruned')
      BY <1>1, <1>5, <1>8, <2>3, LeavesAgree
    <3> QED BY <1>2, <1>3, <1>4, <1>6, <2>1, <3>1, AgreeStays DEF DInv, Lockstep, SameBehaviour
  <2> QED BY <2>2, <2>3
<1> QED BY <1>7, <1>8

LEMMA KeepsOver ==
  ASSUME DInv, Return \/ Over \/ UNCHANGED dvars PROVE DInv'
<1>1. UNCHANGED <<vars, body, deleted, pc, written, pruned, shown>>
  BY DEF Return, Over, dvars, run
<1>2. phase' = phase \/ (phase = "run" /\ phase' = "over")
  BY DEF Return, Over, dvars, run
<1>3. objects' = objects /\ at' = at
  BY <1>1 DEF vars
<1>4. IInv'
  BY <1>1 DEF DInv, IInv, Whereabouts, UsesBind, vars
<1>5. BodyOK'
  <2>1. phase' = "write" /\ body /= <<>> => at' = "body"
    BY <1>2, <1>3 DEF DInv, BodyOK
  <2> QED BY <1>1, <1>3, <2>1, SameTables, SamePlacesKeepBody DEF DInv
<1>6. (deleted \subseteq {i \in DOMAIN body : IsDeadStore(body[i])})'
  BY <1>1, <1>3, SameTables DEF IsDeadStore, DInv, Lockstep
<1>7. phase' = "run" => Agree(written, pruned)'
  BY <1>1, <1>2, <1>3, AgreeStays DEF DInv, Lockstep
<1>8. SameBehaviour'
  BY <1>1, <1>2 DEF DInv, Lockstep, SameBehaviour, TrapDeleted
<1>9. Lockstep'
  BY <1>1, <1>2, <1>6, <1>7, <1>8 DEF DInv, Lockstep
<1> QED BY <1>4, <1>5, <1>9 DEF DInv

(* The body is about what is declared, and the two runs agree on everything    *)
(* that can still be read.                                                  *)
THEOREM RunsAgree == DSpec => []DInv
<1>1. DInit => DInv
  <2> SUFFICES ASSUME DInit PROVE DInv
    OBVIOUS
  <2>1. IInv
    BY InitIsChain DEF DInit
  <2>2. BodyOK
    BY DEF DInit, BodyOK
  <2>3. Lockstep
    BY DEF DInit, Lockstep, SameBehaviour
  <2> QED BY <2>1, <2>2, <2>3 DEF DInv
<1>2. DInv /\ [DNext]_dvars => DInv'
  BY KeepsWriteDeclaration, KeepsWriteStore, KeepsWriteCall, KeepsWriteWhile, KeepsWriteEnd,
     KeepsPrune, KeepsRunStmt, KeepsOver DEF DNext
<1> QED BY <1>1, <1>2, PTL DEF DSpec

(* However the body is written and however its loops go, the pruned function   *)
(* makes the calls of the written one with the same arguments and the same     *)
(* globals, and traps where it traps, except for the division in a store that  *)
(* was deleted (opt.c 24-44, 322).                                          *)
THEOREM SameBehaviourHolds == DSpec => []SameBehaviour
<1>1. DInv => SameBehaviour
  BY DEF DInv, Lockstep
<1> QED BY <1>1, RunsAgree, PTL

(* Only a local that nothing reads and no pointer reaches is ever out of date   *)
(* in the pruned run (opt.c 226-318).                                        *)
THEOREM OnlyUnreadStaleHolds == DSpec => []OnlyUnreadStale
<1>1. DInv => OnlyUnreadStale
  <2> SUFFICES ASSUME DInv, phase = "run"
               PROVE  /\ Stale \cap (Reads \cup Taken) = {}
                      /\ \A p \in Stale : IsLocal(p)
                      /\ \A p \in DOMAIN written : written[p] \notin Stale
    BY DEF OnlyUnreadStale
  <2>1. Agree(written, pruned)
    BY DEF DInv, Lockstep
  <2>2. DOMAIN written = Places
    BY <2>1 DEF Agree, IsMemory
  <2> QED BY <2>1, <2>2 DEF Stale, Agree, IsMemory, Reachable
<1> QED BY <1>1, RunsAgree, PTL
===============================================================================
