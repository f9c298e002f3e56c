----------------------------- MODULE LexerProofs -----------------------------
(***************************************************************************)
(* Theorems about Lexer: every text of any length, over any alphabet, is cut *)
(* into the tokens C gives it.                                              *)
(*                                                                         *)
(* The lexer and the grammar are recursive functions on the places of the    *)
(* text, each of which goes to a later place.  So each has a solution (lemma *)
(* Recursion), and what they agree on at a place follows from what they      *)
(* agree on at later ones (Descending).                                     *)
(***************************************************************************)
EXTENDS Lexer, SequenceTheorems, WellFoundedInduction, TLAPS

(***************************************************************************)
(* Recursion along a rank.                                                 *)
(***************************************************************************)
(* A set of ranked things that is not empty has one of the least rank. *)
LEMMA LeastRank ==
  ASSUME NEW D, NEW M \in Nat, NEW rank \in [D -> 0..M], NEW B \in SUBSET D, B /= {}
  PROVE  \E i \in B : \A j \in B : rank[i] <= rank[j]
<1> DEFINE T == {rank[j] : j \in B}
<1>1. T \subseteq Nat /\ T /= {}
  OBVIOUS
<1>2. PICK y \in T : \A z \in T : ~(<<z, y>> \in OpToRel(<, Nat))
  BY <1>1, WFMin, NatLessThanWellFounded, Zenon
<1>3. \A z \in T : ~(z < y)
  <2> HIDE DEF T
  <2> QED
    BY <1>1, <1>2 DEF OpToRel
<1>4. PICK i \in B : y = rank[i]
  OBVIOUS
<1>5. rank[i] \in Nat /\ \A j \in B : rank[j] \in T /\ rank[j] \in Nat
  OBVIOUS
<1> HIDE DEF T
<1> QED
  BY <1>3, <1>4, <1>5

(* Off the stops, the value at i is got by g from the value at a place of a     *)
(* lower rank.                                                             *)
Descends(D, S, M, rank, stop, nxt, base, g) ==
  /\ M \in Nat /\ rank \in [D -> 0..M] /\ stop \subseteq D
  /\ nxt \in [D -> D] /\ base \in [D -> S] /\ g \in [D \X S -> S]
  /\ \A i \in D \ stop : rank[nxt[i]] < rank[i]
Solves(f, D, stop, nxt, base, g) ==
  \A i \in D : f[i] = IF i \in stop THEN base[i] ELSE g[<<i, f[nxt[i]]>>]

(* An equation that descends has a solution. *)
LEMMA Recursion ==
  ASSUME NEW D, NEW S, NEW M, NEW rank, NEW stop, NEW nxt, NEW base, NEW g,
         Descends(D, S, M, rank, stop, nxt, base, g)
  PROVE  \E f \in [D -> S] : Solves(f, D, stop, nxt, base, g)
<1> USE DEF Descends
<1> DEFINE Eq(f, i) == f[i] = IF i \in stop THEN base[i] ELSE g[<<i, f[nxt[i]]>>]
           Upto(r) == \E f \in [D -> S] : \A i \in D : rank[i] < r => Eq(f, i)
<1>1. Upto(0)
  <2>1. base \in [D -> S] /\ \A i \in D : ~(rank[i] < 0)
    OBVIOUS
  <2> QED
    BY <2>1
<1>2. ASSUME NEW r \in Nat, Upto(r)
      PROVE  Upto(r + 1)
  <2>1. PICK f \in [D -> S] : \A i \in D : rank[i] < r => Eq(f, i)
    BY <1>2
  <2> DEFINE h == [i \in D |-> IF i \in stop THEN base[i] ELSE g[<<i, f[nxt[i]]>>]]
  <2>2. h \in [D -> S]
    OBVIOUS
  <2>3. \A i \in D : rank[i] < r => h[i] = f[i]
    BY <2>1
  <2>4. \A i \in D : rank[i] < r + 1 /\ i \notin stop => h[nxt[i]] = f[nxt[i]]
    <3> TAKE i \in D
    <3> HAVE rank[i] < r + 1 /\ i \notin stop
    <3>1. nxt[i] \in D /\ rank[nxt[i]] < rank[i] /\ rank[i] \in Nat /\ rank[nxt[i]] \in Nat
      OBVIOUS
    <3>2. rank[nxt[i]] < r
      BY <3>1
    <3> HIDE DEF h
    <3> QED
      BY <3>1, <3>2, <2>3
  <2>5. \A i \in D : rank[i] < r + 1 => Eq(h, i)
    BY <2>4
  <2> HIDE DEF h
  <2> QED
    BY <2>2, <2>5
<1>3. \A r \in Nat : Upto(r)
  <2> DEFINE bad == {r \in Nat : ~Upto(r)}
  <2> HIDE DEF Upto
  <2> SUFFICES ASSUME bad /= {} PROVE FALSE
    OBVIOUS
  <2>1. PICK r \in bad : \A s \in bad : ~(<<s, r>> \in OpToRel(<, Nat))
    <3>1. bad \subseteq Nat
      OBVIOUS
    <3> HIDE DEF bad
    <3> QED
      BY <3>1, WFMin, NatLessThanWellFounded, Zenon
  <2>2. r \in Nat /\ r /= 0 /\ ~Upto(r)
    BY <1>1
  <2>3. r - 1 \in Nat /\ r - 1 < r /\ (r - 1) + 1 = r
    BY <2>2
  <2>4. r - 1 \notin bad
    BY <2>1, <2>2, <2>3 DEF OpToRel
  <2>5. Upto(r - 1)
    BY <2>3, <2>4
  <2>6. Upto((r - 1) + 1)
    BY <1>2, <2>3, <2>5
  <2> QED
    BY <2>2, <2>3, <2>6
<1>4. PICK f \in [D -> S] : \A i \in D : rank[i] < M + 1 => Eq(f, i)
  <2>1. M + 1 \in Nat
    OBVIOUS
  <2>2. Upto(M + 1)
    <3> HIDE DEF Upto
    <3> QED
      BY <1>3, <2>1
  <2> QED
    BY <2>2, Zenon
<1>5. \A i \in D : rank[i] < M + 1
  OBVIOUS
<1> QED
  BY <1>4, <1>5, Zenon DEF Solves

(* Whatever obeys the equation where the value it needs is known obeys it       *)
(* everywhere.                                                             *)
Obeys(f, D, S, stop, nxt, base, g) ==
  /\ \A i \in D : i \in stop => f[i] = base[i]
  /\ \A i \in D : i \notin stop /\ f[nxt[i]] \in S => f[i] = g[<<i, f[nxt[i]]>>]

LEMMA Recursive ==
  ASSUME NEW D, NEW S, NEW M, NEW rank, NEW stop, NEW nxt, NEW base, NEW g, NEW f,
         Descends(D, S, M, rank, stop, nxt, base, g), Obeys(f, D, S, stop, nxt, base, g)
  PROVE  \A i \in D : f[i] \in S
<1> USE DEF Descends, Obeys
<1> DEFINE bad == {i \in D : f[i] \notin S}
<1>1. ASSUME bad /= {} PROVE FALSE
  <2>1. PICK i \in bad : \A j \in bad : rank[i] <= rank[j]
    <3>1. bad \in SUBSET D
      OBVIOUS
    <3> HIDE DEF bad
    <3> QED
      BY <1>1, <3>1, LeastRank
  <2>2. i \in D /\ f[i] \notin S
    BY <2>1
  <2>3. CASE i \in stop
    BY <2>2, <2>3
  <2>4. CASE i \notin stop
    <3>1. nxt[i] \in D /\ rank[nxt[i]] < rank[i] /\ rank[i] \in Nat /\ rank[nxt[i]] \in Nat
      BY <2>2, <2>4
    <3>2. nxt[i] \notin bad
      BY <2>1, <3>1
    <3>3. f[nxt[i]] \in S
      BY <3>1, <3>2
    <3>4. f[i] = g[<<i, f[nxt[i]]>>]
      BY <2>2, <2>4, <3>3
    <3>5. <<i, f[nxt[i]]>> \in D \X S
      BY <2>2, <3>3
    <3> QED
      BY <2>2, <3>4, <3>5
  <2> QED
    BY <2>3, <2>4
<1> QED
  BY <1>1

(***************************************************************************)
(* Least and greatest places.                                              *)
(***************************************************************************)
LEMMA MinIs ==
  ASSUME NEW S \in SUBSET Nat, S /= {}
  PROVE  Min(S) \in S /\ \A x \in S : Min(S) <= x
<1>1. PICK y \in S : \A z \in S : ~(<<z, y>> \in OpToRel(<, Nat))
  BY WFMin, NatLessThanWellFounded, Zenon
<1>2. \A z \in S : ~(z < y)
  BY <1>1 DEF OpToRel
<1>3. \A z \in S : y <= z
  BY <1>2
<1> QED
  BY <1>3, Zenon DEF Min

LEMMA MaxIs ==
  ASSUME NEW n \in Nat, NEW S \in SUBSET (0..n), S /= {}
  PROVE  Max(S) \in S /\ \A x \in S : Max(S) >= x
<1> DEFINE T == {n - x : x \in S}
<1>1. T \subseteq Nat /\ T /= {}
  <2>1. \A x \in S : x \in Int /\ n - x \in Nat
    OBVIOUS
  <2> QED
    BY <2>1, Zenon
<1>2. Min(T) \in T /\ \A z \in T : Min(T) <= z
  <2> HIDE DEF T
  <2> QED
    BY <1>1, MinIs, Zenon
<1>3. PICK x \in S : Min(T) = n - x
  BY <1>2
<1>4. ASSUME NEW z \in S PROVE x >= z
  <2>1. n - z \in T
    OBVIOUS
  <2>2. n - x <= n - z
    <3> HIDE DEF T
    <3> QED
      BY <1>2, <1>3, <2>1
  <2>3. x \in Int /\ z \in Int
    OBVIOUS
  <2> QED
    BY <2>2, <2>3
<1> QED
  BY <1>4, Zenon DEF Max

LEMMA FarthestIs ==
  ASSUME NEW n \in Nat, NEW ends \in SUBSET (1..n)
  PROVE  /\ Farthest(ends) \in {0} \cup ends
         /\ \A x \in ends : Farthest(ends) >= x
<1>1. {0} \cup ends \in SUBSET (0..n) /\ {0} \cup ends /= {}
  OBVIOUS
<1> QED
  BY <1>1, MaxIs, Zenon DEF Farthest

(* The farthest of some ends is the one that none is beyond. *)
LEMMA FarthestAt ==
  ASSUME NEW n \in Nat, NEW ends \in SUBSET (1..n), NEW j \in ends, \A x \in ends : x <= j
  PROVE  Farthest(ends) = j
<1>1. PICK f : f = Farthest(ends) /\ f \in {0} \cup ends /\ f >= j
  BY FarthestIs, Zenon
<1>2. j \in 1..n /\ \A x \in ends : x \in 1..n
  OBVIOUS
<1>3. f \in ends
  BY <1>1, <1>2
<1> QED
  BY <1>1, <1>2, <1>3

LEMMA FarthestNone == Farthest({}) = 0
<1>1. {} \in SUBSET (1..0)
  OBVIOUS
<1> QED
  BY <1>1, FarthestIs

(***************************************************************************)
(* The characters of a text, and its pieces.                               *)
(***************************************************************************)
TextOK == text \in Seq(DOMAIN Code)

LEMMA LengthNat == TextOK => Len(text) \in Nat /\ DOMAIN text = 1..Len(text)
BY DEF TextOK

(* What holds at a place when it holds at the later ones holds at every place.  *)
LEMMA Descending ==
  ASSUME TextOK, NEW B \in SUBSET Places,
         \A i \in Places : (\A j \in Places : j > i => j \in B) => i \in B
  PROVE  B = Places
<1>0. Len(text) + 1 \in Nat /\ \A i \in Places : i \in Nat /\ i <= Len(text) + 1
  BY LengthNat DEF Places
<1> DEFINE bad == Places \ B
           rank == [i \in Places |-> Len(text) + 1 - i]
<1> SUFFICES ASSUME bad /= {} PROVE FALSE
  OBVIOUS
<1>1. rank \in [Places -> 0..(Len(text) + 1)] /\ bad \in SUBSET Places
  BY <1>0
<1>2. PICK i \in bad : \A j \in bad : rank[i] <= rank[j]
  <2> HIDE DEF bad, rank
  <2> QED
    BY <1>0, <1>1, LeastRank
<1>3. i \in Places /\ i \notin B
  OBVIOUS
<1>4. \A j \in Places : j > i => j \in B
  <2> TAKE j \in Places
  <2> HAVE j > i
  <2>1. ~(rank[i] <= rank[j])
    BY <1>0, <1>3
  <2>2. j \notin bad
    <3> HIDE DEF rank, bad
    <3> QED
      BY <1>2, <2>1
  <2> QED
    BY <2>2
<1> QED
  BY <1>3, <1>4

LEMMA AtIs ==
  ASSUME TextOK
  PROVE  /\ \A i \in 1..Len(text) : At(i) = text[i] /\ At(i) \in DOMAIN Code /\ At(i) /= "end"
         /\ At(Len(text) + 1) = "end"
BY LexerAssumption DEF TextOK, At

LEMMA EndIs ==
  ASSUME TextOK, NEW i \in Places, At(i) /= "end"
  PROVE  i \in 1..Len(text) /\ i + 1 \in Places /\ At(i) \in DOMAIN Code
BY AtIs, LengthNat DEF Places

LEMMA PastIs ==
  ASSUME TextOK, NEW i \in Places, NEW chars, "end" \notin chars
  PROVE  /\ Past(i, chars) \in i..(Len(text) + 1)
         /\ Past(i, chars) \in Places
         /\ At(Past(i, chars)) \notin chars
         /\ \A k \in i..(Past(i, chars) - 1) : At(k) \in chars
<1> DEFINE S == {j \in i..(Len(text) + 1) : At(j) \notin chars}
<1>0. Len(text) \in Nat /\ i \in Nat /\ i >= 1
  BY LengthNat DEF Places
<1>1. Len(text) + 1 \in S /\ S \in SUBSET Nat
  BY <1>0, AtIs DEF Places
<1>2. Min(S) \in S /\ \A x \in S : Min(S) <= x
  <2> HIDE DEF S
  <2> QED
    BY <1>1, MinIs
<1>3. \A k \in i..(Min(S) - 1) : At(k) \in chars
  <2> TAKE k \in i..(Min(S) - 1)
  <2>1. k \in i..(Len(text) + 1) /\ ~(Min(S) <= k)
    BY <1>0, <1>2
  <2>2. k \notin S
    BY <1>2, <2>1
  <2> QED
    BY <2>1, <2>2
<1>4. \E j \in i..(Len(text) + 1) : At(j) \notin chars /\ \A k \in i..(j - 1) : At(k) \in chars
  BY <1>2, <1>3
<1>5. /\ Past(i, chars) \in i..(Len(text) + 1)
      /\ At(Past(i, chars)) \notin chars
      /\ \A k \in i..(Past(i, chars) - 1) : At(k) \in chars
  <2> HIDE DEF S
  <2> QED
    BY <1>4, Zenon DEF Past
<1> QED
  BY <1>0, <1>5 DEF Places

LEMMA PastAt ==
  ASSUME TextOK, NEW i \in Places, NEW chars, "end" \notin chars, NEW j \in i..(Len(text) + 1),
         At(j) \notin chars, \A k \in i..(j - 1) : At(k) \in chars
  PROVE  Past(i, chars) = j
<1> DEFINE p == Past(i, chars)
<1>1. p \in i..(Len(text) + 1) /\ At(p) \notin chars /\ \A k \in i..(p - 1) : At(k) \in chars
  BY PastIs
<1>2. Len(text) \in Nat /\ i \in Nat
  BY LengthNat DEF Places
<1> HIDE DEF p
<1>3. ~(p < j)
  BY <1>1, <1>2
<1>4. ~(j < p)
  BY <1>1, <1>2
<1>5. p = j
  BY <1>1, <1>2, <1>3, <1>4
<1> QED
  BY <1>5 DEF p

LEMMA PieceIs ==
  ASSUME TextOK, NEW i \in Places, NEW j \in (i - 1)..Len(text)
  PROVE  /\ Piece(i, j) \in Seq(DOMAIN Code)
         /\ Len(Piece(i, j)) = j - i + 1
         /\ DOMAIN Piece(i, j) = 1..(j - i + 1)
         /\ \A k \in 1..(j - i + 1) : Piece(i, j)[k] = At(i + k - 1)
         /\ Range(Piece(i, j)) = {At(k) : k \in i..j}
         /\ Spelled(i, j + 1) = Piece(i, j)
<1>0. Len(text) \in Nat /\ i \in Nat /\ i >= 1 /\ j \in Int
  BY LengthNat DEF Places
<1>1. Min({j, Len(text)}) = j
  <2>1. {j, Len(text)} \in SUBSET Nat /\ {j, Len(text)} /= {}
    BY <1>0
  <2>2. Min({j, Len(text)}) \in {j, Len(text)} /\ \A x \in {j, Len(text)} : Min({j, Len(text)}) <= x
    BY <2>1, MinIs
  <2> QED
    BY <1>0, <2>2
<1>2. Piece(i, j) = SubSeq(text, i, j) /\ Spelled(i, j + 1) = SubSeq(text, i, j)
  <2>1. (j + 1) - 1 = j
    BY <1>0
  <2>2. Spelled(i, j + 1) = SubSeq(text, i, j)
    BY <2>1, Zenon DEF Spelled
  <2> QED
    BY <1>1, <2>2, Zenon DEF Piece
<1>3. /\ SubSeq(text, i, j) \in Seq(DOMAIN Code)
      /\ Len(SubSeq(text, i, j)) = j - i + 1
      /\ \A k \in 1..(j - i + 1) : SubSeq(text, i, j)[k] = text[i + k - 1]
  BY <1>0, SubSeqProperties DEF TextOK
<1>4. \A k \in 1..(j - i + 1) : text[i + k - 1] = At(i + k - 1)
  <2> TAKE k \in 1..(j - i + 1)
  <2>1. i + k - 1 \in 1..Len(text)
    BY <1>0
  <2> QED
    BY <2>1, AtIs
<1> DEFINE q == Piece(i, j)
<1>5. /\ q \in Seq(DOMAIN Code) /\ Len(q) = j - i + 1 /\ DOMAIN q = 1..(j - i + 1)
      /\ \A k \in 1..(j - i + 1) : q[k] = At(i + k - 1)
  BY <1>2, <1>3, <1>4
<1> HIDE DEF q
<1>6. Range(q) = {q[k] : k \in 1..(j - i + 1)}
  BY <1>5 DEF Range
<1>7. Range(q) = {At(k) : k \in i..j}
  <2>1. \A k \in 1..(j - i + 1) : i + k - 1 \in i..j /\ q[k] = At(i + k - 1)
    BY <1>0, <1>5
  <2>2. \A k \in i..j : k - i + 1 \in 1..(j - i + 1) /\ i + (k - i + 1) - 1 = k
    BY <1>0
  <2>3. \A k \in i..j : q[k - i + 1] = At(k)
    BY <2>1, <2>2
  <2> QED
    BY <1>6, <2>1, <2>2, <2>3
<1> QED
  BY <1>2, <1>5, <1>7 DEF q

(***************************************************************************)
(* Digits.                                                                 *)
(***************************************************************************)
LEMMA DigitAt == \A k \in 0..15 : DigitOrder[k + 1] \in Range(DigitOrder) /\ DigitValue[DigitOrder[k + 1]] = k
<1>1. DOMAIN DigitOrder = 1..16
  BY DEF DigitOrder
<1>2. \A k, m \in 0..15 : DigitOrder[k + 1] = DigitOrder[m + 1] => k = m
  BY DEF DigitOrder
<1>3. TAKE k \in 0..15
<1>4. DigitOrder[k + 1] \in Range(DigitOrder)
  BY <1>1 DEF Range
<1> DEFINE d == DigitOrder[k + 1]
<1>5. (CHOOSE v \in 0..15 : DigitOrder[v + 1] = d) = k
  BY <1>2
<1>6. DigitValue[d] = CHOOSE v \in 0..15 : DigitOrder[v + 1] = d
  BY <1>4, Zenon DEF DigitValue
<1> QED
  BY <1>4, <1>5, <1>6

LEMMA DigitValues ==
  /\ DOMAIN DigitValue = {"0", "1", "2", "3", "4", "5", "6", "7", "8", "9", "a", "b", "c", "d", "e", "f"}
  /\ DigitValue["0"] = 0 /\ DigitValue["1"] = 1 /\ DigitValue["2"] = 2 /\ DigitValue["3"] = 3
  /\ DigitValue["4"] = 4 /\ DigitValue["5"] = 5 /\ DigitValue["6"] = 6 /\ DigitValue["7"] = 7
  /\ DigitValue["8"] = 8 /\ DigitValue["9"] = 9 /\ DigitValue["a"] = 10 /\ DigitValue["b"] = 11
  /\ DigitValue["c"] = 12 /\ DigitValue["d"] = 13 /\ DigitValue["e"] = 14 /\ DigitValue["f"] = 15
<1>1. /\ DigitOrder[0 + 1] = "0" /\ DigitOrder[1 + 1] = "1" /\ DigitOrder[2 + 1] = "2" /\ DigitOrder[3 + 1] = "3"
      /\ DigitOrder[4 + 1] = "4" /\ DigitOrder[5 + 1] = "5" /\ DigitOrder[6 + 1] = "6" /\ DigitOrder[7 + 1] = "7"
      /\ DigitOrder[8 + 1] = "8" /\ DigitOrder[9 + 1] = "9" /\ DigitOrder[10 + 1] = "a" /\ DigitOrder[11 + 1] = "b"
      /\ DigitOrder[12 + 1] = "c" /\ DigitOrder[13 + 1] = "d" /\ DigitOrder[14 + 1] = "e" /\ DigitOrder[15 + 1] = "f"
  BY DEF DigitOrder
<1>2. Range(DigitOrder) = {DigitOrder[k + 1] : k \in 0..15}
  <2>1. Range(DigitOrder) = {DigitOrder[k] : k \in 1..16}
    BY DEF Range, DigitOrder
  <2>2. \A k \in 1..16 : k - 1 \in 0..15 /\ (k - 1) + 1 = k
    OBVIOUS
  <2>3. \A k \in 0..15 : k + 1 \in 1..16
    OBVIOUS
  <2> QED
    BY <2>1, <2>2, <2>3
<1>3. Range(DigitOrder) = {"0", "1", "2", "3", "4", "5", "6", "7", "8", "9", "a", "b", "c", "d", "e", "f"}
  <2>1. \A k \in 0..15 : DigitOrder[k + 1] \in {"0", "1", "2", "3", "4", "5", "6", "7", "8", "9", "a", "b", "c", "d", "e", "f"}
    BY DEF DigitOrder
  <2>2. \A k \in 0..15 : DigitOrder[k + 1] \in Range(DigitOrder)
    BY <1>2
  <2>3. \A d \in Range(DigitOrder) : d \in {"0", "1", "2", "3", "4", "5", "6", "7", "8", "9", "a", "b", "c", "d", "e", "f"}
    BY <1>2, <2>1, Zenon
  <2>4. /\ "0" \in Range(DigitOrder) /\ "1" \in Range(DigitOrder) /\ "2" \in Range(DigitOrder) /\ "3" \in Range(DigitOrder)
        /\ "4" \in Range(DigitOrder) /\ "5" \in Range(DigitOrder) /\ "6" \in Range(DigitOrder) /\ "7" \in Range(DigitOrder)
        /\ "8" \in Range(DigitOrder) /\ "9" \in Range(DigitOrder) /\ "a" \in Range(DigitOrder) /\ "b" \in Range(DigitOrder)
        /\ "c" \in Range(DigitOrder) /\ "d" \in Range(DigitOrder) /\ "e" \in Range(DigitOrder) /\ "f" \in Range(DigitOrder)
    <3>1. 0 \in 0..15 /\ 1 \in 0..15 /\ 2 \in 0..15 /\ 3 \in 0..15 /\ 4 \in 0..15 /\ 5 \in 0..15
          /\ 6 \in 0..15 /\ 7 \in 0..15 /\ 8 \in 0..15 /\ 9 \in 0..15 /\ 10 \in 0..15 /\ 11 \in 0..15
          /\ 12 \in 0..15 /\ 13 \in 0..15 /\ 14 \in 0..15 /\ 15 \in 0..15
      OBVIOUS
    <3> QED
      BY <1>1, <2>2, <3>1, Zenon
  <2> QED
    BY <2>3, <2>4
<1>4. DOMAIN DigitValue = Range(DigitOrder)
  BY Zenon DEF DigitValue
<1>5. \A k \in 0..15 : DigitValue[DigitOrder[k + 1]] = k
  BY DigitAt
<1> QED
  BY <1>1, <1>3, <1>4, <1>5

LEMMA DigitSets ==
  /\ DigitsOf(8) = {"0", "1", "2", "3", "4", "5", "6", "7"}
  /\ DigitsOf(10) = {"0", "1", "2", "3", "4", "5", "6", "7", "8", "9"}
  /\ DigitsOf(16) = {"0", "1", "2", "3", "4", "5", "6", "7", "8", "9", "a", "b", "c", "d", "e", "f"}
  /\ \A d \in DigitsOf(16) : DigitValue[d] \in 0..15
BY DigitValues DEF DigitsOf

LEMMA LetterSets ==
  /\ Alnum = {"a", "b", "c", "d", "e", "f", "x", "u", "l", "n", "_",
              "0", "1", "2", "3", "4", "5", "6", "7", "8", "9"}
  /\ DigitsOf(8) \subseteq DigitsOf(10) /\ DigitsOf(10) \subseteq DigitsOf(16) /\ DigitsOf(16) \subseteq Alnum
  /\ Letter \subseteq Alnum /\ {"u", "l", "x"} \subseteq Letter /\ DigitsOf(10) \cap Letter = {}
  /\ DigitsOf(16) \cap {"u", "l", "x"} = {} /\ DigitsOf(8) \cap Simple = {}
  /\ Alnum \subseteq Letter \cup DigitsOf(10)
  /\ Alnum \cap {"end", "NL", " ", "'", "\"", "\\", "/", "*", "#"} = {}
BY DigitSets DEF Letter, Alnum, Simple

(* The number a row of digits stands for. *)
LEMMA ReadInIs ==
  ASSUME NEW base \in Nat, NEW digits \in Seq(DOMAIN DigitValue)
  PROVE  ReadIn(base, digits) \in Nat
<1> DEFINE D == 0..Len(digits)
           rank == [k \in D |-> k]
           nxt == [k \in D |-> IF k = 0 THEN 0 ELSE k - 1]
           zero == [k \in D |-> 0]
           value == [k \in D |-> IF k = 0 THEN 0 ELSE DigitValue[digits[k]]]
           g == [p \in D \X Nat |-> p[2] * base + value[p[1]]]
           G(n) == [k \in 0..Len(digits) |-> IF k = 0 THEN 0 ELSE n[k - 1] * base + DigitValue[digits[k]]]
<1>1. Len(digits) \in Nat /\ \A k \in 1..Len(digits) : digits[k] \in DOMAIN DigitValue
  OBVIOUS
<1>2. \A d \in DOMAIN DigitValue : DigitValue[d] \in Nat
  BY DigitValues
<1>3. value \in [D -> Nat]
  BY <1>1, <1>2
<1>4. g \in [D \X Nat -> Nat]
  <2> SUFFICES ASSUME NEW p \in D \X Nat PROVE p[2] * base + value[p[1]] \in Nat
    OBVIOUS
  <2>1. p[2] \in Nat /\ value[p[1]] \in Nat
    BY <1>3
  <2> HIDE DEF value
  <2> QED
    BY <2>1
<1>5. Descends(D, Nat, Len(digits), rank, {0}, nxt, zero, g)
  <2>1. /\ rank \in [D -> 0..Len(digits)] /\ nxt \in [D -> D] /\ zero \in [D -> Nat]
        /\ {0} \subseteq D /\ \A k \in D \ {0} : rank[nxt[k]] < rank[k]
    BY <1>1
  <2> HIDE DEF D, rank, nxt, zero, g
  <2> QED
    BY <1>1, <1>4, <2>1 DEF Descends
<1>6. \E n \in [D -> Nat] : Solves(n, D, {0}, nxt, zero, g)
  <2> HIDE DEF D, rank, nxt, zero, g
  <2> QED
    BY <1>5, Recursion, Zenon
<1>7. PICK n \in [D -> Nat] : \A k \in D : n[k] = IF k \in {0} THEN zero[k] ELSE g[<<k, n[nxt[k]]>>]
  BY <1>6, Zenon DEF Solves
<1>8. \A k \in D : n[k] = IF k = 0 THEN 0 ELSE n[k - 1] * base + DigitValue[digits[k]]
  <2> TAKE k \in D
  <2>1. CASE k = 0
    BY <2>1, <1>7
  <2>2. CASE k /= 0
    <3>1. nxt[k] = k - 1 /\ k - 1 \in D /\ value[k] = DigitValue[digits[k]]
      BY <2>2, <1>1
    <3>2. n[k] = g[<<k, n[k - 1]>>]
      BY <2>2, <3>1, <1>7
    <3>3. <<k, n[k - 1]>> \in D \X Nat
      BY <3>1
    <3>4. g[<<k, n[k - 1]>>] = n[k - 1] * base + value[k]
      BY <3>3
    <3> QED
      BY <2>2, <3>1, <3>2, <3>4
  <2> QED
    BY <2>1, <2>2
<1>9. n = G(n)
  BY <1>8
<1>10. LET m == CHOOSE m : m = G(m) IN m = G(m) /\ ReadIn(base, digits) = m[Len(digits)]
  <2>1. ReadIn(base, digits) = (CHOOSE m : m = G(m))[Len(digits)]
    BY DEF ReadIn
  <2> HIDE DEF G
  <2> QED
    BY <2>1, <1>9
<1>11. PICK m : m = G(m) /\ ReadIn(base, digits) = m[Len(digits)]
  BY <1>10
<1>12. /\ m[0] = 0
       /\ \A k \in 1..Len(digits) : m[k] = m[k - 1] * base + DigitValue[digits[k]]
  <2>1. \A k \in D : m[k] = IF k = 0 THEN 0 ELSE m[k - 1] * base + DigitValue[digits[k]]
    BY <1>11
  <2>2. 0 \in D /\ \A k \in 1..Len(digits) : k \in D /\ k /= 0
    BY <1>1
  <2> HIDE DEF D, G
  <2> QED
    BY <2>1, <2>2, Zenon
<1>13. \A k \in D : m[k] = n[k]
  <2> DEFINE bad == {k \in D : m[k] /= n[k]}
  <2> SUFFICES ASSUME bad /= {} PROVE FALSE
    OBVIOUS
  <2>1. PICK k \in bad : \A j \in bad : k <= j
    <3>1. bad \in SUBSET Nat
      BY <1>1
    <3> HIDE DEF bad
    <3> QED
      BY <3>1, MinIs
  <2>2. k \in D /\ k /= 0
    BY <1>8, <1>12, <1>1
  <2>3. k - 1 \in D /\ k - 1 \notin bad
    BY <1>1, <2>1, <2>2
  <2>4. m[k - 1] = n[k - 1]
    BY <2>3
  <2>5. k \in 1..Len(digits)
    BY <1>1, <2>2
  <2> QED
    BY <1>8, <1>12, <2>1, <2>2, <2>4, <2>5
<1> QED
  BY <1>1, <1>11, <1>13

LEMMA PieceFrom ==
  ASSUME TextOK, NEW i \in Places, NEW j \in (i - 1)..Len(text),
         NEW m \in 1..(j - i + 2), NEW n \in (m - 1)..(j - i + 1)
  PROVE  SubSeq(Piece(i, j), m, n) = Piece(i + m - 1, i + n - 1)
<1>0. Len(text) \in Nat /\ i \in Nat /\ i >= 1 /\ j \in Int /\ m \in Nat /\ n \in Int
  BY LengthNat DEF Places
<1> DEFINE q == Piece(i, j)
           a == SubSeq(q, m, n)
           b == Piece(i + m - 1, i + n - 1)
<1>1. /\ q \in Seq(DOMAIN Code) /\ Len(q) = j - i + 1
      /\ \A k \in 1..(j - i + 1) : q[k] = At(i + k - 1)
  BY PieceIs
<1>2. i + m - 1 \in Places /\ i + n - 1 \in (i + m - 1 - 1)..Len(text)
  BY <1>0 DEF Places
<1>3. /\ b \in Seq(DOMAIN Code) /\ Len(b) = (i + n - 1) - (i + m - 1) + 1
      /\ \A k \in 1..((i + n - 1) - (i + m - 1) + 1) : b[k] = At((i + m - 1) + k - 1)
  <2>1. PICK c \in Places : c = i + m - 1
    BY <1>2
  <2>2. PICK d \in (c - 1)..Len(text) : d = i + n - 1
    BY <1>2, <2>1
  <2>3. /\ Piece(c, d) \in Seq(DOMAIN Code) /\ Len(Piece(c, d)) = d - c + 1
        /\ \A k \in 1..(d - c + 1) : Piece(c, d)[k] = At(c + k - 1)
    BY PieceIs
  <2> QED
    BY <2>1, <2>2, <2>3
<1>4. (i + n - 1) - (i + m - 1) + 1 = n - m + 1
  BY <1>0
<1>5. \A k \in m..n : q[k] \in DOMAIN Code
  <2> HIDE DEF q
  <2> QED
    BY <1>0, <1>1
<1>6. /\ a \in Seq(DOMAIN Code) /\ Len(a) = n - m + 1
      /\ \A k \in 1..(n - m + 1) : a[k] = q[m + k - 1]
  <2>1. /\ a \in Seq(DOMAIN Code) /\ Len(a) = IF m <= n THEN n - m + 1 ELSE 0
        /\ \A k \in 1..(n - m + 1) : a[k] = q[m + k - 1]
    <3> HIDE DEF q
    <3> QED
      BY <1>0, <1>5, SubSeqProperties
  <2> HIDE DEF a
  <2> QED
    BY <1>0, <2>1
<1>7. \A k \in 1..(n - m + 1) : a[k] = b[k]
  <2> TAKE k \in 1..(n - m + 1)
  <2>1. m + k - 1 \in 1..(j - i + 1) /\ i + (m + k - 1) - 1 = (i + m - 1) + k - 1
    BY <1>0
  <2> HIDE DEF a, b, q
  <2> QED
    BY <1>1, <1>3, <1>4, <1>6, <2>1
<1> HIDE DEF a, b
<1>8. a = b
  BY <1>3, <1>4, <1>6, <1>7, SeqEqual
<1> QED
  BY <1>8 DEF a, b

LEMMA PieceTail ==
  ASSUME TextOK, NEW i \in Places, NEW j \in i..Len(text)
  PROVE  Tail(Piece(i, j)) = Piece(i + 1, j) /\ Piece(i, j) /= <<>> /\ Head(Piece(i, j)) = At(i)
<1>0. Len(text) \in Nat /\ i \in Nat /\ i >= 1 /\ j \in Int /\ j \in (i - 1)..Len(text)
  BY LengthNat DEF Places
<1>1. Piece(i, j) \in Seq(DOMAIN Code) /\ Len(Piece(i, j)) = j - i + 1 /\ Piece(i, j)[1] = At(i)
  <2>1. 1 \in 1..(j - i + 1) /\ i + 1 - 1 = i
    BY <1>0
  <2> QED
    BY <1>0, <2>1, PieceIs
<1>2. Piece(i, j) /= <<>> /\ Len(Piece(i, j)) > 0
  BY <1>0, <1>1
<1>3. Tail(Piece(i, j)) = SubSeq(Piece(i, j), 2, Len(Piece(i, j)))
  BY <1>1, <1>2, TailIsSubSeq
<1>4. 2 \in 1..(j - i + 2) /\ j - i + 1 \in (2 - 1)..(j - i + 1) /\ i + 2 - 1 = i + 1 /\ i + (j - i + 1) - 1 = j
  BY <1>0
<1>5. SubSeq(Piece(i, j), 2, j - i + 1) = Piece(i + 2 - 1, i + (j - i + 1) - 1)
  BY <1>0, <1>4, PieceFrom
<1>6. Head(Piece(i, j)) = Piece(i, j)[1]
  BY <1>1, <1>2
<1> QED
  BY <1>1, <1>2, <1>3, <1>4, <1>5, <1>6

(***************************************************************************)
(* Units: the characters and escapes of a literal.                         *)
(***************************************************************************)
LEMMA UnitIs ==
  ASSUME TextOK, NEW i \in 1..Len(text), NEW j \in i..Len(text)
  PROVE  IsUnit(Piece(i, j)) <=>
           \/ j = i /\ At(i) \notin {"\\", "NL"}
           \/ /\ j > i /\ At(i) = "\\"
              /\ \/ j = i + 1 /\ At(i + 1) \in Simple
                 \/ j <= i + 3 /\ \A k \in (i + 1)..j : At(k) \in DigitsOf(8)
                 \/ j > i + 1 /\ At(i + 1) = "x" /\ \A k \in (i + 2)..j : At(k) \in DigitsOf(16)
<1>0. Len(text) \in Nat /\ i \in Nat /\ i >= 1 /\ j \in Nat /\ i \in Places /\ j \in (i - 1)..Len(text)
  BY LengthNat DEF Places
<1> DEFINE u == Piece(i, j)
<1>1. /\ Len(u) = j - i + 1
      /\ \A k \in 1..(j - i + 1) : u[k] = At(i + k - 1)
  BY <1>0, PieceIs
<1>2. u[1] = At(i) /\ (j > i => u[2] = At(i + 1))
  <2>1. 1 \in 1..(j - i + 1) /\ i + 1 - 1 = i /\ i + 2 - 1 = i + 1
    BY <1>0
  <2>2. j > i => 2 \in 1..(j - i + 1)
    BY <1>0
  <2> HIDE DEF u
  <2>3. u[1] = At(i)
    BY <1>1, <2>1
  <2>4. j > i => u[2] = At(i + 2 - 1)
    BY <1>1, <2>2
  <2> QED
    BY <2>1, <2>3, <2>4
<1>3. j > i => (Range(Tail(u)) \subseteq DigitsOf(8) <=> \A k \in (i + 1)..j : At(k) \in DigitsOf(8))
  <2> HAVE j > i
  <2>1. i + 1 \in Places /\ j \in (i + 1 - 1)..Len(text)
    BY <1>0 DEF Places
  <2>2. Range(Piece(i + 1, j)) = {At(k) : k \in (i + 1)..j}
    <3>1. PICK p \in Places : p = i + 1
      BY <2>1
    <3>2. j \in (p - 1)..Len(text)
      BY <2>1, <3>1
    <3>3. Range(Piece(p, j)) = {At(k) : k \in p..j}
      BY <3>2, PieceIs
    <3> QED
      BY <3>1, <3>3, Zenon
  <2>3. Tail(u) = Piece(i + 1, j)
    BY <1>0, PieceTail
  <2> HIDE DEF u
  <2> QED
    BY <2>2, <2>3
<1>4. j > i + 1 => (Range(SubSeq(u, 3, Len(u))) \subseteq DigitsOf(16) <=> \A k \in (i + 2)..j : At(k) \in DigitsOf(16))
  <2> HAVE j > i + 1
  <2>1. i + 2 \in Places /\ j \in (i + 2 - 1)..Len(text)
    BY <1>0 DEF Places
  <2>2. Range(Piece(i + 2, j)) = {At(k) : k \in (i + 2)..j}
    <3>1. PICK p \in Places : p = i + 2
      BY <2>1
    <3>2. j \in (p - 1)..Len(text)
      BY <2>1, <3>1
    <3>3. Range(Piece(p, j)) = {At(k) : k \in p..j}
      BY <3>2, PieceIs
    <3> QED
      BY <3>1, <3>3, Zenon
  <2>3. 3 \in 1..(j - i + 2) /\ j - i + 1 \in (3 - 1)..(j - i + 1) /\ i + 3 - 1 = i + 2 /\ i + (j - i + 1) - 1 = j
    BY <1>0
  <2>4. SubSeq(Piece(i, j), 3, j - i + 1) = Piece(i + 3 - 1, i + (j - i + 1) - 1)
    BY <1>0, <2>3, PieceFrom
  <2>5. SubSeq(u, 3, Len(u)) = Piece(i + 2, j)
    BY <1>1, <2>3, <2>4
  <2> HIDE DEF u
  <2> QED
    BY <2>2, <2>5
<1> HIDE DEF u
<1>5. /\ Len(u) = 1 <=> j = i
      /\ Len(u) > 1 <=> j > i
      /\ Len(u) = 2 <=> j = i + 1
      /\ Len(u) <= 4 <=> j <= i + 3
      /\ Len(u) > 2 <=> j > i + 1
  BY <1>0, <1>1
<1>6. j > i + 1 => j > i
  BY <1>0
<1>7. IsUnit(u) <=>
           \/ j = i /\ At(i) \notin {"\\", "NL"}
           \/ /\ j > i /\ At(i) = "\\"
              /\ \/ j = i + 1 /\ At(i + 1) \in Simple
                 \/ j <= i + 3 /\ \A k \in (i + 1)..j : At(k) \in DigitsOf(8)
                 \/ j > i + 1 /\ At(i + 1) = "x" /\ \A k \in (i + 2)..j : At(k) \in DigitsOf(16)
  BY <1>2, <1>3, <1>4, <1>5, <1>6, Zenon DEF IsUnit
<1> QED
  BY <1>7 DEF u

LEMMA ValueIs ==
  ASSUME TextOK, NEW i \in 1..Len(text), NEW j \in i..Len(text)
  PROVE  /\ j = i => UnitValue(Piece(i, j)) = Code[At(i)]
         /\ j > i /\ At(i + 1) \in Simple => UnitValue(Piece(i, j)) = SimpleValue(At(i + 1))
         /\ j > i + 1 /\ At(i + 1) = "x" => UnitValue(Piece(i, j)) = ReadIn(16, Piece(i + 2, j))
         /\ j > i /\ At(i + 1) \in DigitsOf(8) => UnitValue(Piece(i, j)) = ReadIn(8, Piece(i + 1, j))
<1>0. Len(text) \in Nat /\ i \in Nat /\ i >= 1 /\ j \in Nat /\ i \in Places /\ j \in (i - 1)..Len(text)
  BY LengthNat DEF Places
<1> DEFINE u == Piece(i, j)
<1>1. /\ Len(u) = j - i + 1
      /\ \A k \in 1..(j - i + 1) : u[k] = At(i + k - 1)
  BY <1>0, PieceIs
<1>2. u[1] = At(i) /\ (j > i => u[2] = At(i + 1))
  <2>1. 1 \in 1..(j - i + 1) /\ i + 1 - 1 = i /\ i + 2 - 1 = i + 1
    BY <1>0
  <2>2. j > i => 2 \in 1..(j - i + 1)
    BY <1>0
  <2> HIDE DEF u
  <2>3. u[1] = At(i)
    BY <1>1, <2>1
  <2>4. j > i => u[2] = At(i + 2 - 1)
    BY <1>1, <2>2
  <2> QED
    BY <2>1, <2>3, <2>4
<1>3. Tail(u) = Piece(i + 1, j)
  BY <1>0, PieceTail
<1>4. j > i + 1 => SubSeq(u, 3, Len(u)) = Piece(i + 2, j)
  <2> HAVE j > i + 1
  <2>3. 3 \in 1..(j - i + 2) /\ j - i + 1 \in (3 - 1)..(j - i + 1) /\ i + 3 - 1 = i + 2 /\ i + (j - i + 1) - 1 = j
    BY <1>0
  <2>4. SubSeq(Piece(i, j), 3, j - i + 1) = Piece(i + 3 - 1, i + (j - i + 1) - 1)
    BY <1>0, <2>3, PieceFrom
  <2> QED
    BY <1>1, <2>3, <2>4
<1>5. /\ Len(u) = 1 <=> j = i
      /\ Len(u) > 1 <=> j > i
      /\ j > i + 1 => j > i
      /\ j = i => ~(j > i)
  <2> HIDE DEF u
  <2> QED
    BY <1>0, <1>1
<1>6. "x" \notin Simple /\ "x" \notin DigitsOf(8) /\ DigitsOf(8) \cap Simple = {}
  BY DigitSets, LetterSets DEF Simple
<1> HIDE DEF u
<1>7. j = i => UnitValue(u) = Code[At(i)]
  BY <1>2, <1>5 DEF UnitValue
<1>8. j > i /\ At(i + 1) \in Simple => UnitValue(u) = SimpleValue(At(i + 1))
  BY <1>2, <1>5, <1>6 DEF UnitValue
<1>9. j > i + 1 /\ At(i + 1) = "x" => UnitValue(u) = ReadIn(16, Piece(i + 2, j))
  BY <1>2, <1>4, <1>5, <1>6 DEF UnitValue
<1>10. j > i /\ At(i + 1) \in DigitsOf(8) => UnitValue(u) = ReadIn(8, Piece(i + 1, j))
  BY <1>2, <1>3, <1>5, <1>6 DEF UnitValue
<1> QED
  BY <1>7, <1>8, <1>9, <1>10 DEF u

LEMMA PlainUnit ==
  ASSUME TextOK, NEW i \in 1..Len(text), At(i) \notin {"\\", "NL"}
  PROVE  UnitEnd(i) = i /\ UnitValue(Piece(i, i)) = Code[At(i)]
<1>0. Len(text) \in Nat /\ i \in Nat /\ i \in i..Len(text)
  BY LengthNat
<1> DEFINE ends == {j \in i..Len(text) : IsUnit(Piece(i, j))}
<1>1. \A j \in i..Len(text) : IsUnit(Piece(i, j)) <=> j = i
  BY UnitIs
<1>2. ends \in SUBSET (1..Len(text)) /\ i \in ends /\ \A j \in ends : j <= i
  BY <1>0, <1>1
<1>3. Farthest(ends) = i
  <2> HIDE DEF ends
  <2> QED
    BY <1>0, <1>2, FarthestAt
<1> QED
  BY <1>0, <1>3, ValueIs DEF UnitEnd

LEMMA NoUnit ==
  ASSUME TextOK, NEW i \in Places, At(i) \in {"end", "NL"}
  PROVE  UnitEnd(i) = 0
<1>0. Len(text) \in Nat /\ i \in Nat
  BY LengthNat DEF Places
<1> DEFINE ends == {j \in i..Len(text) : IsUnit(Piece(i, j))}
<1>1. ASSUME NEW j \in ends PROVE FALSE
  <2>1. i \in 1..Len(text) /\ j \in i..Len(text)
    BY <1>0 DEF Places
  <2>2. At(i) = "NL"
    BY <2>1, AtIs
  <2> QED
    BY <2>1, <2>2, UnitIs
<1>2. ends = {}
  BY <1>1
<1> QED
  BY <1>2, FarthestNone, Zenon DEF UnitEnd

(* Octal digits, three at most. *)
LEMMA OctalIs ==
  ASSUME TextOK, NEW i \in Places, At(i) \in DigitsOf(8)
  PROVE  LET next == Min({Past(i, DigitsOf(8)), i + 3})
         IN  /\ next \in Places /\ next > i /\ next <= i + 3
             /\ \A k \in i..(next - 1) : At(k) \in DigitsOf(8)
             /\ next = i + 3 \/ At(next) \notin DigitsOf(8)
<1> DEFINE p == Past(i, DigitsOf(8))
           next == Min({p, i + 3})
<1>0. Len(text) \in Nat /\ i \in Nat
  BY LengthNat DEF Places
<1>1. p \in i..(Len(text) + 1) /\ p \in Places /\ At(p) \notin DigitsOf(8) /\ \A k \in i..(p - 1) : At(k) \in DigitsOf(8)
  BY DigitSets, PastIs
<1> HIDE DEF p
<1>2. {p, i + 3} \in SUBSET Nat /\ {p, i + 3} /= {} /\ p /= i
  BY <1>0, <1>1
<1>3. next \in {p, i + 3} /\ next <= p /\ next <= i + 3
  BY <1>2, MinIs
<1> HIDE DEF next
<1>4. /\ next \in Places /\ next > i /\ next <= i + 3
      /\ \A k \in i..(next - 1) : At(k) \in DigitsOf(8)
      /\ next = i + 3 \/ At(next) \notin DigitsOf(8)
  BY <1>0, <1>1, <1>2, <1>3 DEF Places
<1> QED
  BY <1>4 DEF next, p

Escape(value, next, bad) == [value |-> value, next |-> next, bad |-> bad]

LEMMA EscapeKinds ==
  ASSUME NEW i
  PROVE  LET hex == Past(i + 1, DigitsOf(16))
             octal == Min({Past(i, DigitsOf(8)), i + 3})
         IN  /\ At(i) = "end" => ReadEscape(i) = Escape(0, i, FALSE)
             /\ At(i) \in Simple => ReadEscape(i) = Escape(SimpleValue(At(i)), i + 1, FALSE)
             /\ At(i) = "x" /\ hex = i + 1 => ReadEscape(i) = Escape(ReadIn(16, Spelled(i + 1, hex)), hex, TRUE)
             /\ At(i) = "x" /\ hex /= i + 1 => ReadEscape(i) = Escape(ReadIn(16, Spelled(i + 1, hex)), hex, FALSE)
             /\ At(i) \in DigitsOf(8) => ReadEscape(i) = Escape(ReadIn(8, Spelled(i, octal)), octal, FALSE)
             /\ At(i) \notin {"end", "x"} \cup Simple \cup DigitsOf(8) =>
                  ReadEscape(i) = Escape(Code[At(i)], i + 1, TRUE)
<1>1. "x" \notin Simple /\ "end" \notin Simple
  BY DEF Simple
<1>2. "x" \notin DigitsOf(8) /\ "end" \notin DigitsOf(8) /\ DigitsOf(8) \cap Simple = {}
  BY DigitSets, LetterSets
<1>3. At(i) = "end" => ReadEscape(i) = Escape(0, i, FALSE)
  BY <1>1, <1>2 DEF ReadEscape, Escape
<1>4. At(i) \in Simple => ReadEscape(i) = Escape(SimpleValue(At(i)), i + 1, FALSE)
  BY <1>1, <1>2 DEF ReadEscape, Escape
<1>5. /\ At(i) = "x" /\ Past(i + 1, DigitsOf(16)) = i + 1 =>
           ReadEscape(i) = Escape(ReadIn(16, Spelled(i + 1, Past(i + 1, DigitsOf(16)))),
                                  Past(i + 1, DigitsOf(16)), TRUE)
      /\ At(i) = "x" /\ Past(i + 1, DigitsOf(16)) /= i + 1 =>
           ReadEscape(i) = Escape(ReadIn(16, Spelled(i + 1, Past(i + 1, DigitsOf(16)))),
                                  Past(i + 1, DigitsOf(16)), FALSE)
  BY <1>1, <1>2 DEF ReadEscape, Escape
<1>6. At(i) \in DigitsOf(8) =>
        ReadEscape(i) = Escape(ReadIn(8, Spelled(i, Min({Past(i, DigitsOf(8)), i + 3}))),
                               Min({Past(i, DigitsOf(8)), i + 3}), FALSE)
  BY <1>1, <1>2 DEF ReadEscape, Escape
<1>7. At(i) \notin {"end", "x"} \cup Simple \cup DigitsOf(8) => ReadEscape(i) = Escape(Code[At(i)], i + 1, TRUE)
  BY DEF ReadEscape, Escape
<1> QED
  BY <1>3, <1>4, <1>5, <1>6, <1>7, Zenon

LEMMA SpelledDigits ==
  ASSUME TextOK, NEW i \in Places, NEW j \in i..(Len(text) + 1),
         NEW chars \in SUBSET DOMAIN DigitValue, \A k \in i..(j - 1) : At(k) \in chars
  PROVE  Spelled(i, j) \in Seq(chars) /\ Spelled(i, j) \in Seq(DOMAIN DigitValue) /\ Spelled(i, j) = Piece(i, j - 1)
<1>0. Len(text) \in Nat /\ i \in Nat /\ j \in Nat
  BY LengthNat DEF Places
<1>1. PICK d \in (i - 1)..Len(text) : d = j - 1
  BY <1>0
<1>2. /\ Piece(i, d) \in Seq(DOMAIN Code) /\ Len(Piece(i, d)) = d - i + 1
      /\ \A k \in 1..(d - i + 1) : Piece(i, d)[k] = At(i + k - 1)
      /\ Spelled(i, d + 1) = Piece(i, d)
  BY PieceIs
<1>3. d + 1 = j
  BY <1>0, <1>1
<1>4. \A k \in 1..(d - i + 1) : At(i + k - 1) \in chars
  <2> TAKE k \in 1..(d - i + 1)
  <2>1. i + k - 1 \in i..(j - 1)
    BY <1>0, <1>1
  <2> QED
    BY <2>1
<1> DEFINE q == Piece(i, d)
<1>5. q \in Seq(chars)
  <2>1. q \in Seq(DOMAIN Code) /\ \A k \in 1..Len(q) : q[k] \in chars
    BY <1>2, <1>4
  <2> HIDE DEF q
  <2> QED
    BY <2>1
<1>6. q \in Seq(DOMAIN DigitValue)
  <2> HIDE DEF q
  <2> QED
    BY <1>5
<1> QED
  BY <1>1, <1>2, <1>3, <1>5, <1>6

LEMMA SimpleValues == \A c \in DOMAIN Code : SimpleValue(c) \in 0..255 /\ Code[c] \in 0..255
<1>1. \A c \in DOMAIN Code : Code[c] \in 0..255
  BY LexerAssumption
<1> QED
  BY <1>1 DEF SimpleValue

LEMMA HexIs ==
  ASSUME TextOK, NEW i \in Places, At(i) = "x"
  PROVE  LET hex == Past(i + 1, DigitsOf(16))
         IN  /\ i \in 1..Len(text) /\ i + 1 \in Places
             /\ hex \in (i + 1)..(Len(text) + 1) /\ hex \in Places
             /\ At(hex) \notin DigitsOf(16)
             /\ \A k \in (i + 1)..(hex - 1) : At(k) \in DigitsOf(16)
             /\ Spelled(i + 1, hex) = Piece(i + 1, hex - 1)
             /\ Spelled(i + 1, hex) \in Seq(DOMAIN DigitValue)
<1>1. i \in 1..Len(text) /\ i + 1 \in Places
  BY EndIs
<1> DEFINE hex == Past(i + 1, DigitsOf(16))
<1>2. /\ hex \in (i + 1)..(Len(text) + 1) /\ hex \in Places
      /\ At(hex) \notin DigitsOf(16)
      /\ \A k \in (i + 1)..(hex - 1) : At(k) \in DigitsOf(16)
  BY <1>1, PastIs, DigitSets
<1>3. DigitsOf(16) \in SUBSET DOMAIN DigitValue
  BY DEF DigitsOf
<1> HIDE DEF hex
<1>4. Spelled(i + 1, hex) = Piece(i + 1, hex - 1) /\ Spelled(i + 1, hex) \in Seq(DOMAIN DigitValue)
  <2>1. PICK d \in Places : d = i + 1
    BY <1>1
  <2> QED
    BY <1>2, <1>3, <2>1, SpelledDigits
<1> QED
  BY <1>1, <1>2, <1>4 DEF hex

LEMMA EscapeIs ==
  ASSUME TextOK, NEW i \in Places
  PROVE  /\ ReadEscape(i).next \in Places /\ ReadEscape(i).value \in Nat /\ ReadEscape(i).bad \in BOOLEAN
         /\ ReadEscape(i).next >= i
<1>0. Len(text) \in Nat /\ i \in Nat
  BY LengthNat DEF Places
<1>1. CASE At(i) = "end"
  <2>1. ReadEscape(i) = Escape(0, i, FALSE)
    BY <1>1, EscapeKinds
  <2> QED
    BY <1>0, <2>1 DEF Escape
<1>2. CASE At(i) \in Simple
  <2>1. ReadEscape(i) = Escape(SimpleValue(At(i)), i + 1, FALSE)
    BY <1>2, EscapeKinds
  <2>2. At(i) /= "end"
    BY <1>2 DEF Simple
  <2>4. i + 1 \in Places /\ At(i) \in DOMAIN Code
    BY <2>2, EndIs
  <2>5. SimpleValue(At(i)) \in 0..255
    BY <2>4, SimpleValues, Zenon
  <2>3. i + 1 \in Places /\ SimpleValue(At(i)) \in Nat
    BY <2>4, <2>5
  <2> QED
    BY <1>0, <2>1, <2>3 DEF Escape
<1>3. CASE At(i) = "x"
  <2> DEFINE hex == Past(i + 1, DigitsOf(16))
  <2>1. \E b \in BOOLEAN : ReadEscape(i) = Escape(ReadIn(16, Spelled(i + 1, hex)), hex, b)
    BY <1>3, EscapeKinds
  <2>2. hex \in Places /\ hex \in (i + 1)..(Len(text) + 1) /\ Spelled(i + 1, hex) \in Seq(DOMAIN DigitValue)
    BY <1>3, HexIs
  <2> HIDE DEF hex
  <2>3. ReadIn(16, Spelled(i + 1, hex)) \in Nat
    BY <2>2, ReadInIs
  <2> QED
    BY <1>0, <2>1, <2>2, <2>3 DEF Escape
<1>4. CASE At(i) \in DigitsOf(8)
  <2> DEFINE octal == Min({Past(i, DigitsOf(8)), i + 3})
  <2>1. ReadEscape(i) = Escape(ReadIn(8, Spelled(i, octal)), octal, FALSE)
    BY <1>4, EscapeKinds
  <2>2. octal \in Places /\ octal > i /\ \A k \in i..(octal - 1) : At(k) \in DigitsOf(8)
    BY <1>4, OctalIs
  <2> HIDE DEF octal
  <2>3. DigitsOf(8) \in SUBSET DOMAIN DigitValue /\ octal \in i..(Len(text) + 1)
    BY <1>0, <2>2 DEF DigitsOf, Places
  <2>4. Spelled(i, octal) \in Seq(DOMAIN DigitValue)
    BY <2>2, <2>3, SpelledDigits
  <2>5. ReadIn(8, Spelled(i, octal)) \in Nat
    BY <2>4, ReadInIs
  <2> QED
    BY <1>0, <2>1, <2>2, <2>5 DEF Escape
<1>5. CASE At(i) \notin {"end", "x"} \cup Simple \cup DigitsOf(8)
  <2>1. ReadEscape(i) = Escape(Code[At(i)], i + 1, TRUE)
    BY <1>5, EscapeKinds
  <2>4. i + 1 \in Places /\ At(i) \in DOMAIN Code
    BY <1>5, EndIs
  <2>5. Code[At(i)] \in 0..255
    BY <2>4, SimpleValues, Zenon
  <2>3. i + 1 \in Places /\ Code[At(i)] \in Nat
    BY <2>4, <2>5
  <2> QED
    BY <1>0, <2>1, <2>3 DEF Escape
<1> QED
  BY <1>1, <1>2, <1>3, <1>4, <1>5

(* The escape the lexer reads is the longest one C allows, if there is one.  *)
LEMMA EscapeUnit ==
  ASSUME TextOK, NEW i \in 1..Len(text), At(i) = "\\"
  PROVE  LET e == ReadEscape(i + 1)
         IN  /\ i + 1 \in Places
             /\ e.bad \/ At(i + 1) = "end" => UnitEnd(i) = 0
             /\ ~e.bad /\ At(i + 1) /= "end" =>
                  /\ UnitEnd(i) \in (i + 1)..Len(text)
                  /\ e.next = UnitEnd(i) + 1
                  /\ UnitValue(Piece(i, UnitEnd(i))) = e.value
<1>0. Len(text) \in Nat /\ i \in Nat /\ i >= 1 /\ i + 1 \in Places /\ i + 1 \in Nat
  BY LengthNat DEF Places
<1> DEFINE ends == {j \in i..Len(text) : IsUnit(Piece(i, j))}
           e == ReadEscape(i + 1)
           Whole == /\ UnitEnd(i) \in (i + 1)..Len(text)
                    /\ e.next = UnitEnd(i) + 1
                    /\ UnitValue(Piece(i, UnitEnd(i))) = e.value
<1>1. UnitEnd(i) = Farthest(ends) /\ ends \in SUBSET (1..Len(text))
  BY <1>0 DEF UnitEnd
<1>2. \A j \in i..Len(text) : IsUnit(Piece(i, j)) <=>
           /\ j > i
           /\ \/ j = i + 1 /\ At(i + 1) \in Simple
              \/ j <= i + 3 /\ \A k \in (i + 1)..j : At(k) \in DigitsOf(8)
              \/ j > i + 1 /\ At(i + 1) = "x" /\ \A k \in (i + 2)..j : At(k) \in DigitsOf(16)
  <2> TAKE j \in i..Len(text)
  <2>1. IsUnit(Piece(i, j)) <=>
           \/ j = i /\ At(i) \notin {"\\", "NL"}
           \/ /\ j > i /\ At(i) = "\\"
              /\ \/ j = i + 1 /\ At(i + 1) \in Simple
                 \/ j <= i + 3 /\ \A k \in (i + 1)..j : At(k) \in DigitsOf(8)
                 \/ j > i + 1 /\ At(i + 1) = "x" /\ \A k \in (i + 2)..j : At(k) \in DigitsOf(16)
    BY UnitIs, Zenon
  <2> QED
    BY <2>1, Zenon
<1>3. \A j \in i..Len(text) : j > i => i + 1 \in (i + 1)..j
  BY <1>0
<1>4. "x" \notin Simple /\ "x" \notin DigitsOf(8) /\ DigitsOf(8) \cap Simple = {} /\ "end" \notin Simple \cup DigitsOf(8)
  BY DigitSets, LetterSets DEF Simple
<1>5. ASSUME ends = {} PROVE UnitEnd(i) = 0
  BY <1>1, <1>5, FarthestNone, Zenon
<1>6. ASSUME NEW j \in (i + 1)..Len(text), j \in ends, \A k \in ends : k <= j PROVE UnitEnd(i) = j
  <2> HIDE DEF ends
  <2> QED
    BY <1>0, <1>1, <1>6, FarthestAt
<1>7. CASE At(i + 1) = "end"
  <2>1. i + 1 > Len(text)
    <3> SUFFICES ASSUME i + 1 \in 1..Len(text) PROVE FALSE
      BY <1>0
    <3> QED
      BY <1>7, AtIs
  <2>2. ends = {}
    BY <1>0, <1>2, <2>1
  <2>3. UnitEnd(i) = 0
    BY <1>5, <2>2
  <2> QED
    BY <1>0, <1>7, <2>3, Zenon
<1>8. CASE At(i + 1) \in Simple
  <2>1. e = Escape(SimpleValue(At(i + 1)), i + 2, FALSE)
    <3>1. e = Escape(SimpleValue(At(i + 1)), i + 1 + 1, FALSE)
      BY <1>8, EscapeKinds
    <3>2. i + 1 + 1 = i + 2
      BY <1>0
    <3> QED
      BY <3>1, <3>2, Zenon
  <2>2. i + 1 \in 1..Len(text) /\ i + 1 \in (i + 1)..Len(text)
    <3>1. i + 1 \in 1..Len(text)
      BY <1>0, <1>4, <1>8, EndIs
    <3> QED
      BY <1>0, <3>1
  <2>3. \A j \in i..Len(text) : IsUnit(Piece(i, j)) <=> j = i + 1
    <3> TAKE j \in i..Len(text)
    <3>1. j > i /\ (\A k \in (i + 1)..j : At(k) \in DigitsOf(8)) => FALSE
      BY <1>3, <1>4, <1>8
    <3>2. j = i + 1 => j > i
      BY <1>0
    <3> QED
      BY <1>2, <1>4, <1>8, <3>1, <3>2, Zenon
  <2>4. i + 1 \in ends /\ \A k \in ends : k <= i + 1
    BY <1>0, <2>2, <2>3
  <2>5. UnitEnd(i) = i + 1
    <3> HIDE DEF ends
    <3> QED
      BY <1>6, <2>2, <2>4
  <2>6. UnitValue(Piece(i, i + 1)) = SimpleValue(At(i + 1))
    <3>1. i + 1 \in i..Len(text) /\ i + 1 > i
      BY <1>0, <2>2
    <3> QED
      BY <1>8, <3>1, ValueIs
  <2>7. Whole /\ ~e.bad
    <3>1. e.next = i + 2 /\ e.value = SimpleValue(At(i + 1)) /\ e.bad = FALSE
      BY <2>1 DEF Escape
    <3>2. e.next = (i + 1) + 1
      BY <1>0, <3>1
    <3> QED
      BY <2>2, <2>5, <2>6, <3>1, <3>2, Zenon
  <2> QED
    BY <1>0, <1>4, <1>8, <2>7, Zenon
<1>9. CASE At(i + 1) = "x"
  <2> DEFINE hex == Past(i + 1 + 1, DigitsOf(16))
  <2>1. /\ hex = i + 1 + 1 => e = Escape(ReadIn(16, Spelled(i + 1 + 1, hex)), hex, TRUE)
        /\ hex /= i + 1 + 1 => e = Escape(ReadIn(16, Spelled(i + 1 + 1, hex)), hex, FALSE)
    BY <1>9, EscapeKinds
  <2>2. PICK c \in Places : c = i + 1
    BY <1>0
  <2>3. /\ c \in 1..Len(text) /\ c + 1 \in Places
        /\ hex \in (c + 1)..(Len(text) + 1) /\ hex \in Places
        /\ At(hex) \notin DigitsOf(16)
        /\ \A k \in (c + 1)..(hex - 1) : At(k) \in DigitsOf(16)
        /\ Spelled(c + 1, hex) = Piece(c + 1, hex - 1)
    BY <1>9, <2>2, HexIs
  <2>4. c + 1 = i + 2 /\ i + 1 + 1 = c + 1
    BY <1>0, <2>2
  <2> HIDE DEF hex
  <2>5. \A j \in i..Len(text) : IsUnit(Piece(i, j)) <=> j > i + 1 /\ \A k \in (i + 2)..j : At(k) \in DigitsOf(16)
    <3> TAKE j \in i..Len(text)
    <3>1. j > i /\ (\A k \in (i + 1)..j : At(k) \in DigitsOf(8)) => FALSE
      BY <1>3, <1>4, <1>9
    <3>2. j > i + 1 => j > i
      BY <1>0
    <3> QED
      BY <1>2, <1>4, <1>9, <3>1, <3>2, Zenon
  <2>6. \A j \in i..Len(text) : IsUnit(Piece(i, j)) <=> j > i + 1 /\ j < hex
    <3> TAKE j \in i..Len(text)
    <3>1. j > i + 1 /\ j < hex => \A k \in (i + 2)..j : At(k) \in DigitsOf(16)
      BY <1>0, <2>3, <2>4
    <3>2. j > i + 1 /\ (\A k \in (i + 2)..j : At(k) \in DigitsOf(16)) => j < hex
      BY <1>0, <2>3, <2>4
    <3> QED
      BY <2>5, <3>1, <3>2
  <2>7. CASE hex = i + 2
    <3>1. ends = {}
      BY <1>0, <2>6, <2>7
    <3>2. UnitEnd(i) = 0
      BY <1>5, <3>1
    <3>3. e.bad = TRUE
      <4>2. hex = i + 1 + 1
        BY <2>4, <2>7
      <4> QED
        BY <2>1, <4>2 DEF Escape
    <3> QED
      BY <1>0, <3>2, <3>3, Zenon
  <2>8. CASE hex /= i + 2
    <3>1. hex - 1 \in (i + 1)..Len(text) /\ hex - 1 \in i..Len(text) /\ hex - 1 > i + 1 /\ (hex - 1) + 1 = hex
      BY <1>0, <2>3, <2>4, <2>8
    <3>2. hex - 1 \in ends /\ \A k \in ends : k <= hex - 1
      BY <1>0, <2>3, <2>6, <3>1
    <3>3. UnitEnd(i) = hex - 1
      <4> HIDE DEF ends
      <4> QED
        BY <1>6, <3>1, <3>2
    <3>4. UnitValue(Piece(i, hex - 1)) = ReadIn(16, Piece(i + 2, hex - 1))
      BY <1>9, <3>1, ValueIs
    <3>5. e.next = hex /\ e.value = ReadIn(16, Piece(i + 2, hex - 1)) /\ e.bad = FALSE
      <4>2. hex /= i + 1 + 1 /\ i + 1 + 1 = c + 1 /\ c + 1 = i + 2
        BY <2>4, <2>8
      <4>3. Spelled(i + 1 + 1, hex) = Piece(i + 2, hex - 1)
        BY <2>3, <4>2
      <4>4. e.next = hex /\ e.value = ReadIn(16, Spelled(i + 1 + 1, hex)) /\ e.bad = FALSE
        BY <2>1, <4>2 DEF Escape
      <4> QED
        BY <4>3, <4>4
    <3>6. Whole /\ ~e.bad
      BY <3>1, <3>3, <3>4, <3>5, Zenon
    <3> QED
      BY <1>0, <1>9, <3>6
  <2> QED
    BY <2>7, <2>8
<1>10. CASE At(i + 1) \in DigitsOf(8)
  <2> DEFINE octal == Min({Past(i + 1, DigitsOf(8)), i + 1 + 3})
  <2>1. e = Escape(ReadIn(8, Spelled(i + 1, octal)), octal, FALSE)
    BY <1>10, EscapeKinds
  <2>2. PICK c \in Places : c = i + 1
    BY <1>0
  <2>3. /\ octal \in Places /\ octal > c /\ octal <= c + 3
        /\ \A k \in c..(octal - 1) : At(k) \in DigitsOf(8)
        /\ octal = c + 3 \/ At(octal) \notin DigitsOf(8)
    BY <1>10, <2>2, OctalIs
  <2> HIDE DEF octal
  <2>4. c \in Nat /\ octal \in c..(Len(text) + 1) /\ octal \in Nat /\ DigitsOf(8) \in SUBSET DOMAIN DigitValue
    BY <1>0, <2>2, <2>3 DEF Places, DigitsOf
  <2>5. Spelled(c, octal) = Piece(c, octal - 1)
    BY <2>3, <2>4, SpelledDigits
  <2>6. \A j \in i..Len(text) : IsUnit(Piece(i, j)) <=>
           j > i /\ j <= i + 3 /\ \A k \in (i + 1)..j : At(k) \in DigitsOf(8)
    <3> TAKE j \in i..Len(text)
    <3>1. At(i + 1) \notin Simple /\ At(i + 1) /= "x"
      BY <1>4, <1>10
    <3> QED
      BY <1>2, <3>1, Zenon
  <2>7. \A j \in i..Len(text) : IsUnit(Piece(i, j)) <=> j > i /\ j < octal
    <3> TAKE j \in i..Len(text)
    <3>1. j > i /\ j < octal => j <= i + 3 /\ \A k \in (i + 1)..j : At(k) \in DigitsOf(8)
      BY <1>0, <2>2, <2>3, <2>4
    <3>2. j > i /\ j <= i + 3 /\ (\A k \in (i + 1)..j : At(k) \in DigitsOf(8)) => j < octal
      BY <1>0, <2>2, <2>3, <2>4
    <3> QED
      BY <2>6, <3>1, <3>2
  <2>8. /\ octal - 1 \in (i + 1)..Len(text) /\ octal - 1 \in i..Len(text) /\ octal - 1 > i /\ (octal - 1) + 1 = octal
        /\ octal - 1 < octal
    BY <1>0, <2>2, <2>3, <2>4
  <2>9. octal - 1 \in ends /\ \A k \in ends : k <= octal - 1
    BY <1>0, <2>4, <2>7, <2>8
  <2>10. UnitEnd(i) = octal - 1
    <3> HIDE DEF ends
    <3> QED
      BY <1>6, <2>8, <2>9
  <2>11. UnitValue(Piece(i, octal - 1)) = ReadIn(8, Piece(i + 1, octal - 1))
    BY <1>10, <2>8, ValueIs
  <2>12. e.next = octal /\ e.value = ReadIn(8, Piece(i + 1, octal - 1)) /\ e.bad = FALSE
    BY <2>1, <2>2, <2>5 DEF Escape
  <2>13. Whole /\ ~e.bad
    BY <2>8, <2>10, <2>11, <2>12, Zenon
  <2>14. At(i + 1) /= "end"
    BY <1>4, <1>10
  <2> QED
    BY <1>0, <2>13, <2>14, Zenon
<1>11. CASE At(i + 1) \notin {"end", "x"} \cup Simple \cup DigitsOf(8)
  <2>1. e = Escape(Code[At(i + 1)], i + 1 + 1, TRUE)
    BY <1>11, EscapeKinds
  <2>2. ASSUME NEW j \in ends PROVE FALSE
    <3>1. j \in i..Len(text) /\ IsUnit(Piece(i, j))
      OBVIOUS
    <3> QED
      BY <1>2, <1>3, <1>11, <3>1
  <2>3. ends = {}
    BY <2>2
  <2>4. UnitEnd(i) = 0
    BY <1>5, <2>3
  <2>5. e.bad = TRUE
    BY <2>1 DEF Escape
  <2> QED
    BY <1>0, <2>4, <2>5, Zenon
<1> QED
  BY <1>7, <1>8, <1>9, <1>10, <1>11

(***************************************************************************)
(* String literals.                                                        *)
(***************************************************************************)
Strings == [bytes : Seq(Nat), next : Places, bad : BOOLEAN]
StringStop == {i \in Places : At(i) \in {"end", "NL", "\""}}
(* Behind the character or the escape at i, its byte, and whether it is bad.  *)
StringNext(i) == IF i \in StringStop THEN i ELSE IF At(i) = "\\" THEN ReadEscape(i + 1).next ELSE i + 1
StringByte(i) == IF At(i) = "\\" THEN ReadEscape(i + 1).value % 256 ELSE Code[At(i)]
StringBad(i) == At(i) = "\\" /\ ReadEscape(i + 1).bad
StringEnd(i) == [bytes |-> <<>>, next |-> IF At(i) = "\"" THEN i + 1 ELSE i, bad |-> At(i) /= "\""]
StringStep(i, rest) ==
  [bytes |-> <<StringByte(i)>> \o rest.bytes, next |-> rest.next, bad |-> StringBad(i) \/ rest.bad]

LEMMA StringTypes ==
  ASSUME TextOK, NEW i \in Places
  PROVE  /\ StringNext(i) \in Places /\ StringEnd(i).next \in {i, i + 1}
         /\ i \in StringStop => StringEnd(i) \in Strings
         /\ i \notin StringStop => /\ StringNext(i) > i /\ StringByte(i) \in Nat /\ StringBad(i) \in BOOLEAN
                                   /\ \A r \in Strings : StringStep(i, r) \in Strings
<1>0. Len(text) \in Nat /\ i \in Nat
  BY LengthNat DEF Places
<1>1. i \in StringStop => StringEnd(i) \in Strings
  <2> HAVE i \in StringStop
  <2>1. At(i) = "\"" => i + 1 \in Places
    BY EndIs
  <2>2. <<>> \in Seq(Nat)
    OBVIOUS
  <2> QED
    BY <2>1, <2>2 DEF StringEnd, Strings
<1>2. StringEnd(i).next \in {i, i + 1}
  BY DEF StringEnd
<1>3. ASSUME i \notin StringStop
      PROVE  StringNext(i) \in Places /\ StringNext(i) > i /\ StringByte(i) \in Nat /\ StringBad(i) \in BOOLEAN
  <2>1. i + 1 \in Places /\ At(i) \in DOMAIN Code
    BY <1>3, EndIs DEF StringStop
  <2>2. Code[At(i)] \in Nat
    <3>1. Code[At(i)] \in 0..255
      BY <2>1, SimpleValues, Zenon
    <3> QED
      BY <3>1
  <2>3. /\ ReadEscape(i + 1).next \in Places /\ ReadEscape(i + 1).value \in Nat /\ ReadEscape(i + 1).bad \in BOOLEAN
        /\ ReadEscape(i + 1).next >= i + 1
    BY <2>1, EscapeIs
  <2> HIDE DEF ReadEscape
  <2>4. StringNext(i) \in Places /\ StringNext(i) > i
    <3>1. CASE At(i) = "\\"
      <4>1. StringNext(i) = ReadEscape(i + 1).next
        BY <1>3, <3>1 DEF StringNext
      <4> QED
        BY <1>0, <2>3, <4>1 DEF Places
    <3>2. CASE At(i) /= "\\"
      <4>1. StringNext(i) = i + 1
        BY <1>3, <3>2 DEF StringNext
      <4> QED
        BY <1>0, <2>1, <4>1
    <3> QED
      BY <3>1, <3>2
  <2>5. StringByte(i) \in Nat
    BY <2>2, <2>3 DEF StringByte
  <2> QED
    BY <2>4, <2>5 DEF StringBad
<1>4. ASSUME i \notin StringStop, NEW r \in Strings PROVE StringStep(i, r) \in Strings
  <2>1. StringByte(i) \in Nat /\ StringBad(i) \in BOOLEAN
    BY <1>3, <1>4
  <2>2. r.bytes \in Seq(Nat) /\ r.next \in Places /\ r.bad \in BOOLEAN
    BY DEF Strings
  <2>3. <<StringByte(i)>> \in Seq(Nat)
    BY <2>1
  <2>4. <<StringByte(i)>> \o r.bytes \in Seq(Nat)
    BY <2>2, <2>3, ConcatProperties
  <2> QED
    BY <2>1, <2>2, <2>4 DEF StringStep, Strings
<1> QED
  BY <1>0, <1>1, <1>2, <1>3, <1>4 DEF StringNext

LEMMA StringIs ==
  ASSUME TextOK
  PROVE  \A i \in Places :
           /\ StringFrom[i] \in Strings
           /\ i \in StringStop => StringFrom[i] = StringEnd(i)
           /\ i \notin StringStop => StringFrom[i] = StringStep(i, StringFrom[StringNext(i)])
<1>0. Len(text) \in Nat /\ \A i \in Places : i \in Nat /\ i <= Len(text) + 1
  BY LengthNat DEF Places
<1> DEFINE rank == [i \in Places |-> Len(text) + 1 - i]
           nxt == [i \in Places |-> StringNext(i)]
           base == [i \in Places |-> IF i \in StringStop THEN StringEnd(i)
                                     ELSE [bytes |-> <<>>, next |-> i, bad |-> TRUE]]
           g == [p \in Places \X Strings |-> IF p[1] \in StringStop THEN base[p[1]] ELSE StringStep(p[1], p[2])]
           G(s) ==
             [i \in Places |->
               LET escape == ReadEscape(i + 1)
                   then(value, next, bad) ==
                     LET rest == s[next]
                     IN  [bytes |-> <<value>> \o rest.bytes, next |-> rest.next, bad |-> bad \/ rest.bad]
               IN  CASE At(i) \in {"end", "NL"} -> [bytes |-> <<>>, next |-> i, bad |-> TRUE]
                     [] At(i) = "\"" -> [bytes |-> <<>>, next |-> i + 1, bad |-> FALSE]
                     [] At(i) = "\\" -> then(escape.value % 256, escape.next, escape.bad)
                     [] OTHER -> then(Code[At(i)], i + 1, FALSE)]
<1>1. \A i \in Places : base[i] \in Strings
  <2> TAKE i \in Places
  <2>1. [bytes |-> <<>>, next |-> i, bad |-> TRUE] \in Strings
    BY DEF Strings
  <2>2. i \in StringStop => StringEnd(i) \in Strings
    BY StringTypes
  <2> QED
    BY <2>1, <2>2
<1>2. Descends(Places, Strings, Len(text) + 1, rank, StringStop, nxt, base, g)
  <2>1. base \in [Places -> Strings]
    BY <1>1
  <2>2. g \in [Places \X Strings -> Strings]
    <3> SUFFICES ASSUME NEW i \in Places, NEW r \in Strings
                 PROVE (IF i \in StringStop THEN base[i] ELSE StringStep(i, r)) \in Strings
      OBVIOUS
    <3>1. i \notin StringStop => StringStep(i, r) \in Strings
      BY StringTypes
    <3> QED
      BY <1>1, <3>1
  <2>3. nxt \in [Places -> Places] /\ \A i \in Places \ StringStop : nxt[i] > i /\ nxt[i] \in Places
    BY StringTypes
  <2>4. rank \in [Places -> 0..(Len(text) + 1)]
    BY <1>0
  <2>5. \A i \in Places \ StringStop : rank[nxt[i]] < rank[i]
    <3> TAKE i \in Places \ StringStop
    <3>1. nxt[i] > i /\ nxt[i] \in Places
      BY <2>3
    <3> HIDE DEF nxt
    <3> QED
      BY <1>0, <3>1
  <2>6. Len(text) + 1 \in Nat
    BY <1>0
  <2>7. StringStop \subseteq Places
    BY DEF StringStop
  <2> HIDE DEF base, g, nxt, rank
  <2> QED
    BY <2>1, <2>2, <2>3, <2>4, <2>5, <2>6, <2>7 DEF Descends
<1>3. ASSUME NEW s, NEW i \in Places
      PROVE  G(s)[i] = IF i \in StringStop THEN StringEnd(i) ELSE StringStep(i, s[StringNext(i)])
  <2>1. CASE At(i) \in {"end", "NL"}
    BY <2>1 DEF StringStop, StringEnd
  <2>2. CASE At(i) = "\""
    BY <2>2 DEF StringStop, StringEnd
  <2>3. CASE At(i) = "\\"
    <3>1. i \notin StringStop
      BY <2>3 DEF StringStop
    <3>2. /\ StringNext(i) = ReadEscape(i + 1).next /\ StringByte(i) = ReadEscape(i + 1).value % 256
      BY <2>3, <3>1 DEF StringNext, StringByte
    <3>3. G(s)[i] = [bytes |-> <<ReadEscape(i + 1).value % 256>> \o s[ReadEscape(i + 1).next].bytes,
                     next |-> s[ReadEscape(i + 1).next].next,
                     bad |-> ReadEscape(i + 1).bad \/ s[ReadEscape(i + 1).next].bad]
      BY <2>3
    <3> HIDE DEF G
    <3> QED
      BY <2>3, <3>1, <3>2, <3>3 DEF StringStep, StringBad
  <2>4. CASE At(i) \notin {"end", "NL", "\"", "\\"}
    <3>1. i \notin StringStop
      BY <2>4 DEF StringStop
    <3>2. /\ StringNext(i) = i + 1 /\ StringByte(i) = Code[At(i)]
      BY <2>4, <3>1 DEF StringNext, StringByte
    <3>3. G(s)[i] = [bytes |-> <<Code[At(i)]>> \o s[i + 1].bytes, next |-> s[i + 1].next,
                     bad |-> FALSE \/ s[i + 1].bad]
      BY <2>4
    <3> HIDE DEF G
    <3> QED
      BY <2>4, <3>1, <3>2, <3>3 DEF StringStep, StringBad
  <2> QED
    BY <2>1, <2>2, <2>3, <2>4
<1>4. PICK f \in [Places -> Strings] : Solves(f, Places, StringStop, nxt, base, g)
  <2> HIDE DEF base, g, nxt, rank
  <2> QED
    BY <1>2, Recursion, Zenon
<1>5. f = G(f)
  <2>1. ASSUME NEW i \in Places
        PROVE  f[i] = IF i \in StringStop THEN StringEnd(i) ELSE StringStep(i, f[StringNext(i)])
    <3>1. f[i] = IF i \in StringStop THEN base[i] ELSE g[<<i, f[nxt[i]]>>]
      BY <1>4 DEF Solves
    <3>2. nxt[i] = StringNext(i) /\ StringNext(i) \in Places
      BY StringTypes
    <3>3. CASE i \in StringStop
      BY <3>1, <3>3
    <3>4. CASE i \notin StringStop
      <4>1. <<i, f[nxt[i]]>> \in Places \X Strings
        BY <3>2
      <4>2. g[<<i, f[nxt[i]]>>] = StringStep(i, f[nxt[i]])
        BY <3>4, <4>1
      <4> HIDE DEF g, nxt
      <4> QED
        BY <3>1, <3>2, <3>4, <4>2
    <3> QED
      BY <3>3, <3>4
  <2>2. \A i \in Places : f[i] = G(f)[i]
    <3> HIDE DEF G
    <3> QED
      BY <1>3, <2>1
  <2>3. f = [i \in Places |-> f[i]] /\ G(f) = [i \in Places |-> G(f)[i]]
    OBVIOUS
  <2> HIDE DEF G
  <2> QED
    BY <2>2, <2>3
<1>6. StringFrom = G(StringFrom)
  <2>1. StringFrom = CHOOSE s : s = G(s)
    BY DEF StringFrom
  <2> HIDE DEF G
  <2> QED
    BY <1>5, <2>1
<1>7. ASSUME NEW i \in Places
      PROVE  StringFrom[i] = IF i \in StringStop THEN StringEnd(i) ELSE StringStep(i, StringFrom[StringNext(i)])
  <2> HIDE DEF G
  <2> QED
    BY <1>3, <1>6
<1>8. \A i \in Places : StringFrom[i] \in Strings
  <2>1. \A i \in Places : i \in StringStop => StringFrom[i] = base[i]
    BY <1>7
  <2>2. \A i \in Places : i \notin StringStop /\ StringFrom[nxt[i]] \in Strings =>
          StringFrom[i] = g[<<i, StringFrom[nxt[i]]>>]
    <3> TAKE i \in Places
    <3> HAVE i \notin StringStop /\ StringFrom[nxt[i]] \in Strings
    <3>1. <<i, StringFrom[nxt[i]]>> \in Places \X Strings /\ nxt[i] = StringNext(i)
      OBVIOUS
    <3>2. g[<<i, StringFrom[nxt[i]]>>] = StringStep(i, StringFrom[nxt[i]])
      BY <3>1
    <3> HIDE DEF g, nxt
    <3> QED
      BY <1>7, <3>1, <3>2
  <2>3. Obeys(StringFrom, Places, Strings, StringStop, nxt, base, g)
    <3> HIDE DEF base, g, nxt
    <3> QED
      BY <2>1, <2>2, Zenon DEF Obeys
  <2> HIDE DEF base, g, nxt, rank
  <2> QED
    BY <1>2, <2>3, Recursive, Zenon
<1> QED
  BY <1>7, <1>8

LEMMA UnitEnds ==
  ASSUME TextOK, NEW i \in Places
  PROVE  /\ UnitEnd(i) \in Nat
         /\ UnitEnd(i) > 0 => /\ UnitEnd(i) \in i..Len(text) /\ UnitEnd(i) + 1 \in Places
                              /\ UnitValue(Piece(i, UnitEnd(i))) \in Nat
<1>0. Len(text) \in Nat /\ i \in Nat /\ i >= 1
  BY LengthNat DEF Places
<1>1. CASE At(i) \in {"end", "NL"}
  BY <1>1, NoUnit
<1>2. CASE At(i) = "\\"
  <2>1. i \in 1..Len(text)
    BY <1>2, EndIs
  <2> DEFINE e == ReadEscape(i + 1)
  <2>2. /\ i + 1 \in Places
        /\ e.bad \/ At(i + 1) = "end" => UnitEnd(i) = 0
        /\ ~e.bad /\ At(i + 1) /= "end" =>
                  /\ UnitEnd(i) \in (i + 1)..Len(text)
                  /\ e.next = UnitEnd(i) + 1
                  /\ UnitValue(Piece(i, UnitEnd(i))) = e.value
    BY <1>2, <2>1, EscapeUnit
  <2>3. e.next \in Places /\ e.value \in Nat
    BY <2>2, EscapeIs
  <2> HIDE DEF e
  <2>4. CASE e.bad \/ At(i + 1) = "end"
    BY <2>2, <2>4
  <2>5. CASE ~e.bad /\ At(i + 1) /= "end"
    <3>1. UnitEnd(i) \in (i + 1)..Len(text) /\ UnitEnd(i) + 1 \in Places /\ UnitValue(Piece(i, UnitEnd(i))) \in Nat
      BY <2>2, <2>3, <2>5
    <3> QED
      BY <1>0, <3>1
  <2> QED
    BY <2>4, <2>5
<1>3. CASE At(i) \notin {"end", "NL", "\\"}
  <2>1. i \in 1..Len(text) /\ i + 1 \in Places /\ At(i) \in DOMAIN Code
    BY <1>3, EndIs
  <2>2. UnitEnd(i) = i /\ UnitValue(Piece(i, i)) = Code[At(i)]
    BY <1>3, <2>1, PlainUnit
  <2>3. Code[At(i)] \in 0..255
    BY <2>1, SimpleValues, Zenon
  <2>4. UnitValue(Piece(i, UnitEnd(i))) = Code[At(i)] /\ UnitEnd(i) = i
    BY <2>2, Zenon
  <2>5. UnitValue(Piece(i, UnitEnd(i))) \in Nat
    BY <2>3, <2>4
  <2>6. UnitEnd(i) \in i..Len(text) /\ UnitEnd(i) + 1 \in Places /\ UnitEnd(i) \in Nat
    BY <1>0, <2>1, <2>4
  <2> QED
    BY <2>5, <2>6, Zenon
<1> QED
  BY <1>1, <1>2, <1>3

UnitRows == [end : Nat, values : Seq(Nat)]
UnitStop(quote) == {i \in Places : UnitEnd(i) = 0 \/ At(i) = quote}
UnitNext(quote, i) == IF i \in UnitStop(quote) THEN i ELSE UnitEnd(i) + 1
UnitRow(i) == [end |-> IF UnitEnd(i) = 0 THEN 0 ELSE i, values |-> <<>>]
UnitStep(i, rest) == [end |-> rest.end, values |-> <<UnitValue(Piece(i, UnitEnd(i)))>> \o rest.values]

LEMMA UnitTypes ==
  ASSUME TextOK, NEW i \in Places, NEW quote
  PROVE  /\ UnitNext(quote, i) \in Places /\ UnitRow(i) \in UnitRows
         /\ i \notin UnitStop(quote) => /\ UnitNext(quote, i) > i
                                        /\ \A r \in UnitRows : UnitStep(i, r) \in UnitRows
<1>0. Len(text) \in Nat /\ i \in Nat /\ i >= 1
  BY LengthNat DEF Places
<1>1. UnitRow(i) \in UnitRows
  <2>1. <<>> \in Seq(Nat)
    OBVIOUS
  <2> QED
    BY <1>0, <2>1 DEF UnitRow, UnitRows
<1>2. CASE i \in UnitStop(quote)
  BY <1>1, <1>2 DEF UnitNext
<1>3. CASE i \notin UnitStop(quote)
  <2>1. UnitEnd(i) \in Nat /\ UnitEnd(i) /= 0
    BY <1>3, UnitEnds DEF UnitStop
  <2>2. UnitEnd(i) \in i..Len(text) /\ UnitEnd(i) + 1 \in Places /\ UnitValue(Piece(i, UnitEnd(i))) \in Nat
    BY <2>1, UnitEnds
  <2>3. UnitNext(quote, i) = UnitEnd(i) + 1
    BY <1>3 DEF UnitNext
  <2>4. UnitNext(quote, i) > i
    BY <1>0, <2>2, <2>3
  <2>5. ASSUME NEW r \in UnitRows PROVE UnitStep(i, r) \in UnitRows
    <3>1. r.end \in Nat /\ r.values \in Seq(Nat)
      BY DEF UnitRows
    <3>2. <<UnitValue(Piece(i, UnitEnd(i)))>> \in Seq(Nat)
      BY <2>2
    <3>3. <<UnitValue(Piece(i, UnitEnd(i)))>> \o r.values \in Seq(Nat)
      BY <3>1, <3>2, ConcatProperties
    <3> QED
      BY <3>1, <3>3 DEF UnitStep, UnitRows
  <2> QED
    BY <1>1, <2>2, <2>3, <2>4, <2>5
<1> QED
  BY <1>2, <1>3

LEMMA UnitsAre ==
  ASSUME TextOK, NEW quote
  PROVE  \A i \in Places :
           /\ Units(quote)[i] \in UnitRows
           /\ i \in UnitStop(quote) => Units(quote)[i] = UnitRow(i)
           /\ i \notin UnitStop(quote) => Units(quote)[i] = UnitStep(i, Units(quote)[UnitNext(quote, i)])
<1>0. Len(text) \in Nat /\ \A i \in Places : i \in Nat /\ i <= Len(text) + 1
  BY LengthNat DEF Places
<1> DEFINE stop == UnitStop(quote)
           rank == [i \in Places |-> Len(text) + 1 - i]
           nxt == [i \in Places |-> UnitNext(quote, i)]
           base == [i \in Places |-> UnitRow(i)]
           g == [p \in Places \X UnitRows |-> IF p[1] \in stop THEN base[p[1]] ELSE UnitStep(p[1], p[2])]
           G(s) ==
             [i \in Places |->
               LET rest == s[UnitEnd(i) + 1]
               IN  CASE UnitEnd(i) = 0 -> [end |-> 0, values |-> <<>>]
                     [] UnitEnd(i) > 0 /\ At(i) = quote -> [end |-> i, values |-> <<>>]
                     [] OTHER -> [end |-> rest.end,
                                  values |-> <<UnitValue(Piece(i, UnitEnd(i)))>> \o rest.values]]
<1>1. \A i \in Places : base[i] \in UnitRows
  BY UnitTypes
<1>2. Descends(Places, UnitRows, Len(text) + 1, rank, stop, nxt, base, g)
  <2>1. base \in [Places -> UnitRows]
    BY <1>1
  <2>2. g \in [Places \X UnitRows -> UnitRows]
    <3> SUFFICES ASSUME NEW i \in Places, NEW r \in UnitRows
                 PROVE (IF i \in stop THEN base[i] ELSE UnitStep(i, r)) \in UnitRows
      OBVIOUS
    <3>1. i \notin stop => UnitStep(i, r) \in UnitRows
      BY UnitTypes
    <3> QED
      BY <1>1, <3>1
  <2>3. nxt \in [Places -> Places] /\ \A i \in Places \ stop : nxt[i] > i /\ nxt[i] \in Places
    BY UnitTypes
  <2>4. rank \in [Places -> 0..(Len(text) + 1)]
    BY <1>0
  <2>5. \A i \in Places \ stop : rank[nxt[i]] < rank[i]
    <3> TAKE i \in Places \ stop
    <3>1. nxt[i] > i /\ nxt[i] \in Places
      BY <2>3
    <3> HIDE DEF nxt
    <3> QED
      BY <1>0, <3>1
  <2>6. Len(text) + 1 \in Nat
    BY <1>0
  <2>7. stop \subseteq Places
    BY DEF UnitStop
  <2> HIDE DEF base, g, nxt, rank, stop
  <2> QED
    BY <2>1, <2>2, <2>3, <2>4, <2>5, <2>6, <2>7 DEF Descends
<1>3. ASSUME NEW s, NEW i \in Places
      PROVE  G(s)[i] = IF i \in stop THEN UnitRow(i) ELSE UnitStep(i, s[UnitNext(quote, i)])
  <2>1. UnitEnd(i) \in Nat
    BY UnitEnds
  <2>2. CASE UnitEnd(i) = 0
    BY <2>2 DEF UnitStop, UnitRow
  <2>3. CASE UnitEnd(i) > 0 /\ At(i) = quote
    <3>1. ~(UnitEnd(i) = 0) /\ i \in stop
      BY <2>1, <2>3 DEF UnitStop
    <3> QED
      BY <2>3, <3>1 DEF UnitRow
  <2>4. CASE UnitEnd(i) > 0 /\ At(i) /= quote
    <3>1. ~(UnitEnd(i) = 0) /\ i \notin stop
      BY <2>1, <2>4 DEF UnitStop
    <3>2. UnitNext(quote, i) = UnitEnd(i) + 1
      BY <3>1 DEF UnitNext
    <3> QED
      BY <2>4, <3>1, <3>2 DEF UnitStep
  <2> QED
    BY <2>1, <2>2, <2>3, <2>4
<1>4. PICK f \in [Places -> UnitRows] : Solves(f, Places, stop, nxt, base, g)
  <2> HIDE DEF base, g, nxt, rank, stop
  <2> QED
    BY <1>2, Recursion, Zenon
<1>5. f = G(f)
  <2>1. ASSUME NEW i \in Places
        PROVE  f[i] = IF i \in stop THEN UnitRow(i) ELSE UnitStep(i, f[UnitNext(quote, i)])
    <3>1. f[i] = IF i \in stop THEN base[i] ELSE g[<<i, f[nxt[i]]>>]
      BY <1>4 DEF Solves
    <3>2. nxt[i] = UnitNext(quote, i) /\ UnitNext(quote, i) \in Places
      BY UnitTypes
    <3>3. CASE i \in stop
      BY <3>1, <3>3
    <3>4. CASE i \notin stop
      <4>1. <<i, f[nxt[i]]>> \in Places \X UnitRows
        BY <3>2
      <4>2. g[<<i, f[nxt[i]]>>] = UnitStep(i, f[nxt[i]])
        BY <3>4, <4>1
      <4> HIDE DEF g, nxt, stop
      <4> QED
        BY <3>1, <3>2, <3>4, <4>2
    <3> QED
      BY <3>3, <3>4
  <2>2. \A i \in Places : f[i] = G(f)[i]
    <3> HIDE DEF G, stop
    <3> QED
      BY <1>3, <2>1
  <2>3. f = [i \in Places |-> f[i]] /\ G(f) = [i \in Places |-> G(f)[i]]
    OBVIOUS
  <2> HIDE DEF G
  <2> QED
    BY <2>2, <2>3
<1> DEFINE u == Units(quote)
<1>6. u = G(u)
  <2>1. u = CHOOSE s : s = G(s)
    BY DEF Units
  <2> HIDE DEF G, u
  <2> QED
    BY <1>5, <2>1
<1> HIDE DEF u
<1>7. ASSUME NEW i \in Places
      PROVE  u[i] = IF i \in stop THEN UnitRow(i) ELSE UnitStep(i, u[UnitNext(quote, i)])
  <2> HIDE DEF G, stop
  <2> QED
    BY <1>3, <1>6
<1>8. \A i \in Places : u[i] \in UnitRows
  <2>1. \A i \in Places : i \in stop => u[i] = base[i]
    BY <1>7
  <2>2. \A i \in Places : i \notin stop /\ u[nxt[i]] \in UnitRows => u[i] = g[<<i, u[nxt[i]]>>]
    <3> TAKE i \in Places
    <3> HAVE i \notin stop /\ u[nxt[i]] \in UnitRows
    <3>1. <<i, u[nxt[i]]>> \in Places \X UnitRows /\ nxt[i] = UnitNext(quote, i)
      OBVIOUS
    <3>2. g[<<i, u[nxt[i]]>>] = UnitStep(i, u[nxt[i]])
      BY <3>1
    <3> HIDE DEF g, nxt, stop
    <3> QED
      BY <1>7, <3>1, <3>2
  <2>3. Obeys(u, Places, UnitRows, stop, nxt, base, g)
    <3> HIDE DEF base, g, nxt, stop
    <3> QED
      BY <2>1, <2>2, Zenon DEF Obeys
  <2> HIDE DEF base, g, nxt, rank, stop
  <2> QED
    BY <1>2, <2>3, Recursive, Zenon
<1> QED
  BY <1>7, <1>8 DEF u

(* The values of a row after one more unit. *)
LEMMA MoreValues ==
  ASSUME NEW v \in Nat, NEW values \in Seq(Nat)
  PROVE  /\ <<v>> \o values \in Seq(Nat)
         /\ Len(<<v>> \o values) = Len(values) + 1
         /\ (<<v>> \o values)[1] = v
         /\ Range(<<v>> \o values) = {v} \cup Range(values)
<1> DEFINE all == <<v>> \o values
<1>1. <<v>> \in Seq(Nat) /\ Len(<<v>>) = 1 /\ <<v>>[1] = v
  OBVIOUS
<1>2. /\ all \in Seq(Nat) /\ Len(all) = 1 + Len(values)
      /\ \A i \in 1..(1 + Len(values)) : all[i] = IF i <= 1 THEN <<v>>[i] ELSE values[i - 1]
  BY <1>1, ConcatProperties
<1> HIDE DEF all
<1>3. Len(values) \in Nat /\ all[1] = v /\ \A i \in 1..Len(values) : all[i + 1] = values[i]
  BY <1>1, <1>2
<1>4. Range(all) = {v} \cup Range(values)
  <2>0. DOMAIN all = 1..(1 + Len(values)) /\ DOMAIN values = 1..Len(values)
    BY <1>2
  <2>1. Range(all) = {all[i] : i \in 1..(1 + Len(values))} /\ Range(values) = {values[i] : i \in 1..Len(values)}
    BY <2>0, Zenon DEF Range
  <2>2. \A i \in 1..(1 + Len(values)) : i = 1 \/ (i - 1 \in 1..Len(values) /\ (i - 1) + 1 = i)
    BY <1>3
  <2>3. \A i \in 1..Len(values) : i + 1 \in 1..(1 + Len(values))
    BY <1>3
  <2>4. 1 \in 1..(1 + Len(values))
    BY <1>3
  <2>5. \A x \in Range(all) : x = v \/ x \in Range(values)
    <3> TAKE x \in Range(all)
    <3>1. PICK i \in 1..(1 + Len(values)) : x = all[i]
      BY <2>1
    <3>2. CASE i = 1
      BY <1>3, <3>1, <3>2
    <3>3. CASE i /= 1
      <4>1. i - 1 \in 1..Len(values) /\ all[(i - 1) + 1] = values[i - 1] /\ (i - 1) + 1 = i
        BY <1>3, <2>2, <3>3
      <4> QED
        BY <2>1, <3>1, <4>1
    <3> QED
      BY <3>2, <3>3
  <2>6. v \in Range(all) /\ \A x \in Range(values) : x \in Range(all)
    <3>1. v \in Range(all)
      BY <1>3, <2>1, <2>4
    <3>2. ASSUME NEW x \in Range(values) PROVE x \in Range(all)
      <4>1. PICK i \in 1..Len(values) : x = values[i]
        BY <2>1
      <4>2. i + 1 \in 1..(1 + Len(values)) /\ all[i + 1] = x
        BY <1>3, <2>3, <4>1
      <4> QED
        BY <2>1, <4>2
    <3> QED
      BY <3>1, <3>2
  <2> QED
    BY <2>5, <2>6, Zenon
<1> QED
  BY <1>2, <1>3, <1>4 DEF all

DoubleQuote == "\""

LEMMA StringFields ==
  ASSUME TextOK, NEW i \in Places
  PROVE  /\ At(i) \in {"end", "NL"} => StringEnd(i).bad = TRUE
         /\ At(i) = DoubleQuote => /\ StringEnd(i).bytes = <<>> /\ StringEnd(i).next = i + 1
                                  /\ StringEnd(i).bad = FALSE
         /\ i \notin StringStop =>
              \A r \in Strings : /\ StringStep(i, r).bytes = <<StringByte(i)>> \o r.bytes
                                 /\ StringStep(i, r).next = r.next
                                 /\ StringBad(i) => StringStep(i, r).bad = TRUE
                                 /\ r.bad = TRUE => StringStep(i, r).bad = TRUE
                                 /\ ~StringBad(i) => StringStep(i, r).bad = r.bad
<1>1. At(i) \in {"end", "NL"} => StringEnd(i).bad = TRUE
  BY DEF StringEnd
<1>2. At(i) = DoubleQuote => /\ StringEnd(i).bytes = <<>> /\ StringEnd(i).next = i + 1
                             /\ StringEnd(i).bad = FALSE
  BY DEF StringEnd, DoubleQuote
<1>3. ASSUME i \notin StringStop, NEW r \in Strings
      PROVE  /\ StringStep(i, r).bytes = <<StringByte(i)>> \o r.bytes
             /\ StringStep(i, r).next = r.next
             /\ StringBad(i) => StringStep(i, r).bad = TRUE
             /\ r.bad = TRUE => StringStep(i, r).bad = TRUE
             /\ ~StringBad(i) => StringStep(i, r).bad = r.bad
  <2>1. r.bad \in BOOLEAN
    BY DEF Strings
  <2>2. StringBad(i) \in BOOLEAN
    BY DEF StringBad
  <2> QED
    BY <2>1, <2>2 DEF StringStep
<1> QED
  BY <1>1, <1>2, <1>3

StringAgrees(i) ==
  LET u == Units(DoubleQuote)[i]
      s == StringFrom[i]
  IN  /\ u.end = 0 => s.bad = TRUE
      /\ u.end /= 0 => /\ u.end \in i..Len(text) /\ s.bad = FALSE /\ s.next = u.end + 1
                       /\ (\A v \in Range(u.values) : v <= 255) => s.bytes = u.values

LEMMA StringStepAgrees ==
  ASSUME TextOK, NEW i \in Places, i \notin StringStop, i \notin UnitStop(DoubleQuote),
         StringNext(i) = UnitNext(DoubleQuote, i), StringAgrees(StringNext(i)),
         ~StringBad(i), UnitValue(Piece(i, UnitEnd(i))) <= 255 => StringByte(i) = UnitValue(Piece(i, UnitEnd(i)))
  PROVE  StringAgrees(i)
<1>0. Len(text) \in Nat /\ i \in Nat
  BY LengthNat DEF Places
<1> DEFINE n == StringNext(i)
           q == DoubleQuote
           u == Units(q)[i]
           s == StringFrom[i]
           v == UnitValue(Piece(i, UnitEnd(i)))
<1>1. n \in Places /\ n > i
  BY StringTypes
<1>2. n = UnitNext(q, i)
  OBVIOUS
<1>3. s = StringStep(i, StringFrom[n]) /\ StringFrom[n] \in Strings
  BY <1>1, StringIs
<1>4. u = UnitStep(i, Units(q)[n]) /\ Units(q)[n] \in UnitRows
  BY <1>1, <1>2, UnitsAre
<1>5. v \in Nat
  <2>1. UnitEnd(i) \in Nat /\ UnitEnd(i) /= 0
    BY UnitEnds DEF UnitStop
  <2> QED
    BY <2>1, UnitEnds
<1>6. ~StringBad(i) /\ (v <= 255 => StringByte(i) = v) /\ StringAgrees(n)
  OBVIOUS
<1> DEFINE r == StringFrom[n]
           w == Units(q)[n]
<1>7. /\ w.end = 0 => r.bad = TRUE
      /\ w.end /= 0 => /\ w.end \in n..Len(text) /\ r.bad = FALSE /\ r.next = w.end + 1
                       /\ (\A x \in Range(w.values) : x <= 255) => r.bytes = w.values
  BY <1>6 DEF StringAgrees
<1> HIDE DEF n, v, u, s, q, r, w
<1>8. u.end = w.end /\ u.values = <<v>> \o w.values /\ w.values \in Seq(Nat)
  BY <1>4 DEF UnitStep, UnitRows, v, w
<1>9. s.next = r.next /\ s.bytes = <<StringByte(i)>> \o r.bytes /\ s.bad = r.bad
  BY <1>3, <1>6, StringFields DEF r
<1>10. Range(u.values) = {v} \cup Range(w.values)
  BY <1>5, <1>8, MoreValues
<1>11. (\A x \in Range(u.values) : x <= 255) => s.bytes = u.values \/ w.end = 0
  BY <1>6, <1>7, <1>8, <1>9, <1>10
<1>12. w.end \in n..Len(text) => w.end \in i..Len(text)
  BY <1>0, <1>1 DEF Places
<1>13. /\ u.end = 0 => s.bad = TRUE
       /\ u.end /= 0 => /\ u.end \in i..Len(text) /\ s.bad = FALSE /\ s.next = u.end + 1
                        /\ (\A x \in Range(u.values) : x <= 255) => s.bytes = u.values
  BY <1>7, <1>8, <1>9, <1>11, <1>12
<1> QED
  BY <1>13 DEF StringAgrees, u, s, q

(* A string literal ends where C says, with the bytes C gives it. *)
LEMMA StringSame == TextOK => \A i \in Places : StringAgrees(i)
<1> HAVE TextOK
<1>0. Len(text) \in Nat /\ \A i \in Places : i \in Nat /\ i <= Len(text) + 1
  BY LengthNat DEF Places
<1>1. ASSUME NEW i \in Places, \A j \in Places : j > i => StringAgrees(j)
      PROVE  StringAgrees(i)
  <2>1. StringFrom[i] \in Strings /\ Units(DoubleQuote)[i] \in UnitRows
    BY StringIs, UnitsAre
  <2>2. ASSUME UnitEnd(i) = 0, StringFrom[i].bad = TRUE
        PROVE  StringAgrees(i)
    <3>1. Units(DoubleQuote)[i] = UnitRow(i)
      BY <2>2, UnitsAre DEF UnitStop
    <3>2. Units(DoubleQuote)[i].end = 0
      BY <2>2, <3>1 DEF UnitRow
    <3> QED
      BY <2>2, <3>2 DEF StringAgrees
  <2>3. CASE At(i) \in {"end", "NL"}
    <3>1. UnitEnd(i) = 0
      BY <2>3, NoUnit
    <3>2. StringFrom[i] = StringEnd(i)
      BY <2>3, StringIs DEF StringStop
    <3>3. StringFrom[i].bad = TRUE
      BY <2>3, <3>2, StringFields
    <3> QED
      BY <2>2, <3>1, <3>3
  <2>4. CASE At(i) = DoubleQuote
    <3>1. i \in 1..Len(text)
      BY <2>4, EndIs DEF DoubleQuote
    <3>2. UnitEnd(i) = i
      BY <2>4, <3>1, PlainUnit DEF DoubleQuote
    <3>3. StringFrom[i] = StringEnd(i)
      BY <2>4, StringIs DEF StringStop, DoubleQuote
    <3>4. Units(DoubleQuote)[i] = UnitRow(i)
      BY <2>4, UnitsAre DEF UnitStop
    <3>5. Units(DoubleQuote)[i].end = i /\ Units(DoubleQuote)[i].values = <<>>
      BY <3>1, <3>2, <3>4, <1>0 DEF UnitRow
    <3>6. StringFrom[i].bytes = <<>> /\ StringFrom[i].next = i + 1 /\ StringFrom[i].bad = FALSE
      BY <2>4, <3>3, StringFields
    <3>7. i \in i..Len(text) /\ i /= 0
      BY <1>0, <3>1
    <3> QED
      BY <3>5, <3>6, <3>7 DEF StringAgrees
  <2>5. CASE At(i) = "\\"
    <3>1. i \in 1..Len(text) /\ i \notin StringStop
      BY <2>5, EndIs DEF StringStop
    <3> DEFINE e == ReadEscape(i + 1)
    <3>2. /\ i + 1 \in Places
          /\ e.bad \/ At(i + 1) = "end" => UnitEnd(i) = 0
          /\ ~e.bad /\ At(i + 1) /= "end" =>
                  /\ UnitEnd(i) \in (i + 1)..Len(text)
                  /\ e.next = UnitEnd(i) + 1
                  /\ UnitValue(Piece(i, UnitEnd(i))) = e.value
      BY <2>5, <3>1, EscapeUnit
    <3>3. StringNext(i) = e.next /\ StringByte(i) = e.value % 256 /\ (StringBad(i) <=> e.bad)
      BY <2>5, <3>1 DEF StringNext, StringByte, StringBad
    <3>4. e.next \in Places /\ e.value \in Nat /\ e.bad \in BOOLEAN
      BY <3>2, EscapeIs
    <3>5. StringFrom[i] = StringStep(i, StringFrom[e.next]) /\ StringFrom[e.next] \in Strings
      BY <3>1, <3>3, <3>4, StringIs
    <3>6. CASE e.bad
      <4>1. StringFrom[i].bad = TRUE
        BY <3>1, <3>3, <3>5, <3>6, StringFields
      <4> QED
        BY <2>2, <3>2, <3>6, <4>1
    <3>7. CASE At(i + 1) = "end"
      <4>1. e = Escape(0, i + 1, FALSE)
        BY <3>7, EscapeKinds
      <4>2. e.next = i + 1
        BY <4>1 DEF Escape
      <4>3. StringFrom[i + 1] = StringEnd(i + 1)
        BY <3>2, <3>7, StringIs DEF StringStop
      <4>4. StringFrom[e.next].bad = TRUE
        <5>1. PICK k \in Places : k = i + 1
          BY <3>2
        <5>2. At(k) \in {"end", "NL"} => StringEnd(k).bad = TRUE
          BY StringFields, Zenon
        <5>3. At(k) \in {"end", "NL"}
          BY <3>7, <5>1
        <5>4. StringEnd(k).bad = TRUE
          BY <5>2, <5>3, Zenon
        <5>5. StringFrom[k] = StringEnd(k)
          BY <4>3, <5>1, Zenon
        <5>6. e.next = k
          BY <4>2, <5>1, Zenon
        <5> HIDE DEF e
        <5> QED
          BY <5>4, <5>5, <5>6, Zenon
      <4>5. StringFrom[i].bad = TRUE
        BY <3>1, <3>5, <4>4, StringFields
      <4> QED
        BY <2>2, <3>2, <3>7, <4>5
    <3>8. CASE ~e.bad /\ At(i + 1) /= "end"
      <4> HIDE DEF e
      <4>1. UnitEnd(i) /= 0 /\ i \notin UnitStop(DoubleQuote)
        BY <1>0, <2>5, <3>2, <3>8 DEF UnitStop, DoubleQuote
      <4>2. UnitNext(DoubleQuote, i) = UnitEnd(i) + 1
        BY <4>1 DEF UnitNext
      <4>3. StringNext(i) = UnitNext(DoubleQuote, i) /\ StringNext(i) > i /\ StringNext(i) \in Places
        BY <3>1, <3>2, <3>3, <3>8, <4>2, StringTypes
      <4>4. StringAgrees(StringNext(i))
        BY <1>1, <4>3
      <4>5. e.value <= 255 => e.value % 256 = e.value
        BY <3>4
      <4>6. UnitValue(Piece(i, UnitEnd(i))) <= 255 => StringByte(i) = UnitValue(Piece(i, UnitEnd(i)))
        BY <3>2, <3>3, <3>8, <4>5
      <4> QED
        BY <3>1, <3>3, <3>8, <4>1, <4>3, <4>4, <4>6, StringStepAgrees
    <3> QED
      BY <3>4, <3>6, <3>7, <3>8
  <2>6. CASE At(i) \notin {"end", "NL", "\"", "\\"}
    <3>1. i \in 1..Len(text) /\ i \notin StringStop
      BY <2>6, EndIs DEF StringStop
    <3>2. UnitEnd(i) = i /\ UnitValue(Piece(i, i)) = Code[At(i)]
      BY <2>6, <3>1, PlainUnit
    <3>3. i \notin UnitStop(DoubleQuote)
      <4>2. i /= 0
        BY <3>1
      <4>3. At(i) /= DoubleQuote
        BY <2>6 DEF DoubleQuote
      <4>1. UnitEnd(i) /= 0 /\ At(i) /= DoubleQuote
        BY <3>2, <4>2, <4>3, Zenon
      <4> QED
        BY <4>1 DEF UnitStop
    <3>4. UnitNext(DoubleQuote, i) = UnitEnd(i) + 1 /\ StringNext(i) = i + 1 /\ StringByte(i) = Code[At(i)] /\ ~StringBad(i)
      BY <2>6, <3>1, <3>3 DEF UnitNext, StringNext, StringByte, StringBad
    <3>5. StringNext(i) = UnitNext(DoubleQuote, i) /\ StringNext(i) > i /\ StringNext(i) \in Places
      BY <3>1, <3>2, <3>4, StringTypes
    <3>6. StringAgrees(StringNext(i))
      BY <1>1, <3>5
    <3>7. UnitValue(Piece(i, UnitEnd(i))) = StringByte(i)
      BY <3>2, <3>4
    <3> QED
      BY <3>1, <3>3, <3>4, <3>5, <3>6, <3>7, StringStepAgrees
  <2> QED
    BY <2>3, <2>4, <2>5, <2>6 DEF DoubleQuote
<1> DEFINE B == {i \in Places : StringAgrees(i)}
<1>2. ASSUME NEW i \in Places, \A j \in Places : j > i => j \in B
      PROVE  i \in B
  BY <1>1, <1>2
<1>3. B = Places
  <2> HIDE DEF B
  <2>1. B \in SUBSET Places
    BY DEF B
  <2> QED
    BY <1>2, <2>1, Descending
<1> QED
  BY <1>3

(***************************************************************************)
(* Character literals.                                                     *)
(***************************************************************************)
SingleQuote == "'"

LEMMA CharRow ==
  ASSUME TextOK, NEW i \in Places, At(i) = SingleQuote
  PROVE  /\ i + 1 \in Places /\ i \in 1..Len(text)
         /\ Values(i) = Units(SingleQuote)[i + 1].values
         /\ Len(Values(i)) /= 1 => LiteralEnd(i) = 0
         /\ Len(Values(i)) = 1 => LiteralEnd(i) = Units(SingleQuote)[i + 1].end
<1>1. i + 1 \in Places /\ i \in 1..Len(text)
  BY EndIs DEF SingleQuote
<1>2. Values(i) = Units(SingleQuote)[i + 1].values
  BY Zenon DEF Values
<1>3. LiteralEnd(i) = IF Len(Values(i)) /= 1 THEN 0 ELSE Units(SingleQuote)[i + 1].end
  BY Zenon DEF LiteralEnd, SingleQuote
<1> QED
  BY <1>1, <1>2, <1>3

LEMMA NoLiteral ==
  ASSUME TextOK, NEW i \in Places, At(i) = SingleQuote, UnitEnd(i + 1) = 0 \/ At(i + 1) = SingleQuote
  PROVE  LiteralEnd(i) = 0
<1>1. i + 1 \in Places /\ i + 1 \in UnitStop(SingleQuote)
  BY CharRow DEF UnitStop
<1>2. PICK k \in Places : k = i + 1
  BY <1>1
<1>3. Units(SingleQuote)[k] = UnitRow(k)
  BY <1>1, <1>2, UnitsAre
<1>4. Units(SingleQuote)[k].values = <<>>
  BY <1>3 DEF UnitRow
<1>5. Values(i) = <<>>
  BY <1>2, <1>4, CharRow
<1>6. Len(Values(i)) /= 1
  BY <1>5
<1> QED
  BY <1>6, CharRow

LEMMA OneLiteral ==
  ASSUME TextOK, NEW i \in Places, At(i) = SingleQuote, UnitEnd(i + 1) /= 0, At(i + 1) /= SingleQuote
  PROVE  LET n == UnitEnd(i + 1) + 1
         IN  /\ n \in Places /\ n > i + 1
             /\ At(n) = SingleQuote => /\ LiteralEnd(i) = n
                                       /\ Values(i) = <<UnitValue(Piece(i + 1, UnitEnd(i + 1)))>>
             /\ At(n) /= SingleQuote => LiteralEnd(i) = 0
<1>0. Len(text) \in Nat /\ i \in Nat
  BY LengthNat DEF Places
<1>1. PICK k \in Places : k = i + 1
  BY CharRow
<1>2. k \notin UnitStop(SingleQuote) /\ UnitEnd(k) /= 0
  BY <1>1 DEF UnitStop
<1> DEFINE n == UnitEnd(k) + 1
           v == UnitValue(Piece(k, UnitEnd(k)))
           u == Units(SingleQuote)
<1>3. UnitEnd(k) \in k..Len(text) /\ n \in Places /\ v \in Nat
  BY <1>2, UnitEnds
<1>4. n > k /\ n /= 0 /\ UnitNext(SingleQuote, k) = n
  BY <1>0, <1>1, <1>2, <1>3 DEF UnitNext
<1>5. u[k] = UnitStep(k, u[n]) /\ u[n] \in UnitRows
  BY <1>2, <1>3, <1>4, UnitsAre
<1>6. u[k].end = u[n].end /\ u[k].values = <<v>> \o u[n].values /\ u[n].values \in Seq(Nat)
  BY <1>5 DEF UnitStep, UnitRows
<1> HIDE DEF n, v, u
<1>7. /\ Values(i) = u[k].values
      /\ Len(Values(i)) /= 1 => LiteralEnd(i) = 0
      /\ Len(Values(i)) = 1 => LiteralEnd(i) = u[k].end
  BY <1>1, CharRow DEF u
<1>8. Len(Values(i)) = Len(u[n].values) + 1
  BY <1>3, <1>6, <1>7, MoreValues
<1>9. CASE At(n) = SingleQuote
  <2>1. n \in 1..Len(text)
    BY <1>3, <1>9, EndIs DEF SingleQuote
  <2>2. UnitEnd(n) = n
    BY <1>9, <2>1, PlainUnit DEF SingleQuote
  <2>3. n \in UnitStop(SingleQuote)
    BY <1>3, <1>9 DEF UnitStop
  <2>4. u[n] = UnitRow(n)
    BY <1>3, <2>3, UnitsAre DEF u
  <2>5. u[n].values = <<>> /\ u[n].end = n
    BY <1>4, <2>2, <2>4 DEF UnitRow
  <2>6. Values(i) = <<v>> /\ Len(Values(i)) = 1
    <3>1. <<v>> \in Seq(Nat) /\ <<v>> \o <<>> = <<v>>
      BY <1>3, ConcatEmptySeq
    <3>2. Values(i) = <<v>>
      BY <1>6, <1>7, <2>5, <3>1, Zenon
    <3> QED
      BY <3>2
  <2>7. LiteralEnd(i) = n
    BY <1>6, <1>7, <2>5, <2>6
  <2> QED
    BY <1>1, <1>3, <1>4, <1>9, <2>6, <2>7 DEF n, v
<1>10. CASE At(n) /= SingleQuote
  <2>1. LiteralEnd(i) = 0
    <3>1. CASE UnitEnd(n) = 0
      <4>1. n \in UnitStop(SingleQuote)
        BY <1>3, <3>1 DEF UnitStop
      <4>2. u[n] = UnitRow(n)
        BY <1>3, <4>1, UnitsAre DEF u
      <4>3. u[n].end = 0
        BY <3>1, <4>2 DEF UnitRow
      <4> QED
        BY <1>6, <1>7, <4>3
    <3>2. CASE UnitEnd(n) /= 0
      <4>1. n \notin UnitStop(SingleQuote)
        BY <1>10, <3>2 DEF UnitStop
      <4>2. u[n] = UnitStep(n, u[UnitNext(SingleQuote, n)]) /\ UnitNext(SingleQuote, n) \in Places
        BY <1>3, <4>1, UnitsAre, UnitTypes DEF u
      <4>3. u[UnitNext(SingleQuote, n)] \in UnitRows
        BY <4>2, UnitsAre DEF u
      <4> DEFINE w == u[UnitNext(SingleQuote, n)]
                 z == UnitValue(Piece(n, UnitEnd(n)))
      <4>4. u[n].values = <<z>> \o w.values /\ w.values \in Seq(Nat)
        BY <4>2, <4>3 DEF UnitStep, UnitRows
      <4>5. z \in Nat
        <5>1. UnitEnd(n) \in Nat /\ UnitEnd(n) > 0
          BY <1>3, <3>2, UnitEnds
        <5> QED
          BY <1>3, <5>1, UnitEnds
      <4> HIDE DEF w, z
      <4>6. Len(u[n].values) = Len(w.values) + 1 /\ Len(w.values) \in Nat
        BY <4>4, <4>5, MoreValues
      <4>7. Len(Values(i)) /= 1
        BY <1>8, <4>6
      <4> QED
        BY <1>7, <4>7
    <3> QED
      BY <3>1, <3>2
  <2> QED
    BY <1>1, <1>3, <1>4, <1>10, <2>1 DEF n
<1> QED
  BY <1>9, <1>10

(* A character literal with this body: what LexChar makes of it. *)
Closing(value, next, bad) ==
  Lexed(Token("char", <<>>, <<value>>), IF At(next) = SingleQuote THEN next + 1 ELSE next,
        bad \/ At(next) /= SingleQuote)

LEMMA CharKinds ==
  ASSUME NEW i
  PROVE  /\ At(i + 1) \in {"end", SingleQuote} => LexChar(i) = Closing(0, i + 1, TRUE)
         /\ At(i + 1) = "\\" =>
              LexChar(i) = Closing(ReadEscape(i + 2).value, ReadEscape(i + 2).next, ReadEscape(i + 2).bad)
         /\ At(i + 1) \notin {"end", SingleQuote, "\\"} => LexChar(i) = Closing(Code[At(i + 1)], i + 2, FALSE)
<1>1. At(i + 1) \in {"end", SingleQuote} => LexChar(i) = Closing(0, i + 1, TRUE)
  BY DEF LexChar, Closing, Lexed, SingleQuote
<1>2. At(i + 1) = "\\" =>
         LexChar(i) = Closing(ReadEscape(i + 2).value, ReadEscape(i + 2).next, ReadEscape(i + 2).bad)
  BY DEF LexChar, Closing, Lexed, SingleQuote
<1>3. At(i + 1) \notin {"end", SingleQuote, "\\"} => LexChar(i) = Closing(Code[At(i + 1)], i + 2, FALSE)
  BY DEF LexChar, Closing, Lexed, SingleQuote
<1> QED
  BY <1>1, <1>2, <1>3

LEMMA ClosingIs ==
  ASSUME TextOK, NEW value, NEW next \in Places, NEW bad \in BOOLEAN, NEW c, c = Closing(value, next, bad)
  PROVE  /\ c.token = Token("char", <<>>, <<value>>)
         /\ c.next \in Places /\ c.next >= next
         /\ At(next) = SingleQuote => c.next = next + 1
         /\ bad \/ At(next) /= SingleQuote => c.bad = TRUE
         /\ ~bad /\ At(next) = SingleQuote => c.bad = FALSE
<1>0. Len(text) \in Nat /\ next \in Nat
  BY LengthNat DEF Places
<1>1. /\ c.token = Token("char", <<>>, <<value>>)
      /\ c.next = IF At(next) = SingleQuote THEN next + 1 ELSE next
  BY DEF Closing, Lexed
<1>2. bad \/ At(next) /= SingleQuote => c.bad = TRUE
  BY DEF Closing, Lexed
<1>3. ~bad /\ At(next) = SingleQuote => c.bad = FALSE
  BY DEF Closing, Lexed
<1>4. At(next) = SingleQuote => next + 1 \in Places
  BY EndIs DEF SingleQuote
<1> QED
  BY <1>0, <1>1, <1>2, <1>3, <1>4

CharAgrees(i) ==
  /\ LexChar(i).next \in Places /\ LexChar(i).next > i
  /\ LiteralEnd(i) = 0 => LexChar(i).bad = TRUE \/ Piece(i, i + 2) = <<"'", "NL", "'">>
  /\ LiteralEnd(i) /= 0 => /\ LexChar(i).bad = FALSE
                           /\ LexChar(i).next = LiteralEnd(i) + 1
                           /\ LexChar(i).token = Token("char", <<>>, Values(i))

(* One unit between quotes is what C allows, whatever its value. *)
LEMMA ClosedAgrees ==
  ASSUME TextOK, NEW i \in Places, At(i) = SingleQuote, UnitEnd(i + 1) /= 0, At(i + 1) /= SingleQuote,
         LexChar(i) = Closing(UnitValue(Piece(i + 1, UnitEnd(i + 1))), UnitEnd(i + 1) + 1, FALSE)
  PROVE  CharAgrees(i)
<1>0. Len(text) \in Nat /\ i \in Nat
  BY LengthNat DEF Places
<1> DEFINE n == UnitEnd(i + 1) + 1
           v == UnitValue(Piece(i + 1, UnitEnd(i + 1)))
           l == LexChar(i)
<1>1. /\ n \in Places /\ n > i + 1
      /\ At(n) = SingleQuote => LiteralEnd(i) = n /\ Values(i) = <<v>>
      /\ At(n) /= SingleQuote => LiteralEnd(i) = 0
  BY OneLiteral
<1>2. l = Closing(v, n, FALSE)
  OBVIOUS
<1> HIDE DEF n, v, l
<1>3. /\ l.token = Token("char", <<>>, <<v>>)
      /\ l.next \in Places /\ l.next >= n
      /\ At(n) = SingleQuote => l.next = n + 1 /\ l.bad = FALSE
      /\ At(n) /= SingleQuote => l.bad = TRUE
  <2>1. n \in Places /\ FALSE \in BOOLEAN
    BY <1>1
  <2>2. /\ l.token = Token("char", <<>>, <<v>>)
        /\ l.next \in Places /\ l.next >= n
        /\ At(n) = SingleQuote => l.next = n + 1
        /\ FALSE \/ At(n) /= SingleQuote => l.bad = TRUE
        /\ ~FALSE /\ At(n) = SingleQuote => l.bad = FALSE
    BY <1>2, <2>1, ClosingIs, Zenon
  <2> QED
    BY <2>2, Zenon
<1>4. l.next > i /\ n /= 0
  BY <1>0, <1>1, <1>3 DEF Places
<1>5. CASE At(n) = SingleQuote
  BY <1>1, <1>3, <1>4, <1>5 DEF CharAgrees, l
<1>6. CASE At(n) /= SingleQuote
  BY <1>1, <1>3, <1>4, <1>6 DEF CharAgrees, l
<1> QED
  BY <1>5, <1>6

LEMMA CharSame ==
  ASSUME TextOK, NEW i \in Places, At(i) = SingleQuote
  PROVE  CharAgrees(i)
<1>0. Len(text) \in Nat /\ i \in Nat
  BY LengthNat DEF Places
<1>1. PICK k \in Places : k = i + 1
  BY CharRow
<1>2. k > i /\ k + 1 = i + 2 /\ i \in 1..Len(text)
  BY <1>0, <1>1, CharRow
<1> DEFINE l == LexChar(i)
<1>3. ASSUME NEW value, NEW next \in Places, next > i, l = Closing(value, next, TRUE), LiteralEnd(i) = 0
      PROVE  CharAgrees(i)
  <2>1. l.next \in Places /\ l.next >= next /\ l.bad = TRUE
    BY <1>3, ClosingIs
  <2>0. next > i
    BY <1>3, Zenon
  <2>2. next \in Int /\ next > i /\ l.next \in Int
    <3> HIDE DEF l
    <3> QED
      BY <1>0, <2>0, <2>1 DEF Places
  <2>3. l.next > i
    <3> HIDE DEF l
    <3> QED
      BY <1>0, <2>1, <2>2
  <2> QED
    BY <1>3, <2>1, <2>3 DEF CharAgrees
<1>4. CASE At(k) = "end"
  <2>1. l = Closing(0, k, TRUE)
    BY <1>1, <1>4, CharKinds
  <2>2. UnitEnd(k) = 0
    BY <1>4, NoUnit
  <2>3. LiteralEnd(i) = 0
    BY <1>1, <2>2, NoLiteral
  <2> QED
    BY <1>2, <1>3, <2>1, <2>3
<1>5. CASE At(k) = SingleQuote
  <2>1. l = Closing(0, k, TRUE)
    BY <1>1, <1>5, CharKinds
  <2>2. LiteralEnd(i) = 0
    BY <1>1, <1>5, NoLiteral
  <2> QED
    BY <1>2, <1>3, <2>1, <2>2
<1>6. CASE At(k) = "\\"
  <2>0. k \in 1..Len(text) /\ At(k) /= SingleQuote
    BY <1>6, EndIs DEF SingleQuote
  <2> DEFINE e == ReadEscape(k + 1)
  <2>1. l = Closing(e.value, e.next, e.bad)
    BY <1>1, <1>2, <1>6, CharKinds
  <2>2. /\ k + 1 \in Places
        /\ e.bad \/ At(k + 1) = "end" => UnitEnd(k) = 0
        /\ ~e.bad /\ At(k + 1) /= "end" =>
               /\ UnitEnd(k) \in (k + 1)..Len(text)
               /\ e.next = UnitEnd(k) + 1
               /\ UnitValue(Piece(k, UnitEnd(k))) = e.value
    BY <1>6, <2>0, EscapeUnit
  <2>3. e.next \in Places /\ e.value \in Nat /\ e.bad \in BOOLEAN /\ e.next >= k + 1
    BY <2>2, EscapeIs
  <2>4. e.next > i
    BY <1>0, <1>2, <2>3 DEF Places
  <2>5. CASE At(k + 1) = "end"
    <3>1. e = Escape(0, k + 1, FALSE)
      BY <2>5, EscapeKinds
    <3>2. e.next = k + 1
      BY <3>1 DEF Escape
    <3>3. LiteralEnd(i) = 0
      BY <1>1, <2>2, <2>5, NoLiteral
    <3>4. At(e.next) /= SingleQuote
      BY <2>5, <3>2 DEF SingleQuote
    <3> HIDE DEF e, l
    <3>7. PICK v \in Nat, n \in Places, b \in BOOLEAN : v = e.value /\ n = e.next /\ b = e.bad
      BY <2>3
    <3>8. l = Closing(v, n, b) /\ At(n) /= SingleQuote
      BY <2>1, <3>4, <3>7
    <3>9. l.next \in Places /\ l.next >= n /\ l.bad = TRUE
      BY <3>8, ClosingIs
    <3>5. l.next \in Places /\ l.next >= e.next /\ l.bad = TRUE
      BY <3>7, <3>9
    <3>6. l.next > i
      BY <1>0, <2>3, <2>4, <3>5 DEF Places
    <3> QED
      BY <3>3, <3>5, <3>6 DEF CharAgrees, l
  <2>6. CASE e.bad
    <3>1. LiteralEnd(i) = 0
      BY <1>1, <2>2, <2>6, NoLiteral
    <3>2. e.bad = TRUE
      BY <2>3, <2>6
    <3>3. l = Closing(e.value, e.next, TRUE)
      BY <2>1, <3>2
    <3> HIDE DEF e, l
    <3> QED
      BY <1>3, <2>3, <2>4, <3>1, <3>3
  <2>7. CASE ~e.bad /\ At(k + 1) /= "end"
    <3>1. e.bad = FALSE
      BY <2>3, <2>7
    <3>2. UnitEnd(k) /= 0 /\ l = Closing(UnitValue(Piece(k, UnitEnd(k))), UnitEnd(k) + 1, FALSE)
      <4>1. UnitEnd(k) /= 0
        BY <1>0, <1>1, <2>2, <2>7
      <4> QED
        BY <2>1, <2>2, <2>7, <3>1, <4>1
    <3> QED
      BY <1>1, <2>0, <3>2, ClosedAgrees
  <2> QED
    BY <2>3, <2>5, <2>6, <2>7
<1>7. CASE At(k) = "NL"
  <2>0. k + 1 \in Places
    BY <1>7, EndIs
  <2>1. l = Closing(Code["NL"], k + 1, FALSE)
    BY <1>1, <1>2, <1>7, CharKinds DEF SingleQuote
  <2>2. UnitEnd(k) = 0
    BY <1>7, NoUnit
  <2>3. LiteralEnd(i) = 0
    BY <1>1, <2>2, NoLiteral
  <2> HIDE DEF l
  <2>4. l.next \in Places /\ l.next >= k + 1 /\ (At(k + 1) /= SingleQuote => l.bad = TRUE)
    <3>1. PICK m \in Places : m = k + 1
      BY <2>0
    <3>2. PICK c : c = Code["NL"]
      OBVIOUS
    <3>3. l = Closing(c, m, FALSE)
      BY <2>1, <3>1, <3>2
    <3>4. l.next \in Places /\ l.next >= m /\ (At(m) /= SingleQuote => l.bad = TRUE)
      BY <3>3, ClosingIs
    <3> QED
      BY <3>1, <3>4
  <2>5. l.next > i
    BY <1>0, <1>1, <2>4 DEF Places
  <2>6. ASSUME At(k + 1) = SingleQuote PROVE Piece(i, i + 2) = <<"'", "NL", "'">>
    <3>1. i + 2 \in (i - 1)..Len(text)
      <4>1. k + 1 \in 1..Len(text)
        BY <2>0, <2>6, EndIs DEF SingleQuote
      <4> QED
        BY <1>0, <1>2, <4>1
    <3> DEFINE q == Piece(i, i + 2)
    <3>2. q \in Seq(DOMAIN Code) /\ Len(q) = (i + 2) - i + 1 /\ \A x \in 1..((i + 2) - i + 1) : q[x] = At(i + x - 1)
      BY <3>1, PieceIs
    <3> HIDE DEF q
    <3>3. (i + 2) - i + 1 = 3 /\ i + 1 - 1 = i /\ i + 2 - 1 = k /\ i + 3 - 1 = k + 1
      BY <1>0, <1>1
    <3>4. Len(q) = 3 /\ q[1] = "'" /\ q[2] = "NL" /\ q[3] = "'"
      BY <1>7, <2>6, <3>2, <3>3 DEF SingleQuote
    <3>5. q = <<"'", "NL", "'">>
      <4> DEFINE S == DOMAIN Code \cup {"'", "NL"}
                 t == <<"'", "NL", "'">>
      <4>1. t \in Seq(S) /\ Len(t) = 3 /\ t[1] = "'" /\ t[2] = "NL" /\ t[3] = "'"
        OBVIOUS
      <4>2. q \in Seq(S)
        <5>1. DOMAIN Code \subseteq S
          OBVIOUS
        <5> HIDE DEF S
        <5> QED
          BY <3>2, <5>1, SeqMonotonic, Zenon
      <4> HIDE DEF S, t
      <4>3. \A x \in 1..Len(q) : q[x] = t[x]
        BY <3>4, <4>1
      <4>4. q = t
        BY <3>4, <4>1, <4>2, <4>3, SeqEqual
      <4> QED
        BY <4>4 DEF t
    <3> QED
      BY <3>5 DEF q
  <2> QED
    BY <2>3, <2>4, <2>5, <2>6 DEF CharAgrees, l
<1>8. CASE At(k) \notin {"end", "NL", SingleQuote, "\\"}
  <2>1. l = Closing(Code[At(k)], k + 1, FALSE)
    BY <1>1, <1>2, <1>8, CharKinds
  <2>2. k \in 1..Len(text)
    BY <1>8, EndIs
  <2>3. UnitEnd(k) = k /\ UnitValue(Piece(k, k)) = Code[At(k)]
    BY <1>8, <2>2, PlainUnit
  <2>4. k /= 0
    BY <2>2
  <2>5. UnitEnd(k) /= 0 /\ l = Closing(UnitValue(Piece(k, UnitEnd(k))), UnitEnd(k) + 1, FALSE)
    BY <2>1, <2>3, <2>4, Zenon
  <2> QED
    BY <1>1, <1>8, <2>5, ClosedAgrees
<1> QED
  BY <1>4, <1>5, <1>6, <1>7, <1>8

(***************************************************************************)
(* Words.                                                                  *)
(***************************************************************************)
(* The last place of the word at i. *)
LastOf(i) == Past(i, Alnum) - 1
Word(i) == Piece(i, Farthest({j \in i..Len(text) : Range(Piece(i, j)) \subseteq Alnum}))

LEMMA WordIs ==
  ASSUME TextOK, NEW i \in Places, At(i) \in Alnum
  PROVE  /\ LastOf(i) \in i..Len(text) /\ LastOf(i) + 1 = Past(i, Alnum) /\ LastOf(i) + 1 \in Places
         /\ \A k \in i..LastOf(i) : At(k) \in Alnum
         /\ At(LastOf(i) + 1) \notin Alnum
         /\ Word(i) = Piece(i, LastOf(i))
         /\ Len(Word(i)) = LastOf(i) - i + 1
<1>0. Len(text) \in Nat /\ i \in Nat /\ i >= 1
  BY LengthNat DEF Places
<1> DEFINE p == Past(i, Alnum)
           last == LastOf(i)
           ends == {j \in i..Len(text) : Range(Piece(i, j)) \subseteq Alnum}
<1>1. /\ p \in i..(Len(text) + 1) /\ p \in Places /\ At(p) \notin Alnum
      /\ \A k \in i..(p - 1) : At(k) \in Alnum
  <2>1. "end" \notin Alnum
    BY LetterSets
  <2> QED
    BY <2>1, PastIs
<1>2. p /= i
  BY <1>1
<1>3. last = p - 1
  BY DEF LastOf
<1> HIDE DEF p, last
<1>4. last \in i..Len(text) /\ last + 1 = p /\ last \in (i - 1)..Len(text)
  BY <1>0, <1>1, <1>2, <1>3
<1>5. \A k \in i..last : At(k) \in Alnum
  BY <1>1, <1>3
<1>6. \A j \in i..Len(text) : Range(Piece(i, j)) \subseteq Alnum <=> j <= last
  <2> TAKE j \in i..Len(text)
  <2>1. j \in (i - 1)..Len(text)
    BY <1>0
  <2>2. Range(Piece(i, j)) = {At(k) : k \in i..j}
    BY <2>1, PieceIs
  <2>3. j <= last => \A k \in i..j : At(k) \in Alnum
    BY <1>0, <1>4, <1>5
  <2>4. ~(j <= last) => p \in i..j
    BY <1>0, <1>1, <1>4
  <2> QED
    BY <1>1, <2>2, <2>3, <2>4
<1>7. ends \in SUBSET (1..Len(text)) /\ last \in ends /\ \A j \in ends : j <= last
  BY <1>0, <1>4, <1>6
<1>8. Farthest(ends) = last
  <2> HIDE DEF ends
  <2> QED
    BY <1>0, <1>7, FarthestAt
<1>9. Word(i) = Piece(i, last)
  BY <1>8, Zenon DEF Word
<1>10. Len(Piece(i, last)) = last - i + 1
  BY <1>4, PieceIs
<1> QED
  BY <1>1, <1>4, <1>5, <1>9, <1>10 DEF p, last

LEMMA IdentSame ==
  ASSUME TextOK, NEW i \in Places, At(i) \in Letter
  PROVE  /\ LexIdent(i).next \in Places /\ LexIdent(i).next > i
         /\ LexIdent(i).next = i + Len(Word(i))
         /\ LexIdent(i).bad = FALSE
         /\ LexIdent(i).token = Token("ident", Word(i), <<>>)
         /\ i + Len(Word(i)) - 1 \in i..Len(text)
<1>0. Len(text) \in Nat /\ i \in Nat
  BY LengthNat DEF Places
<1>1. At(i) \in Alnum
  BY LetterSets
<1>2. /\ LastOf(i) \in i..Len(text) /\ LastOf(i) + 1 = Past(i, Alnum) /\ LastOf(i) + 1 \in Places
      /\ Word(i) = Piece(i, LastOf(i)) /\ Len(Word(i)) = LastOf(i) - i + 1
  BY <1>1, WordIs
<1>3. Spelled(i, LastOf(i) + 1) = Piece(i, LastOf(i))
  <2>1. LastOf(i) \in (i - 1)..Len(text)
    BY <1>0, <1>2
  <2> QED
    BY <2>1, PieceIs
<1>4. LexIdent(i) = Lexed(Token("ident", Word(i), <<>>), LastOf(i) + 1, FALSE)
  BY <1>2, <1>3 DEF LexIdent
<1>5. LexIdent(i).next = LastOf(i) + 1 /\ LexIdent(i).bad = FALSE /\ LexIdent(i).token = Token("ident", Word(i), <<>>)
  BY <1>4 DEF Lexed
<1>6. LastOf(i) + 1 = i + Len(Word(i)) /\ LastOf(i) + 1 > i /\ i + Len(Word(i)) - 1 = LastOf(i)
  BY <1>0, <1>2
<1> QED
  BY <1>2, <1>5, <1>6

(***************************************************************************)
(* Numbers.                                                                *)
(***************************************************************************)
LEMMA NumberEnds ==
  /\ <<>> \in NumberSuffixes
  /\ \A s \in NumberSuffixes : Range(s) \subseteq {"u", "l"}
<1>1. <<>> \in NumberSuffixes
  BY DEF NumberSuffixes
<1>2. ASSUME NEW s \in NumberSuffixes PROVE Range(s) \subseteq {"u", "l"}
  <2>1. \/ s = <<>> \/ s = <<"u">> \/ s = <<"l">> \/ s = <<"l", "l">> \/ s = <<"u", "l">> \/ s = <<"l", "u">>
        \/ s = <<"u", "l", "l">> \/ s = <<"l", "l", "u">>
    BY Zenon DEF NumberSuffixes
  <2>2. \A k \in DOMAIN s : s[k] \in {"u", "l"}
    BY <2>1
  <2> QED
    BY <2>2 DEF Range
<1> QED
  BY <1>1, <1>2, Zenon

Constant(base, digits, rest) == [base |-> base, digits |-> digits, rest |-> rest]
FirstBase(i) == IF At(i) = "0" THEN 8 ELSE 10
IsHex(i) == At(i) = "0" /\ At(i + 1) = "x"

LEMMA ConstantsAre ==
  ASSUME TextOK, NEW i \in Places, NEW e \in i..Len(text), NEW c
  PROVE  c \in Constants(Piece(i, e)) <=>
           \/ \E p \in (i + 2)..e : /\ IsHex(i) /\ (\A k \in (i + 2)..p : At(k) \in DigitsOf(16))
                                    /\ c = Constant(16, Piece(i + 2, p), Piece(p + 1, e))
           \/ \E p \in i..e : c = Constant(FirstBase(i), Piece(i, p), Piece(p + 1, e))
<1>0. Len(text) \in Nat /\ i \in Nat /\ i >= 1 /\ e \in (i - 1)..Len(text) /\ e \in Nat
  BY LengthNat DEF Places
<1> DEFINE w == Piece(i, e)
<1>1. Len(w) = e - i + 1 /\ \A k \in 1..(e - i + 1) : w[k] = At(i + k - 1)
  BY <1>0, PieceIs
<1>2. \A m \in 1..(Len(w) + 1), n \in 0..Len(w) : n >= m - 1 => SubSeq(w, m, n) = Piece(i + m - 1, i + n - 1)
  <2> TAKE m \in 1..(Len(w) + 1), n \in 0..Len(w)
  <2> HAVE n >= m - 1
  <2>1. m \in 1..(e - i + 2) /\ n \in (m - 1)..(e - i + 1)
    BY <1>0, <1>1
  <2> QED
    BY <1>0, <2>1, PieceFrom
<1> HIDE DEF w
<1> DEFINE H(k) == [base |-> 16, digits |-> SubSeq(w, 3, k), rest |-> SubSeq(w, k + 1, Len(w))]
           N(k) == [base |-> IF w[1] = "0" THEN 8 ELSE 10, digits |-> SubSeq(w, 1, k), rest |-> SubSeq(w, k + 1, Len(w))]
           Hex(k) == w[1] = "0" /\ w[2] = "x" /\ Range(SubSeq(w, 3, k)) \subseteq DigitsOf(16)
<1>3. c \in Constants(w) <=> (\E k \in 3..Len(w) : Hex(k) /\ c = H(k)) \/ (\E k \in 1..Len(w) : c = N(k))
  BY DEF Constants
<1>4. \A k \in 3..Len(w) : /\ SubSeq(w, 3, k) = Piece(i + 2, i + k - 1)
                           /\ SubSeq(w, k + 1, Len(w)) = Piece(i + k, e)
                           /\ w[1] = At(i) /\ w[2] = At(i + 1)
                           /\ Range(SubSeq(w, 3, k)) = {At(x) : x \in (i + 2)..(i + k - 1)}
  <2> TAKE k \in 3..Len(w)
  <2>1. /\ 3 \in 1..(Len(w) + 1) /\ k \in 0..Len(w) /\ k >= 3 - 1 /\ i + 3 - 1 = i + 2
        /\ k + 1 \in 1..(Len(w) + 1) /\ Len(w) \in 0..Len(w) /\ Len(w) >= (k + 1) - 1
        /\ i + (k + 1) - 1 = i + k /\ i + Len(w) - 1 = e
        /\ 1 \in 1..(e - i + 1) /\ 2 \in 1..(e - i + 1) /\ i + 1 - 1 = i /\ i + 2 - 1 = i + 1
        /\ i + 2 \in Places /\ i + k - 1 \in (i + 2 - 1)..Len(text)
    BY <1>0, <1>1 DEF Places
  <2>2. SubSeq(w, 3, k) = Piece(i + 2, i + k - 1)
    BY <1>2, <2>1
  <2>3. SubSeq(w, k + 1, Len(w)) = Piece(i + (k + 1) - 1, i + Len(w) - 1)
    BY <1>2, <2>1
  <2>4. w[1] = At(i) /\ w[2] = At(i + 1)
    BY <1>1, <2>1
  <2>5. Range(Piece(i + 2, i + k - 1)) = {At(x) : x \in (i + 2)..(i + k - 1)}
    <3>1. PICK a \in Places : a = i + 2
      BY <2>1
    <3>2. PICK b \in (a - 1)..Len(text) : b = i + k - 1
      BY <2>1, <3>1
    <3>3. Range(Piece(a, b)) = {At(x) : x \in a..b}
      BY PieceIs
    <3> QED
      BY <3>1, <3>2, <3>3
  <2> QED
    BY <2>1, <2>2, <2>3, <2>4, <2>5
<1>5. \A k \in 1..Len(w) : N(k) = Constant(FirstBase(i), Piece(i, i + k - 1), Piece(i + k, e))
  <2> TAKE k \in 1..Len(w)
  <2>1. /\ 1 \in 1..(Len(w) + 1) /\ k \in 0..Len(w) /\ k >= 1 - 1 /\ i + 1 - 1 = i
        /\ k + 1 \in 1..(Len(w) + 1) /\ Len(w) \in 0..Len(w) /\ Len(w) >= (k + 1) - 1
        /\ i + (k + 1) - 1 = i + k /\ i + Len(w) - 1 = e
        /\ 1 \in 1..(e - i + 1)
    BY <1>0, <1>1
  <2>2. SubSeq(w, 1, k) = Piece(i + 1 - 1, i + k - 1)
    BY <1>2, <2>1
  <2>3. SubSeq(w, k + 1, Len(w)) = Piece(i + (k + 1) - 1, i + Len(w) - 1)
    BY <1>2, <2>1
  <2>4. w[1] = At(i)
    BY <1>1, <2>1
  <2> QED
    BY <2>1, <2>2, <2>3, <2>4 DEF Constant, FirstBase
<1>6. ASSUME NEW k \in 3..Len(w), Hex(k), c = H(k)
      PROVE  \E p \in (i + 2)..e : /\ IsHex(i) /\ (\A x \in (i + 2)..p : At(x) \in DigitsOf(16))
                                   /\ c = Constant(16, Piece(i + 2, p), Piece(p + 1, e))
  <2>1. i + k - 1 \in (i + 2)..e /\ (i + k - 1) + 1 = i + k
    BY <1>0, <1>1
  <2>2. c = Constant(16, Piece(i + 2, i + k - 1), Piece((i + k - 1) + 1, e))
    BY <1>4, <1>6, <2>1 DEF Constant
  <2>3. IsHex(i) /\ \A x \in (i + 2)..(i + k - 1) : At(x) \in DigitsOf(16)
    BY <1>4, <1>6 DEF IsHex
  <2> QED
    BY <2>1, <2>2, <2>3
<1>7. ASSUME NEW p \in (i + 2)..e, IsHex(i), \A x \in (i + 2)..p : At(x) \in DigitsOf(16),
             c = Constant(16, Piece(i + 2, p), Piece(p + 1, e))
      PROVE  \E k \in 3..Len(w) : Hex(k) /\ c = H(k)
  <2> DEFINE k == p - i + 1
  <2>1. k \in 3..Len(w) /\ i + k - 1 = p /\ i + k = p + 1
    BY <1>0, <1>1
  <2> HIDE DEF k
  <2>2. Hex(k)
    BY <1>4, <1>7, <2>1 DEF IsHex
  <2>3. c = H(k)
    BY <1>4, <1>7, <2>1 DEF Constant
  <2> QED
    BY <2>1, <2>2, <2>3
<1>8. ASSUME NEW k \in 1..Len(w), c = N(k)
      PROVE  \E p \in i..e : c = Constant(FirstBase(i), Piece(i, p), Piece(p + 1, e))
  <2>1. i + k - 1 \in i..e /\ (i + k - 1) + 1 = i + k
    BY <1>0, <1>1
  <2>2. c = Constant(FirstBase(i), Piece(i, i + k - 1), Piece((i + k - 1) + 1, e))
    BY <1>5, <1>8, <2>1
  <2> QED
    BY <2>1, <2>2
<1>9. ASSUME NEW p \in i..e, c = Constant(FirstBase(i), Piece(i, p), Piece(p + 1, e))
      PROVE  \E k \in 1..Len(w) : c = N(k)
  <2> DEFINE k == p - i + 1
  <2>1. k \in 1..Len(w) /\ i + k - 1 = p /\ i + k = p + 1
    BY <1>0, <1>1
  <2> HIDE DEF k, N
  <2>2. c = N(k)
    BY <1>5, <1>9, <2>1
  <2> QED
    BY <2>1, <2>2
<1> HIDE DEF Hex, H, N
<1>11. c \in Constants(w) <=>
           \/ \E p \in (i + 2)..e : /\ IsHex(i) /\ (\A k \in (i + 2)..p : At(k) \in DigitsOf(16))
                                    /\ c = Constant(16, Piece(i + 2, p), Piece(p + 1, e))
           \/ \E p \in i..e : c = Constant(FirstBase(i), Piece(i, p), Piece(p + 1, e))
  BY <1>3, <1>6, <1>7, <1>8, <1>9, Zenon
<1> QED
  BY <1>11 DEF w

Parsed(base, body) ==
  IF Range(body) \subseteq DigitsOf(base) /\ ReadIn(base, body) <= LLongMax
  THEN [ok |-> TRUE, value |-> ReadIn(base, body)] ELSE [ok |-> FALSE, value |-> 0]

LEMMA ParsedIs ==
  ASSUME NEW digits
  PROVE  /\ Len(digits) > 2 /\ digits[2] = "x" =>
              ParseIntegerLiteral(digits) = Parsed(16, SubSeq(digits, 3, Len(digits)))
         /\ ~(Len(digits) > 2 /\ digits[2] = "x") /\ digits[1] = "0" =>
              ParseIntegerLiteral(digits) = Parsed(8, digits)
         /\ ~(Len(digits) > 2 /\ digits[2] = "x") /\ digits[1] /= "0" =>
              ParseIntegerLiteral(digits) = Parsed(10, digits)
<1> DEFINE base == CASE Len(digits) > 2 /\ digits[2] = "x" -> 16
                     [] digits[1] = "0" /\ ~(Len(digits) > 2 /\ digits[2] = "x") -> 8
                     [] OTHER -> 10
           body == IF base = 16 THEN SubSeq(digits, 3, Len(digits)) ELSE digits
<1>1. ParseIntegerLiteral(digits) = Parsed(base, body)
  BY Zenon DEF ParseIntegerLiteral, Parsed
<1>2. CASE Len(digits) > 2 /\ digits[2] = "x"
  <2>1. base = 16 /\ body = SubSeq(digits, 3, Len(digits))
    BY <1>2
  <2> HIDE DEF base, body
  <2> QED
    BY <1>1, <1>2, <2>1, Zenon
<1>3. CASE ~(Len(digits) > 2 /\ digits[2] = "x") /\ digits[1] = "0"
  <2>1. base = 8
    BY <1>3
  <2>2. body = digits
    <3> HIDE DEF base
    <3> QED
      BY <2>1
  <2> HIDE DEF base, body
  <2> QED
    BY <1>1, <1>3, <2>1, <2>2, Zenon
<1>4. CASE ~(Len(digits) > 2 /\ digits[2] = "x") /\ digits[1] /= "0"
  <2>1. base = 10
    BY <1>4
  <2>2. body = digits
    <3> HIDE DEF base
    <3> QED
      BY <2>1
  <2> HIDE DEF base, body
  <2> QED
    BY <1>1, <1>4, <2>1, <2>2, Zenon
<1> QED
  BY <1>2, <1>3, <1>4, Zenon

(* The digits at s up to before end are a number of this base, in range. *)
InRange(base, s, end) ==
  /\ s < end /\ Range(Piece(s, end - 1)) \subseteq DigitsOf(base)
  /\ ReadIn(base, Piece(s, end - 1)) <= LLongMax

(* What decides about the number at i: its base, and where its digits are. *)
Shape(i, base, s, end) ==
  LET all == Constant(base, Piece(s, end - 1), Piece(end, LastOf(i)))
  IN  /\ end \in (i + 1)..(LastOf(i) + 1)
      /\ end <= LastOf(i) => At(end) \in Letter \ DigitsOf(base)
      /\ IsHex(i) => base = 16
      /\ InRange(base, s, end) => all \in Constants(Word(i))
      /\ \A c \in LegalNumbers(Word(i)) : c = all /\ InRange(base, s, end)
      /\ LexNumber(i).next = Past(end, {"u", "l"})
      /\ InRange(base, s, end) => /\ LexNumber(i).bad = FALSE
                                  /\ LexNumber(i).token = Token("number", <<>>, <<ReadIn(base, Piece(s, end - 1))>>)
      /\ ~InRange(base, s, end) => LexNumber(i).bad = TRUE

LEMMA LegalIs ==
  ASSUME TextOK, NEW w, NEW c
  PROVE  c \in LegalNumbers(w) <=>
           /\ c \in Constants(w) /\ Range(c.digits) \subseteq DigitsOf(c.base)
           /\ ReadIn(c.base, c.digits) <= LLongMax /\ c.rest \in NumberSuffixes
BY Zenon DEF LegalNumbers

(* No digit is at the beginning of a suffix. *)
LEMMA SuffixBegins ==
  ASSUME TextOK, NEW p \in Places, NEW e \in p..Len(text), Piece(p, e) \in NumberSuffixes
  PROVE  At(p) \in {"u", "l"}
<1>0. Len(text) \in Nat /\ p \in Nat
  BY LengthNat DEF Places
<1>1. e \in (p - 1)..Len(text) /\ p \in p..e
  BY <1>0
<1>2. Range(Piece(p, e)) = {At(k) : k \in p..e}
  BY <1>1, PieceIs
<1>3. Range(Piece(p, e)) \subseteq {"u", "l"}
  BY NumberEnds
<1> QED
  BY <1>1, <1>2, <1>3

LEMMA ParsedFields ==
  ASSUME NEW base, NEW body
  PROVE  /\ Range(body) \subseteq DigitsOf(base) /\ ReadIn(base, body) <= LLongMax =>
              Parsed(base, body).ok = TRUE /\ Parsed(base, body).value = ReadIn(base, body)
         /\ ~(Range(body) \subseteq DigitsOf(base) /\ ReadIn(base, body) <= LLongMax) => Parsed(base, body).ok = FALSE
<1>1. ASSUME Range(body) \subseteq DigitsOf(base) /\ ReadIn(base, body) <= LLongMax
      PROVE  Parsed(base, body).ok = TRUE /\ Parsed(base, body).value = ReadIn(base, body)
  <2>1. Parsed(base, body) = [ok |-> TRUE, value |-> ReadIn(base, body)]
    BY <1>1, Zenon DEF Parsed
  <2> QED
    BY <2>1
<1>2. ASSUME ~(Range(body) \subseteq DigitsOf(base) /\ ReadIn(base, body) <= LLongMax) PROVE Parsed(base, body).ok = FALSE
  <2>1. Parsed(base, body) = [ok |-> FALSE, value |-> 0]
    BY <1>2, Zenon DEF Parsed
  <2> QED
    BY <2>1
<1> QED
  BY <1>1, <1>2

LEMMA NumberParts ==
  ASSUME NEW i
  PROVE  LET end == IF IsHex(i) THEN Past(i + 2, DigitsOf(16)) ELSE Past(i, DigitsOf(10))
             literal == ParseIntegerLiteral(Spelled(i, end))
         IN  /\ LexNumber(i).token = Token("number", <<>>, <<literal.value>>)
             /\ LexNumber(i).next = Past(end, {"u", "l"})
             /\ literal.ok = FALSE => LexNumber(i).bad = TRUE
             /\ IsHex(i) /\ end = i + 2 => LexNumber(i).bad = TRUE
             /\ IsHex(i) /\ end /= i + 2 /\ literal.ok = TRUE => LexNumber(i).bad = FALSE
             /\ ~IsHex(i) /\ (At(i) = "0" => Range(Spelled(i, end)) \subseteq DigitsOf(8)) /\ literal.ok = TRUE =>
                  LexNumber(i).bad = FALSE
<1> DEFINE hex == At(i) = "0" /\ At(i + 1) = "x"
           end == IF hex THEN Past(i + 2, DigitsOf(16)) ELSE Past(i, DigitsOf(10))
           literal == ParseIntegerLiteral(Spelled(i, end))
           octal == Range(Spelled(i, end)) \subseteq DigitsOf(8)
           malformed == IF hex THEN end = i + 2 ELSE At(i) = "0" /\ ~octal
<1>1. LexNumber(i) = [token |-> Token("number", <<>>, <<literal.value>>), next |-> Past(end, {"u", "l"}),
                      bad |-> malformed \/ ~literal.ok]
  BY Zenon DEF LexNumber, Lexed
<1>9. (literal.ok = FALSE => ~literal.ok) /\ (literal.ok = TRUE => literal.ok)
  BY Zenon
<1> DEFINE ok == literal.ok
<1>10. (malformed \/ ~ok) = TRUE \/ (malformed \/ ~ok) = FALSE
  BY Zenon
<1> HIDE DEF end, literal, octal
<1>11. (literal.ok = FALSE) \/ (hex /\ end = i + 2) => (malformed \/ ~literal.ok) = TRUE
  BY <1>9, Zenon
<1>12. ~malformed /\ literal.ok = TRUE => (malformed \/ ~literal.ok) = FALSE
  BY <1>9, Zenon
<1>13. PICK b : b = (malformed \/ ~literal.ok)
  BY Zenon
<1>14. LexNumber(i) = [token |-> Token("number", <<>>, <<literal.value>>), next |-> Past(end, {"u", "l"}), bad |-> b]
  BY <1>1, <1>13, Zenon
<1>15. /\ LexNumber(i).token = Token("number", <<>>, <<literal.value>>) /\ LexNumber(i).next = Past(end, {"u", "l"})
       /\ LexNumber(i).bad = b
  BY <1>14
<1>3. literal.ok = FALSE => LexNumber(i).bad = TRUE
  BY <1>11, <1>13, <1>15, Zenon
<1>4. hex /\ end = i + 2 => LexNumber(i).bad = TRUE
  BY <1>11, <1>13, <1>15, Zenon
<1>5. hex /\ end /= i + 2 /\ literal.ok = TRUE => LexNumber(i).bad = FALSE
  BY <1>12, <1>13, <1>15, Zenon
<1>6. ~hex /\ (At(i) = "0" => octal) /\ literal.ok = TRUE => LexNumber(i).bad = FALSE
  BY <1>12, <1>13, <1>15, Zenon
<1>7. IsHex(i) <=> hex
  BY DEF IsHex
<1>8. end = IF IsHex(i) THEN Past(i + 2, DigitsOf(16)) ELSE Past(i, DigitsOf(10))
  BY <1>7 DEF end
<1> QED
  BY <1>3, <1>4, <1>5, <1>6, <1>7, <1>8, <1>15, Zenon DEF literal, octal

LEMMA DecimalShape ==
  ASSUME TextOK, NEW i \in Places, At(i) \in DigitsOf(10), ~IsHex(i)
  PROVE  Shape(i, FirstBase(i), i, Past(i, DigitsOf(10)))
<1> DEFINE p == Past(i, DigitsOf(10))
           e == LastOf(i)
           b == FirstBase(i)
           all == Constant(b, Piece(i, p - 1), Piece(p, e))
<1>0. Len(text) \in Nat /\ i \in Nat /\ i >= 1
  BY LengthNat DEF Places
<1>1. /\ p \in i..(Len(text) + 1) /\ p \in Places /\ At(p) \notin DigitsOf(10)
      /\ \A k \in i..(p - 1) : At(k) \in DigitsOf(10)
  BY PastIs, DigitSets
<1>2. /\ e \in i..Len(text) /\ e + 1 \in Places
      /\ \A k \in i..e : At(k) \in Alnum
      /\ At(e + 1) \notin Alnum
      /\ Word(i) = Piece(i, e)
  <2>1. At(i) \in Alnum
    BY LetterSets
  <2> QED
    BY <2>1, WordIs
<1>3. b = (IF At(i) = "0" THEN 8 ELSE 10) /\ (b = 8 \/ b = 10) /\ DigitsOf(b) \subseteq DigitsOf(10)
  BY LetterSets DEF FirstBase
<1> HIDE DEF p, e, b
<1>4. p \in (i + 1)..(e + 1)
  <2>1. p /= i
    BY <1>1
  <2>2. ~(p > e + 1)
    <3> SUFFICES ASSUME p > e + 1 PROVE FALSE
      OBVIOUS
    <3>1. e + 1 \in i..(p - 1)
      BY <1>0, <1>1, <1>2
    <3>2. At(e + 1) \in Alnum
      BY <1>1, <3>1, LetterSets
    <3> QED
      BY <1>2, <3>2
  <2> QED
    BY <1>0, <1>1, <1>2, <2>1, <2>2
<1>5. p <= e => At(p) \in Letter \ DigitsOf(b)
  <2> HAVE p <= e
  <2>1. At(p) \in Alnum
    BY <1>0, <1>1, <1>2, <1>4
  <2>2. At(p) \in Letter
    BY <1>1, <2>1, LetterSets
  <2> QED
    BY <1>1, <1>3, <2>2
<1>6. p - 1 \in i..e /\ (p - 1) + 1 = p /\ i < p
  BY <1>0, <1>1, <1>2, <1>4
<1>7. all \in Constants(Word(i))
  <2>1. \E x \in i..e : all = Constant(FirstBase(i), Piece(i, x), Piece(x + 1, e))
    BY <1>6 DEF b
  <2> HIDE DEF all
  <2>2. all \in Constants(Piece(i, e))
    BY <1>2, <2>1, ConstantsAre
  <2> QED
    BY <1>2, <2>2
<1>8. ASSUME NEW c \in LegalNumbers(Word(i)) PROVE c = all /\ InRange(b, i, p)
  <2>1. /\ c \in Constants(Piece(i, e)) /\ Range(c.digits) \subseteq DigitsOf(c.base)
        /\ ReadIn(c.base, c.digits) <= LLongMax /\ c.rest \in NumberSuffixes
    BY <1>2, <1>8, LegalIs
  <2>2. PICK x \in i..e : c = Constant(b, Piece(i, x), Piece(x + 1, e))
    BY <1>2, <2>1, ConstantsAre DEF b
  <2>3. c.digits = Piece(i, x) /\ c.base = b /\ c.rest = Piece(x + 1, e)
    BY <2>2 DEF Constant
  <2>4. x \in (i - 1)..Len(text)
    BY <1>0, <1>2
  <2>5. Range(Piece(i, x)) = {At(k) : k \in i..x}
    BY <2>4, PieceIs
  <2>6. \A k \in i..x : At(k) \in DigitsOf(10)
    BY <1>3, <2>1, <2>3, <2>5
  <2>7. x < p
    BY <1>0, <1>1, <1>2, <2>6
  <2>8. ~(x < p - 1)
    <3> SUFFICES ASSUME x < p - 1 PROVE FALSE
      OBVIOUS
    <3>1. x + 1 \in Places /\ e \in (x + 1)..Len(text) /\ x + 1 \in i..(p - 1)
      BY <1>0, <1>1, <1>2, <1>4 DEF Places
    <3>2. At(x + 1) \in {"u", "l"}
      BY <2>1, <2>3, <3>1, SuffixBegins
    <3>3. At(x + 1) \in DigitsOf(10)
      BY <1>1, <3>1
    <3> QED
      BY <3>2, <3>3, DigitSets
  <2>9. x = p - 1
    BY <1>0, <1>1, <1>2, <2>7, <2>8
  <2>10. c = all
    BY <1>6, <2>2, <2>9
  <2>11. InRange(b, i, p)
    BY <1>6, <2>1, <2>3, <2>9, Zenon DEF InRange
  <2> QED
    BY <2>10, <2>11
<1> DEFINE digits == Piece(i, p - 1)
           l == LexNumber(i)
<1>9. /\ Spelled(i, p) = digits /\ Len(digits) = p - i /\ digits[1] = At(i)
      /\ Len(digits) > 2 => digits[2] = At(i + 1)
  <2>1. PICK y \in (i - 1)..Len(text) : y = p - 1
    BY <1>0, <1>2, <1>6
  <2>2. /\ Len(Piece(i, y)) = y - i + 1 /\ Spelled(i, y + 1) = Piece(i, y)
        /\ \A k \in 1..(y - i + 1) : Piece(i, y)[k] = At(i + k - 1)
    BY PieceIs
  <2>3. y + 1 = p /\ y - i + 1 = p - i /\ 1 \in 1..(y - i + 1) /\ i + 1 - 1 = i /\ i + 2 - 1 = i + 1
    BY <1>0, <1>6, <2>1
  <2>4. p - i > 2 => 2 \in 1..(y - i + 1)
    BY <1>0, <1>1, <2>1, <2>3
  <2> QED
    BY <2>1, <2>2, <2>3, <2>4
<1>10. ~(Len(digits) > 2 /\ digits[2] = "x")
  <2> SUFFICES ASSUME Len(digits) > 2, At(i + 1) = "x" PROVE FALSE
    BY <1>9
  <2>1. i + 1 \in i..(p - 1)
    BY <1>0, <1>6, <1>9
  <2>2. At(i + 1) \in DigitsOf(10)
    BY <1>1, <2>1
  <2> QED
    BY <2>2, DigitSets
<1>11. ParseIntegerLiteral(digits) = Parsed(b, digits)
  <2> HIDE DEF digits
  <2>1. CASE At(i) = "0"
    <3>1. b = 8 /\ digits[1] = "0"
      BY <1>3, <1>9, <2>1
    <3> QED
      BY <1>10, <3>1, ParsedIs
  <2>2. CASE At(i) /= "0"
    <3>1. b = 10 /\ digits[1] /= "0"
      BY <1>3, <1>9, <2>2
    <3> QED
      BY <1>10, <3>1, ParsedIs
  <2> QED
    BY <2>1, <2>2
<1> DEFINE literal == Parsed(b, digits)
<1>12. /\ l.token = Token("number", <<>>, <<literal.value>>)
       /\ l.next = Past(p, {"u", "l"})
       /\ literal.ok = FALSE => l.bad = TRUE
       /\ (At(i) = "0" => Range(digits) \subseteq DigitsOf(8)) /\ literal.ok = TRUE => l.bad = FALSE
  <2> HIDE DEF l, digits
  <2>1. p = IF IsHex(i) THEN Past(i + 2, DigitsOf(16)) ELSE Past(i, DigitsOf(10))
    BY DEF p
  <2> QED
    BY <1>9, <1>11, <2>1, NumberParts, Zenon DEF l
<1>13. InRange(b, i, p) <=> Range(digits) \subseteq DigitsOf(b) /\ ReadIn(b, digits) <= LLongMax
  BY <1>6, Zenon DEF InRange
<1>14. InRange(b, i, p) => l.bad = FALSE /\ l.token = Token("number", <<>>, <<ReadIn(b, digits)>>)
  <2> HAVE InRange(b, i, p)
  <2> HIDE DEF digits, l, literal
  <2>1. literal.ok = TRUE /\ literal.value = ReadIn(b, digits)
    BY <1>13, ParsedFields, Zenon DEF literal
  <2>2. At(i) = "0" => Range(digits) \subseteq DigitsOf(8)
    BY <1>3, <1>13
  <2> QED
    BY <1>12, <2>1, <2>2
<1>15. ~InRange(b, i, p) => l.bad = TRUE
  <2> HAVE ~InRange(b, i, p)
  <2> HIDE DEF digits, l, literal
  <2>1. literal.ok = FALSE
    BY <1>13, ParsedFields, Zenon DEF literal
  <2> QED
    BY <1>12, <2>1
<1>16. l.next = Past(p, {"u", "l"})
  BY <1>12
<1> QED
  BY <1>4, <1>5, <1>7, <1>8, <1>14, <1>15, <1>16, Zenon DEF Shape, p, e, b

LEMMA HexShape ==
  ASSUME TextOK, NEW i \in Places, IsHex(i)
  PROVE  Shape(i, 16, i + 2, Past(i + 2, DigitsOf(16)))
<1> DEFINE p == Past(i + 2, DigitsOf(16))
           e == LastOf(i)
           all == Constant(16, Piece(i + 2, p - 1), Piece(p, e))
<1>0. Len(text) \in Nat /\ i \in Nat /\ i >= 1
  BY LengthNat DEF Places
<1>h. At(i) = "0" /\ At(i + 1) = "x"
  BY DEF IsHex
<1>k. i + 1 \in Places /\ (i + 1) + 1 = i + 2 /\ i \in 1..Len(text)
  BY <1>0, <1>h, EndIs
<1>l. i + 2 \in Places /\ i + 1 \in 1..Len(text)
  <2>1. PICK k \in Places : k = i + 1
    BY <1>k
  <2>2. k + 1 \in Places /\ k \in 1..Len(text)
    BY <1>h, <2>1, EndIs
  <2> QED
    BY <1>k, <2>1, <2>2
<1>1. /\ p \in (i + 2)..(Len(text) + 1) /\ p \in Places /\ At(p) \notin DigitsOf(16)
      /\ \A k \in (i + 2)..(p - 1) : At(k) \in DigitsOf(16)
  <2>1. PICK n \in Places : n = i + 2
    BY <1>l
  <2>2. "end" \notin DigitsOf(16)
    BY DigitSets
  <2> QED
    BY <2>1, <2>2, PastIs
<1>2. /\ e \in i..Len(text) /\ e + 1 \in Places
      /\ \A k \in i..e : At(k) \in Alnum
      /\ At(e + 1) \notin Alnum
      /\ Word(i) = Piece(i, e)
  <2>1. At(i) \in Alnum
    BY <1>h, LetterSets
  <2> QED
    BY <2>1, WordIs
<1> HIDE DEF p, e
<1>3. At(i + 1) \in Alnum
  BY <1>h, LetterSets
<1>4. p \in (i + 1)..(e + 1)
  <2>1. ~(p > e + 1)
    <3> SUFFICES ASSUME p > e + 1 PROVE FALSE
      OBVIOUS
    <3>1. e + 1 = i + 1 \/ e + 1 \in (i + 2)..(p - 1)
      BY <1>0, <1>1, <1>2
    <3>2. At(e + 1) \in Alnum
      BY <1>1, <1>3, <3>1, LetterSets
    <3> QED
      BY <1>2, <3>2
  <2> QED
    BY <1>0, <1>1, <1>2, <2>1
<1>5. p <= e => At(p) \in Letter \ DigitsOf(16)
  <2> HAVE p <= e
  <2>1. At(p) \in Alnum
    BY <1>0, <1>1, <1>2, <1>4
  <2> QED
    BY <1>1, <2>1, LetterSets
<1>6. p - 1 \in (i + 1)..e /\ (p - 1) + 1 = p /\ (i + 2 < p => p - 1 \in (i + 2)..e)
  BY <1>0, <1>1, <1>2, <1>4
<1>7. i + 2 < p => all \in Constants(Word(i))
  <2> HAVE i + 2 < p
  <2>1. \E x \in (i + 2)..e : /\ IsHex(i) /\ (\A k \in (i + 2)..x : At(k) \in DigitsOf(16))
                              /\ all = Constant(16, Piece(i + 2, x), Piece(x + 1, e))
    BY <1>1, <1>6
  <2> HIDE DEF all
  <2>2. all \in Constants(Piece(i, e))
    BY <1>2, <2>1, ConstantsAre
  <2> QED
    BY <1>2, <2>2
<1>8. ASSUME NEW c \in LegalNumbers(Word(i)) PROVE c = all /\ InRange(16, i + 2, p)
  <2>1. /\ c \in Constants(Piece(i, e)) /\ Range(c.digits) \subseteq DigitsOf(c.base)
        /\ ReadIn(c.base, c.digits) <= LLongMax /\ c.rest \in NumberSuffixes
    BY <1>2, <1>8, LegalIs
  <2>2. \/ \E x \in (i + 2)..e : /\ IsHex(i) /\ (\A k \in (i + 2)..x : At(k) \in DigitsOf(16))
                                 /\ c = Constant(16, Piece(i + 2, x), Piece(x + 1, e))
        \/ \E x \in i..e : c = Constant(FirstBase(i), Piece(i, x), Piece(x + 1, e))
    BY <1>2, <2>1, ConstantsAre
  <2>3. ASSUME NEW x \in i..e, c = Constant(FirstBase(i), Piece(i, x), Piece(x + 1, e)) PROVE FALSE
    <3>1. c.digits = Piece(i, x) /\ c.base = 8 /\ c.rest = Piece(x + 1, e)
      BY <1>h, <2>3 DEF Constant, FirstBase
    <3>2. x \in (i - 1)..Len(text)
      BY <1>0, <1>2
    <3>3. Range(Piece(i, x)) = {At(k) : k \in i..x}
      BY <3>2, PieceIs
    <3>4. x = i
      <4> SUFFICES ASSUME x /= i PROVE FALSE
        OBVIOUS
      <4>1. i + 1 \in i..x
        BY <1>0, <1>2
      <4>2. At(i + 1) \in DigitsOf(8)
        BY <2>1, <3>1, <3>3, <4>1
      <4> QED
        BY <1>h, <4>2, DigitSets
    <3>5. i + 1 <= e
      BY <1>0, <1>2, <1>3
    <3>6. i + 1 \in Places /\ e \in (i + 1)..Len(text) /\ Piece(i + 1, e) \in NumberSuffixes
      BY <1>0, <1>2, <1>k, <2>1, <3>1, <3>4, <3>5
    <3>7. At(i + 1) \in {"u", "l"}
      BY <3>6, SuffixBegins
    <3> QED
      BY <1>h, <3>7
  <2>4. PICK x \in (i + 2)..e : /\ \A k \in (i + 2)..x : At(k) \in DigitsOf(16)
                                /\ c = Constant(16, Piece(i + 2, x), Piece(x + 1, e))
    BY <2>2, <2>3
  <2>5. c.digits = Piece(i + 2, x) /\ c.base = 16 /\ c.rest = Piece(x + 1, e)
    BY <2>4 DEF Constant
  <2>6. x < p
    BY <1>0, <1>1, <1>2, <2>4
  <2>7. ~(x < p - 1)
    <3> SUFFICES ASSUME x < p - 1 PROVE FALSE
      OBVIOUS
    <3>1. x + 1 \in Places /\ e \in (x + 1)..Len(text) /\ x + 1 \in (i + 2)..(p - 1)
      BY <1>0, <1>1, <1>2, <1>4 DEF Places
    <3>2. At(x + 1) \in {"u", "l"}
      BY <2>1, <2>5, <3>1, SuffixBegins
    <3>3. At(x + 1) \in DigitsOf(16)
      BY <1>1, <3>1
    <3> QED
      BY <3>2, <3>3, DigitSets
  <2>8. x = p - 1 /\ i + 2 < p
    BY <1>0, <1>1, <1>2, <2>6, <2>7
  <2>9. c = all
    BY <1>6, <2>4, <2>8
  <2>10. InRange(16, i + 2, p)
    BY <1>6, <2>1, <2>5, <2>8, Zenon DEF InRange
  <2> QED
    BY <2>9, <2>10
<1> DEFINE body == Piece(i + 2, p - 1)
           l == LexNumber(i)
           literal == Parsed(16, body)
<1>9. i + 2 < p => ParseIntegerLiteral(Spelled(i, p)) = literal
  <2> HAVE i + 2 < p
  <2>1. PICK y \in (i - 1)..Len(text) : y = p - 1
    BY <1>0, <1>2, <1>6
  <2> DEFINE digits == Piece(i, y)
  <2>2. /\ Len(digits) = y - i + 1 /\ Spelled(i, y + 1) = digits
        /\ \A k \in 1..(y - i + 1) : digits[k] = At(i + k - 1)
    BY PieceIs
  <2>3. /\ y + 1 = p /\ i + 2 - 1 = i + 1 /\ i + 3 - 1 = i + 2 /\ i + (y - i + 1) - 1 = p - 1
        /\ 2 \in 1..(y - i + 1) /\ y - i + 1 > 2
        /\ 3 \in 1..(y - i + 2) /\ y - i + 1 \in (3 - 1)..(y - i + 1)
    BY <1>0, <1>1, <2>1
  <2>4. SubSeq(digits, 3, y - i + 1) = Piece(i + 3 - 1, i + (y - i + 1) - 1)
    BY <2>3, PieceFrom
  <2> HIDE DEF digits
  <2>5. Len(digits) > 2 /\ digits[2] = "x" /\ SubSeq(digits, 3, Len(digits)) = body
    BY <1>h, <2>2, <2>3, <2>4
  <2>6. ParseIntegerLiteral(digits) = Parsed(16, SubSeq(digits, 3, Len(digits)))
    BY <2>5, ParsedIs
  <2> QED
    BY <2>2, <2>3, <2>5, <2>6
<1> DEFINE read == ParseIntegerLiteral(Spelled(i, p))
<1>12. /\ l.token = Token("number", <<>>, <<read.value>>)
       /\ l.next = Past(p, {"u", "l"})
       /\ read.ok = FALSE => l.bad = TRUE
       /\ p = i + 2 => l.bad = TRUE
       /\ p /= i + 2 /\ read.ok = TRUE => l.bad = FALSE
  <2> HIDE DEF l
  <2>1. p = IF IsHex(i) THEN Past(i + 2, DigitsOf(16)) ELSE Past(i, DigitsOf(10))
    BY DEF p
  <2> QED
    BY <2>1, NumberParts, Zenon DEF l
<1>13. InRange(16, i + 2, p) <=>
         i + 2 < p /\ Range(body) \subseteq DigitsOf(16) /\ ReadIn(16, body) <= LLongMax
  BY Zenon DEF InRange
<1> HIDE DEF body, l, literal, read
<1>n. i + 2 < p \/ p = i + 2
  BY <1>0, <1>1
<1>m. ~(i + 2 < p /\ p = i + 2)
  BY <1>0, <1>1
<1>14. InRange(16, i + 2, p) => l.bad = FALSE /\ l.token = Token("number", <<>>, <<ReadIn(16, body)>>)
  <2> HAVE InRange(16, i + 2, p)
  <2>1. literal.ok = TRUE /\ literal.value = ReadIn(16, body)
    BY <1>13, ParsedFields, Zenon DEF literal
  <2>2. read = literal
    BY <1>9, <1>13 DEF read
  <2>3. p /= i + 2
    BY <1>13, <1>m
  <2> QED
    BY <1>12, <2>1, <2>2, <2>3
<1>15. ~InRange(16, i + 2, p) => l.bad = TRUE
  <2> HAVE ~InRange(16, i + 2, p)
  <2>1. CASE p = i + 2
    BY <1>12, <2>1
  <2>2. CASE i + 2 < p
    <3>1. literal.ok = FALSE
      BY <1>13, <2>2, ParsedFields, Zenon DEF literal
    <3>2. read = literal
      BY <1>9, <2>2 DEF read
    <3> QED
      BY <1>12, <3>1, <3>2
  <2> QED
    BY <1>n, <2>1, <2>2
<1>16. InRange(16, i + 2, p) => all \in Constants(Word(i))
  <2> HIDE DEF all
  <2> QED
    BY <1>7, <1>13
<1> HIDE DEF all
<1>17. Shape(i, 16, i + 2, p)
  BY <1>4, <1>5, <1>8, <1>12, <1>14, <1>15, <1>16, Zenon DEF Shape, all, e, l, body
<1> QED
  BY <1>17 DEF p

(***************************************************************************)
(* A number.                                                               *)
(***************************************************************************)
NumberAgrees(i) ==
  LET l == LexNumber(i)
      numbers == LegalNumbers(Word(i))
  IN  /\ l.next \in Places /\ l.next > i
      /\ l.bad \in BOOLEAN
      /\ numbers /= {} => /\ l.bad = FALSE /\ l.next = LastOf(i) + 1
                          /\ \A c \in numbers : l.token = Token("number", <<>>, <<ReadIn(c.base, c.digits)>>)
      /\ numbers = {} => l.bad = TRUE \/ Tolerated(i)

LEMMA ShapeAgrees ==
  ASSUME TextOK, NEW i \in Places, At(i) \in DigitsOf(10), NEW b, NEW s, NEW p, Shape(i, b, s, p)
  PROVE  NumberAgrees(i)
<1> DEFINE e == LastOf(i)
           all == Constant(b, Piece(s, p - 1), Piece(p, e))
           l == LexNumber(i)
           ul == {"u", "l"}
<1>0. Len(text) \in Nat /\ i \in Nat /\ i >= 1
  BY LengthNat DEF Places
<1>2. /\ e \in i..Len(text) /\ e + 1 \in Places /\ e + 1 = Past(i, Alnum)
      /\ At(e + 1) \notin Alnum
      /\ Word(i) = Piece(i, e)
  <2>1. At(i) \in Alnum
    BY LetterSets
  <2> QED
    BY <2>1, WordIs
<1>1. /\ p \in (i + 1)..(e + 1)
      /\ p <= e => At(p) \in Letter \ DigitsOf(b)
      /\ IsHex(i) => b = 16
      /\ InRange(b, s, p) => all \in Constants(Word(i))
      /\ \A c \in LegalNumbers(Word(i)) : c = all /\ InRange(b, s, p)
      /\ l.next = Past(p, ul)
      /\ InRange(b, s, p) => l.bad = FALSE /\ l.token = Token("number", <<>>, <<ReadIn(b, Piece(s, p - 1))>>)
      /\ ~InRange(b, s, p) => l.bad = TRUE
  BY Zenon DEF Shape
<1>a. all.base = b /\ all.digits = Piece(s, p - 1) /\ all.rest = Piece(p, e)
  BY DEF Constant
<1> HIDE DEF e, all, l
<1>3. p \in Places
  BY <1>0, <1>1, <1>2 DEF Places
<1>4. Past(p, ul) \in p..(Len(text) + 1) /\ Past(p, ul) \in Places
  BY <1>3, PastIs
<1>5. l.next \in Places /\ l.next > i
  BY <1>0, <1>1, <1>2, <1>4
<1>6. l.bad \in BOOLEAN
  BY <1>1
<1>7. ASSUME NEW c \in LegalNumbers(Word(i))
      PROVE  /\ l.bad = FALSE /\ l.next = e + 1
             /\ l.token = Token("number", <<>>, <<ReadIn(c.base, c.digits)>>)
  <2>1. c = all /\ InRange(b, s, p)
    BY <1>1, <1>7
  <2>2. Piece(p, e) \in NumberSuffixes
    BY <1>a, <1>7, <2>1, LegalIs
  <2>3. \A k \in p..e : At(k) \in ul
    <3>1. e \in (p - 1)..Len(text)
      BY <1>0, <1>1, <1>2
    <3>2. Range(Piece(p, e)) = {At(k) : k \in p..e}
      BY <1>3, <3>1, PieceIs
    <3>3. Range(Piece(p, e)) \subseteq ul
      BY <2>2, NumberEnds
    <3> QED
      BY <3>2, <3>3
  <2>4. At(e + 1) \notin ul
    BY <1>2, LetterSets
  <2>5. e + 1 \in p..(Len(text) + 1) /\ (e + 1) - 1 = e
    BY <1>0, <1>1, <1>2
  <2>6. PICK n : n = e + 1
    OBVIOUS
  <2>7. Past(p, ul) = n
    BY <1>3, <2>3, <2>4, <2>5, <2>6, PastAt
  <2> QED
    BY <1>1, <1>a, <2>1, <2>6, <2>7
<1>8. ASSUME LegalNumbers(Word(i)) = {}, l.bad /= TRUE PROVE Tolerated(i)
  <2>1. InRange(b, s, p)
    BY <1>1, <1>8
  <2>2. all \in Constants(Word(i)) /\ Range(all.digits) \subseteq DigitsOf(all.base) /\ ReadIn(all.base, all.digits) <= LLongMax
    BY <1>1, <1>a, <2>1, Zenon DEF InRange
  <2>3. all.rest \notin NumberSuffixes
    BY <1>8, <2>2, LegalIs, Zenon
  <2>4. p <= e
    <3> SUFFICES ASSUME ~(p <= e) PROVE FALSE
      OBVIOUS
    <3>1. e = p - 1 /\ e \in (p - 1)..Len(text)
      BY <1>0, <1>1, <1>2
    <3>2. Len(Piece(p, e)) = e - p + 1 /\ Piece(p, e) \in Seq(DOMAIN Code)
      BY <1>3, <3>1, PieceIs
    <3>3. Len(Piece(p, e)) = 0
      BY <1>0, <1>1, <3>1, <3>2
    <3>4. Piece(p, e) = <<>>
      BY <3>2, <3>3
    <3> QED
      BY <1>a, <2>3, <3>4 DEF NumberSuffixes
  <2>5. Piece(p, e) /= <<>> /\ Head(Piece(p, e)) = At(p)
    <3>1. e \in p..Len(text)
      BY <1>0, <1>1, <1>2, <2>4
    <3> QED
      BY <1>3, <3>1, PieceTail
  <2>6. all.rest /= <<>> /\ Head(all.rest) \in Letter \ DigitsOf(all.base)
    BY <1>1, <1>a, <2>4, <2>5
  <2>7. Past(i, Alnum) - 1 = e
    BY DEF e, LastOf
  <2>8. all \in Constants(Piece(i, Past(i, Alnum) - 1))
    BY <1>2, <2>2, <2>7
  <2>9. At(i) = "0" /\ At(i + 1) = "x" => all.base = 16
    BY <1>1, <1>a DEF IsHex
  <2> QED
    BY <2>2, <2>6, <2>8, <2>9, Zenon DEF Tolerated
<1> QED
  BY <1>5, <1>6, <1>7, <1>8, Zenon DEF NumberAgrees, e, l

LEMMA NumberSame ==
  ASSUME TextOK, NEW i \in Places, At(i) \in DigitsOf(10)
  PROVE  NumberAgrees(i)
<1>1. CASE IsHex(i)
  BY <1>1, HexShape, ShapeAgrees
<1>2. CASE ~IsHex(i)
  BY <1>2, DecimalShape, ShapeAgrees
<1> QED
  BY <1>1, <1>2

(***************************************************************************)
(* Operators: the longest punctuator there is.                             *)
(***************************************************************************)
Known == Single \cup WithEqual

LEMMA KnownIs ==
  /\ Known = {"~", "(", ")", "{", "}", ",", ";", "?", ":", "[", "]", ".",
              "+", "&", "|", "<", ">", "-", "*", "/", "%", "^", "=", "!"}
  /\ Doubled \subseteq WithEqual /\ WithEqual \subseteq Known /\ {"<", ">"} \subseteq Doubled
  /\ "-" \in Doubled /\ "end" \notin Known
BY DEF Known, Single, Doubled, WithEqual

LEMMA SecondIs ==
  ASSUME NEW c, NEW d
  PROVE  d \in Second(c) <=> \/ d = c /\ c \in Doubled
                             \/ d = "=" /\ c \in WithEqual
                             \/ d = ">" /\ c = "-"
BY DEF Second

Punctuators1(w) == Len(w) = 1 /\ w[1] \in Known
Punctuators2(w) == Len(w) = 2 /\ w[1] \in Known /\ w[2] \in Second(w[1])
Punctuators3(w) == Len(w) = 3 /\ w[1] \in {"<", ">"} /\ w[2] = w[1] /\ w[3] = "="

LEMMA PunctuatorIs ==
  ASSUME NEW w \in Seq(DOMAIN Code)
  PROVE  w \in Punctuators <=> Punctuators1(w) \/ Punctuators2(w) \/ Punctuators3(w)
<1> DEFINE one == {<<"+">>, <<"-">>, <<"*">>, <<"/">>, <<"%">>, <<"&">>, <<"|">>, <<"^">>, <<"~">>, <<"!">>, <<"=">>,
                   <<"<">>, <<">">>, <<"(">>, <<")">>, <<"{">>, <<"}">>, <<"[">>, <<"]">>, <<",">>, <<";">>, <<"?">>,
                   <<":">>, <<".">>}
           two == {<<"+", "+">>, <<"-", "-">>, <<"-", ">">>, <<"&", "&">>, <<"|", "|">>, <<"=", "=">>,
                   <<"!", "=">>, <<"<", "=">>, <<">", "=">>, <<"<", "<">>, <<">", ">">>, <<"+", "=">>, <<"-", "=">>,
                   <<"*", "=">>, <<"/", "=">>, <<"%", "=">>, <<"&", "=">>, <<"|", "=">>, <<"^", "=">>}
           three == {<<"<", "<", "=">>, <<">", ">", "=">>}
<1>1. w \in Punctuators <=> w \in one \/ w \in two \/ w \in three
  BY Zenon DEF Punctuators
<1>2. ASSUME w \in one PROVE Punctuators1(w)
  <2>1. PICK c \in {"~", "(", ")", "{", "}", ",", ";", "?", ":", "[", "]", ".",
                  "+", "&", "|", "<", ">", "-", "*", "/", "%", "^", "=", "!"} : w = <<c>>
    BY <1>2, Zenon
  <2> QED
    BY <2>1, KnownIs DEF Punctuators1
<1>3. ASSUME w \in two PROVE Punctuators2(w)
  <2>1. Len(w) = 2
    BY <1>3
  <2>2. \/ w[2] = w[1] /\ w[1] \in Doubled
        \/ w[2] = "=" /\ w[1] \in WithEqual
        \/ w[2] = ">" /\ w[1] = "-"
    BY <1>3 DEF Doubled, WithEqual
  <2>3. w[1] \in Known
    BY <2>2, KnownIs
  <2> QED
    BY <2>1, <2>2, <2>3, SecondIs DEF Punctuators2
<1>4. ASSUME w \in three PROVE Punctuators3(w)
  BY <1>4 DEF Punctuators3
<1>5. ASSUME Punctuators1(w) PROVE w \in one
  <2>1. w = <<w[1]>>
    BY <1>5 DEF Punctuators1
  <2>2. w[1] \in {"~", "(", ")", "{", "}", ",", ";", "?", ":", "[", "]", ".",
                  "+", "&", "|", "<", ">", "-", "*", "/", "%", "^", "=", "!"}
    BY <1>5, KnownIs DEF Punctuators1
  <2> QED
    BY <2>1, <2>2
<1>6. ASSUME Punctuators2(w) PROVE w \in two
  <2>1. w = <<w[1], w[2]>>
    BY <1>6 DEF Punctuators2
  <2>2. \/ w[2] = w[1] /\ w[1] \in Doubled
        \/ w[2] = "=" /\ w[1] \in WithEqual
        \/ w[2] = ">" /\ w[1] = "-"
    BY <1>6, SecondIs DEF Punctuators2
  <2>3. CASE w[2] = w[1] /\ w[1] \in Doubled
    <3>1. w[1] \in {"+", "&", "|", "<", ">", "-"}
      BY <2>3 DEF Doubled
    <3> QED
      BY <2>1, <2>3, <3>1
  <2>4. CASE w[2] = "=" /\ w[1] \in WithEqual
    <3>1. w[1] \in {"+", "&", "|", "<", ">", "-", "*", "/", "%", "^", "=", "!"}
      BY <2>4 DEF Doubled, WithEqual
    <3> QED
      BY <2>1, <2>4, <3>1
  <2>5. CASE w[2] = ">" /\ w[1] = "-"
    BY <2>1, <2>5
  <2> QED
    BY <2>2, <2>3, <2>4, <2>5
<1>7. ASSUME Punctuators3(w) PROVE w \in three
  <2>1. w = <<w[1], w[2], w[3]>>
    BY <1>7 DEF Punctuators3
  <2> QED
    BY <1>7, <2>1 DEF Punctuators3
<1> HIDE DEF one, two, three
<1> QED
  BY <1>1, <1>2, <1>3, <1>4, <1>5, <1>6, <1>7

LEMMA PieceIsPunctuator ==
  ASSUME TextOK, NEW i \in 1..Len(text), NEW j \in i..Len(text)
  PROVE  Piece(i, j) \in Punctuators <=>
           \/ j = i /\ At(i) \in Known
           \/ j = i + 1 /\ At(i) \in Known /\ At(i + 1) \in Second(At(i))
           \/ j = i + 2 /\ At(i) \in {"<", ">"} /\ At(i + 1) = At(i) /\ At(i + 2) = "="
<1> DEFINE w == Piece(i, j)
<1>0. Len(text) \in Nat /\ i \in Nat /\ i >= 1 /\ j \in Nat /\ i \in Places /\ j \in (i - 1)..Len(text)
  BY LengthNat DEF Places
<1>1. /\ w \in Seq(DOMAIN Code) /\ Len(w) = j - i + 1
      /\ \A k \in 1..(j - i + 1) : w[k] = At(i + k - 1)
  BY <1>0, PieceIs
<1> HIDE DEF w
<1>2. i + 1 - 1 = i /\ i + 2 - 1 = i + 1 /\ i + 3 - 1 = i + 2
  BY <1>0
<1>3. w[1] = At(i) /\ (j >= i + 1 => w[2] = At(i + 1)) /\ (j >= i + 2 => w[3] = At(i + 2))
  <2>1. 1 \in 1..(j - i + 1) /\ (j >= i + 1 => 2 \in 1..(j - i + 1)) /\ (j >= i + 2 => 3 \in 1..(j - i + 1))
    BY <1>0
  <2> QED
    BY <1>1, <1>2, <2>1
<1>4. (Len(w) = 1 <=> j = i) /\ (Len(w) = 2 <=> j = i + 1) /\ (Len(w) = 3 <=> j = i + 2)
  BY <1>0, <1>1
<1>5. (j = i + 1 => j >= i + 1) /\ (j = i + 2 => j >= i + 1 /\ j >= i + 2)
  BY <1>0
<1>6. Punctuators1(w) <=> j = i /\ At(i) \in Known
  BY <1>3, <1>4 DEF Punctuators1
<1>7. Punctuators2(w) <=> j = i + 1 /\ At(i) \in Known /\ At(i + 1) \in Second(At(i))
  BY <1>3, <1>4, <1>5, Zenon DEF Punctuators2
<1>8. Punctuators3(w) <=> j = i + 2 /\ At(i) \in {"<", ">"} /\ At(i + 1) = At(i) /\ At(i + 2) = "="
  BY <1>3, <1>4, <1>5, Zenon DEF Punctuators3
<1> QED
  BY <1>1, <1>6, <1>7, <1>8, PunctuatorIs, Zenon DEF w

OperatorEnd(i) == Farthest({j \in i..Len(text) : Piece(i, j) \in Punctuators})
IsShift(i) == At(i) \in {"<", ">"} /\ At(i + 1) = At(i)

LEMMA OperatorEnds ==
  ASSUME TextOK, NEW i \in 1..Len(text)
  PROVE  /\ At(i) \notin Known => OperatorEnd(i) = 0
         /\ At(i) \in Known /\ At(i + 1) \notin Second(At(i)) => OperatorEnd(i) = i
         /\ At(i) \in Known /\ At(i + 1) \in Second(At(i)) =>
              /\ i + 1 \in 1..Len(text)
              /\ ~(IsShift(i) /\ At(i + 2) = "=") => OperatorEnd(i) = i + 1
              /\ IsShift(i) /\ At(i + 2) = "=" => OperatorEnd(i) = i + 2 /\ i + 2 \in 1..Len(text)
<1> DEFINE ends == {j \in i..Len(text) : Piece(i, j) \in Punctuators}
<1>0. Len(text) \in Nat /\ i \in Nat /\ i >= 1 /\ i + 1 \in Places /\ i \in i..Len(text) /\ (i + 1) + 1 = i + 2
  BY LengthNat DEF Places
<1>1. \A j \in i..Len(text) :
        j \in ends <=> \/ j = i /\ At(i) \in Known
                       \/ j = i + 1 /\ At(i) \in Known /\ At(i + 1) \in Second(At(i))
                       \/ j = i + 2 /\ IsShift(i) /\ At(i + 2) = "="
  BY PieceIsPunctuator DEF IsShift
<1>2. ends \in SUBSET (1..Len(text)) /\ \A j \in ends : j \in i..Len(text)
  BY <1>0
<1>3. OperatorEnd(i) = Farthest(ends)
  BY DEF OperatorEnd
<1> HIDE DEF ends
<1>4. IsShift(i) => At(i) \in Known /\ At(i + 1) \in Second(At(i))
  BY KnownIs, SecondIs DEF IsShift
<1>5. At(i) /= "end"
  BY AtIs
<1>6. ASSUME NEW j \in ends, \A x \in ends : x <= j PROVE OperatorEnd(i) = j
  BY <1>0, <1>2, <1>3, <1>6, FarthestAt
<1>7. CASE At(i) \notin Known
  <2>1. ends = {}
    BY <1>1, <1>2, <1>4, <1>7
  <2> QED
    BY <1>3, <1>7, <2>1, FarthestNone
<1>8. CASE At(i) \in Known /\ At(i + 1) \notin Second(At(i))
  <2>1. i \in ends /\ \A x \in ends : x = i
    BY <1>0, <1>1, <1>2, <1>4, <1>8
  <2>2. OperatorEnd(i) = i
    BY <1>0, <1>6, <2>1
  <2> QED
    BY <1>8, <2>2
<1>9. CASE At(i) \in Known /\ At(i + 1) \in Second(At(i))
  <2>1. At(i + 1) /= "end"
    BY <1>5, <1>9, SecondIs
  <2>2. i + 1 \in 1..Len(text) /\ i + 2 \in Places
    <3>1. PICK k \in Places : k = i + 1
      BY <1>0
    <3>2. k \in 1..Len(text) /\ k + 1 \in Places
      BY <2>1, <3>1, EndIs
    <3> QED
      BY <1>0, <3>1, <3>2
  <2>3. CASE ~(IsShift(i) /\ At(i + 2) = "=")
    <3>1. PICK k \in i..Len(text) : k = i + 1
      BY <1>0, <2>2
    <3>2. k \in ends
      BY <1>1, <1>9, <3>1
    <3>3. \A x \in ends : x <= k
      BY <1>0, <1>1, <1>2, <2>3, <3>1
    <3>4. OperatorEnd(i) = k
      BY <1>6, <3>2, <3>3
    <3> QED
      BY <1>9, <2>2, <2>3, <3>1, <3>4
  <2>4. CASE IsShift(i) /\ At(i + 2) = "="
    <3>1. PICK n \in Places : n = i + 2
      BY <2>2
    <3>2. n \in 1..Len(text)
      BY <2>4, <3>1, EndIs
    <3>3. n \in i..Len(text)
      BY <1>0, <3>1, <3>2
    <3>4. n \in ends
      BY <1>1, <2>4, <3>1, <3>3
    <3>5. \A x \in ends : x <= n
      BY <1>0, <1>1, <1>2, <3>1
    <3>6. OperatorEnd(i) = n
      BY <1>6, <3>4, <3>5
    <3> QED
      BY <1>9, <2>2, <2>4, <3>1, <3>2, <3>6
  <2> QED
    BY <2>3, <2>4
<1> QED
  BY <1>7, <1>8, <1>9

LEMMA OperatorKinds ==
  ASSUME NEW i
  PROVE  /\ At(i) \notin Known =>
              LexOperator(i) = [token |-> Token("operator", Spelled(i, Len(text) + 1), <<>>),
                                next |-> Len(text) + 1, bad |-> TRUE]
         /\ At(i) \in Known /\ At(i + 1) \notin Second(At(i)) =>
              LexOperator(i) = [token |-> Token("operator", Spelled(i, i + 1), <<>>), next |-> i + 1, bad |-> FALSE]
         /\ At(i) \in Known /\ At(i + 1) \in Second(At(i)) /\ ~(IsShift(i) /\ At(i + 2) = "=") =>
              LexOperator(i) = [token |-> Token("operator", Spelled(i, i + 2), <<>>), next |-> i + 2, bad |-> FALSE]
         /\ At(i) \in Known /\ At(i + 1) \in Second(At(i)) /\ IsShift(i) /\ At(i + 2) = "=" =>
              LexOperator(i) = [token |-> Token("operator", Spelled(i, i + 3), <<>>), next |-> i + 3, bad |-> FALSE]
<1> DEFINE known == At(i) \in Single \cup WithEqual
           shift == At(i) \in {"<", ">"} /\ At(i + 1) = At(i)
           next == CASE ~known -> Len(text) + 1
                     [] known /\ At(i + 1) \notin Second(At(i)) -> i + 1
                     [] OTHER -> IF shift /\ At(i + 2) = "=" THEN i + 3 ELSE i + 2
<1>1. LexOperator(i) = [token |-> Token("operator", Spelled(i, next), <<>>), next |-> next, bad |-> ~known]
  BY Zenon DEF LexOperator, Lexed
<1>2. (known <=> At(i) \in Known) /\ (shift <=> IsShift(i))
  BY DEF Known, IsShift
<1>3. /\ ~known => next = Len(text) + 1
      /\ known /\ At(i + 1) \notin Second(At(i)) => next = i + 1
      /\ known /\ At(i + 1) \in Second(At(i)) /\ ~(shift /\ At(i + 2) = "=") => next = i + 2
      /\ known /\ At(i + 1) \in Second(At(i)) /\ shift /\ At(i + 2) = "=" => next = i + 3
  <2> HIDE DEF shift
  <2> QED
    OBVIOUS
<1>4. (known => (~known) = FALSE) /\ (~known => (~known) = TRUE)
  BY Zenon
<1> HIDE DEF known, shift, next
<1>5. PICK b : b = (~known)
  BY Zenon
<1>6. /\ LexOperator(i) = [token |-> Token("operator", Spelled(i, next), <<>>), next |-> next, bad |-> b]
      /\ known => b = FALSE
      /\ ~known => b = TRUE
  BY <1>1, <1>4, <1>5, Zenon
<1> QED
  BY <1>2, <1>3, <1>6, Zenon

(* The operator lexed is the longest there is; with none, it is reported. *)
OperatorAgrees(i) ==
  LET l == LexOperator(i)
      end == OperatorEnd(i)
  IN  /\ l.next \in Places /\ l.next > i
      /\ end = 0 => l.bad = TRUE
      /\ end /= 0 => /\ end \in i..Len(text) /\ l.bad = FALSE /\ l.next = end + 1
                     /\ l.token = Token("operator", Piece(i, end), <<>>)

LEMMA OperatorSame ==
  ASSUME TextOK, NEW i \in 1..Len(text)
  PROVE  OperatorAgrees(i)
<1>0. Len(text) \in Nat /\ i \in Nat /\ i >= 1 /\ i \in Places /\ Len(text) + 1 \in Places
  BY LengthNat DEF Places
<1> DEFINE l == LexOperator(i)
<1>1. CASE At(i) \notin Known
  <2>1. LexOperator(i) = [token |-> Token("operator", Spelled(i, Len(text) + 1), <<>>),
                                next |-> Len(text) + 1, bad |-> TRUE]
    BY <1>1, OperatorKinds
  <2>2. l.next = Len(text) + 1 /\ l.bad = TRUE
    BY <2>1
  <2>3. OperatorEnd(i) = 0
    BY <1>1, OperatorEnds
  <2> HIDE DEF l
  <2>4. l.next \in Places /\ l.next > i
    BY <1>0, <2>2
  <2> QED
    BY <2>2, <2>3, <2>4, Zenon DEF OperatorAgrees, l
<1>2. ASSUME NEW e \in i..Len(text), NEW n, n = e + 1, OperatorEnd(i) = e,
             l = [token |-> Token("operator", Spelled(i, n), <<>>), next |-> n, bad |-> FALSE]
      PROVE  OperatorAgrees(i)
  <2>1. l.token = Token("operator", Spelled(i, n), <<>>) /\ l.next = n /\ l.bad = FALSE
    BY <1>2
  <2>2. e \in (i - 1)..Len(text) /\ e /= 0 /\ n \in Places /\ n > i
    BY <1>0, <1>2 DEF Places
  <2>3. Spelled(i, e + 1) = Piece(i, e)
    BY <1>0, <2>2, PieceIs
  <2> HIDE DEF l
  <2>4. l.token = Token("operator", Piece(i, OperatorEnd(i)), <<>>)
    BY <1>2, <2>1, <2>3
  <2>5. l.next \in Places /\ l.next > i
    BY <2>1, <2>2
  <2>6. OperatorEnd(i) \in i..Len(text) /\ OperatorEnd(i) /= 0 /\ l.next = OperatorEnd(i) + 1
    BY <1>2, <2>1, <2>2
  <2> QED
    BY <2>1, <2>4, <2>5, <2>6, Zenon DEF OperatorAgrees, l
<1>3. CASE At(i) \in Known /\ At(i + 1) \notin Second(At(i))
  <2>1. i \in i..Len(text) /\ i + 1 = i + 1
    BY <1>0
  <2> QED
    BY <1>2, <1>3, <2>1, OperatorKinds, OperatorEnds
<1>4. CASE At(i) \in Known /\ At(i + 1) \in Second(At(i)) /\ ~(IsShift(i) /\ At(i + 2) = "=")
  <2>1. OperatorEnd(i) = i + 1 /\ i + 1 \in 1..Len(text)
    BY <1>4, OperatorEnds
  <2>2. i + 1 \in i..Len(text) /\ i + 2 = (i + 1) + 1
    BY <1>0, <2>1
  <2>3. LexOperator(i) = [token |-> Token("operator", Spelled(i, i + 2), <<>>), next |-> i + 2, bad |-> FALSE]
    BY <1>4, OperatorKinds
  <2> HIDE DEF l
  <2> QED
    BY <1>2, <2>1, <2>2, <2>3 DEF l
<1>5. CASE At(i) \in Known /\ At(i + 1) \in Second(At(i)) /\ IsShift(i) /\ At(i + 2) = "="
  <2>1. OperatorEnd(i) = i + 2 /\ i + 2 \in 1..Len(text)
    BY <1>5, OperatorEnds
  <2>2. i + 2 \in i..Len(text) /\ i + 3 = (i + 2) + 1
    BY <1>0, <2>1
  <2>3. LexOperator(i) = [token |-> Token("operator", Spelled(i, i + 3), <<>>), next |-> i + 3, bad |-> FALSE]
    BY <1>5, OperatorKinds
  <2> HIDE DEF l
  <2> QED
    BY <1>2, <2>1, <2>2, <2>3 DEF l
<1> QED
  BY <1>1, <1>3, <1>4, <1>5

(***************************************************************************)
(* Comments.                                                               *)
(***************************************************************************)
CommentEnd(i) == Farthest({j \in i..Len(text) : IsComment(Piece(i, j))})
(* Where a comment is closed that begins at i. *)
ClosesAt(p) == At(p) = "*" /\ At(p + 1) = "/"
Closes(i) == {p \in (i + 2)..Len(text) : At(p) = "*" /\ At(p + 1) = "/"}

LEMMA CommentIs ==
  ASSUME TextOK, NEW i \in 1..Len(text), NEW j \in i..Len(text)
  PROVE  IsComment(Piece(i, j)) <=>
           /\ j >= i + 1 /\ At(i) = "/"
           /\ \/ At(i + 1) = "/" /\ \A k \in i..j : At(k) /= "NL"
              \/ /\ At(i + 1) = "*" /\ j >= i + 3 /\ ClosesAt(j - 1)
                 /\ \A p \in (i + 2)..(j - 2) : ~ClosesAt(p)
<1> DEFINE w == Piece(i, j)
           closes == {k \in 3..(Len(w) - 1) : w[k] = "*" /\ w[k + 1] = "/"}
<1>0. Len(text) \in Nat /\ i \in Nat /\ i >= 1 /\ j \in Nat /\ i \in Places /\ j \in (i - 1)..Len(text)
  BY LengthNat DEF Places
<1>1. /\ Len(w) = j - i + 1 /\ Range(w) = {At(k) : k \in i..j}
      /\ \A k \in 1..(j - i + 1) : w[k] = At(i + k - 1)
  BY <1>0, PieceIs
<1>2. IsComment(w) <=> /\ Len(w) >= 2 /\ w[1] = "/"
                       /\ \/ w[2] = "/" /\ "NL" \notin Range(w)
                          \/ w[2] = "*" /\ closes = {Len(w) - 1}
  BY Zenon DEF IsComment
<1> HIDE DEF w
<1>3. i + 1 - 1 = i /\ i + 2 - 1 = i + 1
  BY <1>0
<1>4. (Len(w) >= 2 <=> j >= i + 1) /\ w[1] = At(i) /\ (j >= i + 1 => w[2] = At(i + 1))
  <2>1. 1 \in 1..(j - i + 1) /\ (j >= i + 1 => 2 \in 1..(j - i + 1))
    BY <1>0
  <2> QED
    BY <1>0, <1>1, <1>3, <2>1
<1>5. \A k \in 3..(Len(w) - 1) : (w[k] = "*" /\ w[k + 1] = "/") <=> ClosesAt(i + k - 1)
  <2> TAKE k \in 3..(Len(w) - 1)
  <2>1. k \in 1..(j - i + 1) /\ k + 1 \in 1..(j - i + 1) /\ i + (k + 1) - 1 = (i + k - 1) + 1
    BY <1>0, <1>1
  <2>2. w[k] = At(i + k - 1) /\ w[k + 1] = At((i + k - 1) + 1)
    BY <1>1, <2>1
  <2> QED
    BY <2>2 DEF ClosesAt
<1>6. \A k : k \in closes <=> k \in 3..(j - i) /\ ClosesAt(i + k - 1)
  <2>1. 3..(Len(w) - 1) = 3..(j - i)
    BY <1>0, <1>1
  <2>2. \A k : k \in closes <=> k \in 3..(Len(w) - 1) /\ w[k] = "*" /\ w[k + 1] = "/"
    BY Zenon
  <2> HIDE DEF closes
  <2> QED
    BY <1>5, <2>1, <2>2, Zenon
<1>7. Len(w) - 1 = j - i
  BY <1>0, <1>1
<1> HIDE DEF closes
<1>8. closes = {j - i} <=> /\ j >= i + 3 /\ ClosesAt(j - 1)
                           /\ \A p \in (i + 2)..(j - 2) : ~ClosesAt(p)
  <2>1. ASSUME closes = {j - i}
        PROVE  j >= i + 3 /\ ClosesAt(j - 1) /\ \A p \in (i + 2)..(j - 2) : ~ClosesAt(p)
    <3>1. j - i \in 3..(j - i) /\ ClosesAt(i + (j - i) - 1)
      BY <1>6, <2>1
    <3>2. i + (j - i) - 1 = j - 1 /\ j >= i + 3
      BY <1>0, <3>1
    <3>3. ASSUME NEW p \in (i + 2)..(j - 2), ClosesAt(p) PROVE FALSE
      <4>1. PICK k \in 3..(j - i) : p = i + k - 1 /\ k /= j - i
        <5>1. p - i + 1 \in 3..(j - i) /\ p = i + (p - i + 1) - 1 /\ p - i + 1 /= j - i
          BY <1>0
        <5> QED
          BY <5>1
      <4>2. k \in closes
        BY <1>6, <3>3, <4>1
      <4> QED
        BY <2>1, <4>1, <4>2
    <3> QED
      BY <3>1, <3>2, <3>3
  <2>2. ASSUME j >= i + 3, ClosesAt(j - 1), \A p \in (i + 2)..(j - 2) : ~ClosesAt(p)
        PROVE  closes = {j - i}
    <3>1. j - i \in 3..(j - i) /\ i + (j - i) - 1 = j - 1
      BY <1>0, <2>2
    <3>2. j - i \in closes
      BY <1>6, <2>2, <3>1
    <3>3. ASSUME NEW k \in closes PROVE k = j - i
      <4>1. k \in 3..(j - i) /\ ClosesAt(i + k - 1)
        BY <1>6, <3>3
      <4>2. i + k - 1 \notin (i + 2)..(j - 2)
        BY <2>2, <4>1
      <4> QED
        BY <1>0, <4>1, <4>2
    <3> QED
      BY <3>2, <3>3
  <2> QED
    BY <2>1, <2>2
<1>9. "NL" \notin Range(w) <=> \A k \in i..j : At(k) /= "NL"
  BY <1>1
<1>10. IsComment(w) <=>
           /\ j >= i + 1 /\ At(i) = "/"
           /\ \/ At(i + 1) = "/" /\ \A k \in i..j : At(k) /= "NL"
              \/ /\ At(i + 1) = "*" /\ j >= i + 3 /\ ClosesAt(j - 1)
                 /\ \A p \in (i + 2)..(j - 2) : ~ClosesAt(p)
  BY <1>2, <1>4, <1>7, <1>8, <1>9, Zenon
<1> QED
  BY <1>10 DEF w

LEMMA LineEnds ==
  ASSUME TextOK, NEW i \in Places, At(i) \notin {"end", "NL"}
  PROVE  /\ LineEnd(i) \in (i + 1)..(Len(text) + 1) /\ LineEnd(i) \in Places
         /\ At(LineEnd(i)) \in {"end", "NL"}
         /\ \A k \in i..(LineEnd(i) - 1) : At(k) /= "NL"
<1> DEFINE chars == DOMAIN Code \ {"NL"}
<1>0. Len(text) \in Nat /\ i \in Nat /\ i >= 1
  BY LengthNat DEF Places
<1>1. "end" \notin chars
  BY LexerAssumption
<1>2. LineEnd(i) = Past(i, chars)
  BY DEF LineEnd
<1>3. At(i) \in chars
  BY EndIs
<1> HIDE DEF chars
<1>4. /\ LineEnd(i) \in i..(Len(text) + 1) /\ LineEnd(i) \in Places
      /\ At(LineEnd(i)) \notin chars /\ \A k \in i..(LineEnd(i) - 1) : At(k) \in chars
  BY <1>1, <1>2, PastIs
<1>5. LineEnd(i) /= i
  BY <1>3, <1>4
<1>6. At(LineEnd(i)) \in {"end", "NL"}
  <2>1. PICK n \in Places : n = LineEnd(i)
    BY <1>4
  <2>2. At(n) /= "end" => At(n) \in DOMAIN Code
    BY EndIs
  <2> QED
    BY <1>4, <2>1, <2>2 DEF chars
<1>7. \A k \in i..(LineEnd(i) - 1) : At(k) /= "NL"
  BY <1>4 DEF chars
<1> QED
  BY <1>0, <1>4, <1>5, <1>6, <1>7

LEMMA CommentEnds ==
  ASSUME TextOK, NEW i \in 1..Len(text)
  PROVE  /\ At(i) /= "/" \/ At(i + 1) \notin {"/", "*"} => CommentEnd(i) = 0
         /\ At(i) = "/" /\ At(i + 1) = "/" =>
              CommentEnd(i) \in i..Len(text) /\ CommentEnd(i) /= 0 /\ CommentEnd(i) + 1 = LineEnd(i)
         /\ At(i) = "/" /\ At(i + 1) = "*" =>
              /\ Closes(i) = {} => CommentEnd(i) = 0 /\ Piece(i, i + 1) = <<"/", "*">>
              /\ Closes(i) /= {} => /\ CommentEnd(i) \in i..Len(text) /\ CommentEnd(i) /= 0
                                    /\ CommentEnd(i) + 1 = Min(Closes(i)) + 2
<1> DEFINE ends == {j \in i..Len(text) : IsComment(Piece(i, j))}
<1>0. Len(text) \in Nat /\ i \in Nat /\ i >= 1 /\ i \in Places /\ i + 1 \in Places
  BY LengthNat DEF Places
<1>1. \A j \in i..Len(text) : j \in ends <=>
           /\ j >= i + 1 /\ At(i) = "/"
           /\ \/ At(i + 1) = "/" /\ \A k \in i..j : At(k) /= "NL"
              \/ /\ At(i + 1) = "*" /\ j >= i + 3 /\ ClosesAt(j - 1)
                 /\ \A p \in (i + 2)..(j - 2) : ~ClosesAt(p)
  BY CommentIs
<1>2. ends \in SUBSET (1..Len(text)) /\ \A j \in ends : j \in i..Len(text)
  BY <1>0
<1>3. CommentEnd(i) = Farthest(ends)
  BY DEF CommentEnd
<1> HIDE DEF ends
<1>4. ASSUME NEW j \in ends, \A x \in ends : x <= j PROVE CommentEnd(i) = j
  BY <1>0, <1>2, <1>3, <1>4, FarthestAt
<1>5. ends = {} => CommentEnd(i) = 0
  BY <1>3, FarthestNone
<1>6. CASE At(i) /= "/" \/ At(i + 1) \notin {"/", "*"}
  <2>1. ends = {}
    BY <1>1, <1>2, <1>6
  <2> QED
    BY <1>5, <1>6, <2>1
<1>7. CASE At(i) = "/" /\ At(i + 1) = "/"
  <2> DEFINE n == LineEnd(i)
  <2>1. /\ n \in (i + 1)..(Len(text) + 1) /\ At(n) \in {"end", "NL"}
        /\ \A k \in i..(n - 1) : At(k) /= "NL"
    BY <1>0, <1>7, LineEnds
  <2> HIDE DEF n
  <2>2. n /= i + 1
    BY <1>7, <2>1
  <2>3. PICK j \in i..Len(text) : j = n - 1 /\ j >= i + 1 /\ j + 1 = n
    BY <1>0, <2>1, <2>2
  <2>4. j \in ends
    BY <1>1, <1>7, <2>1, <2>3
  <2>5. ASSUME NEW x \in ends PROVE x <= j
    <3> SUFFICES ASSUME ~(x <= j) PROVE FALSE
      OBVIOUS
    <3>1. x \in i..Len(text) /\ n \in i..x /\ n \in 1..Len(text)
      BY <1>0, <1>2, <2>1, <2>3
    <3>2. At(n) /= "NL"
      BY <1>1, <1>7, <2>5, <3>1
    <3>3. At(n) /= "end"
      BY <3>1, AtIs
    <3> QED
      BY <2>1, <3>2, <3>3
  <2>6. CommentEnd(i) = j
    BY <1>4, <2>4, <2>5
  <2> QED
    BY <1>0, <1>7, <2>3, <2>6 DEF n
<1>8. CASE At(i) = "/" /\ At(i + 1) = "*"
  <2>1. \A j \in ends : j - 1 \in Closes(i)
    <3> TAKE j \in ends
    <3>1. j \in i..Len(text) /\ j >= i + 3 /\ ClosesAt(j - 1)
      BY <1>1, <1>2, <1>8
    <3>2. j - 1 \in (i + 2)..Len(text)
      BY <1>0, <3>1
    <3> QED
      BY <3>1, <3>2 DEF Closes, ClosesAt
  <2>2. CASE Closes(i) = {}
    <3>1. ends = {}
      BY <2>1, <2>2
    <3>2. i + 1 \in 1..Len(text)
      <4>1. PICK k \in Places : k = i + 1
        BY <1>0
      <4> QED
        BY <1>8, <4>1, EndIs
    <3>3. PICK y \in (i - 1)..Len(text) : y = i + 1
      BY <1>0, <3>2
    <3>4. /\ Piece(i, y) \in Seq(DOMAIN Code) /\ Len(Piece(i, y)) = y - i + 1
          /\ \A k \in 1..(y - i + 1) : Piece(i, y)[k] = At(i + k - 1)
      BY <1>0, PieceIs
    <3>5. y - i + 1 = 2 /\ 1 \in 1..2 /\ 2 \in 1..2 /\ i + 1 - 1 = i /\ i + 2 - 1 = i + 1
      BY <1>0, <3>3
    <3>6. Len(Piece(i, y)) = 2 /\ Piece(i, y)[1] = "/" /\ Piece(i, y)[2] = "*"
      BY <1>8, <3>4, <3>5
    <3>7. Piece(i, y) = <<"/", "*">>
      BY <3>4, <3>6
    <3> QED
      BY <1>5, <1>8, <2>2, <3>1, <3>3, <3>7
  <2>3. CASE Closes(i) /= {}
    <3>1. Closes(i) \in SUBSET Nat
      BY <1>0 DEF Closes
    <3>2. PICK m : m = Min(Closes(i)) /\ m \in Closes(i) /\ \A x \in Closes(i) : m <= x
      BY <2>3, <3>1, MinIs
    <3>3. m \in (i + 2)..Len(text) /\ ClosesAt(m) /\ At(m + 1) /= "end" /\ m + 1 \in Places
      BY <1>0, <3>2 DEF Closes, ClosesAt, Places
    <3>4. PICK j \in Places : j = m + 1
      BY <3>3
    <3>5. j \in i..Len(text) /\ j >= i + 3 /\ j - 1 = m /\ j - 2 = m - 1
      <4>1. j \in 1..Len(text)
        BY <3>3, <3>4, EndIs
      <4> QED
        BY <1>0, <3>3, <3>4, <4>1
    <3>6. ASSUME NEW p \in (i + 2)..(j - 2), ClosesAt(p) PROVE FALSE
      <4>1. p \in (i + 2)..Len(text)
        BY <1>0, <3>3, <3>5
      <4>2. p \in Closes(i)
        BY <3>6, <4>1 DEF Closes, ClosesAt
      <4> QED
        BY <1>0, <3>2, <3>3, <3>5, <4>2
    <3>7. j >= i + 1
      BY <1>0, <3>5
    <3>8. j \in ends
      BY <1>1, <1>8, <3>3, <3>5, <3>6, <3>7
    <3>9. ASSUME NEW x \in ends PROVE x <= j
      <4>1. x \in i..Len(text) /\ \A p \in (i + 2)..(x - 2) : ~ClosesAt(p)
        BY <1>1, <1>2, <1>8, <3>9
      <4>2. m \notin (i + 2)..(x - 2)
        BY <3>3, <4>1
      <4> QED
        BY <1>0, <3>3, <3>4, <4>1, <4>2
    <3>10. CommentEnd(i) = j
      BY <1>4, <3>8, <3>9
    <3>11. j + 1 = Min(Closes(i)) + 2 /\ j /= 0
      BY <1>0, <3>2, <3>3, <3>4
    <3> QED
      BY <1>8, <2>3, <3>5, <3>10, <3>11
  <2> QED
    BY <2>2, <2>3
<1> QED
  BY <1>6, <1>7, <1>8

(***************************************************************************)
(* What the grammar has at a place.                                        *)
(***************************************************************************)
Lexeme(end, tokens) == [end |-> end, tokens |-> tokens]
Quotes == {SingleQuote, DoubleQuote}
IsOther(i) == At(i) \notin {" ", "NL"} \cup Letter \cup DigitsOf(10) \cup Quotes

LEMMA QuotesAre == Quotes = {"'", "\""} /\ SingleQuote \in Quotes /\ DoubleQuote \in Quotes /\ SingleQuote /= DoubleQuote
BY DEF Quotes, SingleQuote, DoubleQuote

LEMMA KindsDiffer ==
  /\ Letter \cap {" ", "NL"} = {} /\ DigitsOf(10) \cap ({" ", "NL"} \cup Letter) = {}
  /\ Quotes \cap ({" ", "NL", "end", "#"} \cup Letter \cup DigitsOf(10)) = {}
  /\ "end" \notin Letter \cup DigitsOf(10)
  /\ {"#", "/"} \cap ({" ", "NL", "end"} \cup Letter \cup DigitsOf(10) \cup Quotes) = {}
  /\ "#" \notin Known
BY DigitSets, KnownIs DEF Letter, Quotes, SingleQuote, DoubleQuote

LEMMA LexemeKinds ==
  ASSUME NEW i
  PROVE  /\ At(i) \in {" ", "NL"} => CLexeme(i) = Lexeme(i, <<>>)
         /\ At(i) \in Letter => CLexeme(i) = Lexeme(i + Len(Word(i)) - 1, <<Token("ident", Word(i), <<>>)>>)
         /\ At(i) \in DigitsOf(10) /\ LegalNumbers(Word(i)) = {} => CLexeme(i) = Lexeme(0, <<>>)
         /\ At(i) \in DigitsOf(10) /\ LegalNumbers(Word(i)) /= {} =>
              \E c \in LegalNumbers(Word(i)) :
                CLexeme(i) = Lexeme(i + Len(Word(i)) - 1, <<Token("number", <<>>, <<ReadIn(c.base, c.digits)>>)>>)
         /\ At(i) \in Quotes /\ (LiteralEnd(i) = 0 \/ \E v \in Range(Values(i)) : v > 255) =>
              CLexeme(i) = Lexeme(0, <<>>)
         /\ At(i) \in Quotes /\ ~(LiteralEnd(i) = 0 \/ \E v \in Range(Values(i)) : v > 255) =>
              CLexeme(i) = Lexeme(LiteralEnd(i),
                                  <<Token(IF At(i) = SingleQuote THEN "char" ELSE "string", <<>>, Values(i))>>)
         /\ IsOther(i) /\ CommentEnd(i) > 0 => CLexeme(i) = Lexeme(CommentEnd(i), <<>>)
         /\ IsOther(i) /\ ~(CommentEnd(i) > 0) /\ Piece(i, i + 1) = <<"/", "*">> => CLexeme(i) = Lexeme(0, <<>>)
         /\ IsOther(i) /\ ~(CommentEnd(i) > 0) /\ Piece(i, i + 1) /= <<"/", "*">> =>
              /\ OperatorEnd(i) = 0 => CLexeme(i) = Lexeme(0, <<>>)
              /\ OperatorEnd(i) /= 0 =>
                   CLexeme(i) = Lexeme(OperatorEnd(i), <<Token("operator", Piece(i, OperatorEnd(i)), <<>>)>>)
<1> DEFINE blank == At(i) \in {" ", "NL"}
           letter == At(i) \in Letter
           digit == At(i) \in DigitsOf(10)
           quoted == At(i) \in Quotes
           numbers == LegalNumbers(Word(i))
           c == CHOOSE n \in numbers : TRUE
           large == LiteralEnd(i) = 0 \/ \E v \in Range(Values(i)) : v > 255
           tail == Lexeme(i + Len(Word(i)) - 1, <<Token("ident", Word(i), <<>>)>>)
           number == IF numbers = {} THEN Lexeme(0, <<>>)
                     ELSE Lexeme(i + Len(Word(i)) - 1, <<Token("number", <<>>, <<ReadIn(c.base, c.digits)>>)>>)
           literal == IF large THEN Lexeme(0, <<>>)
                      ELSE Lexeme(LiteralEnd(i),
                                  <<Token(IF At(i) = SingleQuote THEN "char" ELSE "string", <<>>, Values(i))>>)
           open == Piece(i, i + 1) = <<"/", "*">>
           operator == Lexeme(OperatorEnd(i), IF OperatorEnd(i) = 0 THEN <<>>
                                              ELSE <<Token("operator", Piece(i, OperatorEnd(i)), <<>>)>>)
           other == IF CommentEnd(i) > 0 THEN Lexeme(CommentEnd(i), <<>>)
                    ELSE IF open THEN Lexeme(0, <<>>) ELSE operator
<1>1. CLexeme(i) = CASE blank -> Lexeme(i, <<>>)
                     [] letter -> tail
                     [] digit -> number
                     [] At(i) \in {"'", "\""} -> literal
                     [] OTHER -> other
  BY Zenon DEF CLexeme, Lexeme, Word, CommentEnd, OperatorEnd, SingleQuote
<1>2. At(i) \in {"'", "\""} <=> quoted
  BY QuotesAre, Zenon
<1>3. /\ letter => ~blank
      /\ digit => ~blank /\ ~letter
      /\ quoted => ~blank /\ ~letter /\ ~digit
      /\ IsOther(i) => ~blank /\ ~letter /\ ~digit /\ ~quoted
  BY KindsDiffer DEF IsOther
<1>4. numbers /= {} => c \in numbers
  BY Zenon
<1> HIDE DEF blank, letter, digit, quoted, numbers, c, large, tail, number, literal, open, operator, other
<1>5. CLexeme(i) = CASE blank -> Lexeme(i, <<>>)
                     [] letter -> tail
                     [] digit -> number
                     [] quoted -> literal
                     [] OTHER -> other
  BY <1>1, <1>2, Zenon
<1>6. /\ blank => CLexeme(i) = Lexeme(i, <<>>)
      /\ letter => CLexeme(i) = tail
      /\ digit => CLexeme(i) = number
      /\ quoted => CLexeme(i) = literal
      /\ IsOther(i) => CLexeme(i) = other
  BY <1>3, <1>5
<1>7. /\ numbers = {} => number = Lexeme(0, <<>>)
      /\ numbers /= {} => number = Lexeme(i + Len(Word(i)) - 1, <<Token("number", <<>>, <<ReadIn(c.base, c.digits)>>)>>)
  BY Zenon DEF number
<1>8. /\ large => literal = Lexeme(0, <<>>)
      /\ ~large => literal = Lexeme(LiteralEnd(i),
                                    <<Token(IF At(i) = SingleQuote THEN "char" ELSE "string", <<>>, Values(i))>>)
  BY Zenon DEF literal
<1>9. /\ CommentEnd(i) > 0 => other = Lexeme(CommentEnd(i), <<>>)
      /\ ~(CommentEnd(i) > 0) /\ open => other = Lexeme(0, <<>>)
      /\ ~(CommentEnd(i) > 0) /\ ~open => other = operator
  BY Zenon DEF other
<1>10. /\ OperatorEnd(i) = 0 => operator = Lexeme(0, <<>>)
       /\ OperatorEnd(i) /= 0 => operator = Lexeme(OperatorEnd(i), <<Token("operator", Piece(i, OperatorEnd(i)), <<>>)>>)
  BY Zenon DEF operator
<1>11. digit /\ numbers /= {} =>
         \E n \in numbers : CLexeme(i) = Lexeme(i + Len(Word(i)) - 1, <<Token("number", <<>>, <<ReadIn(n.base, n.digits)>>)>>)
  BY <1>4, <1>6, <1>7, Zenon
<1>12. /\ At(i) \in {" ", "NL"} => CLexeme(i) = Lexeme(i, <<>>)
       /\ At(i) \in Letter => CLexeme(i) = Lexeme(i + Len(Word(i)) - 1, <<Token("ident", Word(i), <<>>)>>)
  BY <1>6, Zenon DEF blank, letter, tail
<1>13. At(i) \in DigitsOf(10) /\ LegalNumbers(Word(i)) = {} => CLexeme(i) = Lexeme(0, <<>>)
  BY <1>6, <1>7, Zenon DEF digit, numbers
<1>14. At(i) \in DigitsOf(10) /\ LegalNumbers(Word(i)) /= {} =>
         \E n \in LegalNumbers(Word(i)) :
           CLexeme(i) = Lexeme(i + Len(Word(i)) - 1, <<Token("number", <<>>, <<ReadIn(n.base, n.digits)>>)>>)
  BY <1>11, Zenon DEF digit, numbers
<1>15. At(i) \in Quotes /\ (LiteralEnd(i) = 0 \/ \E v \in Range(Values(i)) : v > 255) =>
         CLexeme(i) = Lexeme(0, <<>>)
  <2>1. quoted /\ large => CLexeme(i) = Lexeme(0, <<>>)
    BY <1>6, <1>8, Zenon
  <2> QED
    BY <2>1, Zenon DEF quoted, large
<1>16. At(i) \in Quotes /\ ~(LiteralEnd(i) = 0 \/ \E v \in Range(Values(i)) : v > 255) =>
         CLexeme(i) = Lexeme(LiteralEnd(i),
                             <<Token(IF At(i) = SingleQuote THEN "char" ELSE "string", <<>>, Values(i))>>)
  <2>1. quoted /\ ~large =>
          CLexeme(i) = Lexeme(LiteralEnd(i),
                              <<Token(IF At(i) = SingleQuote THEN "char" ELSE "string", <<>>, Values(i))>>)
    BY <1>6, <1>8, Zenon
  <2> QED
    BY <2>1, Zenon DEF quoted, large
<1>17. /\ IsOther(i) /\ CommentEnd(i) > 0 => CLexeme(i) = Lexeme(CommentEnd(i), <<>>)
       /\ IsOther(i) /\ ~(CommentEnd(i) > 0) /\ Piece(i, i + 1) = <<"/", "*">> => CLexeme(i) = Lexeme(0, <<>>)
  BY <1>6, <1>9, Zenon DEF open
<1>18. IsOther(i) /\ ~(CommentEnd(i) > 0) /\ Piece(i, i + 1) /= <<"/", "*">> =>
         /\ OperatorEnd(i) = 0 => CLexeme(i) = Lexeme(0, <<>>)
         /\ OperatorEnd(i) /= 0 =>
              CLexeme(i) = Lexeme(OperatorEnd(i), <<Token("operator", Piece(i, OperatorEnd(i)), <<>>)>>)
  <2>1. IsOther(i) /\ ~(CommentEnd(i) > 0) /\ ~open => CLexeme(i) = operator
    BY <1>6, <1>9, Zenon
  <2> QED
    BY <1>10, <2>1, Zenon DEF open
<1> QED
  BY <1>12, <1>13, <1>14, <1>15, <1>16, <1>17, <1>18, Zenon

(***************************************************************************)
(* What the lexer has at a place.                                          *)
(***************************************************************************)
(* A string literal is not read backwards. *)
LEMMA StringPast == TextOK => \A i \in Places : StringFrom[i].next >= i
<1> HAVE TextOK
<1>0. \A i \in Places : i \in Nat
  BY LengthNat DEF Places
<1> DEFINE B == {i \in Places : StringFrom[i].next >= i}
<1>1. ASSUME NEW i \in Places, \A j \in Places : j > i => j \in B
      PROVE  i \in B
  <2>1. CASE i \in StringStop
    <3>1. StringFrom[i] = StringEnd(i)
      BY <2>1, StringIs
    <3>2. StringEnd(i).next \in {i, i + 1}
      BY StringTypes
    <3> QED
      BY <1>0, <3>1, <3>2
  <2>2. CASE i \notin StringStop
    <3>1. StringFrom[i] = StringStep(i, StringFrom[StringNext(i)])
      BY <2>2, StringIs
    <3>2. PICK n \in Places : n = StringNext(i) /\ n > i
      BY <2>2, StringTypes
    <3>3. StringFrom[n] \in Strings /\ StringFrom[n].next >= n
      BY <1>1, <3>2, StringIs
    <3>4. StringFrom[n].next \in Places
      BY <3>3 DEF Strings
    <3>5. StringFrom[i].next = StringFrom[n].next
      <4>1. PICK r \in Strings : r = StringFrom[n]
        BY <3>3
      <4>2. StringStep(i, r).next = r.next
        BY <2>2, StringFields
      <4> QED
        BY <3>1, <3>2, <4>1, <4>2, Zenon
    <3> QED
      BY <1>0, <3>2, <3>3, <3>4, <3>5
  <2> QED
    BY <2>1, <2>2
<1>2. B = Places
  <2> HIDE DEF B
  <2>1. B \in SUBSET Places
    BY DEF B
  <2> QED
    BY <1>1, <2>1, Descending
<1> QED
  BY <1>2

LEMMA LiteralSame ==
  ASSUME TextOK, NEW i \in Places, At(i) = DoubleQuote
  PROVE  LET l == LexString(i)
         IN  /\ l.next \in Places /\ l.next > i
             /\ LiteralEnd(i) = 0 => l.bad = TRUE
             /\ LiteralEnd(i) /= 0 =>
                  /\ LiteralEnd(i) \in i..Len(text) /\ l.bad = FALSE /\ l.next = LiteralEnd(i) + 1
                  /\ (\A v \in Range(Values(i)) : v <= 255) => l.token = Token("string", <<>>, Values(i))
<1>0. Len(text) \in Nat /\ i \in Nat
  BY LengthNat DEF Places
<1>1. i + 1 \in Places
  BY EndIs DEF DoubleQuote
<1>2. PICK k \in Places : k = i + 1
  BY <1>1
<1> DEFINE u == Units(DoubleQuote)[k]
           s == StringFrom[k]
           l == LexString(i)
<1>3. Values(i) = u.values
  <2>1. Values(i) = Units(At(i))[i + 1].values
    BY Zenon DEF Values
  <2> QED
    BY <1>2, <2>1
<1>4. LiteralEnd(i) = u.end
  <2>1. LiteralEnd(i) = IF At(i) = SingleQuote /\ Len(Values(i)) /= 1 THEN 0 ELSE Units(At(i))[i + 1].end
    BY Zenon DEF LiteralEnd, SingleQuote
  <2>2. At(i) /= SingleQuote
    BY QuotesAre
  <2> QED
    BY <1>2, <2>1, <2>2
<1>5. l = [token |-> Token("string", <<>>, s.bytes), next |-> s.next, bad |-> s.bad]
  BY <1>2, Zenon DEF LexString, Lexed
<1>6. l.token = Token("string", <<>>, s.bytes) /\ l.next = s.next /\ l.bad = s.bad
  BY <1>5
<1>7. StringAgrees(k) /\ s \in Strings /\ s.next >= k
  BY StringSame, StringIs, StringPast
<1> HIDE DEF u, s, l
<1>8. /\ u.end = 0 => s.bad = TRUE
      /\ u.end /= 0 => /\ u.end \in k..Len(text) /\ s.bad = FALSE /\ s.next = u.end + 1
                       /\ (\A v \in Range(u.values) : v <= 255) => s.bytes = u.values
  BY <1>7, Zenon DEF StringAgrees, u, s
<1>9. s.next \in Places
  BY <1>7 DEF Strings
<1>10. l.next \in Places /\ l.next > i
  BY <1>0, <1>2, <1>6, <1>7, <1>9 DEF Places
<1>11. LiteralEnd(i) /= 0 => LiteralEnd(i) \in i..Len(text) /\ l.next = LiteralEnd(i) + 1
  BY <1>0, <1>2, <1>4, <1>6, <1>8
<1>12. LiteralEnd(i) /= 0 => l.bad = FALSE
  BY <1>4, <1>6, <1>8
<1>13. LiteralEnd(i) = 0 => l.bad = TRUE
  BY <1>4, <1>6, <1>8
<1>14. LiteralEnd(i) /= 0 /\ (\A v \in Range(Values(i)) : v <= 255) => l.token = Token("string", <<>>, Values(i))
  BY <1>3, <1>4, <1>6, <1>8
<1> QED
  BY <1>10, <1>11, <1>12, <1>13, <1>14, Zenon DEF l

LEMMA NextKinds ==
  ASSUME NEW i
  PROVE  /\ At(i) \in Letter => NextToken(i) = LexIdent(i)
         /\ At(i) \in DigitsOf(10) => NextToken(i) = LexNumber(i)
         /\ At(i) = SingleQuote => NextToken(i) = LexChar(i)
         /\ At(i) = DoubleQuote => NextToken(i) = LexString(i)
         /\ IsOther(i) => NextToken(i) = LexOperator(i)
<1> DEFINE letter == At(i) \in Letter
           digit == At(i) \in DigitsOf(10)
           single == At(i) = SingleQuote
           double == At(i) = DoubleQuote
<1>1. NextToken(i) = CASE letter -> LexIdent(i)
                       [] digit -> LexNumber(i)
                       [] single -> LexChar(i)
                       [] double -> LexString(i)
                       [] OTHER -> LexOperator(i)
  BY Zenon DEF NextToken, SingleQuote, DoubleQuote
<1>2. /\ digit => ~letter
      /\ single => ~letter /\ ~digit
      /\ double => ~letter /\ ~digit /\ ~single
      /\ IsOther(i) => ~letter /\ ~digit /\ ~single /\ ~double
  BY KindsDiffer, QuotesAre DEF IsOther
<1> HIDE DEF letter, digit, single, double
<1>3. /\ letter => NextToken(i) = LexIdent(i)
      /\ digit => NextToken(i) = LexNumber(i)
      /\ single => NextToken(i) = LexChar(i)
      /\ double => NextToken(i) = LexString(i)
      /\ IsOther(i) => NextToken(i) = LexOperator(i)
  BY <1>1, <1>2
<1> QED
  BY <1>3 DEF letter, digit, single, double

LEMMA LexemeFields ==
  ASSUME NEW end, NEW tokens
  PROVE  Lexeme(end, tokens).end = end /\ Lexeme(end, tokens).tokens = tokens
BY DEF Lexeme

LEMMA LiteralValues ==
  ASSUME TextOK, NEW i \in Places, At(i) \in Quotes
  PROVE  LiteralEnd(i) \in Nat /\ Range(Values(i)) \subseteq Nat
<1>1. i + 1 \in Places
  BY EndIs, KindsDiffer
<1>2. PICK k \in Places : k = i + 1
  BY <1>1
<1>3. PICK quote : quote = At(i)
  OBVIOUS
<1>4. PICK r \in UnitRows : r = Units(quote)[k]
  BY UnitsAre
<1>5. r.end \in Nat /\ r.values \in Seq(Nat)
  BY DEF UnitRows
<1>6. Values(i) = r.values
  BY <1>2, <1>3, <1>4, Zenon DEF Values
<1>7. LiteralEnd(i) = 0 \/ LiteralEnd(i) = r.end
  <2>1. LiteralEnd(i) = IF At(i) = SingleQuote /\ Len(Values(i)) /= 1 THEN 0 ELSE Units(At(i))[i + 1].end
    BY Zenon DEF LiteralEnd, SingleQuote
  <2> QED
    BY <1>2, <1>3, <1>4, <2>1
<1>8. Range(r.values) \subseteq Nat
  BY <1>5 DEF Range
<1> QED
  BY <1>5, <1>6, <1>7, <1>8

LEMMA LiteralToken ==
  ASSUME TextOK, NEW i \in Places, At(i) \in Quotes
  PROVE  LET l == NextToken(i)
             kind == IF At(i) = SingleQuote THEN "char" ELSE "string"
         IN  /\ l.next \in Places /\ l.next > i
             /\ LiteralEnd(i) = 0 => l.bad = TRUE \/ Tolerated(i)
             /\ LiteralEnd(i) /= 0 =>
                  /\ LiteralEnd(i) \in i..Len(text) /\ l.bad = FALSE /\ l.next = LiteralEnd(i) + 1
                  /\ (\A v \in Range(Values(i)) : v <= 255) => l.token = Token(kind, <<>>, Values(i))
<1>0. Len(text) \in Nat /\ i \in Nat
  BY LengthNat DEF Places
<1>1. CASE At(i) = SingleQuote
  <2>1. NextToken(i) = LexChar(i)
    BY <1>1, NextKinds
  <2> DEFINE l == LexChar(i)
  <2>2. /\ l.next \in Places /\ l.next > i
        /\ LiteralEnd(i) = 0 => l.bad = TRUE \/ Piece(i, i + 2) = <<"'", "NL", "'">>
        /\ LiteralEnd(i) /= 0 => /\ l.bad = FALSE /\ l.next = LiteralEnd(i) + 1
                                 /\ l.token = Token("char", <<>>, Values(i))
    BY <1>1, CharSame, Zenon DEF CharAgrees
  <2> HIDE DEF l
  <2>3. LiteralEnd(i) \in Nat
    BY LiteralValues
  <2>4. LiteralEnd(i) /= 0 => LiteralEnd(i) \in i..Len(text)
    BY <1>0, <2>2, <2>3 DEF Places
  <2>5. Piece(i, i + 2) = <<"'", "NL", "'">> => Tolerated(i)
    BY Zenon DEF Tolerated
  <2>6. (IF At(i) = SingleQuote THEN "char" ELSE "string") = "char"
    BY <1>1
  <2> QED
    BY <2>1, <2>2, <2>4, <2>5, <2>6, Zenon DEF l
<1>2. CASE At(i) = DoubleQuote
  <2>1. NextToken(i) = LexString(i)
    BY <1>2, NextKinds
  <2>2. (IF At(i) = SingleQuote THEN "char" ELSE "string") = "string"
    BY <1>2, QuotesAre
  <2> QED
    BY <1>2, <2>1, <2>2, LiteralSame, Zenon
<1> QED
  BY <1>1, <1>2 DEF Quotes

(* Where no more trivia are, the lexer has the lexeme of the grammar. *)
IsTrivia(i) == At(i) \in {" ", "NL"} \/ (At(i) = "/" /\ At(i + 1) \in {"/", "*"})
LexesAt(i) ==
  LET l == NextToken(i)
      x == CLexeme(i)
  IN  /\ l.next \in Places /\ l.next > i
      /\ x.end = 0 => l.bad = TRUE \/ Tolerated(i)
      /\ x.end /= 0 => /\ x.end \in i..Len(text) /\ l.bad = FALSE /\ l.next = x.end + 1
                       /\ x.tokens = <<l.token>>

LEMMA LexesAtNone ==
  ASSUME NEW i, CLexeme(i) = Lexeme(0, <<>>), NextToken(i).next \in Places, NextToken(i).next > i,
         NextToken(i).bad = TRUE \/ Tolerated(i)
  PROVE  LexesAt(i)
<1>1. CLexeme(i).end = 0
  BY LexemeFields
<1> QED
  BY <1>1, Zenon DEF LexesAt

LEMMA LexesAtToken ==
  ASSUME TextOK, NEW i \in Places, NEW token, NEW end \in i..Len(text), CLexeme(i) = Lexeme(end, <<token>>),
         NextToken(i).next = end + 1, NextToken(i).bad = FALSE, NextToken(i).token = token
  PROVE  LexesAt(i)
<1>0. Len(text) \in Nat /\ i \in Nat /\ i >= 1
  BY LengthNat DEF Places
<1>1. CLexeme(i).end = end /\ CLexeme(i).tokens = <<token>>
  BY LexemeFields
<1>2. end /= 0 /\ end + 1 \in Places /\ end + 1 > i
  BY <1>0 DEF Places
<1> QED
  BY <1>1, <1>2, Zenon DEF LexesAt

LEMMA OpensComment ==
  ASSUME TextOK, NEW i \in 1..Len(text), Piece(i, i + 1) = <<"/", "*">>
  PROVE  At(i) = "/" /\ At(i + 1) = "*"
<1>0. Len(text) \in Nat /\ i \in Nat /\ i >= 1 /\ i \in Places
  BY LengthNat DEF Places
<1>1. CASE i + 1 <= Len(text)
  <2>1. PICK y \in (i - 1)..Len(text) : y = i + 1
    BY <1>0, <1>1
  <2>2. \A k \in 1..(y - i + 1) : Piece(i, y)[k] = At(i + k - 1)
    BY <1>0, PieceIs
  <2>3. 1 \in 1..(y - i + 1) /\ 2 \in 1..(y - i + 1) /\ i + 1 - 1 = i /\ i + 2 - 1 = i + 1
    BY <1>0, <2>1
  <2>4. Piece(i, y)[1] = At(i) /\ Piece(i, y)[2] = At(i + 1)
    BY <2>2, <2>3
  <2> QED
    BY <2>1, <2>4
<1>2. CASE i + 1 > Len(text)
  <2>1. i = Len(text) /\ i + 1 \in Nat
    BY <1>0, <1>2
  <2> DEFINE S == {i + 1, Len(text)}
  <2>2. S \in SUBSET Nat /\ S /= {}
    BY <1>0, <2>1
  <2> HIDE DEF S
  <2>3. Min(S) \in S /\ \A x \in S : Min(S) <= x
    BY <2>2, MinIs
  <2>4. Min(S) = i
    BY <1>0, <2>1, <2>3 DEF S
  <2>5. Piece(i, i + 1) = SubSeq(text, i, i)
    BY <2>4, Zenon DEF Piece, S
  <2>6. Len(SubSeq(text, i, i)) = 1
    BY <1>0 DEF TextOK
  <2>7. Len(<<"/", "*">>) = 2
    OBVIOUS
  <2>8. Len(SubSeq(text, i, i)) = 2
    BY <2>5, <2>7, Zenon
  <2> QED
    BY <2>6, <2>8
<1> QED
  BY <1>0, <1>1, <1>2

LEMMA NextSame ==
  ASSUME TextOK, NEW i \in 1..Len(text), ~IsTrivia(i)
  PROVE  LexesAt(i)
<1>0. Len(text) \in Nat /\ i \in Nat /\ i >= 1 /\ i \in Places
  BY LengthNat DEF Places
<1> DEFINE l == NextToken(i)
           e == i + Len(Word(i)) - 1
<1>1. CASE At(i) \in Letter
  <2>1. /\ l.next = i + Len(Word(i)) /\ l.bad = FALSE
        /\ l.token = Token("ident", Word(i), <<>>) /\ e \in i..Len(text)
    BY <1>0, <1>1, IdentSame, NextKinds
  <2>2. CLexeme(i) = Lexeme(e, <<Token("ident", Word(i), <<>>)>>)
    BY <1>1, LexemeKinds
  <2> HIDE DEF l
  <2>5. PICK n : n = Len(Word(i))
    OBVIOUS
  <2>4. Len(Word(i)) \in Nat
    <3>1. Len(Word(i)) = LastOf(i) - i + 1 /\ LastOf(i) \in i..Len(text)
      BY <1>0, <1>1, LetterSets, WordIs
    <3> QED
      BY <1>0, <3>1
  <2>6. l.next = e + 1
    BY <1>0, <2>1, <2>4
  <2> HIDE DEF e
  <2> QED
    BY <1>0, <2>1, <2>2, <2>6, LexesAtToken DEF l
<1>2. CASE At(i) \in DigitsOf(10)
  <2>1. /\ l.next \in Places /\ l.next > i
        /\ LegalNumbers(Word(i)) /= {} => /\ l.bad = FALSE /\ l.next = LastOf(i) + 1
              /\ \A c \in LegalNumbers(Word(i)) : l.token = Token("number", <<>>, <<ReadIn(c.base, c.digits)>>)
        /\ LegalNumbers(Word(i)) = {} => l.bad = TRUE \/ Tolerated(i)
    <3>1. NumberAgrees(i) /\ NextToken(i) = LexNumber(i)
      BY <1>0, <1>2, NumberSame, NextKinds
    <3> QED
      BY <3>1, Zenon DEF NumberAgrees
  <2> HIDE DEF l
  <2>2. CASE LegalNumbers(Word(i)) = {}
    <3>1. CLexeme(i) = Lexeme(0, <<>>)
      BY <1>2, <2>2, LexemeKinds
    <3> QED
      BY <2>1, <2>2, <3>1, LexesAtNone DEF l
  <2>3. CASE LegalNumbers(Word(i)) /= {}
    <3>1. PICK c \in LegalNumbers(Word(i)) :
             CLexeme(i) = Lexeme(e, <<Token("number", <<>>, <<ReadIn(c.base, c.digits)>>)>>)
      BY <1>2, <2>3, LexemeKinds
    <3>2. Len(Word(i)) = LastOf(i) - i + 1 /\ LastOf(i) \in i..Len(text)
      BY <1>0, <1>2, LetterSets, WordIs
    <3>3. e = LastOf(i)
      BY <1>0, <3>2
    <3> HIDE DEF e
    <3>4. PICK t : t = Token("number", <<>>, <<ReadIn(c.base, c.digits)>>)
      OBVIOUS
    <3>5. l.token = t /\ l.next = e + 1 /\ l.bad = FALSE /\ e \in i..Len(text)
      BY <2>1, <2>3, <3>2, <3>3, <3>4
    <3> QED
      BY <1>0, <3>1, <3>4, <3>5, LexesAtToken DEF l
  <2> QED
    BY <2>2, <2>3
<1>3. CASE At(i) \in Quotes
  <2> DEFINE kind == IF At(i) = SingleQuote THEN "char" ELSE "string"
             large == \E v \in Range(Values(i)) : v > 255
  <2>1. /\ l.next \in Places /\ l.next > i
        /\ LiteralEnd(i) = 0 => l.bad = TRUE \/ Tolerated(i)
        /\ LiteralEnd(i) /= 0 =>
             /\ LiteralEnd(i) \in i..Len(text) /\ l.bad = FALSE /\ l.next = LiteralEnd(i) + 1
             /\ (\A v \in Range(Values(i)) : v <= 255) => l.token = Token(kind, <<>>, Values(i))
    BY <1>0, <1>3, LiteralToken, Zenon
  <2>2. LiteralEnd(i) \in Nat /\ (~large => \A v \in Range(Values(i)) : v <= 255)
    BY <1>0, <1>3, LiteralValues
  <2>3. (LiteralEnd(i) = 0 \/ large => CLexeme(i) = Lexeme(0, <<>>))
        /\ (~(LiteralEnd(i) = 0 \/ large) => CLexeme(i) = Lexeme(LiteralEnd(i), <<Token(kind, <<>>, Values(i))>>))
    BY <1>3, LexemeKinds, Zenon
  <2>4. LiteralEnd(i) > 0 /\ large => Tolerated(i)
    BY <1>3, QuotesAre, Zenon DEF Tolerated
  <2> HIDE DEF l, kind, large
  <2>5. CASE LiteralEnd(i) = 0 \/ large
    <3>1. l.bad = TRUE \/ Tolerated(i)
      BY <2>1, <2>2, <2>4, <2>5
    <3> QED
      BY <2>1, <2>3, <2>5, <3>1, LexesAtNone DEF l
  <2>6. CASE ~(LiteralEnd(i) = 0 \/ large)
    <3>1. PICK t : t = Token(kind, <<>>, Values(i))
      OBVIOUS
    <3>2. PICK n \in i..Len(text) : n = LiteralEnd(i) /\ l.next = n + 1
      BY <2>1, <2>6
    <3>3. CLexeme(i) = Lexeme(n, <<t>>) /\ l.token = t /\ l.bad = FALSE
      BY <2>1, <2>2, <2>3, <2>6, <3>1, <3>2
    <3> QED
      BY <1>0, <3>2, <3>3, LexesAtToken DEF l
  <2> QED
    BY <2>5, <2>6
<1>4. CASE IsOther(i)
  <2>1. /\ l.next \in Places /\ l.next > i
        /\ OperatorEnd(i) = 0 => l.bad = TRUE
        /\ OperatorEnd(i) /= 0 => /\ OperatorEnd(i) \in i..Len(text) /\ l.bad = FALSE /\ l.next = OperatorEnd(i) + 1
                                  /\ l.token = Token("operator", Piece(i, OperatorEnd(i)), <<>>)
    <3>1. OperatorAgrees(i) /\ NextToken(i) = LexOperator(i)
      BY <1>4, OperatorSame, NextKinds
    <3> QED
      BY <3>1, Zenon DEF OperatorAgrees
  <2>2. CommentEnd(i) = 0 /\ ~(CommentEnd(i) > 0)
    <3>1. At(i) /= "/" \/ At(i + 1) \notin {"/", "*"}
      BY DEF IsTrivia
    <3>2. CommentEnd(i) = 0
      BY <3>1, CommentEnds
    <3> QED
      BY <3>2
  <2>3. Piece(i, i + 1) /= <<"/", "*">>
    BY OpensComment DEF IsTrivia
  <2> HIDE DEF l
  <2>4. CASE OperatorEnd(i) = 0
    <3>1. CLexeme(i) = Lexeme(0, <<>>)
      BY <1>4, <2>2, <2>3, <2>4, LexemeKinds
    <3> QED
      BY <2>1, <2>4, <3>1, LexesAtNone DEF l
  <2>5. CASE OperatorEnd(i) /= 0
    <3>1. PICK n \in i..Len(text) : n = OperatorEnd(i) /\ l.next = n + 1
      BY <2>1, <2>5
    <3>2. PICK t : t = Token("operator", Piece(i, OperatorEnd(i)), <<>>)
      OBVIOUS
    <3>3. CLexeme(i) = Lexeme(n, <<t>>)
      BY <1>4, <2>2, <2>3, <2>5, <3>1, <3>2, LexemeKinds
    <3> QED
      BY <1>0, <2>1, <2>5, <3>1, <3>2, <3>3, LexesAtToken DEF l
  <2> QED
    BY <2>4, <2>5
<1> QED
  BY <1>1, <1>2, <1>3, <1>4 DEF IsOther, IsTrivia

(***************************************************************************)
(* Blanks and comments.                                                    *)
(***************************************************************************)
(* A comment that begins at i and is not closed. *)
IsOpen(i) == At(i) = "/" /\ At(i + 1) = "*" /\ Closes(i) = {}
Trivias == [next : Places, bad : BOOLEAN]
TriviaStop == {i \in Places : IsOpen(i) \/ (~IsTrivia(i) /\ At(i) /= "#")}
TriviaNext(i) ==
  IF i \in TriviaStop THEN i
  ELSE IF At(i) \in {" ", "NL"} THEN i + 1
  ELSE IF At(i) = "/" /\ At(i + 1) = "*" THEN Min(Closes(i)) + 2
  ELSE LineEnd(i)
TriviaRow(i) == IF IsOpen(i) THEN [next |-> Len(text) + 1, bad |-> TRUE] ELSE [next |-> i, bad |-> FALSE]
TriviaStep(i, rest) == IF At(i) = "#" THEN [rest EXCEPT !.bad = TRUE] ELSE rest

LEMMA TriviaTypes ==
  ASSUME TextOK, NEW i \in Places
  PROVE  /\ TriviaNext(i) \in Places /\ TriviaRow(i) \in Trivias
         /\ i \notin TriviaStop => TriviaNext(i) > i /\ i \in 1..Len(text)
         /\ \A r \in Trivias : TriviaStep(i, r) \in Trivias
<1>0. Len(text) \in Nat /\ i \in Nat /\ i >= 1 /\ Len(text) + 1 \in Places
  BY LengthNat DEF Places
<1>1. TriviaRow(i) \in Trivias
  <2>1. CASE IsOpen(i)
    <3>1. TriviaRow(i) = [next |-> Len(text) + 1, bad |-> TRUE]
      BY <2>1 DEF TriviaRow
    <3> QED
      BY <1>0, <3>1 DEF Trivias
  <2>2. CASE ~IsOpen(i)
    <3>1. TriviaRow(i) = [next |-> i, bad |-> FALSE]
      BY <2>2 DEF TriviaRow
    <3> QED
      BY <3>1 DEF Trivias
  <2> QED
    BY <2>1, <2>2
<1>2. ASSUME NEW r \in Trivias PROVE TriviaStep(i, r) \in Trivias
  BY DEF TriviaStep, Trivias
<1>3. CASE i \in TriviaStop
  <2>1. TriviaNext(i) = i
    BY <1>3 DEF TriviaNext
  <2> QED
    BY <1>1, <1>2, <1>3, <2>1
<1>4. CASE i \notin TriviaStop
  <2>1. ~IsOpen(i) /\ (IsTrivia(i) \/ At(i) = "#")
    BY <1>4 DEF TriviaStop
  <2>2. At(i) /= "end" /\ i \in 1..Len(text) /\ i + 1 \in Places
    <3>1. At(i) /= "end"
      BY <2>1 DEF IsTrivia
    <3> QED
      BY <3>1, EndIs
  <2>3. CASE At(i) \in {" ", "NL"}
    <3>1. TriviaNext(i) = i + 1
      BY <1>4, <2>3 DEF TriviaNext
    <3> QED
      BY <1>0, <1>1, <1>2, <2>2, <3>1
  <2>4. CASE At(i) = "/" /\ At(i + 1) = "*"
    <3>1. TriviaNext(i) = Min(Closes(i)) + 2
      BY <1>4, <2>4 DEF TriviaNext
    <3>2. Closes(i) /= {}
      BY <2>1, <2>4 DEF IsOpen
    <3>3. CommentEnd(i) \in i..Len(text) /\ CommentEnd(i) + 1 = Min(Closes(i)) + 2
      BY <2>2, <2>4, <3>2, CommentEnds
    <3>4. CommentEnd(i) + 1 \in Places /\ CommentEnd(i) + 1 > i
      BY <1>0, <3>3 DEF Places
    <3> QED
      BY <1>1, <1>2, <2>2, <3>1, <3>3, <3>4
  <2>5. CASE At(i) \notin {" ", "NL"} /\ ~(At(i) = "/" /\ At(i + 1) = "*")
    <3>1. TriviaNext(i) = LineEnd(i)
      BY <1>4, <2>5 DEF TriviaNext
    <3>2. LineEnd(i) \in (i + 1)..(Len(text) + 1) /\ LineEnd(i) \in Places
      BY <2>2, <2>5, LineEnds
    <3>3. LineEnd(i) > i
      BY <1>0, <3>2
    <3> QED
      BY <1>1, <1>2, <2>2, <3>1, <3>2, <3>3
  <2> QED
    BY <2>3, <2>4, <2>5
<1> QED
  BY <1>3, <1>4

LEMMA TriviaIs ==
  ASSUME TextOK
  PROVE  \A i \in Places :
           /\ SkipTrivia[i] \in Trivias
           /\ i \in TriviaStop => SkipTrivia[i] = TriviaRow(i)
           /\ i \notin TriviaStop => SkipTrivia[i] = TriviaStep(i, SkipTrivia[TriviaNext(i)])
<1>0. Len(text) \in Nat /\ \A i \in Places : i \in Nat /\ i <= Len(text) + 1
  BY LengthNat DEF Places
<1> DEFINE rank == [i \in Places |-> Len(text) + 1 - i]
           nxt == [i \in Places |-> TriviaNext(i)]
           base == [i \in Places |-> TriviaRow(i)]
           g == [p \in Places \X Trivias |-> IF p[1] \in TriviaStop THEN base[p[1]] ELSE TriviaStep(p[1], p[2])]
           G(s) ==
             [i \in Places |->
               LET closing == {j \in (i + 2)..Len(text) : At(j) = "*" /\ At(j + 1) = "/"}
                   line == s[LineEnd(i)]
               IN  CASE At(i) \in {" ", "NL"} -> s[i + 1]
                     [] At(i) = "/" /\ At(i + 1) = "/" -> line
                     [] At(i) = "/" /\ At(i + 1) = "*" ->
                          IF closing = {} THEN [next |-> Len(text) + 1, bad |-> TRUE]
                          ELSE s[Min(closing) + 2]
                     [] At(i) = "#" -> [line EXCEPT !.bad = TRUE]
                     [] OTHER -> [next |-> i, bad |-> FALSE]]
<1>1. \A i \in Places : base[i] \in Trivias
  BY TriviaTypes
<1>2. Descends(Places, Trivias, Len(text) + 1, rank, TriviaStop, nxt, base, g)
  <2>1. base \in [Places -> Trivias]
    BY <1>1
  <2>2. g \in [Places \X Trivias -> Trivias]
    <3> SUFFICES ASSUME NEW i \in Places, NEW r \in Trivias
                 PROVE (IF i \in TriviaStop THEN base[i] ELSE TriviaStep(i, r)) \in Trivias
      OBVIOUS
    <3>1. TriviaStep(i, r) \in Trivias
      BY TriviaTypes
    <3> QED
      BY <1>1, <3>1
  <2>3. nxt \in [Places -> Places] /\ \A i \in Places \ TriviaStop : nxt[i] > i /\ nxt[i] \in Places
    BY TriviaTypes
  <2>4. rank \in [Places -> 0..(Len(text) + 1)]
    BY <1>0
  <2>5. \A i \in Places \ TriviaStop : rank[nxt[i]] < rank[i]
    <3> TAKE i \in Places \ TriviaStop
    <3>1. nxt[i] > i /\ nxt[i] \in Places
      BY <2>3
    <3> HIDE DEF nxt
    <3> QED
      BY <1>0, <3>1
  <2>6. Len(text) + 1 \in Nat
    BY <1>0
  <2>7. TriviaStop \subseteq Places
    BY DEF TriviaStop
  <2> HIDE DEF base, g, nxt, rank
  <2> QED
    BY <2>1, <2>2, <2>3, <2>4, <2>5, <2>6, <2>7 DEF Descends
<1>3. ASSUME NEW s, NEW i \in Places
      PROVE  G(s)[i] = IF i \in TriviaStop THEN TriviaRow(i) ELSE TriviaStep(i, s[TriviaNext(i)])
  <2> DEFINE closing == {j \in (i + 2)..Len(text) : At(j) = "*" /\ At(j + 1) = "/"}
             line == s[LineEnd(i)]
             open == IF closing = {} THEN [next |-> Len(text) + 1, bad |-> TRUE] ELSE s[Min(closing) + 2]
             marked == [line EXCEPT !.bad = TRUE]
             c == G(s)[i]
  <2>1. c = CASE At(i) \in {" ", "NL"} -> s[i + 1]
              [] At(i) = "/" /\ At(i + 1) = "/" -> line
              [] At(i) = "/" /\ At(i + 1) = "*" -> open
              [] At(i) = "#" -> marked
              [] OTHER -> [next |-> i, bad |-> FALSE]
    BY Zenon
  <2>2. closing = Closes(i)
    BY DEF Closes
  <2> HIDE DEF closing, line, open, marked, c
  <2>3. CASE At(i) \in {" ", "NL"}
    <3>1. c = s[i + 1]
      BY <2>1, <2>3
    <3>2. i \notin TriviaStop /\ TriviaNext(i) = i + 1
      BY <2>3 DEF TriviaStop, IsTrivia, IsOpen, TriviaNext
    <3>3. TriviaStep(i, s[i + 1]) = s[i + 1]
      BY <2>3 DEF TriviaStep
    <3> QED
      BY <3>1, <3>2, <3>3 DEF c
  <2>4. CASE At(i) = "/" /\ At(i + 1) = "/"
    <3>1. c = line
      BY <2>1, <2>4
    <3>2. i \notin TriviaStop /\ TriviaNext(i) = LineEnd(i)
      BY <2>4 DEF TriviaStop, IsTrivia, IsOpen, TriviaNext
    <3>3. TriviaStep(i, line) = line
      BY <2>4 DEF TriviaStep
    <3> QED
      BY <3>1, <3>2, <3>3 DEF c, line
  <2>5. CASE At(i) = "/" /\ At(i + 1) = "*"
    <3>1. c = open
      BY <2>1, <2>5
    <3>2. CASE closing = {}
      <4>1. IsOpen(i) /\ i \in TriviaStop
        BY <2>2, <2>5, <3>2 DEF IsOpen, TriviaStop
      <4>2. open = [next |-> Len(text) + 1, bad |-> TRUE]
        BY <3>2 DEF open
      <4>3. TriviaRow(i) = [next |-> Len(text) + 1, bad |-> TRUE]
        BY <4>1 DEF TriviaRow
      <4> QED
        BY <3>1, <4>1, <4>2, <4>3 DEF c
    <3>3. CASE closing /= {}
      <4>1. i \notin TriviaStop
        BY <2>2, <2>5, <3>3 DEF IsOpen, TriviaStop, IsTrivia
      <4>2. open = s[Min(closing) + 2]
        BY <3>3 DEF open
      <4>3. TriviaNext(i) = Min(closing) + 2
        BY <2>2, <2>5, <4>1 DEF TriviaNext
      <4>4. TriviaStep(i, s[Min(closing) + 2]) = s[Min(closing) + 2]
        BY <2>5 DEF TriviaStep
      <4> QED
        BY <3>1, <4>1, <4>2, <4>3, <4>4 DEF c
    <3> QED
      BY <3>2, <3>3
  <2>6. CASE At(i) = "#"
    <3>1. c = marked
      BY <2>1, <2>6
    <3>2. i \notin TriviaStop /\ TriviaNext(i) = LineEnd(i)
      BY <2>6 DEF TriviaStop, IsTrivia, IsOpen, TriviaNext
    <3>3. TriviaStep(i, line) = marked
      BY <2>6 DEF TriviaStep, marked
    <3> QED
      BY <3>1, <3>2, <3>3 DEF c, line
  <2>7. CASE ~IsTrivia(i) /\ At(i) /= "#"
    <3>1. c = [next |-> i, bad |-> FALSE]
      BY <2>1, <2>7 DEF IsTrivia
    <3>2. i \in TriviaStop /\ ~IsOpen(i)
      BY <2>7 DEF TriviaStop, IsTrivia, IsOpen
    <3>3. TriviaRow(i) = [next |-> i, bad |-> FALSE]
      BY <3>2 DEF TriviaRow
    <3> QED
      BY <3>1, <3>2, <3>3 DEF c
  <2> QED
    BY <2>3, <2>4, <2>5, <2>6, <2>7 DEF IsTrivia
<1>4. PICK f \in [Places -> Trivias] : Solves(f, Places, TriviaStop, nxt, base, g)
  <2> HIDE DEF base, g, nxt, rank
  <2> QED
    BY <1>2, Recursion, Zenon
<1>5. f = G(f)
  <2>1. ASSUME NEW i \in Places
        PROVE  f[i] = IF i \in TriviaStop THEN TriviaRow(i) ELSE TriviaStep(i, f[TriviaNext(i)])
    <3>1. f[i] = IF i \in TriviaStop THEN base[i] ELSE g[<<i, f[nxt[i]]>>]
      BY <1>4 DEF Solves
    <3>2. nxt[i] = TriviaNext(i) /\ TriviaNext(i) \in Places
      BY TriviaTypes
    <3>3. CASE i \in TriviaStop
      BY <3>1, <3>3
    <3>4. CASE i \notin TriviaStop
      <4>1. <<i, f[nxt[i]]>> \in Places \X Trivias
        BY <3>2
      <4>2. g[<<i, f[nxt[i]]>>] = TriviaStep(i, f[nxt[i]])
        BY <3>4, <4>1
      <4> HIDE DEF g, nxt
      <4> QED
        BY <3>1, <3>2, <3>4, <4>2
    <3> QED
      BY <3>3, <3>4
  <2>2. \A i \in Places : f[i] = G(f)[i]
    <3> HIDE DEF G
    <3> QED
      BY <1>3, <2>1
  <2>3. f = [i \in Places |-> f[i]] /\ G(f) = [i \in Places |-> G(f)[i]]
    OBVIOUS
  <2> HIDE DEF G
  <2> QED
    BY <2>2, <2>3
<1>6. SkipTrivia = G(SkipTrivia)
  <2>1. SkipTrivia = CHOOSE s : s = G(s)
    BY Zenon DEF SkipTrivia
  <2> HIDE DEF G
  <2> QED
    BY <1>5, <2>1
<1>7. ASSUME NEW i \in Places
      PROVE  SkipTrivia[i] = IF i \in TriviaStop THEN TriviaRow(i) ELSE TriviaStep(i, SkipTrivia[TriviaNext(i)])
  <2> HIDE DEF G
  <2> QED
    BY <1>3, <1>6
<1>8. \A i \in Places : SkipTrivia[i] \in Trivias
  <2>1. \A i \in Places : i \in TriviaStop => SkipTrivia[i] = base[i]
    BY <1>7
  <2>2. \A i \in Places : i \notin TriviaStop /\ SkipTrivia[nxt[i]] \in Trivias =>
          SkipTrivia[i] = g[<<i, SkipTrivia[nxt[i]]>>]
    <3> TAKE i \in Places
    <3> HAVE i \notin TriviaStop /\ SkipTrivia[nxt[i]] \in Trivias
    <3>1. <<i, SkipTrivia[nxt[i]]>> \in Places \X Trivias /\ nxt[i] = TriviaNext(i)
      OBVIOUS
    <3>2. g[<<i, SkipTrivia[nxt[i]]>>] = TriviaStep(i, SkipTrivia[nxt[i]])
      BY <3>1
    <3> HIDE DEF g, nxt
    <3> QED
      BY <1>7, <3>1, <3>2
  <2>3. Obeys(SkipTrivia, Places, Trivias, TriviaStop, nxt, base, g)
    <3> HIDE DEF base, g, nxt
    <3> QED
      BY <2>1, <2>2, Zenon DEF Obeys
  <2> HIDE DEF base, g, nxt, rank
  <2> QED
    BY <1>2, <2>3, Recursive, Zenon
<1> QED
  BY <1>7, <1>8

(* Behind blanks and comments are no more of them. *)
LEMMA TriviaDone ==
  ASSUME TextOK
  PROVE  \A i \in Places : /\ SkipTrivia[i].next \in Places /\ SkipTrivia[i].next >= i
                           /\ ~IsTrivia(SkipTrivia[i].next)
                           /\ SkipTrivia[i].bad \in BOOLEAN
<1>0. Len(text) \in Nat /\ Len(text) + 1 \in Places /\ \A i \in Places : i \in Nat /\ i <= Len(text) + 1
  BY LengthNat DEF Places
<1> DEFINE B == {i \in Places : SkipTrivia[i].next >= i /\ ~IsTrivia(SkipTrivia[i].next)}
<1>1. ASSUME NEW i \in Places, \A j \in Places : j > i => j \in B
      PROVE  i \in B
  <2>1. CASE i \in TriviaStop
    <3>1. SkipTrivia[i] = TriviaRow(i)
      BY <2>1, TriviaIs
    <3>2. CASE IsOpen(i)
      <4>1. PICK n \in Places : n = Len(text) + 1
        BY <1>0
      <4>2. SkipTrivia[i].next = n
        BY <3>1, <3>2, <4>1 DEF TriviaRow
      <4>3. At(n) = "end"
        BY <4>1, AtIs
      <4>4. ~IsTrivia(n)
        BY <4>3 DEF IsTrivia
      <4> QED
        BY <1>0, <4>1, <4>2, <4>4
    <3>3. CASE ~IsOpen(i)
      <4>1. SkipTrivia[i].next = i
        BY <3>1, <3>3 DEF TriviaRow
      <4>2. ~IsTrivia(i)
        BY <2>1, <3>3 DEF TriviaStop
      <4> QED
        BY <1>0, <4>1, <4>2
    <3> QED
      BY <3>2, <3>3
  <2>2. CASE i \notin TriviaStop
    <3>1. SkipTrivia[i] = TriviaStep(i, SkipTrivia[TriviaNext(i)])
      BY <2>2, TriviaIs
    <3>2. PICK n \in Places : n = TriviaNext(i) /\ n > i
      BY <2>2, TriviaTypes
    <3>3. PICK r \in Trivias : r = SkipTrivia[n]
      BY TriviaIs
    <3>4. r.next >= n /\ ~IsTrivia(r.next) /\ r.next \in Places
      BY <1>1, <3>2, <3>3 DEF Trivias
    <3>5. TriviaStep(i, r).next = r.next
      BY DEF TriviaStep, Trivias
    <3>6. SkipTrivia[i].next = r.next
      BY <3>1, <3>2, <3>3, <3>5, Zenon
    <3>7. r.next >= i
      BY <1>0, <3>2, <3>4
    <3> QED
      BY <3>4, <3>6, <3>7
  <2> QED
    BY <2>1, <2>2
<1>2. B = Places
  <2> HIDE DEF B
  <2>1. B \in SUBSET Places
    BY DEF B
  <2> QED
    BY <1>1, <2>1, Descending
<1>3. \A i \in Places : SkipTrivia[i].next \in Places /\ SkipTrivia[i].bad \in BOOLEAN
  BY TriviaIs DEF Trivias
<1> QED
  BY <1>2, <1>3

(***************************************************************************)
(* The tokens of the grammar, from a place on.                             *)
(***************************************************************************)
CTypes == {CLexeme(i).tokens[1] : i \in Places}
CRows == [tokens : Seq(CTypes), wrong : Nat]
CStop == {i \in Places : i > Len(text) \/ CLexeme(i).end = 0}
CNext(i) == IF i \in CStop THEN i ELSE CLexeme(i).end + 1
CRow(i) == [tokens |-> <<>>, wrong |-> IF i > Len(text) THEN 0 ELSE i]
CStep(i, rest) == [tokens |-> CLexeme(i).tokens \o rest.tokens, wrong |-> rest.wrong]

LEMMA TriviaLexeme ==
  ASSUME TextOK, NEW i \in 1..Len(text), IsTrivia(i)
  PROVE  /\ IsOpen(i) => CLexeme(i) = Lexeme(0, <<>>)
         /\ ~IsOpen(i) => \E e \in i..Len(text) : e /= 0 /\ e + 1 = TriviaNext(i) /\ CLexeme(i) = Lexeme(e, <<>>)
<1>0. Len(text) \in Nat /\ i \in Nat /\ i >= 1 /\ i \in Places
  BY LengthNat DEF Places
<1>1. CASE At(i) \in {" ", "NL"}
  <2>1. ~IsOpen(i) /\ i \notin TriviaStop
    BY <1>1 DEF IsOpen, TriviaStop, IsTrivia
  <2>2. TriviaNext(i) = i + 1
    BY <1>1, <2>1 DEF TriviaNext
  <2>3. CLexeme(i) = Lexeme(i, <<>>)
    BY <1>1, LexemeKinds
  <2>4. i \in i..Len(text) /\ i /= 0
    BY <1>0
  <2> QED
    BY <2>1, <2>2, <2>3, <2>4
<1>2. CASE At(i) = "/" /\ At(i + 1) = "/"
  <2>1. ~IsOpen(i) /\ i \notin TriviaStop /\ IsOther(i)
    BY <1>2, KindsDiffer DEF IsOpen, TriviaStop, IsTrivia, IsOther
  <2>2. TriviaNext(i) = LineEnd(i)
    BY <1>2, <2>1 DEF TriviaNext
  <2>3. CommentEnd(i) \in i..Len(text) /\ CommentEnd(i) /= 0 /\ CommentEnd(i) + 1 = LineEnd(i)
    BY <1>2, CommentEnds
  <2>4. CommentEnd(i) > 0
    BY <1>0, <2>3
  <2>5. CLexeme(i) = Lexeme(CommentEnd(i), <<>>)
    BY <2>1, <2>4, LexemeKinds
  <2> QED
    BY <2>1, <2>2, <2>3, <2>5
<1>3. CASE At(i) = "/" /\ At(i + 1) = "*"
  <2>1. IsOther(i)
    BY <1>3, KindsDiffer DEF IsOther
  <2>2. CASE IsOpen(i)
    <3>1. CommentEnd(i) = 0 /\ Piece(i, i + 1) = <<"/", "*">>
      BY <1>3, <2>2, CommentEnds DEF IsOpen
    <3>2. ~(CommentEnd(i) > 0)
      BY <3>1
    <3>3. CLexeme(i) = Lexeme(0, <<>>)
      BY <2>1, <3>1, <3>2, LexemeKinds
    <3> QED
      BY <2>2, <3>3
  <2>3. CASE ~IsOpen(i)
    <3>1. i \notin TriviaStop /\ Closes(i) /= {}
      BY <1>3, <2>3 DEF IsOpen, TriviaStop, IsTrivia
    <3>2. TriviaNext(i) = Min(Closes(i)) + 2
      BY <1>3, <3>1 DEF TriviaNext
    <3>3. CommentEnd(i) \in i..Len(text) /\ CommentEnd(i) /= 0 /\ CommentEnd(i) + 1 = Min(Closes(i)) + 2
      BY <1>3, <3>1, CommentEnds
    <3>4. CommentEnd(i) > 0
      BY <1>0, <3>3
    <3>5. CLexeme(i) = Lexeme(CommentEnd(i), <<>>)
      BY <2>1, <3>4, LexemeKinds
    <3> QED
      BY <2>3, <3>2, <3>3, <3>5
  <2> QED
    BY <2>2, <2>3
<1> QED
  BY <1>1, <1>2, <1>3 DEF IsTrivia

LEMMA LexemeTypes ==
  ASSUME TextOK, NEW i \in 1..Len(text), CLexeme(i).end /= 0
  PROVE  CLexeme(i).end \in i..Len(text) /\ CLexeme(i).tokens \in Seq(CTypes)
<1>0. Len(text) \in Nat /\ i \in Nat /\ i >= 1 /\ i \in Places
  BY LengthNat DEF Places
<1> DEFINE t == CLexeme(i).tokens
<1>1. CASE IsTrivia(i)
  <2>1. ~IsOpen(i)
    BY <1>1, TriviaLexeme, LexemeFields
  <2>2. PICK e \in i..Len(text) : CLexeme(i) = Lexeme(e, <<>>)
    BY <1>1, <2>1, TriviaLexeme
  <2>3. CLexeme(i).end = e /\ t = <<>>
    BY <2>2, LexemeFields
  <2>4. <<>> \in Seq(CTypes)
    OBVIOUS
  <2> QED
    BY <2>3, <2>4
<1>2. CASE ~IsTrivia(i)
  <2>1. CLexeme(i).end \in i..Len(text) /\ t = <<NextToken(i).token>>
    BY <1>2, NextSame, Zenon DEF LexesAt
  <2>2. t[1] \in CTypes
    BY <1>0 DEF CTypes
  <2> HIDE DEF t
  <2>3. t[1] = NextToken(i).token
    BY <2>1
  <2>4. PICK c \in CTypes : t = <<c>>
    BY <2>1, <2>2, <2>3
  <2>6. <<c>> \in Seq(CTypes)
    OBVIOUS
  <2>5. t \in Seq(CTypes)
    BY <2>4, <2>6
  <2> QED
    BY <2>1, <2>5 DEF t
<1> QED
  BY <1>1, <1>2

LEMMA CTypesAre ==
  ASSUME TextOK, NEW i \in Places
  PROVE  /\ CNext(i) \in Places /\ CRow(i) \in CRows
         /\ i \notin CStop => /\ CNext(i) > i /\ i \in 1..Len(text) /\ CLexeme(i).end /= 0
                              /\ CNext(i) = CLexeme(i).end + 1
                              /\ \A r \in CRows : CStep(i, r) \in CRows
<1>0. Len(text) \in Nat /\ i \in Nat /\ i >= 1
  BY LengthNat DEF Places
<1>1. CRow(i) \in CRows
  <2>1. <<>> \in Seq(CTypes)
    OBVIOUS
  <2> QED
    BY <1>0, <2>1 DEF CRow, CRows
<1>2. CASE i \in CStop
  BY <1>1, <1>2 DEF CNext
<1>3. CASE i \notin CStop
  <2>1. i \in 1..Len(text) /\ CLexeme(i).end /= 0
    BY <1>0, <1>3 DEF CStop, Places
  <2>2. CLexeme(i).end \in i..Len(text) /\ CLexeme(i).tokens \in Seq(CTypes)
    BY <2>1, LexemeTypes
  <2>3. CNext(i) = CLexeme(i).end + 1
    BY <1>3 DEF CNext
  <2>4. CNext(i) > i /\ CNext(i) \in Places
    BY <1>0, <2>2, <2>3 DEF Places
  <2>5. ASSUME NEW r \in CRows PROVE CStep(i, r) \in CRows
    <3>1. r.tokens \in Seq(CTypes) /\ r.wrong \in Nat
      BY DEF CRows
    <3>2. CLexeme(i).tokens \o r.tokens \in Seq(CTypes)
      BY <2>2, <3>1, ConcatProperties
    <3> QED
      BY <3>1, <3>2 DEF CStep, CRows
  <2> QED
    BY <1>1, <2>1, <2>3, <2>4, <2>5
<1> QED
  BY <1>2, <1>3

LEMMA CTokensAre ==
  ASSUME TextOK
  PROVE  \A i \in Places :
           /\ CTokens[i] \in CRows
           /\ i \in CStop => CTokens[i] = CRow(i)
           /\ i \notin CStop => CTokens[i] = CStep(i, CTokens[CNext(i)])
<1>0. Len(text) \in Nat /\ \A i \in Places : i \in Nat /\ i <= Len(text) + 1
  BY LengthNat DEF Places
<1> DEFINE rank == [i \in Places |-> Len(text) + 1 - i]
           nxt == [i \in Places |-> CNext(i)]
           base == [i \in Places |-> CRow(i)]
           g == [p \in Places \X CRows |-> IF p[1] \in CStop THEN base[p[1]] ELSE CStep(p[1], p[2])]
           G(s) ==
             [i \in Places |->
               LET lexeme == CLexeme(i)
                   rest == s[lexeme.end + 1]
               IN  CASE i > Len(text) -> [tokens |-> <<>>, wrong |-> 0]
                     [] i <= Len(text) /\ lexeme.end = 0 -> [tokens |-> <<>>, wrong |-> i]
                     [] OTHER -> [tokens |-> lexeme.tokens \o rest.tokens, wrong |-> rest.wrong]]
<1>1. \A i \in Places : base[i] \in CRows
  BY CTypesAre
<1>2. Descends(Places, CRows, Len(text) + 1, rank, CStop, nxt, base, g)
  <2>1. base \in [Places -> CRows]
    BY <1>1
  <2>2. g \in [Places \X CRows -> CRows]
    <3> SUFFICES ASSUME NEW i \in Places, NEW r \in CRows
                 PROVE (IF i \in CStop THEN base[i] ELSE CStep(i, r)) \in CRows
      OBVIOUS
    <3>1. i \notin CStop => CStep(i, r) \in CRows
      BY CTypesAre
    <3> QED
      BY <1>1, <3>1
  <2>3. nxt \in [Places -> Places] /\ \A i \in Places \ CStop : nxt[i] > i /\ nxt[i] \in Places
    BY CTypesAre
  <2>4. rank \in [Places -> 0..(Len(text) + 1)]
    BY <1>0
  <2>5. \A i \in Places \ CStop : rank[nxt[i]] < rank[i]
    <3> TAKE i \in Places \ CStop
    <3>1. nxt[i] > i /\ nxt[i] \in Places
      BY <2>3
    <3> HIDE DEF nxt
    <3> QED
      BY <1>0, <3>1
  <2>6. Len(text) + 1 \in Nat
    BY <1>0
  <2>7. CStop \subseteq Places
    BY DEF CStop
  <2> HIDE DEF base, g, nxt, rank
  <2> QED
    BY <2>1, <2>2, <2>3, <2>4, <2>5, <2>6, <2>7 DEF Descends
<1>3. ASSUME NEW s, NEW i \in Places
      PROVE  G(s)[i] = IF i \in CStop THEN CRow(i) ELSE CStep(i, s[CNext(i)])
  <2> DEFINE step == [tokens |-> CLexeme(i).tokens \o s[CLexeme(i).end + 1].tokens,
                      wrong |-> s[CLexeme(i).end + 1].wrong]
             c == G(s)[i]
  <2>1. c = CASE i > Len(text) -> [tokens |-> <<>>, wrong |-> 0]
              [] i <= Len(text) /\ CLexeme(i).end = 0 -> [tokens |-> <<>>, wrong |-> i]
              [] OTHER -> step
    BY Zenon
  <2> HIDE DEF c, step
  <2>2. CASE i > Len(text)
    <3>1. c = [tokens |-> <<>>, wrong |-> 0]
      BY <1>0, <2>1, <2>2
    <3>2. i \in CStop /\ CRow(i) = [tokens |-> <<>>, wrong |-> 0]
      BY <2>2 DEF CStop, CRow
    <3> QED
      BY <3>1, <3>2 DEF c
  <2>3. CASE i <= Len(text) /\ CLexeme(i).end = 0
    <3>1. c = [tokens |-> <<>>, wrong |-> i]
      BY <1>0, <2>1, <2>3
    <3>2. i \in CStop /\ CRow(i) = [tokens |-> <<>>, wrong |-> i]
      BY <1>0, <2>3 DEF CStop, CRow
    <3> QED
      BY <3>1, <3>2 DEF c
  <2>4. CASE i <= Len(text) /\ CLexeme(i).end /= 0
    <3>1. c = step
      BY <1>0, <2>1, <2>4
    <3>2. i \notin CStop
      BY <1>0, <2>4 DEF CStop
    <3>3. CNext(i) = CLexeme(i).end + 1
      BY <3>2 DEF CNext
    <3>4. step = CStep(i, s[CNext(i)])
      BY <3>3, Zenon DEF step, CStep
    <3> QED
      BY <3>1, <3>2, <3>4 DEF c
  <2> QED
    BY <1>0, <2>2, <2>3, <2>4
<1>4. PICK f \in [Places -> CRows] : Solves(f, Places, CStop, nxt, base, g)
  <2> HIDE DEF base, g, nxt, rank
  <2> QED
    BY <1>2, Recursion, Zenon
<1>5. f = G(f)
  <2>1. ASSUME NEW i \in Places
        PROVE  f[i] = IF i \in CStop THEN CRow(i) ELSE CStep(i, f[CNext(i)])
    <3>1. f[i] = IF i \in CStop THEN base[i] ELSE g[<<i, f[nxt[i]]>>]
      BY <1>4 DEF Solves
    <3>2. nxt[i] = CNext(i) /\ CNext(i) \in Places
      BY CTypesAre
    <3>3. CASE i \in CStop
      BY <3>1, <3>3
    <3>4. CASE i \notin CStop
      <4>1. <<i, f[nxt[i]]>> \in Places \X CRows
        BY <3>2
      <4>2. g[<<i, f[nxt[i]]>>] = CStep(i, f[nxt[i]])
        BY <3>4, <4>1
      <4> HIDE DEF g, nxt
      <4> QED
        BY <3>1, <3>2, <3>4, <4>2
    <3> QED
      BY <3>3, <3>4
  <2>2. \A i \in Places : f[i] = G(f)[i]
    <3> HIDE DEF G
    <3> QED
      BY <1>3, <2>1
  <2>3. f = [i \in Places |-> f[i]] /\ G(f) = [i \in Places |-> G(f)[i]]
    OBVIOUS
  <2> HIDE DEF G
  <2> QED
    BY <2>2, <2>3
<1>6. CTokens = G(CTokens)
  <2>1. CTokens = CHOOSE s : s = G(s)
    BY Zenon DEF CTokens
  <2> HIDE DEF G
  <2> QED
    BY <1>5, <2>1
<1>7. ASSUME NEW i \in Places
      PROVE  CTokens[i] = IF i \in CStop THEN CRow(i) ELSE CStep(i, CTokens[CNext(i)])
  <2> HIDE DEF G
  <2> QED
    BY <1>3, <1>6
<1>8. \A i \in Places : CTokens[i] \in CRows
  <2>1. \A i \in Places : i \in CStop => CTokens[i] = base[i]
    BY <1>7
  <2>2. \A i \in Places : i \notin CStop /\ CTokens[nxt[i]] \in CRows =>
          CTokens[i] = g[<<i, CTokens[nxt[i]]>>]
    <3> TAKE i \in Places
    <3> HAVE i \notin CStop /\ CTokens[nxt[i]] \in CRows
    <3>1. <<i, CTokens[nxt[i]]>> \in Places \X CRows /\ nxt[i] = CNext(i)
      OBVIOUS
    <3>2. g[<<i, CTokens[nxt[i]]>>] = CStep(i, CTokens[nxt[i]])
      BY <3>1
    <3> HIDE DEF g, nxt
    <3> QED
      BY <1>7, <3>1, <3>2
  <2>3. Obeys(CTokens, Places, CRows, CStop, nxt, base, g)
    <3> HIDE DEF base, g, nxt
    <3> QED
      BY <2>1, <2>2, Zenon DEF Obeys
  <2> HIDE DEF base, g, nxt, rank
  <2> QED
    BY <1>2, <2>3, Recursive, Zenon
<1> QED
  BY <1>7, <1>8

(***************************************************************************)
(* The tokens of the lexer, from a place on.                               *)
(***************************************************************************)
LexTypes == {NextToken(i).token : i \in Places}
LexRows == [tokens : Seq(LexTypes), bad : BOOLEAN]
(* The place of the next token. *)
LexAt(i) == SkipTrivia[i].next
LexStop == {i \in Places : At(LexAt(i)) = "end"}
LexTo(i) == IF i \in LexStop THEN i ELSE NextToken(LexAt(i)).next
LexRow(i) == [tokens |-> <<>>, bad |-> SkipTrivia[i].bad]
LexStep(i, rest) ==
  [tokens |-> <<NextToken(LexAt(i)).token>> \o rest.tokens,
   bad |-> SkipTrivia[i].bad \/ NextToken(LexAt(i)).bad \/ rest.bad]

LEMMA LexStepFields ==
  ASSUME NEW i, NEW r \in LexRows, SkipTrivia[i].bad \in BOOLEAN
  PROVE  /\ LexStep(i, r).tokens = <<NextToken(LexAt(i)).token>> \o r.tokens
         /\ LexStep(i, r).bad \in BOOLEAN
         /\ SkipTrivia[i].bad = TRUE \/ NextToken(LexAt(i)).bad = TRUE \/ r.bad = TRUE => LexStep(i, r).bad = TRUE
         /\ SkipTrivia[i].bad = FALSE /\ NextToken(LexAt(i)).bad = FALSE => LexStep(i, r).bad = r.bad
         /\ LexStep(i, r) = [tokens |-> LexStep(i, r).tokens, bad |-> LexStep(i, r).bad]
<1> DEFINE tokens == <<NextToken(LexAt(i)).token>> \o r.tokens
           a == SkipTrivia[i].bad
           b == NextToken(LexAt(i)).bad
           c == r.bad
<1>1. LexStep(i, r) = [tokens |-> tokens, bad |-> a \/ b \/ c]
  BY Zenon DEF LexStep
<1>2. c \in BOOLEAN
  BY DEF LexRows
<1> HIDE DEF tokens, a, b, c
<1>3. (a \/ b \/ c) = TRUE \/ (a \/ b \/ c) = FALSE
  BY Zenon
<1>4. (a = TRUE => a) /\ (b = TRUE => b) /\ (c = TRUE => c) /\ (a = FALSE => ~a) /\ (b = FALSE => ~b) /\ (c = FALSE => ~c)
  BY Zenon
<1>5. a = TRUE \/ b = TRUE \/ c = TRUE => (a \/ b \/ c) = TRUE
  BY <1>4, Zenon
<1>6. a = FALSE /\ b = FALSE /\ c = TRUE => (a \/ b \/ c) = TRUE
  BY <1>5, Zenon
<1>7. a = FALSE /\ b = FALSE /\ c = FALSE => (a \/ b \/ c) = FALSE
  BY <1>4, Zenon
<1>8. PICK d : d = (a \/ b \/ c)
  BY Zenon
<1>9. LexStep(i, r) = [tokens |-> tokens, bad |-> d]
  BY <1>1, <1>8, Zenon
<1>10. LexStep(i, r).tokens = tokens /\ LexStep(i, r).bad = d
  BY <1>9
<1>11. d = TRUE \/ d = FALSE
  BY <1>3, <1>8, Zenon
<1>12. c = TRUE \/ c = FALSE
  BY <1>2
<1>13. a = FALSE /\ b = FALSE => d = c
  BY <1>6, <1>7, <1>8, <1>12, Zenon
<1>14. a = TRUE \/ b = TRUE \/ c = TRUE => d = TRUE
  BY <1>5, <1>8, Zenon
<1>15. d \in BOOLEAN
  BY <1>11
<1> QED
  BY <1>9, <1>10, <1>13, <1>14, <1>15, Zenon DEF tokens, a, b, c

LEMMA LexTypesAre ==
  ASSUME TextOK, NEW i \in Places
  PROVE  /\ LexTo(i) \in Places /\ LexRow(i) \in LexRows
         /\ i \notin LexStop => /\ LexTo(i) > i /\ LexAt(i) \in 1..Len(text) /\ LexesAt(LexAt(i))
                                /\ LexTo(i) = NextToken(LexAt(i)).next
                                /\ \A r \in LexRows : LexStep(i, r) \in LexRows
<1>0. Len(text) \in Nat /\ i \in Nat /\ i >= 1
  BY LengthNat DEF Places
<1>1. /\ LexAt(i) \in Places /\ LexAt(i) >= i /\ ~IsTrivia(LexAt(i)) /\ SkipTrivia[i].bad \in BOOLEAN
  BY TriviaDone DEF LexAt
<1>2. LexRow(i) \in LexRows
  <2>1. <<>> \in Seq(LexTypes)
    OBVIOUS
  <2> QED
    BY <1>1, <2>1 DEF LexRow, LexRows
<1>3. CASE i \in LexStop
  BY <1>2, <1>3 DEF LexTo
<1>4. CASE i \notin LexStop
  <2>1. PICK n \in Places : n = LexAt(i)
    BY <1>1
  <2>2. n \in 1..Len(text)
    <3>1. At(n) /= "end"
      BY <1>4, <2>1 DEF LexStop
    <3> QED
      BY <3>1, EndIs
  <2>3. LexesAt(n)
    BY <1>1, <2>1, <2>2, NextSame
  <2>4. NextToken(n).next \in Places /\ NextToken(n).next > n
    BY <2>3, Zenon DEF LexesAt
  <2>5. LexTo(i) = NextToken(LexAt(i)).next
    BY <1>4 DEF LexTo
  <2>6. LexTo(i) \in Places /\ LexTo(i) > i
    BY <1>0, <1>1, <2>1, <2>4, <2>5 DEF Places
  <2>7. ASSUME NEW r \in LexRows PROVE LexStep(i, r) \in LexRows
    <3>1. PICK t \in LexTypes : t = NextToken(LexAt(i)).token
      BY <1>1 DEF LexTypes
    <3>2. r.tokens \in Seq(LexTypes) /\ <<t>> \in Seq(LexTypes)
      BY DEF LexRows
    <3>3. <<t>> \o r.tokens \in Seq(LexTypes)
      BY <3>2, ConcatProperties
    <3>4. LexStep(i, r).tokens \in Seq(LexTypes)
      BY <1>1, <3>1, <3>3, LexStepFields
    <3>5. PICK q : q = LexStep(i, r).tokens
      OBVIOUS
    <3>6. PICK b \in BOOLEAN : LexStep(i, r) = [tokens |-> q, bad |-> b]
      <4>1. /\ LexStep(i, r) = [tokens |-> LexStep(i, r).tokens, bad |-> LexStep(i, r).bad]
            /\ LexStep(i, r).bad \in BOOLEAN
        BY <1>1, LexStepFields, Zenon
      <4> QED
        BY <3>5, <4>1, Zenon
    <3> QED
      BY <3>4, <3>5, <3>6 DEF LexRows
  <2> QED
    BY <1>2, <2>1, <2>2, <2>3, <2>5, <2>6, <2>7
<1> QED
  BY <1>3, <1>4

LEMMA LexFromIs ==
  ASSUME TextOK
  PROVE  \A i \in Places :
           /\ LexFrom[i] \in LexRows
           /\ i \in LexStop => LexFrom[i] = LexRow(i)
           /\ i \notin LexStop => LexFrom[i] = LexStep(i, LexFrom[LexTo(i)])
<1>0. Len(text) \in Nat /\ \A i \in Places : i \in Nat /\ i <= Len(text) + 1
  BY LengthNat DEF Places
<1> DEFINE rank == [i \in Places |-> Len(text) + 1 - i]
           nxt == [i \in Places |-> LexTo(i)]
           base == [i \in Places |-> LexRow(i)]
           g == [p \in Places \X LexRows |-> IF p[1] \in LexStop THEN base[p[1]] ELSE LexStep(p[1], p[2])]
           G(s) ==
             [i \in Places |->
               LET start == SkipTrivia[i]
                   lexed == NextToken(start.next)
                   rest == s[lexed.next]
               IN  IF At(start.next) = "end" THEN [tokens |-> <<>>, bad |-> start.bad]
                   ELSE [tokens |-> <<lexed.token>> \o rest.tokens,
                         bad |-> start.bad \/ lexed.bad \/ rest.bad]]
<1>1. \A i \in Places : base[i] \in LexRows
  BY LexTypesAre
<1>2. Descends(Places, LexRows, Len(text) + 1, rank, LexStop, nxt, base, g)
  <2>1. base \in [Places -> LexRows]
    BY <1>1
  <2>2. g \in [Places \X LexRows -> LexRows]
    <3> SUFFICES ASSUME NEW i \in Places, NEW r \in LexRows
                 PROVE (IF i \in LexStop THEN base[i] ELSE LexStep(i, r)) \in LexRows
      OBVIOUS
    <3>1. i \notin LexStop => LexStep(i, r) \in LexRows
      BY LexTypesAre
    <3> QED
      BY <1>1, <3>1
  <2>3. nxt \in [Places -> Places] /\ \A i \in Places \ LexStop : nxt[i] > i /\ nxt[i] \in Places
    BY LexTypesAre
  <2>4. rank \in [Places -> 0..(Len(text) + 1)]
    BY <1>0
  <2>5. \A i \in Places \ LexStop : rank[nxt[i]] < rank[i]
    <3> TAKE i \in Places \ LexStop
    <3>1. nxt[i] > i /\ nxt[i] \in Places
      BY <2>3
    <3> HIDE DEF nxt
    <3> QED
      BY <1>0, <3>1
  <2>6. Len(text) + 1 \in Nat
    BY <1>0
  <2>7. LexStop \subseteq Places
    BY DEF LexStop
  <2> HIDE DEF base, g, nxt, rank
  <2> QED
    BY <2>1, <2>2, <2>3, <2>4, <2>5, <2>6, <2>7 DEF Descends
<1>3. ASSUME NEW s, NEW i \in Places
      PROVE  G(s)[i] = IF i \in LexStop THEN LexRow(i) ELSE LexStep(i, s[LexTo(i)])
  <2> DEFINE step == [tokens |-> <<NextToken(LexAt(i)).token>> \o s[NextToken(LexAt(i)).next].tokens,
                      bad |-> SkipTrivia[i].bad \/ NextToken(LexAt(i)).bad \/ s[NextToken(LexAt(i)).next].bad]
             c == G(s)[i]
  <2>1. c = IF At(LexAt(i)) = "end" THEN LexRow(i) ELSE step
    BY Zenon DEF LexAt, LexRow
  <2> HIDE DEF c, step
  <2>2. CASE i \in LexStop
    <3>1. At(LexAt(i)) = "end"
      BY <2>2 DEF LexStop
    <3> QED
      BY <2>1, <2>2, <3>1 DEF c
  <2>3. CASE i \notin LexStop
    <3>1. At(LexAt(i)) /= "end"
      BY <2>3 DEF LexStop
    <3>2. LexTo(i) = NextToken(LexAt(i)).next
      BY <2>3 DEF LexTo
    <3>3. step = LexStep(i, s[LexTo(i)])
      BY <3>2, Zenon DEF step, LexStep
    <3> QED
      BY <2>1, <2>3, <3>1, <3>3 DEF c
  <2> QED
    BY <2>2, <2>3
<1>4. PICK f \in [Places -> LexRows] : Solves(f, Places, LexStop, nxt, base, g)
  <2> HIDE DEF base, g, nxt, rank
  <2> QED
    BY <1>2, Recursion, Zenon
<1>5. f = G(f)
  <2>1. ASSUME NEW i \in Places
        PROVE  f[i] = IF i \in LexStop THEN LexRow(i) ELSE LexStep(i, f[LexTo(i)])
    <3>1. f[i] = IF i \in LexStop THEN base[i] ELSE g[<<i, f[nxt[i]]>>]
      BY <1>4 DEF Solves
    <3>2. nxt[i] = LexTo(i) /\ LexTo(i) \in Places
      BY LexTypesAre
    <3>3. CASE i \in LexStop
      BY <3>1, <3>3
    <3>4. CASE i \notin LexStop
      <4>1. <<i, f[nxt[i]]>> \in Places \X LexRows
        BY <3>2
      <4>2. g[<<i, f[nxt[i]]>>] = LexStep(i, f[nxt[i]])
        BY <3>4, <4>1
      <4> HIDE DEF g, nxt
      <4> QED
        BY <3>1, <3>2, <3>4, <4>2
    <3> QED
      BY <3>3, <3>4
  <2>2. \A i \in Places : f[i] = G(f)[i]
    <3> HIDE DEF G
    <3> QED
      BY <1>3, <2>1
  <2>3. f = [i \in Places |-> f[i]] /\ G(f) = [i \in Places |-> G(f)[i]]
    OBVIOUS
  <2> HIDE DEF G
  <2> QED
    BY <2>2, <2>3
<1>6. LexFrom = G(LexFrom)
  <2>1. LexFrom = CHOOSE s : s = G(s)
    BY Zenon DEF LexFrom
  <2> HIDE DEF G
  <2> QED
    BY <1>5, <2>1
<1>7. ASSUME NEW i \in Places
      PROVE  LexFrom[i] = IF i \in LexStop THEN LexRow(i) ELSE LexStep(i, LexFrom[LexTo(i)])
  <2> HIDE DEF G
  <2> QED
    BY <1>3, <1>6
<1>8. \A i \in Places : LexFrom[i] \in LexRows
  <2>1. \A i \in Places : i \in LexStop => LexFrom[i] = base[i]
    BY <1>7
  <2>2. \A i \in Places : i \notin LexStop /\ LexFrom[nxt[i]] \in LexRows =>
          LexFrom[i] = g[<<i, LexFrom[nxt[i]]>>]
    <3> TAKE i \in Places
    <3> HAVE i \notin LexStop /\ LexFrom[nxt[i]] \in LexRows
    <3>1. <<i, LexFrom[nxt[i]]>> \in Places \X LexRows /\ nxt[i] = LexTo(i)
      OBVIOUS
    <3>2. g[<<i, LexFrom[nxt[i]]>>] = LexStep(i, LexFrom[nxt[i]])
      BY <3>1
    <3> HIDE DEF g, nxt
    <3> QED
      BY <1>7, <3>1, <3>2
  <2>3. Obeys(LexFrom, Places, LexRows, LexStop, nxt, base, g)
    <3> HIDE DEF base, g, nxt
    <3> QED
      BY <2>1, <2>2, Zenon DEF Obeys
  <2> HIDE DEF base, g, nxt, rank
  <2> QED
    BY <1>2, <2>3, Recursive, Zenon
<1> QED
  BY <1>7, <1>8

(***************************************************************************)
(* Blanks and comments are skipped as the grammar has them.                *)
(***************************************************************************)
TriviaAgrees(i) ==
  /\ SkipTrivia[i].bad = FALSE => CTokens[i] = CTokens[SkipTrivia[i].next]
  /\ SkipTrivia[i].bad = TRUE => CTokens[i].wrong /= 0

LEMMA WrongHere ==
  ASSUME TextOK, NEW i \in 1..Len(text), CLexeme(i) = Lexeme(0, <<>>)
  PROVE  CTokens[i] = [tokens |-> <<>>, wrong |-> i] /\ CTokens[i].wrong = i /\ i /= 0
<1>0. Len(text) \in Nat /\ i \in Nat /\ i >= 1 /\ i \in Places /\ ~(i > Len(text))
  BY LengthNat DEF Places
<1>1. i \in CStop
  BY <1>0, LexemeFields DEF CStop
<1>2. CTokens[i] = CRow(i) /\ CRow(i) = [tokens |-> <<>>, wrong |-> i]
  BY <1>0, <1>1, CTokensAre DEF CRow
<1> QED
  BY <1>0, <1>2

LEMMA TriviaSame == TextOK => \A i \in Places : TriviaAgrees(i)
<1> HAVE TextOK
<1>0. Len(text) \in Nat /\ \A i \in Places : i \in Nat /\ i <= Len(text) + 1
  BY LengthNat DEF Places
<1> DEFINE B == {i \in Places : TriviaAgrees(i)}
<1>1. ASSUME NEW i \in Places, \A j \in Places : j > i => j \in B
      PROVE  i \in B
  <2>1. CASE i \in TriviaStop
    <3>1. SkipTrivia[i] = TriviaRow(i)
      BY <2>1, TriviaIs
    <3>2. CASE IsOpen(i)
      <4>1. SkipTrivia[i].bad = TRUE
        BY <3>1, <3>2 DEF TriviaRow
      <4>2. i \in 1..Len(text) /\ IsTrivia(i)
        BY <3>2, EndIs DEF IsOpen, IsTrivia
      <4>3. CTokens[i].wrong /= 0
        BY <3>2, <4>2, TriviaLexeme, WrongHere
      <4> QED
        BY <4>1, <4>3 DEF TriviaAgrees
    <3>3. CASE ~IsOpen(i)
      <4>1. SkipTrivia[i].bad = FALSE /\ SkipTrivia[i].next = i
        BY <3>1, <3>3 DEF TriviaRow
      <4> QED
        BY <4>1 DEF TriviaAgrees
    <3> QED
      BY <3>2, <3>3
  <2>2. CASE i \notin TriviaStop /\ At(i) = "#"
    <3>1. PICK r \in Trivias : r = SkipTrivia[TriviaNext(i)]
      BY TriviaTypes, TriviaIs
    <3>2. SkipTrivia[i] = TriviaStep(i, r)
      BY <2>2, <3>1, TriviaIs
    <3>3. TriviaStep(i, r).bad = TRUE
      BY <2>2 DEF TriviaStep, Trivias
    <3>4. i \in 1..Len(text) /\ IsOther(i) /\ At(i) \notin Known /\ At(i) /= "/"
      BY <2>2, EndIs, KindsDiffer DEF IsOther
    <3>5. CommentEnd(i) = 0 /\ OperatorEnd(i) = 0
      BY <3>4, CommentEnds, OperatorEnds
    <3>6. Piece(i, i + 1) /= <<"/", "*">>
      BY <3>4, OpensComment
    <3>7. ~(CommentEnd(i) > 0)
      BY <3>5
    <3>8. CLexeme(i) = Lexeme(0, <<>>)
      BY <3>4, <3>5, <3>6, <3>7, LexemeKinds
    <3>9. CTokens[i].wrong /= 0
      BY <3>4, <3>8, WrongHere
    <3> QED
      BY <3>2, <3>3, <3>9 DEF TriviaAgrees
  <2>3. CASE i \notin TriviaStop /\ At(i) /= "#"
    <3>1. PICK n \in Places : n = TriviaNext(i) /\ n > i
      BY <2>3, TriviaTypes
    <3>2. SkipTrivia[i] = SkipTrivia[n]
      <4>1. SkipTrivia[i] = TriviaStep(i, SkipTrivia[TriviaNext(i)])
        BY <2>3, TriviaIs
      <4> QED
        BY <2>3, <3>1, <4>1 DEF TriviaStep
    <3>3. i \in 1..Len(text) /\ IsTrivia(i) /\ ~IsOpen(i)
      BY <2>3, TriviaTypes DEF TriviaStop
    <3>4. PICK e \in i..Len(text) : e /= 0 /\ e + 1 = n /\ CLexeme(i) = Lexeme(e, <<>>)
      BY <3>1, <3>3, TriviaLexeme
    <3>5. CLexeme(i).end = e /\ CLexeme(i).tokens = <<>>
      BY <3>4, LexemeFields
    <3>6. i \notin CStop /\ CNext(i) = n
      BY <1>0, <3>3, <3>4, <3>5 DEF CStop, CNext
    <3>7. PICK r \in CRows : r = CTokens[n]
      BY CTokensAre
    <3>8. CTokens[i] = CStep(i, r)
      BY <3>6, <3>7, CTokensAre
    <3>9. r.tokens \in Seq(CTypes) /\ r = [tokens |-> r.tokens, wrong |-> r.wrong]
      BY DEF CRows
    <3>10. <<>> \o r.tokens = r.tokens
      BY <3>9, ConcatEmptySeq
    <3>11. CStep(i, r) = r
      BY <3>5, <3>9, <3>10, Zenon DEF CStep
    <3>12. CTokens[i] = CTokens[n]
      BY <3>7, <3>8, <3>11
    <3>13. TriviaAgrees(n)
      BY <1>1, <3>1
    <3> QED
      BY <3>2, <3>12, <3>13 DEF TriviaAgrees
  <2> QED
    BY <2>1, <2>2, <2>3
<1>2. B = Places
  <2> HIDE DEF B
  <2>1. B \in SUBSET Places
    BY DEF B
  <2> QED
    BY <1>1, <2>1, Descending
<1> QED
  BY <1>2

(***************************************************************************)
(* The lexer cuts every text as the grammar does.                          *)
(***************************************************************************)
CutAgrees(i) ==
  LET meant == CTokens[i]
      lexed == LexFrom[i]
  IN  /\ meant.wrong = 0 => lexed = [tokens |-> meant.tokens, bad |-> FALSE]
      /\ meant.wrong /= 0 => lexed.bad = TRUE \/ Tolerated(meant.wrong)

(* One token of both, and what is behind it. *)
LEMMA CutStep ==
  ASSUME TextOK, NEW i \in Places, i \notin LexStop, SkipTrivia[i].bad = FALSE,
         CTokens[i] = CTokens[LexAt(i)], CutAgrees(LexTo(i))
  PROVE  CutAgrees(i)
<1>0. Len(text) \in Nat /\ i \in Nat
  BY LengthNat DEF Places
<1>1. /\ LexTo(i) \in Places /\ LexAt(i) \in 1..Len(text) /\ LexesAt(LexAt(i))
      /\ LexTo(i) = NextToken(LexAt(i)).next
  BY LexTypesAre
<1>2. PICK n \in 1..Len(text) : n = LexAt(i)
  BY <1>1
<1>3. n \in Places
  BY <1>0 DEF Places
<1> DEFINE l == NextToken(n)
           x == CLexeme(n)
<1>4. /\ x.end = 0 => l.bad = TRUE \/ Tolerated(n)
      /\ x.end /= 0 => x.end \in n..Len(text) /\ l.bad = FALSE /\ l.next = x.end + 1 /\ x.tokens = <<l.token>>
  BY <1>1, <1>2, Zenon DEF LexesAt
<1> HIDE DEF l, x
<1>5. PICK m \in Places : m = LexTo(i) /\ m = l.next
  BY <1>1, <1>2 DEF l
<1>6. PICK r \in LexRows : r = LexFrom[m]
  BY LexFromIs
<1>7. LexFrom[i] = LexStep(i, r)
  BY <1>5, <1>6, LexFromIs
<1>8. /\ LexStep(i, r).tokens = <<l.token>> \o r.tokens
      /\ LexStep(i, r).bad \in BOOLEAN
      /\ l.bad = TRUE \/ r.bad = TRUE => LexStep(i, r).bad = TRUE
      /\ l.bad = FALSE => LexStep(i, r).bad = r.bad
      /\ LexStep(i, r) = [tokens |-> LexStep(i, r).tokens, bad |-> LexStep(i, r).bad]
  <2>1. SkipTrivia[i].bad \in BOOLEAN
    OBVIOUS
  <2>2. /\ LexStep(i, r).tokens = <<NextToken(LexAt(i)).token>> \o r.tokens
        /\ LexStep(i, r).bad \in BOOLEAN
        /\ SkipTrivia[i].bad = TRUE \/ NextToken(LexAt(i)).bad = TRUE \/ r.bad = TRUE => LexStep(i, r).bad = TRUE
        /\ SkipTrivia[i].bad = FALSE /\ NextToken(LexAt(i)).bad = FALSE => LexStep(i, r).bad = r.bad
        /\ LexStep(i, r) = [tokens |-> LexStep(i, r).tokens, bad |-> LexStep(i, r).bad]
    BY <2>1, LexStepFields, Zenon
  <2>3. NextToken(LexAt(i)) = l
    BY <1>2 DEF l
  <2>4. LexStep(i, r) = [tokens |-> LexStep(i, r).tokens, bad |-> LexStep(i, r).bad]
    BY <2>2, Zenon
  <2>5. LexStep(i, r).tokens = <<l.token>> \o r.tokens
    BY <2>2, <2>3, Zenon
  <2>6. l.bad = TRUE \/ r.bad = TRUE => LexStep(i, r).bad = TRUE
    BY <2>2, <2>3
  <2>7. l.bad = FALSE => LexStep(i, r).bad = r.bad
    BY <2>2, <2>3
  <2> QED
    BY <2>2, <2>4, <2>5, <2>6, <2>7, Zenon
<1>9. PICK q \in CRows : q = CTokens[m]
  BY CTokensAre
<1>10. /\ q.wrong = 0 => r = [tokens |-> q.tokens, bad |-> FALSE]
       /\ q.wrong /= 0 => r.bad = TRUE \/ Tolerated(q.wrong)
  BY <1>5, <1>6, <1>9, Zenon DEF CutAgrees
<1>11. CASE x.end = 0
  <2>1. n \in CStop
    BY <1>3, <1>11 DEF CStop, x
  <2>2. CTokens[n] = CRow(n) /\ n /= 0 /\ ~(n > Len(text))
    BY <1>0, <1>3, <2>1, CTokensAre
  <2>3. CTokens[n].wrong = n
    BY <2>2 DEF CRow
  <2>4. CTokens[i].wrong = n /\ CTokens[i].wrong /= 0
    BY <1>2, <2>2, <2>3
  <2>5. l.bad = TRUE => LexFrom[i].bad = TRUE
    BY <1>7, <1>8
  <2> QED
    BY <1>4, <1>11, <2>4, <2>5, Zenon DEF CutAgrees
<1>12. CASE x.end /= 0
  <2>1. n \notin CStop /\ CNext(n) = m
    BY <1>0, <1>4, <1>5, <1>12 DEF CStop, CNext, x
  <2>2. CTokens[n] = CStep(n, q)
    BY <1>3, <1>9, <2>1, CTokensAre
  <2>3. CTokens[n].tokens = <<l.token>> \o q.tokens /\ CTokens[n].wrong = q.wrong
    <3>1. CTokens[n].tokens = CLexeme(n).tokens \o q.tokens /\ CTokens[n].wrong = q.wrong
      <4>1. CStep(n, q) = [tokens |-> CLexeme(n).tokens \o q.tokens, wrong |-> q.wrong]
        BY Zenon DEF CStep
      <4>2. PICK y, t : y = CLexeme(n).tokens \o q.tokens /\ t = q.wrong
        OBVIOUS
      <4>3. CTokens[n] = [tokens |-> y, wrong |-> t]
        BY <2>2, <4>1, <4>2, Zenon
      <4>4. CTokens[n].tokens = y /\ CTokens[n].wrong = t
        BY <4>3
      <4> QED
        BY <4>2, <4>4, Zenon
    <3>2. CLexeme(n).tokens = <<l.token>>
      BY <1>4, <1>12 DEF x
    <3> QED
      BY <3>1, <3>2, Zenon
  <2>4. CTokens[i].tokens = <<l.token>> \o q.tokens /\ CTokens[i].wrong = q.wrong
    BY <1>2, <2>3
  <2>5. CASE q.wrong = 0
    <3>1. r.tokens = q.tokens /\ r.bad = FALSE
      BY <1>10, <2>5
    <3>2. LexStep(i, r).tokens = CTokens[i].tokens /\ LexStep(i, r).bad = FALSE
      BY <1>4, <1>8, <1>12, <2>4, <3>1
    <3>3. LexFrom[i] = [tokens |-> CTokens[i].tokens, bad |-> FALSE]
      BY <1>7, <1>8, <3>2, Zenon
    <3>4. CTokens[i].wrong = 0
      BY <2>4, <2>5
    <3> QED
      BY <3>3, <3>4, Zenon DEF CutAgrees
  <2>6. CASE q.wrong /= 0
    <3>1. r.bad = TRUE => LexFrom[i].bad = TRUE
      BY <1>7, <1>8
    <3>2. CTokens[i].wrong /= 0 /\ (Tolerated(q.wrong) => Tolerated(CTokens[i].wrong))
      BY <2>4, <2>6
    <3> QED
      BY <1>10, <2>6, <3>1, <3>2, Zenon DEF CutAgrees
  <2> QED
    BY <2>5, <2>6
<1> QED
  BY <1>11, <1>12

LEMMA CutSame == TextOK => \A i \in Places : CutAgrees(i)
<1> HAVE TextOK
<1>0. Len(text) \in Nat /\ \A i \in Places : i \in Nat /\ i <= Len(text) + 1
  BY LengthNat DEF Places
<1> DEFINE B == {i \in Places : CutAgrees(i)}
<1>1. ASSUME NEW i \in Places, \A j \in Places : j > i => j \in B
      PROVE  i \in B
  <2>1. SkipTrivia[i].bad \in BOOLEAN /\ LexAt(i) \in Places /\ TriviaAgrees(i)
    BY TriviaDone, TriviaSame DEF LexAt
  <2>2. CASE SkipTrivia[i].bad = TRUE
    <3>1. CTokens[i].wrong /= 0
      BY <2>1, <2>2 DEF TriviaAgrees
    <3>2. CASE i \in LexStop
      <4>1. LexFrom[i] = LexRow(i)
        BY <3>2, LexFromIs
      <4>2. LexFrom[i].bad = TRUE
        BY <2>2, <4>1 DEF LexRow
      <4> QED
        BY <3>1, <4>2 DEF CutAgrees
    <3>3. CASE i \notin LexStop
      <4>1. PICK r \in LexRows : r = LexFrom[LexTo(i)]
        BY LexTypesAre, LexFromIs
      <4>2. LexFrom[i] = LexStep(i, r)
        BY <3>3, <4>1, LexFromIs
      <4>3. LexStep(i, r).bad = TRUE
        BY <2>1, <2>2, LexStepFields
      <4> QED
        BY <3>1, <4>2, <4>3 DEF CutAgrees
    <3> QED
      BY <3>2, <3>3
  <2>3. CASE SkipTrivia[i].bad = FALSE
    <3>1. CTokens[i] = CTokens[LexAt(i)]
      BY <2>1, <2>3 DEF TriviaAgrees, LexAt
    <3>2. CASE i \in LexStop
      <4>1. LexFrom[i] = [tokens |-> <<>>, bad |-> FALSE]
        BY <2>3, <3>2, LexFromIs DEF LexRow
      <4>2. PICK n \in Places : n = LexAt(i) /\ At(n) = "end"
        BY <2>1, <3>2 DEF LexStop
      <4>3. n > Len(text)
        <5>1. n \notin 1..Len(text)
          BY <4>2, AtIs
        <5> QED
          BY <1>0, <5>1 DEF Places
      <4>4. CTokens[n] = CRow(n)
        BY <4>3, CTokensAre DEF CStop
      <4>5. CTokens[i].tokens = <<>> /\ CTokens[i].wrong = 0
        BY <3>1, <4>2, <4>3, <4>4 DEF CRow
      <4>6. LexFrom[i] = [tokens |-> CTokens[i].tokens, bad |-> FALSE]
        BY <4>1, <4>5, Zenon
      <4> QED
        BY <4>5, <4>6, Zenon DEF CutAgrees
    <3>3. CASE i \notin LexStop
      <4>1. LexTo(i) \in Places /\ LexTo(i) > i
        BY <3>3, LexTypesAre
      <4>2. CutAgrees(LexTo(i))
        BY <1>1, <4>1
      <4> QED
        BY <2>3, <3>1, <3>3, <4>2, CutStep
    <3> QED
      BY <3>2, <3>3
  <2> QED
    BY <2>1, <2>2, <2>3
<1>2. B = Places
  <2> HIDE DEF B
  <2>1. B \in SUBSET Places
    BY DEF B
  <2> QED
    BY <1>1, <2>1, Descending
<1> QED
  BY <1>2

(***************************************************************************)
(* The texts.                                                              *)
(***************************************************************************)
(* A text is made of the characters of its alphabet, which all have a code. *)
TextInv == subject \in DOMAIN Alphabets /\ TextOK

(* Every text that is put together from an alphabet is one of known characters. *)
THEOREM TextInvariant == LexSpec => []TextInv
<1>1. LexInit => TextInv
  BY DEF LexInit, TextInv, TextOK
<1>2. TextInv /\ [LexNext]_tvars => TextInv'
  <2> SUFFICES ASSUME TextInv, [LexNext]_tvars PROVE TextInv'
    OBVIOUS
  <2>1. CASE LexNext
    <3>1. PICK c \in Alphabets[subject] : text' = Append(text, c) /\ subject' = subject
      BY <2>1 DEF LexNext
    <3>2. c \in DOMAIN Code
      BY LexerAssumption DEF TextInv
    <3> QED
      BY <3>1, <3>2 DEF TextInv, TextOK
  <2>2. CASE UNCHANGED tvars
    BY <2>2 DEF TextInv, TextOK, tvars
  <2> QED
    BY <2>1, <2>2
<1> QED
  BY <1>1, <1>2, PTL DEF LexSpec

(* A text of any length over any alphabet is cut into the tokens C's lexical     *)
(* grammar gives it, with the values of its literals, or it is reported, or the  *)
(* first thing wrong in it is one the lexer is known to let pass.               *)
THEOREM LexesAsCHolds == LexSpec => []LexesAsC
<1>1. TextInv => LexesAsC
  <2> SUFFICES ASSUME TextInv PROVE LexesAsC
    OBVIOUS
  <2>1. TextOK /\ 1 \in Places
    BY LengthNat DEF TextInv, Places
  <2>2. CutAgrees(1)
    BY <2>1, CutSame
  <2>3. /\ CTokens[1].wrong = 0 => Lex = [tokens |-> CTokens[1].tokens, bad |-> FALSE]
        /\ CTokens[1].wrong /= 0 => Lex.bad = TRUE \/ Tolerated(CTokens[1].wrong)
    BY <2>2, Zenon DEF CutAgrees, Lex
  <2>4. Lex.bad = TRUE => Lex.bad
    BY Zenon
  <2> QED
    BY <2>3, <2>4, Zenon DEF LexesAsC
<1> QED
  BY <1>1, TextInvariant, PTL
==============================================================================
