----------------------------- MODULE ArithProofs -----------------------------
(***************************************************************************)
(* What the instructions of Words and the passes of Arith make of an         *)
(* expression, for words of every width and expressions of every length.     *)
(***************************************************************************)
EXTENDS Arith, TLAPS

LEMMA HalfPositive == Half \in Nat /\ Half > 1
  BY WordsAssumption

LEMMA WrapWord == ASSUME NEW n \in Word PROVE Wrap(n) = n
<1>1. n + Half \in 0..(2 * Half - 1)
  BY HalfPositive DEF Word
<1>2. (n + Half) % (2 * Half) = n + Half
  BY <1>1, HalfPositive
<1> QED
  BY <1>2, HalfPositive DEF Wrap, Word

LEMMA WrapAbove == ASSUME NEW n \in Half..(2 * Half - 1) PROVE Wrap(n) = n - 2 * Half
<1>1. (n + Half) % (2 * Half) = n + Half - 2 * Half
  BY HalfPositive
<1> QED
  BY <1>1, HalfPositive DEF Wrap
LEMMA WrapBelow == ASSUME NEW n \in (-2 * Half)..(-Half - 1) PROVE Wrap(n) = n + 2 * Half
<1>1. (n + Half) % (2 * Half) = n + Half + 2 * Half
  BY HalfPositive
<1> QED
  BY <1>1, HalfPositive DEF Wrap

(* The three ranges a difference of two words can be in. *)
LEMMA Differences ==
  ASSUME NEW l \in Word, NEW r \in Word
  PROVE  \/ l - r \in Word
         \/ l - r \in Half..(2 * Half - 1)
         \/ l - r \in (-2 * Half)..(-Half - 1)
  BY HalfPositive DEF Word

(* A difference of words and its flags. *)
LEMMA FlagsOfDifference ==
  ASSUME NEW l \in Word, NEW r \in Word
  PROVE  /\ Flags(l, r).zero <=> l = r
         /\ ~(Flags(l, r).sign <=> Flags(l, r).overflow) <=> l < r
         /\ Flags(l, r).carry <=> AsUnsigned(l) < AsUnsigned(r)
<1> DEFINE d == l - r
<1>1. CASE d \in Word
  <2>1. Wrap(d) = d
    BY <1>1, WrapWord
  <2>2. Wrap(d) = 0 <=> l = r
    BY <2>1, HalfPositive DEF Word
  <2>3. Wrap(d) < 0 <=> l < r
    BY <2>1, HalfPositive DEF Word
  <2> QED
    BY <1>1, <2>2, <2>3, Zenon DEF Flags
<1>2. CASE d \in Half..(2 * Half - 1)
  <2>1. Wrap(d) = d - 2 * Half
    BY <1>2, WrapAbove
  <2>2. Wrap(d) /= 0 /\ l /= r
    BY <1>2, <2>1, HalfPositive DEF Word
  <2>3. Wrap(d) < 0 /\ ~(l < r) /\ d \notin Word
    BY <1>2, <2>1, HalfPositive DEF Word
  <2> QED
    BY <2>2, <2>3, Zenon DEF Flags
<1>3. CASE d \in (-2 * Half)..(-Half - 1)
  <2>1. Wrap(d) = d + 2 * Half
    BY <1>3, WrapBelow
  <2>2. Wrap(d) /= 0 \/ d = -2 * Half
    BY <1>3, <2>1, HalfPositive DEF Word
  <2>3. ~(Wrap(d) < 0) /\ l < r /\ d \notin Word /\ Wrap(d) /= 0 /\ l /= r
    BY <1>3, <2>1, HalfPositive DEF Word
  <2> QED
    BY <2>3, Zenon DEF Flags
<1> QED
  BY <1>1, <1>2, <1>3, Differences

(* What the condition codes say of the operands, overflow or not. *)
LEMMA ConditionCodes ==
  ASSUME NEW l \in Word, NEW r \in Word
  PROVE  /\ Set("e", Flags(l, r)) <=> l = r
         /\ Set("ne", Flags(l, r)) <=> l /= r
         /\ Set("l", Flags(l, r)) <=> l < r
         /\ Set("le", Flags(l, r)) <=> l <= r
         /\ Set("g", Flags(l, r)) <=> l > r
         /\ Set("ge", Flags(l, r)) <=> l >= r
         /\ Set("b", Flags(l, r)) <=> AsUnsigned(l) < AsUnsigned(r)
         /\ Set("be", Flags(l, r)) <=> AsUnsigned(l) <= AsUnsigned(r)
         /\ Set("a", Flags(l, r)) <=> AsUnsigned(l) > AsUnsigned(r)
         /\ Set("ae", Flags(l, r)) <=> AsUnsigned(l) >= AsUnsigned(r)
<1> DEFINE f == Flags(l, r)
<1>1. f.zero <=> l = r
  BY FlagsOfDifference
<1>2. ~(f.sign <=> f.overflow) <=> l < r
  BY FlagsOfDifference
<1>3. f.carry <=> AsUnsigned(l) < AsUnsigned(r)
  BY FlagsOfDifference
<1>4. l \in Int /\ r \in Int
  BY HalfPositive DEF Word
<1>5. AsUnsigned(l) \in Int /\ AsUnsigned(r) \in Int /\ (AsUnsigned(l) = AsUnsigned(r) <=> l = r)
  BY HalfPositive DEF Word, AsUnsigned
<1> HIDE DEF f
<1>6. /\ Set("e", f) <=> l = r
      /\ Set("ne", f) <=> l /= r
  BY <1>1 DEF Set
<1>7. /\ Set("l", f) <=> l < r
      /\ Set("ge", f) <=> l >= r
  BY <1>2, <1>4 DEF Set
<1>8. /\ Set("le", f) <=> l <= r
      /\ Set("g", f) <=> l > r
  BY <1>1, <1>2, <1>4 DEF Set
<1>9. /\ Set("b", f) <=> AsUnsigned(l) < AsUnsigned(r)
      /\ Set("ae", f) <=> AsUnsigned(l) >= AsUnsigned(r)
  BY <1>3, <1>5 DEF Set
<1>10. /\ Set("be", f) <=> AsUnsigned(l) <= AsUnsigned(r)
       /\ Set("a", f) <=> AsUnsigned(l) > AsUnsigned(r)
  BY <1>1, <1>3, <1>5 DEF Set
<1> QED
  BY <1>6, <1>7, <1>8, <1>9, <1>10 DEF f

(* How two numbers compare. *)
Related(op, a, b) ==
  CASE op = "==" -> a = b
    [] op = "!=" -> a /= b
    [] op = "<" -> a < b
    [] op = "<=" -> a <= b
    [] op = ">" -> a > b
    [] op = ">=" -> a >= b

(* The condition that emit_binop_reg() and gen_binary_imm() take for a         *)
(* comparison decides it as its operands' type wants it, whether or not the   *)
(* subtraction in cmpq overflows (codegen.c 822-853, 943-972).                *)
THEOREM ComparesInType ==
  ASSUME NEW l \in Word, NEW r \in Word, NEW op \in Compares, NEW uns \in BOOLEAN
  PROVE  Set(Condition(op, uns), Flags(l, r))
           <=> Related(op, AsTyped(l, uns), AsTyped(r, uns))
<1>1. AsTyped(l, TRUE) = AsTyped(r, TRUE) <=> l = r
  BY HalfPositive DEF Word, AsUnsigned, AsTyped
<1>2. CASE op = "=="
  BY <1>1, <1>2, ConditionCodes DEF Condition, Related, AsTyped
<1>3. CASE op = "!="
  BY <1>1, <1>3, ConditionCodes DEF Condition, Related, AsTyped
<1>4. CASE op = "<"
  BY <1>4, ConditionCodes DEF Condition, Related, AsTyped
<1>5. CASE op = "<="
  BY <1>5, ConditionCodes DEF Condition, Related, AsTyped
<1>6. CASE op = ">"
  BY <1>6, ConditionCodes DEF Condition, Related, AsTyped
<1>7. CASE op = ">="
  BY <1>7, ConditionCodes DEF Condition, Related, AsTyped
<1> QED
  BY <1>2, <1>3, <1>4, <1>5, <1>6, <1>7 DEF Compares, Order

(***************************************************************************)
(* Arithmetic modulo the word.                                             *)
(***************************************************************************)
LEMMA WrapIsWord == ASSUME NEW n \in Int PROVE Wrap(n) \in Word
<1>1. \A a \in Int, b \in Nat \ {0} : 0 <= a % b /\ a % b < b /\ a % b \in Int
  OBVIOUS
<1>2. 2 * Half \in Nat \ {0} /\ n + Half \in Int
  BY HalfPositive
<1>3. 0 <= (n + Half) % (2 * Half) /\ (n + Half) % (2 * Half) < 2 * Half /\ (n + Half) % (2 * Half) \in Int
  BY <1>1, <1>2
<1> QED
  BY <1>3, HalfPositive DEF Wrap, Word

LEMMA WrapPeriod ==
  ASSUME NEW n \in Int, NEW k \in Int
  PROVE  Wrap(n + k * (2 * Half)) = Wrap(n)
<1>1. \A a \in Int, m \in Nat \ {0} : \E q \in Int, r \in 0..(m - 1) : a = q * m + r
  <2> TAKE a \in Int, m \in Nat \ {0}
  <2>1. a % m \in 0..(m - 1) /\ a \div m \in Int
    OBVIOUS
  <2>2. a % m = a - m * (a \div m)
    OBVIOUS
  <2>3. a = (a \div m) * m + (a % m)
    BY <2>1, <2>2
  <2> QED
    BY <2>1, <2>3
<1>2. \A q \in Int, m \in Nat \ {0}, a \in Int, r \in Nat : r < m /\ a = q * m + r => a % m = r
  OBVIOUS
<1> DEFINE mod == 2 * Half
           num == n + Half
<1>3. mod \in Nat \ {0} /\ num \in Int /\ n + k * mod + Half = num + k * mod /\ num + k * mod \in Int
  BY HalfPositive
<1> HIDE DEF mod, num
<1>4. PICK q \in Int, r \in 0..(mod - 1) : num = q * mod + r
  BY <1>1, <1>3
<1>5. num % mod = r
  BY <1>2, <1>3, <1>4
<1>6. PICK q2 \in Int, num2 \in Int : num2 = num + k * mod /\ num2 = q2 * mod + r
  <2>1. num + k * mod = (q + k) * mod + r /\ q + k \in Int
    BY <1>3, <1>4
  <2> QED
    BY <2>1, <1>3
<1>7. num2 % mod = r
  <2>1. r \in Nat /\ r < mod
    BY <1>3
  <2>2. mod \in Nat \ {0}
    BY <1>3
  <2> QED
    BY ONLY <2>1, <2>2, <1>2, <1>6, q2 \in Int, num2 \in Int
<1>8. (n + k * mod + Half) % mod = num % mod
  BY <1>3, <1>5, <1>6, <1>7
<1> QED
  BY <1>8 DEF Wrap, mod, num

LEMMA Unsigned2 ==
  ASSUME NEW w \in Word
  PROVE  /\ w \in Int
         /\ AsUnsigned(w) \in 0..(2 * Half - 1)
         /\ AsUnsigned(w) = 0 <=> w = 0
         /\ Wrap(AsUnsigned(w)) = w
         /\ \A uns \in BOOLEAN : \E k \in {0, 1} : AsTyped(w, uns) = w + k * (2 * Half)
<1>1. w \in Int
  BY HalfPositive DEF Word
<1>2. AsUnsigned(w) \in 0..(2 * Half - 1) /\ (AsUnsigned(w) = 0 <=> w = 0)
  BY HalfPositive DEF Word, AsUnsigned
<1>3. AsUnsigned(w) = w + 0 * (2 * Half) \/ AsUnsigned(w) = w + 1 * (2 * Half)
  BY <1>1, HalfPositive DEF AsUnsigned
<1>4. Wrap(w + 0 * (2 * Half)) = Wrap(w) /\ Wrap(w + 1 * (2 * Half)) = Wrap(w)
  BY <1>1, WrapPeriod
<1>5. w = w + 0 * (2 * Half)
  BY <1>1, HalfPositive
<1>6. \A uns \in BOOLEAN : \E k \in {0, 1} : AsTyped(w, uns) = w + k * (2 * Half)
  BY <1>3, <1>5 DEF AsTyped
<1> QED
  BY <1>1, <1>2, <1>3, <1>4, <1>6, WrapWord

LEMMA Truths == ASSUME NEW b PROVE Truth(b) \in Word /\ Truth(b) \in {0, 1}
  BY HalfPositive DEF Truth, Word

(* A shift to the right leaves a word. *)
LEMMA QuotientIsWord ==
  ASSUME NEW l \in Word, NEW p \in 1..Half
  PROVE  l \div p \in Word
<1>1. \A a \in Int, b \in Nat \ {0} : a \div b \in Int /\ b * (a \div b) <= a /\ a < b * (a \div b) + b
  OBVIOUS
<1>2. l \in Int /\ p \in Nat \ {0} /\ -Half <= l /\ l < Half
  BY HalfPositive DEF Word
<1>3. PICK q \in Int : q = l \div p /\ p * q <= l /\ l < p * q + p
  BY <1>1, <1>2
<1>4. \A b \in Nat \ {0}, c \in Nat : b * c >= c
  OBVIOUS
<1>5. q < Half
  <2> SUFFICES ASSUME q >= Half PROVE FALSE
    BY <1>3, HalfPositive
  <2>1. p * q >= q
    BY <1>2, <1>3, <1>4, HalfPositive
  <2> QED
    BY <2>1, <1>2, <1>3, HalfPositive
<1>6. -Half <= q
  <2> SUFFICES ASSUME q < -Half PROVE FALSE
    BY <1>3, HalfPositive
  <2> DEFINE c == -(q + 1)
  <2>1. c \in Nat /\ c >= Half
    BY <1>3, HalfPositive
  <2>2. p * c >= c
    BY <2>1, <1>2, <1>4
  <2>3. p * q + p = -(p * c)
    BY <1>2, <1>3
  <2> HIDE DEF c
  <2>4. p * c \in Int
    BY <2>1, <1>2
  <2> QED
    BY <2>1, <2>2, <2>3, <2>4, <1>2, <1>3, HalfPositive
<1> QED
  BY <1>3, <1>5, <1>6, HalfPositive DEF Word

(* idivq's remainder is a word, and has no more than the divisor's size.  *)
LEMMA RemainderIsWord ==
  ASSUME NEW l \in Word, NEW r \in Word, r /= 0
  PROVE  /\ Toward0(l, r) \in Int
         /\ l - r * Toward0(l, r) \in Word
<1>1. \A a \in Nat, b \in Nat \ {0} : a \div b \in Nat /\ b * (a \div b) <= a /\ a < b * (a \div b) + b
  OBVIOUS
<1> DEFINE a == Magnitude(l)
           b == Magnitude(r)
<1>2. a \in Nat /\ b \in Nat \ {0} /\ b <= Half /\ l \in Int /\ r \in Int
  BY HalfPositive DEF Word, Magnitude
<1>3. a = (IF l < 0 THEN -l ELSE l) /\ b = (IF r < 0 THEN -r ELSE r)
  BY HalfPositive DEF Word, Magnitude
<1> HIDE DEF a, b
<1>4. PICK q \in Nat : q = a \div b /\ b * q <= a /\ a < b * q + b
  BY <1>1, <1>2
<1>5. Toward0(l, r) = IF (l < 0) = (r < 0) THEN q ELSE -q
  BY <1>4 DEF Toward0, a, b
<1>6. PICK m \in Int : m = b * q
  BY <1>2, <1>4
<1>7. a - m \in 0..(Half - 1)
  BY <1>2, <1>4, <1>6, HalfPositive
<1>8. r * Toward0(l, r) = IF l < 0 THEN -m ELSE m
  <2>1. b * (-q) = -m /\ (-b) * q = -m /\ (-b) * (-q) = m
    BY <1>2, <1>4, <1>6
  <2>2. CASE r < 0 /\ l < 0
    BY <2>1, <2>2, <1>2, <1>3, <1>5
  <2>3. CASE r < 0 /\ ~(l < 0)
    BY <2>1, <2>3, <1>2, <1>3, <1>5
  <2>4. CASE ~(r < 0) /\ l < 0
    BY <2>1, <2>4, <1>2, <1>3, <1>5
  <2>5. CASE ~(r < 0) /\ ~(l < 0)
    BY <2>5, <1>2, <1>3, <1>5, <1>6
  <2> QED
    BY <2>2, <2>3, <2>4, <2>5
<1>9. l - r * Toward0(l, r) = IF l < 0 THEN -(a - m) ELSE a - m
  BY <1>2, <1>3, <1>6, <1>8
<1> QED
  BY <1>4, <1>5, <1>7, <1>9, <1>2, <1>6, HalfPositive DEF Word

LEMMA Powers ==
  /\ \A n \in Word : n % Bits \in 0..(Bits - 1) /\ 2^(n % Bits) \in 1..Half
  /\ \A n \in 0..(Bits - 1) : n % Bits = n /\ 2^n \in 1..Half
<1>1. \A a \in Int, b \in Nat \ {0} : a % b \in 0..(b - 1)
  OBVIOUS
<1>2. \A a \in Int, b \in Nat \ {0} : a \in 0..(b - 1) => a % b = a
  OBVIOUS
<1>3. Bits \in Nat \ {0} /\ \A n \in 0..(Bits - 1) : 2^n \in 1..Half
  BY WordsAssumption
<1>4. \A n \in Word : n \in Int
  BY HalfPositive DEF Word
<1>5. \A n \in Word : n % Bits \in 0..(Bits - 1)
  BY <1>1, <1>3, <1>4
<1>6. \A n \in 0..(Bits - 1) : n \in Int
  BY <1>3
<1>7. \A n \in 0..(Bits - 1) : n % Bits = n
  BY <1>2, <1>3, <1>6
<1> QED
  BY <1>3, <1>5, <1>7

LEMMA Shifts ==
  ASSUME NEW l \in Word, NEW n \in Word
  PROVE  Shl(l, n) \in Word /\ Sar(l, n) \in Word /\ Shr(l, n) \in Word
<1>1. PICK p \in 1..Half : p = 2^(n % Bits)
  BY Powers
<1>2. l * p \in Int /\ AsUnsigned(l) \div p \in Int
  BY Unsigned2, HalfPositive
<1>3. Wrap(l * p) \in Word /\ Wrap(AsUnsigned(l) \div p) \in Word
  BY <1>2, WrapIsWord
<1>4. l \div p \in Word
  BY QuotientIsWord
<1> QED
  BY <1>1, <1>3, <1>4 DEF Shl, Sar, Shr

LEMMA BitwiseIsWord == ASSUME NEW op, NEW l, NEW r PROVE Bitwise2(op, l, r) \in Word
<1>1. \A on \in SUBSET (0..(Bits - 1)) : (CHOOSE w \in Word : HasBits(w, on)) \in Word
  <2> TAKE on \in SUBSET (0..(Bits - 1))
  <2>1. \E w \in Word : HasBits(w, on)
    BY WordsAssumption
  <2> HIDE DEF HasBits, Word
  <2> QED
    BY <2>1
<1> DEFINE both(i) == Bit(l, i) + Bit(r, i)
           on == {i \in 0..(Bits - 1) : CASE op = "&" -> both(i) = 2
                                          [] op = "|" -> both(i) > 0
                                          [] op = "^" -> both(i) = 1}
<1>2. Bitwise2(op, l, r) = CHOOSE w \in Word : HasBits(w, on)
  BY DEF Bitwise2
<1>3. on \in SUBSET (0..(Bits - 1))
  OBVIOUS
<1> HIDE DEF on
<1> QED
  BY <1>1, <1>2, <1>3

(* The divisions: a quotient and a remainder where there are such words. *)
LEMMA Divisions ==
  ASSUME NEW l \in Word, NEW r \in Word
  PROVE  /\ Idiv(l, r) \in Word \cup {Trap} /\ Irem(l, r) \in Word \cup {Trap}
         /\ Udiv(l, r) \in Word \cup {Trap} /\ Urem(l, r) \in Word \cup {Trap}
<1>1. Idiv(l, r) \in Word \cup {Trap}
  BY DEF Idiv
<1>2. Irem(l, r) \in Word \cup {Trap}
  BY RemainderIsWord DEF Irem
<1>3. CASE r = 0
  BY <1>1, <1>2, <1>3 DEF Udiv, Urem
<1>4. CASE r /= 0
  <2>1. AsUnsigned(l) \in Nat /\ AsUnsigned(r) \in Nat \ {0}
    BY <1>4, Unsigned2, HalfPositive
  <2>2. \A a \in Nat, b \in Nat \ {0} : a \div b \in Int /\ a % b \in Int
    OBVIOUS
  <2>3. AsUnsigned(l) \div AsUnsigned(r) \in Int /\ AsUnsigned(l) % AsUnsigned(r) \in Int
    BY <2>1, <2>2
  <2>4. Udiv(l, r) \in Word /\ Urem(l, r) \in Word
    BY <2>3, <1>4, WrapIsWord DEF Udiv, Urem
  <2> QED
    BY <1>1, <1>2, <2>4
<1> QED
  BY <1>3, <1>4

(* The one division of words that has no quotient. *)
LEMMA NoQuotient ==
  ASSUME NEW l \in Word, NEW r \in Word, r /= 0, Toward0(l, r) \notin Word
  PROVE  l = Lowest /\ r = -1
<1>1. \A a \in Nat, b \in Nat \ {0} : a \div b \in Nat /\ b * (a \div b) <= a
  OBVIOUS
<1> DEFINE a == Magnitude(l)
           b == Magnitude(r)
<1>2. a \in Nat /\ b \in Nat \ {0} /\ a <= Half /\ l \in Int /\ r \in Int /\ -Half <= l
  BY HalfPositive DEF Word, Magnitude
<1>3. a = (IF l < 0 THEN -l ELSE l) /\ b = (IF r < 0 THEN -r ELSE r)
  BY HalfPositive DEF Word, Magnitude
<1> HIDE DEF a, b
<1>4. PICK q \in Nat : q = a \div b /\ b * q <= a
  BY <1>1, <1>2
<1>5. Toward0(l, r) = IF (l < 0) = (r < 0) THEN q ELSE -q
  BY <1>4 DEF Toward0, a, b
<1>6. q <= b * q
  BY <1>2, <1>4
<1>7. q <= Half
  BY <1>2, <1>4, <1>6, HalfPositive
<1>8. q = Half /\ ((l < 0) = (r < 0))
  BY <1>4, <1>5, <1>7, HalfPositive DEF Word
<1>9. a = Half /\ l = -Half /\ r < 0
  BY <1>2, <1>3, <1>4, <1>6, <1>8, HalfPositive DEF Word
<1>10. b = 1
  <2>1. \A k \in Nat \ {0}, h \in Nat \ {0} : k * h <= h => k = 1
    OBVIOUS
  <2> QED
    BY <2>1, <1>2, <1>4, <1>8, <1>9, HalfPositive
<1> QED
  BY <1>2, <1>3, <1>9, <1>10 DEF Lowest

(***************************************************************************)
(* One operator on words.                                                  *)
(***************************************************************************)
LEMMA SumsAreWords ==
  ASSUME NEW l \in Word, NEW r \in Word
  PROVE  Wrap(l + r) \in Word /\ Wrap(l - r) \in Word /\ Wrap(l * r) \in Word
<1>1. l + r \in Int /\ l - r \in Int /\ l * r \in Int
  BY Unsigned2
<1> QED
  BY <1>1, WrapIsWord

(* The operators, one by one. *)
LEMMA HostSums ==
  ASSUME NEW l \in Word, NEW r \in Word, NEW op \in {"+", "-", "*"}
  PROVE  Host(op, l, r) = IF op = "+" THEN Wrap(l + r) ELSE IF op = "-" THEN Wrap(l - r) ELSE Wrap(l * r)
<1>1. /\ Host("+", l, r) = Wrap(l + r) /\ Host("-", l, r) = Wrap(l - r) /\ Host("*", l, r) = Wrap(l * r)
  BY DEF Host, Bitwise
<1> QED
  BY ONLY <1>1, op \in {"+", "-", "*"}

LEMMA HostDivisions ==
  ASSUME NEW l \in Word, NEW r \in Word, NEW op \in {"/", "%"}
  PROVE  Host(op, l, r) = IF r = 0 THEN Declines ELSE IF op = "/" THEN Idiv(l, r) ELSE Irem(l, r)
  BY DEF Host, Bitwise

LEMMA HostShifts ==
  ASSUME NEW l \in Word, NEW r \in Word, NEW op \in {"<<", ">>"}
  PROVE  Host(op, l, r) = IF op = "<<" THEN Shl(l, r) ELSE Sar(l, r)
  BY DEF Host, Bitwise

LEMMA HostBitwise ==
  ASSUME NEW l \in Word, NEW r \in Word, NEW op \in Bitwise
  PROVE  Host(op, l, r) = Bitwise2(op, l, r)
  BY DEF Host, Bitwise

LEMMA HostCompares ==
  ASSUME NEW l \in Word, NEW r \in Word, NEW op \in Compares
  PROVE  Host(op, l, r) = Truth(Related(op, l, r))
<1>1. /\ Host("==", l, r) = Truth(l = r) /\ Host("!=", l, r) = Truth(l /= r)
      /\ Host("<", l, r) = Truth(l < r) /\ Host("<=", l, r) = Truth(l <= r)
      /\ Host(">", l, r) = Truth(l > r) /\ Host(">=", l, r) = Truth(l >= r)
  BY DEF Host, Bitwise
<1>2. \A b \in {"==", "!=", "<", "<=", ">", ">="} : Host(b, l, r) = Truth(Related(b, l, r))
  BY <1>1 DEF Related
<1>3. op \in {"==", "!=", "<", "<=", ">", ">="}
  BY DEF Compares, Order
<1> QED
  BY ONLY <1>2, <1>3

LEMMA HostLogic ==
  ASSUME NEW l \in Word, NEW r \in Word
  PROVE  /\ Host("&&", l, r) = Truth(l /= 0 /\ r /= 0)
         /\ Host("||", l, r) = Truth(l /= 0 \/ r /= 0)
         /\ Host(",", l, r) = Declines
  BY DEF Host, Bitwise

LEMMA EmitOf ==
  ASSUME NEW l, NEW r, NEW uns
  PROVE  /\ \A op \in {"+", "-", "*"} \cup Bitwise : EmitBinopReg(op, uns, l, r) = Host(op, l, r)
         /\ EmitBinopReg("/", uns, l, r) = (IF uns THEN Udiv(l, r) ELSE Idiv(l, r))
         /\ EmitBinopReg("%", uns, l, r) = (IF uns THEN Urem(l, r) ELSE Irem(l, r))
         /\ EmitBinopReg("<<", uns, l, r) = Shl(l, r)
         /\ EmitBinopReg(">>", uns, l, r) = (IF uns THEN Shr(l, r) ELSE Sar(l, r))
         /\ \A op \in Compares :
              EmitBinopReg(op, uns, l, r) = Truth(Set(Condition(op, uns), Flags(l, r)))
<1>1. \A op \in {"+", "-", "*", "&", "|", "^"} : EmitBinopReg(op, uns, l, r) = Host(op, l, r)
  BY DEF EmitBinopReg, Bitwise, Compares, Order
<1>2. /\ EmitBinopReg("/", uns, l, r) = (IF uns THEN Udiv(l, r) ELSE Idiv(l, r))
      /\ EmitBinopReg("%", uns, l, r) = (IF uns THEN Urem(l, r) ELSE Irem(l, r))
  BY DEF EmitBinopReg, Bitwise, Compares, Order
<1>3. /\ EmitBinopReg("<<", uns, l, r) = Shl(l, r)
      /\ EmitBinopReg(">>", uns, l, r) = (IF uns THEN Shr(l, r) ELSE Sar(l, r))
  BY DEF EmitBinopReg, Bitwise, Compares, Order
<1>4. \A op \in {"==", "!=", "<", "<=", ">", ">="} :
        EmitBinopReg(op, uns, l, r) = Truth(Set(Condition(op, uns), Flags(l, r)))
  BY DEF EmitBinopReg, Bitwise, Compares, Order
<1> QED
  BY <1>1, <1>2, <1>3, <1>4 DEF Bitwise, Compares, Order

LEMMA HostIsWord ==
  ASSUME NEW l \in Word, NEW r \in Word,
         NEW op \in {"+", "-", "*", "<<", ">>", "&&", "||"} \cup Compares \cup Bitwise
  PROVE  Host(op, l, r) \in Word
<1>1. CASE op \in {"+", "-", "*"}
  <2>1. Host(op, l, r) = IF op = "+" THEN Wrap(l + r) ELSE IF op = "-" THEN Wrap(l - r) ELSE Wrap(l * r)
    BY <1>1, HostSums
  <2>2. Wrap(l + r) \in Word /\ Wrap(l - r) \in Word /\ Wrap(l * r) \in Word
    BY SumsAreWords
  <2> QED
    BY ONLY <2>1, <2>2, <1>1
<1>2. CASE op \in {"<<", ">>"}
  BY <1>2, Shifts, HostShifts
<1>3. CASE op \in Bitwise
  <2>1. Host(op, l, r) = Bitwise2(op, l, r)
    BY <1>3, HostBitwise
  <2> QED
    BY <2>1, BitwiseIsWord
<1>4. CASE op \in Compares \cup {"&&", "||"}
  <2>1. CASE op \in Compares
    <3>1. Host(op, l, r) = Truth(Related(op, l, r))
      BY <2>1, HostCompares
    <3> QED
      BY <3>1, Truths
  <2>2. CASE op \in {"&&", "||"}
    <3>1. Host("&&", l, r) = Truth(l /= 0 /\ r /= 0) /\ Host("||", l, r) = Truth(l /= 0 \/ r /= 0)
      BY HostLogic
    <3>2. Truth(l /= 0 /\ r /= 0) \in Word /\ Truth(l /= 0 \/ r /= 0) \in Word
      BY Truths
    <3> QED
      BY ONLY <2>2, <3>1, <3>2
  <2> QED
    BY <1>4, <2>1, <2>2
<1> QED
  BY <1>1, <1>2, <1>3, <1>4

(* What fold_const() computes of two operands: no value but of a division by  *)
(* 0 and of the comma, and a trap only where the quotient is no word.        *)
LEMMA HostFolds ==
  ASSUME NEW l \in Word, NEW r \in Word, NEW op \in BinaryOps
  PROVE  /\ Host(op, l, r) \in Word \cup {Declines, Trap}
         /\ Host(op, l, r) = Trap => op \in {"/", "%"} /\ l = Lowest /\ r = -1
         /\ Host(op, l, r) /= Declines => op /= "," /\ (op \in {"/", "%"} => r /= 0)
<1>1. Trap \notin Word /\ Declines \notin Word /\ Trap /= Declines
  BY ArithAssumption
<1>2. CASE op \in {"+", "-", "*", "<<", ">>", "&&", "||"} \cup Compares \cup Bitwise
  <2>1. Host(op, l, r) \in Word
    BY <1>2, HostIsWord
  <2>2. op \notin {",", "/", "%"}
    BY <1>2 DEF Compares, Order, Bitwise
  <2> QED
    BY <2>1, <2>2, <1>1
<1>3. CASE op \in {"/", "%"}
  <2>1. Host(op, l, r) = IF r = 0 THEN Declines ELSE IF op = "/" THEN Idiv(l, r) ELSE Irem(l, r)
    BY <1>3, HostDivisions
  <2>2. Host(op, l, r) \in Word \cup {Declines, Trap}
    BY <2>1, Divisions
  <2>3. ASSUME Host(op, l, r) = Trap PROVE r /= 0 /\ Toward0(l, r) \notin Word
    <3>1. r /= 0
      BY <2>1, <2>3, <1>1
    <3>2. Toward0(l, r) \in Word => l - r * Toward0(l, r) \in Word
      BY <3>1, RemainderIsWord
    <3> QED
      BY <3>1, <3>2, <2>1, <2>3, <1>1 DEF Idiv, Irem
  <2> QED
    BY <2>1, <2>2, <2>3, <1>3, NoQuotient
<1>4. CASE op = ","
  BY <1>1, <1>4, HostLogic
<1> QED
  BY <1>2, <1>3, <1>4 DEF BinaryOps, Arithmetics, Compares

LEMMA EmitSums ==
  ASSUME NEW l \in Word, NEW r \in Word, NEW uns, NEW op \in {"+", "-", "*"} \cup Bitwise
  PROVE  EmitBinopReg(op, uns, l, r) = Host(op, l, r)
  BY EmitOf

LEMMA EmitIsWord ==
  ASSUME NEW l \in Word, NEW r \in Word, NEW op \in Arithmetics, NEW uns \in BOOLEAN
  PROVE  /\ EmitBinopReg(op, uns, l, r) \in Word \cup {Trap}
         /\ op \notin {"/", "%"} => EmitBinopReg(op, uns, l, r) \in Word
<1>1. CASE op \in {"+", "-", "*"} \cup Bitwise
  <2>1. Host(op, l, r) \in Word
    BY <1>1, HostIsWord
  <2> QED
    BY <2>1, <1>1, EmitSums
<1>2. CASE op \in {"/", "%"}
  BY <1>2, Divisions, EmitOf
<1>3. CASE op \in {"<<", ">>"}
  BY <1>3, Shifts, EmitOf
<1>4. CASE op \in Compares
  <2>1. EmitBinopReg(op, uns, l, r) = Truth(Set(Condition(op, uns), Flags(l, r)))
    BY <1>4, EmitOf
  <2> QED
    BY <2>1, Truths
<1> QED
  BY <1>1, <1>2, <1>3, <1>4 DEF Arithmetics, Compares

(* The comparisons of both types, as truths. *)
LEMMA EmitCompares ==
  ASSUME NEW l \in Word, NEW r \in Word, NEW op \in Compares, NEW uns \in BOOLEAN
  PROVE  EmitBinopReg(op, uns, l, r) = Truth(Related(op, AsTyped(l, uns), AsTyped(r, uns)))
<1>1. EmitBinopReg(op, uns, l, r) = Truth(Set(Condition(op, uns), Flags(l, r)))
  BY EmitOf
<1>2. Set(Condition(op, uns), Flags(l, r)) <=> Related(op, AsTyped(l, uns), AsTyped(r, uns))
  BY ComparesInType
<1> QED
  BY <1>1, <1>2 DEF Truth

(* gen_binary_imm() and emit_binop_reg() choose for the same result           *)
(* (codegen.c 731).                                                        *)
LEMMA ImmediateSame ==
  ASSUME NEW l \in Word, NEW v \in Word, NEW op \in Arithmetics, NEW uns, Encodes(op, v)
  PROVE  GenBinaryImm(op, uns, l, v) = EmitBinopReg(op, uns, l, v)
<1>1. op \notin {"/", "%"}
  BY DEF Encodes
<1>2. CASE op \in {"+", "-", "*"} \cup Bitwise
  <2>1. \A b \in {"+", "-", "*", "&", "|", "^"} : GenBinaryImm(b, uns, l, v) = Host(b, l, v)
    BY DEF GenBinaryImm, Compares, Order
  <2> QED
    BY <2>1, <1>2, EmitOf DEF Bitwise
<1>3. CASE op \in {"<<", ">>"}
  <2>1. /\ GenBinaryImm("<<", uns, l, v) = Host("<<", l, v)
        /\ GenBinaryImm(">>", uns, l, v) = IF uns THEN Shr(l, v) ELSE Sar(l, v)
    BY DEF GenBinaryImm, Compares, Order
  <2> QED
    BY <2>1, <1>3, EmitOf, HostShifts
<1>4. CASE op \in Compares
  <2>1. \A b \in {"==", "!=", "<", "<=", ">", ">="} :
          GenBinaryImm(b, uns, l, v) = Truth(Set(Condition(b, uns), Flags(l, v)))
    BY DEF GenBinaryImm, Compares, Order
  <2> QED
    BY <2>1, <1>4, EmitOf DEF Compares, Order
<1> QED
  BY <1>1, <1>2, <1>3, <1>4 DEF Arithmetics, Compares

(* What the compiler computes of two int operands is what the instructions do. *)
LEMMA FoldSame ==
  ASSUME NEW l \in Word, NEW r \in Word, NEW op \in Arithmetics,
         Host(op, l, r) /= Declines
  PROVE  EmitBinopReg(op, FALSE, l, r) = Host(op, l, r)
<1>1. CASE op \in {"+", "-", "*"} \cup Bitwise
  BY <1>1, EmitOf
<1>2. CASE op \in {"/", "%"}
  <2>1. Host(op, l, r) = IF op = "/" THEN Idiv(l, r) ELSE Irem(l, r)
    BY <1>2, HostDivisions
  <2>2. /\ EmitBinopReg("/", FALSE, l, r) = Idiv(l, r)
        /\ EmitBinopReg("%", FALSE, l, r) = Irem(l, r)
    BY EmitOf
  <2> QED
    BY <2>1, <2>2, <1>2
<1>3. CASE op \in {"<<", ">>"}
  <2>1. Host(op, l, r) = IF op = "<<" THEN Shl(l, r) ELSE Sar(l, r)
    BY <1>3, HostShifts
  <2>2. /\ EmitBinopReg("<<", FALSE, l, r) = Shl(l, r)
        /\ EmitBinopReg(">>", FALSE, l, r) = Sar(l, r)
    BY EmitOf
  <2> QED
    BY <2>1, <2>2, <1>3
<1>4. CASE op \in Compares
  <2>1. EmitBinopReg(op, FALSE, l, r) = Truth(Related(op, l, r))
    BY <1>4, EmitCompares DEF AsTyped
  <2>2. Host(op, l, r) = Truth(Related(op, l, r))
    BY <1>4, HostCompares
  <2> QED
    BY <2>1, <2>2
<1> QED
  BY <1>1, <1>2, <1>3, <1>4 DEF Arithmetics, Compares

(***************************************************************************)
(* The instructions compute what C says, where it says it.                  *)
(***************************************************************************)
(* Operands read in their type differ from the words by whole ranges of the   *)
(* word, which come off again.                                              *)
LEMMA SumsInType ==
  ASSUME NEW l \in Word, NEW r \in Word, NEW uns \in BOOLEAN
  PROVE  LET a == AsTyped(l, uns)
             b == AsTyped(r, uns)
         IN  /\ a \in Int /\ b \in Int
             /\ Wrap(a + b) = Wrap(l + r) /\ Wrap(a - b) = Wrap(l - r) /\ Wrap(a * b) = Wrap(l * r)
<1>1. PICK i \in {0, 1} : AsTyped(l, uns) = l + i * (2 * Half)
  BY Unsigned2
<1>2. PICK j \in {0, 1} : AsTyped(r, uns) = r + j * (2 * Half)
  BY Unsigned2
<1>3. PICK a \in Int, b \in Int, m \in Int :
        a = AsTyped(l, uns) /\ b = AsTyped(r, uns) /\ m = 2 * Half
  BY <1>1, <1>2, Unsigned2, HalfPositive
<1>4. a = l + i * m /\ b = r + j * m /\ l \in Int /\ r \in Int
  BY <1>1, <1>2, <1>3, Unsigned2
<1>5. a + b = (l + r) + (i + j) * m /\ a - b = (l - r) + (i - j) * m
  BY <1>4
<1>6. a * b = l * r + (i * r + j * l + i * j * m) * m
  <2>1. CASE i = 0 /\ j = 0
    BY <2>1, <1>4
  <2>2. CASE i = 1 /\ j = 0
    <3>1. a = l + m /\ b = r
      BY <2>2, <1>4
    <3>2. \A x \in Int, y \in Int, z \in Int : (x + z) * y = x * y + y * z
      OBVIOUS
    <3>3. (l + m) * r = l * r + r * m
      BY <3>2, <1>4
    <3> QED
      BY <2>2, <3>1, <3>3, <1>4
  <2>3. CASE i = 0 /\ j = 1
    <3>1. a = l /\ b = r + m
      BY <2>3, <1>4
    <3>2. \A x \in Int, y \in Int, z \in Int : x * (y + z) = x * y + x * z
      OBVIOUS
    <3>3. l * (r + m) = l * r + l * m
      BY <3>2, <1>4
    <3> QED
      BY <2>3, <3>1, <3>3, <1>4
  <2>4. CASE i = 1 /\ j = 1
    <3>1. a = l + m /\ b = r + m
      BY <2>4, <1>4
    <3>2. \A x \in Int, y \in Int, z \in Int : (x + z) * (y + z) = x * y + (y + x + z) * z
      OBVIOUS
    <3>3. (l + m) * (r + m) = l * r + (r + l + m) * m
      BY <3>2, <1>4
    <3> QED
      BY <2>4, <3>1, <3>3, <1>4
  <2> QED
    BY <2>1, <2>2, <2>3, <2>4
<1>7. PICK p \in Int, k \in Int : p = l * r /\ k = i * r + j * l + i * j * m
  BY <1>4
<1>8. \A n \in Int, c \in Int : Wrap(n + c * m) = Wrap(n)
  BY <1>3, WrapPeriod
<1>9. Wrap(a + b) = Wrap(l + r) /\ Wrap(a - b) = Wrap(l - r)
  <2>1. l + r \in Int /\ l - r \in Int /\ i + j \in Int /\ i - j \in Int
    BY <1>4
  <2>2. Wrap((l + r) + (i + j) * m) = Wrap(l + r) /\ Wrap((l - r) + (i - j) * m) = Wrap(l - r)
    BY <2>1, <1>8
  <2> QED
    BY <2>2, <1>5
<1>10. Wrap(a * b) = Wrap(l * r)
  <2>1. Wrap(p + k * m) = Wrap(p)
    BY <1>8
  <2> QED
    BY <2>1, <1>6, <1>7
<1> QED
  BY <1>3, <1>9, <1>10

LEMMA ShiftsInType ==
  ASSUME NEW l \in Word, NEW n \in 0..(Bits - 1), n \in Word, NEW uns \in BOOLEAN
  PROVE  /\ AsTyped(l, uns) * 2^n \in Int
         /\ Wrap(AsTyped(l, uns) * 2^n) = Shl(l, n)
         /\ Wrap(AsTyped(l, uns) \div 2^n) = IF uns THEN Shr(l, n) ELSE Sar(l, n)
<1>1. PICK p \in 1..Half : p = 2^n /\ n % Bits = n
  BY Powers
<1>2. PICK k \in {0, 1} : AsTyped(l, uns) = l + k * (2 * Half)
  BY Unsigned2
<1>3. PICK m \in Int : m = 2 * Half
  BY HalfPositive
<1>4. l \in Int /\ p \in Int /\ AsTyped(l, uns) = l + k * m
  BY <1>2, <1>3, Unsigned2, HalfPositive
<1>5. \A x \in Int, y \in Int, z \in Int : (x + z) * y = x * y + y * z
  OBVIOUS
<1>6. AsTyped(l, uns) * p = l * p + (k * p) * m
  <2>1. CASE k = 0
    BY <2>1, <1>4
  <2>2. CASE k = 1
    <3>1. (l + m) * p = l * p + p * m
      BY <1>4, <1>5
    <3> QED
      BY <2>2, <3>1, <1>4
  <2> QED
    BY <2>1, <2>2
<1>7. PICK w \in Int, c \in Int : w = l * p /\ c = k * p
  BY <1>4
<1>8. Wrap(w + c * m) = Wrap(w)
  BY <1>3, WrapPeriod
<1>9. Wrap(AsTyped(l, uns) * p) = Wrap(l * p)
  BY <1>6, <1>7, <1>8
<1>10. Wrap(l \div p) = l \div p
  BY QuotientIsWord, WrapWord
<1>11. AsTyped(l, uns) * p \in Int
  BY <1>4
<1>12. Shl(l, n) = Wrap(l * p) /\ Shr(l, n) = Wrap(AsUnsigned(l) \div p) /\ Sar(l, n) = l \div p
  BY <1>1 DEF Shl, Shr, Sar
<1> QED
  BY <1>1, <1>9, <1>10, <1>11, <1>12 DEF AsTyped

LEMMA DivisionsInType ==
  ASSUME NEW l \in Word, NEW r \in Word
  PROVE  LET a == AsUnsigned(l)
             b == AsUnsigned(r)
         IN  r /= 0 =>
               /\ b /= 0 /\ Toward0(a, b) \in Int /\ a - b * Toward0(a, b) \in Int
               /\ Wrap(Toward0(a, b)) = Udiv(l, r)
               /\ Wrap(a - b * Toward0(a, b)) = Urem(l, r)
<1> SUFFICES ASSUME r /= 0
             PROVE  LET a == AsUnsigned(l)
                        b == AsUnsigned(r)
                    IN  /\ b /= 0 /\ Toward0(a, b) \in Int /\ a - b * Toward0(a, b) \in Int
                        /\ Wrap(Toward0(a, b)) = Udiv(l, r)
                        /\ Wrap(a - b * Toward0(a, b)) = Urem(l, r)
  OBVIOUS
<1>1. PICK a \in Nat, b \in Nat \ {0} : a = AsUnsigned(l) /\ b = AsUnsigned(r)
  BY Unsigned2, HalfPositive
<1>2. Toward0(a, b) = a \div b
  <2>1. Magnitude(a) = a /\ Magnitude(b) = b /\ ((a < 0) = (b < 0))
    BY DEF Magnitude
  <2> QED
    BY <2>1 DEF Toward0
<1>3. \A x \in Nat, y \in Nat \ {0} : x % y = x - y * (x \div y) /\ x \div y \in Int /\ x % y \in Int
  OBVIOUS
<1>4. a % b = a - b * (a \div b) /\ a \div b \in Int /\ a % b \in Int
  BY <1>3
<1> QED
  BY <1>1, <1>2, <1>4 DEF Udiv, Urem

LEMMA ResultIs ==
  ASSUME NEW n \in Int, NEW uns \in BOOLEAN
  PROVE  /\ Result(n, uns) \in {Open, Wrap(n)} /\ Result(n, uns) \in Word \cup {Open}
         /\ Result(n, uns) = Open <=> ~uns /\ n \notin Word
  BY WrapIsWord, ArithAssumption DEF Result

LEMMA CApplyDivisions ==
  ASSUME NEW l, NEW r, NEW uns, NEW op \in {"/", "%"}
  PROVE  LET a == AsTyped(l, uns)
             b == AsTyped(r, uns)
         IN  CApply(op, uns, l, r) =
               IF op = "/" THEN IF b = 0 THEN Open ELSE Result(Toward0(a, b), uns)
               ELSE IF b = 0 \/ Result(Toward0(a, b), uns) = Open THEN Open
               ELSE Result(a - b * Toward0(a, b), uns)
  BY DEF CApply

LEMMA CApplySums ==
  ASSUME NEW l, NEW r, NEW uns, NEW op \in {"+", "-", "*"}
  PROVE  LET a == AsTyped(l, uns)
             b == AsTyped(r, uns)
         IN  CApply(op, uns, l, r) =
               Result(IF op = "+" THEN a + b ELSE IF op = "-" THEN a - b ELSE a * b, uns)
<1>1. /\ CApply("+", uns, l, r) = Result(AsTyped(l, uns) + AsTyped(r, uns), uns)
      /\ CApply("-", uns, l, r) = Result(AsTyped(l, uns) - AsTyped(r, uns), uns)
      /\ CApply("*", uns, l, r) = Result(AsTyped(l, uns) * AsTyped(r, uns), uns)
  BY DEF CApply
<1> QED
  BY <1>1

LEMMA CApplyShifts ==
  ASSUME NEW l, NEW r, NEW uns, NEW op \in {"<<", ">>"}
  PROVE  CApply(op, uns, l, r) =
           IF op = "<<"
           THEN IF r \in 0..(Bits - 1) /\ (uns \/ l >= 0) THEN Result(AsTyped(l, uns) * 2^r, uns) ELSE Open
           ELSE IF r \in 0..(Bits - 1) THEN Wrap(AsTyped(l, uns) \div 2^r) ELSE Open
  BY DEF CApply

LEMMA CApplyCompares ==
  ASSUME NEW l \in Word, NEW r \in Word, NEW uns \in BOOLEAN, NEW op \in Compares
  PROVE  CApply(op, uns, l, r) = Truth(Related(op, AsTyped(l, uns), AsTyped(r, uns)))
<1>1. CASE op \in Order
  <2>1. /\ CApply("<", uns, l, r) = Truth(AsTyped(l, uns) < AsTyped(r, uns))
        /\ CApply("<=", uns, l, r) = Truth(AsTyped(l, uns) <= AsTyped(r, uns))
        /\ CApply(">", uns, l, r) = Truth(AsTyped(l, uns) > AsTyped(r, uns))
        /\ CApply(">=", uns, l, r) = Truth(AsTyped(l, uns) >= AsTyped(r, uns))
    BY DEF CApply
  <2> QED
    BY <2>1, <1>1 DEF Order, Related
<1>2. CASE op \in {"==", "!="}
  <2>1. CApply(op, uns, l, r) = Host(op, l, r)
    BY <1>2 DEF CApply
  <2>2. Host(op, l, r) = Truth(Related(op, l, r))
    BY HostCompares
  <2>3. AsTyped(l, uns) = AsTyped(r, uns) <=> l = r
    BY HalfPositive DEF Word, AsUnsigned, AsTyped
  <2>4. Related(op, l, r) <=> Related(op, AsTyped(l, uns), AsTyped(r, uns))
    BY <1>2, <2>3 DEF Related
  <2> QED
    BY <2>1, <2>2, <2>4 DEF Truth
<1> QED
  BY <1>1, <1>2 DEF Compares

(* A single operation: C leaves it undefined or agrees with the instructions    *)
(* that are chosen for the type of its operands.                            *)
THEOREM ComputesOne ==
  ASSUME NEW l \in Word, NEW r \in Word, NEW op \in Arithmetics, NEW uns \in BOOLEAN
  PROVE  /\ CApply(op, uns, l, r) \in Word \cup {Open}
         /\ CApply(op, uns, l, r) \in {Open, EmitBinopReg(op, uns, l, r)}
<1> DEFINE c == CApply(op, uns, l, r)
           e == EmitBinopReg(op, uns, l, r)
           a == AsTyped(l, uns)
           b == AsTyped(r, uns)
<1>1. CASE op \in {"+", "-", "*"}
  <2>1. PICK n \in Int : /\ n = IF op = "+" THEN a + b ELSE IF op = "-" THEN a - b ELSE a * b
                         /\ Wrap(n) = IF op = "+" THEN Wrap(l + r) ELSE IF op = "-" THEN Wrap(l - r) ELSE Wrap(l * r)
    BY SumsInType
  <2>2. c = Result(n, uns)
    BY <1>1, <2>1, CApplySums
  <2>3. e = Host(op, l, r)
    BY <1>1, EmitSums
  <2>4. Host(op, l, r) = Wrap(n)
    <3>1. Host(op, l, r) = IF op = "+" THEN Wrap(l + r) ELSE IF op = "-" THEN Wrap(l - r) ELSE Wrap(l * r)
      BY <1>1, HostSums
    <3> QED
      BY <3>1, <2>1
  <2>5. Result(n, uns) \in {Open, Wrap(n)} /\ Result(n, uns) \in Word \cup {Open}
    BY ResultIs
  <2> QED
    BY ONLY <2>2, <2>3, <2>4, <2>5
<1>2. CASE op \in {"/", "%"} /\ uns
  <2>1. a = AsUnsigned(l) /\ b = AsUnsigned(r)
    BY <1>2 DEF AsTyped
  <2>2. CASE r = 0
    <3>1. b = 0
      BY <2>1, <2>2, Unsigned2
    <3>2. c = Open
      BY <3>1, <1>2, CApplyDivisions
    <3> QED
      BY <3>2
  <2>3. CASE r /= 0
    <3>1. PICK q \in Int, m \in Int :
            /\ b /= 0 /\ q = Toward0(a, b) /\ m = a - b * Toward0(a, b)
            /\ Wrap(q) = Udiv(l, r) /\ Wrap(m) = Urem(l, r)
      BY <2>1, <2>3, DivisionsInType
    <3>2. Result(q, uns) = Wrap(q) /\ Result(m, uns) = Wrap(m) /\ Wrap(q) \in Word /\ Wrap(m) \in Word
      BY <1>2, WrapIsWord DEF Result
    <3>3. c = IF op = "/" THEN Result(q, uns) ELSE Result(m, uns)
      <4>1. c = IF op = "/" THEN IF b = 0 THEN Open ELSE Result(q, uns)
                ELSE IF b = 0 \/ Result(q, uns) = Open THEN Open ELSE Result(m, uns)
        <5>1. op \in {"/", "%"}
          BY <1>2
        <5>2. c = IF op = "/" THEN IF b = 0 THEN Open ELSE Result(Toward0(a, b), uns)
                  ELSE IF b = 0 \/ Result(Toward0(a, b), uns) = Open THEN Open
                  ELSE Result(a - b * Toward0(a, b), uns)
          BY ONLY <5>1, CApplyDivisions
        <5> QED
          BY ONLY <5>2, <3>1
      <4>2. Result(q, uns) /= Open
        BY <3>2, ArithAssumption
      <4> HIDE DEF c, b
      <4> QED
        BY <4>1, <4>2, <3>1
    <3>4. e = IF op = "/" THEN Udiv(l, r) ELSE Urem(l, r)
      <4>1. /\ EmitBinopReg("/", uns, l, r) = (IF uns THEN Udiv(l, r) ELSE Idiv(l, r))
            /\ EmitBinopReg("%", uns, l, r) = (IF uns THEN Urem(l, r) ELSE Irem(l, r))
        BY EmitOf
      <4> QED
        BY <4>1, <1>2
    <3> QED
      BY <3>1, <3>2, <3>3, <3>4
  <2> QED
    BY <2>2, <2>3
<1>3. CASE op \in {"/", "%"} /\ ~uns
  <2>1. a = l /\ b = r
    BY <1>3 DEF AsTyped
  <2>2. e = IF op = "/" THEN Idiv(l, r) ELSE Irem(l, r)
    BY <1>3, EmitOf
  <2>3. CASE r = 0
    BY <2>1, <2>3, <1>3, CApplyDivisions
  <2>4. CASE r /= 0
    <3>1. PICK q \in Int, m \in Word : q = Toward0(l, r) /\ m = l - r * Toward0(l, r)
      BY <2>4, RemainderIsWord
    <3>2. m \in Int /\ Result(m, uns) = m
      BY WrapWord, Unsigned2 DEF Result
    <3>3. q \in Word => Result(q, uns) = q
      BY WrapWord DEF Result
    <3>4. q \notin Word => Result(q, uns) = Open
      BY <1>3 DEF Result
    <3>5. c = IF op = "/" THEN Result(q, uns) ELSE IF Result(q, uns) = Open THEN Open ELSE Result(m, uns)
      BY <2>1, <2>4, <3>1, <1>3, CApplyDivisions
    <3>6. q \in Word => e = IF op = "/" THEN q ELSE m
      BY <2>2, <2>4, <3>1 DEF Idiv, Irem
    <3> QED
      BY <3>2, <3>3, <3>4, <3>5, <3>6
  <2> QED
    BY <2>3, <2>4
<1>4. CASE op \in {"<<", ">>"}
  <2>1. CASE r \in 0..(Bits - 1)
    <3>1. PICK n \in Int, w \in Word :
            /\ n = a * 2^r /\ Wrap(n) = Shl(l, r)
            /\ w = Wrap(a \div 2^r) /\ w = IF uns THEN Shr(l, r) ELSE Sar(l, r)
      BY <2>1, ShiftsInType, Shifts
    <3>2. c \in {Open, IF op = "<<" THEN Result(n, uns) ELSE w}
      BY <1>4, <2>1, <3>1, CApplyShifts
    <3>3. e = IF op = "<<" THEN Wrap(n) ELSE w
      BY <1>4, <3>1, EmitOf
    <3> QED
      BY <3>2, <3>3, ResultIs
  <2>2. CASE r \notin 0..(Bits - 1)
    BY <1>4, <2>2, CApplyShifts
  <2> QED
    BY <2>1, <2>2
<1>5. CASE op \in Bitwise
  <2>1. c = Host(op, l, r)
    <3>1. \A o \in {"&", "|", "^"} : CApply(o, uns, l, r) = Host(o, l, r)
      BY DEF CApply
    <3> QED
      BY <3>1, <1>5 DEF Bitwise
  <2>2. Host(op, l, r) \in Word
    BY <1>5, HostIsWord
  <2>3. e = Host(op, l, r)
    BY <1>5, EmitSums
  <2> QED
    BY <2>1, <2>2, <2>3
<1>6. CASE op \in Compares
  <2>1. c = Truth(Related(op, a, b))
    BY <1>6, CApplyCompares
  <2>2. e = Truth(Related(op, a, b))
    BY <1>6, EmitCompares
  <2> QED
    BY <2>1, <2>2, Truths
<1> QED
  BY <1>1, <1>2, <1>3, <1>4, <1>5, <1>6 DEF Arithmetics, Compares

(***************************************************************************)
(* The invariant: what every expression on the stack satisfies.             *)
(***************************************************************************)
Known == [uns : BOOLEAN, literal : BOOLEAN, const : Word \cup {Declines, Trap},
          value : [Samples -> Word \cup {Trap}]]
Entry == [plain : Known, optimized : Known, op : BinaryOps \cup {"?:", "lit", "x", "u"},
          cuns : BOOLEAN, meaning : [Samples -> Word \cup {Open}],
          typed : BOOLEAN, crashes : BOOLEAN, disguises : BOOLEAN]

(* Both ways to compile it have one value, which fold_const() knows if it      *)
(* knows any, and then the type is int.                                      *)
Agree(plain, optimized) ==
  /\ optimized.value = plain.value
  /\ optimized.const /= Trap
  /\ optimized.const \in Word => ~optimized.uns
  /\ optimized.const \in Word => \A s \in Samples : optimized.value[s] = optimized.const

AsMeant(e) == TypedAsC(e) => \A s \in Samples : e.meaning[s] \in {Open, e.plain.value[s]}

Sound(e) ==
  /\ e.optimized.uns = e.plain.uns
  /\ e.optimized.literal =>
       e.optimized.const /= Declines /\ \A s \in Samples : e.optimized.value[s] = e.optimized.const
  /\ ~e.crashes /\ ~e.disguises => Agree(e.plain, e.optimized)
  /\ AsMeant(e)

ArithInv == operands \in Seq({e \in Entry : Sound(e)})

Operations == BinaryOps \cup {"?:"}
Kids(op) == [1..(IF op = "?:" THEN 3 ELSE 2) -> Known]

LEMMA KidsKnown ==
  ASSUME NEW op \in Operations, NEW k \in Kids(op)
  PROVE  /\ k[1] \in Known /\ k[2] \in Known /\ (op = "?:" => k[3] \in Known)
  BY DEF Kids

LEMMA KnownFields ==
  ASSUME NEW k \in Known
  PROVE  /\ k.uns \in BOOLEAN /\ k.literal \in BOOLEAN
         /\ k.const \in Word \cup {Declines, Trap}
         /\ \A s \in Samples : k.value[s] \in Word \cup {Trap}
  BY DEF Known

LEMMA Traps == Trap \notin Word /\ Declines \notin Word /\ Open \notin Word /\ Trap /= Declines
  BY ArithAssumption

(* fold_const() of an operator: of "?:", and of the others.                  *)
LEMMA FoldsTernary ==
  ASSUME NEW k
  PROVE  FoldConst("?:", k) = IF k[1].const \in {Declines, Trap} THEN k[1].const
                              ELSE k[IF k[1].const /= 0 THEN 2 ELSE 3].const
  BY DEF FoldConst, BinaryOps, Arithmetics, Order, Bitwise

LEMMA FoldsBinary ==
  ASSUME NEW k, NEW op \in BinaryOps
  PROVE  FoldConst(op, k) = IF k[1].const \in {Declines, Trap} THEN k[1].const
                            ELSE IF k[2].const \in {Declines, Trap} THEN k[2].const
                            ELSE Host(op, k[1].const, k[2].const)
<1>1. op /= "?:"
  BY DEF BinaryOps, Arithmetics, Order, Bitwise
<1> QED
  BY <1>1 DEF FoldConst

LEMMA FoldConstType ==
  ASSUME NEW op \in Operations, NEW k \in Kids(op)
  PROVE  FoldConst(op, k) \in Word \cup {Declines, Trap}
<1>1. k[1].const \in Word \cup {Declines, Trap} /\ k[2].const \in Word \cup {Declines, Trap}
  BY KidsKnown, KnownFields
<1>2. CASE op = "?:"
  <2>1. k[3].const \in Word \cup {Declines, Trap}
    BY <1>2, KidsKnown, KnownFields
  <2> QED
    BY <1>1, <1>2, <2>1, FoldsTernary
<1>3. CASE op \in BinaryOps
  <2>1. CASE k[1].const \in Word /\ k[2].const \in Word
    <3>1. Host(op, k[1].const, k[2].const) \in Word \cup {Declines, Trap}
      BY <1>3, <2>1, HostFolds
    <3> QED
      BY <1>1, <1>3, <3>1, FoldsBinary
  <2>2. CASE ~(k[1].const \in Word /\ k[2].const \in Word)
    BY <1>1, <1>3, <2>2, FoldsBinary
  <2> QED
    BY <2>1, <2>2
<1> QED
  BY <1>2, <1>3 DEF Operations

LEMMA UnsignedType ==
  ASSUME NEW op \in Operations, NEW k \in Kids(op)
  PROVE  /\ Unsigned(op, k) \in BOOLEAN
         /\ Unsigned(op, k) => \E i \in {1, 2} : k[i].uns
         /\ op = "?:" => Unsigned(op, k) = k[2].uns
<1>1. k[1].uns \in BOOLEAN /\ k[2].uns \in BOOLEAN
  BY KidsKnown, KnownFields
<1>2. CASE op \in {"+", "-"}
  BY <1>2 DEF Unsigned, BinaryOps
<1>3. CASE op \in {",", "?:"}
  <2>1. Unsigned(",", k) = k[2].uns
    BY DEF Unsigned
  <2>2. Unsigned("?:", k) = k[2].uns
    BY DEF Unsigned, BinaryOps, Arithmetics, Order, Bitwise
  <2> QED
    BY <2>1, <2>2, <1>1, <1>3
<1>4. CASE op \in BinaryOps \ {"+", "-", ","}
  <2>1. op \notin {"+", "-", ",", "?:"}
    BY <1>4 DEF BinaryOps, Arithmetics, Order, Bitwise
  <2>2. Unsigned(op, k) = (k[1].uns \/ k[2].uns)
    BY <1>4, <2>1 DEF Unsigned
  <2> QED
    BY <1>1, <2>1, <2>2
<1> QED
  BY <1>2, <1>3, <1>4 DEF Operations

(***************************************************************************)
(* Running an operator.                                                    *)
(***************************************************************************)
LEMMA RunsArithmetic ==
  ASSUME NEW op \in Arithmetics, NEW k \in Kids(op), NEW optimize \in BOOLEAN, NEW s \in Samples
  PROVE  LET left == k[1].value[s]
             right == k[2].value[s]
             uns == k[1].uns \/ k[2].uns
         IN  Run(op, k, optimize, s) =
               IF left = Trap \/ right = Trap THEN Trap
               ELSE IF optimize /\ k[2].literal /\ Encodes(op, k[2].const)
               THEN GenBinaryImm(op, uns, left, right)
               ELSE EmitBinopReg(op, uns, left, right)
<1>1. op \notin {"&&", "||", "?:", ","}
  BY DEF Arithmetics, Order, Bitwise
<1> QED
  BY <1>1 DEF Run

LEMMA RunsTernary ==
  ASSUME NEW k \in Kids("?:"), NEW optimize \in BOOLEAN, NEW s \in Samples, k[1].value[s] /= Trap
  PROVE  Run("?:", k, optimize, s) = k[IF k[1].value[s] /= 0 THEN 2 ELSE 3].value[s]
  BY DEF Run, Arithmetics, Order, Bitwise

LEMMA RunsLogic ==
  ASSUME NEW op \in {"&&", "||", ","}, NEW k \in Kids(op), NEW optimize \in BOOLEAN, NEW s \in Samples,
         k[1].value[s] /= Trap
  PROVE  Run(op, k, optimize, s) =
           IF op = "," THEN k[2].value[s]
           ELSE IF op = "&&" <=> k[1].value[s] = 0 THEN Truth(op = "||")
           ELSE IF k[2].value[s] = Trap THEN Trap ELSE Truth(k[2].value[s] /= 0)
  BY DEF Run, Arithmetics, Order, Bitwise, Truth

LEMMA RunsTrap ==
  ASSUME NEW op \in Operations, NEW k \in Kids(op), NEW optimize \in BOOLEAN, NEW s \in Samples,
         k[1].value[s] = Trap
  PROVE  Run(op, k, optimize, s) = Trap
  BY DEF Run

LEMMA Truth01 == 0 \in Word /\ 1 \in Word
  BY HalfPositive DEF Word

LEMMA RunType ==
  ASSUME NEW op \in Operations, NEW k \in Kids(op), NEW optimize \in BOOLEAN, NEW s \in Samples,
         optimize /\ k[2].literal => k[2].value[s] = k[2].const
  PROVE  Run(op, k, optimize, s) \in Word \cup {Trap}
<1> DEFINE left == k[1].value[s]
           right == k[2].value[s]
<1>1. left \in Word \cup {Trap} /\ right \in Word \cup {Trap}
  BY KidsKnown, KnownFields
<1>2. CASE left = Trap
  BY <1>2, RunsTrap
<1>3. CASE left /= Trap /\ op \in Arithmetics
  <2>1. CASE right = Trap
    BY <2>1, <1>3, RunsArithmetic
  <2>2. CASE right /= Trap
    <3>1. PICK uns \in BOOLEAN : uns = (k[1].uns \/ k[2].uns)
      <4>1. (k[1].uns \/ k[2].uns) \in BOOLEAN
        OBVIOUS
      <4> QED
        BY ONLY <4>1
    <3>2. EmitBinopReg(op, uns, left, right) \in Word \cup {Trap}
      BY <1>1, <1>3, <2>2, EmitIsWord
    <3>3. Encodes(op, right) => GenBinaryImm(op, uns, left, right) = EmitBinopReg(op, uns, left, right)
      BY <1>1, <1>3, <2>2, ImmediateSame
    <3>4. Run(op, k, optimize, s) =
            IF optimize /\ k[2].literal /\ Encodes(op, k[2].const)
            THEN GenBinaryImm(op, uns, left, right)
            ELSE EmitBinopReg(op, uns, left, right)
      BY <1>3, <2>2, <3>1, RunsArithmetic
    <3> QED
      BY <3>2, <3>3, <3>4
  <2> QED
    BY <2>1, <2>2
<1>4. CASE left /= Trap /\ op \in {"&&", "||", ","}
  <2>1. PICK w \in Word, v \in Word : w = Truth(op = "||") /\ v = Truth(right /= 0)
    BY Truths
  <2>2. Run(op, k, optimize, s) \in {right, w, Trap, v}
    <3>1. op \in {"&&", "||", ","} /\ left /= Trap
      BY <1>4
    <3>2. Run(op, k, optimize, s) =
            IF op = "," THEN right
            ELSE IF op = "&&" <=> left = 0 THEN Truth(op = "||")
            ELSE IF right = Trap THEN Trap ELSE Truth(right /= 0)
      BY ONLY <3>1, RunsLogic, k \in Kids(op), optimize \in BOOLEAN, s \in Samples
    <3> QED
      BY ONLY <3>2, <2>1
  <2> QED
    BY <2>1, <2>2, <1>1
<1>5. CASE left /= Trap /\ op = "?:"
  <2>1. k[3].value[s] \in Word \cup {Trap}
    BY <1>5, KidsKnown, KnownFields
  <2>2. Run(op, k, optimize, s) = k[IF left /= 0 THEN 2 ELSE 3].value[s]
    BY <1>5, RunsTernary
  <2> QED
    BY <2>1, <2>2, <1>1
<1> QED
  BY <1>2, <1>3, <1>4, <1>5 DEF Operations, BinaryOps

(* With a literal in the instruction or without.                             *)
LEMMA RunSame ==
  ASSUME NEW op \in Operations, NEW p \in Kids(op), NEW o \in Kids(op), NEW s \in Samples,
         \A i \in DOMAIN o : o[i].value = p[i].value /\ o[i].uns = p[i].uns,
         o[2].literal => o[2].value[s] = o[2].const
  PROVE  Run(op, o, TRUE, s) = Run(op, p, FALSE, s)
<1>1. /\ o[1].value[s] = p[1].value[s] /\ o[1].uns = p[1].uns
      /\ o[2].value[s] = p[2].value[s] /\ o[2].uns = p[2].uns
      /\ op = "?:" => o[3].value[s] = p[3].value[s]
  BY DEF Kids
<1>2. o[1].value[s] \in Word \cup {Trap} /\ o[2].value[s] \in Word \cup {Trap}
  BY KidsKnown, KnownFields
<1>3. CASE o[1].value[s] = Trap
  BY <1>1, <1>3, RunsTrap
<1>4. CASE o[1].value[s] /= Trap /\ op \in Arithmetics
  <2>1. CASE o[2].value[s] = Trap
    BY <2>1, <1>1, <1>4, RunsArithmetic
  <2>2. CASE o[2].value[s] /= Trap
    <3>1. PICK uns \in BOOLEAN, l \in Word, r \in Word :
            uns = (o[1].uns \/ o[2].uns) /\ l = o[1].value[s] /\ r = o[2].value[s]
      <4>1. (o[1].uns \/ o[2].uns) \in BOOLEAN
        OBVIOUS
      <4> QED
        BY ONLY <4>1, <1>2, <1>4, <2>2
    <3>2. Encodes(op, r) => GenBinaryImm(op, uns, l, r) = EmitBinopReg(op, uns, l, r)
      BY <1>4, ImmediateSame
    <3>3. Run(op, o, TRUE, s) =
            IF o[2].literal /\ Encodes(op, o[2].const)
            THEN GenBinaryImm(op, uns, l, r) ELSE EmitBinopReg(op, uns, l, r)
      <4>1. Run(op, o, TRUE, s) =
              IF o[2].literal /\ Encodes(op, o[2].const)
              THEN GenBinaryImm(op, o[1].uns \/ o[2].uns, o[1].value[s], o[2].value[s])
              ELSE EmitBinopReg(op, o[1].uns \/ o[2].uns, o[1].value[s], o[2].value[s])
        BY <1>4, <2>2, RunsArithmetic
      <4> QED
        BY ONLY <4>1, <3>1
    <3>4. Run(op, p, FALSE, s) = EmitBinopReg(op, uns, l, r)
      <4>1. p[1].value[s] /= Trap /\ p[2].value[s] /= Trap
        BY <1>1, <1>4, <2>2
      <4>2. Run(op, p, FALSE, s) = EmitBinopReg(op, p[1].uns \/ p[2].uns, p[1].value[s], p[2].value[s])
        BY <1>4, <4>1, RunsArithmetic
      <4> QED
        BY ONLY <4>2, <3>1, <1>1
    <3> QED
      BY <3>1, <3>2, <3>3, <3>4
  <2> QED
    BY <2>1, <2>2
<1>5. CASE o[1].value[s] /= Trap /\ op \in {"&&", "||", ",", "?:"}
  <2>1. CASE op /= "?:"
    <3>1. op \in {"&&", "||", ","} /\ o[1].value[s] /= Trap /\ p[1].value[s] /= Trap
      BY <1>1, <1>5, <2>1
    <3> DEFINE Value(l, r) ==
                 IF op = "," THEN r
                 ELSE IF op = "&&" <=> l = 0 THEN Truth(op = "||")
                 ELSE IF r = Trap THEN Trap ELSE Truth(r /= 0)
    <3>2. Run(op, o, TRUE, s) = Value(o[1].value[s], o[2].value[s])
      BY <3>1, RunsLogic
    <3>3. Run(op, p, FALSE, s) = Value(p[1].value[s], p[2].value[s])
      BY <3>1, RunsLogic
    <3> HIDE DEF Value
    <3> QED
      BY <3>2, <3>3, <1>1
  <2>2. CASE op = "?:"
    <3>1. /\ Run(op, o, TRUE, s) = o[IF o[1].value[s] /= 0 THEN 2 ELSE 3].value[s]
          /\ Run(op, p, FALSE, s) = p[IF p[1].value[s] /= 0 THEN 2 ELSE 3].value[s]
      BY <2>2, <1>1, <1>5, RunsTernary
    <3> QED
      BY <3>1, <2>2, <1>1
  <2> QED
    BY <2>1, <2>2
<1> QED
  BY <1>3, <1>4, <1>5 DEF Operations, BinaryOps

(***************************************************************************)
(* Folding an operator.                                                    *)
(***************************************************************************)
AgreeAll(p, o) == \A i \in DOMAIN o : Agree(p[i], o[i]) /\ o[i].uns = p[i].uns

(* What an operand that fold_const() knows yields.                           *)
LEMMA KnownOperand ==
  ASSUME NEW p \in Known, NEW o \in Known, Agree(p, o), o.uns = p.uns,
         o.const \notin {Declines, Trap}, NEW s \in Samples
  PROVE  o.const \in Word /\ ~p.uns /\ ~o.uns /\ p.value[s] = o.const /\ o.value[s] = o.const
<1>1. o.const \in Word
  BY KnownFields
<1> QED
  BY <1>1 DEF Agree

(* Where fold_const() finds a word, the generated code would compute it, and    *)
(* the operands it looked at are int.                                        *)
LEMMA FoldRuns ==
  ASSUME NEW op \in Operations, NEW p \in Kids(op), NEW o \in Kids(op), NEW s \in Samples,
         AgreeAll(p, o), FoldConst(op, o) \in Word
  PROVE  /\ Run(op, p, FALSE, s) = FoldConst(op, o)
         /\ op \in BinaryOps => ~o[1].uns /\ ~o[2].uns
<1>1. \A i \in DOMAIN o : o[i] \in Known /\ p[i] \in Known /\ Agree(p[i], o[i]) /\ o[i].uns = p[i].uns
  BY DEF Kids, AgreeAll
<1>2. 1 \in DOMAIN o /\ 2 \in DOMAIN o /\ (op = "?:" => 3 \in DOMAIN o)
  BY DEF Kids
<1>3. FoldConst(op, o) \notin {Declines, Trap}
  BY Traps
<1>4. \A i \in DOMAIN o : o[i].const \notin {Declines, Trap} =>
        o[i].const \in Word /\ ~p[i].uns /\ ~o[i].uns /\ p[i].value[s] = o[i].const
  <2> TAKE i \in DOMAIN o
  <2> HAVE o[i].const \notin {Declines, Trap}
  <2>1. o[i] \in Known /\ p[i] \in Known /\ Agree(p[i], o[i]) /\ o[i].uns = p[i].uns
    BY <1>1
  <2> QED
    BY <2>1, KnownOperand
<1>5. CASE op = "?:"
  <2>1. o[1].const \notin {Declines, Trap}
    BY <1>3, <1>5, FoldsTernary
  <2>2. p[1].value[s] = o[1].const /\ o[1].const \in Word
    BY <2>1, <1>2, <1>4
  <2>3. PICK i \in {2, 3} : i = IF o[1].const /= 0 THEN 2 ELSE 3
    OBVIOUS
  <2>4. FoldConst(op, o) = o[i].const
    BY <2>1, <2>3, <1>5, FoldsTernary
  <2>5. p[i].value[s] = o[i].const
    BY <2>4, <1>2, <1>3, <1>4, <1>5
  <2>6. p[1].value[s] /= Trap
    BY <2>2, Traps
  <2>7. Run(op, p, FALSE, s) = p[i].value[s]
    <3>1. Run(op, p, FALSE, s) = p[IF p[1].value[s] /= 0 THEN 2 ELSE 3].value[s]
      BY <2>6, <1>5, RunsTernary
    <3> QED
      BY <3>1, <2>2, <2>3
  <2>8. op \notin BinaryOps
    BY <1>5 DEF BinaryOps, Arithmetics, Order, Bitwise
  <2> QED
    BY <2>4, <2>5, <2>7, <2>8
<1>6. CASE op \in BinaryOps
  <2>1. FoldConst(op, o) = IF o[1].const \in {Declines, Trap} THEN o[1].const
                           ELSE IF o[2].const \in {Declines, Trap} THEN o[2].const
                           ELSE Host(op, o[1].const, o[2].const)
    BY <1>6, FoldsBinary
  <2>2. o[1].const \notin {Declines, Trap} /\ o[2].const \notin {Declines, Trap}
    BY <2>1, <1>3
  <2>3. PICK l \in Word, r \in Word :
          /\ l = o[1].const /\ r = o[2].const /\ p[1].value[s] = l /\ p[2].value[s] = r
          /\ ~o[1].uns /\ ~o[2].uns /\ ~p[1].uns /\ ~p[2].uns
    BY <2>2, <1>2, <1>4
  <2>4. FoldConst(op, o) = Host(op, l, r)
    BY <2>1, <2>2, <2>3
  <2>5. l /= Trap /\ r /= Trap
    BY Traps
  <2>6. CASE op \in Arithmetics
    <3>1. EmitBinopReg(op, FALSE, l, r) = Host(op, l, r)
      BY <2>4, <2>6, <1>3, FoldSame
    <3>2. (p[1].uns \/ p[2].uns) = FALSE
      BY <2>3
    <3>3. Run(op, p, FALSE, s) = EmitBinopReg(op, p[1].uns \/ p[2].uns, l, r)
      BY <2>3, <2>5, <2>6, RunsArithmetic
    <3> QED
      BY <3>1, <3>2, <3>3, <2>3, <2>4
  <2>7. CASE op \in {"&&", "||"}
    <3>1. Run(op, p, FALSE, s) =
            IF op = "," THEN p[2].value[s]
            ELSE IF op = "&&" <=> p[1].value[s] = 0 THEN Truth(op = "||")
            ELSE IF p[2].value[s] = Trap THEN Trap ELSE Truth(p[2].value[s] /= 0)
      <4>1. op \in {"&&", "||", ","} /\ p[1].value[s] /= Trap
        BY <2>3, <2>5, <2>7
      <4> QED
        BY <4>1, RunsLogic
    <3>2. Run(op, p, FALSE, s) = IF op = "&&" <=> l = 0 THEN Truth(op = "||") ELSE Truth(r /= 0)
      BY <3>1, <2>3, <2>5, <2>7
    <3>3. /\ Host("&&", l, r) = Truth(l /= 0 /\ r /= 0)
          /\ Host("||", l, r) = Truth(l /= 0 \/ r /= 0)
      BY HostLogic
    <3> QED
      BY <3>2, <3>3, <2>3, <2>4, <2>7 DEF Truth
  <2>8. CASE op = ","
    <3>1. Host(op, l, r) = Declines
      BY <2>8, HostLogic
    <3> QED
      BY <3>1, <2>4, <1>3
  <2> QED
    BY <2>6, <2>7, <2>8, <1>6 DEF BinaryOps
<1> QED
  BY <1>5, <1>6 DEF Operations

(***************************************************************************)
(* Checking an operator, with and without g_optimize.                       *)
(***************************************************************************)
LiteralKnown(k) ==
  k.literal => k.const /= Declines /\ \A s \in Samples : k.value[s] = k.const

LEMMA LitIs ==
  ASSUME NEW v \in Word \cup {Trap}
  PROVE  /\ Lit(v) \in Known /\ Lit(v).uns = FALSE /\ Lit(v).const = v
         /\ Lit(v).value = [s \in Samples |-> v] /\ LiteralKnown(Lit(v))
  BY Traps DEF Lit, Checked, Known, LiteralKnown

LEMMA CheckExprKnown ==
  ASSUME NEW op \in Operations, NEW k \in Kids(op), NEW optimize \in BOOLEAN,
         optimize => \A i \in DOMAIN k : LiteralKnown(k[i])
  PROVE  LET c == CheckExpr(op, k, optimize)
         IN  /\ c \in Known /\ c.const = FoldConst(op, k) /\ LiteralKnown(c)
             /\ IF optimize /\ Folds(op, k) THEN c = Lit(FoldConst(op, k))
                ELSE c.uns = Unsigned(op, k) /\ c.value = [s \in Samples |-> Run(op, k, optimize, s)]
<1>1. PICK f \in Word \cup {Declines, Trap} : f = FoldConst(op, k)
  BY FoldConstType
<1>2. CASE optimize /\ Folds(op, k)
  <2>1. f /= Declines
    BY <1>1, <1>2 DEF Folds
  <2>2. CheckExpr(op, k, optimize) = Lit(f)
    BY <1>1, <1>2 DEF CheckExpr
  <2> QED
    BY <1>1, <1>2, <2>1, <2>2, LitIs
<1>3. CASE ~(optimize /\ Folds(op, k))
  <2>1. CheckExpr(op, k, optimize) =
          Checked(Unsigned(op, k), FALSE, f, [s \in Samples |-> Run(op, k, optimize, s)])
    BY <1>1, <1>3 DEF CheckExpr
  <2>2. \A s \in Samples : Run(op, k, optimize, s) \in Word \cup {Trap}
    <3> TAKE s \in Samples
    <3>1. 2 \in DOMAIN k
      BY DEF Kids
    <3>2. optimize /\ k[2].literal => k[2].value[s] = k[2].const
      BY <3>1 DEF LiteralKnown
    <3> QED
      BY <3>2, RunType
  <2>3. Unsigned(op, k) \in BOOLEAN
    BY UnsignedType
  <2>4. PICK u \in BOOLEAN, v \in [Samples -> Word \cup {Trap}] :
          u = Unsigned(op, k) /\ v = [s \in Samples |-> Run(op, k, optimize, s)]
    BY <2>2, <2>3
  <2>5. CheckExpr(op, k, optimize) = [uns |-> u, literal |-> FALSE, const |-> f, value |-> v]
    BY <2>1, <2>4 DEF Checked
  <2> QED
    BY <1>1, <1>3, <2>4, <2>5 DEF Known, LiteralKnown
<1> QED
  BY <1>2, <1>3

(* Folding makes an int of an int only.                                       *)
LEMMA FoldsInt ==
  ASSUME NEW op \in Operations, NEW k \in Kids(op), Folds(op, k)
  PROVE  ~Unsigned(op, k)
<1>1. CASE op = "?:"
  <2>1. ~k[2].uns
    BY <1>1 DEF Folds
  <2> QED
    BY <2>1, <1>1, UnsignedType
<1>2. CASE op /= "?:"
  <2>1. ~\E i \in {1, 2} : k[i].uns
    BY <1>2 DEF Folds
  <2> QED
    BY <2>1, UnsignedType
<1> QED
  BY <1>1, <1>2

LEMMA SameTypes ==
  ASSUME NEW op \in Operations, NEW p \in Kids(op), NEW o \in Kids(op),
         \A i \in DOMAIN o : o[i].uns = p[i].uns
  PROVE  Unsigned(op, o) = Unsigned(op, p)
<1>1. o[1].uns = p[1].uns /\ o[2].uns = p[2].uns
  BY DEF Kids
<1> QED
  BY <1>1 DEF Unsigned

(* The induction step of OptimizedSame.                                       *)
LEMMA CheckExprAgrees ==
  ASSUME NEW op \in Operations, NEW p \in Kids(op), NEW o \in Kids(op),
         AgreeAll(p, o), \A i \in DOMAIN o : LiteralKnown(o[i]),
         ~(op = "?:" /\ Unsigned(op, o) /\ FoldConst(op, o) /= Declines),
         ~(op \in {"/", "%"} /\ Folds(op, o) /\ FoldConst(op, o) = Trap
           /\ o[1].const = Lowest /\ o[2].const = -1)
  PROVE  Agree(CheckExpr(op, p, FALSE), CheckExpr(op, o, TRUE))
<1> DEFINE P == CheckExpr(op, p, FALSE)
           O == CheckExpr(op, o, TRUE)
<1>1. /\ P \in Known /\ O \in Known /\ O.const = FoldConst(op, o)
      /\ P.value = [s \in Samples |-> Run(op, p, FALSE, s)]
      /\ IF Folds(op, o) THEN O = Lit(FoldConst(op, o))
         ELSE O.uns = Unsigned(op, o) /\ O.value = [s \in Samples |-> Run(op, o, TRUE, s)]
  BY CheckExprKnown
<1>2. FoldConst(op, o) \in Word \cup {Declines, Trap}
  BY FoldConstType
<1>3. \A i \in DOMAIN o : o[i] \in Known /\ p[i] \in Known /\ Agree(p[i], o[i]) /\ o[i].uns = p[i].uns
  BY DEF Kids, AgreeAll
<1>4. 1 \in DOMAIN o /\ 2 \in DOMAIN o /\ (op = "?:" => 3 \in DOMAIN o)
  BY DEF Kids
<1>5. ASSUME FoldConst(op, o) \in Word
      PROVE  ~Unsigned(op, o) /\ \A s \in Samples : Run(op, p, FALSE, s) = FoldConst(op, o)
  <2>1. CASE op \in BinaryOps
    <3>1. ASSUME NEW s \in Samples
          PROVE  Run(op, p, FALSE, s) = FoldConst(op, o)
      BY <1>5, FoldRuns
    <3>2. ~o[1].uns /\ ~o[2].uns
      <4>1. o[1].const \notin {Declines, Trap} /\ o[2].const \notin {Declines, Trap}
        BY <2>1, <1>5, FoldsBinary, Traps
      <4>2. o[1].const \in Word /\ o[2].const \in Word
        BY <4>1, <1>3, <1>4, KnownFields
      <4> QED
        BY <4>2, <1>3, <1>4 DEF Agree
    <3> QED
      BY <3>1, <3>2, UnsignedType
  <2>2. CASE op = "?:"
    <3>1. ASSUME NEW s \in Samples
          PROVE  Run(op, p, FALSE, s) = FoldConst(op, o)
      BY <1>5, FoldRuns
    <3>2. ~Unsigned(op, o)
      BY <2>2, <1>5, Traps
    <3> QED
      BY <3>1, <3>2
  <2> QED
    BY <2>1, <2>2 DEF Operations
<1>6. FoldConst(op, o) /= Trap
  <2> SUFFICES ASSUME FoldConst(op, o) = Trap PROVE FALSE
    OBVIOUS
  <2>1. \A i \in DOMAIN o : o[i].const /= Trap
    BY <1>3 DEF Agree
  <2>2. CASE op = "?:"
    BY <2>1, <2>2, <1>4, FoldsTernary, Traps
  <2>3. CASE op \in BinaryOps
    <3>1. o[1].const \notin {Declines, Trap} /\ o[2].const \notin {Declines, Trap}
      BY <2>1, <2>3, <1>4, FoldsBinary, Traps
    <3>2. o[1].const \in Word /\ o[2].const \in Word
      BY <3>1, <1>3, <1>4, KnownFields
    <3>3. Host(op, o[1].const, o[2].const) = Trap
      BY <2>3, <3>1, FoldsBinary
    <3>4. op \in {"/", "%"} /\ o[1].const = Lowest /\ o[2].const = -1
      <4>1. PICK l \in Word, r \in Word : l = o[1].const /\ r = o[2].const
        BY <3>2
      <4>2. Host(op, l, r) = Trap
        BY <3>3, <4>1
      <4>3. op \in {"/", "%"} /\ l = Lowest /\ r = -1
        BY ONLY <4>2, <2>3, HostFolds
      <4> QED
        BY <4>1, <4>3
    <3>5. ~o[1].uns /\ ~o[2].uns
      BY <3>2, <1>3, <1>4 DEF Agree
    <3>6. Folds(op, o)
      BY <3>4, <3>5, Traps DEF Folds
    <3> QED
      BY <3>4, <3>6
  <2> QED
    BY <2>2, <2>3 DEF Operations
<1>7. CASE Folds(op, o)
  <2>1. FoldConst(op, o) \in Word
    BY <1>2, <1>6, <1>7 DEF Folds
  <2>2. O = Lit(FoldConst(op, o))
    BY <1>1, <1>7
  <2>3. /\ O.uns = FALSE /\ O.const = FoldConst(op, o)
        /\ O.value = [s \in Samples |-> FoldConst(op, o)]
    BY <2>1, <2>2, LitIs
  <2>4. P.value = [s \in Samples |-> FoldConst(op, o)]
    BY <1>1, <1>5, <2>1
  <2> HIDE DEF P, O
  <2>5. Agree(P, O)
    BY <2>3, <2>4, <1>6 DEF Agree
  <2> QED
    BY <2>5 DEF P, O
<1>8. CASE ~Folds(op, o)
  <2>1. \A s \in Samples : Run(op, o, TRUE, s) = Run(op, p, FALSE, s)
    <3> TAKE s \in Samples
    <3>1. \A i \in DOMAIN o : o[i].value = p[i].value /\ o[i].uns = p[i].uns
      BY <1>3 DEF Agree
    <3>2. o[2].literal => o[2].value[s] = o[2].const
      BY <1>4 DEF LiteralKnown
    <3> QED
      BY <3>1, <3>2, RunSame
  <2>2. O.value = P.value
    BY <1>1, <1>8, <2>1
  <2>3. O.const \in Word => ~O.uns /\ \A s \in Samples : O.value[s] = O.const
    BY <1>1, <1>5, <1>8, <2>2
  <2>4. O.const /= Trap
    BY <1>1, <1>6
  <2> HIDE DEF P, O
  <2>5. Agree(P, O)
    BY <2>2, <2>3, <2>4 DEF Agree
  <2> QED
    BY <2>5 DEF P, O
<1> QED
  BY <1>7, <1>8

(***************************************************************************)
(* What C says of an operator.                                             *)
(***************************************************************************)
EntryKids(op) == [1..(IF op = "?:" THEN 3 ELSE 2) -> Entry]
Plain(kids) == [i \in DOMAIN kids |-> kids[i].plain]
Optimized(kids) == [i \in DOMAIN kids |-> kids[i].optimized]

LEMMA EntryFields ==
  ASSUME NEW e \in Entry
  PROVE  /\ e.plain \in Known /\ e.optimized \in Known /\ e.cuns \in BOOLEAN
         /\ e.typed \in BOOLEAN /\ e.crashes \in BOOLEAN /\ e.disguises \in BOOLEAN
         /\ \A s \in Samples : e.meaning[s] \in Word \cup {Open}
  BY DEF Entry

LEMMA KidsOf ==
  ASSUME NEW op \in Operations, NEW kids \in EntryKids(op)
  PROVE  /\ Plain(kids) \in Kids(op) /\ Optimized(kids) \in Kids(op)
         /\ DOMAIN Plain(kids) = DOMAIN kids /\ DOMAIN Optimized(kids) = DOMAIN kids
         /\ 1 \in DOMAIN kids /\ 2 \in DOMAIN kids /\ (op = "?:" => 3 \in DOMAIN kids)
         /\ \A i \in DOMAIN kids : Plain(kids)[i] = kids[i].plain /\ Optimized(kids)[i] = kids[i].optimized
<1>1. \A i \in DOMAIN kids : kids[i].plain \in Known /\ kids[i].optimized \in Known
  BY EntryFields DEF EntryKids
<1> QED
  BY <1>1 DEF EntryKids, Kids, Plain, Optimized

LEMMA CUnsignedType ==
  ASSUME NEW op \in Operations, NEW kids \in EntryKids(op)
  PROVE  CUnsigned(op, kids) \in BOOLEAN /\ COperands(op, kids) \in BOOLEAN
<1>1. kids[1].cuns \in BOOLEAN /\ kids[2].cuns \in BOOLEAN
  BY KidsOf, EntryFields DEF EntryKids
<1>2. COperands(op, kids) \in BOOLEAN
  BY <1>1 DEF COperands
<1>3. CASE op = ","
  BY <1>1, <1>2, <1>3 DEF CUnsigned
<1>4. CASE op = "?:"
  BY <1>1, <1>2, <1>4 DEF CUnsigned, Compares, Order, Bitwise
<1>5. CASE op \in {"<<", ">>"}
  BY <1>1, <1>2, <1>5 DEF CUnsigned
<1>6. CASE op \in {"==", "!=", "<", "<=", ">", ">=", "&&", "||"}
  BY <1>2, <1>6 DEF CUnsigned, Compares, Order
<1>7. CASE op \in {"&", "|", "^", "+", "-", "*", "/", "%"}
  BY <1>1, <1>2, <1>7 DEF CUnsigned, Compares, Order, Bitwise
<1> QED
  BY <1>2, <1>3, <1>4, <1>5, <1>6, <1>7 DEF Operations, BinaryOps, Arithmetics, Order, Bitwise

LEMMA MeansArithmetic ==
  ASSUME NEW op \in Arithmetics, NEW kids \in EntryKids(op), NEW s \in Samples
  PROVE  Meaning(op, kids, s) =
           IF kids[1].meaning[s] = Open \/ kids[2].meaning[s] = Open THEN Open
           ELSE CApply(op, COperands(op, kids), kids[1].meaning[s], kids[2].meaning[s])
<1>1. op \notin {"&&", "||", "?:", ","}
  BY DEF Arithmetics, Order, Bitwise
<1> QED
  BY <1>1 DEF Meaning

LEMMA MeansTernary ==
  ASSUME NEW kids \in EntryKids("?:"), NEW s \in Samples
  PROVE  Meaning("?:", kids, s) =
           IF kids[1].meaning[s] = Open THEN Open
           ELSE kids[IF kids[1].meaning[s] /= 0 THEN 2 ELSE 3].meaning[s]
  BY DEF Meaning, Arithmetics, Order, Bitwise

LEMMA MeansLogic ==
  ASSUME NEW op \in {"&&", "||", ","}, NEW kids \in EntryKids(op), NEW s \in Samples
  PROVE  Meaning(op, kids, s) =
           IF kids[1].meaning[s] = Open THEN Open
           ELSE IF op = "," THEN kids[2].meaning[s]
           ELSE IF op = "&&" <=> kids[1].meaning[s] = 0 THEN Truth(op = "||")
           ELSE IF kids[2].meaning[s] = Open THEN Open ELSE Truth(kids[2].meaning[s] /= 0)
  BY DEF Meaning, Arithmetics, Order, Bitwise, Truth

(* The induction step of ComputesAsC. *)
LEMMA MeaningRuns ==
  ASSUME NEW op \in Operations, NEW kids \in EntryKids(op), NEW s \in Samples
  PROVE  /\ Meaning(op, kids, s) \in Word \cup {Open}
         /\ (/\ \A i \in DOMAIN kids : kids[i].meaning[s] \in {Open, kids[i].plain.value[s]}
             /\ op \in Arithmetics => COperands(op, kids) = (kids[1].plain.uns \/ kids[2].plain.uns))
            => Meaning(op, kids, s) \in {Open, Run(op, Plain(kids), FALSE, s)}
<1> DEFINE p == Plain(kids)
           agree == /\ \A i \in DOMAIN kids : kids[i].meaning[s] \in {Open, kids[i].plain.value[s]}
                    /\ op \in Arithmetics => COperands(op, kids) = (kids[1].plain.uns \/ kids[2].plain.uns)
           means == Meaning(op, kids, s)
<1>1. /\ p \in Kids(op) /\ 1 \in DOMAIN kids /\ 2 \in DOMAIN kids /\ (op = "?:" => 3 \in DOMAIN kids)
      /\ \A i \in DOMAIN kids : p[i] = kids[i].plain /\ kids[i].meaning[s] \in Word \cup {Open}
  BY KidsOf, EntryFields DEF EntryKids
<1> HIDE DEF p
<1>2. CASE kids[1].meaning[s] = Open
  <2>1. CASE op \in Arithmetics
    BY <1>2, <2>1, MeansArithmetic
  <2>2. CASE op = "?:"
    BY <1>2, <2>2, MeansTernary
  <2>3. CASE op \in {"&&", "||", ","}
    BY <1>2, <2>3, MeansLogic
  <2> QED
    BY <2>1, <2>2, <2>3 DEF Operations, BinaryOps
<1>3. CASE kids[1].meaning[s] /= Open
  <2>1. PICK l \in Word : l = kids[1].meaning[s] /\ l /= Open /\ l /= Trap
    BY <1>1, <1>3, Traps
  <2>2. agree => p[1].value[s] = l
    BY <1>1, <2>1
  <2>3. CASE op \in Arithmetics
    <3>1. CASE kids[2].meaning[s] = Open
      BY <2>3, <3>1, MeansArithmetic
    <3>2. CASE kids[2].meaning[s] /= Open
      <4>1. PICK r \in Word : r = kids[2].meaning[s] /\ r /= Trap
        BY <1>1, <3>2, Traps
      <4>2. PICK u \in BOOLEAN : u = COperands(op, kids)
        BY CUnsignedType
      <4>3. means = CApply(op, u, l, r)
        BY <2>1, <2>3, <3>2, <4>1, <4>2, MeansArithmetic
      <4>4. /\ CApply(op, u, l, r) \in Word \cup {Open}
            /\ CApply(op, u, l, r) \in {Open, EmitBinopReg(op, u, l, r)}
        BY <2>3, ComputesOne
      <4>5. ASSUME agree PROVE Run(op, p, FALSE, s) = EmitBinopReg(op, u, l, r)
        <5>1. p[1].value[s] = l /\ p[2].value[s] = r
          BY <4>5, <1>1, <2>2, <3>2, <4>1
        <5>2. u = (p[1].uns \/ p[2].uns)
          BY <4>5, <1>1, <2>3, <4>2
        <5>3. Run(op, p, FALSE, s) = EmitBinopReg(op, p[1].uns \/ p[2].uns, l, r)
          <6>1. p[1].value[s] /= Trap /\ p[2].value[s] /= Trap
            BY <2>1, <4>1, <5>1
          <6> QED
            BY <6>1, <1>1, <2>3, <5>1, RunsArithmetic
        <5> QED
          BY <5>2, <5>3
      <4> HIDE DEF agree, means
      <4>6. means \in Word \cup {Open} /\ (agree => means \in {Open, Run(op, p, FALSE, s)})
        BY <4>3, <4>4, <4>5
      <4> QED
        BY <4>6 DEF agree, means, p
    <3> QED
      BY <3>1, <3>2
  <2>4. CASE op = "?:"
    <3>1. PICK i \in {2, 3} : i = IF l /= 0 THEN 2 ELSE 3
      OBVIOUS
    <3>2. means = kids[i].meaning[s] /\ i \in DOMAIN kids
      BY <1>1, <2>1, <2>4, <3>1, MeansTernary
    <3>3. ASSUME agree PROVE Run(op, p, FALSE, s) = p[i].value[s]
      <4>1. p[1].value[s] /= Trap
        BY <3>3, <2>1, <2>2
      <4>2. Run(op, p, FALSE, s) = p[IF p[1].value[s] /= 0 THEN 2 ELSE 3].value[s]
        BY <1>1, <2>4, <4>1, RunsTernary
      <4> QED
        BY <4>2, <3>1, <3>3, <2>2
    <3>4. agree => kids[i].meaning[s] \in {Open, p[i].value[s]}
      BY <1>1, <3>2
    <3> HIDE DEF agree, means
    <3>5. means \in Word \cup {Open} /\ (agree => means \in {Open, Run(op, p, FALSE, s)})
      BY <1>1, <3>2, <3>3, <3>4
    <3> QED
      BY <3>5 DEF agree, means, p
  <2>5. CASE op \in {"&&", "||", ","}
    <3> DEFINE Value(r, gone) ==
                 IF op = "," THEN r
                 ELSE IF op = "&&" <=> l = 0 THEN Truth(op = "||")
                 ELSE IF r = gone THEN gone ELSE Truth(r /= 0)
    <3>1. means = Value(kids[2].meaning[s], Open)
      BY <2>1, <2>5, MeansLogic
    <3>2. ASSUME agree PROVE Run(op, p, FALSE, s) = Value(p[2].value[s], Trap)
      <4>1. p[1].value[s] = l /\ p[1].value[s] /= Trap
        BY <3>2, <2>1, <2>2
      <4>2. Run(op, p, FALSE, s) =
              IF op = "," THEN p[2].value[s]
              ELSE IF op = "&&" <=> p[1].value[s] = 0 THEN Truth(op = "||")
              ELSE IF p[2].value[s] = Trap THEN Trap ELSE Truth(p[2].value[s] /= 0)
        BY <1>1, <2>5, <4>1, RunsLogic
      <4> QED
        BY <4>1, <4>2
    <3>3. kids[2].meaning[s] \in Word \cup {Open} /\ (agree => kids[2].meaning[s] \in {Open, p[2].value[s]})
      BY <1>1
    <3>4. \A r \in Word \cup {Open} : Value(r, Open) \in Word \cup {Open}
      BY Truths
    <3>5. \A r \in Word : r /= Open /\ r /= Trap /\ Value(r, Open) = Value(r, Trap)
      BY Traps
    <3>6. \A x : Value(Open, Open) \in {Open, Value(x, Trap)}
      OBVIOUS
    <3> HIDE DEF Value, agree, means
    <3>7. means \in Word \cup {Open} /\ (agree => means \in {Open, Run(op, p, FALSE, s)})
      BY <3>1, <3>2, <3>3, <3>4, <3>5, <3>6
    <3> QED
      BY <3>7 DEF agree, means, p
  <2> QED
    BY <2>3, <2>4, <2>5 DEF Operations, BinaryOps
<1> QED
  BY <1>2, <1>3

(***************************************************************************)
(* The invariant holds.                                                    *)
(***************************************************************************)
LEMMA ShiftTypes ==
  ASSUME NEW op \in {"<<", ">>"}, NEW kids \in EntryKids(op)
  PROVE  /\ Unsigned(op, Plain(kids)) = (kids[1].plain.uns \/ kids[2].plain.uns)
         /\ CUnsigned(op, kids) = kids[1].cuns
<1>1. Plain(kids)[1] = kids[1].plain /\ Plain(kids)[2] = kids[2].plain
  BY KidsOf DEF Operations, BinaryOps, Arithmetics
<1>2. Unsigned(op, Plain(kids)) = (Plain(kids)[1].uns \/ Plain(kids)[2].uns)
  BY DEF Unsigned, BinaryOps, Arithmetics
<1>3. CUnsigned("<<", kids) = kids[1].cuns /\ CUnsigned(">>", kids) = kids[1].cuns
  BY DEF CUnsigned, Compares, Order, Bitwise
<1> QED
  BY <1>1, <1>2, <1>3

LEMMA OperatorSound ==
  ASSUME NEW op \in Operations, NEW kids \in EntryKids(op), \A i \in DOMAIN kids : Sound(kids[i])
  PROVE  Operator(op, kids) \in Entry /\ Sound(Operator(op, kids))
<1> DEFINE p == Plain(kids)
           o == Optimized(kids)
           P == CheckExpr(op, p, FALSE)
           O == CheckExpr(op, o, TRUE)
           e == Operator(op, kids)
           means == [s \in Samples |-> Meaning(op, kids, s)]
           crashed == Crashes(op, O, kids) \/ \E i \in DOMAIN kids : kids[i].crashes
           disguised == Disguises(op, O) \/ \E i \in DOMAIN kids : kids[i].disguises
<1>1. /\ p \in Kids(op) /\ o \in Kids(op)
      /\ DOMAIN p = DOMAIN kids /\ DOMAIN o = DOMAIN kids /\ 1 \in DOMAIN kids /\ 2 \in DOMAIN kids
      /\ \A i \in DOMAIN kids : p[i] = kids[i].plain /\ o[i] = kids[i].optimized
  BY KidsOf
<1>2. /\ e.plain = P /\ e.optimized = O /\ e.op = op /\ e.cuns = CUnsigned(op, kids)
      /\ e.meaning = means /\ e.typed = TypedBelow(kids) /\ e.crashes = crashed /\ e.disguises = disguised
  BY DEF Operator, Plain, Optimized
<1>3. e = [plain |-> P, optimized |-> O, op |-> op, cuns |-> CUnsigned(op, kids), meaning |-> means,
           typed |-> TypedBelow(kids), crashes |-> crashed, disguises |-> disguised]
  BY DEF Operator, Plain, Optimized
<1>4. TypedBelow(kids) \in BOOLEAN /\ crashed \in BOOLEAN /\ disguised \in BOOLEAN
  BY DEF TypedBelow, Crashes, Disguises
<1>5. means \in [Samples -> Word \cup {Open}]
  BY MeaningRuns
<1> HIDE DEF p, o
<1>6. \A i \in DOMAIN o : LiteralKnown(o[i])
  BY <1>1 DEF Sound, LiteralKnown
<1>7. \A i \in DOMAIN o : o[i].uns = p[i].uns
  BY <1>1 DEF Sound
<1>8. /\ P \in Known /\ P.uns = Unsigned(op, p) /\ P.value = [s \in Samples |-> Run(op, p, FALSE, s)]
  BY <1>1, CheckExprKnown
<1>9. /\ O \in Known /\ LiteralKnown(O) /\ O.const = FoldConst(op, o)
      /\ IF Folds(op, o) THEN O = Lit(FoldConst(op, o)) ELSE O.uns = Unsigned(op, o)
  BY <1>1, <1>6, CheckExprKnown
<1>10. O.uns = P.uns
  <2>1. Unsigned(op, o) = Unsigned(op, p)
    BY <1>1, <1>7, SameTypes
  <2>2. CASE Folds(op, o)
    <3>1. FoldConst(op, o) \in Word \cup {Trap}
      BY <1>1, <2>2, FoldConstType DEF Folds
    <3>2. O.uns = FALSE
      BY <3>1, <2>2, <1>9, LitIs
    <3>3. ~Unsigned(op, o) /\ Unsigned(op, o) \in BOOLEAN
      BY <2>2, <1>1, FoldsInt, UnsignedType
    <3> QED
      BY <3>2, <3>3, <2>1, <1>8
  <2>3. CASE ~Folds(op, o)
    BY <2>1, <2>3, <1>8, <1>9
  <2> QED
    BY <2>2, <2>3
<1>11. ASSUME ~crashed, ~disguised PROVE Agree(P, O)
  <2>1. AgreeAll(p, o)
    BY <1>1, <1>7, <1>11 DEF Sound, AgreeAll
  <2>2. ~(op = "?:" /\ Unsigned(op, o) /\ FoldConst(op, o) /= Declines)
    <3> SUFFICES ASSUME op = "?:", Unsigned(op, o), FoldConst(op, o) /= Declines PROVE FALSE
      OBVIOUS
    <3>1. ~Folds(op, o)
      BY <1>1, FoldsInt
    <3>2. Disguises(op, O)
      BY <3>1, <1>9 DEF Disguises
    <3> QED
      BY <3>2, <1>11
  <2>3. ~(op \in {"/", "%"} /\ Folds(op, o) /\ FoldConst(op, o) = Trap
          /\ o[1].const = Lowest /\ o[2].const = -1)
    <3> SUFFICES ASSUME op \in {"/", "%"}, Folds(op, o), FoldConst(op, o) = Trap,
                        o[1].const = Lowest, o[2].const = -1
                 PROVE  FALSE
      OBVIOUS
    <3>1. O = Lit(Trap)
      BY <1>9
    <3>2. Crashes(op, O, kids)
      BY <3>1, <1>1 DEF Crashes
    <3> QED
      BY <3>2, <1>11
  <2> QED
    BY <2>1, <2>2, <2>3, <1>1, <1>6, CheckExprAgrees
<1>12. ASSUME TypedBelow(kids), op \in {"<<", ">>"} => P.uns = CUnsigned(op, kids), NEW s \in Samples
       PROVE  means[s] \in {Open, P.value[s]}
  <2>1. \A i \in DOMAIN kids : kids[i].typed /\ kids[i].plain.uns = kids[i].cuns
    BY <1>12 DEF TypedBelow
  <2>2. \A i \in DOMAIN kids : kids[i].meaning[s] \in {Open, kids[i].plain.value[s]}
    BY <2>1 DEF Sound, AsMeant, TypedAsC
  <2>3. op \in Arithmetics => COperands(op, kids) = (kids[1].plain.uns \/ kids[2].plain.uns)
    <3>1. kids[1].plain.uns = kids[1].cuns /\ kids[2].plain.uns = kids[2].cuns
      BY <2>1, <1>1
    <3>2. CASE op \in {"<<", ">>"}
      <4>1. COperands(op, kids) = (kids[1].cuns \/ FALSE)
        BY <3>2 DEF COperands
      <4>2. (kids[1].plain.uns \/ kids[2].plain.uns) = kids[1].cuns
        BY <3>2, <1>8, <1>12, ShiftTypes DEF p
      <4>3. kids[1].cuns \in BOOLEAN
        BY EntryFields, <1>1 DEF EntryKids
      <4> QED
        BY <4>1, <4>2, <4>3
    <3>3. CASE op \notin {"<<", ">>"}
      BY <3>1, <3>3 DEF COperands
    <3> QED
      BY <3>2, <3>3
  <2>4. Meaning(op, kids, s) \in {Open, Run(op, p, FALSE, s)}
    BY <2>2, <2>3, MeaningRuns DEF p
  <2> QED
    BY <2>4, <1>8
<1>13. CUnsigned(op, kids) \in BOOLEAN
  BY CUnsignedType
<1> HIDE DEF P, O, means, crashed, disguised, e
<1>14. e \in Entry
  BY <1>3, <1>4, <1>5, <1>8, <1>9, <1>13 DEF Entry, Operations
<1>15. AsMeant(e)
  BY <1>2, <1>12 DEF AsMeant, TypedAsC
<1>16. Sound(e)
  BY <1>2, <1>9, <1>10, <1>11, <1>15 DEF Sound, LiteralKnown
<1> QED
  BY <1>14, <1>16 DEF e

LEMMA LeafSound ==
  ASSUME NEW item \in Items, item.op \in {"lit", "x", "u"}
  PROVE  Leaf(item) \in Entry /\ Sound(Leaf(item))
<1> DEFINE c == CheckLeaf(item)
           e == Leaf(item)
<1>1. item.op = "lit" => item.v \in Word
  <2> SUFFICES ASSUME item.op = "lit" PROVE item.v \in Word
    OBVIOUS
  <2>1. "lit" \notin BinaryOps \cup {"?:", "x", "u"}
    BY DEF BinaryOps, Arithmetics, Order, Bitwise
  <2>2. item \notin {Item(op) : op \in BinaryOps \cup {"?:", "x", "u"}}
    BY <2>1 DEF Item
  <2>3. PICK v \in Word : item = LitItem(v)
    BY <2>2, ArithAssumption
  <2> QED
    BY <2>3 DEF LitItem
<1>2. \A s \in Samples : s.x \in Word /\ s.u \in Word
  BY ArithAssumption
<1>3. /\ c \in Known /\ LiteralKnown(c) /\ c.const /= Trap
      /\ \A s \in Samples : c.value[s] \in Word
      /\ c.const \in Word => ~c.uns /\ \A s \in Samples : c.value[s] = c.const
      /\ c.uns = (item.op = "u")
  <2>1. CASE item.op = "lit"
    <3>1. c = Lit(item.v)
      BY <2>1 DEF CheckLeaf
    <3>2. PICK v \in Word : v = item.v
      BY <2>1, <1>1
    <3>3. /\ c \in Known /\ c.uns = FALSE /\ c.const = v /\ c.value = [s \in Samples |-> v]
          /\ LiteralKnown(c)
      <4>1. c = Lit(v)
        BY <3>1, <3>2
      <4>2. /\ Lit(v) \in Known /\ Lit(v).uns = FALSE /\ Lit(v).const = v
            /\ Lit(v).value = [s \in Samples |-> v] /\ LiteralKnown(Lit(v))
        BY LitIs
      <4> QED
        BY ONLY <4>1, <4>2
    <3> HIDE DEF c
    <3> QED
      BY <3>3, <2>1, Traps
  <2>2. CASE item.op = "x"
    <3>1. c = [uns |-> FALSE, literal |-> FALSE, const |-> Declines, value |-> [s \in Samples |-> s.x]]
      BY <2>2 DEF CheckLeaf, Checked
    <3> HIDE DEF c
    <3>2. /\ c.uns = FALSE /\ c.literal = FALSE /\ c.const = Declines
          /\ c.value = [s \in Samples |-> s.x]
      BY <3>1
    <3>3. c \in Known
      BY <3>1, <1>2 DEF Known
    <3> QED
      BY <3>2, <3>3, <2>2, <1>2, Traps DEF LiteralKnown
  <2>3. CASE item.op = "u"
    <3>1. c = [uns |-> TRUE, literal |-> FALSE, const |-> Declines, value |-> [s \in Samples |-> s.u]]
      BY <2>3 DEF CheckLeaf, Checked
    <3> HIDE DEF c
    <3>2. /\ c.uns = TRUE /\ c.literal = FALSE /\ c.const = Declines
          /\ c.value = [s \in Samples |-> s.u]
      BY <3>1
    <3>3. c \in Known
      BY <3>1, <1>2 DEF Known
    <3> QED
      BY <3>2, <3>3, <2>3, <1>2, Traps DEF LiteralKnown
  <2> QED
    BY <2>1, <2>2, <2>3
<1>4. e = [plain |-> c, optimized |-> c, op |-> item.op, cuns |-> item.op = "u", meaning |-> c.value,
           typed |-> TRUE, crashes |-> FALSE, disguises |-> FALSE]
  BY DEF Leaf
<1>5. c.value \in [Samples -> Word]
  BY <1>3 DEF Known
<1> HIDE DEF c, e
<1>6. e \in Entry
  BY <1>3, <1>4, <1>5 DEF Entry
<1>7. Agree(e.plain, e.optimized)
  BY <1>3, <1>4 DEF Agree
<1>8. Sound(e)
  BY <1>3, <1>4, <1>7 DEF Sound, AsMeant, LiteralKnown
<1> QED
  BY <1>6, <1>8 DEF e

LEMMA Arities ==
  ASSUME NEW item \in Items
  PROVE  \/ item.op \in {"lit", "x", "u"} /\ Arity(item.op) = 0
         \/ item.op \in BinaryOps /\ Arity(item.op) = 2
         \/ item.op = "?:" /\ Arity(item.op) = 3
<1>1. item.op \in BinaryOps \cup {"?:", "x", "u", "lit"}
  BY ArithAssumption DEF Item, LitItem
<1>2. Arity("?:") = 3 /\ Arity("lit") = 0 /\ Arity("x") = 0 /\ Arity("u") = 0
  BY DEF Arity, BinaryOps, Arithmetics, Order, Bitwise
<1>3. ASSUME NEW op \in BinaryOps PROVE Arity(op) = 2
  <2>1. op \notin {"?:", "lit", "x", "u"}
    BY DEF BinaryOps, Arithmetics, Order, Bitwise
  <2> QED
    BY <2>1 DEF Arity
<1> QED
  BY <1>1, <1>2, <1>3

LEMMA ArithInvInit == ArithInit => ArithInv
  BY DEF ArithInit, ArithInv

LEMMA ArithInvNext == ArithInv /\ [ArithNext]_operands => ArithInv'
<1> SUFFICES ASSUME ArithInv, [ArithNext]_operands PROVE ArithInv'
  OBVIOUS
<1>1. CASE UNCHANGED operands
  BY <1>1 DEF ArithInv
<1>2. CASE ArithNext
  <2> DEFINE S == {e \in Entry : Sound(e)}
  <2>1. PICK item \in Items : ReadItem(item)
    BY <1>2 DEF ArithNext
  <2>2. operands \in Seq(S) /\ Arity(item.op) \in {0, 2, 3}
    BY Arities DEF ArithInv
  <2> DEFINE below == Len(operands) - Arity(item.op)
             kids == SubSeq(operands, below + 1, Len(operands))
  <2>3. /\ below \in Nat /\ below <= Len(operands)
        /\ operands' = Append(SubSeq(operands, 1, below),
                              IF Arity(item.op) = 0 THEN Leaf(item) ELSE Operator(item.op, kids))
    <3> HIDE DEF S
    <3>1. Len(operands) \in Nat /\ below \in Int
      BY <2>2
    <3> QED
      BY <2>1, <2>2, <3>1 DEF ReadItem
  <2>4. (IF Arity(item.op) = 0 THEN Leaf(item) ELSE Operator(item.op, kids)) \in S
    <3>1. CASE item.op \in {"lit", "x", "u"}
      <4>1. Arity(item.op) = 0
        BY <3>1, Arities DEF BinaryOps, Arithmetics, Order, Bitwise
      <4> QED
        BY <4>1, <3>1, LeafSound
    <3>2. CASE item.op \in Operations
      <4>1. Arity(item.op) = IF item.op = "?:" THEN 3 ELSE 2
        BY <3>2, Arities DEF Operations, BinaryOps, Arithmetics, Order, Bitwise
      <4>2. kids \in [1..(IF item.op = "?:" THEN 3 ELSE 2) -> S]
        <5> HIDE DEF S
        <5>1. PICK n \in Nat : n = Len(operands)
          BY <2>2
        <5>2. PICK b \in Nat : b = below /\ b <= n /\ n - b = IF item.op = "?:" THEN 3 ELSE 2
          BY <4>1, <5>1, <2>3
        <5>3. SubSeq(operands, b + 1, n) \in [1..(n - b) -> S]
          <6>1. PICK q \in Seq(S) : q = operands /\ Len(q) = n
            BY <5>1, <2>2
          <6>2. SubSeq(q, b + 1, n) \in Seq(S) /\ Len(SubSeq(q, b + 1, n)) = n - b
            BY <5>2, <6>1
          <6>3. \A r \in Seq(S) : r \in [1..Len(r) -> S]
            OBVIOUS
          <6> QED
            BY <6>1, <6>2, <6>3
        <5> QED
          BY <5>1, <5>2, <5>3
      <4>3. kids \in EntryKids(item.op) /\ \A i \in DOMAIN kids : Sound(kids[i])
        BY <4>2 DEF EntryKids
      <4>4. Operator(item.op, kids) \in Entry /\ Sound(Operator(item.op, kids))
        BY ONLY <4>3, <3>2, OperatorSound
      <4>5. Arity(item.op) /= 0
        BY <4>1
      <4> QED
        BY ONLY <4>4, <4>5
    <3> QED
      BY <3>1, <3>2, Arities DEF Operations
  <2>5. operands' \in Seq(S)
    <3> DEFINE new == IF Arity(item.op) = 0 THEN Leaf(item) ELSE Operator(item.op, kids)
    <3>1. new \in S
      BY <2>4
    <3>2. operands' = Append(SubSeq(operands, 1, below), new)
      BY <2>3
    <3> HIDE DEF S, new
    <3>3. SubSeq(operands, 1, below) \in Seq(S)
      BY <2>2, <2>3
    <3> QED
      BY <3>1, <3>2, <3>3
  <2> QED
    BY <2>5 DEF ArithInv, S
<1> QED
  BY <1>1, <1>2

LEMMA ArithInvariant == ArithSpec => []ArithInv
  BY ArithInvInit, ArithInvNext, PTL DEF ArithSpec

(* No optimization changes the value or the trap of an expression, of any      *)
(* length, over words of any width: folding in semantic.c 190-345 and the      *)
(* instructions with a literal in them (codegen.c 719-862) compute what the    *)
(* general instructions do, but for the two exceptions that Crashes and        *)
(* Disguises name.                                                          *)
THEOREM OptimizationsSame == ArithSpec => []OptimizedSame
<1>1. ArithInv => OptimizedSame
  <2> SUFFICES ASSUME ArithInv, NEW i \in DOMAIN operands,
                      ~operands[i].crashes, ~operands[i].disguises
               PROVE  operands[i].optimized.value = operands[i].plain.value
    BY DEF OptimizedSame
  <2>1. Sound(operands[i])
    BY DEF ArithInv
  <2> QED
    BY <2>1 DEF Sound, Agree
<1> QED
  BY <1>1, ArithInvariant, PTL

(* The instructions that the types choose compute what C says wherever         *)
(* check_expr() gives every operand the type that C does, in an expression of  *)
(* any length (codegen.c 741-862, 935-1000).                                 *)
THEOREM ValuesAsC == ArithSpec => []ComputesAsC
<1>1. ArithInv => ComputesAsC
  <2> SUFFICES ASSUME ArithInv, NEW i \in DOMAIN operands, TypedAsC(operands[i]), NEW s \in Samples
               PROVE  operands[i].meaning[s] \in {Open, operands[i].plain.value[s]}
    BY DEF ComputesAsC
  <2>1. Sound(operands[i])
    BY DEF ArithInv
  <2> QED
    BY <2>1 DEF Sound, AsMeant
<1> QED
  BY <1>1, ArithInvariant, PTL
==============================================================================
