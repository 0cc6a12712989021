--------------------------- MODULE CacheAmoProofs ---------------------------
(***************************************************************************)
(* Theorems about the atomics unit: its arithmetic is that of the          *)
(* instructions for words of any width, and together with the bank it is   *)
(* an atomic memory, for any harts, words and requests.                    *)
(***************************************************************************)
EXTENDS CacheAmo, FiniteSetTheorems, WellFoundedInduction, TLAPS

(* Induction over a set of numbers: there is no least one outside it.      *)
LEMMA SetInduction ==
  ASSUME NEW T, 0 \in T, \A n \in Nat : n \in T => n + 1 \in T
  PROVE  Nat \subseteq T
<1> DEFINE R == {ss \in Nat \X Nat : ss[1] < ss[2]}
           U == Nat \ T
<1>1. IsWellFoundedOn(R, Nat)
  BY NatLessThanWellFounded DEF OpToRel
<1>2. SUFFICES ASSUME U # {} PROVE FALSE
  OBVIOUS
<1>3. PICK m \in U : \A y \in U : <<y, m>> \notin R
  <2> HIDE DEF R, U
  <2>1. U \subseteq Nat
    BY DEF U
  <2>2. QED
    BY <1>1, <1>2, <2>1, WFMin
<1>4. m \in Nat \ {0} /\ m - 1 \in Nat
  BY <1>3
<1>5. m - 1 \in U /\ <<m - 1, m>> \in R
  BY <1>3, <1>4
<1>6. QED
  BY <1>3, <1>5

(* Powers of two count the subsets of an interval.                         *)
LEMMA PowerCounts ==
  ASSUME NEW n \in Nat, NEW a \in Int
  PROVE  /\ IsFiniteSet(SUBSET (a..(a + n - 1)))
         /\ Cardinality(SUBSET (a..(a + n - 1))) = 2^n
         /\ 2^n \in Nat
<1>1. a + n - 1 \in Int
  OBVIOUS
<1>2. IsFiniteSet(a..(a + n - 1)) /\ Cardinality(a..(a + n - 1)) = n
  BY <1>1, FS_Interval
<1>3. IsFiniteSet(SUBSET (a..(a + n - 1))) /\ Cardinality(SUBSET (a..(a + n - 1))) = 2^n
  BY <1>2, FS_SUBSET, Zenon
<1>4. QED
  BY <1>3, FS_CardinalityType

LEMMA PowerSum ==
  ASSUME NEW m \in Nat, NEW k \in Nat
  PROVE  2^(m + k) = 2^m * 2^k
<1> DEFINE A == 0..(m - 1)
           B == m..(m + k - 1)
           C == 0..(m + k - 1)
           f == [S \in SUBSET C |-> <<S \cap A, S \cap B>>]
           P == (SUBSET A) \X (SUBSET B)
<1>1. /\ IsFiniteSet(SUBSET A) /\ Cardinality(SUBSET A) = 2^m
      /\ IsFiniteSet(SUBSET B) /\ Cardinality(SUBSET B) = 2^k
      /\ IsFiniteSet(SUBSET C) /\ Cardinality(SUBSET C) = 2^(m + k)
  <2>1. /\ 0 \in Int /\ m \in Int /\ m + k \in Nat
        /\ 0 + m - 1 = m - 1 /\ 0 + (m + k) - 1 = m + k - 1
    OBVIOUS
  <2>2. IsFiniteSet(SUBSET A) /\ Cardinality(SUBSET A) = 2^m
    <3>1. IsFiniteSet(SUBSET (0..(0 + m - 1))) /\ Cardinality(SUBSET (0..(0 + m - 1))) = 2^m
      BY <2>1, PowerCounts
    <3>2. QED
      BY <2>1, <3>1
  <2>3. IsFiniteSet(SUBSET C) /\ Cardinality(SUBSET C) = 2^(m + k)
    <3>1. PICK n \in Nat : n = m + k
      OBVIOUS
    <3>2. IsFiniteSet(SUBSET (0..(0 + n - 1))) /\ Cardinality(SUBSET (0..(0 + n - 1))) = 2^n
      BY <2>1, PowerCounts
    <3>3. QED
      BY <2>1, <3>1, <3>2
  <2>4. IsFiniteSet(SUBSET B) /\ Cardinality(SUBSET B) = 2^k
    BY <2>1, PowerCounts
  <2>5. QED
    BY <2>2, <2>3, <2>4
<1>2. A \cup B = C
  OBVIOUS
<1>3. f \in Bijection(SUBSET C, P)
  <2>1. f \in [SUBSET C -> P]
    BY <1>2
  <2>2. \A S, T \in SUBSET C : f[S] = f[T] => S = T
    BY <1>2
  <2>3. \A p \in P : \E S \in SUBSET C : f[S] = p
    <3>1. TAKE p \in P
    <3>2. A \cap B = {}
      OBVIOUS
    <3>3. p[1] \cup p[2] \in SUBSET C /\ f[p[1] \cup p[2]] = p
      BY <1>2, <3>2
    <3>4. QED
      BY <3>3
  <2>4. QED
    <3> HIDE DEF f, P, C
    <3>1. QED
      BY <2>1, <2>2, <2>3 DEF Bijection, Injection, Surjection, IsInjective
<1>4. Cardinality(P) = Cardinality(SUBSET C)
  <2> HIDE DEF f, P, C
  <2>1. QED
    BY <1>1, <1>3, FS_Bijection DEF ExistsBijection
<1>5. Cardinality(P) = 2^m * 2^k
  <2> HIDE DEF A, B
  <2>1. Cardinality(P) = Cardinality(SUBSET A) * Cardinality(SUBSET B)
    BY <1>1, FS_Product
  <2>2. QED
    BY <1>1, <2>1
<1>6. QED
  BY <1>1, <1>4, <1>5

LEMMA Power ==
  ASSUME NEW n \in Nat
  PROVE  2^n \in Nat /\ 2^n > 0 /\ 2^(n+1) = 2 * 2^n
<1>1. 2^0 = 1 /\ 2^1 = 2 /\ 0 \in Int
  OBVIOUS
<1>2. 2^n \in Nat /\ IsFiniteSet(SUBSET (0..(0+n-1))) /\ Cardinality(SUBSET (0..(0+n-1))) = 2^n
  BY <1>1, PowerCounts
<1>3. 2^n # 0
  BY <1>2, FS_EmptySet
<1>4. 2^(n+1) = 2^n * 2^1
  BY PowerSum
<1>5. QED
  BY <1>1, <1>2, <1>3, <1>4

LEMMA PowerMonotone ==
  ASSUME NEW m \in Nat, NEW n \in Nat, m <= n
  PROVE  2^m <= 2^n
<1>1. PICK k \in Nat : n = m + k
  <2>1. n - m \in Nat /\ n = m + (n - m)
    OBVIOUS
  <2>2. QED
    BY <2>1
<1>2. 2^n = 2^m * 2^k
  BY <1>1, PowerSum
<1>3. PICK a \in Nat, b \in Nat : a = 2^m /\ b = 2^k /\ b > 0
  BY Power
<1>4. a <= a * b
  <2>1. PICK c \in Nat : b = 1 + c
    <3>1. b - 1 \in Nat /\ b = 1 + (b - 1)
      BY <1>3
    <3>2. QED
      BY <3>1
  <2>2. a * b = a + a * c /\ a * c \in Nat
    BY <2>1
  <2>3. QED
    BY <2>2
<1>5. QED
  BY <1>2, <1>3, <1>4
------------------------------------------------------------------------------
(* Quotients, remainders and bits.                                         *)
LEMMA Euclid ==
  ASSUME NEW n \in Nat \ {0}, NEW a \in Int
  PROVE  /\ a \div n \in Int /\ a % n \in 0..(n-1)
         /\ a = n * (a \div n) + (a % n)
OBVIOUS

LEMMA Quotient ==
  ASSUME NEW n \in Nat \ {0}, NEW q \in Int, NEW r \in 0..(n-1), NEW a, a = n * q + r
  PROVE  a \div n = q /\ a % n = r
<1>1. (n * q + r) \div n = q /\ (n * q + r) % n = r
  OBVIOUS
<1>2. QED
  BY <1>1

Bit(x, i) == (x \div 2^i) % 2 = 1

LEMMA BitAbove ==
  ASSUME NEW n \in Nat, NEW x \in 0..(2^n - 1), NEW i \in Nat, n <= i
  PROVE  ~Bit(x, i)
<1>1. 2^i \in Nat \ {0} /\ x \in 0..(2^i - 1)
  BY Power, PowerMonotone
<1>2. x = 2^i * 0 + x
  BY <1>1
<1>3. x \div 2^i = 0
  BY <1>1, <1>2, Quotient
<1>4. 0 % 2 # 1
  OBVIOUS
<1>5. QED
  BY <1>3, <1>4, Zenon DEF Bit

LEMMA BitTop ==
  ASSUME NEW n \in Nat, NEW x \in 0..(2^n - 1)
  PROVE  Bit(x + 2^n, n)
<1>1. PICK P \in Nat \ {0} : P = 2^n
  BY Power
<1>2. PICK y \in Nat : y = x + P
  BY <1>1
<1>3. y = P * 1 + x /\ x \in 0..(P-1)
  BY <1>1, <1>2
<1>4. y \div P = 1
  BY <1>3, Quotient
<1>5. QED
  BY <1>1, <1>2, <1>4 DEF Bit

LEMMA BitBelow ==
  ASSUME NEW n \in Nat, NEW x \in Nat, NEW i \in 0..(n-1)
  PROVE  Bit(x + 2^n, i) <=> Bit(x, i)
<1>1. PICK P \in Nat \ {0} : P = 2^i
  BY Power
<1>2. PICK k \in Nat : n = i + (k + 1)
  <2>1. n - i - 1 \in Nat /\ n = i + ((n - i - 1) + 1)
    OBVIOUS
  <2>2. QED
    BY <2>1
<1>3. PICK t \in Nat : t = 2^k /\ 2^(k+1) = 2 * t
  BY Power
<1>4. 2^n = P * (2 * t)
  <2>1. k + 1 \in Nat
    BY <1>2
  <2>2. 2^n = 2^i * 2^(k+1)
    BY <1>2, <2>1, PowerSum
  <2>3. QED
    BY <1>1, <1>3, <2>2
<1>5. PICK q \in Int, r \in 0..(P-1) : x = P * q + r /\ x \div P = q
  BY Euclid
<1>6. PICK y \in Int, s \in Int : y = x + 2^n /\ s = q + 2 * t
  BY Power
<1>7. y = P * s + r
  <2>1. P * s = P * q + P * (2 * t)
    BY <1>6
  <2>2. QED
    BY <1>4, <1>5, <1>6, <2>1
<1>8. y \div P = s
  BY <1>7, Quotient
<1>9. s % 2 = q % 2
  BY <1>6
<1>10. QED
  BY <1>1, <1>5, <1>6, <1>8, <1>9 DEF Bit

(* Every set of bits is that of a word.                                    *)
LEMMA BitsExist ==
  ASSUME NEW n \in Nat, NEW S \in SUBSET (0..(n - 1))
  PROVE  \E x \in 0..(2^n - 1) : \A i \in Nat : Bit(x, i) <=> i \in S
<1> DEFINE Has(m, U) == \E x \in 0..(2^m - 1) : \A i \in Nat : Bit(x, i) <=> i \in U
           T == {m \in Nat : \A U \in SUBSET (0..(m - 1)) : Has(m, U)}
<1>1. 0 \in T
  <2>1. 2^0 = 1 /\ 0 \in 0..(2^0 - 1) /\ 0 \in Nat
    OBVIOUS
  <2>2. ASSUME NEW i \in Nat PROVE ~Bit(0, i)
    <3>1. 0 <= i
      OBVIOUS
    <3>2. QED
      BY <2>1, <3>1, BitAbove
  <2>3. \A U \in SUBSET (0..(0 - 1)) : \A i \in Nat : i \notin U
    OBVIOUS
  <2>4. QED
    BY <2>1, <2>2, <2>3
<1>2. ASSUME NEW m \in Nat, m \in T PROVE m + 1 \in T
  <2>1. SUFFICES ASSUME NEW U \in SUBSET (0..m) PROVE Has(m + 1, U)
    BY <1>2
  <2>2. PICK P \in Nat \ {0} : P = 2^m /\ 2^(m + 1) = 2 * P
    BY Power
  <2>3. PICK x \in 0..(P - 1) : \A i \in Nat : Bit(x, i) <=> i \in U \ {m}
    <3>1. U \ {m} \in SUBSET (0..(m - 1))
      OBVIOUS
    <3>2. QED
      BY <1>2, <2>2, <3>1
  <2>4. CASE m \notin U
    <3>1. x \in 0..(2^(m + 1) - 1)
      BY <2>2
    <3>2. QED
      BY <2>3, <2>4, <3>1
  <2>5. CASE m \in U
    <3>1. PICK y \in Nat : y = x + 2^m
      BY <2>2
    <3>2. y \in 0..(2^(m + 1) - 1)
      BY <2>2, <3>1
    <3>3. \A i \in 0..(m - 1) : Bit(y, i) <=> i \in U
      BY <2>3, <3>1, BitBelow
    <3>4. Bit(y, m)
      BY <2>2, <3>1, BitTop
    <3>5. \A i \in Nat : m + 1 <= i => ~Bit(y, i)
      BY <3>2, BitAbove
    <3>6. \A i \in Nat : Bit(y, i) <=> i \in U
      BY <2>5, <3>3, <3>4, <3>5
    <3>7. QED
      BY <3>2, <3>6
  <2>6. QED
    BY <2>4, <2>5
<1>3. n \in T
  <2> HIDE DEF T
  <2>1. QED
    BY <1>1, <1>2, SetInduction
<1>4. QED
  BY <1>3

WordSize == 2^Width

LEMMA WordFacts ==
  /\ WordSize \in Nat \ {0} /\ Word = 0..(WordSize - 1) /\ 0 \in Word /\ 1 \in Word
  /\ 2^(Width - 1) \in Nat /\ WordSize = 2 * 2^(Width - 1)
  /\ 2^(Width + 1) = 2 * WordSize
<1>1. Width \in Nat /\ Width - 1 \in Nat /\ (Width - 1) + 1 = Width
  BY WidthAssumption
<1>2. PICK w \in Nat : w = Width - 1
  BY <1>1
<1>3. 2^w \in Nat /\ 2^w > 0 /\ 2^(w+1) = 2 * 2^w
  BY Power
<1>4. 2^Width \in Nat /\ 2^Width > 0 /\ 2^(Width + 1) = 2 * 2^Width
  BY <1>1, Power
<1>5. QED
  BY <1>1, <1>2, <1>3, <1>4 DEF WordSize, Word

LEMMA WordOfType ==
  ASSUME NEW S \in SUBSET (0..(Width - 1))
  PROVE  WordOf(S) \in Word
<1>1. Width \in Nat
  BY WidthAssumption
<1>2. PICK x \in Word : \A i \in Nat : Bit(x, i) <=> i \in S
  BY <1>1, BitsExist DEF Word
<1>3. Bits(x) = S
  <2>1. Bits(x) = {i \in 0..(Width - 1) : Bit(x, i)}
    BY Zenon DEF Bits, Bit
  <2>2. \A i \in 0..(Width - 1) : i \in Nat
    BY <1>1
  <2>3. QED
    BY <1>2, <2>1, <2>2
<1>4. QED
  BY <1>3 DEF WordOf

LEMMA CombineType ==
  ASSUME NEW op \in AmoOps, NEW a \in Word, NEW b \in Word
  PROVE  Combine(op, a, b) \in Word
<1>1. \A x : Bits(x) \in SUBSET (0..(Width - 1))
  BY DEF Bits
<1>2. And(a, b) \in Word /\ Or(a, b) \in Word /\ Xor(a, b) \in Word
  <2> HIDE DEF Word
  <2>1. /\ Bits(a) \cap Bits(b) \in SUBSET (0..(Width - 1))
        /\ Bits(a) \cup Bits(b) \in SUBSET (0..(Width - 1))
        /\ (Bits(a) \cup Bits(b)) \ (Bits(a) \cap Bits(b)) \in SUBSET (0..(Width - 1))
    BY <1>1
  <2>2. QED
    BY <2>1, WordOfType DEF And, Or, Xor
<1>3. (a + b) % 2^Width \in Word
  <2>1. PICK c \in Int : c = a + b
    BY DEF Word
  <2>2. c % WordSize \in Word
    BY WordFacts, Euclid
  <2>3. QED
    BY <2>1, <2>2 DEF WordSize
<1>4. \/ op = "swap" /\ Combine(op, a, b) = b
      \/ op = "add" /\ Combine(op, a, b) = (a + b) % 2^Width
      \/ op = "and" /\ Combine(op, a, b) = And(a, b)
      \/ op = "or" /\ Combine(op, a, b) = Or(a, b)
      \/ op = "xor" /\ Combine(op, a, b) = Xor(a, b)
      \/ Combine(op, a, b) \in {a, b}
  BY DEF Combine, AmoOps
<1>5. QED
  BY <1>2, <1>3, <1>4
------------------------------------------------------------------------------
(* Sums and differences of extended operands.                              *)
LEMMA AddExtended ==
  ASSUME NEW a \in Word, NEW b \in Word
  PROVE  (SignExtended(a) + SignExtended(b)) % 2^Width = (a + b) % 2^Width
<1>1. PICK P \in Nat \ {0} : P = 2^Width
  BY WordFacts DEF WordSize
<1>2. a \in Int /\ b \in Int
  BY DEF Word
<1>3. PICK k \in {0, 1}, l \in {0, 1} : SignExtended(a) = a + P * k /\ SignExtended(b) = b + P * l
  <2>1. \A x \in Word : \E k \in {0, 1} : SignExtended(x) = x + P * k
    <3>1. TAKE x \in Word
    <3>2. SignExtended(x) = x \/ SignExtended(x) = x + P
      BY <1>1 DEF SignExtended
    <3>3. x + P * 0 = x /\ x + P * 1 = x + P
      BY WordFacts
    <3>4. QED
      BY <3>2, <3>3
  <2>2. QED
    BY <2>1
<1>4. PICK c \in Int, d \in Int : c = a + b /\ d = SignExtended(a) + SignExtended(b)
  BY <1>2, <1>3
<1>5. PICK q \in Int, r \in 0..(P - 1) : c = P * q + r /\ c % P = r
  BY Euclid
<1>6. PICK m \in Int : m = q + k + l
  OBVIOUS
<1>7. d = P * m + r
  <2>1. P * m = P * q + P * k + P * l
    BY <1>6
  <2>2. d = c + P * k + P * l
    BY <1>2, <1>3, <1>4
  <2>3. QED
    BY <1>5, <2>1, <2>2
<1>8. d % P = r
  BY <1>7, Quotient
<1>9. QED
  BY <1>1, <1>4, <1>5, <1>8

(* The sign of a difference of Width + 1 bits.                             *)
LEMMA NegativeSign ==
  ASSUME NEW x \in (-(2 * WordSize))..(2 * WordSize - 1)
  PROVE  Negative(x) <=> x \in (-WordSize)..(-1) \/ x >= WordSize
<1>1. PICK P \in Nat \ {0} : P = WordSize /\ P = 2^Width /\ 2^(Width + 1) = 2 * P
  BY WordFacts DEF WordSize
<1>2. PICK D \in Nat \ {0} : D = 2 * P
  OBVIOUS
<1>3. CASE x >= 0
  <2>0. PICK q \in Int : q = 0
    OBVIOUS
  <2>1. x = D * q + x /\ x \in 0..(D - 1)
    BY <1>1, <1>2, <1>3, <2>0
  <2>2. x % D = x
    <3>1. PICK r \in 0..(D - 1) : r = x
      BY <2>1
    <3>2. PICK z \in Int : z = D * q + r
      BY <1>2, <2>0
    <3>3. z % D = r
      BY <3>2, Quotient
    <3>4. QED
      BY <2>1, <3>1, <3>2, <3>3
  <2>3. QED
    BY <1>1, <1>2, <1>3, <2>2 DEF Negative
<1>4. CASE x < 0
  <2>1. PICK y \in 0..(D - 1) : y = x + D
    BY <1>1, <1>2, <1>4
  <2>0. PICK q \in Int : q = -1
    OBVIOUS
  <2>2. x = D * q + y
    BY <1>2, <2>0, <2>1
  <2>3. x % D = y
    <3>1. PICK z \in Int : z = D * q + y
      BY <1>2, <2>0
    <3>2. z % D = y
      BY <3>1, Quotient
    <3>3. QED
      BY <2>2, <3>1, <3>2
  <2>4. QED
    BY <1>1, <1>2, <1>4, <2>1, <2>3 DEF Negative
<1>5. QED
  BY <1>1, <1>3, <1>4

LEMMA Compares ==
  ASSUME NEW a \in Word, NEW b \in Word
  PROVE  /\ Less(a, b) <=> Signed(a) < Signed(b)
         /\ LessUnsigned(a, b) <=> a < b
         /\ Signed(a) \in Int /\ Signed(b) \in Int
<1>1. PICK H \in Nat : H = 2^(Width - 1) /\ WordSize = 2 * H /\ 2^Width = 2 * H /\ H > 0
  BY WordFacts DEF WordSize
<1>2. a \in 0..(2 * H - 1) /\ b \in 0..(2 * H - 1)
  BY <1>1, WordFacts
<1>3. /\ SignExtended(a) = IF a < H THEN a ELSE a + 2 * H
      /\ SignExtended(b) = IF b < H THEN b ELSE b + 2 * H
      /\ Signed(a) = IF a < H THEN a ELSE a - 2 * H
      /\ Signed(b) = IF b < H THEN b ELSE b - 2 * H
  BY <1>1 DEF SignExtended, Signed
<1>4. PICK d \in Int : d = SignExtended(a) - SignExtended(b)
  <2>1. SignExtended(a) \in Int /\ SignExtended(b) \in Int
    BY <1>2, <1>3
  <2>2. QED
    BY <2>1
<1>5. Negative(d) <=> Signed(a) < Signed(b)
  <2>1. d \in (-(2 * WordSize))..(2 * WordSize - 1)
    BY <1>1, <1>2, <1>3, <1>4
  <2>2. Negative(d) <=> d \in (-WordSize)..(-1) \/ d >= WordSize
    BY <2>1, NegativeSign
  <2>3. QED
    BY <1>1, <1>2, <1>3, <1>4, <2>2
<1>6. PICK e \in Int : e = a - b
  BY <1>2
<1>7. Negative(e) <=> a < b
  <2>1. e \in (-(2 * WordSize))..(2 * WordSize - 1)
    BY <1>1, <1>2, <1>6
  <2>2. Negative(e) <=> e \in (-WordSize)..(-1) \/ e >= WordSize
    BY <2>1, NegativeSign
  <2>3. QED
    BY <1>1, <1>2, <1>6, <2>2
<1>8. QED
  BY <1>2, <1>3, <1>4, <1>5, <1>6, <1>7, <1>1 DEF Less, LessUnsigned

LEMMA AluMeetsCombine ==
  ASSUME NEW op \in AmoOps, NEW a \in Word, NEW b \in Word
  PROVE  Alu(op, a, b) = Combine(op, a, b)
<1>1. a \in Int /\ b \in Int
  BY DEF Word
<1>2. CASE op = "add"
  BY <1>2, AddExtended DEF Alu, Combine
<1>3. CASE op \in {"max", "min", "maxu", "minu"}
  BY <1>1, <1>3, Compares DEF Alu, Combine
<1>4. CASE op \in {"swap", "and", "or", "xor"}
  BY <1>4 DEF Alu, Combine
<1>5. QED
  BY <1>2, <1>3, <1>4 DEF AmoOps

(* When the word that was read arrives, the unit computes what the         *)
(* instruction promises: the state DoAMO of spatz_cache_amo.sv, for words  *)
(* of any width.                                                           *)
THEOREM ArithmeticCorrect == Spec => []AluCorrect
<1>1. AluCorrect
  BY AluMeetsCombine DEF AluCorrect
<1>2. QED
  BY <1>1, PTL
------------------------------------------------------------------------------
(* The inductive invariant.  One part holds whatever the unit is asked for, *)
(* the other one as long as it was given no request that it confuses.       *)
Busy == state_q # "Idle"
Answerable(e) == ~e.is_amo
Same(e, f) == e.hart = f.hart /\ e.tag = f.tag
Alike(e, f) == User(e.hart, e.tag) = User(f.hart, f.tag)

Types ==
  /\ memory \in [Addrs -> Word] /\ result \in [Harts \X Tags -> Word]
  /\ waiting \in [Harts -> Request \cup {NoRequest}]
  /\ \A h \in Harts : waiting[h] # NoRequest => waiting[h] \in Requests[h]
  /\ bank \subseteq Entry
  /\ front \in Harts \cup {None} /\ rsp \in bank \cup {None}
  /\ front # None => waiting[front] # NoRequest
  /\ state_q \in {"Idle", "DoAMO", "WriteBackAMO", "Wait"}
  /\ Busy => amo \in [hart : Harts, tag : Tags, op : AmoOps, addr : Addrs, b : Word, result : Word]
  /\ reservation_q \in [valid : BOOLEAN, addr : Addrs \cup {0}, core : Cores \cup {0}]
  /\ sc_q \in BOOLEAN /\ clash \in BOOLEAN

(* A hart waits for one answer of a tag at most.  The bank's only other     *)
(* request is the write-back of the operation that the unit waits for.      *)
Outstanding ==
  /\ \A e \in bank : Answerable(e) /\ waiting[e.hart] # NoRequest => waiting[e.hart].tag # e.tag
  /\ \A e, f \in bank : Answerable(e) /\ Answerable(f) /\ Same(e, f) => e = f
  /\ \A e \in bank : e.is_amo => state_q = "Wait" /\ e = WriteBackRequest
  /\ state_q = "Wait" => WriteBackRequest \in bank
  /\ state_q = "DoAMO" => \E e \in bank : Answerable(e) /\ Same(e, amo) /\ e.op = amo.op

(* The operation's read is the one request in the bank whose answer looks   *)
(* like its answer.  The word that is read, and the result to write back,   *)
(* are those of the memory as it is: nothing else is taken meanwhile.       *)
Operation ==
  /\ Busy => \A e \in bank : Answerable(e) /\ Alike(e, amo) => Same(e, amo) /\ e.op = amo.op
  /\ state_q = "DoAMO" => \A e \in bank : Answerable(e) /\ Same(e, amo) => e.data = memory[amo.addr]
  /\ state_q = "WriteBackAMO" => amo.result = Combine(amo.op, memory[amo.addr], amo.b)

(* A reservation of the unit is one that a hart should have, or is about    *)
(* to have: the load-reserved stands at the input.                          *)
HasReserved(h, a) ==
  <<h, a>> \in reserved \/ (front = h /\ waiting[h].op = "lr" /\ waiting[h].addr = a)

Owner(h) == Core(h) = reservation_q.core /\ HasReserved(h, reservation_q.addr)

Reserving == reservation_q.valid => \E h \in Harts : Owner(h)

(* The registers of a store-conditional are those of the one that the bank  *)
(* has, and are set for no other than it or the one at the input.           *)
InBankSc(e) == Answerable(e) /\ e.op = "sc"
AtInputSc == front # None /\ Req.op = "sc" /\ User(front, Req.tag) = sc_user_q

Storing ==
  /\ \A e \in bank : InBankSc(e) =>
       /\ sc_q /\ sc_user_q = User(e.hart, e.tag) /\ sc_successful_q = e.write
       /\ \A f \in bank : Answerable(f) /\ Alike(e, f) => e = f
  /\ sc_q => /\ AtInputSc \/ \E e \in bank : InBankSc(e) /\ User(e.hart, e.tag) = sc_user_q
             /\ \A e \in bank : Answerable(e) /\ User(e.hart, e.tag) = sc_user_q => e.op = "sc"

Exact == Operation /\ Reserving /\ Storing

AmoInv == Types /\ Outstanding /\ (~clash => Exact)

LEMMA InitInv == Init => AmoInv
<1> SUFFICES ASSUME Init PROVE AmoInv
  OBVIOUS
<1>1. 0 \in Word
  BY WordFacts
<1>2. Types
  BY <1>1 DEF Init, Types, Busy
<1>3. QED
  BY <1>2 DEF Init, AmoInv, Outstanding, Exact, Operation, Reserving, Storing, Busy

LEMMA NoRequestFact == NoRequest \notin Request /\ NoRequest.op \notin Ops
BY DEF NoRequest, Request, Ops, AmoOps

(* What stands at the input.                                               *)
LEMMA Input ==
  ASSUME Types, front # None
  PROVE  /\ front \in Harts /\ Req \in Requests[front] /\ Req \in Request /\ waiting[front] # NoRequest
         /\ Req = waiting[front]
         /\ Req.op \in Ops /\ Req.addr \in Addrs /\ Req.data \in Word /\ Req.tag \in Tags
BY RequestsAssumption, NoRequestFact DEF Types, Req, Request

LEMMA IssueInv ==
  ASSUME AmoInv, NEW h \in Harts, NEW r \in Requests[h], Issue(h, r)
  PROVE  AmoInv'
<1> USE DEF AmoInv
<1>1. /\ waiting[h] = NoRequest /\ ~InBank(h, r.tag)
      /\ waiting' = [waiting EXCEPT ![h] = r] /\ result' = [result EXCEPT ![<<h, r.tag>>] = 0]
      /\ UNCHANGED <<memory, bank, front, rsp, state_q, amo, reservation_q, sc_q, sc_user_q, sc_successful_q,
                     reserved, clash>>
  BY DEF Issue, scVars
<1>2. r \in Request /\ r # NoRequest
  BY RequestsAssumption, NoRequestFact
<1>3. front # h
  BY <1>1, NoneAssumption DEF Types
<1>4. \A g \in Harts : g # h => waiting'[g] = waiting[g]
  BY <1>1 DEF Types
<1>5. waiting' \in [Harts -> Request \cup {NoRequest}] /\ waiting'[h] = r
  BY <1>1, <1>2 DEF Types
<1>6. Types'
  <2>1. result' \in [Harts \X Tags -> Word]
    BY <1>1, WordFacts DEF Types
  <2>2. front' # None => waiting'[front'] # NoRequest
    BY <1>1, <1>3, <1>4 DEF Types
  <2>3. \A g \in Harts : waiting'[g] # NoRequest => waiting'[g] \in Requests[g]
    BY <1>4, <1>5 DEF Types
  <2>4. QED
    BY <1>1, <1>5, <2>1, <2>2, <2>3 DEF Types, Busy
<1>7. Outstanding'
  <2>1. \A e \in bank : Answerable(e) /\ e.hart = h => e.tag # r.tag
    BY <1>1 DEF InBank, Answerable
  <2>2. \A e \in bank : e.hart \in Harts
    BY DEF Types, Entry
  <2>3. \A e \in bank' : Answerable(e) /\ waiting'[e.hart] # NoRequest => waiting'[e.hart].tag # e.tag
    BY <1>1, <1>4, <1>5, <2>1, <2>2 DEF Outstanding
  <2>4. WriteBackRequest' = WriteBackRequest
    BY <1>1 DEF WriteBackRequest
  <2>5. QED
    BY <1>1, <2>3, <2>4 DEF Outstanding, Answerable, Same
<1>8. ~clash => Operation'
  BY <1>1 DEF Exact, Operation, Busy, Answerable, Same, Alike
<1>9. ~clash => Reserving'
  <2>1. \A g \in Harts, a \in Addrs \cup {0} : HasReserved(g, a) => HasReserved(g, a)'
    BY <1>1, <1>3, <1>4 DEF HasReserved
  <2>2. QED
    BY <1>1, <2>1 DEF Exact, Reserving, Owner, Types
<1>10. ~clash => Storing'
  <2>1. AtInputSc' <=> AtInputSc
    BY <1>1, <1>3, <1>4 DEF AtInputSc, Req, Types
  <2>2. QED
    BY <1>1, <2>1 DEF Exact, Storing, InBankSc, Answerable, Alike
<1>11. QED
  BY <1>1, <1>6, <1>7, <1>8, <1>9, <1>10 DEF Exact
------------------------------------------------------------------------------
(* An edge.                                                                *)
Taken == [hart |-> front, tag |-> Req.tag, op |-> Req.op, data |-> memory[Req.addr],
          write |-> Writes, is_amo |-> FALSE]
Left(pready) == IF Answered(pready) THEN bank \ {rsp} ELSE bank

LEMMA EdgeInput ==
  ASSUME Types, NEW ready \in BOOLEAN, NEW pready \in BOOLEAN, Edge(ready, pready)
  PROVE  /\ front' # None => front' \in Harts /\ waiting'[front'] # NoRequest
         /\ front # None /\ ~Accepted(ready) => front' = front
         /\ rsp' # None => rsp' \in Left(pready)
         /\ Accepted(ready) => waiting' = [waiting EXCEPT ![front] = NoRequest]
         /\ ~Accepted(ready) => waiting' = waiting
         /\ bank' = Left(pready) \cup Sent(ready)
         /\ ~clash' => ~clash /\ ~(Seen(ready) /\ Confuses)
         /\ clash' \in BOOLEAN
<1>1. /\ waiting' = IF Accepted(ready) THEN [waiting EXCEPT ![front] = NoRequest] ELSE waiting
      /\ front' \in IF front # None /\ ~Accepted(ready) THEN {front}
                    ELSE LET next == {h \in Harts : waiting'[h] # NoRequest}
                         IN IF next = {} THEN {None} ELSE next
      /\ rsp' \in IF rsp # None /\ ~Answered(pready) THEN {rsp} ELSE (bank \ {rsp}) \cup {None}
      /\ bank' = Left(pready) \cup Sent(ready)
  BY DEF Edge, Left
<1>2. front # None /\ ~Accepted(ready) => front' = front
  BY <1>1
<1>3. front' # None => front' \in Harts /\ waiting'[front'] # NoRequest
  BY <1>1, <1>2 DEF Types
<1>4. rsp' # None => rsp' \in Left(pready)
  BY <1>1 DEF Left, Types
<1>5. clash' = (clash \/ (Seen(ready) /\ Confuses))
  BY DEF Edge
<1>6. QED
  BY <1>1, <1>2, <1>3, <1>4, <1>5

(* The five things that an edge may do to the operation and the memory.    *)
Accepts(ready) ==
  /\ Accepted(ready) /\ front # None /\ state_q = "Idle" /\ Sent(ready) = {Taken}
  /\ memory' = IF Writes THEN [memory EXCEPT ![Req.addr] = Req.data] ELSE memory
  /\ IF Req.op \in AmoOps
     THEN /\ state_q' = "DoAMO"
          /\ amo' = [hart |-> front, tag |-> Req.tag, op |-> Req.op, addr |-> Req.addr,
                     b |-> Req.data, result |-> 0]
     ELSE state_q' = "Idle" /\ amo' = amo

Idles(ready) ==
  /\ ~Accepted(ready) /\ Sent(ready) = {} /\ memory' = memory /\ state_q' = state_q /\ amo' = amo
  /\ state_q = "Wait" => ~(rsp # None /\ rsp.is_amo)
  /\ state_q = "DoAMO" => ~Matches

Computes(ready) ==
  /\ ~Accepted(ready) /\ Sent(ready) = {} /\ memory' = memory
  /\ state_q = "DoAMO" /\ state_q' = "WriteBackAMO" /\ Matches
  /\ amo' = [amo EXCEPT !.result = Combine(amo.op, rsp.data, amo.b)]
  /\ amo'.result = Combine(amo.op, rsp.data, amo.b) /\ amo'.result \in Word

WritesBack(ready) ==
  /\ ~Accepted(ready) /\ Sent(ready) = {WriteBackRequest}
  /\ memory' = [memory EXCEPT ![amo.addr] = amo.result]
  /\ state_q = "WriteBackAMO" /\ state_q' = "Wait" /\ amo' = amo

Ends(ready) ==
  /\ ~Accepted(ready) /\ Sent(ready) = {} /\ memory' = memory
  /\ state_q = "Wait" /\ state_q' = "Idle" /\ rsp # None /\ rsp.is_amo

LEMMA EdgePhase ==
  ASSUME AmoInv, NEW ready \in BOOLEAN, NEW pready \in BOOLEAN, Edge(ready, pready)
  PROVE  Accepts(ready) \/ Idles(ready) \/ Computes(ready) \/ WritesBack(ready) \/ Ends(ready)
<1> USE DEF AmoInv
<1>1. State(ready) /\ MemoryWrite(ready)
  BY DEF Edge
<1>2. CASE state_q = "Idle"
  <2>1. CASE Accepted(ready)
    <3>1. front # None /\ Sent(ready) = {Taken}
      BY <2>1 DEF Accepted, Seen, Sent, Taken
    <3>2. memory' = IF Writes THEN [memory EXCEPT ![Req.addr] = Req.data] ELSE memory
      BY <1>1, <1>2, <2>1 DEF MemoryWrite
    <3>3. IF Req.op \in AmoOps
          THEN /\ state_q' = "DoAMO"
               /\ amo' = [hart |-> front, tag |-> Req.tag, op |-> Req.op, addr |-> Req.addr,
                          b |-> Req.data, result |-> 0]
          ELSE state_q' = "Idle" /\ amo' = amo
      BY <1>1, <1>2, <2>1 DEF State
    <3>4. QED
      BY <1>2, <2>1, <3>1, <3>2, <3>3 DEF Accepts
  <2>2. CASE ~Accepted(ready)
    BY <1>1, <1>2, <2>2 DEF Idles, State, MemoryWrite, Sent
  <2>3. QED
    BY <2>1, <2>2
<1>3. CASE state_q = "DoAMO"
  <2>1. ~Accepted(ready) /\ Sent(ready) = {} /\ memory' = memory
    BY <1>1, <1>3 DEF Accepted, Sent, MemoryWrite
  <2>2. CASE Matches
    <3>1. state_q' = "WriteBackAMO" /\ amo' = [amo EXCEPT !.result = Alu(amo.op, rsp.data, amo.b)]
      BY <1>1, <1>3, <2>2 DEF State
    <3>2. rsp.data \in Word
      BY <2>2 DEF Matches, Types, Entry
    <3>3. amo.op \in AmoOps /\ amo.b \in Word
      BY <1>3 DEF Types, Busy
    <3>4. /\ Alu(amo.op, rsp.data, amo.b) = Combine(amo.op, rsp.data, amo.b)
          /\ Combine(amo.op, rsp.data, amo.b) \in Word
      BY <3>2, <3>3, AluMeetsCombine, CombineType
    <3>5. amo'.result = Combine(amo.op, rsp.data, amo.b)
      BY <1>3, <3>1, <3>4 DEF Types, Busy
    <3>6. QED
      BY <1>3, <2>1, <2>2, <3>1, <3>4, <3>5 DEF Computes
  <2>3. CASE ~Matches
    BY <1>1, <1>3, <2>1, <2>3 DEF State, Idles
  <2>4. QED
    BY <2>2, <2>3
<1>4. CASE state_q = "WriteBackAMO"
  <2>1. ~Accepted(ready) /\ amo' = amo /\ state_q' = IF ready THEN "Wait" ELSE state_q
    BY <1>1, <1>4 DEF Accepted, State, EndWriteBack
  <2>2. CASE ready
    BY <1>1, <1>4, <2>1, <2>2 DEF WritesBack, Sent, MemoryWrite
  <2>3. CASE ~ready
    BY <1>1, <1>4, <2>1, <2>3 DEF Idles, Sent, MemoryWrite
  <2>4. QED
    BY <2>2, <2>3
<1>5. CASE state_q = "Wait"
  <2>1. ~Accepted(ready) /\ Sent(ready) = {} /\ memory' = memory
    BY <1>1, <1>5 DEF Accepted, Sent, MemoryWrite
  <2>2. QED
    BY <1>1, <1>5, <2>1 DEF State, Idles, Ends
<1>6. QED
  BY <1>2, <1>3, <1>4, <1>5 DEF Types

LEMMA BankFacts ==
  ASSUME AmoInv, NEW e \in bank
  PROVE  /\ e.hart \in Harts /\ e.tag \in Tags /\ e.op \in Ops \cup {"amo"} /\ e.data \in Word
         /\ e.write \in BOOLEAN /\ e.is_amo \in BOOLEAN
         /\ e.is_amo => state_q = "Wait" /\ e = WriteBackRequest /\ Same(e, amo)
<1>1. e \in Entry
  BY DEF AmoInv, Types
<1>2. e.is_amo => state_q = "Wait" /\ e = WriteBackRequest /\ Same(e, amo)
  BY DEF AmoInv, Outstanding, WriteBackRequest, Same
<1>3. QED
  BY <1>1, <1>2 DEF Entry

(* The unit tells the answer of a store-conditional from others, and has   *)
(* the right success bit for it.                                           *)
LEMMA Answers ==
  ASSUME AmoInv, ~clash, rsp # None, Answerable(rsp)
  PROVE  /\ is_sc_rsp <=> rsp.op = "sc"
         /\ rsp.op = "sc" => sc_successful_q = rsp.write
BY DEF AmoInv, Types, Exact, Storing, InBankSc, is_sc_rsp

(* What is taken is not confused with a request in the bank.               *)
LEMMA NoClash ==
  ASSUME Types, NEW ready \in BOOLEAN, Seen(ready), ~Confuses
  PROVE  /\ \A e \in bank : Answerable(e) /\ User(e.hart, e.tag) = User(front, Req.tag) =>
              Req.op \notin AmoOps \cup {"sc"} /\ e.op # "sc"
         /\ Req.op = "sc" => \A e \in bank : ~InBankSc(e)
         /\ \A h \in Harts : /\ <<h, Req.addr>> \in reserved /\ Core(h) = Core(front)
                             /\ \/ Req.op \in AmoOps \cup {"store"}
                                \/ Req.op = "sc" /\ <<front, Req.addr>> \notin reserved
                             => h = front
<1>1. \A h \in Harts : /\ <<h, Req.addr>> \in reserved /\ Core(h) = Core(front)
                       /\ \/ Req.op \in AmoOps \cup {"store"}
                          \/ Req.op = "sc" /\ <<front, Req.addr>> \notin reserved
                       => h = front
  <2>1. ASSUME NEW h \in Harts, <<h, Req.addr>> \in reserved, Core(h) = Core(front), h # front
        PROVE  \E p \in reserved : p[1] # front /\ Core(p[1]) = Core(front) /\ p[2] = Req.addr
    <3>1. <<h, Req.addr>>[1] = h /\ <<h, Req.addr>>[2] = Req.addr
      OBVIOUS
    <3>2. QED
      BY <2>1, <3>1
  <2>2. QED
    BY <2>1 DEF Confuses
<1>2. QED
  BY <1>1 DEF Confuses, Answerable, InBankSc

LEMMA EdgeTypes ==
  ASSUME AmoInv, NEW ready \in BOOLEAN, NEW pready \in BOOLEAN, Edge(ready, pready)
  PROVE  Types'
<1> USE DEF AmoInv
<1>1. /\ front' # None => front' \in Harts /\ waiting'[front'] # NoRequest
      /\ rsp' # None => rsp' \in Left(pready)
      /\ Accepted(ready) => waiting' = [waiting EXCEPT ![front] = NoRequest]
      /\ ~Accepted(ready) => waiting' = waiting
      /\ bank' = Left(pready) \cup Sent(ready)
      /\ clash' \in BOOLEAN
  BY EdgeInput
<1>2. Left(pready) \subseteq bank
  BY DEF Left
<1>3. Accepts(ready) \/ Idles(ready) \/ Computes(ready) \/ WritesBack(ready) \/ Ends(ready)
  BY EdgePhase
<1>4. Accepted(ready) => front # None
  BY DEF Accepted, Seen
<1>5. /\ waiting' \in [Harts -> Request \cup {NoRequest}]
      /\ \A h \in Harts : waiting'[h] # NoRequest => waiting'[h] \in Requests[h]
  BY <1>1, <1>4, Input DEF Types
<1>6. result' \in [Harts \X Tags -> Word]
  <2>1. Respond(pready)
    BY DEF Edge
  <2>2. rsp # None => <<rsp.hart, rsp.tag>> \in Harts \X Tags /\ rsp.data \in Word
    BY BankFacts DEF Types
  <2>3. \A ok : ScCode(ok) \in Word
    BY WordFacts DEF ScCode
  <2>4. QED
    BY <2>1, <2>2, <2>3 DEF Respond, Answered, Types
<1>7. Sent(ready) \subseteq Entry
  <2>1. Accepted(ready) => Taken \in Entry
    <3> SUFFICES ASSUME Accepted(ready) PROVE Taken \in Entry
      OBVIOUS
    <3>1. Writes \in BOOLEAN
      BY DEF Writes, sc_successful
    <3>2. front \in Harts /\ Req.tag \in Tags /\ Req.op \in Ops /\ memory[Req.addr] \in Word
      BY <1>4, Input DEF Types
    <3>3. QED
      BY <3>1, <3>2 DEF Taken, Entry
  <2>2. Busy => WriteBackRequest \in Entry
    BY WordFacts DEF Types, WriteBackRequest, Entry
  <2>3. QED
    BY <1>3, <2>1, <2>2 DEF Accepts, Idles, Computes, WritesBack, Ends, Busy
<1>8. /\ memory' \in [Addrs -> Word]
      /\ state_q' \in {"Idle", "DoAMO", "WriteBackAMO", "Wait"}
      /\ Busy' => amo' \in [hart : Harts, tag : Tags, op : AmoOps, addr : Addrs, b : Word, result : Word]
  <2>1. CASE Accepts(ready)
    <3>1. /\ front \in Harts /\ Req.tag \in Tags /\ Req.op \in Ops /\ Req.addr \in Addrs /\ Req.data \in Word
          /\ 0 \in Word
      BY <2>1, Input, WordFacts DEF Accepts
    <3>2. QED
      BY <2>1, <3>1 DEF Accepts, Types, Busy
  <2>2. CASE Idles(ready)
    BY <2>2 DEF Idles, Types, Busy
  <2>3. CASE Computes(ready)
    BY <2>3 DEF Computes, Types, Busy
  <2>4. CASE WritesBack(ready)
    BY <2>4 DEF WritesBack, Types, Busy
  <2>5. CASE Ends(ready)
    BY <2>5 DEF Ends, Types, Busy
  <2>6. QED
    BY <1>3, <2>1, <2>2, <2>3, <2>4, <2>5
<1>9. reservation_q' \in [valid : BOOLEAN, addr : Addrs \cup {0}, core : Cores \cup {0}]
  <2>1. Reservation(ready)
    BY DEF Edge
  <2>2. reservation_q \in [valid : BOOLEAN, addr : Addrs \cup {0}, core : Cores \cup {0}]
    BY DEF Types
  <2>3. Seen(ready) => Req.addr \in Addrs /\ Core(front) \in Cores
    BY Input DEF Seen, Harts, Core
  <2>4. \/ reservation_q' = reservation_q
        \/ Seen(ready) /\ reservation_q' = [valid |-> TRUE, addr |-> Req.addr, core |-> Core(front)]
        \/ reservation_q' = [reservation_q EXCEPT !.valid = FALSE]
    BY <2>1 DEF Reservation
  <2>5. CASE reservation_q' = reservation_q
    BY <2>2, <2>5
  <2>6. CASE Seen(ready) /\ reservation_q' = [valid |-> TRUE, addr |-> Req.addr, core |-> Core(front)]
    BY <2>3, <2>6
  <2>7. CASE reservation_q' = [reservation_q EXCEPT !.valid = FALSE]
    BY <2>2, <2>7
  <2>8. QED
    BY <2>4, <2>5, <2>6, <2>7
<1>10. sc_q' \in BOOLEAN
  <2>1. sc_q \in BOOLEAN
    BY DEF Types
  <2>2. QED
    BY <2>1 DEF Edge, StoreConditional, Seen, is_sc_rsp
<1>11. QED
  BY <1>1, <1>2, <1>5, <1>6, <1>7, <1>8, <1>9, <1>10 DEF Types

LEMMA EdgeOutstanding ==
  ASSUME AmoInv, NEW ready \in BOOLEAN, NEW pready \in BOOLEAN, Edge(ready, pready)
  PROVE  Outstanding'
<1> USE DEF AmoInv
<1>1. /\ Accepted(ready) => waiting' = [waiting EXCEPT ![front] = NoRequest]
      /\ ~Accepted(ready) => waiting' = waiting
      /\ bank' = Left(pready) \cup Sent(ready)
  BY EdgeInput
<1>2. Left(pready) \subseteq bank
  BY DEF Left
<1>3. Accepts(ready) \/ Idles(ready) \/ Computes(ready) \/ WritesBack(ready) \/ Ends(ready)
  BY EdgePhase
<1>4. \A h \in Harts : waiting'[h] # NoRequest => waiting'[h] = waiting[h]
  BY <1>1 DEF Types
<1>5. \A e \in Left(pready) : Answerable(e) /\ waiting'[e.hart] # NoRequest => waiting'[e.hart].tag # e.tag
  BY <1>2, <1>4, BankFacts DEF Outstanding
<1>6. \/ Accepts(ready) /\ Sent(ready) = {Taken}
      \/ ~Accepts(ready) /\ \A e \in Sent(ready) : ~Answerable(e)
  BY <1>3 DEF Accepts, Idles, Computes, WritesBack, Ends, WriteBackRequest, Answerable
<1>7. ASSUME Accepts(ready)
      PROVE  /\ waiting'[front] = NoRequest /\ Answerable(Taken) /\ Taken.hart = front
             /\ \A e \in bank : Answerable(e) => ~Same(e, Taken) /\ ~Same(Taken, e)
  <2>1. front \in Harts /\ Req = waiting[front] /\ waiting[front] # NoRequest
    BY <1>7, Input DEF Accepts
  <2>2. waiting'[front] = NoRequest
    BY <1>1, <1>7, <2>1 DEF Accepts, Types
  <2>3. \A e \in bank : Answerable(e) /\ e.hart = front => e.tag # Req.tag
    BY <2>1 DEF Outstanding
  <2>4. Taken.hart = front /\ Taken.tag = Req.tag /\ Answerable(Taken)
    BY DEF Taken, Answerable
  <2>5. QED
    BY <2>2, <2>3, <2>4 DEF Same
<1>8. \A e \in bank' : Answerable(e) /\ waiting'[e.hart] # NoRequest => waiting'[e.hart].tag # e.tag
  BY <1>1, <1>5, <1>6, <1>7
<1>9. \A e, f \in bank' : Answerable(e) /\ Answerable(f) /\ Same(e, f) => e = f
  <2>1. \A e, f \in Left(pready) : Answerable(e) /\ Answerable(f) /\ Same(e, f) => e = f
    BY <1>2 DEF Outstanding
  <2>2. QED
    BY <1>1, <1>2, <1>6, <1>7, <2>1
<1>10. \A e \in bank' : e.is_amo => state_q' = "Wait" /\ e = WriteBackRequest'
  <2> SUFFICES ASSUME NEW e \in bank', e.is_amo PROVE state_q' = "Wait" /\ e = WriteBackRequest'
    OBVIOUS
  <2>1. CASE e \in Left(pready)
    <3>1. state_q = "Wait" /\ e = WriteBackRequest
      BY <1>2, <2>1 DEF Outstanding
    <3>2. ~Ends(ready)
      <4>1. SUFFICES ASSUME Ends(ready) PROVE FALSE
        OBVIOUS
      <4>2. rsp = WriteBackRequest /\ Answered(pready)
        BY <4>1 DEF Ends, Outstanding, Types, Answered
      <4>3. QED
        BY <2>1, <3>1, <4>2 DEF Left
    <3>3. Idles(ready)
      BY <1>3, <3>1, <3>2 DEF Accepts, Computes, WritesBack
    <3>4. QED
      BY <3>1, <3>3 DEF Idles, WriteBackRequest
  <2>2. CASE e \in Sent(ready)
    <3>1. WritesBack(ready)
      BY <1>3, <2>2 DEF Accepts, Idles, Computes, Ends, Taken
    <3>2. QED
      BY <2>2, <3>1 DEF WritesBack, WriteBackRequest
  <2>3. QED
    BY <1>1, <2>1, <2>2
<1>11. state_q' = "Wait" => WriteBackRequest' \in bank'
  <2> SUFFICES ASSUME state_q' = "Wait" PROVE WriteBackRequest' \in bank'
    OBVIOUS
  <2>1. CASE WritesBack(ready)
    BY <1>1, <2>1 DEF WritesBack, WriteBackRequest
  <2>2. CASE Idles(ready)
    <3>1. WriteBackRequest \in bank /\ WriteBackRequest.is_amo /\ WriteBackRequest' = WriteBackRequest
      BY <2>2 DEF Idles, Outstanding, WriteBackRequest
    <3>2. rsp # None => rsp # WriteBackRequest
      BY <2>2, <3>1 DEF Idles
    <3>3. WriteBackRequest \in Left(pready)
      BY <3>1, <3>2 DEF Left, Answered
    <3>4. QED
      BY <1>1, <3>1, <3>3
  <2>3. QED
    BY <1>3, <2>1, <2>2 DEF Accepts, Computes, Ends
<1>12. state_q' = "DoAMO" => \E e \in bank' : Answerable(e) /\ Same(e, amo') /\ e.op = amo'.op
  <2> SUFFICES ASSUME state_q' = "DoAMO"
               PROVE  \E e \in bank' : Answerable(e) /\ Same(e, amo') /\ e.op = amo'.op
    OBVIOUS
  <2>1. CASE Accepts(ready)
    <3>1. amo'.hart = front /\ amo'.tag = Req.tag /\ amo'.op = Req.op
      BY <2>1 DEF Accepts
    <3>2. Taken \in bank' /\ Answerable(Taken) /\ Same(Taken, amo') /\ Taken.op = amo'.op
      BY <1>1, <2>1, <3>1 DEF Accepts, Taken, Answerable, Same
    <3>3. QED
      BY <3>2
  <2>2. CASE Idles(ready)
    <3>1. PICK e \in bank : Answerable(e) /\ Same(e, amo) /\ e.op = amo.op
      BY <2>2 DEF Idles, Outstanding
    <3>2. rsp # None => rsp # e
      BY <2>2, <3>1 DEF Idles, Matches, Same
    <3>3. e \in Left(pready)
      BY <3>1, <3>2 DEF Left, Answered
    <3>4. QED
      BY <1>1, <2>2, <3>1, <3>3 DEF Idles
  <2>3. QED
    BY <1>3, <2>1, <2>2 DEF Computes, WritesBack, Ends
<1>13. QED
  BY <1>8, <1>9, <1>10, <1>11, <1>12 DEF Outstanding, Answerable, Same

LEMMA EdgeOperation ==
  ASSUME AmoInv, NEW ready \in BOOLEAN, NEW pready \in BOOLEAN, Edge(ready, pready), ~clash'
  PROVE  Operation'
<1> USE DEF AmoInv
<1>1. bank' = Left(pready) \cup Sent(ready) /\ Left(pready) \subseteq bank
  BY EdgeInput DEF Left
<1>2. Accepts(ready) \/ Idles(ready) \/ Computes(ready) \/ WritesBack(ready) \/ Ends(ready)
  BY EdgePhase
<1>3. ~clash /\ ~(Seen(ready) /\ Confuses)
  BY EdgeInput
<1>4. Operation
  BY <1>3 DEF Exact
<1>5. CASE Accepts(ready)
  <2>1. Seen(ready) /\ ~Confuses
    BY <1>3, <1>5 DEF Accepts, Accepted
  <2>2. CASE Req.op \in AmoOps
    <3>1. ~Writes /\ memory' = memory
      BY <1>5, <2>2 DEF Accepts, Writes, sc_successful, AmoOps
    <3>2. bank' = Left(pready) \cup {Taken}
      BY <1>1, <1>5 DEF Accepts
    <3>3. \A e \in bank : Answerable(e) => User(e.hart, e.tag) # User(front, Req.tag)
      BY <2>1, <2>2, NoClash
    <3>4. /\ state_q' = "DoAMO" /\ amo'.hart = front /\ amo'.tag = Req.tag /\ amo'.op = Req.op
          /\ amo'.addr = Req.addr
      BY <1>5, <2>2 DEF Accepts
    <3>5. \A e \in bank : Answerable(e) => ~Alike(e, amo') /\ ~Same(e, amo')
      BY <3>3, <3>4 DEF Alike, Same
    <3>6. Same(Taken, amo') /\ Taken.op = amo'.op /\ Taken.data = memory'[amo'.addr]
      BY <3>1, <3>4 DEF Taken, Same
    <3>7. QED
      BY <1>1, <3>2, <3>4, <3>5, <3>6 DEF Operation, Busy, Answerable, Same, Alike
  <2>3. CASE Req.op \notin AmoOps
    BY <1>5, <2>3 DEF Accepts, Operation, Busy
  <2>4. QED
    BY <2>2, <2>3
<1>6. CASE Idles(ready)
  BY <1>1, <1>4, <1>6 DEF Idles, Operation, Busy, Answerable, Same, Alike
<1>7. CASE Computes(ready)
  <2>1. amo'.hart = amo.hart /\ amo'.tag = amo.tag /\ amo'.op = amo.op /\ amo'.addr = amo.addr /\ amo'.b = amo.b
        /\ amo'.result = Combine(amo.op, rsp.data, amo.b)
    BY <1>7 DEF Computes, Types, Busy
  <2>2. rsp \in bank /\ Answerable(rsp) /\ Alike(rsp, amo)
    BY <1>7, BankFacts DEF Computes, Matches, Types, Answerable, Alike
  <2>3. rsp.data = memory[amo.addr]
    BY <1>4, <1>7, <2>2 DEF Computes, Operation, Busy
  <2>4. QED
    BY <1>1, <1>4, <1>7, <2>1, <2>3 DEF Computes, Operation, Busy, Answerable, Same, Alike
<1>8. CASE WritesBack(ready)
  BY <1>1, <1>4, <1>8 DEF WritesBack, Operation, Busy, Answerable, WriteBackRequest, Same, Alike
<1>9. CASE Ends(ready)
  BY <1>9 DEF Ends, Operation, Busy
<1>10. QED
  BY <1>2, <1>5, <1>6, <1>7, <1>8, <1>9

LEMMA EdgeReserving ==
  ASSUME AmoInv, NEW ready \in BOOLEAN, NEW pready \in BOOLEAN, Edge(ready, pready), ~clash'
  PROVE  Reserving'
<1> USE DEF AmoInv
<1>1. /\ front # None /\ ~Accepted(ready) => front' = front
      /\ ~Accepted(ready) => waiting' = waiting /\ reserved' = reserved
      /\ Accepted(ready) => Seen(ready)
      /\ ~clash /\ ~(Seen(ready) /\ Confuses)
  BY EdgeInput DEF Edge, Reserve, Accepted
<1>2. Reservation(ready) /\ Reserve(ready)
  BY DEF Edge
<1>3. SUFFICES ASSUME reservation_q'.valid
               PROVE  \E h \in Harts : Owner(h)'
  BY DEF Reserving
<1>4. CASE Seen(ready) /\ Req.op = "lr"
  <2>1. reservation_q' = [valid |-> TRUE, addr |-> Req.addr, core |-> Core(front)]
    BY <1>2, <1>4 DEF Reservation, AmoOps
  <2>2. front # None /\ front \in Harts
    BY <1>4, Input DEF Seen
  <2>3. CASE Accepted(ready)
    <3>1. <<front, Req.addr>> \in reserved'
      BY <1>2, <1>4, <2>3 DEF Reserve
    <3>2. QED
      BY <2>1, <2>2, <3>1 DEF Owner, HasReserved
  <2>4. CASE ~Accepted(ready)
    BY <1>1, <1>4, <2>1, <2>2, <2>4 DEF Owner, HasReserved, Req
  <2>5. QED
    BY <2>3, <2>4
<1>5. CASE ~(Seen(ready) /\ Req.op = "lr")
  <2>1. /\ reservation_q' = reservation_q /\ reservation_q.valid
        /\ Seen(ready) /\ Req.op = "sc" => reservation_q.core # Core(front)
        /\ Seen(ready) /\ Req.op \in AmoOps \cup {"store"} /\ reservation_q.addr = Req.addr
             => reservation_q.core = Core(front)
    <3>1. reservation_q' = [reservation_q EXCEPT !.valid = FALSE] => ~reservation_q'.valid
      BY DEF Types
    <3>2. QED
      BY <1>2, <1>3, <1>5, <3>1 DEF Reservation
  <2>2. PICK h \in Harts : Core(h) = reservation_q.core /\ HasReserved(h, reservation_q.addr)
    BY <1>1, <2>1 DEF Exact, Reserving, Owner
  <2>3. CASE front = h /\ waiting[h].op = "lr" /\ waiting[h].addr = reservation_q.addr
    <3>1. ~Accepted(ready) /\ front # None
      BY <1>1, <1>5, <2>3, NoneAssumption DEF Req
    <3>2. QED
      BY <1>1, <2>1, <2>2, <2>3, <3>1 DEF Owner, HasReserved
  <2>4. CASE <<h, reservation_q.addr>> \in reserved
    <3>1. <<h, reservation_q.addr>> \in reserved'
      <4>1. CASE ~Accepted(ready)
        BY <1>1, <2>4, <4>1
      <4>2. CASE Accepted(ready)
        <5> DEFINE mine == {p \in reserved : p[1] = front}
                   others == {p \in reserved : p[1] # front /\ p[2] = Req.addr}
        <5>1. Seen(ready) /\ ~Confuses /\ front # None /\ front \in Harts /\ Req.op \in Ops
          BY <1>1, <4>2, Input DEF Seen
        <5>2. CASE Req.op = "load"
          BY <1>2, <2>4, <4>2, <5>2 DEF Reserve
        <5>3. CASE Req.op = "sc"
          <6>1. ~sc_successful /\ h # front
            BY <1>1, <2>1, <2>2, <4>2, <5>3 DEF sc_successful
          <6>2. reserved' = (reserved \ mine) \ {}
            BY <1>2, <4>2, <5>3, <6>1 DEF Reserve
          <6>3. QED
            BY <2>4, <6>1, <6>2
        <5>4. CASE Req.op \in AmoOps \cup {"store"}
          <6>1. reserved' = reserved \ others
            BY <1>2, <4>2, <5>4 DEF Reserve, AmoOps
          <6>2. reservation_q.addr = Req.addr => h = front
            BY <2>1, <2>2, <2>4, <5>1, <5>4, NoClash
          <6>3. QED
            BY <2>4, <6>1, <6>2
        <5>5. QED
          BY <1>1, <1>5, <4>2, <5>1, <5>2, <5>3, <5>4 DEF Ops
      <4>3. QED
        BY <4>1, <4>2
    <3>2. QED
      BY <2>1, <2>2, <3>1 DEF Owner, HasReserved
  <2>5. QED
    BY <2>2, <2>3, <2>4 DEF Owner, HasReserved
<1>6. QED
  BY <1>4, <1>5

LEMMA EdgeStoring ==
  ASSUME AmoInv, NEW ready \in BOOLEAN, NEW pready \in BOOLEAN, Edge(ready, pready), ~clash'
  PROVE  Storing'
<1> DEFINE set == Seen(ready) /\ Req.op = "sc"
           clr == is_sc_rsp /\ pready
<1> USE DEF AmoInv
<1>1. /\ front # None /\ ~Accepted(ready) => front' = front
      /\ ~Accepted(ready) => waiting' = waiting
      /\ bank' = Left(pready) \cup Sent(ready)
      /\ Left(pready) \subseteq bank
      /\ ~clash /\ ~(Seen(ready) /\ Confuses)
  BY EdgeInput DEF Left
<1>2. /\ sc_q' = IF set \/ clr THEN set /\ ~clr ELSE sc_q
      /\ sc_user_q' = IF set THEN User(front, Req.tag) ELSE sc_user_q
      /\ sc_successful_q' = IF set THEN sc_successful ELSE sc_successful_q
  BY DEF Edge, StoreConditional
<1>3. Accepts(ready) \/ Idles(ready) \/ Computes(ready) \/ WritesBack(ready) \/ Ends(ready)
  BY EdgePhase
<1>4. Operation /\ Storing
  BY <1>1 DEF Exact
<1>5. /\ Accepted(ready) => Accepts(ready) /\ Sent(ready) = {Taken} /\ Seen(ready) /\ state_q = "Idle"
      /\ ~Accepted(ready) => \A e \in Sent(ready) : ~Answerable(e)
  BY <1>3 DEF Accepts, Idles, Computes, WritesBack, Ends, WriteBackRequest, Answerable, Accepted
<1>6. /\ Answerable(Taken) /\ Taken.op = Req.op /\ User(Taken.hart, Taken.tag) = User(front, Req.tag)
      /\ Taken.write = Writes
  BY DEF Taken, Answerable
<1>7. ASSUME set
      PROVE  /\ front # None
             /\ \A e \in bank : ~InBankSc(e)
             /\ \A e \in bank : Answerable(e) => User(e.hart, e.tag) # User(front, Req.tag)
  BY <1>1, <1>7, NoClash DEF Seen
<1>8. ASSUME clr, NEW e \in Left(pready), InBankSc(e) PROVE FALSE
  <2>1. rsp \in bank /\ rsp # None /\ Alike(e, rsp) /\ pready
    BY <1>1, <1>4, <1>8 DEF is_sc_rsp, Types, Storing, Alike
  <2>2. CASE rsp.is_amo
    <3>1. state_q = "Wait" /\ Alike(e, amo)
      BY <2>1, <2>2, BankFacts DEF Same, Alike
    <3>2. e.op = amo.op /\ amo.op \in AmoOps
      BY <1>1, <1>4, <1>8, <3>1 DEF Operation, Busy, InBankSc, Types
    <3>3. QED
      BY <1>8, <3>2 DEF InBankSc, AmoOps
  <2>3. CASE ~rsp.is_amo
    <3>1. e = rsp
      BY <1>1, <1>4, <1>8, <2>1, <2>3 DEF Storing, Answerable
    <3>2. Answered(pready)
      BY <2>1, <2>3 DEF Answered
    <3>3. QED
      BY <1>8, <3>1, <3>2 DEF Left
  <2>4. QED
    BY <2>2, <2>3
<1>9. ASSUME NEW e \in bank', InBankSc(e)
      PROVE  /\ sc_q' /\ sc_user_q' = User(e.hart, e.tag) /\ sc_successful_q' = e.write
             /\ \A f \in bank' : Answerable(f) /\ Alike(e, f) => e = f
  <2>1. CASE e \in Left(pready)
    <3>1. ~set /\ ~clr
      BY <1>1, <1>7, <1>8, <1>9, <2>1
    <3>2. /\ sc_q' /\ sc_user_q' = User(e.hart, e.tag) /\ sc_successful_q' = e.write
          /\ \A f \in bank : Answerable(f) /\ Alike(e, f) => e = f
      BY <1>1, <1>2, <1>4, <1>9, <2>1, <3>1 DEF Storing
    <3>3. ASSUME NEW f \in Sent(ready), Answerable(f) PROVE ~Alike(e, f)
      <4>1. Accepted(ready) /\ f = Taken /\ Seen(ready) /\ ~Confuses
        BY <1>1, <1>5, <3>3
      <4>2. User(e.hart, e.tag) # User(front, Req.tag)
        BY <1>1, <1>9, <2>1, <4>1, NoClash DEF InBankSc
      <4>3. QED
        BY <1>6, <4>1, <4>2 DEF Alike
    <3>4. QED
      BY <1>1, <3>2, <3>3
  <2>2. CASE e \in Sent(ready)
    <3>1. Accepted(ready) /\ set /\ e = Taken /\ state_q = "Idle"
      BY <1>5, <1>6, <1>9, <2>2 DEF InBankSc
    <3>2. ~clr
      <4>1. SUFFICES ASSUME clr PROVE FALSE
        OBVIOUS
      <4>2. rsp \in bank /\ rsp # None /\ Answerable(rsp)
        BY <3>1, <4>1, BankFacts DEF is_sc_rsp, Types, Answerable
      <4>3. InBankSc(rsp)
        BY <1>1, <4>1, <4>2, Answers DEF InBankSc
      <4>4. QED
        BY <1>7, <3>1, <4>2, <4>3
    <3>3. e.write = sc_successful
      BY <1>6, <1>9, <3>1 DEF Writes, sc_successful, InBankSc
    <3>4. \A f \in bank : Answerable(f) => ~Alike(e, f)
      BY <1>6, <1>7, <3>1 DEF Alike
    <3>5. \A f \in bank' : Answerable(f) /\ Alike(e, f) => e = f
      BY <1>1, <1>5, <3>1, <3>4
    <3>6. QED
      BY <1>2, <1>6, <3>1, <3>2, <3>3, <3>5
  <2>3. QED
    BY <1>1, <1>9, <2>1, <2>2
<1>10. ASSUME sc_q'
       PROVE  /\ AtInputSc' \/ \E e \in bank' : InBankSc(e) /\ User(e.hart, e.tag) = sc_user_q'
              /\ \A e \in bank' : Answerable(e) /\ User(e.hart, e.tag) = sc_user_q' => e.op = "sc"
  <2>1. CASE set
    <3>1. sc_user_q' = User(front, Req.tag)
      BY <1>2, <2>1
    <3>2. \A e \in bank' : Answerable(e) /\ User(e.hart, e.tag) = sc_user_q' => e.op = "sc"
      <4>1. \A e \in bank : ~(Answerable(e) /\ User(e.hart, e.tag) = sc_user_q')
        BY <1>7, <2>1, <3>1
      <4>2. \A e \in Sent(ready) : Answerable(e) => e.op = "sc"
        BY <1>5, <1>6, <2>1
      <4>3. QED
        BY <1>1, <4>1, <4>2
    <3>3. CASE Accepted(ready)
      <4>1. Taken \in bank' /\ InBankSc(Taken) /\ User(Taken.hart, Taken.tag) = sc_user_q'
        BY <1>1, <1>5, <1>6, <2>1, <3>1, <3>3 DEF InBankSc
      <4>2. QED
        BY <3>2, <4>1
    <3>4. CASE ~Accepted(ready)
      <4>1. front # None /\ front' = front /\ waiting' = waiting
        BY <1>1, <1>7, <2>1, <3>4
      <4>2. AtInputSc'
        BY <2>1, <3>1, <4>1 DEF AtInputSc, Req
      <4>3. QED
        BY <3>2, <4>2
    <3>5. QED
      BY <3>3, <3>4
  <2>2. CASE ~set
    <3>1. sc_q /\ ~clr /\ sc_user_q' = sc_user_q
      BY <1>2, <1>10, <2>2
    <3>2. /\ AtInputSc \/ \E e \in bank : InBankSc(e) /\ User(e.hart, e.tag) = sc_user_q
          /\ \A e \in bank : Answerable(e) /\ User(e.hart, e.tag) = sc_user_q => e.op = "sc"
      BY <1>4, <3>1 DEF Storing
    <3>3. CASE AtInputSc
      <4>1. ~Accepted(ready) /\ front # None
        BY <2>2, <3>3 DEF Accepted, AtInputSc
      <4>2. AtInputSc'
        BY <1>1, <3>1, <3>3, <4>1 DEF AtInputSc, Req
      <4>3. \A e \in bank' : Answerable(e) => e \in bank
        BY <1>1, <1>5, <4>1
      <4>4. QED
        BY <3>1, <3>2, <4>2, <4>3
    <3>4. CASE \E e \in bank : InBankSc(e) /\ User(e.hart, e.tag) = sc_user_q
      <4>1. PICK e \in bank : InBankSc(e) /\ User(e.hart, e.tag) = sc_user_q
        BY <3>4
      <4>2. e \in Left(pready)
        <5>1. SUFFICES ASSUME e = rsp, Answered(pready) PROVE FALSE
          BY DEF Left
        <5>2. rsp # None /\ ~rsp.is_amo /\ pready
          BY <4>1, <5>1 DEF Answered, InBankSc, Answerable
        <5>3. is_sc_rsp
          BY <3>1, <4>1, <5>1, <5>2 DEF is_sc_rsp
        <5>4. QED
          BY <3>1, <5>2, <5>3
      <4>3. ASSUME NEW f \in Sent(ready), Answerable(f) PROVE User(f.hart, f.tag) # sc_user_q
        <5>1. Accepted(ready) /\ f = Taken /\ Seen(ready) /\ ~Confuses
          BY <1>1, <1>5, <4>3
        <5>2. User(e.hart, e.tag) # User(front, Req.tag)
          BY <4>1, <5>1, NoClash DEF InBankSc
        <5>3. QED
          BY <1>6, <4>1, <5>1, <5>2
      <4>4. \A f \in bank' : Answerable(f) /\ User(f.hart, f.tag) = sc_user_q => f.op = "sc"
        BY <1>1, <3>2, <4>3
      <4>5. QED
        BY <1>1, <3>1, <4>1, <4>2, <4>4
    <3>5. QED
      BY <3>2, <3>3, <3>4
  <2>3. QED
    BY <2>1, <2>2
<1>11. QED
  BY <1>9, <1>10 DEF Storing, InBankSc, Answerable, Alike

LEMMA NextInv ==
  ASSUME AmoInv, [Next]_vars PROVE AmoInv'
<1>1. CASE UNCHANGED vars
  <2>1. UNCHANGED <<memory, bank, waiting, front, rsp, state_q, amo, reservation_q, sc_q, sc_user_q,
                    sc_successful_q, result, reserved, clash>>
    BY <1>1 DEF vars, scVars
  <2>2. Types'
    BY <2>1 DEF AmoInv, Types, Busy
  <2>3. Outstanding'
    BY <2>1 DEF AmoInv, Outstanding, Answerable, Same, WriteBackRequest
  <2>4. ~clash => Operation' /\ Reserving'
    BY <2>1 DEF AmoInv, Exact, Operation, Busy, Answerable, Same, Alike, Reserving, Owner, HasReserved
  <2>5. ~clash => Storing'
    BY <2>1 DEF AmoInv, Exact, Storing, InBankSc, Answerable, Alike, AtInputSc, Req
  <2>6. QED
    BY <2>1, <2>2, <2>3, <2>4, <2>5 DEF AmoInv, Exact
<1>2. CASE \E h \in Harts : \E r \in Requests[h] : Issue(h, r)
  BY <1>2, IssueInv
<1>3. CASE Clock
  BY <1>3, EdgeTypes, EdgeOutstanding, EdgeOperation, EdgeReserving, EdgeStoring DEF Clock, AmoInv, Exact
<1>4. QED
  BY <1>1, <1>2, <1>3 DEF Next

LEMMA InvTypeOK == AmoInv => TypeOK
<1> SUFFICES ASSUME AmoInv PROVE TypeOK
  OBVIOUS
<1> DEFINE backs == {e \in bank : e.is_amo}
<1>1. state_q = "Wait" => backs = {WriteBackRequest}
  <2>1. WriteBackRequest.is_amo
    BY DEF WriteBackRequest
  <2>2. QED
    BY <2>1 DEF AmoInv, Outstanding
<1>2. state_q # "Wait" => backs = {}
  BY DEF AmoInv, Outstanding
<1>3. Cardinality(backs) = IF state_q = "Wait" THEN 1 ELSE 0
  <2> HIDE DEF backs
  <2>1. QED
    BY <1>1, <1>2, FS_EmptySet, FS_Singleton
<1>4. state_q = "DoAMO" => \E e \in bank : e.hart = amo.hart /\ e.tag = amo.tag /\ e.op = amo.op /\ ~e.is_amo
  BY DEF AmoInv, Outstanding, Answerable, Same
<1>5. QED
  BY <1>3, <1>4 DEF AmoInv, Types, TypeOK

(* The unit's state and the bank agree: a read is under way in DoAMO, one  *)
(* write-back in Wait, and none at any other time.                         *)
THEOREM AmoTypeCorrect == Spec => []TypeOK
<1>1. AmoInv /\ [Next]_vars => AmoInv'
  BY NextInv
<1>2. QED
  BY <1>1, InitInv, InvTypeOK, PTL DEF Spec
------------------------------------------------------------------------------
(* What harts are answered.  At any time the result of a hart and a tag is *)
(* the answer that the bank has for them, or else the one that they got.   *)
Pending(e) == Answerable(e) /\ e.op # "store"
Answer(e) == IF e.op = "sc" THEN ScCode(e.write) ELSE e.data
At(e) == <<e.hart, e.tag>>

ResultOf(B, R) ==
  [ht \in Harts \X Tags |->
    IF \E e \in B : <<e.hart, e.tag>> = ht /\ ~e.is_amo /\ e.op # "store"
    THEN LET e == CHOOSE e \in B : <<e.hart, e.tag>> = ht /\ ~e.is_amo IN Answer(e)
    ELSE R[ht]]

LEMMA ResultOfBank ==
  ASSUME NEW B, NEW R,
         \A e, f \in B : Answerable(e) /\ Answerable(f) /\ Same(e, f) => e = f
  PROVE  /\ \A e \in B : Pending(e) /\ At(e) \in Harts \X Tags => ResultOf(B, R)[At(e)] = Answer(e)
         /\ \A ht \in Harts \X Tags :
              (\A e \in B : ~(Pending(e) /\ At(e) = ht)) => ResultOf(B, R)[ht] = R[ht]
<1>1. ASSUME NEW e \in B, Pending(e), At(e) \in Harts \X Tags
      PROVE  ResultOf(B, R)[At(e)] = Answer(e)
  <2> DEFINE c == CHOOSE c \in B : <<c.hart, c.tag>> = At(e) /\ ~c.is_amo
  <2>1. c \in B /\ <<c.hart, c.tag>> = At(e) /\ ~c.is_amo
    BY <1>1 DEF Pending, Answerable, At
  <2>2. c = e
    BY <1>1, <2>1 DEF Pending, Answerable, At, Same
  <2>3. ResultOf(B, R)[At(e)] = Answer(c)
    BY <1>1 DEF ResultOf, Pending, Answerable, At
  <2>4. QED
    BY <2>2, <2>3
<1>2. ASSUME NEW ht \in Harts \X Tags, \A e \in B : ~(Pending(e) /\ At(e) = ht)
      PROVE  ResultOf(B, R)[ht] = R[ht]
  BY <1>2 DEF ResultOf, Pending, Answerable, At
<1>3. QED
  BY <1>1, <1>2

LEMMA ResultIs ==
  Result = ResultOf(bank, result) /\ Result' = ResultOf(bank', result')
BY DEF Result, ResultOf, Answer

(* An edge changes the result of the hart whose request is taken only.     *)
LEMMA EdgeResult ==
  ASSUME AmoInv, AmoInv', ~clash, NEW ready \in BOOLEAN, NEW pready \in BOOLEAN, Edge(ready, pready)
  PROVE  /\ \A ht \in Harts \X Tags :
              (\A e \in Sent(ready) : ~(Pending(e) /\ At(e) = ht)) => Result'[ht] = Result[ht]
         /\ \A e \in Sent(ready) : Pending(e) => Result'[At(e)] = Answer(e)
<1>1. bank' = Left(pready) \cup Sent(ready) /\ Left(pready) \subseteq bank /\ Respond(pready)
  BY EdgeInput DEF AmoInv, Left, Edge
<1>2. \A e \in bank \cup bank' : At(e) \in Harts \X Tags
  BY DEF AmoInv, Types, Entry, At
<1>3. /\ \A e, f \in bank : Answerable(e) /\ Answerable(f) /\ Same(e, f) => e = f
      /\ \A e, f \in bank' : Answerable(e) /\ Answerable(f) /\ Same(e, f) => e = f
  BY DEF AmoInv, Outstanding, Answerable, Same
<1>4. /\ \A e \in bank : Pending(e) => Result[At(e)] = Answer(e)
      /\ \A ht \in Harts \X Tags : (\A e \in bank : ~(Pending(e) /\ At(e) = ht)) => Result[ht] = result[ht]
  BY <1>2, <1>3, ResultIs, ResultOfBank
<1>5. /\ \A e \in bank' : Pending(e) => Result'[At(e)] = Answer(e)
      /\ \A ht \in Harts \X Tags : (\A e \in bank' : ~(Pending(e) /\ At(e) = ht)) => Result'[ht] = result'[ht]
  BY <1>2, <1>3, ResultIs, ResultOfBank
<1>6. ASSUME NEW ht \in Harts \X Tags, \A e \in Sent(ready) : ~(Pending(e) /\ At(e) = ht)
      PROVE  Result'[ht] = Result[ht]
  <2>1. CASE \E e \in Left(pready) : Pending(e) /\ At(e) = ht
    BY <1>1, <1>4, <1>5, <2>1
  <2>2. CASE \A e \in Left(pready) : ~(Pending(e) /\ At(e) = ht)
    <3>1. Result'[ht] = result'[ht]
      BY <1>1, <1>5, <1>6, <2>2
    <3>2. CASE rsp # None /\ Pending(rsp) /\ At(rsp) = ht /\ pready
      <4>1. rsp \in bank /\ Answerable(rsp) /\ rsp.op # "store"
        BY <3>2 DEF AmoInv, Types, Pending
      <4>2. result'[ht] = IF is_sc_rsp THEN ScCode(sc_successful_q) ELSE rsp.data
        BY <1>1, <3>2, <4>1 DEF Respond, Answered, Answerable, AmoInv, Types, At
      <4>3. result'[ht] = Answer(rsp)
        BY <3>2, <4>1, <4>2, Answers DEF Answer
      <4>4. QED
        BY <1>4, <3>1, <3>2, <4>1, <4>3
    <3>3. CASE ~(rsp # None /\ Pending(rsp) /\ At(rsp) = ht /\ pready)
      <4>1. result'[ht] = result[ht]
        BY <1>1, <3>3 DEF Respond, Answered, Pending, Answerable, AmoInv, Types, At
      <4>2. \A e \in bank : ~(Pending(e) /\ At(e) = ht)
        BY <2>2, <3>3 DEF Left, Answered, Pending, Answerable
      <4>3. QED
        BY <1>4, <3>1, <4>1, <4>2
    <3>4. QED
      BY <3>2, <3>3
  <2>3. QED
    BY <2>1, <2>2
<1>7. QED
  BY <1>1, <1>5, <1>6

LEMMA SameWords ==
  /\ AM!NoRequest = NoRequest /\ AM!AmoOps = AmoOps
  /\ \A op, a, b : AM!Combine(op, a, b) = Combine(op, a, b)
BY DEF AM!NoRequest, NoRequest, AM!AmoOps, AmoOps, AM!Combine, Combine, AM!And, And, AM!Or, Or, AM!Xor, Xor,
       AM!WordOf, WordOf, AM!Bits, Bits, AM!Word, Word, AM!Signed, Signed

LEMMA InitRefines == Init => AM!Init
<1> SUFFICES ASSUME Init PROVE AM!Init
  OBVIOUS
<1>1. Memory = [a \in Addrs |-> 0]
  BY DEF Init, Memory
<1>2. Result = [ht \in Harts \X Tags |-> 0]
  BY DEF Init, Result
<1>3. QED
  BY <1>1, <1>2, SameWords DEF Init, AM!Init

LEMMA IssueRefines ==
  ASSUME AmoInv, AmoInv', NEW h \in Harts, NEW r \in Requests[h], Issue(h, r)
  PROVE  AM!Issue(h, r)
<1> DEFINE own == <<h, r.tag>>
<1>1. /\ waiting[h] = NoRequest /\ ~InBank(h, r.tag)
      /\ waiting' = [waiting EXCEPT ![h] = r] /\ result' = [result EXCEPT ![own] = 0]
      /\ UNCHANGED <<memory, bank, state_q, amo, reserved>>
  BY DEF Issue
<1>2. Memory' = Memory
  BY <1>1 DEF Memory
<1>3. \A ht \in Harts \X Tags : Result'[ht] = IF ht = own THEN 0 ELSE Result[ht]
  <2>1. \A e, f \in bank : Answerable(e) /\ Answerable(f) /\ Same(e, f) => e = f
    BY DEF AmoInv, Outstanding
  <2>2. \A e \in bank : Pending(e) => At(e) \in Harts \X Tags /\ At(e) # own
    BY <1>1 DEF AmoInv, Types, Entry, InBank, Pending, Answerable, At
  <2>3. /\ \A e \in bank : Pending(e) => Result[At(e)] = Answer(e) /\ Result'[At(e)] = Answer(e)
        /\ \A ht \in Harts \X Tags : (\A e \in bank : ~(Pending(e) /\ At(e) = ht)) =>
             Result[ht] = result[ht] /\ Result'[ht] = result'[ht]
    <3>1. /\ \A e \in bank : Pending(e) => ResultOf(bank, result)[At(e)] = Answer(e)
          /\ \A ht \in Harts \X Tags : (\A e \in bank : ~(Pending(e) /\ At(e) = ht)) =>
               ResultOf(bank, result)[ht] = result[ht]
      BY <2>1, <2>2, ResultOfBank
    <3>2. /\ \A e \in bank : Pending(e) => ResultOf(bank, result')[At(e)] = Answer(e)
          /\ \A ht \in Harts \X Tags : (\A e \in bank : ~(Pending(e) /\ At(e) = ht)) =>
               ResultOf(bank, result')[ht] = result'[ht]
      BY <2>1, <2>2, ResultOfBank
    <3>3. Result = ResultOf(bank, result) /\ Result' = ResultOf(bank, result')
      BY <1>1, ResultIs
    <3>4. QED
      BY <3>1, <3>2, <3>3
  <2>4. \A ht \in Harts \X Tags : result'[ht] = IF ht = own THEN 0 ELSE result[ht]
    BY <1>1 DEF AmoInv, Types
  <2>5. QED
    BY <2>2, <2>3, <2>4
<1>4. Result' = [Result EXCEPT ![own] = 0]
  <2>1. /\ Result = [ht \in Harts \X Tags |-> Result[ht]]
        /\ Result' = [ht \in Harts \X Tags |-> Result'[ht]]
    BY DEF Result
  <2>2. QED
    BY <1>3, <2>1
<1>5. QED
  BY <1>1, <1>2, <1>4, SameWords DEF AM!Issue

(* An edge that takes no request changes nothing that harts can tell.      *)
LEMMA EdgeStutters ==
  ASSUME AmoInv, AmoInv', ~clash, NEW ready \in BOOLEAN, NEW pready \in BOOLEAN,
         Edge(ready, pready), ~Accepts(ready)
  PROVE  UNCHANGED <<Memory, waiting, Result, reserved>>
<1>1. Idles(ready) \/ Computes(ready) \/ WritesBack(ready) \/ Ends(ready)
  BY EdgePhase
<1>2. ~Accepted(ready)
  BY <1>1 DEF Idles, Computes, WritesBack, Ends
<1>3. waiting' = waiting /\ reserved' = reserved
  BY <1>2, EdgeInput DEF AmoInv, Edge, Reserve
<1>4. Memory' = Memory
  <2>1. CASE Idles(ready)
    BY <2>1 DEF Idles, Memory
  <2>2. CASE Computes(ready)
    <3>1. amo'.op = amo.op /\ amo'.addr = amo.addr /\ amo'.b = amo.b
      BY <2>2 DEF Computes, AmoInv, Types, Busy
    <3>2. QED
      BY <2>2, <3>1 DEF Computes, Memory
  <2>3. CASE WritesBack(ready)
    <3>1. amo.result = Combine(amo.op, memory[amo.addr], amo.b)
      BY <2>3 DEF WritesBack, AmoInv, Exact, Operation
    <3>2. QED
      BY <2>3, <3>1 DEF WritesBack, Memory
  <2>4. CASE Ends(ready)
    BY <2>4 DEF Ends, Memory
  <2>5. QED
    BY <1>1, <2>1, <2>2, <2>3, <2>4
<1>5. \A e \in Sent(ready) : ~Pending(e)
  BY <1>1 DEF Idles, Computes, WritesBack, Ends, WriteBackRequest, Pending, Answerable
<1>6. \A ht \in Harts \X Tags : Result'[ht] = Result[ht]
  BY <1>5, EdgeResult
<1>7. Result' = Result
  BY <1>6 DEF Result
<1>8. QED
  BY <1>3, <1>4, <1>7

(* An edge that takes a request does to the memory what the request says.  *)
LEMMA EdgeRefines ==
  ASSUME AmoInv, AmoInv', NEW ready \in BOOLEAN, NEW pready \in BOOLEAN,
         Edge(ready, pready), Accepts(ready), ~clash'
  PROVE  AM!Next
<1> DEFINE a == Req.addr
           own == <<front, Req.tag>>
           mine == {p \in reserved : p[1] = front}
           others == {p \in reserved : p[1] # front /\ p[2] = a}
<1>1. /\ front \in Harts /\ waiting[front] # NoRequest /\ Req = waiting[front]
      /\ Req.op \in Ops /\ a \in Addrs /\ Req.data \in Word /\ Req.tag \in Tags
  BY Input DEF AmoInv, Accepts, Req
<1>2. /\ state_q = "Idle" /\ Accepted(ready) /\ Sent(ready) = {Taken} /\ Seen(ready)
      /\ ~clash /\ ~Confuses
  BY EdgeInput DEF AmoInv, Accepts, Accepted
<1>3. Memory = memory /\ memory \in [Addrs -> Word]
  BY <1>2 DEF Memory, AmoInv, Types
<1>4. waiting' = [waiting EXCEPT ![front] = NoRequest]
  BY <1>2, EdgeInput DEF AmoInv
<1>5. At(Taken) = own /\ Taken.op = Req.op /\ Taken.data = memory[a] /\ Taken.write = Writes /\ Answerable(Taken)
  BY DEF Taken, Answerable, At
<1>6. \A ht \in Harts \X Tags : ht # own => Result'[ht] = Result[ht]
  BY <1>2, <1>5, EdgeResult
<1>7. ASSUME Req.op # "store" PROVE Result' = [Result EXCEPT ![own] = Answer(Taken)]
  <2>1. Result'[own] = Answer(Taken)
    BY <1>2, <1>5, <1>7, EdgeResult DEF Pending
  <2>2. /\ Result = [ht \in Harts \X Tags |-> Result[ht]]
        /\ Result' = [ht \in Harts \X Tags |-> Result'[ht]]
    BY DEF Result
  <2>3. QED
    BY <1>6, <2>1, <2>2
<1>8. Req.op # "sc" => Answer(Taken) = memory[a]
  BY <1>5 DEF Answer
<1>9. /\ Reserve(ready)
      /\ memory' = IF Writes THEN [memory EXCEPT ![a] = Req.data] ELSE memory
      /\ IF Req.op \in AmoOps
         THEN /\ state_q' = "DoAMO"
              /\ amo' = [hart |-> front, tag |-> Req.tag, op |-> Req.op, addr |-> a,
                         b |-> Req.data, result |-> 0]
         ELSE state_q' = "Idle" /\ amo' = amo
  BY DEF Edge, Accepts
<1>10. Req.op \notin AmoOps => Memory' = memory'
  BY <1>9 DEF Memory
<1>11. AM!OfHart(front) = mine /\ AM!OfOthers(front, a) = others /\ AM!Own(front) = own
  BY <1>1 DEF AM!OfHart, AM!OfOthers, AM!Own
<1>12. CASE Req.op = "load"
  <2>1. ~Writes
    BY <1>12 DEF Writes, sc_successful
  <2>2. reserved' = reserved
    BY <1>2, <1>9, <1>12 DEF Reserve
  <2>3. AM!Load(front)
    BY <1>1, <1>3, <1>4, <1>7, <1>8, <1>9, <1>10, <1>11, <1>12, <2>1, <2>2, SameWords DEF AM!Load, AM!Take, AmoOps
  <2>4. QED
    BY <1>1, <2>3 DEF AM!Next
<1>13. CASE Req.op = "lr"
  <2>1. ~Writes
    BY <1>13 DEF Writes, sc_successful
  <2>2. reserved' = (reserved \ mine) \cup {<<front, a>>}
    BY <1>2, <1>9, <1>13 DEF Reserve
  <2>3. AM!LoadReserved(front)
    BY <1>1, <1>3, <1>4, <1>7, <1>8, <1>9, <1>10, <1>11, <1>13, <2>1, <2>2, SameWords
    DEF AM!LoadReserved, AM!Take, AmoOps
  <2>4. QED
    BY <1>1, <2>3 DEF AM!Next
<1>14. CASE Req.op = "store"
  <2>1. Writes
    BY <1>14 DEF Writes
  <2>2. reserved' = reserved \ others
    BY <1>2, <1>9, <1>14 DEF Reserve
  <2>3. Result' = Result
    <3>1. \A e \in Sent(ready) : ~Pending(e)
      BY <1>2, <1>5, <1>14 DEF Pending
    <3>2. \A ht \in Harts \X Tags : Result'[ht] = Result[ht]
      BY <1>2, <3>1, EdgeResult
    <3>3. QED
      BY <3>2 DEF Result
  <2>4. AM!Store(front)
    BY <1>1, <1>3, <1>4, <1>9, <1>10, <1>11, <1>14, <2>1, <2>2, <2>3, SameWords
    DEF AM!Store, AM!Take, AM!Write, AmoOps
  <2>5. QED
    BY <1>1, <2>4 DEF AM!Next
<1>15. CASE Req.op = "sc" /\ sc_successful
  <2>1. Writes /\ Answer(Taken) = 0
    BY <1>5, <1>15 DEF Writes, Answer, ScCode
  <2>2. reserved' = (reserved \ mine) \ others
    BY <1>2, <1>9, <1>15 DEF Reserve
  <2>3. <<front, a>> \in reserved
    <3>1. PICK h \in Harts : Owner(h)
      BY <1>2, <1>15 DEF sc_successful, AmoInv, Exact, Reserving
    <3>2. <<h, a>> \in reserved /\ Core(h) = Core(front)
      BY <1>1, <1>15, <3>1 DEF sc_successful, Owner, HasReserved
    <3>3. <<front, a>> \notin reserved => h = front
      BY <1>2, <1>15, <3>2, NoClash DEF AmoInv
    <3>4. QED
      BY <3>2, <3>3
  <2>4. reserved' = reserved \ (mine \cup others)
    BY <2>2
  <2>5. AM!ScSucceeds(front)
    BY <1>1, <1>3, <1>4, <1>7, <1>9, <1>10, <1>11, <1>15, <2>1, <2>3, <2>4, SameWords
    DEF AM!ScSucceeds, AM!Take, AM!Write, AmoOps
  <2>6. QED
    BY <1>1, <2>5 DEF AM!Next
<1>16. CASE Req.op = "sc" /\ ~sc_successful
  <2>1. ~Writes /\ Answer(Taken) = 1
    BY <1>5, <1>16 DEF Writes, Answer, ScCode
  <2>2. reserved' = reserved \ mine
    BY <1>2, <1>9, <1>16 DEF Reserve
  <2>3. AM!ScFails(front)
    BY <1>1, <1>3, <1>4, <1>7, <1>9, <1>10, <1>11, <1>16, <2>1, <2>2, SameWords
    DEF AM!ScFails, AM!Take, AmoOps
  <2>4. QED
    BY <1>1, <2>3 DEF AM!Next
<1>17. CASE Req.op \in AmoOps
  <2>1. ~Writes /\ memory' = memory
    BY <1>9, <1>17 DEF Writes, sc_successful, AmoOps
  <2>2. reserved' = reserved \ others
    BY <1>2, <1>9, <1>17 DEF Reserve, AmoOps
  <2>3. Memory' = [memory EXCEPT ![a] = Combine(Req.op, memory[a], Req.data)]
    <3>1. /\ state_q' = "DoAMO"
          /\ amo'.op = Req.op /\ amo'.addr = a /\ amo'.b = Req.data
      BY <1>9, <1>17
    <3>2. Memory' = [memory' EXCEPT ![amo'.addr] = Combine(amo'.op, memory'[amo'.addr], amo'.b)]
      BY <3>1 DEF Memory
    <3>3. QED
      BY <2>1, <3>1, <3>2
  <2>4. Req.op # "store" /\ Req.op # "sc"
    BY <1>17 DEF AmoOps
  <2>5. AM!Amo(front)
    BY <1>1, <1>3, <1>4, <1>7, <1>8, <1>11, <1>17, <2>2, <2>3, <2>4, SameWords DEF AM!Amo, AM!Take, AM!Write
  <2>6. QED
    BY <1>1, <2>5 DEF AM!Next
<1>18. QED
  BY <1>1, <1>12, <1>13, <1>14, <1>15, <1>16, <1>17 DEF Ops

LEMMA NextRefines ==
  ASSUME AmoInv, AmoInv', [Next]_vars PROVE [~clash' => AM!Next]_(AM!vars)
<1> SUFFICES ASSUME ~clash' PROVE AM!Next \/ UNCHANGED AM!vars
  OBVIOUS
<1>1. CASE UNCHANGED vars
  BY <1>1 DEF vars, AM!vars, Memory, Result
<1>2. CASE \E h \in Harts : \E r \in Requests[h] : Issue(h, r)
  <2>0. PICK h \in Harts : \E r \in Requests[h] : Issue(h, r)
    BY <1>2
  <2>1. PICK r \in Requests[h] : Issue(h, r)
    BY <2>0
  <2>2. AM!Issue(h, r)
    BY <2>1, IssueRefines
  <2>3. r \in UNION {Requests[g] : g \in Harts}
    OBVIOUS
  <2>4. QED
    BY <2>2, <2>3 DEF AM!Next
<1>3. CASE Clock
  <2>1. PICK ready \in BOOLEAN, pready \in BOOLEAN : Edge(ready, pready)
    BY <1>3 DEF Clock
  <2>2. CASE Accepts(ready)
    BY <2>1, <2>2, EdgeRefines
  <2>3. CASE ~Accepts(ready)
    <3>1. ~clash
      BY <2>1, EdgeInput DEF AmoInv
    <3>2. QED
      BY <2>1, <2>3, <3>1, EdgeStutters DEF AM!vars
  <2>4. QED
    BY <2>2, <2>3
<1>4. QED
  BY <1>1, <1>2, <1>3 DEF Next

(* Until the unit is given a request that it confuses, the bank with its   *)
(* atomics unit is an atomic memory: an operation of spatz_cache_amo.sv    *)
(* takes effect at once although it is a read and a write-back, a          *)
(* store-conditional that succeeds had its reservation, and every hart     *)
(* gets the answer to its own request; for any tiles, harts with any       *)
(* number of requests outstanding, and any use of store-conditionals.      *)
THEOREM AtomicMemoryImplemented == Spec => ImplementsAtomicMemory
<1>1. AmoInv /\ [Next]_vars => AmoInv' /\ [~clash' => AM!Next]_(AM!vars)
  BY NextInv, NextRefines
<1>2. QED
  BY <1>1, InitInv, InitRefines, PTL DEF Spec, ImplementsAtomicMemory
=============================================================================
