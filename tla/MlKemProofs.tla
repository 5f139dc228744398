---------------------------- MODULE MlKemProofs -----------------------------
(***************************************************************************)
(* What decaps gets from a ciphertext is what encaps had, as far as the    *)
(* noise and the words allow (EndsAgree, EndsAgreeIfFits), and nothing but *)
(* an encryption gets past decaps (RejectsAllOthers): for every modulus,   *)
(* word, number of layers, table of zetas, rank and compression that       *)
(* MlKemAssumption allows, every key, message and stream.                  *)
(*                                                                         *)
(* The argument.  The code adds words that it reduces now and then: while  *)
(* no word overflows, what it computes is congruent to what the field      *)
(* does, and Montgomery's and Barrett's reductions are off by a multiple   *)
(* of Q.  A layer on the way back undoes one on the way there but for a    *)
(* factor 2, so that invntt after ntt is the identity but for the factors  *)
(* the code knows; both are linear, and the products of pairs are          *)
(* commutative, associative and bilinear: NT and INT.  A matrix times a    *)
(* vector, times a second one, can be summed by rows or by columns, so     *)
(* that t * r and s * (A^T * r) have a part in common (Exchange), and what *)
(* decrypt finds beside the message's bits is Noise (Congruences): too     *)
(* little to change what a coefficient is rounded to (BitIs).              *)
(***************************************************************************)
EXTENDS MlKem, TLAPS, SequenceTheorems, FiniteSetTheorems, WellFoundedInduction

-----------------------------------------------------------------------------
(* Numbers: leasts, greatests, inductions, and the values a fold goes      *)
(* through.                                                                *)

(* Numbers have a least.                                                   *)
LEMMA LeastNat ==
  ASSUME NEW T, T \subseteq Nat, T # {}
  PROVE  \E m \in T : \A n \in T : m <= n
<1> DEFINE R == OpToRel(<, Nat)
<1>1. IsWellFoundedOn(R, Nat)
  BY NatLessThanWellFounded, Zenon
<1>2. \A x, y \in Nat : x < y => <<x, y>> \in R
  BY DEF OpToRel
<1> HIDE DEF R
<1>3. \E x \in T : \A y \in T : ~ (<<y, x>> \in R)
  BY <1>1, WFMin
<1>4. \A x, y \in Nat : ~ (y < x) => x <= y
  BY SMT
<1> QED BY <1>2, <1>3, <1>4

(* A set that has 0, and each number's successor, has every number.        *)
LEMMA SetInduction ==
  ASSUME NEW S, 0 \in S, \A n \in Nat : n \in S => n + 1 \in S
  PROVE  \A n \in Nat : n \in S
<1> DEFINE T == Nat \ S
<1> SUFFICES ASSUME T # {} PROVE FALSE
  OBVIOUS
<1>1. PICK m \in T : \A n \in T : m <= n
  <2>1. T \subseteq Nat
    OBVIOUS
  <2> HIDE DEF T
  <2> QED BY <2>1, LeastNat
<1>2. m \in Nat /\ m # 0
  BY <1>1
<1>3. m - 1 \in Nat /\ (m - 1) + 1 = m /\ ~ (m <= m - 1)
  BY <1>2, SMT
<1>4. m - 1 \in S
  BY <1>1, <1>3
<1> QED BY <1>1, <1>3, <1>4

LEMMA MaxIn ==
  ASSUME NEW n \in Nat, NEW T, T \subseteq 1 .. n, T # {}
  PROVE  Max(T) \in T
<1> DEFINE B == {n - x : x \in T}
<1>1. \A x \in T : x \in Int /\ n - x \in Nat
  BY SMT
<1>2. B \subseteq Nat /\ B # {}
  BY <1>1
<1>3. PICK m \in B : \A y \in B : m <= y
  <2> HIDE DEF B
  <2> QED BY <1>2, LeastNat
<1>4. PICK x \in T : m = n - x
  BY <1>3
<1>5. \A y \in T : x >= y
  <2>1. SUFFICES ASSUME NEW y \in T PROVE x >= y
    OBVIOUS
  <2>2. n - x <= n - y
    BY <1>3, <1>4
  <2> QED BY <1>1, <2>2, SMT
<1> QED BY <1>4, <1>5 DEF Max

(* A set of numbers has its least and, bounded, its greatest.              *)
LEMMA MinIn ==
  ASSUME NEW T, T \subseteq Nat, T # {}
  PROVE  Min(T) \in T
BY LeastNat DEF Min

(* A fold over 1 .. n takes one element after another from a set, until    *)
(* the set is empty.                                                       *)
Picks(n, pick) ==
  \A s \in SUBSET (1 .. n) : s # {} => pick[s] \in s

(* A set is smaller without one of its elements.                           *)
LEMMA Smaller ==
  ASSUME NEW n \in Nat, NEW s \in SUBSET (1 .. n), NEW x \in s
  PROVE  /\ Cardinality(s) \in Nat /\ Cardinality(s) # 0
         /\ s \ {x} \in SUBSET (1 .. n)
         /\ Cardinality(s \ {x}) = Cardinality(s) - 1
         /\ Cardinality(s) <= n
<1>1. IsFiniteSet(1 .. n) /\ Cardinality(1 .. n) = n
  BY FS_Interval, SMT
<1>2. IsFiniteSet(s) /\ Cardinality(s) <= n
  BY <1>1, FS_Subset
<1>3. Cardinality(s) \in Nat /\ Cardinality(s) # 0
  BY <1>2, FS_CardinalityType, FS_EmptySet
<1> QED BY <1>2, <1>3, FS_RemoveElement

(* The size of a set of places.                                            *)
LEMMA Cards ==
  ASSUME NEW n \in Nat, NEW s \in SUBSET (1 .. n)
  PROVE  Cardinality(s) \in Nat /\ Cardinality(s) <= n
         /\ (Cardinality(s) = 0 <=> s = {})
<1>1. IsFiniteSet(1 .. n) /\ Cardinality(1 .. n) = n
  BY FS_Interval, SMT
<1>2. IsFiniteSet(s) /\ Cardinality(s) <= n
  BY <1>1, FS_Subset
<1> QED BY <1>2, FS_CardinalityType, FS_EmptySet

(* A fold whose steps stay in T exists, and its values are in T.           *)
Folds(g, dom, base, pick, next) ==
  g = [s \in dom |-> IF s = {} THEN base ELSE next[s][g[s \ {pick[s]}]]]

LEMMA FoldExists ==
  ASSUME NEW n \in Nat, NEW pick, Picks(n, pick), NEW T, NEW base \in T, NEW next,
         \A s \in SUBSET (1 .. n), t \in T : s # {} => next[s][t] \in T
  PROVE  \E g : /\ Folds(g, SUBSET (1 .. n), base, pick, next)
                /\ \A s \in SUBSET (1 .. n) : g[s] \in T
<1> DEFINE Upto(k) == {s \in SUBSET (1 .. n) : Cardinality(s) <= k}
           S == {k \in Nat : \E g : Folds(g, Upto(k), base, pick, next)
                                    /\ \A s \in Upto(k) : g[s] \in T}
<1>1. 0 \in S
  <2> DEFINE g == [s \in Upto(0) |-> base]
  <2>1. \A s \in Upto(0) : s = {}
    <3>1. SUFFICES ASSUME NEW s \in SUBSET (1 .. n), Cardinality(s) <= 0 PROVE s = {}
      OBVIOUS
    <3>2. Cardinality(s) \in Nat /\ (Cardinality(s) = 0 <=> s = {})
      BY Cards
    <3> QED BY <3>1, <3>2, SMT
  <2>2. g = [s \in Upto(0) |-> IF s = {} THEN base ELSE next[s][g[s \ {pick[s]}]]]
    BY <2>1
  <2>3. Folds(g, Upto(0), base, pick, next) /\ \A s \in Upto(0) : g[s] \in T
    BY <2>2 DEF Folds
  <2> QED BY <2>3
<1>2. ASSUME NEW k \in Nat, k \in S PROVE k + 1 \in S
  <2>1. PICK h : Folds(h, Upto(k), base, pick, next) /\ \A s \in Upto(k) : h[s] \in T
    BY <1>2
  <2> DEFINE g == [s \in Upto(k + 1) |->
                     IF s = {} THEN base ELSE next[s][h[s \ {pick[s]}]]]
  <2>2. \A s \in Upto(k) : h[s] = IF s = {} THEN base ELSE next[s][h[s \ {pick[s]}]]
    BY <2>1 DEF Folds
  <2>3. \A s \in Upto(k) : s \in Upto(k + 1) /\ g[s] = h[s]
    <3>1. SUFFICES ASSUME NEW s \in Upto(k)
                   PROVE  s \in Upto(k + 1) /\ g[s] = h[s]
      OBVIOUS
    <3>2. Cardinality(s) \in Nat /\ Cardinality(s) <= k
      BY Cards
    <3>3. s \in Upto(k + 1)
      BY <3>2, SMT
    <3> QED BY <2>2, <3>3
  <2>4. \A s \in Upto(k + 1) : s # {} => s \ {pick[s]} \in Upto(k)
    <3>1. SUFFICES ASSUME NEW s \in Upto(k + 1), s # {}
                   PROVE  s \ {pick[s]} \in Upto(k)
      OBVIOUS
    <3>2. pick[s] \in s
      BY <3>1 DEF Picks
    <3>3. Cardinality(s) \in Nat /\ Cardinality(s) <= k + 1
      BY Cards
    <3>4. s \ {pick[s]} \in SUBSET (1 .. n) /\ Cardinality(s \ {pick[s]}) = Cardinality(s) - 1
      BY <3>2, Smaller
    <3> QED BY <3>3, <3>4, SMT
  <2>5. g = [s \in Upto(k + 1) |-> IF s = {} THEN base ELSE next[s][g[s \ {pick[s]}]]]
    BY <2>3, <2>4
  <2>6. \A s \in Upto(k + 1) : g[s] \in T
    BY <2>1, <2>4
  <2>7. Folds(g, Upto(k + 1), base, pick, next)
    BY <2>5 DEF Folds
  <2>8. k + 1 \in Nat
    BY SMT
  <2> HIDE DEF g, Upto
  <2>9. \E f : Folds(f, Upto(k + 1), base, pick, next)
               /\ \A s \in Upto(k + 1) : f[s] \in T
    BY <2>6, <2>7
  <2> QED BY <2>8, <2>9
<1>3. n \in S
  <2> HIDE DEF S
  <2> QED BY <1>1, <1>2, SetInduction
<1>4. Upto(n) = SUBSET (1 .. n)
  BY Cards
<1> QED BY <1>3, <1>4

(* FoldLeft takes the last place first, FoldRight the first.               *)
LEMMA LastPick ==
  ASSUME NEW n \in Nat
  PROVE  Picks(n, [s \in SUBSET (1 .. n) |-> Max(s)])
BY MaxIn DEF Picks

LEMMA FirstPick ==
  ASSUME NEW n \in Nat
  PROVE  Picks(n, [s \in SUBSET (1 .. n) |-> Min(s)])
<1>1. \A s \in SUBSET (1 .. n) : s \subseteq Nat
  BY SMT
<1> QED BY <1>1, MinIn DEF Picks

(* Intervals that a fold takes apart. *)
LEMMA Ends ==
  ASSUME NEW a \in Int, NEW b \in Int, a <= b
  PROVE  /\ Max(a .. b) = b /\ (a .. b) \ {b} = a .. b - 1
         /\ Min(a .. b) = a /\ (a .. b) \ {a} = a + 1 .. b
         /\ a .. b # {}
<1>1. b \in a .. b /\ a \in a .. b
  BY SMT
<1>2. \A x \in a .. b : x \in Int /\ a <= x /\ x <= b
  BY SMT
<1> DEFINE S == a .. b
           m == CHOOSE t \in S : \A s \in S : t >= s
           l == CHOOSE t \in S : \A s \in S : t <= s
<1>3. m \in S /\ \A s \in S : m >= s
  BY <1>1, <1>2
<1>4. l \in S /\ \A s \in S : l <= s
  BY <1>1, <1>2
<1>5. Max(S) = m /\ Min(S) = l
  BY DEF Max, Min
<1> HIDE DEF m, l
<1>6. m = b /\ l = a
  BY <1>1, <1>2, <1>3, <1>4, SMT
<1>7. (a .. b) \ {b} = a .. b - 1 /\ (a .. b) \ {a} = a + 1 .. b
  BY SMT
<1> QED BY <1>1, <1>5, <1>6, <1>7

(* The values a fold passes through. *)
Runs(r, n, T, base) == r \in [0 .. n -> T] /\ r[0] = base

(* What is true of 0, and of a number's successor when of the number, up   *)
(* to n.                                                                   *)
LEMMA UptoInduction ==
  ASSUME NEW n \in Nat, NEW S, 0 \in S, \A k \in 0 .. n - 1 : k \in S => k + 1 \in S
  PROVE  \A k \in 0 .. n : k \in S
<1> DEFINE T == {k \in Nat : k <= n => k \in S}
<1>1. 0 \in T
  BY SMT
<1>2. \A k \in Nat : k \in T => k + 1 \in T
  <2>1. SUFFICES ASSUME NEW k \in Nat, k \in T, k + 1 <= n PROVE k + 1 \in S
    BY SMT
  <2>2. k \in 0 .. n - 1 /\ k <= n
    BY <2>1, SMT
  <2> QED BY <2>1, <2>2
<1>3. \A k \in Nat : k \in T
  <2> HIDE DEF T
  <2> QED BY <1>1, <1>2, SetInduction
<1> QED BY <1>3, SMT

(* Division.                                                               *)
LEMMA DivMod ==
  ASSUME NEW x \in Int, NEW m \in Nat, m > 0
  PROVE  /\ x \div m \in Int /\ x % m \in 0 .. m - 1
         /\ x = m * (x \div m) + (x % m)
BY SMT

LEMMA Times2 ==
  ASSUME NEW a \in Int, NEW b \in Int, NEW m \in Nat, a <= b
  PROVE  m * a <= m * b
BY SMT

(* A hint moves its coefficient to another bucket.                         *)
LEMMA Monotone ==
  ASSUME NEW a \in Int, NEW b \in Int, NEW m \in Nat, m > 0
  PROVE  /\ m * a <= m * b <=> a <= b
         /\ (m * a) \div m = a
<1>1. m * a <= m * b <=> a <= b
  BY SMT
<1> DEFINE x == m * a
<1>2. x \in Int
  BY SMT
<1>3. x \div m \in Int /\ x % m \in 0 .. m - 1 /\ x = m * (x \div m) + (x % m)
  BY <1>2, DivMod
<1> DEFINE d == x \div m
           e == x % m
<1>4. d \in Int /\ e \in 0 .. m - 1 /\ m * a = m * d + e
  BY <1>3
<1> HIDE DEF d, e
<1>5. CASE d < a
  <2>1. m * (d + 1) <= m * a
    BY <1>4, <1>5, Times2
  <2>2. m * (d + 1) = m * d + m /\ m * d \in Int
    BY <1>4, SMT
  <2> QED BY <1>4, <2>1, <2>2, SMT
<1>6. CASE a < d
  <2>1. m * (a + 1) <= m * d
    BY <1>4, <1>6, Times2
  <2>2. m * (a + 1) = m * a + m /\ m * d \in Int /\ m * a \in Int
    BY <1>4, SMT
  <2> QED BY <1>4, <2>1, <2>2, SMT
<1>7. d = a
  BY <1>4, <1>5, <1>6, SMT
<1> QED BY <1>1, <1>7 DEF d

(* Congruence.                                                             *)
Cong(m, a, b) == \E k \in Int : a = b + k * m

LEMMA CongRefl ==
  ASSUME NEW m \in Int, NEW a \in Int
  PROVE  Cong(m, a, a)
<1>1. a = a + 0 * m /\ 0 \in Int
  BY SMT
<1> QED BY <1>1 DEF Cong

LEMMA CongSym ==
  ASSUME NEW m \in Int, NEW a \in Int, NEW b \in Int, Cong(m, a, b)
  PROVE  Cong(m, b, a)
<1>1. PICK k \in Int : a = b + k * m
  BY DEF Cong
<1>2. b = a + (-k) * m /\ -k \in Int
  BY <1>1, SMT
<1> QED BY <1>2 DEF Cong

LEMMA CongTrans ==
  ASSUME NEW m \in Int, NEW a \in Int, NEW b \in Int, NEW c \in Int,
         Cong(m, a, b), Cong(m, b, c)
  PROVE  Cong(m, a, c)
<1>1. PICK k \in Int : a = b + k * m
  BY DEF Cong
<1>2. PICK j \in Int : b = c + j * m
  BY DEF Cong
<1>3. a = c + (k + j) * m /\ k + j \in Int
  BY <1>1, <1>2, SMT
<1> QED BY <1>3 DEF Cong

LEMMA CongAdd ==
  ASSUME NEW m \in Int, NEW a \in Int, NEW b \in Int, NEW c \in Int, NEW d \in Int,
         Cong(m, a, b), Cong(m, c, d)
  PROVE  Cong(m, a + c, b + d) /\ Cong(m, a - c, b - d)
<1>1. PICK k \in Int : a = b + k * m
  BY DEF Cong
<1>2. PICK j \in Int : c = d + j * m
  BY DEF Cong
<1>3. /\ a + c = (b + d) + (k + j) * m /\ k + j \in Int
      /\ a - c = (b - d) + (k - j) * m /\ k - j \in Int
  BY <1>1, <1>2, SMT
<1> QED BY <1>3 DEF Cong

LEMMA CongTimes ==
  ASSUME NEW m \in Int, NEW a \in Int, NEW b \in Int, NEW c \in Int,
         Cong(m, a, b)
  PROVE  Cong(m, c * a, c * b) /\ Cong(m, a * c, b * c)
<1>1. PICK k \in Int : a = b + k * m
  BY DEF Cong
<1>2. c * a = c * b + (c * k) * m /\ a * c = b * c + (c * k) * m /\ c * k \in Int
  BY <1>1, SMT
<1> QED BY <1>2 DEF Cong

LEMMA CongMod ==
  ASSUME NEW m \in Nat, m > 0, NEW a \in Int
  PROVE  Cong(m, a % m, a) /\ Cong(m, a, a % m)
<1>1. a \div m \in Int /\ a % m \in 0 .. m - 1 /\ a = m * (a \div m) + (a % m)
  BY DivMod
<1> DEFINE d == a \div m
           e == a % m
<1>2. d \in Int /\ e \in Int /\ a = m * d + e
  BY <1>1, SMT
<1> HIDE DEF d, e
<1>3. a = e + d * m /\ e = a + (-d) * m /\ -d \in Int
  BY <1>2, SMT
<1>4. Cong(m, e, a) /\ Cong(m, a, e)
  BY <1>2, <1>3 DEF Cong
<1> QED BY <1>4 DEF e

LEMMA SmallCong ==
  ASSUME NEW m \in Nat, m > 0, NEW a \in 0 .. m - 1, NEW b \in 0 .. m - 1, Cong(m, a, b)
  PROVE  a = b
<1>1. PICK k \in Int : a = b + k * m
  BY DEF Cong
<1>2. a \in Int /\ b \in Int /\ 0 <= a /\ a < m /\ 0 <= b /\ b < m
  BY SMT
<1>3. CASE k >= 1
  <2>1. m * 1 <= m * k /\ m * 1 = m /\ m * k = k * m
    BY <1>3, Times2, SMT
  <2> QED BY <1>1, <1>2, <2>1, SMT
<1>4. CASE k <= -1
  <2>1. m * k <= m * (-1) /\ m * (-1) = -m /\ m * k = k * m
    BY <1>4, Times2, SMT
  <2> QED BY <1>1, <1>2, <2>1, SMT
<1>5. CASE k = 0
  BY <1>1, <1>2, <1>5, SMT
<1> QED BY <1>3, <1>4, <1>5, SMT

(* The quotient and the remainder of a multiple and less than the divisor. *)
LEMMA DivIs ==
  ASSUME NEW m \in Nat, m > 0, NEW q \in Int, NEW r \in 0 .. m - 1, NEW x \in Int,
         x = m * q + r
  PROVE  x \div m = q /\ (x % m) = r
<1> DEFINE d == x \div m
           e == x % m
<1>1. d \in Int /\ e \in 0 .. m - 1 /\ m * q + r = m * d + e
  BY DivMod
<1> HIDE DEF d, e
<1>2. r \in Int /\ 0 <= r /\ r < m /\ e \in Int /\ 0 <= e /\ e < m
  BY <1>1, SMT
<1>3. CASE d < q
  <2>1. m * (d + 1) <= m * q
    BY <1>1, <1>3, Times2
  <2>2. m * (d + 1) = m * d + m /\ m * d \in Int /\ m * q \in Int
    BY <1>1, SMT
  <2> QED BY <1>1, <1>2, <2>1, <2>2, SMT
<1>4. CASE q < d
  <2>1. m * (q + 1) <= m * d
    BY <1>1, <1>4, Times2
  <2>2. m * (q + 1) = m * q + m /\ m * d \in Int /\ m * q \in Int
    BY <1>1, SMT
  <2> QED BY <1>1, <1>2, <2>1, <2>2, SMT
<1>5. d = q
  BY <1>1, <1>3, <1>4, SMT
<1>6. e = r
  <2>1. m * q \in Int
    BY SMT
  <2> QED BY <1>1, <1>2, <1>5, <2>1, SMT
<1> QED BY <1>5, <1>6 DEF d, e

-----------------------------------------------------------------------------
(* reduce.rs: words, and what they are modulo Q.                           *)

(* Numbers modulo Q.                                                       *)
Is(x, y) == Cong(Q, x, y)
Field == 0 .. Q - 1

(* What a Montgomery product takes away.                                   *)
WINV == -((QINV * Q) \div WORD)
Add(a, b) == (a + b) % Q
Sub(a, b) == (a - b) % Q
Mul(a, b) == ((a * b) * WINV) % Q

(* The parameters.                                                         *)
LEMMA Ring ==
  ASSUME MlKemRingAssumption
  PROVE  /\ Q \in Nat /\ Q > 1 /\ WORD \in Nat /\ WORD > 0
         /\ LAYERS \in Nat /\ LAYERS > 0 /\ QINV \in Nat /\ V \in Nat
         /\ 2 * ((LAYERS + 2) * Q) < WORD /\ 6 * Q < WORD
         /\ Q < FIELD /\ FIELD \in Nat /\ SHIFT \in Nat
<1>1. /\ Q \in Nat \ {0} /\ WORD \in Nat \ {0} /\ LAYERS \in Nat \ {0} /\ QINV \in Nat \ {0}
      /\ V \in Nat \ {0} /\ FIELD \in Nat \ {0} /\ 1 < Q /\ (QINV * Q) % WORD = 1
      /\ 2 * (LAYERS + 2) * Q < WORD /\ Q < FIELD /\ SHIFT \in Nat \ {0}
  BY DEF MlKemRingAssumption
<1>2. 2 * (LAYERS + 2) * Q = 2 * ((LAYERS + 2) * Q) /\ (LAYERS + 2) * Q >= 3 * Q
  <2>1. LAYERS + 2 \in Int /\ 3 <= LAYERS + 2 /\ Q \in Nat
    BY <1>1, SMT
  <2>2. Q * 3 <= Q * (LAYERS + 2)
    BY <2>1, Times2
  <2> QED BY <1>1, <2>1, <2>2, SMT
<1>4. LAYERS > 0 /\ Q > 1 /\ WORD > 0 /\ 6 * Q < WORD
  <2>1. (LAYERS + 2) * Q \in Int
    BY <1>1, SMT
  <2> QED BY <1>1, <1>2, <2>1, SMT
<1> QED BY <1>1, <1>2, <1>4

(* Congruence modulo Q.                                                    *)
LEMMA IsRefl ==
  ASSUME MlKemRingAssumption, NEW a \in Int
  PROVE  Is(a, a)
BY Ring, CongRefl, SMT DEF Is

LEMMA IsSym ==
  ASSUME MlKemRingAssumption, NEW a \in Int, NEW b \in Int, Is(a, b)
  PROVE  Is(b, a)
<1>1. Q \in Int
  BY Ring, SMT
<1> QED BY <1>1, CongSym DEF Is

LEMMA IsTrans ==
  ASSUME MlKemRingAssumption, NEW a \in Int, NEW b \in Int, NEW c \in Int,
         Is(a, b), Is(b, c)
  PROVE  Is(a, c)
<1>1. Q \in Int
  BY Ring, SMT
<1> QED BY <1>1, CongTrans DEF Is

LEMMA IsMeet ==
  ASSUME MlKemRingAssumption, NEW a \in Int, NEW b \in Int, NEW c \in Int,
         Is(a, c), Is(b, c)
  PROVE  Is(a, b)
BY IsSym, IsTrans

LEMMA IsTimes ==
  ASSUME MlKemRingAssumption, NEW a \in Int, NEW b \in Int, NEW c \in Int, Is(a, b)
  PROVE  Is(c * a, c * b) /\ Is(a * c, b * c)
<1>1. Q \in Int
  BY Ring, SMT
<1> QED BY <1>1, CongTimes DEF Is

LEMMA IsPlus ==
  ASSUME MlKemRingAssumption, NEW a \in Int, NEW b \in Int, NEW c \in Int, NEW d \in Int,
         Is(a, b), Is(c, d)
  PROVE  Is(a + c, b + d) /\ Is(a - c, b - d)
<1>1. Q \in Int
  BY Ring, SMT
<1> QED BY <1>1, CongAdd DEF Is

LEMMA IsMod ==
  ASSUME MlKemRingAssumption, NEW a \in Int
  PROVE  Is(a % Q, a) /\ Is(a, a % Q) /\ (a % Q) \in Field /\ (a % Q) \in Int
<1>1. Q \in Nat /\ Q > 0
  BY Ring, SMT
<1>2. Cong(Q, a % Q, a) /\ Cong(Q, a, a % Q)
  BY <1>1, CongMod
<1>3. (a % Q) \in 0 .. Q - 1
  BY <1>1, DivMod
<1> QED BY <1>1, <1>2, <1>3, SMT DEF Is, Field

(* Congruent numbers have one remainder.                                   *)
LEMMA IsEqual ==
  ASSUME MlKemRingAssumption, NEW a \in Int, NEW b \in Int, Is(a, b)
  PROVE  a % Q = b % Q
<1> DEFINE x == a % Q
           y == b % Q
<1>1. x \in Field /\ y \in Field /\ x \in Int /\ y \in Int /\ Is(x, a) /\ Is(b, y)
  BY IsMod
<1> HIDE DEF x, y
<1>2. Is(x, b)
  BY <1>1, IsTrans
<1>3. Is(x, y)
  BY <1>1, <1>2, IsTrans
<1>4. Q \in Nat /\ Q > 0
  BY Ring, SMT
<1>5. x = y
  BY <1>1, <1>3, <1>4, SmallCong DEF Is, Field
<1> QED BY <1>5 DEF x, y

LEMMA FieldInt ==
  ASSUME MlKemRingAssumption
  PROVE  /\ Q \in Int /\ Q \in Nat /\ Q > 1 /\ WORD \in Int
         /\ \A x \in Field : x \in Int /\ 0 <= x /\ x < Q /\ x % Q = x
<1>1. Q \in Int /\ Q \in Nat /\ Q > 1 /\ WORD \in Int
  BY Ring, SMT
<1>2. ASSUME NEW x \in Field PROVE x \in Int /\ 0 <= x /\ x < Q /\ x % Q = x
  BY <1>1, SMT DEF Field
<1> QED BY <1>1, <1>2

LEMMA FieldEqual ==
  ASSUME MlKemRingAssumption, NEW a \in Field, NEW b \in Field, Is(a, b)
  PROVE  a = b
BY FieldInt, IsEqual

(* A word has a reciprocal: QINV * Q is one more than a multiple of it.    *)
LEMMA WordInverse ==
  ASSUME MlKemRingAssumption
  PROVE  WINV \in Int /\ Is(WINV * WORD, 1)
<1>1. /\ Q \in Nat /\ WORD \in Nat /\ WORD > 0 /\ QINV \in Nat
      /\ (QINV * Q) % WORD = 1
  BY Ring DEF MlKemRingAssumption
<1> DEFINE p == QINV * Q
           k == p \div WORD
<1>2. p \in Int
  BY <1>1, SMT
<1>3. k \in Int /\ p = WORD * k + (p % WORD)
  BY <1>1, <1>2, DivMod
<1>4. WINV = -k
  BY DEF WINV
<1> HIDE DEF k
<1>5. (-k) * WORD = 1 + (-QINV) * Q /\ -k \in Int /\ -QINV \in Int
  <2>1. QINV * Q = WORD * k + 1
    BY <1>1, <1>3
  <2> QED BY <1>1, <1>3, <2>1, SMT
<1> QED BY <1>4, <1>5 DEF Is, Cong

(* What is a word times x is x times the reciprocal.                       *)
LEMMA Unword ==
  ASSUME MlKemRingAssumption, NEW x \in Int, NEW y \in Int, Is(WORD * x, y)
  PROVE  Is(x, y * WINV)
<1>1. WINV \in Int /\ Is(WINV * WORD, 1) /\ WORD \in Int
  BY WordInverse, Ring, SMT
<1> DEFINE w == WINV * WORD
           p == WORD * x
           e == 1
<1>2. w \in Int /\ p \in Int /\ e \in Int /\ WINV * p = w * x /\ e * x = x /\ WINV * p \in Int
      /\ w * x \in Int
  BY <1>1, SMT
<1>3. Is(p, y) /\ Is(w, e)
  BY <1>1
<1> HIDE DEF w, p, e
<1>4. Is(p * WINV, y * WINV)
  BY <1>1, <1>2, <1>3, IsTimes
<1>5. Is(w * x, e * x)
  BY <1>2, <1>3, IsTimes
<1> DEFINE u == w * x
           z == y * WINV
<1>6. u \in Int /\ z \in Int /\ p * WINV = u
  BY <1>1, <1>2, SMT
<1>7. Is(u, z) /\ Is(u, x)
  BY <1>2, <1>4, <1>5, <1>6
<1> HIDE DEF u, z
<1>8. Is(x, u)
  BY <1>6, <1>7, IsSym
<1>9. Is(x, z)
  BY <1>6, <1>7, <1>8, IsTrans
<1> QED BY <1>9 DEF z

(* What wraps is the same number modulo a word, and the same number when   *)
(* a word holds it.                                                        *)
LEMMA WrapIs ==
  ASSUME MlKemRingAssumption, NEW x \in Int
  PROVE  /\ Wrap(x) \in Int /\ Cong(WORD, Wrap(x), x)
         /\ -WORD <= 2 * Wrap(x) /\ 2 * Wrap(x) <= WORD
         /\ -WORD < 2 * x /\ 2 * x < WORD => Wrap(x) = x
<1> DEFINE h == WORD \div 2
           s == x + h
           m == s % WORD
<1>1. WORD \in Nat /\ WORD > 0 /\ h \in Int /\ s \in Int /\ 2 * h <= WORD /\ WORD <= 2 * h + 1
  BY Ring, SMT
<1>2. Cong(WORD, m, s) /\ m \in 0 .. WORD - 1 /\ m \in Int
  <2> HIDE DEF s, h
  <2>1. Cong(WORD, m, s) /\ m \in 0 .. WORD - 1
    BY <1>1, CongMod, DivMod
  <2> QED BY <1>1, <2>1, SMT
<1>3. Wrap(x) = m - h
  BY DEF Wrap
<1>4. -WORD < 2 * x /\ 2 * x < WORD => m = s
  <2>1. SUFFICES ASSUME -WORD < 2 * x, 2 * x < WORD PROVE m = s
    OBVIOUS
  <2>2. s \in 0 .. WORD - 1
    <3> HIDE DEF h
    <3> QED BY <1>1, <2>1, SMT
  <2> HIDE DEF s
  <2> QED BY <1>1, <1>2, <2>2, SmallCong
<1>5. Cong(WORD, h, h)
  <2> HIDE DEF h
  <2> QED BY <1>1, CongRefl
<1> HIDE DEF h
<1>6. s - h = x /\ m - h \in Int
  <2> HIDE DEF m
  <2> QED BY <1>1, <1>2, SMT
<1> HIDE DEF m, s
<1>7. Cong(WORD, m - h, s - h)
  BY <1>1, <1>2, <1>5, CongAdd
<1>8. -WORD <= 2 * (m - h) /\ 2 * (m - h) <= WORD
  BY <1>1, <1>2, SMT
<1>9. -WORD < 2 * x /\ 2 * x < WORD => m - h = x
  BY <1>4, <1>6
<1> QED BY <1>3, <1>6, <1>7, <1>8, <1>9

(* Numbers within a bound; a word is within half of WORD.                  *)
Near(b) == {x \in Int : -b <= x /\ x <= b}
Half    == {x \in Int : -WORD <= 2 * x /\ 2 * x <= WORD}
Inside  == {x \in Int : -WORD < 2 * x /\ 2 * x < WORD}

LEMMA ProductBound ==
  ASSUME NEW m \in Nat, NEW n \in Nat, NEW a \in Near(m), NEW b \in Near(n)
  PROVE  a * b \in Int /\ m * n \in Nat /\ -(m * n) <= a * b /\ a * b <= m * n
<1>1. a \in Int /\ b \in Int /\ -m <= a /\ a <= m /\ -n <= b /\ b <= n
  BY DEF Near
<1>2. a * b \in Int /\ m * n \in Nat
  BY <1>1, SMT
<1>3. /\ (m - a) * (n + b) >= 0 /\ (m + a) * (n - b) >= 0
      /\ (m - a) * (n - b) >= 0 /\ (m + a) * (n + b) >= 0
  <2>1. m - a \in Nat /\ m + a \in Nat /\ n - b \in Nat /\ n + b \in Nat
    BY <1>1, SMT
  <2>2. \A x, y \in Nat : x * y >= 0
    BY SMT
  <2> QED BY <2>1, <2>2
<1>4. /\ (m - a) * (n + b) = m * n + m * b - a * n - a * b
      /\ (m + a) * (n - b) = m * n - m * b + a * n - a * b
      /\ (m - a) * (n - b) = m * n - m * b - a * n + a * b
      /\ (m + a) * (n + b) = m * n + m * b + a * n + a * b
      /\ m * b \in Int /\ a * n \in Int
  BY <1>1, SMT
<1> QED BY <1>2, <1>3, <1>4, SMT

(* Montgomery's product of two words: a word, no number wraps, and one     *)
(* within the modulus if one of the two is.                                *)
LEMMA FqmulIs ==
  ASSUME MlKemRingAssumption, NEW a \in Half, NEW b \in Half
  PROVE  /\ fqmul(a, b) \in Int /\ fqmul(a, b) \in Half
         /\ Is(fqmul(a, b), (a * b) * WINV)
         /\ a \in Near(Q) \/ b \in Near(Q) => fqmul(a, b) \in Near(Q)
<1> DEFINE p == a * b
           u == Wrap(p)
           t == Wrap(u * QINV)
           x == p - t * Q
           y == x \div WORD
<1>1. /\ Q \in Nat /\ Q > 1 /\ WORD \in Nat /\ WORD > 0 /\ QINV \in Nat /\ 6 * Q < WORD
      /\ (QINV * Q) % WORD = 1
  BY Ring DEF MlKemRingAssumption
<1>2. a \in Int /\ b \in Int /\ p \in Int /\ 4 * p <= WORD * WORD /\ -(WORD * WORD) <= 4 * p
      /\ WORD * WORD \in Int
  <2>1. 2 * a \in Near(WORD) /\ 2 * b \in Near(WORD) /\ a \in Int /\ b \in Int
    BY <1>1, SMT DEF Half, Near
  <2>2. -(WORD * WORD) <= (2 * a) * (2 * b) /\ (2 * a) * (2 * b) <= WORD * WORD
    BY <1>1, <2>1, ProductBound
  <2>3. (2 * a) * (2 * b) = 4 * p /\ p \in Int /\ WORD * WORD \in Int
    BY <1>1, <2>1, SMT
  <2> QED BY <2>1, <2>2, <2>3
<1>3. fqmul(a, b) = Wrap(y)
  BY DEF fqmul, montgomery_reduce
<1>4. a \in Near(Q) \/ b \in Near(Q) => 2 * p <= Q * WORD /\ -(Q * WORD) <= 2 * p
  <2>1. CASE a \in Near(Q)
    <3>1. 2 * b \in Near(WORD) /\ b \in Int
      BY <1>1, SMT DEF Half, Near
    <3>2. -(Q * WORD) <= a * (2 * b) /\ a * (2 * b) <= Q * WORD
      BY <1>1, <2>1, <3>1, ProductBound
    <3>3. a * (2 * b) = 2 * p
      BY <1>2, SMT
    <3> QED BY <3>2, <3>3
  <2>2. CASE b \in Near(Q)
    <3>1. 2 * a \in Near(WORD) /\ a \in Int
      BY <1>1, SMT DEF Half, Near
    <3>2. -(WORD * Q) <= (2 * a) * b /\ (2 * a) * b <= WORD * Q
      BY <1>1, <2>2, <3>1, ProductBound
    <3>3. (2 * a) * b = 2 * p /\ WORD * Q = Q * WORD
      BY <1>1, <1>2, SMT
    <3> QED BY <3>2, <3>3
  <2> QED BY <2>1, <2>2
<1> DEFINE pn == a \in Near(Q) \/ b \in Near(Q)
<1>40. pn => 2 * p <= Q * WORD /\ -(Q * WORD) <= 2 * p
  BY <1>4
<1> HIDE DEF p, pn
<1>5. u \in Int /\ Cong(WORD, u, p)
  BY <1>2, WrapIs
<1> HIDE DEF u
<1>6. u * QINV \in Int
  BY <1>1, <1>5, SMT
<1>7. t \in Int /\ Cong(WORD, t, u * QINV) /\ -WORD <= 2 * t /\ 2 * t <= WORD
  BY <1>6, WrapIs
<1> HIDE DEF t
<1> DEFINE g == QINV * Q
<1>8. g \in Int /\ Cong(WORD, g, 1)
  <2>1. g \in Int
    BY <1>1, SMT
  <2>2. g % WORD = 1
    BY <1>1
  <2> HIDE DEF g
  <2>3. Cong(WORD, g, g % WORD)
    BY <1>1, <2>1, CongMod
  <2> QED BY <2>1, <2>2, <2>3
<1>9. Cong(WORD, t * Q, p)
  <2>1. WORD \in Int /\ Q \in Int /\ 1 \in Int
    BY <1>1, SMT
  <2>2. Cong(WORD, t * Q, (u * QINV) * Q)
    BY <1>6, <1>7, <2>1, CongTimes
  <2>3. Cong(WORD, u * g, u * 1)
    BY <1>5, <1>8, <2>1, CongTimes
  <2>4. (u * QINV) * Q = u * g /\ u * 1 = u /\ u * g \in Int /\ t * Q \in Int
    BY <1>1, <1>5, <1>7, SMT
  <2>5. Cong(WORD, u * g, p)
    BY <1>2, <1>5, <2>1, <2>3, <2>4, CongTrans
  <2>6. Cong(WORD, t * Q, u * g)
    BY <2>2, <2>4
  <2> QED BY <1>2, <2>1, <2>4, <2>5, <2>6, CongTrans
<1>10. t * Q \in Int /\ 2 * (t * Q) <= Q * WORD /\ -(Q * WORD) <= 2 * (t * Q) /\ Q * WORD \in Int
  <2>1. 2 * t \in Near(WORD) /\ Q \in Near(Q)
    BY <1>1, <1>7, SMT DEF Near
  <2>2. -(WORD * Q) <= (2 * t) * Q /\ (2 * t) * Q <= WORD * Q
    BY <1>1, <2>1, ProductBound
  <2>3. (2 * t) * Q = 2 * (t * Q) /\ WORD * Q = Q * WORD /\ t * Q \in Int /\ Q * WORD \in Int
    BY <1>1, <1>7, SMT
  <2> QED BY <2>2, <2>3
<1>11. x \in Int /\ x = WORD * y /\ y \in Int
  <2>1. PICK k \in Int : t * Q = p + k * WORD
    BY <1>9 DEF Cong
  <2>2. x = WORD * (-k) /\ -k \in Int /\ x \in Int
    BY <1>1, <1>2, <1>10, <2>1, SMT
  <2>3. (WORD * (-k)) \div WORD = -k
    <3>1. 0 \in Int
      BY SMT
    <3> QED BY <1>1, <2>2, <3>1, Monotone
  <2> HIDE DEF x
  <2>4. y = -k
    BY <2>2, <2>3
  <2> QED BY <2>2, <2>4
<1>12. x = p - t * Q
  OBVIOUS
<1> HIDE DEF x, y
<1>13. -WORD < 2 * y /\ 2 * y < WORD
  <2> DEFINE h == WORD * WORD
             q == Q * WORD
             r == t * Q
  <2>1. h \in Int /\ q \in Int /\ r \in Int /\ 4 * p <= h /\ -h <= 4 * p /\ 2 * r <= q /\ -q <= 2 * r
    BY <1>2, <1>10
  <2>2. x = p - r
    BY <1>12
  <2>3. 4 * x <= h + 2 * q /\ -(h + 2 * q) <= 4 * x
    <3> HIDE DEF h, q, r
    <3> QED BY <1>2, <1>11, <2>1, <2>2, SMT
  <2>4. h + 2 * q = WORD * (WORD + 2 * Q) /\ 4 * x = WORD * (4 * y)
        /\ -(h + 2 * q) = WORD * (-(WORD + 2 * Q))
    BY <1>1, <1>11, SMT
  <2>5. WORD * (4 * y) <= WORD * (WORD + 2 * Q) /\ WORD * (-(WORD + 2 * Q)) <= WORD * (4 * y)
    BY <2>3, <2>4
  <2>6. 4 * y \in Int /\ WORD + 2 * Q \in Int /\ -(WORD + 2 * Q) \in Int
    BY <1>1, <1>11, SMT
  <2>7. 4 * y <= WORD + 2 * Q /\ -(WORD + 2 * Q) <= 4 * y
    BY <1>1, <2>5, <2>6, Monotone
  <2> QED BY <1>1, <1>11, <2>7, SMT
<1>14. Wrap(y) = y
  BY <1>11, <1>13, WrapIs
<1>15. Is(y, p * WINV)
  <2>1. WORD * y = p + (-t) * Q /\ -t \in Int
    BY <1>1, <1>2, <1>7, <1>11, <1>12, SMT
  <2>2. Is(WORD * y, p)
    BY <2>1 DEF Is, Cong
  <2> QED BY <1>2, <1>11, <2>2, Unword
<1>16. pn => y \in Near(Q)
  <2>1. SUFFICES ASSUME pn PROVE y \in Near(Q)
    OBVIOUS
  <2> DEFINE q == Q * WORD
             r == t * Q
  <2>2. q \in Int /\ r \in Int /\ 2 * p <= q /\ -q <= 2 * p /\ 2 * r <= q /\ -q <= 2 * r
        /\ x = p - r
    BY <1>10, <1>12, <1>40, <2>1
  <2>3. x <= q /\ -q <= x
    <3> HIDE DEF q, r
    <3> QED BY <1>2, <1>11, <2>2, SMT
  <2>4. q = WORD * Q /\ -q = WORD * (-Q) /\ Q \in Int /\ -Q \in Int
    BY <1>1, SMT
  <2>5. WORD * y <= WORD * Q /\ WORD * (-Q) <= WORD * y
    BY <1>11, <2>3, <2>4
  <2>6. y <= Q /\ -Q <= y
    BY <1>1, <1>11, <2>4, <2>5, Monotone
  <2> QED BY <1>11, <2>6 DEF Near
<1>17. y \in Half
  BY <1>1, <1>11, <1>13, SMT DEF Half
<1> QED BY <1>3, <1>11, <1>14, <1>15, <1>16, <1>17 DEF p, pn

(* Barrett's reduction: the remainder nearest to 0, or one next to it.     *)
LEMMA BarrettIs ==
  ASSUME MlKemRingAssumption, NEW a \in Half
  PROVE  /\ barrett_reduce(a) \in Int /\ Is(barrett_reduce(a), a)
         /\ -(Q + 1) <= 2 * barrett_reduce(a) /\ 2 * barrett_reduce(a) <= Q + 1
         /\ barrett_reduce(a) \in Near(Q - 1)
<1> DEFINE S == 2 ^ SHIFT
           h == 2 ^ (SHIFT - 1)
           d == V * Q - S
           n == V * a + h
           t == n \div S
           r == a - t * Q
<1>1. Q \in Nat /\ Q > 1 /\ WORD \in Nat /\ WORD > 0 /\ V \in Nat /\ 6 * Q < WORD /\ SHIFT \in Nat
  BY Ring
<1>2. S \in Nat /\ S > 0 /\ h \in Nat /\ S = 2 * h
  <2>1. SHIFT \in Nat \ {0} /\ \A k \in 0 .. SHIFT : 2 ^ k \in Nat \ {0} /\ 2 ^ (k + 1) = 2 * 2 ^ k
    BY DEF MlKemRingAssumption
  <2>2. SHIFT \in 0 .. SHIFT /\ SHIFT - 1 \in 0 .. SHIFT /\ (SHIFT - 1) + 1 = SHIFT
    BY <2>1, SMT
  <2>3. S \in Nat \ {0} /\ h \in Nat \ {0} /\ 2 ^ ((SHIFT - 1) + 1) = 2 * h
    BY <2>1, <2>2
  <2> QED BY <2>2, <2>3, SMT
<1>3. V * Q \in Int /\ WORD * (V * Q - S) \in -S .. S
  <2>1. WORD * (V * Q - 2 ^ SHIFT) \in -(2 ^ SHIFT) .. 2 ^ SHIFT
    BY DEF MlKemRingAssumption
  <2> QED BY <1>1, <2>1, SMT
<1>4. barrett_reduce(a) = Wrap(r)
  BY DEF barrett_reduce
<1> HIDE DEF S, h
<1>5. d \in Int /\ -S <= WORD * d /\ WORD * d <= S /\ V * Q = S + d /\ WORD * d \in Int
  BY <1>1, <1>2, <1>3, SMT
<1> HIDE DEF d
<1>6. a \in Int /\ -WORD <= 2 * a /\ 2 * a <= WORD
  BY DEF Half
<1>7. n \in Int /\ V * a \in Int
  BY <1>1, <1>2, <1>6, SMT
<1>8. t \in Int /\ n % S \in 0 .. S - 1 /\ n = S * t + (n % S)
  <2> HIDE DEF n
  <2> QED BY <1>2, <1>7, DivMod
<1>9. n = V * a + h
  OBVIOUS
<1> HIDE DEF n, t
<1>10. r \in Int /\ a = r + t * Q /\ t * Q \in Int
  BY <1>1, <1>6, <1>8, SMT
<1> HIDE DEF r
(* 2 * WORD * S * r is V * a - t * S times 2 * WORD * Q, less a * d.       *)
<1> DEFINE c == V * a - S * t
           ad == a * d
<1>11. c \in Int /\ -h <= c /\ c <= h
  BY <1>2, <1>7, <1>8, <1>9, SMT
<1>12. ad \in Int /\ 2 * ad <= S /\ -S <= 2 * ad
  <2>1. 2 * a \in Near(WORD) /\ d \in Int
    BY <1>1, <1>5, <1>6, SMT DEF Near
  <2>2. (2 * a) * d = 2 * ad /\ ad \in Int
    BY <1>5, <1>6, SMT
  <2>3. CASE d >= 0
    <3>1. d \in Near(d) /\ d \in Nat
      BY <1>5, <2>3, SMT DEF Near
    <3>2. -(WORD * d) <= (2 * a) * d /\ (2 * a) * d <= WORD * d
      BY <1>1, <2>1, <3>1, ProductBound
    <3> HIDE DEF ad
    <3> QED BY <1>2, <1>5, <2>2, <3>2, SMT
  <2>4. CASE d < 0
    <3>1. d \in Near(-d) /\ -d \in Nat
      BY <1>5, <2>4, SMT DEF Near
    <3>2. -(WORD * (-d)) <= (2 * a) * d /\ (2 * a) * d <= WORD * (-d)
      BY <1>1, <2>1, <3>1, ProductBound
    <3>3. WORD * (-d) = -(WORD * d)
      BY <1>1, <1>5, SMT
    <3> HIDE DEF ad
    <3> QED BY <1>2, <1>5, <2>2, <3>2, <3>3, SMT
  <2> QED BY <1>5, <2>3, <2>4, SMT
<1>13. S * r = Q * c - ad
  <2>1. Q * c = a * (V * Q) - Q * (S * t)
    BY <1>1, <1>2, <1>6, <1>8, SMT
  <2>2. a * (V * Q) = a * S + ad
    BY <1>2, <1>5, <1>6, SMT
  <2>3. S * r = a * S - Q * (S * t)
    BY <1>1, <1>2, <1>6, <1>8, <1>10, SMT
  <2>4. a * S \in Int /\ Q * (S * t) \in Int
    <3>1. S * t \in Int
      BY <1>2, <1>8, SMT
    <3> QED BY <1>1, <1>2, <1>6, <3>1, SMT
  <2> HIDE DEF c, ad
  <2> QED BY <1>12, <2>1, <2>2, <2>3, <2>4, SMT
<1>14. Q * c \in Int /\ 2 * (Q * c) <= S * Q /\ -(S * Q) <= 2 * (Q * c) /\ S * Q \in Int
  <2>1. Q * c <= Q * h /\ Q * (-h) <= Q * c
    BY <1>1, <1>2, <1>11, Times2, SMT
  <2>2. Q * (-h) = -(Q * h) /\ S * Q = 2 * (Q * h) /\ Q * h \in Int
    BY <1>1, <1>2, SMT
  <2>3. Q * c \in Int
    <3> HIDE DEF c
    <3> QED BY <1>1, <1>11, SMT
  <2> HIDE DEF c
  <2> QED BY <2>1, <2>2, <2>3, SMT
<1>15. S * (2 * r) <= S * (Q + 1) /\ S * (-(Q + 1)) <= S * (2 * r)
  <2>1. S * (2 * r) = 2 * (S * r) /\ S * (Q + 1) = S * Q + S /\ S * (-(Q + 1)) = -(S * Q) - S
        /\ S * r \in Int
    BY <1>1, <1>2, <1>10, SMT
  <2> DEFINE qc == Q * c
             sr == S * r
  <2>2. sr = qc - ad /\ qc \in Int /\ sr \in Int
    BY <1>13, <1>14, <2>1
  <2>3. 2 * qc <= S * Q /\ -(S * Q) <= 2 * qc
    BY <1>14
  <2>4. 2 * sr <= S * Q + S /\ -(S * Q) - S <= 2 * sr
    <3> HIDE DEF qc, sr, ad, c
    <3> QED BY <1>2, <1>12, <1>14, <2>2, <2>3, SMT
  <2> QED BY <2>1, <2>4
<1>16. 2 * r <= Q + 1 /\ -(Q + 1) <= 2 * r
  <2>1. 2 * r \in Int /\ Q + 1 \in Int /\ -(Q + 1) \in Int
    BY <1>1, <1>10, SMT
  <2> QED BY <1>2, <1>15, <2>1, Monotone
<1>17. Wrap(r) = r
  <2>1. -WORD < 2 * r /\ 2 * r < WORD
    BY <1>1, <1>10, <1>16, SMT
  <2> QED BY <1>10, <2>1, WrapIs
<1>18. Is(r, a)
  <2>1. r = a + (-t) * Q /\ -t \in Int
    BY <1>1, <1>6, <1>8, <1>10, SMT
  <2> QED BY <2>1 DEF Is, Cong
<1>19. r \in Near(Q - 1)
  <2>1. Q # 2
    <3>1. Q % 2 = 1
      BY DEF MlKemRingAssumption
    <3> QED BY <3>1, SMT
  <2> QED BY <1>1, <1>10, <1>16, <2>1, SMT DEF Near
<1> QED BY <1>4, <1>10, <1>16, <1>17, <1>18, <1>19

(* The remainder in 0 .. Q - 1.                                            *)
LEMMA FreezeIs ==
  ASSUME MlKemRingAssumption, NEW a \in Half
  PROVE  freeze(a) = a % Q
<1> DEFINE r == barrett_reduce(a)
           s == IF r < 0 THEN r + Q ELSE r
<1>1. Q \in Nat /\ Q > 1 /\ a \in Int
  BY Ring DEF Half
<1>2. r \in Int /\ Is(r, a) /\ -(Q - 1) <= r /\ r <= Q - 1
  BY BarrettIs DEF Near
<1>3. freeze(a) = csubq(s)
  BY DEF freeze
<1> HIDE DEF r
<1>4. s \in Field /\ s \in Int
  BY <1>1, <1>2, SMT DEF Field
<1>5. csubq(s) = s
  <2> HIDE DEF s
  <2> QED BY <1>1, <1>4, SMT DEF csubq, Field
<1>6. Is(s, r)
  <2>1. s = r + 0 * Q \/ s = r + 1 * Q
    BY <1>1, <1>2, SMT
  <2>2. 0 \in Int /\ 1 \in Int
    BY SMT
  <2> QED BY <2>1, <2>2 DEF Is, Cong
<1> HIDE DEF s
<1>7. Is(s, a)
  BY <1>1, <1>2, <1>4, <1>6, IsTrans
<1>8. s % Q = a % Q
  BY <1>1, <1>4, <1>7, IsEqual
<1> QED BY <1>3, <1>4, <1>5, <1>8, FieldInt

-----------------------------------------------------------------------------
(* The numbers modulo Q, with Montgomery's product, are a ring.            *)

LEMMA AddForm ==
  ASSUME MlKemRingAssumption, NEW a \in Field, NEW b \in Field
  PROVE  /\ Add(a, b) = IF a + b < Q THEN a + b ELSE a + b - Q
         /\ Sub(a, b) = IF a >= b THEN a - b ELSE a - b + Q
         /\ Add(a, b) \in Field /\ Sub(a, b) \in Field
<1>1. /\ Q \in Nat /\ Q > 1 /\ a \in Int /\ b \in Int
      /\ 0 <= a /\ a < Q /\ 0 <= b /\ b < Q
  BY FieldInt
<1> DEFINE s == a + b
           d == a - b
           s1 == IF a + b < Q THEN a + b ELSE a + b - Q
           d1 == IF a >= b THEN a - b ELSE a - b + Q
<1>2. s \in Int /\ d \in Int /\ s1 \in Field /\ d1 \in Field /\ s1 \in Int /\ d1 \in Int
  BY <1>1, SMT DEF Field
<1>3. (s1 = s + 0 * Q \/ s1 = s + (-1) * Q) /\ (d1 = d + 0 * Q \/ d1 = d + 1 * Q)
  BY <1>1, SMT
<1>4. 0 \in Int /\ 1 \in Int /\ -1 \in Int
  BY SMT
<1>5. Add(a, b) = s % Q /\ Sub(a, b) = d % Q
  BY DEF Add, Sub
<1> HIDE DEF s, d, s1, d1
<1>6. Is(s1, s) /\ Is(d1, d)
  BY <1>3, <1>4 DEF Is, Cong
<1>7. s1 % Q = s % Q /\ d1 % Q = d % Q
  BY <1>2, <1>6, IsEqual
<1>8. s1 % Q = s1 /\ d1 % Q = d1
  BY <1>2, FieldInt
<1>9. Add(a, b) = s1 /\ Sub(a, b) = d1
  BY <1>5, <1>7, <1>8
<1> QED BY <1>2, <1>9 DEF s1, d1

LEMMA AddIn ==
  ASSUME MlKemRingAssumption, NEW a \in Field, NEW b \in Field
  PROVE  Add(a, b) \in Field /\ Sub(a, b) \in Field
BY AddForm

LEMMA AddLaws ==
  ASSUME MlKemRingAssumption, NEW a \in Field, NEW b \in Field, NEW c \in Field
  PROVE  /\ Add(a, b) = Add(b, a) /\ Add(Add(a, b), c) = Add(a, Add(b, c))
         /\ 0 \in Field /\ Add(a, 0) = a /\ Add(0, a) = a
         /\ Sub(Add(a, b), b) = a /\ Add(Sub(a, b), b) = a /\ Sub(a, a) = 0
<1>1. /\ Q \in Int /\ Q > 1 /\ a \in Int /\ b \in Int /\ c \in Int
      /\ 0 <= a /\ a < Q /\ 0 <= b /\ b < Q /\ 0 <= c /\ c < Q
  BY FieldInt
<1>2. 0 \in Field
  BY <1>1, SMT DEF Field
<1> DEFINE P(x, y) == IF x + y < Q THEN x + y ELSE x + y - Q
           M(x, y) == IF x >= y THEN x - y ELSE x - y + Q
<1>3. \A x, y \in Field : Add(x, y) = P(x, y) /\ Sub(x, y) = M(x, y)
                          /\ P(x, y) \in Field /\ M(x, y) \in Field
  <2>1. SUFFICES ASSUME NEW x \in Field, NEW y \in Field
                 PROVE  Add(x, y) = P(x, y) /\ Sub(x, y) = M(x, y)
                        /\ Add(x, y) \in Field /\ Sub(x, y) \in Field
    OBVIOUS
  <2> QED BY AddForm
<1>4. /\ P(a, b) = P(b, a) /\ P(P(a, b), c) = P(a, P(b, c)) /\ P(a, 0) = a /\ P(0, a) = a
      /\ M(P(a, b), b) = a /\ P(M(a, b), b) = a /\ M(a, a) = 0
  BY <1>1, SMT
<1> HIDE DEF P, M
<1> QED BY <1>2, <1>3, <1>4

LEMMA Add4 ==
  ASSUME MlKemRingAssumption, NEW a \in Field, NEW b \in Field, NEW c \in Field, NEW d \in Field
  PROVE  /\ Add(Add(a, b), Add(c, d)) = Add(Add(a, c), Add(b, d))
         /\ Sub(Add(a, b), Add(c, d)) = Add(Sub(a, c), Sub(b, d))
         /\ Add(Add(a, b), Sub(a, b)) = Add(a, a)
         /\ Sub(Add(a, b), Sub(a, b)) = Add(b, b)
         /\ Add(Add(a, b), c) = Add(Add(a, c), b)
         /\ Sub(Add(a, b), Add(a, c)) = Sub(b, c)
<1>1. /\ Q \in Int /\ Q > 1 /\ a \in Int /\ b \in Int /\ c \in Int /\ d \in Int
      /\ 0 <= a /\ a < Q /\ 0 <= b /\ b < Q /\ 0 <= c /\ c < Q /\ 0 <= d /\ d < Q
  BY FieldInt
<1> DEFINE P(x, y) == IF x + y < Q THEN x + y ELSE x + y - Q
           M(x, y) == IF x >= y THEN x - y ELSE x - y + Q
<1>3. \A x, y \in Field : Add(x, y) = P(x, y) /\ Sub(x, y) = M(x, y)
                          /\ P(x, y) \in Field /\ M(x, y) \in Field
  <2>1. SUFFICES ASSUME NEW x \in Field, NEW y \in Field
                 PROVE  Add(x, y) = P(x, y) /\ Sub(x, y) = M(x, y)
                        /\ Add(x, y) \in Field /\ Sub(x, y) \in Field
    OBVIOUS
  <2> QED BY AddForm
<1>4. /\ P(P(a, b), P(c, d)) = P(P(a, c), P(b, d))
      /\ M(P(a, b), P(c, d)) = P(M(a, c), M(b, d))
      /\ P(P(a, b), M(a, b)) = P(a, a) /\ M(P(a, b), M(a, b)) = P(b, b)
      /\ P(P(a, b), c) = P(P(a, c), b) /\ M(P(a, b), P(a, c)) = M(b, c)
  BY <1>1, SMT
<1> HIDE DEF P, M
<1> QED BY <1>3, <1>4

(* Remainders of sums, differences and Montgomery products.                *)
LEMMA ResAdd ==
  ASSUME MlKemRingAssumption, NEW x \in Int, NEW y \in Int
  PROVE  /\ (x + y) % Q = Add(x % Q, y % Q) /\ (x - y) % Q = Sub(x % Q, y % Q)
         /\ x % Q \in Field
<1> DEFINE a == x % Q
           b == y % Q
<1>1. a \in Int /\ b \in Int /\ Is(x, a) /\ Is(y, b) /\ a \in Field
  BY IsMod
<1> HIDE DEF a, b
<1>2. Is(x + y, a + b) /\ Is(x - y, a - b)
  BY <1>1, IsPlus
<1> DEFINE s == x + y
           d == x - y
           t == a + b
           e == a - b
<1>3. s \in Int /\ d \in Int /\ t \in Int /\ e \in Int /\ Is(s, t) /\ Is(d, e)
  BY <1>1, <1>2, SMT
<1> HIDE DEF s, d, t, e
<1>4. s % Q = t % Q /\ d % Q = e % Q
  BY <1>3, IsEqual
<1> QED BY <1>1, <1>4 DEF Add, Sub, s, d, t, e, a, b

LEMMA MulIs ==
  ASSUME MlKemRingAssumption, NEW x \in Int, NEW y \in Int
  PROVE  /\ Is(Mul(x, y), (x * y) * WINV) /\ Mul(x, y) \in Field /\ Mul(x, y) \in Int
         /\ (x * y) * WINV \in Int
<1>1. WINV \in Int
  BY WordInverse
<1>2. x * y \in Int
  BY SMT
<1>3. (x * y) * WINV \in Int
  BY <1>1, <1>2, SMT
<1> QED BY <1>3, IsMod DEF Mul

LEMMA ResMul ==
  ASSUME MlKemRingAssumption, NEW x \in Int, NEW y \in Int
  PROVE  Mul(x % Q, y % Q) = Mul(x, y)
<1> DEFINE a == x % Q
           b == y % Q
<1>1. a \in Int /\ b \in Int /\ Is(x, a) /\ Is(y, b) /\ WINV \in Int
  BY IsMod, WordInverse
<1> HIDE DEF a, b
<1>2. Is(x * y, a * y)
  BY <1>1, IsTimes
<1>3. Is(a * y, a * b)
  BY <1>1, IsTimes
<1> DEFINE p == x * y
           q == a * y
           r == a * b
<1>4. p \in Int /\ q \in Int /\ r \in Int /\ Is(p, q) /\ Is(q, r)
  BY <1>1, <1>2, <1>3, SMT
<1> HIDE DEF p, q, r
<1>5. Is(p, r)
  BY <1>4, IsTrans
<1>6. Is(p * WINV, r * WINV)
  BY <1>1, <1>4, <1>5, IsTimes
<1> DEFINE u == p * WINV
           v == r * WINV
<1>7. u \in Int /\ v \in Int /\ Is(u, v)
  BY <1>1, <1>4, <1>6, SMT
<1> HIDE DEF u, v
<1>8. u % Q = v % Q
  BY <1>7, IsEqual
<1> QED BY <1>8 DEF u, v, p, r, a, b, Mul

LEMMA ResFqmul ==
  ASSUME MlKemRingAssumption, NEW x \in Half, NEW y \in Half
  PROVE  fqmul(x, y) % Q = Mul(x % Q, y % Q)
<1> DEFINE m == fqmul(x, y)
           p == (x * y) * WINV
<1>1. x \in Int /\ y \in Int
  BY DEF Half
<1>2. m \in Int /\ Is(m, p)
  BY FqmulIs
<1>3. p \in Int
  BY <1>1, MulIs
<1>4. p % Q = Mul(x, y)
  BY DEF Mul
<1> HIDE DEF m, p
<1>5. m % Q = p % Q
  BY <1>2, <1>3, IsEqual
<1> QED BY <1>1, <1>4, <1>5, ResMul DEF m

LEMMA MulIn ==
  ASSUME MlKemRingAssumption, NEW a \in Field, NEW b \in Field
  PROVE  Mul(a, b) \in Field
BY MulIs, FieldInt

LEMMA MulComm ==
  ASSUME MlKemRingAssumption, NEW a \in Field, NEW b \in Field
  PROVE  Mul(a, b) = Mul(b, a)
<1>1. a \in Int /\ b \in Int
  BY FieldInt
<1>2. a * b = b * a
  BY <1>1, SMT
<1> QED BY <1>2 DEF Mul

LEMMA MulAdd ==
  ASSUME MlKemRingAssumption, NEW a \in Field, NEW b \in Field, NEW c \in Field
  PROVE  /\ Mul(a, Add(b, c)) = Add(Mul(a, b), Mul(a, c))
         /\ Mul(a, Sub(b, c)) = Sub(Mul(a, b), Mul(a, c))
<1>1. a \in Int /\ b \in Int /\ c \in Int /\ WINV \in Int /\ a % Q = a
  BY FieldInt, WordInverse
<1> DEFINE s == b + c
           d == b - c
           m == (a * b) * WINV
           n == (a * c) * WINV
<1>2. s \in Int /\ d \in Int /\ m \in Int /\ n \in Int
  BY <1>1, MulIs, SMT
<1>3. (a * s) * WINV = m + n /\ (a * d) * WINV = m - n
  <2>1. a * s = a * b + a * c /\ a * d = a * b - a * c /\ a * b \in Int /\ a * c \in Int
    BY <1>1, SMT
  <2> DEFINE x == a * b
             y == a * c
  <2>2. (x + y) * WINV = x * WINV + y * WINV /\ (x - y) * WINV = x * WINV - y * WINV
    <3>1. x \in Int /\ y \in Int
      BY <2>1
    <3> HIDE DEF x, y
    <3> QED BY <1>1, <3>1, SMT
  <2> QED BY <2>1, <2>2
<1>4. Mul(a, s % Q) = Mul(a, s) /\ Mul(a, d % Q) = Mul(a, d)
  <2> HIDE DEF s, d
  <2> QED BY <1>1, <1>2, ResMul
<1>5. Mul(a, s) = (m + n) % Q /\ Mul(a, d) = (m - n) % Q
  BY <1>3 DEF Mul
<1>6. (m + n) % Q = Add(m % Q, n % Q) /\ (m - n) % Q = Sub(m % Q, n % Q)
  <2> HIDE DEF m, n
  <2> QED BY <1>2, ResAdd
<1>7. Add(b, c) = s % Q /\ Sub(b, c) = d % Q /\ m % Q = Mul(a, b) /\ n % Q = Mul(a, c)
  BY DEF Add, Sub, Mul
<1> HIDE DEF s, d, m, n
<1> QED BY <1>4, <1>5, <1>6, <1>7

LEMMA MulAssoc ==
  ASSUME MlKemRingAssumption, NEW a \in Field, NEW b \in Field, NEW c \in Field
  PROVE  Mul(Mul(a, b), c) = Mul(a, Mul(b, c))
<1>1. a \in Int /\ b \in Int /\ c \in Int /\ WINV \in Int /\ a % Q = a /\ c % Q = c
  BY FieldInt, WordInverse
<1> DEFINE p == (a * b) * WINV
           r == (b * c) * WINV
<1>2. p \in Int /\ r \in Int
  BY <1>1, MulIs
<1>3. Mul(a, b) = p % Q /\ Mul(b, c) = r % Q
  BY DEF Mul
<1>4. p * c = a * r
  <2> DEFINE x == a * b
             y == b * c
  <2>1. x \in Int /\ y \in Int /\ x * c = a * y
    BY <1>1, SMT
  <2>2. p * c = (x * c) * WINV
    <3> HIDE DEF x
    <3> QED BY <1>1, <2>1, SMT
  <2>3. a * r = (a * y) * WINV
    <3> HIDE DEF y
    <3> QED BY <1>1, <2>1, SMT
  <2> QED BY <2>1, <2>2, <2>3
<1> HIDE DEF p, r
<1>5. Mul(p % Q, c) = Mul(p, c) /\ Mul(a, r % Q) = Mul(a, r)
  BY <1>1, <1>2, ResMul
<1>6. Mul(p, c) = Mul(a, r)
  BY <1>4 DEF Mul
<1> QED BY <1>3, <1>5, <1>6

LEMMA MulSums ==
  ASSUME MlKemRingAssumption, NEW a \in Field, NEW b \in Field, NEW z \in Field
  PROVE  /\ Mul(Add(a, b), z) = Add(Mul(a, z), Mul(b, z))
         /\ Mul(Sub(a, b), z) = Sub(Mul(a, z), Mul(b, z))
<1>1. Add(a, b) \in Field /\ Sub(a, b) \in Field
  BY AddIn
<1>2. Mul(Add(a, b), z) = Mul(z, Add(a, b)) /\ Mul(Sub(a, b), z) = Mul(z, Sub(a, b))
  BY <1>1, MulComm
<1>3. Mul(z, a) = Mul(a, z) /\ Mul(z, b) = Mul(b, z)
  BY MulComm
<1> QED BY <1>2, <1>3, MulAdd

(* Montgomery's one.                                                       *)
One == WORD % Q

LEMMA MulOne ==
  ASSUME MlKemRingAssumption, NEW a \in Field
  PROVE  /\ One \in Field /\ Mul(a, One) = a /\ Mul(One, a) = a
         /\ 0 \in Field /\ Mul(a, 0) = 0 /\ Mul(0, a) = 0
<1>1. a \in Int /\ WORD \in Int /\ Q \in Int /\ Q > 1 /\ a % Q = a /\ WINV \in Int
  BY FieldInt, WordInverse
<1>2. One \in Field
  BY <1>1, IsMod DEF One
<1>3. 0 \in Field
  BY <1>1, SMT DEF Field
<1>4. Mul(a, One) = a
  <2>1. Mul(a, WORD % Q) = Mul(a, WORD)
    BY <1>1, ResMul
  <2> DEFINE p == (a * WORD) * WINV
             w == WINV * WORD
             e == 1
  <2>2. p = a * w /\ w \in Int /\ p \in Int /\ a * e = a /\ e \in Int
    BY <1>1, SMT
  <2>3. Is(w, e)
    BY WordInverse
  <2>4. Mul(a, WORD) = p % Q
    BY DEF Mul
  <2> HIDE DEF w, p, e
  <2>5. Is(a * w, a * e)
    BY <1>1, <2>2, <2>3, IsTimes
  <2>6. p % Q = a % Q
    BY <1>1, <2>2, <2>5, IsEqual
  <2> QED BY <1>1, <2>1, <2>4, <2>6 DEF One
<1>5. Mul(a, 0) = 0
  <2>1. (a * 0) * WINV = 0 /\ 0 % Q = 0
    BY <1>1, SMT
  <2> QED BY <2>1 DEF Mul
<1> QED BY <1>2, <1>3, <1>4, <1>5, MulComm

-----------------------------------------------------------------------------
(* Polynomials and the layers of the transforms, modulo Q.                 *)
Polys  == [Index -> Field]
Layers == {len \in 2 .. DEGREE \div 2 : DEGREE % (2 * len) = 0}

(* The places of a layer's blocks.                                         *)
LEMMA Blocks ==
  ASSUME NEW m \in Nat, NEW len \in 2 .. m \div 2, m % (2 * len) = 0,
         NEW i \in 0 .. m - 1
  PROVE  /\ len \in Nat /\ len > 0
         /\ i % (2 * len) < len => i + len \in 0 .. m - 1
         /\ ~ (i % (2 * len) < len) => i - len \in 0 .. m - 1
         /\ (m \div (2 * len)) + (i \div (2 * len)) \in 0 .. m \div 2 - 1
         /\ (m \div len) - 1 - (i \div (2 * len)) \in 0 .. m \div 2 - 1
<1> DEFINE b == 2 * len
           q == m \div b
           k == i \div b
           r == i % b
<1>1. len \in Nat /\ len > 1 /\ 2 * len <= m /\ b \in Nat /\ b > 0 /\ b = 2 * len /\ b <= m
  BY SMT
<1> HIDE DEF b
<1>2. i \in Int /\ 0 <= i /\ i < m
  BY SMT
<1>3. q \in Int /\ m = b * q
  <2>1. m % b = 0
    BY DEF b
  <2> QED BY <1>1, <2>1, DivMod
<1>4. k \in Int /\ r \in 0 .. b - 1 /\ i = b * k + r
  BY <1>1, <1>2, DivMod
<1> HIDE DEF q, k, r
<1>5. k >= 0
  <2>1. SUFFICES ASSUME k <= -1 PROVE FALSE
    BY <1>4, SMT
  <2>2. b * k <= b * (-1) /\ b * (-1) = -b /\ b * k \in Int
    BY <1>1, <1>4, <2>1, Times2
  <2> QED BY <1>1, <1>2, <1>4, <2>2, SMT
<1>6. k + 1 <= q
  <2>1. SUFFICES ASSUME q <= k PROVE FALSE
    BY <1>3, <1>4, SMT
  <2>2. b * q <= b * k /\ b * k \in Int
    BY <1>1, <1>3, <1>4, <2>1, Times2
  <2> QED BY <1>1, <1>2, <1>3, <1>4, <2>2, SMT
<1>7. b * (k + 1) <= m /\ b * (k + 1) = b * k + b /\ b * k \in Int
  <2>1. b * (k + 1) <= b * q
    BY <1>1, <1>3, <1>4, <1>6, Times2
  <2> QED BY <1>1, <1>3, <1>4, <2>1, SMT
<1>8. r < len => i + len \in 0 .. m - 1
  BY <1>1, <1>2, <1>4, <1>7, SMT
<1>9. ~ (r < len) => i - len \in 0 .. m - 1
  <2>1. b * k >= 0
    BY <1>1, <1>4, <1>5, SMT
  <2> QED BY <1>1, <1>2, <1>4, <2>1, SMT
<1>10. 4 * q <= m
  <2>1. q * 4 <= q * b /\ q * b = b * q
    <3>1. q \in Nat /\ 4 <= b
      BY <1>1, <1>3, <1>5, <1>6, SMT
    <3> QED BY <1>1, <3>1, Times2
  <2> QED BY <1>3, <2>1, SMT
<1>11. m \div len = 2 * q
  <2> DEFINE p == m \div len
             s == m % len
  <2>1. p \in Int /\ s \in 0 .. len - 1 /\ m = len * p + s
    BY <1>1, DivMod
  <2> HIDE DEF p, s
  <2>2. m = len * (2 * q) /\ len * (2 * q) \in Int /\ len * p \in Int
    BY <1>1, <1>3, <2>1, SMT
  <2>3. CASE p < 2 * q
    <3>1. len * (p + 1) <= len * (2 * q)
      BY <1>1, <1>3, <2>1, <2>3, Times2
    <3>2. len * (p + 1) = len * p + len
      BY <1>1, <2>1, SMT
    <3> QED BY <1>1, <2>1, <2>2, <3>1, <3>2, SMT
  <2>4. CASE p > 2 * q
    <3>1. len * (2 * q + 1) <= len * p
      BY <1>1, <1>3, <2>1, <2>4, Times2
    <3>2. len * (2 * q + 1) = len * (2 * q) + len
      BY <1>1, <1>3, SMT
    <3> QED BY <1>1, <2>1, <2>2, <3>1, <3>2, SMT
  <2>5. p = 2 * q
    BY <1>3, <2>1, <2>3, <2>4, SMT
  <2> QED BY <2>5 DEF p
<1>12. q + k \in 0 .. m \div 2 - 1 /\ 2 * q - 1 - k \in 0 .. m \div 2 - 1
  BY <1>1, <1>3, <1>4, <1>5, <1>6, <1>10, SMT
<1> QED BY <1>1, <1>8, <1>9, <1>11, <1>12 DEF b, q, k, r

LEMMA Degree ==
  ASSUME MlKemRingAssumption
  PROVE  /\ DEGREE \in Nat /\ DEGREE > 3 /\ LAYERS \in Nat /\ LAYERS > 0
         /\ Len(Lens) = LAYERS /\ DOMAIN Lens = 1 .. LAYERS
         /\ Lens[1] = 2 /\ 2 * Lens[LAYERS] = DEGREE
         /\ \A k \in 1 .. LAYERS : Lens[k] \in Nat /\ Lens[k] > 0 /\ Lens[k] = 2 ^ k
         /\ \A k \in 1 .. LAYERS - 1 : Lens[k + 1] = 2 * Lens[k]
<1>1. /\ LAYERS \in Nat /\ LAYERS > 0 /\ LAYERS < SHIFT /\ SHIFT \in Nat
      /\ \A n \in 0 .. SHIFT : 2 ^ n \in Nat \ {0} /\ 2 ^ (n + 1) = 2 * 2 ^ n
  BY Ring DEF MlKemRingAssumption
<1>2. /\ LAYERS \in 0 .. SHIFT /\ 0 \in 0 .. SHIFT /\ 0 + 1 = 1 /\ LAYERS \in 1 .. LAYERS /\ 1 \in 1 .. LAYERS
      /\ \A k \in 1 .. LAYERS : k \in 0 .. SHIFT
      /\ \A k \in 1 .. LAYERS - 1 : k + 1 \in 1 .. LAYERS /\ k \in 1 .. LAYERS
  BY <1>1, SMT
<1>3. 2 ^ 1 = 2 * 2 ^ 0
  BY <1>1, <1>2
<1>4. 2 ^ 0 = 1
  BY DEF MlKemRingAssumption
<1>5. \A k \in 1 .. LAYERS : Lens[k] = 2 ^ k
  BY DEF Lens
<1>6. \A k \in 1 .. LAYERS : Lens[k] \in Nat /\ Lens[k] > 0
  <2>1. \A k \in 1 .. LAYERS : Lens[k] \in Nat \ {0}
    BY <1>1, <1>2, <1>5
  <2> QED BY <2>1, SMT
<1>7. Lens[1] = 2
  <2>1. Lens[1] = 2 ^ 1
    BY <1>2, <1>5
  <2> QED BY <1>3, <1>4, <2>1, SMT
<1>8. 2 * Lens[LAYERS] = DEGREE
  BY <1>1, <1>2, <1>5 DEF DEGREE
<1>9. \A k \in 1 .. LAYERS - 1 : Lens[k + 1] = 2 * Lens[k]
  BY <1>1, <1>2, <1>5
<1>10. Len(Lens) = LAYERS /\ DOMAIN Lens = 1 .. LAYERS
  BY <1>1 DEF Lens
<1>11. DEGREE \in Nat /\ DEGREE > 3
  <2>1. Lens[LAYERS] # 1
    <3>1. CASE LAYERS = 1
      BY <1>7, <3>1
    <3>2. CASE LAYERS # 1
      <4>1. LAYERS - 1 \in 1 .. LAYERS - 1 /\ (LAYERS - 1) + 1 = LAYERS /\ LAYERS - 1 \in 1 .. LAYERS
        BY <1>1, <3>2, SMT
      <4>2. Lens[(LAYERS - 1) + 1] = 2 * Lens[LAYERS - 1]
        BY <1>9, <4>1
      <4>3. Lens[LAYERS - 1] \in Nat
        BY <1>6, <4>1
      <4> QED BY <4>1, <4>2, <4>3, SMT
    <3> QED BY <3>1, <3>2
  <2>2. Lens[LAYERS] \in Nat /\ Lens[LAYERS] > 0
    BY <1>2, <1>6
  <2> QED BY <1>8, <2>1, <2>2, SMT
<1> QED BY <1>1, <1>5, <1>6, <1>7, <1>8, <1>9, <1>10, <1>11

(* The blocks of every layer fill the polynomial.                          *)
LEMMA LayersFill ==
  ASSUME MlKemRingAssumption
  PROVE  \A k \in 1 .. LAYERS : Lens[k] \in Layers
<1> DEFINE S == {j \in 0 .. LAYERS - 1 : \E c \in Nat : c > 0 /\ DEGREE = (2 * Lens[LAYERS - j]) * c}
<1>1. /\ DEGREE \in Nat /\ DEGREE > 3 /\ LAYERS \in Nat /\ LAYERS > 0 /\ 2 * Lens[LAYERS] = DEGREE
      /\ \A k \in 1 .. LAYERS : Lens[k] \in Nat /\ Lens[k] > 0
      /\ \A k \in 1 .. LAYERS - 1 : Lens[k + 1] = 2 * Lens[k]
      /\ Lens[1] = 2
  BY Degree
<1>2. 0 \in S
  <2>1. 0 \in 0 .. LAYERS - 1 /\ LAYERS - 0 = LAYERS /\ DEGREE = DEGREE * 1 /\ 1 \in Nat /\ 1 > 0
    BY <1>1, SMT
  <2> QED BY <1>1, <2>1
<1>3. ASSUME NEW j \in 0 .. (LAYERS - 1) - 1, j \in S PROVE j + 1 \in S
  <2> DEFINE l == LAYERS - (j + 1)
  <2>1. /\ l \in 1 .. LAYERS - 1 /\ l + 1 = LAYERS - j /\ j + 1 \in 0 .. LAYERS - 1 /\ l \in 1 .. LAYERS
        /\ l + 1 \in 1 .. LAYERS
    BY <1>1, SMT
  <2> HIDE DEF l
  <2>2. PICK c \in Nat : c > 0 /\ DEGREE = (2 * Lens[l + 1]) * c
    BY <1>3, <2>1
  <2>3. Lens[l + 1] = 2 * Lens[l] /\ Lens[l] \in Nat
    BY <1>1, <2>1
  <2>4. DEGREE = (2 * Lens[l]) * (2 * c) /\ 2 * c \in Nat /\ 2 * c > 0
    BY <2>2, <2>3, SMT
  <2> QED BY <2>1, <2>4 DEF l
<1>4. \A j \in 0 .. LAYERS - 1 : j \in S
  <2>1. LAYERS - 1 \in Nat
    BY <1>1, SMT
  <2> HIDE DEF S
  <2> QED BY <1>2, <1>3, <2>1, UptoInduction
<1>5. ASSUME NEW k \in 1 .. LAYERS PROVE Lens[k] \in Layers
  <2> DEFINE j == LAYERS - k
             len == Lens[k]
  <2>1. j \in 0 .. LAYERS - 1 /\ LAYERS - j = k
    BY <1>1, SMT
  <2>2. PICK c \in Nat : c > 0 /\ DEGREE = (2 * len) * c
    <3>1. j \in S
      BY <1>4, <2>1
    <3> QED BY <2>1, <3>1
  <2>3. len \in Nat /\ len > 0
    BY <1>1
  <2>4. len # 1
    <3>1. CASE k = 1
      BY <1>1, <3>1
    <3>2. CASE k # 1
      <4>1. k - 1 \in 1 .. LAYERS - 1 /\ (k - 1) + 1 = k /\ k - 1 \in 1 .. LAYERS
        BY <1>1, <3>2, SMT
      <4>2. Lens[(k - 1) + 1] = 2 * Lens[k - 1]
        BY <1>1, <4>1
      <4>3. Lens[k - 1] \in Nat
        BY <1>1, <4>1
      <4> QED BY <4>1, <4>2, <4>3, SMT
    <3> QED BY <3>1, <3>2
  <2> HIDE DEF len
  <2> DEFINE b == 2 * len
  <2>5. b \in Nat /\ b > 0 /\ c \in Int /\ 0 \in 0 .. b - 1 /\ DEGREE \in Int /\ DEGREE = b * c + 0
    BY <1>1, <2>2, <2>3, SMT
  <2>6. 2 * len <= DEGREE
    <3>1. b * 1 <= b * c
      <4>1. 1 <= c /\ 1 \in Int /\ c \in Int
        BY <2>2, SMT
      <4> QED BY <2>5, <4>1, Times2
    <3> HIDE DEF b
    <3>2. b <= DEGREE
      BY <2>2, <2>5, <3>1, SMT DEF b
    <3> QED BY <3>2 DEF b
  <2> HIDE DEF b
  <2>7. DEGREE % b = 0
    BY <2>5, DivIs
  <2>8. len \in 2 .. DEGREE \div 2
    BY <1>1, <2>3, <2>4, <2>6, SMT
  <2> QED BY <2>7, <2>8 DEF b, len, Layers
<1> QED BY <1>5
(* A layer there and a layer back, modulo Q.                               *)
Zeta(i, len)  == NttZeta(i, len) % Q
IZeta(i, len) == (-InvZeta(i, len)) % Q
Plus(f, g)    == [i \in Index |-> Add(f[i], g[i])]
Minus(f, g)   == [i \in Index |-> Sub(f[i], g[i])]
ScaleBy(a, f) == [i \in Index |-> Mul(a, f[i])]
Layer(f, len) ==
  [i \in Index |-> IF LowHalf(i, len) THEN Add(f[i], Mul(f[i + len], Zeta(i, len)))
                                      ELSE Sub(f[i - len], Mul(f[i], Zeta(i, len)))]
Back(f, len) ==
  [i \in Index |-> IF LowHalf(i, len) THEN Add(f[i], f[i + len])
                                      ELSE Mul(Sub(f[i - len], f[i]), IZeta(i, len))]

LEMMA LayersAre ==
  ASSUME NEW f, NEW len
  PROVE  /\ Layer(f, len) =
              [i \in Index |-> IF LowHalf(i, len)
                               THEN Add(f[i], Mul(f[i + len], Zeta(i, len)))
                               ELSE Sub(f[i - len], Mul(f[i], Zeta(i, len)))]
         /\ Back(f, len) =
              [i \in Index |-> IF LowHalf(i, len)
                               THEN Add(f[i], f[i + len])
                               ELSE Mul(Sub(f[i - len], f[i]), IZeta(i, len))]
BY DEF Layer, Back

LEMMA PolyIs ==
  ASSUME NEW f, NEW g
  PROVE  /\ Plus(f, g) = [i \in Index |-> Add(f[i], g[i])]
         /\ Minus(f, g) = [i \in Index |-> Sub(f[i], g[i])]
BY DEF Plus, Minus

LEMMA PolyOps ==
  ASSUME MlKemRingAssumption
  PROVE  \A f, g \in Polys : Plus(f, g) \in Polys /\ Minus(f, g) \in Polys
BY AddIn DEF Plus, Minus, Polys

LEMMA ScaleIn ==
  ASSUME MlKemRingAssumption, NEW a \in Field, NEW f \in Polys
  PROVE  ScaleBy(a, f) \in Polys
BY MulIn DEF ScaleBy, Polys

(* Polynomials are the same that have the same coefficients.               *)
LEMMA SamePoly ==
  ASSUME NEW f \in Polys, NEW g \in Polys, \A i \in Index : f[i] = g[i]
  PROVE  f = g
BY DEF Polys

(* The table's entries, less than half of the modulus.                     *)
LEMMA Table ==
  ASSUME MlKemRingAssumption, NEW k \in 0 .. DEGREE \div 2 - 1
  PROVE  ZETAS[k] \in Int /\ -Q < 2 * ZETAS[k] /\ 2 * ZETAS[k] < Q /\ ZETAS[k] \in Near(Q)
<1>1. ZETAS \in [0 .. DEGREE \div 2 - 1 -> Int]
  BY DEF MlKemRingAssumption, ZetasAreRoots
<1>2. ZETAS[k] \in Int /\ -Q < 2 * ZETAS[k] /\ 2 * ZETAS[k] < Q
  BY <1>1 DEF MlKemRingAssumption, ZetasAreRoots
<1> DEFINE z == ZETAS[k]
<1> HIDE DEF z
<1>3. z \in Int /\ -Q < 2 * z /\ 2 * z < Q /\ Q \in Nat
  BY <1>2, Ring DEF z
<1>4. -Q <= z /\ z <= Q
  BY <1>3, SMT
<1> QED BY <1>2, <1>3, <1>4 DEF Near, z

(* A layer's places and factors.                                           *)
LEMMA Places ==
  ASSUME MlKemRingAssumption, NEW len \in Layers, NEW i \in Index
  PROVE  /\ LowHalf(i, len) => i + len \in Index
         /\ ~ LowHalf(i, len) => i - len \in Index
         /\ Zeta(i, len) \in Field /\ IZeta(i, len) \in Field
         /\ NttZeta(i, len) \in Int /\ InvZeta(i, len) \in Int
         /\ NttZeta(i, len) \in Near(Q) /\ InvZeta(i, len) \in Near(Q)
<1>1. len \in 2 .. DEGREE \div 2 /\ DEGREE % (2 * len) = 0 /\ DEGREE \in Nat /\ i \in 0 .. DEGREE - 1
  BY Degree DEF Layers, Index
<1>2. /\ LowHalf(i, len) => i + len \in Index
      /\ ~ LowHalf(i, len) => i - len \in Index
      /\ (DEGREE \div (2 * len)) + (i \div (2 * len)) \in 0 .. DEGREE \div 2 - 1
      /\ (DEGREE \div len) - 1 - (i \div (2 * len)) \in 0 .. DEGREE \div 2 - 1
  BY <1>1, Blocks DEF LowHalf, Index
<1> DEFINE k == (DEGREE \div (2 * len)) + (i \div (2 * len))
           l == (DEGREE \div len) - 1 - (i \div (2 * len))
<1>3. NttZeta(i, len) = ZETAS[k] /\ InvZeta(i, len) = ZETAS[l]
  BY DEF NttZeta, InvZeta
<1>4. k \in 0 .. DEGREE \div 2 - 1 /\ l \in 0 .. DEGREE \div 2 - 1
  BY <1>2
<1> HIDE DEF k, l
<1>5. ZETAS[k] \in Int /\ ZETAS[l] \in Int /\ ZETAS[k] \in Near(Q) /\ ZETAS[l] \in Near(Q)
  BY <1>4, Table
<1> DEFINE z == ZETAS[k]
           y == -ZETAS[l]
<1>6. z \in Int /\ y \in Int
  BY <1>5, SMT
<1>7. Zeta(i, len) = z % Q /\ IZeta(i, len) = y % Q
  BY <1>3 DEF Zeta, IZeta
<1> HIDE DEF z, y
<1>8. Zeta(i, len) \in Field /\ IZeta(i, len) \in Field
  BY <1>6, <1>7, IsMod
<1> QED BY <1>2, <1>3, <1>5, <1>8

LEMMA LayerIn ==
  ASSUME MlKemRingAssumption, NEW f \in Polys, NEW len \in Layers
  PROVE  Layer(f, len) \in Polys
<1>1. ASSUME NEW i \in Index PROVE Layer(f, len)[i] \in Field
  <2> DEFINE z == Zeta(i, len)
  <2>1. z \in Field /\ \A j \in Index : f[j] \in Field
    BY Places DEF Polys
  <2>2. /\ LowHalf(i, len) => i + len \in Index
        /\ ~ LowHalf(i, len) => i - len \in Index
    BY Places
  <2>3. Layer(f, len)[i] = IF LowHalf(i, len) THEN Add(f[i], Mul(f[i + len], z))
                                              ELSE Sub(f[i - len], Mul(f[i], z))
    BY LayersAre
  <2> HIDE DEF z
  <2>4. CASE LowHalf(i, len)
    BY <2>1, <2>2, <2>3, <2>4, MulIn, AddIn
  <2>5. CASE ~ LowHalf(i, len)
    BY <2>1, <2>2, <2>3, <2>5, MulIn, AddIn
  <2> QED BY <2>4, <2>5
<1> QED BY <1>1 DEF Layer, Polys

LEMMA BackIn ==
  ASSUME MlKemRingAssumption, NEW f \in Polys, NEW len \in Layers
  PROVE  Back(f, len) \in Polys
<1>1. ASSUME NEW i \in Index PROVE Back(f, len)[i] \in Field
  <2> DEFINE z == IZeta(i, len)
  <2>1. z \in Field /\ \A j \in Index : f[j] \in Field
    BY Places DEF Polys
  <2>2. /\ LowHalf(i, len) => i + len \in Index
        /\ ~ LowHalf(i, len) => i - len \in Index
    BY Places
  <2>3. Back(f, len)[i] = IF LowHalf(i, len) THEN Add(f[i], f[i + len])
                                             ELSE Mul(Sub(f[i - len], f[i]), z)
    BY LayersAre
  <2> HIDE DEF z
  <2>4. CASE LowHalf(i, len)
    BY <2>1, <2>2, <2>3, <2>4, AddIn
  <2>5. CASE ~ LowHalf(i, len)
    BY <2>1, <2>2, <2>3, <2>5, MulIn, AddIn
  <2> QED BY <2>4, <2>5
<1> QED BY <1>1 DEF Back, Polys

(* The two halves of a block take the same zetas. *)
LEMMA Twins ==
  ASSUME MlKemRingAssumption, NEW len \in Layers, NEW i \in Index
  PROVE  /\ LowHalf(i, len) =>
              /\ i + len \in Index /\ ~ LowHalf(i + len, len) /\ (i + len) - len = i
              /\ Zeta(i + len, len) = Zeta(i, len)
              /\ IZeta(i + len, len) = IZeta(i, len)
         /\ ~ LowHalf(i, len) =>
              /\ i - len \in Index /\ LowHalf(i - len, len) /\ (i - len) + len = i
              /\ Zeta(i - len, len) = Zeta(i, len)
              /\ IZeta(i - len, len) = IZeta(i, len)
<1> DEFINE b == 2 * len
           q == i \div b
           r == i % b
<1>1. len \in Nat /\ len > 0 /\ b \in Nat /\ b > 0 /\ b = 2 * len /\ i \in Int
  BY SMT DEF Layers, Index
<1> HIDE DEF b
<1>2. q \in Int /\ r \in 0 .. b - 1 /\ i = b * q + r
  BY <1>1, DivMod
<1> HIDE DEF q, r
<1>3. b * q \in Int
  BY <1>1, <1>2, SMT
<1>4. CASE r < len
  <2> DEFINE j == i + len
             s == r + len
  <2>1. j \in Int /\ s \in 0 .. b - 1 /\ j = b * q + s /\ j - len = i /\ ~ (s < len)
    BY <1>1, <1>2, <1>3, <1>4, SMT
  <2> HIDE DEF j, s
  <2>2. j \div b = q /\ (j % b) = s
    <3>1. b \in Nat /\ b > 0 /\ q \in Int /\ s \in 0 .. b - 1 /\ j \in Int /\ j = b * q + s
      BY <1>1, <1>2, <2>1
    <3> QED BY ONLY <3>1, DivIs
  <2>3. LowHalf(i, len) /\ ~ LowHalf(j, len)
    BY <1>4, <2>1, <2>2 DEF LowHalf, b, r
  <2>4. Zeta(j, len) = Zeta(i, len) /\ IZeta(j, len) = IZeta(i, len)
    BY <2>2 DEF Zeta, IZeta, NttZeta, InvZeta, b, q
  <2>5. j \in Index
    BY <2>3, Places DEF j
  <2> QED BY <2>1, <2>3, <2>4, <2>5 DEF j
<1>5. CASE ~ (r < len)
  <2> DEFINE j == i - len
             s == r - len
  <2>1. j \in Int /\ s \in 0 .. b - 1 /\ j = b * q + s /\ j + len = i /\ s < len
    BY <1>1, <1>2, <1>3, <1>5, SMT
  <2> HIDE DEF j, s
  <2>2. j \div b = q /\ (j % b) = s
    <3>1. b \in Nat /\ b > 0 /\ q \in Int /\ s \in 0 .. b - 1 /\ j \in Int /\ j = b * q + s
      BY <1>1, <1>2, <2>1
    <3> QED BY ONLY <3>1, DivIs
  <2>3. ~ LowHalf(i, len) /\ LowHalf(j, len)
    BY <1>5, <2>1, <2>2 DEF LowHalf, b, r
  <2>4. Zeta(j, len) = Zeta(i, len) /\ IZeta(j, len) = IZeta(i, len)
    BY <2>2 DEF Zeta, IZeta, NttZeta, InvZeta, b, q
  <2>5. j \in Index
    BY <2>3, Places DEF j
  <2> QED BY <2>1, <2>3, <2>4, <2>5 DEF j
<1> QED BY <1>4, <1>5

(* Layers are linear. *)
LEMMA LayerLinear ==
  ASSUME MlKemRingAssumption, NEW len \in Layers, NEW f \in Polys, NEW g \in Polys,
         NEW a \in Field
  PROVE  /\ Layer(Plus(f, g), len) = Plus(Layer(f, len), Layer(g, len))
         /\ Layer(ScaleBy(a, f), len) = ScaleBy(a, Layer(f, len))
<1> DEFINE F == Layer(f, len)
           G == Layer(g, len)
           s == Plus(f, g)
           t == ScaleBy(a, f)
<1>1. F \in Polys /\ G \in Polys /\ s \in Polys /\ t \in Polys
  BY LayerIn, PolyOps, ScaleIn
<1>2. Layer(s, len) \in Polys /\ Layer(t, len) \in Polys
  <2> HIDE DEF s, t
  <2> QED BY <1>1, LayerIn
<1>3. Plus(F, G) \in Polys /\ ScaleBy(a, F) \in Polys
  <2> HIDE DEF F, G
  <2> QED BY <1>1, PolyOps, ScaleIn
<1>4. ASSUME NEW i \in Index
      PROVE  /\ Layer(s, len)[i] = Plus(F, G)[i]
             /\ Layer(t, len)[i] = ScaleBy(a, F)[i]
  <2> DEFINE z == Zeta(i, len)
  <2>1. /\ Plus(F, G)[i] = Add(F[i], G[i]) /\ ScaleBy(a, F)[i] = Mul(a, F[i])
        /\ \A j \in Index : s[j] = Add(f[j], g[j]) /\ t[j] = Mul(a, f[j])
                            /\ f[j] \in Field /\ g[j] \in Field
    BY PolyIs DEF ScaleBy, Polys
  <2>2. z \in Field
    BY Places
  <2> HIDE DEF z, s, t, F, G
  <2>3. CASE LowHalf(i, len)
    <3> DEFINE j == i + len
               x == Mul(f[j], z)
               y == Mul(g[j], z)
    <3>1. j \in Index
      BY <2>3, Places
    <3>2. /\ F[i] = Add(f[i], x) /\ G[i] = Add(g[i], y)
          /\ Layer(s, len)[i] = Add(s[i], Mul(s[j], z))
          /\ Layer(t, len)[i] = Add(t[i], Mul(t[j], z))
      BY <2>3, LayersAre DEF F, G, z
    <3> HIDE DEF j
    <3>3. x \in Field /\ y \in Field
      BY <2>1, <2>2, <3>1, MulIn
    <3>4. Mul(s[j], z) = Add(x, y)
      BY <2>1, <2>2, <3>1, MulSums
    <3>5. Mul(t[j], z) = Mul(a, x)
      BY <2>1, <2>2, <3>1, MulAssoc
    <3> HIDE DEF x, y
    <3>6. Add(Add(f[i], g[i]), Add(x, y)) = Add(Add(f[i], x), Add(g[i], y))
      BY <2>1, <3>3, Add4
    <3>7. Mul(a, Add(f[i], x)) = Add(Mul(a, f[i]), Mul(a, x))
      BY <2>1, <3>3, MulAdd
    <3> QED BY <2>1, <3>2, <3>4, <3>5, <3>6, <3>7
  <2>4. CASE ~ LowHalf(i, len)
    <3> DEFINE j == i - len
               x == Mul(f[i], z)
               y == Mul(g[i], z)
    <3>1. j \in Index
      BY <2>4, Places
    <3>2. /\ F[i] = Sub(f[j], x) /\ G[i] = Sub(g[j], y)
          /\ Layer(s, len)[i] = Sub(s[j], Mul(s[i], z))
          /\ Layer(t, len)[i] = Sub(t[j], Mul(t[i], z))
      BY <2>4, LayersAre DEF F, G, z
    <3> HIDE DEF j
    <3>3. x \in Field /\ y \in Field
      BY <2>1, <2>2, MulIn
    <3>4. Mul(s[i], z) = Add(x, y)
      BY <2>1, <2>2, MulSums
    <3>5. Mul(t[i], z) = Mul(a, x)
      BY <2>1, <2>2, MulAssoc
    <3> HIDE DEF x, y
    <3>6. Sub(Add(f[j], g[j]), Add(x, y)) = Add(Sub(f[j], x), Sub(g[j], y))
      BY <2>1, <3>1, <3>3, Add4
    <3>7. Mul(a, Sub(f[j], x)) = Sub(Mul(a, f[j]), Mul(a, x))
      BY <2>1, <3>1, <3>3, MulAdd
    <3> QED BY <2>1, <3>1, <3>2, <3>4, <3>5, <3>6, <3>7
  <2> QED BY <2>3, <2>4
<1> HIDE DEF F, G, s, t
<1>5. Layer(s, len) = Plus(F, G)
  BY <1>2, <1>3, <1>4, SamePoly
<1>6. Layer(t, len) = ScaleBy(a, F)
  BY <1>2, <1>3, <1>4, SamePoly
<1> QED BY <1>5, <1>6 DEF F, G, s, t

LEMMA BackLinear ==
  ASSUME MlKemRingAssumption, NEW len \in Layers, NEW f \in Polys, NEW g \in Polys,
         NEW a \in Field
  PROVE  /\ Back(Plus(f, g), len) = Plus(Back(f, len), Back(g, len))
         /\ Back(ScaleBy(a, f), len) = ScaleBy(a, Back(f, len))
<1> DEFINE F == Back(f, len)
           G == Back(g, len)
           s == Plus(f, g)
           t == ScaleBy(a, f)
<1>1. F \in Polys /\ G \in Polys /\ s \in Polys /\ t \in Polys
  BY BackIn, PolyOps, ScaleIn
<1>2. Back(s, len) \in Polys /\ Back(t, len) \in Polys
  <2> HIDE DEF s, t
  <2> QED BY <1>1, BackIn
<1>3. Plus(F, G) \in Polys /\ ScaleBy(a, F) \in Polys
  <2> HIDE DEF F, G
  <2> QED BY <1>1, PolyOps, ScaleIn
<1>4. ASSUME NEW i \in Index
      PROVE  /\ Back(s, len)[i] = Plus(F, G)[i]
             /\ Back(t, len)[i] = ScaleBy(a, F)[i]
  <2> DEFINE z == IZeta(i, len)
  <2>1. /\ Plus(F, G)[i] = Add(F[i], G[i]) /\ ScaleBy(a, F)[i] = Mul(a, F[i])
        /\ \A j \in Index : s[j] = Add(f[j], g[j]) /\ t[j] = Mul(a, f[j])
                            /\ f[j] \in Field /\ g[j] \in Field
    BY PolyIs DEF ScaleBy, Polys
  <2>2. z \in Field
    BY Places
  <2> HIDE DEF z, s, t, F, G
  <2>3. CASE LowHalf(i, len)
    <3> DEFINE j == i + len
    <3>1. j \in Index
      BY <2>3, Places
    <3>2. /\ F[i] = Add(f[i], f[j]) /\ G[i] = Add(g[i], g[j])
          /\ Back(s, len)[i] = Add(s[i], s[j])
          /\ Back(t, len)[i] = Add(t[i], t[j])
      BY <2>3, LayersAre DEF F, G
    <3> HIDE DEF j
    <3>6. Add(Add(f[i], g[i]), Add(f[j], g[j])) = Add(Add(f[i], f[j]), Add(g[i], g[j]))
      BY <2>1, <3>1, Add4
    <3>7. Mul(a, Add(f[i], f[j])) = Add(Mul(a, f[i]), Mul(a, f[j]))
      BY <2>1, <3>1, MulAdd
    <3> QED BY <2>1, <3>1, <3>2, <3>6, <3>7
  <2>4. CASE ~ LowHalf(i, len)
    <3> DEFINE j == i - len
               x == Sub(f[j], f[i])
               y == Sub(g[j], g[i])
    <3>1. j \in Index
      BY <2>4, Places
    <3>2. /\ F[i] = Mul(x, z) /\ G[i] = Mul(y, z)
          /\ Back(s, len)[i] = Mul(Sub(s[j], s[i]), z)
          /\ Back(t, len)[i] = Mul(Sub(t[j], t[i]), z)
      BY <2>4, LayersAre DEF F, G, z
    <3> HIDE DEF j
    <3>3. x \in Field /\ y \in Field
      BY <2>1, <3>1, AddIn
    <3>4. Sub(s[j], s[i]) = Add(x, y)
      BY <2>1, <3>1, Add4
    <3>5. Sub(t[j], t[i]) = Mul(a, x)
      BY <2>1, <3>1, MulAdd
    <3> HIDE DEF x, y
    <3>6. Mul(Add(x, y), z) = Add(Mul(x, z), Mul(y, z))
      BY <2>2, <3>3, MulSums
    <3>7. Mul(Mul(a, x), z) = Mul(a, Mul(x, z))
      BY <2>2, <3>3, MulAssoc
    <3> QED BY <2>1, <3>2, <3>4, <3>5, <3>6, <3>7
  <2> QED BY <2>3, <2>4
<1> HIDE DEF F, G, s, t
<1>5. Back(s, len) = Plus(F, G)
  BY <1>2, <1>3, <1>4, SamePoly
<1>6. Back(t, len) = ScaleBy(a, F)
  BY <1>2, <1>3, <1>4, SamePoly
<1> QED BY <1>5, <1>6 DEF F, G, s, t

(* The zetas of a layer on the two ways cancel.                            *)
LEMMA ZetasCancel ==
  ASSUME MlKemRingAssumption, NEW k \in 1 .. LAYERS, NEW i \in Index
  PROVE  Mul(Zeta(i, Lens[k]), IZeta(i, Lens[k])) = One
<1> DEFINE len == Lens[k]
           z == NttZeta(i, len)
           y == InvZeta(i, len)
           n == -y
<1>1. len \in Layers
  BY LayersFill
<1>2. z \in Int /\ y \in Int /\ n \in Int /\ WORD \in Int /\ Q \in Nat /\ Q > 0 /\ WINV \in Int
  <2> HIDE DEF len
  <2>1. z \in Int /\ y \in Int
    BY <1>1, Places
  <2> HIDE DEF z, y
  <2> QED BY <2>1, FieldInt, WordInverse, SMT
<1>3. (z * y + WORD * WORD) % Q = 0
  BY Degree DEF MlKemRingAssumption, ZetasAreRoots
<1>4. Mul(z % Q, n % Q) = Mul(z, n)
  <2> HIDE DEF z, n
  <2> QED BY <1>2, ResMul
<1>5. Zeta(i, len) = z % Q /\ IZeta(i, len) = n % Q
  BY DEF Zeta, IZeta
<1> HIDE DEF len, z, y
<1> DEFINE p == z * n
           ww == WORD * WORD
           zy == z * y
           w1 == WINV * WORD
<1>6. p \in Int /\ ww \in Int /\ zy \in Int /\ p = -zy /\ w1 \in Int /\ ww * WINV = WORD * w1
      /\ ww * WINV \in Int /\ p * WINV \in Int
  BY <1>2, SMT
<1>7. Is(p, ww)
  <2> HIDE DEF p, ww, zy
  <2>1. zy + ww = Q * ((zy + ww) \div Q) + 0 /\ (zy + ww) \div Q \in Int
    <3>1. zy + ww \in Int
      BY <1>6, SMT
    <3> QED BY <1>2, <1>3, <1>6, <3>1, DivMod DEF zy, ww
  <2>2. p = ww + (-((zy + ww) \div Q)) * Q /\ -((zy + ww) \div Q) \in Int
    BY <1>2, <1>6, <2>1, SMT
  <2> QED BY <2>2 DEF Is, Cong
<1>8. Is(p * WINV, ww * WINV)
  <2> HIDE DEF p, ww
  <2> QED BY <1>2, <1>6, <1>7, IsTimes
<1>9. Is(WORD * w1, WORD * 1)
  <2> DEFINE o == 1
  <2>1. Is(w1, o) /\ o \in Int
    BY WordInverse
  <2> HIDE DEF w1, o
  <2>2. Is(WORD * w1, WORD * o)
    BY <1>2, <1>6, <2>1, IsTimes
  <2> QED BY <2>2 DEF o
<1>10. Is(p * WINV, WORD)
  <2> DEFINE a == p * WINV
             b == ww * WINV
             c == WORD * 1
  <2>1. a \in Int /\ b \in Int /\ c \in Int /\ c = WORD
    BY <1>2, <1>6, SMT
  <2>2. Is(a, b) /\ Is(b, c)
    BY <1>6, <1>8, <1>9
  <2> HIDE DEF a, b, c
  <2>3. Is(a, c)
    BY <2>1, <2>2, IsTrans
  <2> QED BY <2>1, <2>3 DEF a, c
<1>11. (p * WINV) % Q = WORD % Q
  <2> DEFINE a == p * WINV
  <2>1. a \in Int /\ Is(a, WORD)
    BY <1>6, <1>10
  <2> HIDE DEF a
  <2>2. a % Q = WORD % Q
    BY <1>2, <2>1, IsEqual
  <2> QED BY <2>2 DEF a
<1>12. Mul(z, n) = One
  BY <1>11 DEF Mul, One
<1> QED BY <1>4, <1>5, <1>12 DEF len

(* A sum and a difference make up twice a number.                          *)
LEMMA Halves ==
  ASSUME MlKemRingAssumption, NEW a \in Field, NEW b \in Field
  PROVE  /\ Add(Add(a, b), Sub(a, b)) = Add(a, a)
         /\ Sub(Add(a, b), Sub(a, b)) = Add(b, b)
BY Add4

(* A layer back and there is twice the polynomial.                         *)
LEMMA LayerInverts ==
  ASSUME MlKemRingAssumption, NEW k \in 1 .. LAYERS, NEW f \in Polys
  PROVE  Layer(Back(f, Lens[k]), Lens[k]) = Plus(f, f)
<1> DEFINE len == Lens[k]
           G == Back(f, len)
<1>1. len \in Layers
  BY LayersFill
<1>2. \A i \in Index : Mul(Zeta(i, len), IZeta(i, len)) = One
  BY ZetasCancel
<1>3. G \in Polys
  <2> HIDE DEF len
  <2> QED BY <1>1, BackIn
<1> HIDE DEF len
<1>4. Layer(G, len) \in Polys /\ Plus(f, f) \in Polys
  <2> HIDE DEF G
  <2> QED BY <1>1, <1>3, LayerIn, PolyOps
<1>5. ASSUME NEW i \in Index PROVE Layer(G, len)[i] = Add(f[i], f[i])
  <2> DEFINE z == Zeta(i, len)
             y == IZeta(i, len)
  <2>1. z \in Field /\ y \in Field
    BY <1>1, Places
  <2>2. Mul(z, y) = One
    BY <1>2
  <2>3. Mul(y, z) = One
    <3> HIDE DEF y, z
    <3> QED BY <2>1, <2>2, MulComm
  <2>4. \A j \in Index : f[j] \in Field
    BY DEF Polys
  <2>5. CASE LowHalf(i, len)
    <3> DEFINE j == i + len
               x == f[i]
               u == f[j]
               w == Sub(x, u)
    <3>1. /\ j \in Index /\ ~ LowHalf(j, len) /\ j - len = i
          /\ Zeta(j, len) = z /\ IZeta(j, len) = y
      BY <1>1, <2>5, Twins
    <3>2. G[i] = Add(x, u)
      BY <2>5, LayersAre
    <3>3. Layer(G, len)[i] = Add(G[i], Mul(G[j], z))
      <4> HIDE DEF G
      <4> QED BY <2>5, LayersAre
    <3>4. G[j] = Mul(w, y)
      <4> HIDE DEF j, z, y
      <4> QED BY <3>1, LayersAre
    <3> HIDE DEF G, z, y, j
    <3>5. x \in Field /\ u \in Field
      BY <2>4, <3>1
    <3>6. w \in Field
      BY <3>5, AddIn
    <3>8. Mul(Mul(w, y), z) = w
      <4> HIDE DEF w
      <4>1. Mul(Mul(w, y), z) = Mul(w, Mul(y, z))
        BY <2>1, <3>6, MulAssoc
      <4> QED BY <2>3, <3>6, <4>1, MulOne
    <3>9. Add(Add(x, u), Sub(x, u)) = Add(x, x)
      <4> HIDE DEF x, u
      <4> QED BY <3>5, Halves
    <3> QED BY <3>2, <3>3, <3>4, <3>8, <3>9
  <2>6. CASE ~ LowHalf(i, len)
    <3> DEFINE j == i - len
               x == f[j]
               u == f[i]
               w == Sub(x, u)
    <3>1. /\ j \in Index /\ LowHalf(j, len) /\ j + len = i
          /\ Zeta(j, len) = z /\ IZeta(j, len) = y
      BY <1>1, <2>6, Twins
    <3>2. G[i] = Mul(w, y)
      BY <2>6, LayersAre
    <3>3. Layer(G, len)[i] = Sub(G[j], Mul(G[i], z))
      <4> HIDE DEF G
      <4> QED BY <2>6, LayersAre
    <3>4. G[j] = Add(x, u)
      <4> HIDE DEF j, z, y
      <4> QED BY <3>1, LayersAre
    <3> HIDE DEF G, z, y, j
    <3>5. x \in Field /\ u \in Field
      BY <2>4, <3>1
    <3>6. w \in Field
      BY <3>5, AddIn
    <3>8. Mul(Mul(w, y), z) = w
      <4> HIDE DEF w
      <4>1. Mul(Mul(w, y), z) = Mul(w, Mul(y, z))
        BY <2>1, <3>6, MulAssoc
      <4> QED BY <2>3, <3>6, <4>1, MulOne
    <3>9. Sub(Add(x, u), Sub(x, u)) = Add(u, u)
      <4> HIDE DEF x, u
      <4> QED BY <3>5, Halves
    <3> QED BY <3>2, <3>3, <3>4, <3>8, <3>9
  <2> QED BY <2>5, <2>6
<1>6. \A i \in Index : Plus(f, f)[i] = Add(f[i], f[i])
  BY PolyIs
<1> HIDE DEF G
<1>7. Layer(G, len) = Plus(f, f)
  BY <1>4, <1>5, <1>6, SamePoly
<1> QED BY <1>7 DEF G, len

-----------------------------------------------------------------------------
(* The values a fold passes through when each step stays in T: a fold from *)
(* the left takes the last place of a set at last, one from the right the  *)
(* first.                                                                  *)
LeftFolds(h, n, base, step) ==
  h = [s \in SUBSET (1 .. n) |-> IF s = {} THEN base ELSE step[Max(s)][h[s \ {Max(s)}]]]
RightFolds(h, n, base, step) ==
  h = [s \in SUBSET (1 .. n) |-> IF s = {} THEN base ELSE step[Min(s)][h[s \ {Min(s)}]]]
LeftTakes(it, n, T, base, step) ==
  /\ it[{}] = base
  /\ \A s \in SUBSET (1 .. n) :
       s # {} /\ it[s \ {Max(s)}] \in T => it[s] = step[Max(s)][it[s \ {Max(s)}]]
RightTakes(it, n, T, base, step) ==
  /\ it[{}] = base
  /\ \A s \in SUBSET (1 .. n) :
       s # {} /\ it[s \ {Min(s)}] \in T => it[s] = step[Min(s)][it[s \ {Min(s)}]]
Closed(n, T, step) == \A j \in 1 .. n, t \in T : step[j][t] \in T

LEMMA LeftFold ==
  ASSUME NEW n \in Nat, NEW T, NEW base \in T, NEW step,
         Closed(n, T, step)
  PROVE  \E h : /\ LeftFolds(h, n, base, step)
                /\ \A s \in SUBSET (1 .. n) : h[s] \in T
<1> DEFINE pick == [s \in SUBSET (1 .. n) |-> Max(s)]
           next == [s \in SUBSET (1 .. n) |-> step[Max(s)]]
<1>1. Picks(n, pick)
  BY LastPick
<1>2. \A s \in SUBSET (1 .. n), t \in T : s # {} => next[s][t] \in T
  BY <1>1 DEF Picks, Closed
<1>3. PICK h : /\ Folds(h, SUBSET (1 .. n), base, pick, next)
               /\ \A s \in SUBSET (1 .. n) : h[s] \in T
  <2> HIDE DEF pick, next
  <2> QED BY <1>1, <1>2, FoldExists
<1>4. h = [s \in SUBSET (1 .. n) |-> IF s = {} THEN base ELSE next[s][h[s \ {pick[s]}]]]
  BY <1>3 DEF Folds
<1>5. \A s \in SUBSET (1 .. n) :
        next[s][h[s \ {pick[s]}]] = step[Max(s)][h[s \ {Max(s)}]]
  OBVIOUS
<1>6. h = [s \in SUBSET (1 .. n) |-> IF s = {} THEN base ELSE step[Max(s)][h[s \ {Max(s)}]]]
  <2> HIDE DEF pick, next
  <2> QED BY <1>4, <1>5
<1> QED BY <1>3, <1>6 DEF LeftFolds

LEMMA LeftRun ==
  ASSUME NEW n \in Nat, NEW T, NEW base \in T, NEW step,
         Closed(n, T, step),
         NEW it, LeftTakes(it, n, T, base, step)
  PROVE  \E r : /\ Runs(r, n, T, base) /\ r[n] = it[1 .. n]
                /\ \A k \in 0 .. n - 1 : r[k + 1] = step[k + 1][r[k]]
<1> DEFINE r == [k \in 0 .. n |-> it[1 .. k]]
           S == {k \in 0 .. n : r[k] \in T}
<1>1. 1 .. 0 = {} /\ 0 \in 0 .. n /\ n \in 0 .. n
  BY SMT
<1>2. r[0] = base /\ r[n] = it[1 .. n]
  BY <1>1 DEF LeftTakes
<1>3. ASSUME NEW k \in 0 .. n - 1, r[k] \in T
      PROVE  r[k + 1] = step[k + 1][r[k]] /\ r[k + 1] \in T
  <2> DEFINE c == k + 1
             s == 1 .. c
  <2>1. k \in 0 .. n /\ c \in 0 .. n /\ c \in 1 .. n /\ 1 <= c /\ c \in Int /\ 1 \in Int /\ c - 1 = k
    BY SMT
  <2>2. s \in SUBSET (1 .. n)
    BY <2>1, SMT
  <2>3. r[c] = it[s]
    BY <2>1
  <2> HIDE DEF c
  <2>4. Max(s) = c /\ s \ {c} = 1 .. c - 1 /\ s # {}
    BY <2>1, Ends
  <2>5. r[k] = it[1 .. k]
    BY <2>1
  <2>6. it[s \ {Max(s)}] = r[k]
    <3> HIDE DEF s, r
    <3> QED BY <2>1, <2>4, <2>5
  <2> HIDE DEF s, r
  <2>7. it[s] = step[c][r[k]]
    BY <1>3, <2>1, <2>2, <2>4, <2>6 DEF LeftTakes
  <2> QED BY <1>3, <2>1, <2>3, <2>7 DEF c, Closed
<1> HIDE DEF r
<1>4. 0 \in S
  BY <1>1, <1>2
<1>5. \A k \in 0 .. n - 1 : k \in S => k + 1 \in S
  <2>1. \A k \in 0 .. n - 1 : k + 1 \in 0 .. n
    BY SMT
  <2> QED BY <1>3, <2>1
<1>6. \A k \in 0 .. n : k \in S
  <2> HIDE DEF S
  <2> QED BY <1>4, <1>5, UptoInduction
<1>7. r \in [0 .. n -> T]
  BY <1>6 DEF r
<1>8. \A k \in 0 .. n - 1 : r[k + 1] = step[k + 1][r[k]]
  <2>1. \A k \in 0 .. n - 1 : k \in 0 .. n
    BY SMT
  <2> QED BY <1>3, <1>6, <2>1
<1> QED BY <1>2, <1>7, <1>8 DEF Runs

LEMMA RightFold ==
  ASSUME NEW n \in Nat, NEW T, NEW base \in T, NEW step,
         Closed(n, T, step)
  PROVE  \E h : /\ RightFolds(h, n, base, step)
                /\ \A s \in SUBSET (1 .. n) : h[s] \in T
<1> DEFINE pick == [s \in SUBSET (1 .. n) |-> Min(s)]
           next == [s \in SUBSET (1 .. n) |-> step[Min(s)]]
<1>1. Picks(n, pick)
  BY FirstPick
<1>2. \A s \in SUBSET (1 .. n), t \in T : s # {} => next[s][t] \in T
  BY <1>1 DEF Picks, Closed
<1>3. PICK h : /\ Folds(h, SUBSET (1 .. n), base, pick, next)
               /\ \A s \in SUBSET (1 .. n) : h[s] \in T
  <2> HIDE DEF pick, next
  <2> QED BY <1>1, <1>2, FoldExists
<1>4. h = [s \in SUBSET (1 .. n) |-> IF s = {} THEN base ELSE next[s][h[s \ {pick[s]}]]]
  BY <1>3 DEF Folds
<1>5. \A s \in SUBSET (1 .. n) :
        next[s][h[s \ {pick[s]}]] = step[Min(s)][h[s \ {Min(s)}]]
  OBVIOUS
<1>6. h = [s \in SUBSET (1 .. n) |-> IF s = {} THEN base ELSE step[Min(s)][h[s \ {Min(s)}]]]
  <2> HIDE DEF pick, next
  <2> QED BY <1>4, <1>5
<1> QED BY <1>3, <1>6 DEF RightFolds

LEMMA RightRun ==
  ASSUME NEW n \in Nat, NEW T, NEW base \in T, NEW step,
         Closed(n, T, step),
         NEW it, RightTakes(it, n, T, base, step)
  PROVE  \E r : /\ Runs(r, n, T, base) /\ r[n] = it[1 .. n]
                /\ \A k \in 0 .. n - 1 : r[k + 1] = step[n - k][r[k]]
<1> DEFINE r == [k \in 0 .. n |-> it[n - k + 1 .. n]]
           S == {k \in 0 .. n : r[k] \in T}
<1>1. n + 1 .. n = {} /\ 0 \in 0 .. n /\ n \in 0 .. n /\ n - 0 + 1 = n + 1 /\ n - n + 1 = 1
  BY SMT
<1>2. r[0] = base /\ r[n] = it[1 .. n]
  BY <1>1 DEF RightTakes
<1>3. ASSUME NEW k \in 0 .. n - 1, r[k] \in T
      PROVE  r[k + 1] = step[n - k][r[k]] /\ r[k + 1] \in T
  <2> DEFINE c == n - k
             s == c .. n
  <2>1. /\ k \in 0 .. n /\ k + 1 \in 0 .. n /\ n - (k + 1) + 1 = c
        /\ c \in 1 .. n /\ c <= n /\ c \in Int /\ n \in Int
    BY SMT
  <2>2. s \in SUBSET (1 .. n)
    BY <2>1, SMT
  <2>3. r[k + 1] = it[s] /\ r[k] = it[c + 1 .. n]
    BY <2>1
  <2> HIDE DEF c
  <2>4. Min(s) = c /\ s \ {c} = c + 1 .. n /\ s # {}
    BY <2>1, Ends
  <2>6. it[s \ {Min(s)}] = r[k]
    <3> HIDE DEF s, r
    <3> QED BY <2>3, <2>4
  <2> HIDE DEF s, r
  <2>7. it[s] = step[c][r[k]]
    BY <1>3, <2>1, <2>2, <2>4, <2>6 DEF RightTakes
  <2> QED BY <1>3, <2>1, <2>3, <2>7 DEF c, Closed
<1> HIDE DEF r
<1>4. 0 \in S
  BY <1>1, <1>2
<1>5. \A k \in 0 .. n - 1 : k \in S => k + 1 \in S
  <2>1. \A k \in 0 .. n - 1 : k + 1 \in 0 .. n
    BY SMT
  <2> QED BY <1>3, <2>1
<1>6. \A k \in 0 .. n : k \in S
  <2> HIDE DEF S
  <2> QED BY <1>4, <1>5, UptoInduction
<1>7. r \in [0 .. n -> T]
  BY <1>6 DEF r
<1>8. \A k \in 0 .. n - 1 : r[k + 1] = step[n - k][r[k]]
  <2>1. \A k \in 0 .. n - 1 : k \in 0 .. n
    BY SMT
  <2> QED BY <1>3, <1>6, <2>1
<1> QED BY <1>2, <1>7, <1>8 DEF Runs

(* The transforms, modulo Q.                                               *)
NT(f)  == FoldRight(LAMBDA len, g : Layer(g, len), Lens, f)
INT(f) == ScaleBy(F_INVNTT, FoldLeft(Back, f, Lens))

LEMMA NtRun ==
  ASSUME MlKemRingAssumption, NEW f \in Polys
  PROVE  \E r : /\ Runs(r, LAYERS, Polys, f) /\ NT(f) = r[LAYERS]
                /\ \A k \in 0 .. LAYERS - 1 : r[k + 1] = Layer(r[k], Lens[LAYERS - k])
<1> DEFINE n == LAYERS
           step == [j \in 1 .. n |-> [g \in Polys |-> Layer(g, Lens[j])]]
           IsFold(h) == h = [s \in SUBSET (1 .. n) |->
                               IF s = {} THEN f ELSE Layer(h[s \ {Min(s)}], Lens[Min(s)])]
           it == CHOOSE h : IsFold(h)
<1>1. n \in Nat /\ DOMAIN Lens = 1 .. n /\ \A i \in 1 .. n : Lens[i] \in Layers
  BY Degree, LayersFill
<1>2. NT(f) = it[1 .. n]
  BY <1>1 DEF NT, FoldRight, MapThenFoldSet
<1>3. \A j \in 1 .. n, g \in Polys : step[j][g] = Layer(g, Lens[j]) /\ step[j][g] \in Polys
  BY <1>1, LayerIn
<1>4. \A s \in SUBSET (1 .. n) : s # {} => Min(s) \in 1 .. n /\ s \ {Min(s)} \in SUBSET (1 .. n)
  BY <1>1, FirstPick DEF Picks
<1> HIDE DEF step
<1>5. \E h : IsFold(h)
  <2>1. PICK h : /\ RightFolds(h, n, f, step)
                 /\ \A s \in SUBSET (1 .. n) : h[s] \in Polys
    <3>1. Closed(n, Polys, step)
      BY <1>3 DEF Closed
    <3> HIDE DEF n
    <3> QED BY ONLY <1>1, <3>1, f \in Polys, RightFold
  <2>2. \A s \in SUBSET (1 .. n) :
          s # {} => step[Min(s)][h[s \ {Min(s)}]] = Layer(h[s \ {Min(s)}], Lens[Min(s)])
    BY <1>3, <1>4, <2>1
  <2>3. IsFold(h)
    <3> HIDE DEF n
    <3> QED BY <2>1, <2>2 DEF RightFolds
  <2> QED BY <2>3
<1>6. IsFold(it)
  BY <1>5
<1> HIDE DEF it
<1>7. RightTakes(it, n, Polys, f, step)
  <2>1. it = [s \in SUBSET (1 .. n) |->
                IF s = {} THEN f ELSE Layer(it[s \ {Min(s)}], Lens[Min(s)])]
    BY <1>6
  <2> HIDE DEF IsFold, n
  <2> QED BY <1>3, <1>4, <2>1 DEF RightTakes
<1>8. PICK r : /\ Runs(r, n, Polys, f) /\ r[n] = it[1 .. n]
               /\ \A k \in 0 .. n - 1 : r[k + 1] = step[n - k][r[k]]
  <2>1. Closed(n, Polys, step)
    BY <1>3 DEF Closed
  <2> HIDE DEF n, IsFold
  <2> QED BY ONLY <1>1, <1>7, <2>1, f \in Polys, RightRun
<1>9. ASSUME NEW k \in 0 .. n - 1 PROVE r[k + 1] = Layer(r[k], Lens[n - k])
  <2>1. k \in 0 .. n /\ n - k \in 1 .. n
    BY <1>1, SMT
  <2> QED BY <1>3, <1>8, <2>1 DEF Runs
<1> QED BY <1>2, <1>8, <1>9

LEMMA IntRun ==
  ASSUME MlKemRingAssumption, NEW f \in Polys
  PROVE  \E r : /\ Runs(r, LAYERS, Polys, f) /\ INT(f) = ScaleBy(F_INVNTT, r[LAYERS])
                /\ \A k \in 0 .. LAYERS - 1 : r[k + 1] = Back(r[k], Lens[k + 1])
<1> DEFINE n == LAYERS
           step == [j \in 1 .. n |-> [g \in Polys |-> Back(g, Lens[j])]]
           IsFold(h) == h = [s \in SUBSET (1 .. n) |->
                               IF s = {} THEN f ELSE Back(h[s \ {Max(s)}], Lens[Max(s)])]
           it == CHOOSE h : IsFold(h)
<1>1. n \in Nat /\ DOMAIN Lens = 1 .. n /\ \A i \in 1 .. n : Lens[i] \in Layers
  BY Degree, LayersFill
<1>2. INT(f) = ScaleBy(F_INVNTT, it[1 .. n])
  <2>1. FoldLeft(Back, f, Lens) = it[1 .. n]
    BY <1>1 DEF FoldLeft, MapThenFoldSet
  <2> HIDE DEF it, n
  <2> QED BY <2>1 DEF INT
<1>3. \A j \in 1 .. n, g \in Polys : step[j][g] = Back(g, Lens[j]) /\ step[j][g] \in Polys
  BY <1>1, BackIn
<1>4. \A s \in SUBSET (1 .. n) : s # {} => Max(s) \in 1 .. n /\ s \ {Max(s)} \in SUBSET (1 .. n)
  BY <1>1, LastPick DEF Picks
<1> HIDE DEF step
<1>5. \E h : IsFold(h)
  <2>1. PICK h : /\ LeftFolds(h, n, f, step)
                 /\ \A s \in SUBSET (1 .. n) : h[s] \in Polys
    <3>1. Closed(n, Polys, step)
      BY <1>3 DEF Closed
    <3> HIDE DEF n
    <3> QED BY ONLY <1>1, <3>1, f \in Polys, LeftFold
  <2>2. \A s \in SUBSET (1 .. n) :
          s # {} => step[Max(s)][h[s \ {Max(s)}]] = Back(h[s \ {Max(s)}], Lens[Max(s)])
    BY <1>3, <1>4, <2>1
  <2>3. IsFold(h)
    <3> HIDE DEF n
    <3> QED BY <2>1, <2>2 DEF LeftFolds
  <2> QED BY <2>3
<1>6. IsFold(it)
  BY <1>5
<1> HIDE DEF it
<1>7. LeftTakes(it, n, Polys, f, step)
  <2>1. it = [s \in SUBSET (1 .. n) |->
                IF s = {} THEN f ELSE Back(it[s \ {Max(s)}], Lens[Max(s)])]
    BY <1>6
  <2> HIDE DEF IsFold, n
  <2> QED BY <1>3, <1>4, <2>1 DEF LeftTakes
<1>8. PICK r : /\ Runs(r, n, Polys, f) /\ r[n] = it[1 .. n]
               /\ \A k \in 0 .. n - 1 : r[k + 1] = step[k + 1][r[k]]
  <2>1. Closed(n, Polys, step)
    BY <1>3 DEF Closed
  <2> HIDE DEF n, IsFold
  <2> QED BY ONLY <1>1, <1>7, <2>1, f \in Polys, LeftRun
<1>9. ASSUME NEW k \in 0 .. n - 1 PROVE r[k + 1] = Back(r[k], Lens[k + 1])
  <2>1. k \in 0 .. n /\ k + 1 \in 1 .. n
    BY <1>1, SMT
  <2> QED BY <1>3, <1>8, <2>1 DEF Runs
<1> QED BY <1>2, <1>8, <1>9

(* The transforms' factor.                                                 *)
LEMMA Factors ==
  ASSUME MlKemRingAssumption
  PROVE  F_INVNTT \in Field /\ F_MONT \in Field /\ F_INVNTT \in Int /\ F_MONT \in Int
         /\ F_MONT = (WORD * WORD) % Q
<1>1. F_INVNTT \in Field /\ F_MONT = (WORD * WORD) % Q
  BY DEF MlKemRingAssumption, Field
<1>2. WORD * WORD \in Int
  BY Ring, SMT
<1>3. F_MONT \in Field
  <2> DEFINE ww == WORD * WORD
  <2> HIDE DEF ww
  <2> QED BY <1>1, <1>2, IsMod DEF ww
<1> QED BY <1>1, <1>3, FieldInt

LEMMA TransformsIn ==
  ASSUME MlKemRingAssumption, NEW f \in Polys
  PROVE  NT(f) \in Polys /\ INT(f) \in Polys
<1>1. LAYERS \in 0 .. LAYERS
  BY Ring, SMT
<1>2. NT(f) \in Polys
  BY <1>1, NtRun DEF Runs
<1>3. PICK r : Runs(r, LAYERS, Polys, f) /\ INT(f) = ScaleBy(F_INVNTT, r[LAYERS])
  BY IntRun
<1>4. r[LAYERS] \in Polys
  BY <1>1, <1>3 DEF Runs
<1>5. INT(f) \in Polys
  BY <1>3, <1>4, Factors, ScaleIn
<1> QED BY <1>2, <1>5

(* The transforms are linear. *)
LEMMA NtLinear ==
  ASSUME MlKemRingAssumption, NEW f \in Polys, NEW g \in Polys, NEW a \in Field
  PROVE  /\ NT(Plus(f, g)) = Plus(NT(f), NT(g))
         /\ NT(ScaleBy(a, f)) = ScaleBy(a, NT(f))
<1> DEFINE n == LAYERS
           s == Plus(f, g)
           t == ScaleBy(a, f)
<1>1. n \in Nat /\ \A i \in 1 .. n : Lens[i] \in Layers
  BY Degree, LayersFill
<1>2. s \in Polys /\ t \in Polys
  BY PolyOps, ScaleIn
<1> HIDE DEF s, t
<1>3. PICK rf : /\ Runs(rf, n, Polys, f) /\ NT(f) = rf[n]
                /\ \A k \in 0 .. n - 1 : rf[k + 1] = Layer(rf[k], Lens[n - k])
  BY NtRun
<1>4. PICK rg : /\ Runs(rg, n, Polys, g) /\ NT(g) = rg[n]
                /\ \A k \in 0 .. n - 1 : rg[k + 1] = Layer(rg[k], Lens[n - k])
  BY NtRun
<1>5. PICK rs : /\ Runs(rs, n, Polys, s) /\ NT(s) = rs[n]
                /\ \A k \in 0 .. n - 1 : rs[k + 1] = Layer(rs[k], Lens[n - k])
  BY <1>2, NtRun
<1>6. PICK rt : /\ Runs(rt, n, Polys, t) /\ NT(t) = rt[n]
                /\ \A k \in 0 .. n - 1 : rt[k + 1] = Layer(rt[k], Lens[n - k])
  BY <1>2, NtRun
<1> DEFINE S == {k \in 0 .. n : rs[k] = Plus(rf[k], rg[k]) /\ rt[k] = ScaleBy(a, rf[k])}
<1>7. 0 \in S
  <2>1. 0 \in 0 .. n
    BY <1>1, SMT
  <2> QED BY <1>3, <1>4, <1>5, <1>6, <2>1 DEF Runs, s, t
<1>8. ASSUME NEW k \in 0 .. n - 1, k \in S PROVE k + 1 \in S
  <2>1. k \in 0 .. n /\ k + 1 \in 0 .. n /\ n - k \in 1 .. n
    BY <1>1, SMT
  <2>2. rf[k] \in Polys /\ rg[k] \in Polys /\ Lens[n - k] \in Layers
    BY <1>1, <1>3, <1>4, <2>1 DEF Runs
  <2>3. /\ rf[k + 1] = Layer(rf[k], Lens[n - k])
        /\ rg[k + 1] = Layer(rg[k], Lens[n - k])
        /\ rs[k + 1] = Layer(rs[k], Lens[n - k])
        /\ rt[k + 1] = Layer(rt[k], Lens[n - k])
    BY <1>3, <1>4, <1>5, <1>6
  <2>4. rs[k] = Plus(rf[k], rg[k]) /\ rt[k] = ScaleBy(a, rf[k])
    BY <1>8
  <2> QED BY <2>1, <2>2, <2>3, <2>4, LayerLinear
<1>9. n \in S
  <2>1. n \in 0 .. n
    BY <1>1, SMT
  <2> HIDE DEF S, n
  <2> QED BY <1>1, <1>7, <1>8, <2>1, UptoInduction
<1> QED BY <1>3, <1>4, <1>5, <1>6, <1>9 DEF s, t

LEMMA ScaleSum ==
  ASSUME MlKemRingAssumption, NEW a \in Field, NEW f \in Polys, NEW g \in Polys
  PROVE  ScaleBy(a, Plus(f, g)) = Plus(ScaleBy(a, f), ScaleBy(a, g))
<1>1. \A i \in Index : Mul(a, Add(f[i], g[i])) = Add(Mul(a, f[i]), Mul(a, g[i]))
  BY MulAdd DEF Polys
<1> QED BY <1>1 DEF ScaleBy, Plus

LEMMA IntLinear ==
  ASSUME MlKemRingAssumption, NEW f \in Polys, NEW g \in Polys
  PROVE  INT(Plus(f, g)) = Plus(INT(f), INT(g))
<1> DEFINE n == LAYERS
           s == Plus(f, g)
           z == F_INVNTT
<1>1. n \in Nat /\ (\A i \in 1 .. n : Lens[i] \in Layers) /\ z \in Field
  BY Degree, LayersFill, Factors
<1>2. s \in Polys
  BY PolyOps
<1> HIDE DEF s, z
<1>3. PICK rf : /\ Runs(rf, n, Polys, f) /\ INT(f) = ScaleBy(z, rf[n])
                /\ \A k \in 0 .. n - 1 : rf[k + 1] = Back(rf[k], Lens[k + 1])
  BY IntRun DEF z
<1>4. PICK rg : /\ Runs(rg, n, Polys, g) /\ INT(g) = ScaleBy(z, rg[n])
                /\ \A k \in 0 .. n - 1 : rg[k + 1] = Back(rg[k], Lens[k + 1])
  BY IntRun DEF z
<1>5. PICK rs : /\ Runs(rs, n, Polys, s) /\ INT(s) = ScaleBy(z, rs[n])
                /\ \A k \in 0 .. n - 1 : rs[k + 1] = Back(rs[k], Lens[k + 1])
  BY <1>2, IntRun DEF z
<1> DEFINE S == {k \in 0 .. n : rs[k] = Plus(rf[k], rg[k])}
<1>7. 0 \in S
  <2>1. 0 \in 0 .. n
    BY <1>1, SMT
  <2> QED BY <1>3, <1>4, <1>5, <2>1 DEF Runs, s
<1>8. ASSUME NEW k \in 0 .. n - 1, k \in S PROVE k + 1 \in S
  <2>1. k \in 0 .. n /\ k + 1 \in 0 .. n /\ k + 1 \in 1 .. n
    BY <1>1, SMT
  <2>2. rf[k] \in Polys /\ rg[k] \in Polys /\ Lens[k + 1] \in Layers
    BY <1>1, <1>3, <1>4, <2>1 DEF Runs
  <2>3. /\ rf[k + 1] = Back(rf[k], Lens[k + 1])
        /\ rg[k + 1] = Back(rg[k], Lens[k + 1])
        /\ rs[k + 1] = Back(rs[k], Lens[k + 1])
    BY <1>3, <1>4, <1>5
  <2>4. rs[k] = Plus(rf[k], rg[k])
    BY <1>8
  <2> QED BY <1>1, <2>1, <2>2, <2>3, <2>4, BackLinear
<1>9. n \in S
  <2>1. n \in 0 .. n
    BY <1>1, SMT
  <2> HIDE DEF S, n
  <2> QED BY <1>1, <1>7, <1>8, <2>1, UptoInduction
<1>10. rf[n] \in Polys /\ rg[n] \in Polys
  <2>1. n \in 0 .. n
    BY <1>1, SMT
  <2> QED BY <1>3, <1>4, <2>1 DEF Runs
<1>11. ScaleBy(z, Plus(rf[n], rg[n])) = Plus(ScaleBy(z, rf[n]), ScaleBy(z, rg[n]))
  <2> HIDE DEF n
  <2> QED BY <1>1, <1>10, ScaleSum
<1> QED BY <1>3, <1>4, <1>5, <1>9, <1>11 DEF s, z

-----------------------------------------------------------------------------
(* What the way back undoes, but for a factor of a word.                   *)
Square  == (WORD * WORD) % Q
Size(k) == 2 ^ k

LEMMA Sizes ==
  ASSUME MlKemRingAssumption
  PROVE  /\ Size(0) = 1 /\ Size(LAYERS) = DEGREE \div 2
         /\ \A k \in 0 .. LAYERS : Size(k) \in Nat
         /\ \A k \in 0 .. LAYERS - 1 : Size(k + 1) = 2 * Size(k)
<1>1. /\ LAYERS \in Nat /\ SHIFT \in Nat /\ LAYERS < SHIFT /\ 2 ^ 0 = 1
      /\ \A n \in 0 .. SHIFT : 2 ^ n \in Nat /\ 2 ^ (n + 1) = 2 * 2 ^ n
  BY DEF MlKemRingAssumption
<1>2. \A k \in 0 .. LAYERS : k \in 0 .. SHIFT
  BY <1>1, SMT
<1>3. LAYERS \in 0 .. LAYERS /\ \A k \in 0 .. LAYERS - 1 : k \in 0 .. LAYERS
  BY <1>1, SMT
<1>4. DEGREE = 2 * 2 ^ LAYERS /\ 2 ^ LAYERS \in Nat
  BY <1>1, <1>2, <1>3 DEF DEGREE
<1>5. DEGREE \div 2 = 2 ^ LAYERS
  <2> DEFINE p == 2 ^ LAYERS
  <2> HIDE DEF p
  <2>1. (2 * p) \div 2 = p
    BY <1>4, SMT DEF p
  <2> QED BY <1>4, <2>1 DEF p
<1> QED BY <1>1, <1>2, <1>3, <1>5 DEF Size

LEMMA Doubled ==
  ASSUME MlKemRingAssumption, NEW p \in Field, NEW m \in Nat, Is(p, WORD * m)
  PROVE  Add(p, p) \in Field /\ Is(Add(p, p), WORD * (2 * m))
<1> DEFINE s == Add(p, p)
           e == WORD * m
           t == p + p
           u == e + e
<1>1. p \in Int /\ WORD \in Int
  BY FieldInt
<1>2. s \in Field
  BY AddIn
<1>3. s \in Int /\ e \in Int /\ t \in Int /\ u \in Int /\ u = WORD * (2 * m)
  <2>1. s \in Int
    BY <1>2, FieldInt
  <2> QED BY <1>1, <2>1, SMT
<1>4. Is(s, t)
  BY <1>3, IsMod DEF Add
<1>5. Is(p, e)
  OBVIOUS
<1> HIDE DEF s, e
<1>6. Is(t, u)
  BY <1>1, <1>3, <1>5, IsPlus
<1> HIDE DEF t, u
<1>7. Is(s, u)
  BY <1>3, <1>4, <1>6, IsTrans
<1> QED BY <1>2, <1>3, <1>7 DEF s

LEMMA ScaleTwice ==
  ASSUME MlKemRingAssumption, NEW p \in Field, NEW f \in Polys
  PROVE  ScaleBy(p, Plus(f, f)) = ScaleBy(Add(p, p), f)
<1> DEFINE s == Plus(f, f)
           q == Add(p, p)
<1>1. s \in Polys /\ q \in Field
  BY PolyOps, AddIn
<1>2. \A i \in Index : s[i] = Add(f[i], f[i])
  BY PolyIs
<1> HIDE DEF s
<1>3. ScaleBy(p, s) \in Polys /\ ScaleBy(q, f) \in Polys
  <2> HIDE DEF q
  <2> QED BY <1>1, ScaleIn
<1>4. ASSUME NEW i \in Index PROVE ScaleBy(p, s)[i] = ScaleBy(q, f)[i]
  <2>1. f[i] \in Field
    BY DEF Polys
  <2>2. Mul(p, Add(f[i], f[i])) = Add(Mul(p, f[i]), Mul(p, f[i]))
    BY <2>1, MulAdd
  <2>3. Mul(q, f[i]) = Add(Mul(p, f[i]), Mul(p, f[i]))
    BY <2>1, MulSums
  <2> QED BY <1>2, <2>2, <2>3 DEF ScaleBy
<1> HIDE DEF q
<1>5. ScaleBy(p, s) = ScaleBy(q, f)
  BY <1>3, <1>4, SamePoly
<1> QED BY <1>5 DEF s, q

LEMMA ScaleOne ==
  ASSUME MlKemRingAssumption, NEW f \in Polys
  PROVE  One \in Field /\ ScaleBy(One, f) = f /\ Is(One, WORD * 1)
<1>1. 0 \in Field
  BY Ring, SMT DEF Field
<1>2. One \in Field
  BY <1>1, MulOne
<1>3. ScaleBy(One, f) \in Polys
  <2> HIDE DEF One
  <2> QED BY <1>2, ScaleIn
<1>4. \A i \in Index : ScaleBy(One, f)[i] = f[i]
  BY MulOne DEF ScaleBy, Polys
<1>5. ScaleBy(One, f) = f
  BY <1>3, <1>4, SamePoly
<1>6. WORD \in Int /\ WORD * 1 = WORD
  BY Ring, SMT
<1>7. Is(One, WORD)
  BY <1>6, IsMod DEF One
<1> QED BY <1>2, <1>5, <1>6, <1>7

LEMMA BackFactor ==
  ASSUME MlKemRingAssumption, NEW p \in Field, Is(p, WORD * (DEGREE \div 2))
  PROVE  Mul(p, F_INVNTT) = Square /\ Square \in Field
<1> DEFINE m == DEGREE \div 2
           z == F_INVNTT
           w == WORD
           ww == w * w
           zm == z * m
           wm == w * m
           vw == WINV * w
           o == 1
           e1 == (p * z) * WINV
           e2 == (wm * z) * WINV
           e3 == zm * vw
           e4 == ww * vw
           e5 == ww * o
<1>1. w \in Int /\ p \in Int /\ z \in Int /\ WINV \in Int /\ Q \in Nat /\ Q > 0 /\ m \in Int
  <2>1. m \in Int
    BY Degree, SMT
  <2>2. Q \in Nat /\ Q > 0
    BY Ring, SMT
  <2> HIDE DEF m
  <2> QED BY <2>1, <2>2, FieldInt, Factors, WordInverse
<1>2. (zm - ww) % Q = 0
  BY DEF MlKemRingAssumption
<1>3. Is(p, wm) /\ Is(vw, o) /\ o \in Int
  BY WordInverse
<1> HIDE DEF m, z, w
<1>4. ww \in Int /\ zm \in Int /\ wm \in Int /\ vw \in Int
  BY <1>1, SMT
<1>5. e1 \in Int /\ e2 \in Int /\ e3 \in Int /\ e4 \in Int /\ e5 \in Int /\ e5 = ww
      /\ p * z \in Int /\ wm * z \in Int
  <2> HIDE DEF wm, ww, zm, vw
  <2> QED BY <1>1, <1>4, SMT
<1>6. e2 = e3
  BY <1>1, SMT
<1>7. Is(e1, e2)
  <2> HIDE DEF wm
  <2>1. Is(p * z, wm * z)
    BY <1>1, <1>3, <1>4, IsTimes
  <2> DEFINE a == p * z
             b == wm * z
  <2>2. a \in Int /\ b \in Int /\ Is(a, b)
    BY <1>5, <2>1
  <2> HIDE DEF a, b
  <2>3. Is(a * WINV, b * WINV)
    BY <1>1, <2>2, IsTimes
  <2> QED BY <2>3 DEF a, b
<1>8. Is(zm, ww)
  <2> DEFINE x == zm - ww
  <2>1. x \in Int /\ x % Q = 0
    <3>1. x \in Int
      <4> HIDE DEF zm, ww
      <4> QED BY <1>4, SMT
    <3> QED BY <1>2, <3>1
  <2>2. x = Q * (x \div Q) + 0 /\ x \div Q \in Int
    <3> HIDE DEF x
    <3> QED BY <1>1, <2>1, DivMod
  <2> DEFINE k == x \div Q
  <2>3. k \in Int /\ x = Q * k + 0
    BY <2>2
  <2> HIDE DEF k
  <2>4. zm = ww + k * Q
    <3> HIDE DEF zm, ww
    <3> QED BY <1>1, <1>4, <2>3, SMT
  <2> QED BY <2>3, <2>4 DEF Is, Cong
<1> HIDE DEF zm, ww, vw, o
<1>9. Is(e3, e4) /\ Is(e4, e5)
  BY <1>1, <1>3, <1>4, <1>8, IsTimes
<1> HIDE DEF e2, e3, e4, e5
<1>10. Is(e1, ww)
  <2> HIDE DEF e1
  <2>1. Is(e3, e5)
    BY <1>5, <1>9, IsTrans
  <2> QED BY <1>5, <1>6, <1>7, <2>1, IsTrans
<1>11. e1 % Q = ww % Q /\ ww % Q \in Field
  <2> HIDE DEF e1
  <2> QED BY <1>4, <1>5, <1>10, IsEqual, IsMod
<1> QED BY <1>11 DEF Mul, Square, ww, z, w


(* A polynomial that is a multiple of another, by as many words as 2 ^ k.  *)
Multiple(s, g, k) == \E p \in Field : s = ScaleBy(p, g) /\ Is(p, WORD * Size(k))

LEMMA ScaleBoth ==
  ASSUME MlKemRingAssumption, NEW p \in Field, NEW q \in Field, NEW f \in Polys
  PROVE  ScaleBy(q, ScaleBy(p, f)) = ScaleBy(Mul(p, q), f)
<1> DEFINE s == ScaleBy(p, f)
           m == Mul(p, q)
<1>1. s \in Polys /\ m \in Field /\ \A i \in Index : s[i] = Mul(p, f[i])
  BY ScaleIn, MulIn DEF ScaleBy
<1> HIDE DEF s
<1>2. ScaleBy(q, s) \in Polys /\ ScaleBy(m, f) \in Polys
  <2> HIDE DEF m
  <2> QED BY <1>1, ScaleIn
<1>3. ASSUME NEW i \in Index PROVE ScaleBy(q, s)[i] = ScaleBy(m, f)[i]
  <2>1. f[i] \in Field
    BY DEF Polys
  <2>2. Mul(Mul(q, p), f[i]) = Mul(q, Mul(p, f[i]))
    BY <2>1, MulAssoc
  <2>3. Mul(q, p) = Mul(p, q)
    BY MulComm
  <2> QED BY <1>1, <2>2, <2>3 DEF ScaleBy
<1>4. ScaleBy(q, s) = ScaleBy(m, f)
  <2> HIDE DEF m
  <2> QED BY <1>2, <1>3, SamePoly
<1> QED BY <1>4 DEF s, m

LEMMA MultipleStep ==
  ASSUME MlKemRingAssumption, NEW k \in 0 .. LAYERS - 1, NEW j \in 1 .. LAYERS,
         NEW s \in Polys, NEW h \in Polys, Multiple(s, Back(h, Lens[j]), k)
  PROVE  Multiple(Layer(s, Lens[j]), h, k + 1)
<1> DEFINE g == Back(h, Lens[j])
<1>1. Lens[j] \in Layers /\ k \in 0 .. LAYERS /\ LAYERS \in Nat
  BY LayersFill, Ring, SMT
<1>2. Size(k) \in Nat /\ Size(k + 1) = 2 * Size(k)
  BY <1>1, Sizes
<1>3. PICK p \in Field : s = ScaleBy(p, g) /\ Is(p, WORD * Size(k))
  BY DEF Multiple
<1>4. g \in Polys
  BY <1>1, BackIn
<1> DEFINE q == Add(p, p)
           m == Size(k)
<1>5. q \in Field /\ Is(q, WORD * (2 * m))
  <2>1. m \in Nat /\ Is(p, WORD * m)
    BY <1>2, <1>3
  <2> HIDE DEF m
  <2> QED BY <2>1, Doubled
<1>6. Is(q, WORD * Size(k + 1))
  BY <1>2, <1>5
<1>7. ScaleBy(p, Plus(h, h)) = ScaleBy(q, h)
  BY ScaleTwice
<1>8. Layer(g, Lens[j]) = Plus(h, h)
  BY LayerInverts
<1> HIDE DEF q, g
<1>9. Layer(s, Lens[j]) = ScaleBy(p, Layer(g, Lens[j]))
  BY <1>1, <1>3, <1>4, LayerLinear
<1> QED BY <1>5, <1>6, <1>7, <1>8, <1>9 DEF Multiple

(* The factor that Montgomery's products of a transform's length and its   *)
(* reciprocal make up.                                                     *)
LEMMA MultipleEnd ==
  ASSUME MlKemRingAssumption, NEW s, NEW f \in Polys, Multiple(s, f, LAYERS)
  PROVE  ScaleBy(F_INVNTT, s) = ScaleBy(Square, f)
<1>1. PICK p \in Field : s = ScaleBy(p, f) /\ Is(p, WORD * (DEGREE \div 2))
  BY Sizes DEF Multiple
<1>2. Mul(p, F_INVNTT) = Square
  BY <1>1, BackFactor
<1> QED BY <1>1, <1>2, Factors, ScaleBoth

LEMMA BackAndThere ==
  ASSUME MlKemRingAssumption, NEW f \in Polys
  PROVE  NT(INT(f)) = ScaleBy(Square, f)
<1> DEFINE n == LAYERS
           z == F_INVNTT
<1>1. n \in Nat /\ z \in Field
  BY Ring, Factors
<1>2. PICK s : /\ Runs(s, n, Polys, f) /\ INT(f) = ScaleBy(z, s[n])
               /\ \A k \in 0 .. n - 1 : s[k + 1] = Back(s[k], Lens[k + 1])
  BY IntRun
<1> HIDE DEF z
<1> DEFINE g == s[n]
<1>3. g \in Polys
  <2>1. n \in 0 .. n
    BY <1>1, SMT
  <2> QED BY <1>2, <2>1 DEF Runs
<1>5. PICK r : /\ Runs(r, n, Polys, g) /\ NT(g) = r[n]
               /\ \A k \in 0 .. n - 1 : r[k + 1] = Layer(r[k], Lens[n - k])
  <2> HIDE DEF g
  <2> QED BY <1>3, NtRun
<1> DEFINE S == {k \in 0 .. n : Multiple(r[k], s[n - k], k)}
<1>6. 0 \in S
  <2>1. 0 \in 0 .. n /\ n - 0 = n
    BY <1>1, SMT
  <2>2. r[0] = g
    BY <1>5 DEF Runs
  <2> HIDE DEF g
  <2>3. One \in Field /\ ScaleBy(One, g) = g /\ Is(One, WORD * 1)
    BY <1>3, ScaleOne
  <2>4. Size(0) = 1
    BY Sizes
  <2> HIDE DEF n
  <2>5. Multiple(g, g, 0)
    BY <2>3, <2>4 DEF Multiple
  <2> QED BY <2>1, <2>2, <2>5 DEF g
<1>7. ASSUME NEW k \in 0 .. n - 1, k \in S PROVE k + 1 \in S
  <2> DEFINE j == n - (k + 1)
  <2>1. /\ k \in 0 .. n /\ n - k \in 0 .. n /\ j \in 0 .. n /\ j \in 0 .. n - 1
        /\ k + 1 \in 0 .. n /\ j + 1 = n - k /\ n - k \in 1 .. n
    BY <1>1, SMT
  <2> HIDE DEF j, g
  <2>2. r[k] \in Polys /\ s[j] \in Polys
    BY <1>2, <1>5, <2>1 DEF Runs
  <2>3. s[n - k] = Back(s[j], Lens[n - k])
    BY <1>2, <2>1
  <2>5. r[k + 1] = Layer(r[k], Lens[n - k])
    BY <1>5
  <2>6. Multiple(r[k], s[n - k], k)
    BY <1>7
  <2> DEFINE l == n - k
             H == s[j]
             T == r[k]
  <2>7. l \in 1 .. LAYERS /\ Multiple(T, Back(H, Lens[l]), k) /\ T \in Polys
        /\ H \in Polys /\ k \in 0 .. LAYERS - 1
    BY <2>1, <2>2, <2>3, <2>6
  <2> HIDE DEF l, H, T
  <2>8. Multiple(Layer(T, Lens[l]), H, k + 1)
    BY <2>7, MultipleStep
  <2> QED BY <2>1, <2>5, <2>8 DEF j, l, H, T
<1>8. n \in S
  <2>1. n \in 0 .. n
    BY <1>1, SMT
  <2> HIDE DEF S, n
  <2> QED BY <1>1, <1>6, <1>7, <2>1, UptoInduction
<1>9. Multiple(NT(g), f, n)
  <2>1. n - n = 0
    BY <1>1, SMT
  <2> QED BY <1>2, <1>5, <1>8, <2>1 DEF Runs
<1> HIDE DEF g
<1>10. ScaleBy(z, NT(g)) = ScaleBy(Square, f)
  BY <1>9, MultipleEnd DEF z
<1>11. NT(ScaleBy(z, g)) = ScaleBy(z, NT(g))
  BY <1>1, <1>3, NtLinear
<1> QED BY <1>2, <1>10, <1>11 DEF g

-----------------------------------------------------------------------------
(* The code's polynomials of words, and what they are modulo Q.            *)
Words     == [Index -> Half]
Within(b) == [Index -> Near(b)]
Quarter   == {x \in Int : -WORD < 4 * x /\ 4 * x < WORD}
Res(f)    == [i \in Index |-> f[i] % Q]

(* The value of a function is the function.                                *)
LEMMA EvaluatedIs ==
  ASSUME NEW f
  PROVE  Evaluated(f) = f
BY DEF Evaluated

(* What holds of numbers within a bound.                                   *)
LEMMA NearHalf ==
  ASSUME MlKemRingAssumption, NEW b \in Nat, 2 * b < WORD, NEW x \in Near(b)
  PROVE  /\ x \in Int /\ x \in Half /\ -WORD < 2 * x /\ 2 * x < WORD /\ Wrap(x) = x
<1>1. x \in Int /\ -b <= x /\ x <= b /\ WORD \in Nat
  BY Ring DEF Near
<1>2. -WORD < 2 * x /\ 2 * x < WORD /\ -WORD <= 2 * x /\ 2 * x <= WORD
  BY <1>1, SMT
<1>3. Wrap(x) = x
  BY <1>1, <1>2, WrapIs
<1> QED BY <1>1, <1>2, <1>3 DEF Half

LEMMA NearSum ==
  ASSUME NEW a \in Nat, NEW b \in Nat, NEW x \in Near(a), NEW y \in Near(b)
  PROVE  x + y \in Near(a + b) /\ x - y \in Near(a + b) /\ x \in Int /\ y \in Int
BY SMT DEF Near

LEMMA NearMore ==
  ASSUME NEW a \in Nat, NEW b \in Nat, a <= b, NEW x \in Near(a)
  PROVE  x \in Near(b)
BY SMT DEF Near

(* Numbers that are small.                                                 *)
LEMMA Small ==
  ASSUME MlKemRingAssumption
  PROVE  /\ Q \in Nat /\ Q - 1 \in Nat /\ 2 * Q < WORD /\ WORD \in Nat
         /\ \A x \in Near(Q) : x \in Half /\ x \in Quarter /\ x \in Int
         /\ \A x \in Near(Q - 1) : x \in Near(Q)
         /\ \A x \in Field : x \in Near(Q) /\ x \in Int
         /\ \A x \in Quarter : x \in Half /\ x \in Int
<1>1. Q \in Nat /\ Q > 1 /\ WORD \in Nat /\ 6 * Q < WORD
  BY Ring
<1>2. Q - 1 \in Nat /\ 2 * Q < WORD
  BY <1>1, SMT
<1>3. \A x \in Near(Q) : x \in Half /\ x \in Quarter /\ x \in Int
  BY <1>1, SMT DEF Near, Half, Quarter
<1>4. \A x \in Near(Q - 1) : x \in Near(Q)
  BY <1>1, SMT DEF Near
<1>5. \A x \in Field : x \in Near(Q) /\ x \in Int
  BY <1>1, SMT DEF Near, Field
<1>6. \A x \in Quarter : x \in Half /\ x \in Int
  BY <1>1, SMT DEF Quarter, Half
<1> QED BY <1>1, <1>2, <1>3, <1>4, <1>5, <1>6

LEMMA WrapHalf ==
  ASSUME MlKemRingAssumption, NEW x \in Int
  PROVE  Wrap(x) \in Half
BY WrapIs DEF Half

LEMMA HalfInt ==
  ASSUME MlKemRingAssumption
  PROVE  \A x \in Half : x \in Int
BY DEF Half

LEMMA ResIn ==
  ASSUME MlKemRingAssumption, NEW f, \A i \in Index : f[i] \in Int
  PROVE  Res(f) \in Polys
BY IsMod DEF Res, Polys

(* A coefficient plus a product of a zeta.                                 *)
LEMMA Butterfly ==
  ASSUME MlKemRingAssumption, NEW b \in Nat, 2 * (b + Q) < WORD,
         NEW x \in Near(b), NEW y \in Half, NEW z \in Near(Q)
  PROVE  /\ Wrap(x + fqmul(z, y)) \in Near(b + Q)
         /\ Wrap(x + fqmul(z, y)) % Q = Add(x % Q, Mul(y % Q, z % Q))
         /\ Wrap(x - fqmul(z, y)) \in Near(b + Q)
         /\ Wrap(x - fqmul(z, y)) % Q = Sub(x % Q, Mul(y % Q, z % Q))
<1> DEFINE t == fqmul(z, y)
<1>1. z \in Half /\ z \in Int /\ y \in Int /\ Q \in Nat
  BY Small, HalfInt
<1>2. t \in Int /\ t \in Near(Q) /\ t % Q = Mul(z % Q, y % Q)
  BY <1>1, FqmulIs, ResFqmul
<1>3. Mul(z % Q, y % Q) = Mul(y % Q, z % Q)
  BY <1>1, IsMod, MulComm
<1> HIDE DEF t
<1> DEFINE s == x + t
           d == x - t
           c == b + Q
<1>4. s \in Near(c) /\ d \in Near(c) /\ x \in Int /\ c \in Nat /\ 2 * c < WORD
  BY <1>1, <1>2, NearSum
<1>5. s % Q = Add(x % Q, t % Q) /\ d % Q = Sub(x % Q, t % Q)
  BY <1>2, <1>4, ResAdd
<1> HIDE DEF s, d, c
<1>6. Wrap(s) = s /\ Wrap(d) = d
  BY <1>4, NearHalf
<1> QED BY <1>2, <1>3, <1>4, <1>5, <1>6 DEF s, d, c, t

(* A layer on the way there adds at most a product to a coefficient.       *)
LEMMA NttLayerForm ==
  ASSUME NEW f, NEW len
  PROVE  NttLayer(f, len) =
           [i \in Index |-> IF LowHalf(i, len)
                            THEN Wrap(f[i] + fqmul(NttZeta(i, len), f[i + len]))
                            ELSE Wrap(f[i - len] - fqmul(NttZeta(i, len), f[i]))]
<1> DEFINE g == [i \in Index |->
                   IF LowHalf(i, len)
                   THEN Wrap(f[i] + fqmul(NttZeta(i, len), f[IF LowHalf(i, len) THEN i + len ELSE i]))
                   ELSE Wrap(f[i - len] - fqmul(NttZeta(i, len), f[IF LowHalf(i, len) THEN i + len ELSE i]))]
<1>1. NttLayer(f, len) = Evaluated(g)
  BY DEF NttLayer, Coeffs
<1>2. Evaluated(g) = g
  BY EvaluatedIs
<1> QED BY <1>1, <1>2

LEMMA NttLayerWords ==
  ASSUME MlKemRingAssumption, NEW f \in Words, NEW len \in Layers
  PROVE  NttLayer(f, len) \in Words
<1>1. ASSUME NEW i \in Index PROVE NttLayer(f, len)[i] \in Half
  <2> DEFINE z == NttZeta(i, len)
  <2>1. z \in Half /\ (\A j \in Index : f[j] \in Half)
    BY Places, Small DEF Words
  <2>2. /\ LowHalf(i, len) => i + len \in Index
        /\ ~ LowHalf(i, len) => i - len \in Index
    BY Places
  <2>3. NttLayer(f, len)[i] = IF LowHalf(i, len)
                              THEN Wrap(f[i] + fqmul(z, f[i + len]))
                              ELSE Wrap(f[i - len] - fqmul(z, f[i]))
    BY NttLayerForm
  <2> HIDE DEF z
  <2>4. CASE LowHalf(i, len)
    <3>1. f[i] \in Int /\ fqmul(z, f[i + len]) \in Int
      BY <2>1, <2>2, <2>4, HalfInt, FqmulIs
    <3> DEFINE e == f[i] + fqmul(z, f[i + len])
    <3>2. e \in Int
      BY <3>1, SMT
    <3> QED BY <2>3, <2>4, <3>2, WrapHalf
  <2>5. CASE ~ LowHalf(i, len)
    <3>1. f[i - len] \in Int /\ fqmul(z, f[i]) \in Int
      BY <2>1, <2>2, <2>5, HalfInt, FqmulIs
    <3> DEFINE e == f[i - len] - fqmul(z, f[i])
    <3>2. e \in Int
      BY <3>1, SMT
    <3> QED BY <2>3, <2>5, <3>2, WrapHalf
  <2> QED BY <2>4, <2>5
<1> QED BY <1>1, NttLayerForm DEF Words

LEMMA NttLayerIs ==
  ASSUME MlKemRingAssumption, NEW b \in Nat, 2 * (b + Q) < WORD,
         NEW f \in Within(b), NEW len \in Layers
  PROVE  /\ NttLayer(f, len) \in Within(b + Q)
         /\ Res(NttLayer(f, len)) = Layer(Res(f), len)
<1> DEFINE g == NttLayer(f, len)
           h == Layer(Res(f), len)
<1>0. 2 * b < WORD /\ Q \in Nat
  BY Ring, SMT
<1>1. \A j \in Index : f[j] \in Near(b) /\ f[j] \in Half /\ f[j] \in Int
  BY <1>0, NearHalf DEF Within
<1>2. ASSUME NEW i \in Index PROVE g[i] \in Near(b + Q) /\ g[i] % Q = h[i]
  <2> DEFINE z == NttZeta(i, len)
  <2>1. z \in Near(Q) /\ Zeta(i, len) = z % Q
    BY Places DEF Zeta
  <2>2. /\ LowHalf(i, len) => i + len \in Index
        /\ ~ LowHalf(i, len) => i - len \in Index
    BY Places
  <2>3. g[i] = IF LowHalf(i, len) THEN Wrap(f[i] + fqmul(z, f[i + len]))
                                  ELSE Wrap(f[i - len] - fqmul(z, f[i]))
    BY NttLayerForm
  <2>4. h[i] = IF LowHalf(i, len)
               THEN Add(Res(f)[i], Mul(Res(f)[i + len], Zeta(i, len)))
               ELSE Sub(Res(f)[i - len], Mul(Res(f)[i], Zeta(i, len)))
    BY LayersAre
  <2>5. \A j \in Index : Res(f)[j] = f[j] % Q
    BY DEF Res
  <2> HIDE DEF z, g, h
  <2>6. CASE LowHalf(i, len)
    <3> DEFINE x == f[i]
               y == f[i + len]
    <3>1. x \in Near(b) /\ y \in Half
      BY <1>1, <2>2, <2>6
    <3>2. g[i] = Wrap(x + fqmul(z, y)) /\ h[i] = Add(x % Q, Mul(y % Q, z % Q))
      BY <2>1, <2>2, <2>3, <2>4, <2>5, <2>6
    <3> HIDE DEF x, y
    <3> QED BY <2>1, <3>1, <3>2, Butterfly
  <2>7. CASE ~ LowHalf(i, len)
    <3> DEFINE x == f[i - len]
               y == f[i]
    <3>1. x \in Near(b) /\ y \in Half
      BY <1>1, <2>2, <2>7
    <3>2. g[i] = Wrap(x - fqmul(z, y)) /\ h[i] = Sub(x % Q, Mul(y % Q, z % Q))
      BY <2>1, <2>2, <2>3, <2>4, <2>5, <2>7
    <3> HIDE DEF x, y
    <3> QED BY <2>1, <3>1, <3>2, Butterfly
  <2> QED BY <2>6, <2>7
<1>3. g \in Within(b + Q)
  BY <1>2, NttLayerForm DEF Within
<1>4. Res(f) \in Polys
  BY <1>1, ResIn
<1>5. h \in Polys
  BY <1>4, LayerIn
<1>6. Res(g) = h
  <2> HIDE DEF g, h
  <2>1. h = [i \in Index |-> h[i]]
    BY <1>5 DEF Polys
  <2> QED BY <1>2, <2>1 DEF Res
<1> QED BY <1>3, <1>6

(* ntt: a bound for what every layer adds.                                 *)
LEMMA NttIs ==
  ASSUME MlKemRingAssumption, NEW f \in Within(Q)
  PROVE  /\ ntt(f) \in Within((LAYERS + 1) * Q)
         /\ Res(ntt(f)) = NT(Res(f))
<1> DEFINE n == LAYERS
           step == [j \in 1 .. n |-> [g \in Words |-> NttLayer(g, Lens[j])]]
           IsFold(h) == h = [s \in SUBSET (1 .. n) |->
                               IF s = {} THEN f ELSE NttLayer(h[s \ {Min(s)}], Lens[Min(s)])]
           it == CHOOSE h : IsFold(h)
<1>0. f \in Words /\ Q \in Nat /\ Res(f) \in Polys
  <2>1. \A i \in Index : f[i] \in Near(Q)
    BY DEF Within
  <2>2. \A i \in Index : f[i] \in Half /\ f[i] \in Int
    BY <2>1, Small
  <2>3. f \in Words
    BY <2>2 DEF Words, Within
  <2> QED BY <2>2, <2>3, Small, ResIn
<1>1. /\ n \in Nat /\ DOMAIN Lens = 1 .. n /\ \A i \in 1 .. n : Lens[i] \in Layers
      /\ 2 * ((n + 2) * Q) < WORD /\ WORD \in Nat
  BY Degree, LayersFill, Ring
<1>2. ntt(f) = it[1 .. n]
  BY <1>1 DEF ntt, FoldRight, MapThenFoldSet
<1>3. \A j \in 1 .. n, g \in Words : step[j][g] = NttLayer(g, Lens[j]) /\ step[j][g] \in Words
  BY <1>1, NttLayerWords
<1>4. \A s \in SUBSET (1 .. n) : s # {} => Min(s) \in 1 .. n /\ s \ {Min(s)} \in SUBSET (1 .. n)
  BY <1>1, FirstPick DEF Picks
<1> HIDE DEF step
<1>5. Closed(n, Words, step)
  BY <1>3 DEF Closed
<1>6. IsFold(it)
  <2>1. PICK h : /\ RightFolds(h, n, f, step)
                 /\ \A s \in SUBSET (1 .. n) : h[s] \in Words
    <3> HIDE DEF n
    <3> QED BY ONLY <1>0, <1>1, <1>5, RightFold
  <2>2. \A s \in SUBSET (1 .. n) :
          s # {} => step[Min(s)][h[s \ {Min(s)}]] = NttLayer(h[s \ {Min(s)}], Lens[Min(s)])
    BY <1>3, <1>4, <2>1
  <2>3. IsFold(h)
    <3> HIDE DEF n
    <3> QED BY <2>1, <2>2 DEF RightFolds
  <2> QED BY <2>3
<1> HIDE DEF it
<1>7. RightTakes(it, n, Words, f, step)
  <2>1. it = [s \in SUBSET (1 .. n) |->
                IF s = {} THEN f ELSE NttLayer(it[s \ {Min(s)}], Lens[Min(s)])]
    BY <1>6
  <2> HIDE DEF IsFold, n
  <2> QED BY <1>3, <1>4, <2>1 DEF RightTakes
<1>8. PICK r : /\ Runs(r, n, Words, f) /\ r[n] = it[1 .. n]
               /\ \A k \in 0 .. n - 1 : r[k + 1] = step[n - k][r[k]]
  <2> HIDE DEF n, IsFold
  <2> QED BY ONLY <1>0, <1>1, <1>5, <1>7, RightRun
<1>9. \A k \in 0 .. n - 1 : r[k + 1] = NttLayer(r[k], Lens[n - k])
  <2> TAKE k \in 0 .. n - 1
  <2>1. k \in 0 .. n /\ n - k \in 1 .. n
    BY <1>1, SMT
  <2> QED BY <1>3, <1>8, <2>1 DEF Runs
<1>10. PICK c : /\ Runs(c, n, Polys, Res(f)) /\ NT(Res(f)) = c[n]
                /\ \A k \in 0 .. n - 1 : c[k + 1] = Layer(c[k], Lens[n - k])
  BY <1>0, NtRun
<1> HIDE DEF IsFold
<1> DEFINE S == {k \in 0 .. n : r[k] \in Within((k + 1) * Q) /\ Res(r[k]) = c[k]}
<1>11. 0 \in S
  <2>1. 0 \in 0 .. n /\ (0 + 1) * Q = Q
    BY <1>0, <1>1, SMT
  <2> QED BY <1>8, <1>10, <2>1 DEF Runs
<1>12. ASSUME NEW k \in 0 .. n - 1, k \in S PROVE k + 1 \in S
  <2> DEFINE b == (k + 1) * Q
             g == r[k]
             len == Lens[n - k]
  <2>1. k \in 0 .. n /\ k + 1 \in 0 .. n /\ n - k \in 1 .. n /\ k + 2 <= n + 2 /\ k + 2 \in Int
        /\ n + 2 \in Int
    BY <1>1, SMT
  <2>2. b \in Nat /\ b + Q = ((k + 1) + 1) * Q /\ b + Q = Q * (k + 2)
    BY <1>0, <2>1, SMT
  <2>3. Q * (k + 2) <= Q * (n + 2)
    BY <1>0, <2>1, Times2
  <2>4. 2 * (b + Q) < WORD
    <3> HIDE DEF b
    <3>1. b + Q <= (n + 2) * Q /\ (n + 2) * Q \in Int
      BY <1>0, <2>1, <2>2, <2>3, SMT
    <3> DEFINE e == (n + 2) * Q
    <3> HIDE DEF e
    <3>2. 2 * e < WORD /\ b + Q <= e /\ e \in Int
      BY <1>1, <3>1 DEF e
    <3> QED BY <1>0, <1>1, <2>2, <3>2, SMT
  <2>5. g \in Within(b) /\ Res(g) = c[k] /\ len \in Layers
    BY <1>1, <1>12, <2>1
  <2>6. r[k + 1] = NttLayer(g, len) /\ c[k + 1] = Layer(c[k], len)
    BY <1>9, <1>10
  <2> HIDE DEF b, g, len
  <2>7. NttLayer(g, len) \in Within(b + Q) /\ Res(NttLayer(g, len)) = Layer(Res(g), len)
    BY <2>2, <2>4, <2>5, NttLayerIs
  <2> QED BY <2>1, <2>2, <2>5, <2>6, <2>7
<1>13. n \in S
  <2>1. n \in 0 .. n
    BY <1>1, SMT
  <2> HIDE DEF S, n
  <2> QED BY <1>1, <1>11, <1>12, <2>1, UptoInduction
<1> QED BY <1>2, <1>8, <1>10, <1>13

(* A layer on the way back: sums and differences of two.                   *)
LEMMA InvLayerForm ==
  ASSUME NEW f, NEW len
  PROVE  InvLayer(f, len) =
           [i \in Index |-> IF LowHalf(i, len)
                            THEN barrett_reduce(Wrap(f[i] + f[i + len]))
                            ELSE fqmul(InvZeta(i, len), Wrap(f[i] - f[i - len]))]
BY EvaluatedIs DEF InvLayer, Coeffs

LEMMA TwoSums ==
  ASSUME MlKemRingAssumption, NEW x \in Quarter, NEW y \in Quarter, NEW z \in Near(Q)
  PROVE  /\ barrett_reduce(Wrap(x + y)) \in Near(Q)
         /\ barrett_reduce(Wrap(x + y)) % Q = Add(x % Q, y % Q)
         /\ fqmul(z, Wrap(y - x)) \in Near(Q)
         /\ fqmul(z, Wrap(y - x)) % Q = Mul(Sub(x % Q, y % Q), (-z) % Q)
<1> DEFINE s == x + y
           d == y - x
           m == x - y
           w == -z
<1>1. /\ x \in Int /\ y \in Int /\ z \in Int /\ z \in Half /\ WORD \in Nat /\ Q \in Nat
      /\ -WORD < 4 * x /\ 4 * x < WORD /\ -WORD < 4 * y /\ 4 * y < WORD
  BY Small DEF Quarter
<1>2. /\ s \in Int /\ d \in Int /\ m \in Int /\ w \in Int /\ d = -m
      /\ -WORD < 2 * s /\ 2 * s < WORD /\ -WORD < 2 * d /\ 2 * d < WORD
  BY <1>1, SMT
<1>3. s % Q = Add(x % Q, y % Q) /\ m % Q = Sub(x % Q, y % Q)
  BY <1>1, ResAdd
<1> HIDE DEF s, d, m
<1>4. Wrap(s) = s /\ Wrap(d) = d /\ s \in Half /\ d \in Half
  BY <1>1, <1>2, WrapIs DEF Half
<1>5. barrett_reduce(s) \in Near(Q) /\ barrett_reduce(s) % Q = s % Q
  BY <1>2, <1>4, BarrettIs, Small, IsEqual
<1>6. fqmul(z, d) \in Near(Q) /\ fqmul(z, d) % Q = Mul(z % Q, d % Q)
  BY <1>1, <1>4, FqmulIs, ResFqmul
<1>7. Mul(z % Q, d % Q) = Mul(m % Q, w % Q)
  <2>1. Mul(z % Q, d % Q) = Mul(z, d)
    BY <1>1, <1>2, ResMul
  <2>2. Mul(m % Q, w % Q) = Mul(m, w)
    <3> HIDE DEF w
    <3> QED BY <1>2, ResMul
  <2>3. z * d = m * w
    BY <1>1, <1>2, SMT
  <2> HIDE DEF w
  <2> QED BY <2>1, <2>2, <2>3 DEF Mul
<1> QED BY <1>3, <1>4, <1>5, <1>6, <1>7 DEF s, d, m

LEMMA InvLayerIs ==
  ASSUME MlKemRingAssumption, NEW f \in [Index -> Quarter], NEW len \in Layers
  PROVE  /\ InvLayer(f, len) \in Within(Q)
         /\ Res(InvLayer(f, len)) = Back(Res(f), len)
<1> DEFINE g == InvLayer(f, len)
           h == Back(Res(f), len)
<1>1. \A j \in Index : f[j] \in Quarter /\ f[j] \in Int
  BY Small
<1>2. ASSUME NEW i \in Index PROVE g[i] \in Near(Q) /\ g[i] % Q = h[i]
  <2> DEFINE z == InvZeta(i, len)
  <2>1. z \in Near(Q) /\ IZeta(i, len) = (-z) % Q
    BY Places DEF IZeta
  <2>2. /\ LowHalf(i, len) => i + len \in Index
        /\ ~ LowHalf(i, len) => i - len \in Index
    BY Places
  <2>3. g[i] = IF LowHalf(i, len) THEN barrett_reduce(Wrap(f[i] + f[i + len]))
                                  ELSE fqmul(z, Wrap(f[i] - f[i - len]))
    BY InvLayerForm
  <2>4. h[i] = IF LowHalf(i, len) THEN Add(Res(f)[i], Res(f)[i + len])
               ELSE Mul(Sub(Res(f)[i - len], Res(f)[i]), IZeta(i, len))
    BY LayersAre
  <2>5. \A j \in Index : Res(f)[j] = f[j] % Q
    BY DEF Res
  <2> HIDE DEF z, g, h
  <2>6. CASE LowHalf(i, len)
    <3> DEFINE x == f[i]
               y == f[i + len]
    <3>1. x \in Quarter /\ y \in Quarter
      BY <1>1, <2>2, <2>6
    <3>2. g[i] = barrett_reduce(Wrap(x + y)) /\ h[i] = Add(x % Q, y % Q)
      BY <2>1, <2>2, <2>3, <2>4, <2>5, <2>6
    <3> HIDE DEF x, y
    <3> QED BY <2>1, <3>1, <3>2, TwoSums
  <2>7. CASE ~ LowHalf(i, len)
    <3> DEFINE x == f[i - len]
               y == f[i]
    <3>1. x \in Quarter /\ y \in Quarter
      BY <1>1, <2>2, <2>7
    <3>2. g[i] = fqmul(z, Wrap(y - x)) /\ h[i] = Mul(Sub(x % Q, y % Q), (-z) % Q)
      BY <2>1, <2>2, <2>3, <2>4, <2>5, <2>7
    <3> HIDE DEF x, y
    <3> QED BY <2>1, <3>1, <3>2, TwoSums
  <2> QED BY <2>6, <2>7
<1>3. g \in Within(Q)
  BY <1>2, InvLayerForm DEF Within
<1>4. Res(f) \in Polys
  BY <1>1, ResIn
<1>5. h \in Polys
  BY <1>4, BackIn
<1>6. Res(g) = h
  <2> HIDE DEF g, h
  <2>1. h = [i \in Index |-> h[i]]
    BY <1>5 DEF Polys
  <2> QED BY <1>2, <2>1 DEF Res
<1> QED BY <1>3, <1>6

(* invntt.                                                                 *)
LEMMA InvIs ==
  ASSUME MlKemRingAssumption, NEW f \in [Index -> Quarter]
  PROVE  /\ invntt(f) \in Within(Q)
         /\ Res(invntt(f)) = INT(Res(f))
<1> DEFINE n == LAYERS
           T == [Index -> Quarter]
           step == [j \in 1 .. n |-> [g \in T |-> InvLayer(g, Lens[j])]]
           IsFold(h) == h = [s \in SUBSET (1 .. n) |->
                               IF s = {} THEN f ELSE InvLayer(h[s \ {Max(s)}], Lens[Max(s)])]
           it == CHOOSE h : IsFold(h)
<1>0. f \in T /\ Q \in Nat /\ Res(f) \in Polys
  <2>1. \A i \in Index : f[i] \in Int
    BY Small
  <2> QED BY <2>1, Small, ResIn
<1>1. n \in Nat /\ DOMAIN Lens = 1 .. n /\ \A i \in 1 .. n : Lens[i] \in Layers
  BY Degree, LayersFill
<1>2. invntt(f) = [i \in Index |-> fqmul(F_INVNTT, it[1 .. n][i])]
  <2>1. FoldLeft(InvLayer, f, Lens) = it[1 .. n]
    BY <1>1 DEF FoldLeft, MapThenFoldSet
  <2> HIDE DEF it, n
  <2> QED BY <2>1, EvaluatedIs DEF invntt, Coeffs
<1>3. \A j \in 1 .. n, g \in T : step[j][g] = InvLayer(g, Lens[j]) /\ step[j][g] \in T
  <2>1. \A g \in Within(Q) : g \in T
    BY Small DEF Within
  <2> QED BY <1>1, <2>1, InvLayerIs
<1>4. \A s \in SUBSET (1 .. n) : s # {} => Max(s) \in 1 .. n /\ s \ {Max(s)} \in SUBSET (1 .. n)
  BY <1>1, LastPick DEF Picks
<1> HIDE DEF step, T
<1>5. Closed(n, T, step)
  BY <1>3 DEF Closed
<1>6. IsFold(it)
  <2>1. PICK h : /\ LeftFolds(h, n, f, step)
                 /\ \A s \in SUBSET (1 .. n) : h[s] \in T
    <3> HIDE DEF n
    <3> QED BY ONLY <1>0, <1>1, <1>5, LeftFold
  <2>2. \A s \in SUBSET (1 .. n) :
          s # {} => step[Max(s)][h[s \ {Max(s)}]] = InvLayer(h[s \ {Max(s)}], Lens[Max(s)])
    BY <1>3, <1>4, <2>1
  <2>3. IsFold(h)
    <3> HIDE DEF n
    <3> QED BY <2>1, <2>2 DEF LeftFolds
  <2> QED BY <2>3
<1> HIDE DEF it
<1>7. LeftTakes(it, n, T, f, step)
  <2>1. it = [s \in SUBSET (1 .. n) |->
                IF s = {} THEN f ELSE InvLayer(it[s \ {Max(s)}], Lens[Max(s)])]
    BY <1>6
  <2> HIDE DEF IsFold, n
  <2> QED BY <1>3, <1>4, <2>1 DEF LeftTakes
<1>8. PICK r : /\ Runs(r, n, T, f) /\ r[n] = it[1 .. n]
               /\ \A k \in 0 .. n - 1 : r[k + 1] = step[k + 1][r[k]]
  <2> HIDE DEF n, IsFold
  <2> QED BY ONLY <1>0, <1>1, <1>5, <1>7, LeftRun
<1>9. \A k \in 0 .. n - 1 : r[k + 1] = InvLayer(r[k], Lens[k + 1])
  <2> TAKE k \in 0 .. n - 1
  <2>1. k \in 0 .. n /\ k + 1 \in 1 .. n
    BY <1>1, SMT
  <2> QED BY <1>3, <1>8, <2>1 DEF Runs
<1>10. PICK c : /\ Runs(c, n, Polys, Res(f)) /\ INT(Res(f)) = ScaleBy(F_INVNTT, c[n])
                /\ \A k \in 0 .. n - 1 : c[k + 1] = Back(c[k], Lens[k + 1])
  BY <1>0, IntRun
<1> HIDE DEF IsFold
<1> DEFINE S == {k \in 0 .. n : Res(r[k]) = c[k]}
<1>11. 0 \in S
  <2>1. 0 \in 0 .. n
    BY <1>1, SMT
  <2> QED BY <1>8, <1>10, <2>1 DEF Runs
<1>12. ASSUME NEW k \in 0 .. n - 1, k \in S PROVE k + 1 \in S
  <2>1. k \in 0 .. n /\ k + 1 \in 0 .. n /\ k + 1 \in 1 .. n
    BY <1>1, SMT
  <2>2. r[k] \in [Index -> Quarter] /\ Res(r[k]) = c[k] /\ Lens[k + 1] \in Layers
    BY <1>1, <1>8, <1>12, <2>1 DEF Runs, T
  <2>3. r[k + 1] = InvLayer(r[k], Lens[k + 1]) /\ c[k + 1] = Back(c[k], Lens[k + 1])
    BY <1>9, <1>10
  <2>4. Res(InvLayer(r[k], Lens[k + 1])) = Back(Res(r[k]), Lens[k + 1])
    BY <2>2, InvLayerIs
  <2> QED BY <2>1, <2>2, <2>3, <2>4
<1>13. n \in S /\ n \in 0 .. n
  <2>1. n \in 0 .. n
    BY <1>1, SMT
  <2> HIDE DEF S, n
  <2> QED BY <1>1, <1>11, <1>12, <2>1, UptoInduction
<1> DEFINE g == r[n]
<1>14. g \in T /\ Res(g) = c[n] /\ invntt(f) = [i \in Index |-> fqmul(F_INVNTT, g[i])]
  BY <1>2, <1>8, <1>13 DEF Runs
<1> HIDE DEF g
<1>15. ASSUME NEW i \in Index
       PROVE  /\ fqmul(F_INVNTT, g[i]) \in Near(Q)
              /\ fqmul(F_INVNTT, g[i]) % Q = Mul(F_INVNTT, g[i] % Q)
  <2>1. g[i] \in Half /\ F_INVNTT \in Near(Q) /\ F_INVNTT \in Half
    BY <1>14, Small, Factors DEF T
  <2>2. F_INVNTT % Q = F_INVNTT
    BY Factors, FieldInt
  <2> QED BY <2>1, <2>2, FqmulIs, ResFqmul
<1>16. invntt(f) \in Within(Q)
  BY <1>14, <1>15 DEF Within
<1>17. Res(invntt(f)) = [i \in Index |-> Mul(F_INVNTT, Res(g)[i])]
  BY <1>14, <1>15 DEF Res
<1> QED BY <1>10, <1>14, <1>16, <1>17 DEF ScaleBy

-----------------------------------------------------------------------------
(* Products of pairs of coefficients.                                      *)
PairZeta(i) == IF i % 4 < 2 THEN ZETAS[DEGREE \div 4 + i \div 4]
                            ELSE -ZETAS[DEGREE \div 4 + i \div 4]
Times(a, b) ==
  [i \in Index |->
     IF i % 2 = 0 THEN Add(Mul(Mul(a[i + 1], b[i + 1]), PairZeta(i) % Q), Mul(a[i], b[i]))
                  ELSE Add(Mul(a[i - 1], b[i]), Mul(a[i], b[i - 1]))]

LEMMA BasemulForm ==
  ASSUME NEW a, NEW b
  PROVE  poly_basemul(a, b) =
           [i \in Index |->
              IF i % 2 = 0
              THEN Wrap(fqmul(fqmul(a[i + 1], b[i + 1]), PairZeta(i)) + fqmul(a[i], b[i]))
              ELSE Wrap(fqmul(a[i - 1], b[i]) + fqmul(a[i], b[i - 1]))]
BY EvaluatedIs DEF poly_basemul, Coeffs, PairZeta

(* The two places of a pair.                                               *)
LEMMA Pairs ==
  ASSUME MlKemRingAssumption, NEW i \in Index
  PROVE  /\ i % 2 = 0 => i + 1 \in Index
         /\ i % 2 # 0 => i - 1 \in Index
         /\ PairZeta(i) \in Near(Q) /\ PairZeta(i) \in Int /\ PairZeta(i) % Q \in Field
<1>1. 2 \in Layers /\ DEGREE \in Nat
  <2>1. 1 \in 1 .. LAYERS /\ Lens[1] = 2 /\ DEGREE \in Nat
    BY Degree, SMT
  <2> QED BY <2>1, LayersFill
<1>2. 2 \in 2 .. DEGREE \div 2 /\ DEGREE % (2 * 2) = 0 /\ i \in 0 .. DEGREE - 1
  BY <1>1 DEF Layers, Index
<1>3. (DEGREE \div (2 * 2)) + (i \div (2 * 2)) \in 0 .. DEGREE \div 2 - 1
  BY <1>1, <1>2, Blocks
<1>4. (DEGREE \div 4) + (i \div 4) \in 0 .. DEGREE \div 2 - 1 /\ DEGREE % 4 = 0
  BY <1>2, <1>3, SMT
<1> DEFINE k == (DEGREE \div 4) + (i \div 4)
<1>5. ZETAS[k] \in Near(Q)
  <2> HIDE DEF k
  <2>1. k \in 0 .. DEGREE \div 2 - 1
    BY <1>4 DEF k
  <2> QED BY <2>1, Table
<1>6. PairZeta(i) = ZETAS[k] \/ PairZeta(i) = -ZETAS[k]
  BY DEF PairZeta
<1> HIDE DEF k
<1>7. PairZeta(i) \in Near(Q) /\ PairZeta(i) \in Int
  BY <1>5, <1>6, Ring, SMT DEF Near
<1>8. /\ i % 2 = 0 => i + 1 \in 0 .. DEGREE - 1
      /\ i % 2 # 0 => i - 1 \in 0 .. DEGREE - 1
  BY <1>1, <1>2, <1>4, SMT
<1> QED BY <1>7, <1>8, IsMod DEF Index

LEMMA TwoProducts ==
  ASSUME MlKemRingAssumption, NEW u \in Near(Q), NEW v \in Near(Q)
  PROVE  /\ Wrap(u + v) \in Near(2 * Q)
         /\ Wrap(u + v) % Q = Add(u % Q, v % Q)
<1> DEFINE c == Q + Q
           s == u + v
<1>1. Q \in Nat /\ WORD \in Nat /\ 6 * Q < WORD
  BY Ring
<1>2. c \in Nat /\ 2 * c < WORD /\ c = 2 * Q
  BY <1>1, SMT
<1>3. s \in Near(c) /\ u \in Int /\ v \in Int
  BY <1>1, NearSum
<1>4. s % Q = Add(u % Q, v % Q)
  BY <1>3, ResAdd
<1> HIDE DEF s, c
<1>5. Wrap(s) = s
  BY <1>2, <1>3, NearHalf
<1> QED BY <1>2, <1>3, <1>4, <1>5 DEF s

LEMMA BasemulIs ==
  ASSUME MlKemRingAssumption, NEW a \in Polys, NEW b \in Words
  PROVE  /\ poly_basemul(a, b) \in Within(2 * Q)
         /\ Res(poly_basemul(a, b)) = Times(a, Res(b))
<1> DEFINE g == poly_basemul(a, b)
           h == Times(a, Res(b))
<1>1. \A j \in Index : /\ a[j] \in Near(Q) /\ a[j] \in Half /\ a[j] % Q = a[j] /\ a[j] \in Field
                       /\ b[j] \in Half
  BY Small, FieldInt DEF Polys, Words
<1>2. \A j, l \in Index : /\ fqmul(a[j], b[l]) \in Near(Q)
                          /\ fqmul(a[j], b[l]) % Q = Mul(a[j], b[l] % Q)
  BY <1>1, FqmulIs, ResFqmul
<1>3. \A j \in Index : Res(b)[j] = b[j] % Q
  BY DEF Res
<1>4. ASSUME NEW i \in Index PROVE g[i] \in Near(2 * Q) /\ g[i] % Q = h[i]
  <2>1. g[i] = IF i % 2 = 0
               THEN Wrap(fqmul(fqmul(a[i + 1], b[i + 1]), PairZeta(i)) + fqmul(a[i], b[i]))
               ELSE Wrap(fqmul(a[i - 1], b[i]) + fqmul(a[i], b[i - 1]))
    BY BasemulForm
  <2>2. h[i] = IF i % 2 = 0
               THEN Add(Mul(Mul(a[i + 1], Res(b)[i + 1]), PairZeta(i) % Q), Mul(a[i], Res(b)[i]))
               ELSE Add(Mul(a[i - 1], Res(b)[i]), Mul(a[i], Res(b)[i - 1]))
    BY DEF Times
  <2> HIDE DEF g, h
  <2>3. CASE i % 2 = 0
    <3> DEFINE p == fqmul(a[i + 1], b[i + 1])
               z == PairZeta(i)
               u == fqmul(p, z)
               v == fqmul(a[i], b[i])
    <3>1. i + 1 \in Index /\ z \in Near(Q)
      BY <2>3, Pairs
    <3>2. p \in Near(Q) /\ p % Q = Mul(a[i + 1], b[i + 1] % Q)
      BY <1>2, <3>1
    <3>3. v \in Near(Q) /\ v % Q = Mul(a[i], b[i] % Q)
      BY <1>2
    <3> HIDE DEF p, z, v
    <3>4. u \in Near(Q) /\ u % Q = Mul(p % Q, z % Q)
      BY <3>1, <3>2, FqmulIs, ResFqmul, Small
    <3>5. g[i] = Wrap(u + v)
      BY <2>1, <2>3 DEF p, z, v
    <3>6. h[i] = Add(u % Q, v % Q)
      BY <1>3, <2>2, <2>3, <3>1, <3>2, <3>3, <3>4 DEF z
    <3> HIDE DEF u
    <3> QED BY <3>3, <3>4, <3>5, <3>6, TwoProducts
  <2>4. CASE i % 2 # 0
    <3> DEFINE u == fqmul(a[i - 1], b[i])
               v == fqmul(a[i], b[i - 1])
    <3>1. i - 1 \in Index
      BY <2>4, Pairs
    <3>2. u \in Near(Q) /\ u % Q = Mul(a[i - 1], b[i] % Q)
      BY <1>2, <3>1
    <3>3. v \in Near(Q) /\ v % Q = Mul(a[i], b[i - 1] % Q)
      BY <1>2, <3>1
    <3>5. g[i] = Wrap(u + v)
      BY <2>1, <2>4
    <3> HIDE DEF u, v
    <3>6. h[i] = Add(u % Q, v % Q)
      BY <1>3, <2>2, <2>4, <3>1, <3>2, <3>3
    <3> QED BY <3>2, <3>3, <3>5, <3>6, TwoProducts
  <2> QED BY <2>3, <2>4
<1>5. g \in Within(2 * Q)
  BY <1>4, BasemulForm DEF Within
<1>6. Res(g) = h
  <2>1. h = [i \in Index |-> h[i]]
    BY DEF Times
  <2> HIDE DEF g, h
  <2> QED BY <1>4, <2>1 DEF Res
<1> QED BY <1>5, <1>6

LEMMA TimesIn ==
  ASSUME MlKemRingAssumption, NEW a \in Polys, NEW b \in Polys
  PROVE  Times(a, b) \in Polys
<1>1. \A j \in Index : a[j] \in Field /\ b[j] \in Field
  BY DEF Polys
<1>2. ASSUME NEW i \in Index PROVE Times(a, b)[i] \in Field
  <2>1. Times(a, b)[i] =
          IF i % 2 = 0
          THEN Add(Mul(Mul(a[i + 1], b[i + 1]), PairZeta(i) % Q), Mul(a[i], b[i]))
          ELSE Add(Mul(a[i - 1], b[i]), Mul(a[i], b[i - 1]))
    BY DEF Times
  <2>2. CASE i % 2 = 0
    <3>1. i + 1 \in Index /\ PairZeta(i) % Q \in Field
      BY <2>2, Pairs
    <3>2. Mul(Mul(a[i + 1], b[i + 1]), PairZeta(i) % Q) \in Field /\ Mul(a[i], b[i]) \in Field
      BY <1>1, <3>1, MulIn
    <3> QED BY <2>1, <2>2, <3>2, AddIn
  <2>3. CASE i % 2 # 0
    <3>1. i - 1 \in Index
      BY <2>3, Pairs
    <3>2. Mul(a[i - 1], b[i]) \in Field /\ Mul(a[i], b[i - 1]) \in Field
      BY <1>1, <3>1, MulIn
    <3> QED BY <2>1, <2>3, <3>2, AddIn
  <2> QED BY <2>2, <2>3
<1> QED BY <1>2 DEF Times, Polys

(* The products of pairs commute,                                          *)
LEMMA TimesComm ==
  ASSUME MlKemRingAssumption, NEW a \in Polys, NEW b \in Polys
  PROVE  Times(a, b) = Times(b, a)
<1>1. \A j \in Index : a[j] \in Field /\ b[j] \in Field
  BY DEF Polys
<1>2. ASSUME NEW i \in Index PROVE Times(a, b)[i] = Times(b, a)[i]
  <2>2. CASE i % 2 = 0
    <3>1. i + 1 \in Index
      BY <2>2, Pairs
    <3>2. Mul(a[i + 1], b[i + 1]) = Mul(b[i + 1], a[i + 1]) /\ Mul(a[i], b[i]) = Mul(b[i], a[i])
      BY <1>1, <3>1, MulComm
    <3> QED BY <2>2, <3>2 DEF Times
  <2>3. CASE i % 2 # 0
    <3>1. i - 1 \in Index
      BY <2>3, Pairs
    <3>2. /\ Mul(a[i - 1], b[i]) = Mul(b[i], a[i - 1]) /\ Mul(a[i], b[i - 1]) = Mul(b[i - 1], a[i])
          /\ Mul(a[i - 1], b[i]) \in Field /\ Mul(a[i], b[i - 1]) \in Field
      BY <1>1, <3>1, MulComm, MulIn
    <3>3. Add(Mul(a[i - 1], b[i]), Mul(a[i], b[i - 1])) = Add(Mul(a[i], b[i - 1]), Mul(a[i - 1], b[i]))
      BY <3>2, AddLaws
    <3> QED BY <2>3, <3>2, <3>3 DEF Times
  <2> QED BY <2>2, <2>3
<1> QED BY <1>2, TimesIn, SamePoly

(* distribute over sums,                                                   *)
LEMMA TimesSum ==
  ASSUME MlKemRingAssumption, NEW a \in Polys, NEW b \in Polys, NEW c \in Polys
  PROVE  Times(a, Plus(b, c)) = Plus(Times(a, b), Times(a, c))
<1> DEFINE s == Plus(b, c)
<1>1. \A j \in Index : a[j] \in Field /\ b[j] \in Field /\ c[j] \in Field /\ s[j] = Add(b[j], c[j])
  BY DEF Polys, Plus
<1>2. s \in Polys /\ Times(a, b) \in Polys /\ Times(a, c) \in Polys
  BY PolyOps, TimesIn
<1> HIDE DEF s
<1>3. ASSUME NEW i \in Index PROVE Times(a, s)[i] = Add(Times(a, b)[i], Times(a, c)[i])
  <2>2. CASE i % 2 = 0
    <3> DEFINE z == PairZeta(i) % Q
               x == Mul(Mul(a[i + 1], b[i + 1]), z)
               y == Mul(Mul(a[i + 1], c[i + 1]), z)
               u == Mul(a[i], b[i])
               v == Mul(a[i], c[i])
    <3>1. i + 1 \in Index /\ z \in Field
      BY <2>2, Pairs
    <3>2. /\ Times(a, s)[i] = Add(Mul(Mul(a[i + 1], s[i + 1]), z), Mul(a[i], s[i]))
          /\ Times(a, b)[i] = Add(x, u) /\ Times(a, c)[i] = Add(y, v)
      BY <2>2 DEF Times
    <3> HIDE DEF z
    <3>3. Mul(a[i + 1], b[i + 1]) \in Field /\ Mul(a[i + 1], c[i + 1]) \in Field /\ u \in Field
          /\ v \in Field
      BY <1>1, <3>1, MulIn
    <3>4. Mul(a[i + 1], s[i + 1]) = Add(Mul(a[i + 1], b[i + 1]), Mul(a[i + 1], c[i + 1]))
          /\ Mul(a[i], s[i]) = Add(u, v)
      BY <1>1, <3>1, MulAdd
    <3>5. Mul(Mul(a[i + 1], s[i + 1]), z) = Add(x, y)
      BY <3>1, <3>3, <3>4, MulSums
    <3>6. x \in Field /\ y \in Field
      BY <3>1, <3>3, MulIn
    <3> HIDE DEF x, y, u, v
    <3>7. Add(Add(x, y), Add(u, v)) = Add(Add(x, u), Add(y, v))
      BY <3>3, <3>6, Add4
    <3> QED BY <3>2, <3>4, <3>5, <3>7
  <2>3. CASE i % 2 # 0
    <3> DEFINE x == Mul(a[i - 1], b[i])
               y == Mul(a[i - 1], c[i])
               u == Mul(a[i], b[i - 1])
               v == Mul(a[i], c[i - 1])
    <3>1. i - 1 \in Index
      BY <2>3, Pairs
    <3>2. /\ Times(a, s)[i] = Add(Mul(a[i - 1], s[i]), Mul(a[i], s[i - 1]))
          /\ Times(a, b)[i] = Add(x, u) /\ Times(a, c)[i] = Add(y, v)
      BY <2>3 DEF Times
    <3>3. x \in Field /\ y \in Field /\ u \in Field /\ v \in Field
      BY <1>1, <3>1, MulIn
    <3>4. Mul(a[i - 1], s[i]) = Add(x, y) /\ Mul(a[i], s[i - 1]) = Add(u, v)
      BY <1>1, <3>1, MulAdd
    <3> HIDE DEF x, y, u, v
    <3>7. Add(Add(x, y), Add(u, v)) = Add(Add(x, u), Add(y, v))
      BY <3>3, Add4
    <3> QED BY <3>2, <3>4, <3>7
  <2> QED BY <2>2, <2>3
<1>4. Times(a, s) \in Polys
  BY <1>2, TimesIn
<1>5. Times(a, s) = Plus(Times(a, b), Times(a, c))
  <2> DEFINE p == Times(a, b)
             q == Times(a, c)
  <2>1. Plus(p, q) \in Polys /\ \A i \in Index : Plus(p, q)[i] = Add(p[i], q[i])
    <3> HIDE DEF p, q
    <3>1. p \in Polys /\ q \in Polys
      BY <1>2 DEF p, q
    <3> QED BY <3>1, PolyOps DEF Plus
  <2> HIDE DEF p, q
  <2> QED BY <1>3, <1>4, <2>1, SamePoly DEF p, q
<1> QED BY <1>5 DEF s

(* and take factors out.                                                   *)
LEMMA TimesScale ==
  ASSUME MlKemRingAssumption, NEW a \in Polys, NEW b \in Polys, NEW p \in Field
  PROVE  Times(a, ScaleBy(p, b)) = ScaleBy(p, Times(a, b))
<1> DEFINE s == ScaleBy(p, b)
<1>1. \A j \in Index : a[j] \in Field /\ b[j] \in Field /\ s[j] = Mul(p, b[j])
  BY DEF Polys, ScaleBy
<1>2. s \in Polys /\ Times(a, b) \in Polys
  BY ScaleIn, TimesIn
<1> HIDE DEF s
<1>0. ASSUME NEW x \in Field, NEW y \in Field PROVE Mul(x, Mul(p, y)) = Mul(p, Mul(x, y))
  <2>1. Mul(x, Mul(p, y)) = Mul(Mul(x, p), y) /\ Mul(x, p) = Mul(p, x)
        /\ Mul(Mul(p, x), y) = Mul(p, Mul(x, y))
    BY <1>0, MulAssoc, MulComm
  <2> QED BY <2>1
<1>3. ASSUME NEW i \in Index PROVE Times(a, s)[i] = Mul(p, Times(a, b)[i])
  <2>2. CASE i % 2 = 0
    <3> DEFINE z == PairZeta(i) % Q
               w == Mul(a[i + 1], b[i + 1])
               x == Mul(w, z)
               u == Mul(a[i], b[i])
    <3>1. i + 1 \in Index /\ z \in Field
      BY <2>2, Pairs
    <3>2. /\ Times(a, s)[i] = Add(Mul(Mul(a[i + 1], s[i + 1]), z), Mul(a[i], s[i]))
          /\ Times(a, b)[i] = Add(x, u)
      BY <2>2 DEF Times
    <3> HIDE DEF z
    <3>3. w \in Field /\ u \in Field
      BY <1>1, <3>1, MulIn
    <3>4. Mul(a[i + 1], s[i + 1]) = Mul(p, w) /\ Mul(a[i], s[i]) = Mul(p, u)
      BY <1>0, <1>1, <3>1
    <3> HIDE DEF w, u
    <3>5. Mul(Mul(p, w), z) = Mul(p, x) /\ x \in Field
      BY <3>1, <3>3, MulAssoc, MulIn
    <3> HIDE DEF x
    <3>6. Mul(p, Add(x, u)) = Add(Mul(p, x), Mul(p, u))
      BY <3>3, <3>5, MulAdd
    <3> QED BY <3>2, <3>4, <3>5, <3>6
  <2>3. CASE i % 2 # 0
    <3> DEFINE x == Mul(a[i - 1], b[i])
               u == Mul(a[i], b[i - 1])
    <3>1. i - 1 \in Index
      BY <2>3, Pairs
    <3>2. /\ Times(a, s)[i] = Add(Mul(a[i - 1], s[i]), Mul(a[i], s[i - 1]))
          /\ Times(a, b)[i] = Add(x, u)
      BY <2>3 DEF Times
    <3>3. x \in Field /\ u \in Field
      BY <1>1, <3>1, MulIn
    <3>4. Mul(a[i - 1], s[i]) = Mul(p, x) /\ Mul(a[i], s[i - 1]) = Mul(p, u)
      BY <1>0, <1>1, <3>1
    <3> HIDE DEF x, u
    <3>6. Mul(p, Add(x, u)) = Add(Mul(p, x), Mul(p, u))
      BY <3>3, MulAdd
    <3> QED BY <3>2, <3>4, <3>6
  <2> QED BY <2>2, <2>3
<1>4. Times(a, s) \in Polys
  BY <1>2, TimesIn
<1>5. Times(a, s) = ScaleBy(p, Times(a, b))
  <2> DEFINE q == Times(a, b)
  <2>1. ScaleBy(p, q) \in Polys /\ \A i \in Index : ScaleBy(p, q)[i] = Mul(p, q[i])
    <3> HIDE DEF q
    <3>1. q \in Polys
      BY <1>2 DEF q
    <3> QED BY <3>1, ScaleIn DEF ScaleBy
  <2> HIDE DEF q
  <2> QED BY <1>3, <1>4, <2>1, SamePoly DEF q
<1> QED BY <1>5 DEF s

(* They are associative: products modulo X ^ 2 - z.                        *)
Low(a0, a1, b0, b1, z) == Add(Mul(Mul(a1, b1), z), Mul(a0, b0))
High(a0, a1, b0, b1)   == Add(Mul(a0, b1), Mul(a1, b0))

LEMMA PairAssoc ==
  ASSUME MlKemRingAssumption
  PROVE  \A a0, a1, b0, b1, c0, c1, z :
           {a0, a1, b0, b1, c0, c1, z} \subseteq Field =>
             /\ Low(Low(a0, a1, b0, b1, z), High(a0, a1, b0, b1), c0, c1, z) =
                  Low(a0, a1, Low(b0, b1, c0, c1, z), High(b0, b1, c0, c1), z)
             /\ High(Low(a0, a1, b0, b1, z), High(a0, a1, b0, b1), c0, c1) =
                  High(a0, a1, Low(b0, b1, c0, c1, z), High(b0, b1, c0, c1))
<1> SUFFICES ASSUME NEW a0, NEW a1, NEW b0, NEW b1, NEW c0, NEW c1, NEW z,
                    {a0, a1, b0, b1, c0, c1, z} \subseteq Field
             PROVE  /\ Low(Low(a0, a1, b0, b1, z), High(a0, a1, b0, b1), c0, c1, z) =
                         Low(a0, a1, Low(b0, b1, c0, c1, z), High(b0, b1, c0, c1), z)
                    /\ High(Low(a0, a1, b0, b1, z), High(a0, a1, b0, b1), c0, c1) =
                         High(a0, a1, Low(b0, b1, c0, c1, z), High(b0, b1, c0, c1))
  OBVIOUS
<1>0. /\ a0 \in Field /\ a1 \in Field /\ b0 \in Field /\ b1 \in Field /\ c0 \in Field
      /\ c1 \in Field /\ z \in Field
  OBVIOUS
<1> DEFINE x0 == Low(a0, a1, b0, b1, z)
           x1 == High(a0, a1, b0, b1)
           y0 == Low(b0, b1, c0, c1, z)
           y1 == High(b0, b1, c0, c1)
<1>1. ASSUME NEW x \in Field, NEW y \in Field, NEW u \in Field
      PROVE  /\ Mul(Mul(x, y), u) = Mul(x, Mul(y, u)) /\ Mul(Mul(x, y), u) = Mul(Mul(x, u), y)
             /\ Mul(x, y) \in Field
  <2>1. /\ Mul(Mul(x, y), u) = Mul(x, Mul(y, u)) /\ Mul(Mul(x, u), y) = Mul(x, Mul(u, y))
        /\ Mul(u, y) = Mul(y, u)
    BY <1>1, MulAssoc, MulComm
  <2> QED BY <1>1, <2>1, MulIn
<1>2. ASSUME NEW p \in Field, NEW q \in Field, NEW r \in Field, NEW s \in Field
      PROVE  Add(Add(p, q), Add(r, s)) = Add(Add(q, r), Add(p, s))
  <2>1. Add(p, q) = Add(q, p)
    BY <1>2, AddLaws
  <2>2. Add(Add(q, p), Add(r, s)) = Add(Add(q, r), Add(p, s))
    BY <1>2, Add4
  <2> QED BY <2>1, <2>2
<1> DEFINE a01 == Mul(a0, b1)
           a10 == Mul(a1, b0)
           a11 == Mul(a1, b1)
           a00 == Mul(a0, b0)
           az  == Mul(a11, z)
           b01 == Mul(b0, c1)
           b10 == Mul(b1, c0)
           b11 == Mul(b1, c1)
           b00 == Mul(b0, c0)
           bz  == Mul(b11, z)
<1>3. /\ a01 \in Field /\ a10 \in Field /\ a11 \in Field /\ a00 \in Field
      /\ b01 \in Field /\ b10 \in Field /\ b11 \in Field /\ b00 \in Field
  BY <1>0, MulIn
<1>4. az \in Field /\ bz \in Field
  <2> HIDE DEF a11, b11
  <2> QED BY <1>0, <1>3, MulIn
<1>5. x0 = Add(az, a00) /\ x1 = Add(a01, a10) /\ y0 = Add(bz, b00) /\ y1 = Add(b01, b10)
  BY DEF Low, High
<1>6. /\ Mul(a01, c1) = Mul(a0, b11) /\ Mul(a10, c1) = Mul(a1, b01)
      /\ Mul(a11, c0) = Mul(a1, b10) /\ Mul(a00, c0) = Mul(a0, b00)
      /\ Mul(a11, c1) = Mul(a1, b11) /\ Mul(a00, c1) = Mul(a0, b01)
      /\ Mul(a01, c0) = Mul(a0, b10) /\ Mul(a10, c0) = Mul(a1, b00)
  BY <1>0, <1>1
<1>7. Mul(az, c0) = Mul(Mul(a11, c0), z) /\ Mul(az, c1) = Mul(Mul(a11, c1), z)
      /\ Mul(Mul(a0, b11), z) = Mul(a0, bz) /\ Mul(Mul(a1, b11), z) = Mul(a1, bz)
  <2> HIDE DEF a11, b11
  <2>1. Mul(Mul(a11, z), c0) = Mul(Mul(a11, c0), z)
    BY <1>0, <1>1, <1>3
  <2>2. Mul(Mul(a11, z), c1) = Mul(Mul(a11, c1), z)
    BY <1>0, <1>1, <1>3
  <2>3. Mul(Mul(a0, b11), z) = Mul(a0, Mul(b11, z))
    BY <1>0, <1>1, <1>3
  <2>4. Mul(Mul(a1, b11), z) = Mul(a1, Mul(b11, z))
    BY <1>0, <1>1, <1>3
  <2> QED BY <2>1, <2>2, <2>3, <2>4
<1> HIDE DEF az, bz, a01, a10, a11, a00, b01, b10, b11, b00, x0, x1, y0, y1
<1>8. /\ Mul(a0, b11) \in Field /\ Mul(a1, b01) \in Field /\ Mul(a1, b10) \in Field
      /\ Mul(a0, b00) \in Field /\ Mul(a1, b11) \in Field /\ Mul(a0, b01) \in Field
      /\ Mul(a0, b10) \in Field /\ Mul(a1, b00) \in Field /\ Mul(a0, bz) \in Field
      /\ Mul(a1, bz) \in Field
  BY <1>0, <1>3, <1>4, MulIn
<1> DEFINE p == Mul(a0, bz)
           q == Mul(Mul(a1, b01), z)
           r == Mul(Mul(a1, b10), z)
           s == Mul(a0, b00)
<1>9. p \in Field /\ q \in Field /\ r \in Field /\ s \in Field
  BY <1>0, <1>8, MulIn
<1>10. Mul(Mul(x1, c1), z) = Add(p, q) /\ Mul(x0, c0) = Add(r, s)
  <2>1. Mul(x1, c1) = Add(Mul(a01, c1), Mul(a10, c1)) /\ Mul(x0, c0) = Add(Mul(az, c0), Mul(a00, c0))
    BY <1>0, <1>3, <1>4, <1>5, MulSums
  <2>2. Mul(x1, c1) = Add(Mul(a0, b11), Mul(a1, b01))
    BY <1>6, <2>1
  <2>3. Mul(Mul(x1, c1), z) = Add(Mul(Mul(a0, b11), z), Mul(Mul(a1, b01), z))
    BY <1>0, <1>8, <2>2, MulSums
  <2> QED BY <1>6, <1>7, <2>1, <2>3
<1>11. Mul(Mul(a1, y1), z) = Add(q, r) /\ Mul(a0, y0) = Add(p, s)
  <2>1. Mul(a1, y1) = Add(Mul(a1, b01), Mul(a1, b10)) /\ Mul(a0, y0) = Add(Mul(a0, bz), Mul(a0, b00))
    BY <1>0, <1>3, <1>4, <1>5, MulAdd
  <2>2. Mul(Mul(a1, y1), z) = Add(Mul(Mul(a1, b01), z), Mul(Mul(a1, b10), z))
    BY <1>0, <1>8, <2>1, MulSums
  <2> QED BY <2>1, <2>2
<1>12. Add(Add(p, q), Add(r, s)) = Add(Add(q, r), Add(p, s))
  <2> HIDE DEF p, q, r, s
  <2> QED BY <1>2, <1>9
<1> DEFINE t == Mul(a1, bz)
           u == Mul(a0, b01)
           v == Mul(a0, b10)
           w == Mul(a1, b00)
<1>13. Mul(x0, c1) = Add(t, u) /\ Mul(x1, c0) = Add(v, w)
  <2>1. Mul(x0, c1) = Add(Mul(az, c1), Mul(a00, c1)) /\ Mul(x1, c0) = Add(Mul(a01, c0), Mul(a10, c0))
    BY <1>0, <1>3, <1>4, <1>5, MulSums
  <2> QED BY <1>6, <1>7, <2>1
<1>14. Mul(a0, y1) = Add(u, v) /\ Mul(a1, y0) = Add(t, w)
  BY <1>0, <1>3, <1>4, <1>5, MulAdd
<1>15. Add(Add(t, u), Add(v, w)) = Add(Add(u, v), Add(t, w))
  <2>1. t \in Field /\ u \in Field /\ v \in Field /\ w \in Field
    BY <1>0, <1>8
  <2> HIDE DEF t, u, v, w
  <2> QED BY <1>2, <2>1
<1>16. Low(x0, x1, c0, c1, z) = Low(a0, a1, y0, y1, z)
  BY <1>10, <1>11, <1>12 DEF Low
<1>17. High(x0, x1, c0, c1) = High(a0, a1, y0, y1)
  BY <1>13, <1>14, <1>15 DEF High
<1> QED BY <1>16, <1>17 DEF x0, x1, y0, y1

LEMMA TimesAssoc ==
  ASSUME MlKemRingAssumption, NEW a \in Polys, NEW b \in Polys, NEW c \in Polys
  PROVE  Times(Times(a, b), c) = Times(a, Times(b, c))
<1> DEFINE x == Times(a, b)
           y == Times(b, c)
<1>1. \A j \in Index : a[j] \in Field /\ b[j] \in Field /\ c[j] \in Field
  BY DEF Polys
<1>2. x \in Polys /\ y \in Polys
  BY TimesIn
<1>3. ASSUME NEW i \in Index, i % 2 = 0
      PROVE  /\ i + 1 \in Index /\ (i + 1) % 2 # 0 /\ (i + 1) - 1 = i /\ PairZeta(i) % Q \in Field
             /\ x[i] = Add(Mul(Mul(a[i + 1], b[i + 1]), PairZeta(i) % Q), Mul(a[i], b[i]))
             /\ x[i + 1] = Add(Mul(a[i], b[i + 1]), Mul(a[i + 1], b[i]))
             /\ y[i] = Add(Mul(Mul(b[i + 1], c[i + 1]), PairZeta(i) % Q), Mul(b[i], c[i]))
             /\ y[i + 1] = Add(Mul(b[i], c[i + 1]), Mul(b[i + 1], c[i]))
  <2> DEFINE j == i + 1
  <2>1. j \in Index /\ PairZeta(i) % Q \in Field
    BY <1>3, Pairs
  <2>2. j % 2 # 0 /\ j - 1 = i
    <3>1. i \in Int
      BY Degree, SMT DEF Index
    <3> QED BY <1>3, <3>1, SMT
  <2> HIDE DEF j
  <2>3. /\ x[i] = Add(Mul(Mul(a[i + 1], b[i + 1]), PairZeta(i) % Q), Mul(a[i], b[i]))
        /\ y[i] = Add(Mul(Mul(b[i + 1], c[i + 1]), PairZeta(i) % Q), Mul(b[i], c[i]))
    BY <1>3 DEF Times
  <2>4. /\ x[j] = Add(Mul(a[j - 1], b[j]), Mul(a[j], b[j - 1]))
        /\ y[j] = Add(Mul(b[j - 1], c[j]), Mul(b[j], c[j - 1]))
    BY <2>1, <2>2 DEF Times
  <2> QED BY <2>1, <2>2, <2>3, <2>4 DEF j
<1> HIDE DEF x, y
<1>4. ASSUME NEW i \in Index PROVE Times(x, c)[i] = Times(a, y)[i]
  <2>1. CASE i % 2 = 0
    <3> DEFINE j == i + 1
               z == PairZeta(i) % Q
    <3>1. /\ Times(x, c)[i] = Add(Mul(Mul(x[j], c[j]), z), Mul(x[i], c[i]))
          /\ Times(a, y)[i] = Add(Mul(Mul(a[j], y[j]), z), Mul(a[i], y[i]))
      BY <2>1 DEF Times
    <3>2. /\ j \in Index /\ z \in Field
          /\ x[i] = Add(Mul(Mul(a[j], b[j]), z), Mul(a[i], b[i]))
          /\ x[j] = Add(Mul(a[i], b[j]), Mul(a[j], b[i]))
          /\ y[i] = Add(Mul(Mul(b[j], c[j]), z), Mul(b[i], c[i]))
          /\ y[j] = Add(Mul(b[i], c[j]), Mul(b[j], c[i]))
      BY <1>3, <2>1
    <3> HIDE DEF j, z
    <3>3. a[i] \in Field /\ a[j] \in Field /\ b[i] \in Field /\ b[j] \in Field
          /\ c[i] \in Field /\ c[j] \in Field
      BY <1>1, <3>2
    <3>4. Add(Mul(Mul(x[j], c[j]), z), Mul(x[i], c[i])) = Add(Mul(Mul(a[j], y[j]), z), Mul(a[i], y[i]))
      <4> DEFINE a0 == a[i]
                 a1 == a[j]
                 b0 == b[i]
                 b1 == b[j]
                 c0 == c[i]
                 c1 == c[j]
                 x0 == x[i]
                 x1 == x[j]
                 y0 == y[i]
                 y1 == y[j]
      <4>1. /\ x0 = Add(Mul(Mul(a1, b1), z), Mul(a0, b0))
            /\ x1 = Add(Mul(a0, b1), Mul(a1, b0))
            /\ y0 = Add(Mul(Mul(b1, c1), z), Mul(b0, c0))
            /\ y1 = Add(Mul(b0, c1), Mul(b1, c0))
        BY <3>2
      <4>2. /\ a0 \in Field /\ a1 \in Field /\ b0 \in Field /\ b1 \in Field
            /\ c0 \in Field /\ c1 \in Field /\ z \in Field
        BY <3>2, <3>3
      <4> HIDE DEF a0, a1, b0, b1, c0, c1, x0, x1, y0, y1
      <4>3. /\ x0 = Low(a0, a1, b0, b1, z) /\ x1 = High(a0, a1, b0, b1)
            /\ y0 = Low(b0, b1, c0, c1, z) /\ y1 = High(b0, b1, c0, c1)
        BY <4>1 DEF Low, High
      <4>4. Low(Low(a0, a1, b0, b1, z), High(a0, a1, b0, b1), c0, c1, z) =
              Low(a0, a1, Low(b0, b1, c0, c1, z), High(b0, b1, c0, c1), z)
        <5>1. {a0, a1, b0, b1, c0, c1, z} \subseteq Field
          BY <4>2
        <5> QED BY <5>1, PairAssoc
      <4>5. Low(x0, x1, c0, c1, z) = Low(a0, a1, y0, y1, z)
        BY <4>3, <4>4
      <4> QED BY <4>5 DEF Low, a0, a1, b0, b1, c0, c1, x0, x1, y0, y1
    <3> QED BY <3>1, <3>4
  <2>2. CASE i % 2 # 0
    <3> DEFINE j == i - 1
               z == PairZeta(j) % Q
    <3>0. j \in Index /\ j % 2 = 0 /\ j + 1 = i
      <4>1. j \in Index
        BY <2>2, Pairs
      <4>2. i \in Int
        BY Degree, SMT DEF Index
      <4>3. j % 2 = 0 /\ j + 1 = i
        BY <2>2, <4>2, SMT
      <4> QED BY <4>1, <4>3
    <3>1. /\ Times(x, c)[i] = Add(Mul(x[j], c[i]), Mul(x[i], c[j]))
          /\ Times(a, y)[i] = Add(Mul(a[j], y[i]), Mul(a[i], y[j]))
      BY <2>2 DEF Times
    <3> HIDE DEF j
    <3>2. /\ z \in Field
          /\ x[j] = Add(Mul(Mul(a[i], b[i]), z), Mul(a[j], b[j]))
          /\ x[i] = Add(Mul(a[j], b[i]), Mul(a[i], b[j]))
          /\ y[j] = Add(Mul(Mul(b[i], c[i]), z), Mul(b[j], c[j]))
          /\ y[i] = Add(Mul(b[j], c[i]), Mul(b[i], c[j]))
      BY <1>3, <3>0
    <3> HIDE DEF z
    <3>3. a[i] \in Field /\ a[j] \in Field /\ b[i] \in Field /\ b[j] \in Field
          /\ c[i] \in Field /\ c[j] \in Field
      BY <1>1, <3>0
    <3>4. Add(Mul(x[j], c[i]), Mul(x[i], c[j])) = Add(Mul(a[j], y[i]), Mul(a[i], y[j]))
      <4> DEFINE a0 == a[j]
                 a1 == a[i]
                 b0 == b[j]
                 b1 == b[i]
                 c0 == c[j]
                 c1 == c[i]
                 x0 == x[j]
                 x1 == x[i]
                 y0 == y[j]
                 y1 == y[i]
      <4>1. /\ x0 = Add(Mul(Mul(a1, b1), z), Mul(a0, b0))
            /\ x1 = Add(Mul(a0, b1), Mul(a1, b0))
            /\ y0 = Add(Mul(Mul(b1, c1), z), Mul(b0, c0))
            /\ y1 = Add(Mul(b0, c1), Mul(b1, c0))
        BY <3>2
      <4>2. /\ a0 \in Field /\ a1 \in Field /\ b0 \in Field /\ b1 \in Field
            /\ c0 \in Field /\ c1 \in Field /\ z \in Field
        BY <3>2, <3>3
      <4> HIDE DEF a0, a1, b0, b1, c0, c1, x0, x1, y0, y1
      <4>3. /\ x0 = Low(a0, a1, b0, b1, z) /\ x1 = High(a0, a1, b0, b1)
            /\ y0 = Low(b0, b1, c0, c1, z) /\ y1 = High(b0, b1, c0, c1)
        BY <4>1 DEF Low, High
      <4>4. High(Low(a0, a1, b0, b1, z), High(a0, a1, b0, b1), c0, c1) =
              High(a0, a1, Low(b0, b1, c0, c1, z), High(b0, b1, c0, c1))
        <5>1. {a0, a1, b0, b1, c0, c1, z} \subseteq Field
          BY <4>2
        <5> QED BY <5>1, PairAssoc
      <4>5. High(x0, x1, c0, c1) = High(a0, a1, y0, y1)
        BY <4>3, <4>4
      <4> QED BY <4>5 DEF High, a0, a1, b0, b1, c0, c1, x0, x1, y0, y1
    <3> QED BY <3>1, <3>4
  <2> QED BY <2>1, <2>2
<1>5. Times(x, c) = Times(a, y)
  BY <1>2, <1>4, TimesIn, SamePoly
<1> QED BY <1>5 DEF x, y

-----------------------------------------------------------------------------
(* Sums of polynomials.                                                    *)
Zero   == [i \in Index |-> 0]
Sum(t) == FoldLeft(Plus, Zero, t)

LEMMA ZeroIs ==
  ASSUME MlKemRingAssumption
  PROVE  Zero \in Polys /\ \A f \in Polys : Plus(f, Zero) = f /\ Plus(Zero, f) = f
<1>1. 0 \in Field
  BY Ring, SMT DEF Field
<1>2. Zero \in Polys /\ \A i \in Index : Zero[i] = 0
  BY <1>1 DEF Zero, Polys
<1> HIDE DEF Zero
<1>3. ASSUME NEW f \in Polys PROVE Plus(f, Zero) = f /\ Plus(Zero, f) = f
  <2>1. \A i \in Index : f[i] \in Field
    BY DEF Polys
  <2>2. \A i \in Index : Plus(f, Zero)[i] = f[i] /\ Plus(Zero, f)[i] = f[i]
    BY <1>1, <1>2, <2>1, AddLaws DEF Plus
  <2> QED BY <1>2, <2>2, PolyOps, SamePoly
<1> QED BY <1>2, <1>3

LEMMA SumRun ==
  ASSUME MlKemRingAssumption, NEW n \in Nat, NEW t \in [1 .. n -> Polys]
  PROVE  \E r : /\ Runs(r, n, Polys, Zero) /\ Sum(t) = r[n] /\ Sum(t) \in Polys
                /\ \A k \in 0 .. n - 1 : r[k + 1] = Plus(r[k], t[k + 1])
<1> DEFINE step == [j \in 1 .. n |-> [g \in Polys |-> Plus(g, t[j])]]
           IsFold(h) == h = [s \in SUBSET (1 .. n) |->
                               IF s = {} THEN Zero ELSE Plus(h[s \ {Max(s)}], t[Max(s)])]
           it == CHOOSE h : IsFold(h)
<1>0. Zero \in Polys
  BY ZeroIs
<1>1. DOMAIN t = 1 .. n /\ \A j \in 1 .. n : t[j] \in Polys
  OBVIOUS
<1>2. Sum(t) = it[1 .. n]
  BY <1>1 DEF Sum, FoldLeft, MapThenFoldSet
<1>3. \A j \in 1 .. n, g \in Polys : step[j][g] = Plus(g, t[j]) /\ step[j][g] \in Polys
  BY <1>1, PolyOps
<1>4. \A s \in SUBSET (1 .. n) : s # {} => Max(s) \in 1 .. n /\ s \ {Max(s)} \in SUBSET (1 .. n)
  BY LastPick DEF Picks
<1> HIDE DEF step
<1>5. Closed(n, Polys, step)
  BY <1>3 DEF Closed
<1>6. IsFold(it)
  <2>1. PICK h : /\ LeftFolds(h, n, Zero, step)
                 /\ \A s \in SUBSET (1 .. n) : h[s] \in Polys
    BY ONLY <1>0, <1>5, n \in Nat, LeftFold
  <2>2. \A s \in SUBSET (1 .. n) :
          s # {} => step[Max(s)][h[s \ {Max(s)}]] = Plus(h[s \ {Max(s)}], t[Max(s)])
    BY <1>3, <1>4, <2>1
  <2>3. IsFold(h)
    BY <2>1, <2>2 DEF LeftFolds
  <2> QED BY <2>3
<1> HIDE DEF it
<1>7. LeftTakes(it, n, Polys, Zero, step)
  <2>1. it = [s \in SUBSET (1 .. n) |->
                IF s = {} THEN Zero ELSE Plus(it[s \ {Max(s)}], t[Max(s)])]
    BY <1>6
  <2> HIDE DEF IsFold
  <2> QED BY <1>3, <1>4, <2>1 DEF LeftTakes
<1> HIDE DEF IsFold
<1>8. PICK r : /\ Runs(r, n, Polys, Zero) /\ r[n] = it[1 .. n]
               /\ \A k \in 0 .. n - 1 : r[k + 1] = step[k + 1][r[k]]
  BY ONLY <1>0, <1>5, <1>7, n \in Nat, LeftRun
<1>9. \A k \in 0 .. n - 1 : r[k + 1] = Plus(r[k], t[k + 1])
  <2> TAKE k \in 0 .. n - 1
  <2>1. k \in 0 .. n /\ k + 1 \in 1 .. n
    BY SMT
  <2> QED BY <1>3, <1>8, <2>1 DEF Runs
<1>10. r[n] \in Polys
  <2>1. n \in 0 .. n
    BY SMT
  <2> QED BY <1>8, <2>1 DEF Runs
<1> QED BY <1>2, <1>8, <1>9, <1>10

LEMMA Plus4 ==
  ASSUME MlKemRingAssumption, NEW a \in Polys, NEW b \in Polys, NEW c \in Polys, NEW d \in Polys
  PROVE  Plus(Plus(a, b), Plus(c, d)) = Plus(Plus(a, c), Plus(b, d))
<1> DEFINE p == Plus(a, b)
           q == Plus(c, d)
           r == Plus(a, c)
           s == Plus(b, d)
<1>1. \A i \in Index : /\ a[i] \in Field /\ b[i] \in Field /\ c[i] \in Field /\ d[i] \in Field
                       /\ p[i] = Add(a[i], b[i]) /\ q[i] = Add(c[i], d[i])
                       /\ r[i] = Add(a[i], c[i]) /\ s[i] = Add(b[i], d[i])
  BY DEF Polys, Plus
<1>2. p \in Polys /\ q \in Polys /\ r \in Polys /\ s \in Polys
  BY PolyOps
<1> HIDE DEF p, q, r, s
<1>3. \A i \in Index : Plus(p, q)[i] = Add(p[i], q[i]) /\ Plus(r, s)[i] = Add(r[i], s[i])
  BY DEF Plus
<1>4. \A i \in Index : Plus(p, q)[i] = Plus(r, s)[i]
  BY <1>1, <1>3, Add4
<1>5. Plus(p, q) = Plus(r, s)
  BY <1>2, <1>4, PolyOps, SamePoly
<1> QED BY <1>5 DEF p, q, r, s

(* What goes through the sums has the sum at its end.                      *)
LEMMA SumIs ==
  ASSUME MlKemRingAssumption, NEW n \in Nat, NEW t \in [1 .. n -> Polys],
         NEW r, Runs(r, n, Polys, Zero), \A k \in 0 .. n - 1 : r[k + 1] = Plus(r[k], t[k + 1])
  PROVE  Sum(t) = r[n] /\ Sum(t) \in Polys
<1>1. PICK q : /\ Runs(q, n, Polys, Zero) /\ Sum(t) = q[n] /\ Sum(t) \in Polys
               /\ \A k \in 0 .. n - 1 : q[k + 1] = Plus(q[k], t[k + 1])
  BY SumRun
<1> DEFINE S == {k \in 0 .. n : q[k] = r[k]}
<1>2. 0 \in S
  <2>1. 0 \in 0 .. n
    BY SMT
  <2> QED BY <1>1, <2>1 DEF Runs
<1>3. ASSUME NEW k \in 0 .. n - 1, k \in S PROVE k + 1 \in S
  <2>1. k + 1 \in 0 .. n
    BY SMT
  <2> QED BY <1>1, <1>3, <2>1
<1>4. n \in S
  <2>1. n \in 0 .. n
    BY SMT
  <2> HIDE DEF S
  <2> QED BY <1>2, <1>3, <2>1, UptoInduction
<1> QED BY <1>1, <1>4

LEMMA SumIn ==
  ASSUME MlKemRingAssumption, NEW n \in Nat, NEW t \in [1 .. n -> Polys]
  PROVE  Sum(t) \in Polys
BY SumRun

LEMMA SumZero ==
  ASSUME MlKemRingAssumption, NEW n \in Nat
  PROVE  Sum([k \in 1 .. n |-> Zero]) = Zero
<1> DEFINE t == [k \in 1 .. n |-> Zero]
           r == [k \in 0 .. n |-> Zero]
<1>1. Zero \in Polys /\ Plus(Zero, Zero) = Zero
  BY ZeroIs
<1>2. t \in [1 .. n -> Polys] /\ Runs(r, n, Polys, Zero) /\ n \in 0 .. n
  <2>1. 0 \in 0 .. n /\ n \in 0 .. n
    BY SMT
  <2> QED BY <1>1, <2>1 DEF Runs
<1>3. \A k \in 0 .. n - 1 : r[k + 1] = Plus(r[k], t[k + 1])
  <2> TAKE k \in 0 .. n - 1
  <2>1. k \in 0 .. n /\ k + 1 \in 0 .. n /\ k + 1 \in 1 .. n
    BY SMT
  <2> QED BY <1>1, <2>1
<1>4. r[n] = Zero
  BY <1>2
<1> HIDE DEF t, r
<1>5. Sum(t) = r[n]
  BY <1>2, <1>3, SumIs
<1> QED BY <1>4, <1>5 DEF t

LEMMA SumPlus ==
  ASSUME MlKemRingAssumption, NEW n \in Nat, NEW a \in [1 .. n -> Polys],
         NEW b \in [1 .. n -> Polys]
  PROVE  Sum([k \in 1 .. n |-> Plus(a[k], b[k])]) = Plus(Sum(a), Sum(b))
<1>1. PICK p : /\ Runs(p, n, Polys, Zero) /\ Sum(a) = p[n]
               /\ \A k \in 0 .. n - 1 : p[k + 1] = Plus(p[k], a[k + 1])
  BY SumRun
<1>2. PICK q : /\ Runs(q, n, Polys, Zero) /\ Sum(b) = q[n]
               /\ \A k \in 0 .. n - 1 : q[k + 1] = Plus(q[k], b[k + 1])
  BY SumRun
<1> DEFINE t == [k \in 1 .. n |-> Plus(a[k], b[k])]
           r == [k \in 0 .. n |-> Plus(p[k], q[k])]
<1>3. /\ \A k \in 0 .. n : p[k] \in Polys /\ q[k] \in Polys
      /\ p[0] = Zero /\ q[0] = Zero
  BY <1>1, <1>2 DEF Runs
<1>4. t \in [1 .. n -> Polys]
  BY PolyOps
<1>5. Runs(r, n, Polys, Zero)
  <2>1. 0 \in 0 .. n
    BY SMT
  <2>2. r \in [0 .. n -> Polys]
    BY <1>3, PolyOps
  <2>3. r[0] = Zero
    BY <1>3, <2>1, ZeroIs
  <2> QED BY <2>2, <2>3 DEF Runs
<1>6. ASSUME NEW k \in 0 .. n - 1 PROVE r[k + 1] = Plus(r[k], t[k + 1])
  <2>1. k \in 0 .. n /\ k + 1 \in 0 .. n /\ k + 1 \in 1 .. n
    BY SMT
  <2>2. /\ r[k + 1] = Plus(Plus(p[k], a[k + 1]), Plus(q[k], b[k + 1]))
        /\ r[k] = Plus(p[k], q[k]) /\ t[k + 1] = Plus(a[k + 1], b[k + 1])
    BY <1>1, <1>2, <2>1
  <2>3. p[k] \in Polys /\ q[k] \in Polys /\ a[k + 1] \in Polys /\ b[k + 1] \in Polys
    BY <1>3, <2>1
  <2> QED BY <2>2, <2>3, Plus4
<1>7. n \in 0 .. n
  BY SMT
<1>8. r[n] = Plus(Sum(a), Sum(b))
  BY <1>1, <1>2, <1>7
<1> HIDE DEF r, t
<1>9. Sum(t) = r[n]
  BY <1>4, <1>5, <1>6, SumIs
<1> QED BY <1>8, <1>9 DEF t

(* A function that takes sums to sums.                                     *)
LEMMA SumMap ==
  ASSUME MlKemRingAssumption, NEW n \in Nat, NEW t \in [1 .. n -> Polys],
         NEW L \in [Polys -> Polys], L[Zero] = Zero,
         \A f, g \in Polys : L[Plus(f, g)] = Plus(L[f], L[g])
  PROVE  Sum([k \in 1 .. n |-> L[t[k]]]) = L[Sum(t)]
<1>1. PICK p : /\ Runs(p, n, Polys, Zero) /\ Sum(t) = p[n]
               /\ \A k \in 0 .. n - 1 : p[k + 1] = Plus(p[k], t[k + 1])
  BY SumRun
<1> DEFINE u == [k \in 1 .. n |-> L[t[k]]]
           r == [k \in 0 .. n |-> L[p[k]]]
<1>2. (\A k \in 0 .. n : p[k] \in Polys) /\ p[0] = Zero
  BY <1>1 DEF Runs
<1>3. u \in [1 .. n -> Polys]
  OBVIOUS
<1>4. Runs(r, n, Polys, Zero)
  <2>1. 0 \in 0 .. n
    BY SMT
  <2> QED BY <1>2, <2>1 DEF Runs
<1>5. ASSUME NEW k \in 0 .. n - 1 PROVE r[k + 1] = Plus(r[k], u[k + 1])
  <2>1. k \in 0 .. n /\ k + 1 \in 0 .. n /\ k + 1 \in 1 .. n
    BY SMT
  <2>2. r[k + 1] = L[Plus(p[k], t[k + 1])] /\ r[k] = L[p[k]] /\ u[k + 1] = L[t[k + 1]]
    BY <1>1, <2>1
  <2>3. p[k] \in Polys /\ t[k + 1] \in Polys
    BY <1>2, <2>1
  <2> QED BY <2>2, <2>3
<1>6. n \in 0 .. n
  BY SMT
<1>7. r[n] = L[Sum(t)]
  BY <1>1, <1>6
<1> HIDE DEF r, u
<1>8. Sum(u) = r[n]
  BY <1>3, <1>4, <1>5, SumIs
<1> QED BY <1>7, <1>8 DEF u

(* A sum by rows is the sum by columns.                                    *)
LEMMA SumSwap ==
  ASSUME MlKemRingAssumption, NEW m \in Nat, NEW n \in Nat,
         NEW g \in [1 .. m -> [1 .. n -> Polys]]
  PROVE  Sum([i \in 1 .. m |-> Sum(g[i])]) =
           Sum([j \in 1 .. n |-> Sum([i \in 1 .. m |-> g[i][j]])])
<1> DEFINE col(j) == [i \in 1 .. m |-> g[i][j]]
           IsCol(r, j) == /\ Runs(r, m, Polys, Zero) /\ Sum(col(j)) = r[m]
                          /\ \A k \in 0 .. m - 1 : r[k + 1] = Plus(r[k], g[k + 1][j])
           C == [j \in 1 .. n |-> CHOOSE r : IsCol(r, j)]
           at(k) == [j \in 1 .. n |-> C[j][k]]
           R == [k \in 0 .. m |-> Sum(at(k))]
           rows == [i \in 1 .. m |-> Sum(g[i])]
<1>1. ASSUME NEW j \in 1 .. n PROVE IsCol(C[j], j)
  <2>1. col(j) \in [1 .. m -> Polys]
    OBVIOUS
  <2>2. \A k \in 0 .. m - 1 : col(j)[k + 1] = g[k + 1][j]
    <3> TAKE k \in 0 .. m - 1
    <3>1. k + 1 \in 1 .. m
      BY SMT
    <3> QED BY <3>1
  <2>3. \E r : IsCol(r, j)
    <3> DEFINE c == col(j)
    <3>1. c \in [1 .. m -> Polys] /\ \A k \in 0 .. m - 1 : c[k + 1] = g[k + 1][j]
      BY <2>1, <2>2
    <3> HIDE DEF c
    <3>2. PICK r : /\ Runs(r, m, Polys, Zero) /\ Sum(c) = r[m]
                   /\ \A k \in 0 .. m - 1 : r[k + 1] = Plus(r[k], c[k + 1])
      BY <3>1, SumRun
    <3>3. Sum(c) = r[m] /\ \A k \in 0 .. m - 1 : r[k + 1] = Plus(r[k], g[k + 1][j])
      BY <3>1, <3>2
    <3>4. IsCol(r, j)
      BY <3>2, <3>3 DEF c
    <3> QED BY <3>4
  <2> HIDE DEF IsCol
  <2> QED BY <2>3
<1> HIDE DEF C
<1>2. \A j \in 1 .. n, k \in 0 .. m : C[j][k] \in Polys
  BY <1>1 DEF Runs
<1>3. \A k \in 0 .. m : at(k) \in [1 .. n -> Polys]
  BY <1>2
<1>4. rows \in [1 .. m -> Polys]
  BY SumIn
<1>5. Runs(R, m, Polys, Zero)
  <2>1. 0 \in 0 .. m
    BY SMT
  <2>2. \A k \in 0 .. m : Sum(at(k)) \in Polys
    <3> TAKE k \in 0 .. m
    <3> DEFINE a == at(k)
    <3>1. a \in [1 .. n -> Polys]
      BY <1>3
    <3> HIDE DEF a
    <3>2. Sum(a) \in Polys
      BY <3>1, SumIn
    <3> QED BY <3>2 DEF a
  <2>3. at(0) = [j \in 1 .. n |-> Zero]
    BY <1>1, <2>1 DEF Runs
  <2>4. R[0] = Zero
    BY <2>1, <2>3, SumZero
  <2>5. R \in [0 .. m -> Polys]
    BY <2>2
  <2> HIDE DEF R
  <2> QED BY <2>4, <2>5 DEF Runs
<1>6. ASSUME NEW k \in 0 .. m - 1 PROVE R[k + 1] = Plus(R[k], rows[k + 1])
  <2>1. k \in 0 .. m /\ k + 1 \in 0 .. m /\ k + 1 \in 1 .. m
    BY SMT
  <2> DEFINE a == at(k)
             b == g[k + 1]
             c == at(k + 1)
  <2>2. a \in [1 .. n -> Polys] /\ b \in [1 .. n -> Polys]
    BY <1>3, <2>1
  <2>3. c = [j \in 1 .. n |-> Plus(a[j], b[j])]
    BY <1>1
  <2>4. R[k + 1] = Sum(c) /\ R[k] = Sum(a) /\ rows[k + 1] = Sum(b)
    BY <2>1
  <2> HIDE DEF a, b, c
  <2>5. Sum(c) = Plus(Sum(a), Sum(b))
    BY <2>2, <2>3, SumPlus
  <2> QED BY <2>4, <2>5
<1>7. R[m] = Sum([j \in 1 .. n |-> Sum(col(j))])
  <2>1. m \in 0 .. m
    BY SMT
  <2>2. R[m] = Sum(at(m))
    BY <2>1
  <2>3. at(m) = [j \in 1 .. n |-> Sum(col(j))]
    BY <1>1
  <2> QED BY <2>2, <2>3
<1>8. Sum(rows) = R[m]
  <2> HIDE DEF R, rows
  <2> QED BY <1>4, <1>5, <1>6, SumIs
<1> QED BY <1>7, <1>8
-----------------------------------------------------------------------------
(* Vectors of polynomials.                                                 *)
Vectors   == [Dim -> Polys]
Dot(u, v) == Sum([k \in Dim |-> Times(u[k], v[k])])

LEMMA Twice ==
  ASSUME MlKemRingAssumption, NEW f \in Polys, f = Plus(f, f)
  PROVE  f = Zero
<1>1. \A i \in Index : f[i] \in Field /\ f[i] = Add(f[i], f[i])
  BY DEF Polys, Plus
<1>2. \A i \in Index : f[i] = 0
  <2> TAKE i \in Index
  <2> DEFINE x == f[i]
  <2>1. x \in Field /\ x = Add(x, x)
    BY <1>1
  <2> HIDE DEF x
  <2>2. Sub(Add(x, x), x) = x /\ Sub(x, x) = 0
    BY <2>1, AddLaws
  <2> QED BY <2>1, <2>2 DEF x
<1>3. Zero \in Polys /\ \A i \in Index : Zero[i] = 0
  BY ZeroIs DEF Zero
<1> QED BY <1>2, <1>3, SamePoly

LEMMA ZeroMaps ==
  ASSUME MlKemRingAssumption, NEW f \in Polys, NEW a \in Field
  PROVE  Times(f, Zero) = Zero /\ ScaleBy(a, Zero) = Zero
<1>1. Zero \in Polys /\ Plus(Zero, Zero) = Zero
  BY ZeroIs
<1>2. Times(f, Plus(Zero, Zero)) = Plus(Times(f, Zero), Times(f, Zero)) /\ Times(f, Zero) \in Polys
  BY <1>1, TimesSum, TimesIn
<1>3. ScaleBy(a, Plus(Zero, Zero)) = Plus(ScaleBy(a, Zero), ScaleBy(a, Zero))
      /\ ScaleBy(a, Zero) \in Polys
  BY <1>1, ScaleSum, ScaleIn
<1> QED BY <1>1, <1>2, <1>3, Twice

LEMMA DotIn ==
  ASSUME MlKemRingAssumption, K \in Nat, NEW u \in Vectors, NEW v \in Vectors
  PROVE  Dot(u, v) \in Polys /\ Dot(u, v) = Dot(v, u)
         /\ [k \in Dim |-> Times(u[k], v[k])] \in Vectors
<1> DEFINE t == [k \in 1 .. K |-> Times(u[k], v[k])]
           s == [k \in 1 .. K |-> Times(v[k], u[k])]
<1>1. \A k \in 1 .. K : /\ u[k] \in Polys /\ v[k] \in Polys /\ Times(u[k], v[k]) \in Polys
                        /\ Times(u[k], v[k]) = Times(v[k], u[k])
  BY TimesIn, TimesComm DEF Vectors, Dim
<1>2. t \in [1 .. K -> Polys] /\ t = s
  BY <1>1
<1>3. Dot(u, v) = Sum(t) /\ Dot(v, u) = Sum(s)
  BY DEF Dot, Dim
<1> HIDE DEF t, s
<1>4. Sum(t) \in Polys
  BY <1>2, SumIn
<1> QED BY <1>2, <1>3, <1>4 DEF t, Vectors, Dim

(* Factors and sums come out of a product of vectors.                      *)
LEMMA DotSum ==
  ASSUME MlKemRingAssumption, K \in Nat, NEW u \in Vectors, NEW v \in Vectors,
         NEW w \in Vectors, NEW q \in Field
  PROVE  Dot(u, [k \in Dim |-> Plus(ScaleBy(q, v[k]), w[k])]) =
           Plus(ScaleBy(q, Dot(u, v)), Dot(u, w))
<1> DEFINE y == [k \in Dim |-> Plus(ScaleBy(q, v[k]), w[k])]
           L == [f \in Polys |-> ScaleBy(q, f)]
           a == [k \in 1 .. K |-> Times(u[k], v[k])]
           b == [k \in 1 .. K |-> Times(u[k], w[k])]
           c == [k \in 1 .. K |-> L[a[k]]]
           d == [k \in 1 .. K |-> Plus(c[k], b[k])]
<1>1. \A k \in 1 .. K : u[k] \in Polys /\ v[k] \in Polys /\ w[k] \in Polys
  BY DEF Vectors, Dim
<1>2. a \in [1 .. K -> Polys] /\ b \in [1 .. K -> Polys]
  BY <1>1, TimesIn
<1>3. /\ L \in [Polys -> Polys] /\ L[Zero] = Zero
      /\ \A f, g \in Polys : L[Plus(f, g)] = Plus(L[f], L[g])
  BY ScaleIn, ScaleSum, ZeroMaps, ZeroIs, PolyOps
<1>4. c \in [1 .. K -> Polys]
  BY <1>2, <1>3
<1>5. \A k \in 1 .. K : Times(u[k], y[k]) = d[k]
  <2> TAKE k \in 1 .. K
  <2> DEFINE f == ScaleBy(q, v[k])
  <2>1. f \in Polys /\ Times(u[k], f) = ScaleBy(q, Times(u[k], v[k])) /\ Times(u[k], v[k]) \in Polys
    BY <1>1, ScaleIn, TimesScale, TimesIn
  <2>2. y[k] = Plus(f, w[k])
    BY DEF Dim
  <2> HIDE DEF f, y
  <2>3. Times(u[k], y[k]) = Plus(Times(u[k], f), Times(u[k], w[k]))
    BY <1>1, <2>1, <2>2, TimesSum
  <2>4. d[k] = Plus(ScaleBy(q, Times(u[k], v[k])), Times(u[k], w[k]))
    BY <2>1
  <2> QED BY <2>1, <2>3, <2>4
<1>6. Dot(u, y) = Sum(d)
  <2>1. [k \in 1 .. K |-> Times(u[k], y[k])] = d
    BY <1>5
  <2> HIDE DEF y, d
  <2> QED BY <2>1 DEF Dot, Dim
<1>7. Dot(u, v) = Sum(a) /\ Dot(u, w) = Sum(b)
  BY DEF Dot, Dim
<1>8. Sum(a) \in Polys
  <2> HIDE DEF a
  <2> QED BY <1>2, SumIn
<1>9. Sum(d) = Plus(Sum(c), Sum(b))
  <2> HIDE DEF c, b
  <2> QED BY <1>2, <1>4, SumPlus
<1>10. Sum(c) = L[Sum(a)]
  <2> HIDE DEF a, L
  <2> QED BY <1>2, <1>3, SumMap
<1> QED BY <1>6, <1>7, <1>8, <1>9, <1>10

(* A product of a sum of products.                                         *)
LEMMA TimesDot ==
  ASSUME MlKemRingAssumption, K \in Nat, NEW f \in Polys, NEW u \in Vectors, NEW v \in Vectors
  PROVE  Times(f, Dot(u, v)) = Sum([k \in Dim |-> Times(f, Times(u[k], v[k]))])
<1> DEFINE L == [g \in Polys |-> Times(f, g)]
           a == [k \in 1 .. K |-> Times(u[k], v[k])]
           c == [k \in 1 .. K |-> L[a[k]]]
<1>1. \A k \in 1 .. K : u[k] \in Polys /\ v[k] \in Polys /\ Times(u[k], v[k]) \in Polys
  BY TimesIn DEF Vectors, Dim
<1>2. a \in [1 .. K -> Polys]
  BY <1>1
<1>3. /\ L \in [Polys -> Polys] /\ L[Zero] = Zero
      /\ \A g, h \in Polys : L[Plus(g, h)] = Plus(L[g], L[h])
  <2>1. 0 \in Field
    BY Ring, SMT DEF Field
  <2> QED BY <2>1, TimesIn, TimesSum, ZeroMaps, ZeroIs, PolyOps
<1>4. c = [k \in Dim |-> Times(f, Times(u[k], v[k]))]
  BY <1>1 DEF Dim
<1>5. Dot(u, v) = Sum(a)
  BY DEF Dot, Dim
<1>6. Sum(a) \in Polys
  <2> HIDE DEF a
  <2> QED BY <1>2, SumIn
<1>7. Sum(c) = L[Sum(a)]
  <2> HIDE DEF a, L
  <2> QED BY <1>2, <1>3, SumMap
<1> QED BY <1>4, <1>5, <1>6, <1>7

(* A matrix times one vector, and that times another: from either side.    *)
LEMMA DotSwap ==
  ASSUME MlKemRingAssumption, K \in Nat, NEW A \in [Dim -> Vectors],
         NEW s \in Vectors, NEW r \in Vectors
  PROVE  Dot(r, [i \in Dim |-> Dot(A[i], s)]) = Dot(s, [j \in Dim |-> Dot([i \in Dim |-> A[i][j]], r)])
<1> DEFINE g == [i \in 1 .. K |-> [j \in 1 .. K |-> Times(r[i], Times(A[i][j], s[j]))]]
           x == [i \in Dim |-> Dot(A[i], s)]
           col(j) == [i \in Dim |-> A[i][j]]
           y == [j \in Dim |-> Dot(col(j), r)]
<1>1. \A i, j \in 1 .. K : A[i] \in Vectors /\ A[i][j] \in Polys /\ s[j] \in Polys /\ r[i] \in Polys
  BY DEF Vectors, Dim
<1>2. g \in [1 .. K -> [1 .. K -> Polys]]
  BY <1>1, TimesIn
<1>3. \A i \in 1 .. K : Times(r[i], x[i]) = Sum(g[i])
  <2> TAKE i \in 1 .. K
  <2>1. Times(r[i], Dot(A[i], s)) = Sum([j \in Dim |-> Times(r[i], Times(A[i][j], s[j]))])
    BY <1>1, TimesDot
  <2> QED BY <2>1 DEF Dim
<1>4. \A j \in 1 .. K : Times(s[j], y[j]) = Sum([i \in 1 .. K |-> g[i][j]])
  <2> TAKE j \in 1 .. K
  <2> DEFINE c == col(j)
             h == [i \in 1 .. K |-> g[i][j]]
  <2>1. c \in Vectors /\ \A i \in 1 .. K : c[i] = A[i][j]
    BY <1>1 DEF Vectors, Dim
  <2>2. y[j] = Dot(c, r)
    BY DEF Dim
  <2> HIDE DEF c, y
  <2>3. Times(s[j], Dot(c, r)) = Sum([i \in Dim |-> Times(s[j], Times(c[i], r[i]))])
    BY <1>1, <2>1, TimesDot
  <2>4. \A i \in 1 .. K : Times(s[j], Times(c[i], r[i])) = h[i]
    <3> TAKE i \in 1 .. K
    <3> DEFINE p == s[j]
               q == A[i][j]
               t == r[i]
    <3>1. p \in Polys /\ q \in Polys /\ t \in Polys /\ c[i] = q /\ h[i] = Times(t, Times(q, p))
      BY <1>1, <2>1
    <3> HIDE DEF p, q, t
    <3>2. Times(p, Times(q, t)) = Times(Times(q, t), p) /\ Times(q, t) = Times(t, q)
      BY <3>1, TimesComm, TimesIn
    <3>3. Times(Times(t, q), p) = Times(t, Times(q, p))
      BY <3>1, TimesAssoc
    <3> QED BY <3>1, <3>2, <3>3 DEF p, t
  <2>5. [i \in Dim |-> Times(s[j], Times(c[i], r[i]))] = h
    BY <2>4 DEF Dim
  <2> QED BY <2>2, <2>3, <2>5
<1>5. Dot(r, x) = Sum([i \in 1 .. K |-> Sum(g[i])])
  <2>1. [k \in 1 .. K |-> Times(r[k], x[k])] = [i \in 1 .. K |-> Sum(g[i])]
    BY <1>3
  <2> HIDE DEF x, g
  <2> QED BY <2>1 DEF Dot, Dim
<1>6. Dot(s, y) = Sum([j \in 1 .. K |-> Sum([i \in 1 .. K |-> g[i][j]])])
  <2>1. [k \in 1 .. K |-> Times(s[k], y[k])] = [j \in 1 .. K |-> Sum([i \in 1 .. K |-> g[i][j]])]
    BY <1>4
  <2> HIDE DEF y, g
  <2> QED BY <2>1 DEF Dot, Dim
<1>7. Sum([i \in 1 .. K |-> Sum(g[i])]) = Sum([j \in 1 .. K |-> Sum([i \in 1 .. K |-> g[i][j]])])
  <2> HIDE DEF g
  <2> QED BY <1>2, SumSwap
<1> QED BY <1>5, <1>6, <1>7

(* The two products that decrypt and encrypt transform back differ by what *)
(* the errors make of them.                                                *)
Exchanged(A, B, s, e, r, o, t, u) ==
  /\ A \in [Dim -> Vectors] /\ B \in [Dim -> Vectors] /\ \A i, j \in Dim : B[j][i] = A[i][j]
  /\ {s, e, r, o, t, u} \subseteq Vectors
  /\ \A i \in Dim : t[i] = Plus(ScaleBy(Square, Dot(A[i], s)), e[i])
  /\ \A j \in Dim : u[j] = Plus(ScaleBy(Square, Dot(B[j], r)), o[j])
LEMMA Exchange ==
  ASSUME MlKemRingAssumption, K \in Nat, NEW A, NEW B, NEW s, NEW e, NEW r, NEW o, NEW t, NEW u,
         Exchanged(A, B, s, e, r, o, t, u)
  PROVE  \E p \in Polys : /\ INT(Dot(t, r)) = Plus(p, INT(Dot(e, r)))
                          /\ INT(Dot(s, u)) = Plus(p, INT(Dot(s, o)))
<1> DEFINE x == [i \in Dim |-> Dot(A[i], s)]
           y == [j \in Dim |-> Dot(B[j], r)]
           z == [j \in Dim |-> Dot([i \in Dim |-> A[i][j]], r)]
<1>0. Square \in Field
  BY IsMod, FieldInt, SMT DEF Square
<1>1. /\ A \in [Dim -> Vectors] /\ B \in [Dim -> Vectors]
      /\ s \in Vectors /\ e \in Vectors /\ r \in Vectors /\ o \in Vectors
      /\ t \in Vectors /\ u \in Vectors
  BY DEF Exchanged
<1>2. x \in Vectors
  <2>1. \A i \in Dim : Dot(A[i], s) \in Polys
    BY <1>1, DotIn
  <2> QED BY <2>1 DEF Vectors
<1>3. y \in Vectors
  <2>1. \A j \in Dim : Dot(B[j], r) \in Polys
    BY <1>1, DotIn
  <2> QED BY <2>1 DEF Vectors
<1>4. t = [i \in Dim |-> Plus(ScaleBy(Square, x[i]), e[i])]
      /\ u = [j \in Dim |-> Plus(ScaleBy(Square, y[j]), o[j])]
  <2>1. t = [i \in Dim |-> t[i]] /\ u = [i \in Dim |-> u[i]]
    BY <1>1 DEF Vectors
  <2>2. /\ \A i \in Dim : t[i] = Plus(ScaleBy(Square, x[i]), e[i])
        /\ \A i \in Dim : u[i] = Plus(ScaleBy(Square, y[i]), o[i])
    BY DEF Exchanged
  <2> HIDE DEF x, y
  <2> QED BY <2>1, <2>2
<1>5. Dot(r, x) = Dot(s, y)
  <2>1. ASSUME NEW j \in Dim PROVE B[j] = [i \in Dim |-> A[i][j]]
    <3>1. B[j] = [i \in Dim |-> B[j][i]]
      BY <1>1 DEF Vectors
    <3>2. \A i \in Dim : B[j][i] = A[i][j]
      BY DEF Exchanged
    <3> QED BY <3>1, <3>2
  <2>2. y = z
    BY <2>1
  <2>3. Dot(r, x) = Dot(s, z)
    BY <1>1, DotSwap
  <2> HIDE DEF x, y, z
  <2> QED BY <2>2, <2>3
<1> HIDE DEF x, y
<1> DEFINE d == Dot(s, y)
           c == ScaleBy(Square, d)
<1>6. Dot(r, t) = Plus(c, Dot(r, e))
  BY <1>0, <1>1, <1>2, <1>4, <1>5, DotSum
<1>7. Dot(s, u) = Plus(c, Dot(s, o))
  <2>1. Dot(s, [j \in Dim |-> Plus(ScaleBy(Square, y[j]), o[j])]) =
          Plus(ScaleBy(Square, Dot(s, y)), Dot(s, o))
    BY <1>0, <1>1, <1>3, DotSum
  <2> QED BY <1>4, <2>1
<1>8. d \in Polys /\ Dot(r, e) \in Polys /\ Dot(s, o) \in Polys
      /\ Dot(r, t) = Dot(t, r) /\ Dot(r, e) = Dot(e, r)
  BY <1>1, <1>3, DotIn
<1> HIDE DEF d
<1>9. c \in Polys
  BY <1>0, <1>8, ScaleIn
<1> HIDE DEF c
<1>10. INT(Dot(r, t)) = Plus(INT(c), INT(Dot(r, e))) /\ INT(Dot(s, u)) = Plus(INT(c), INT(Dot(s, o)))
  BY <1>6, <1>7, <1>8, <1>9, IntLinear
<1>11. INT(c) \in Polys
  BY <1>9, TransformsIn
<1> QED BY <1>8, <1>10, <1>11
-----------------------------------------------------------------------------
(* poly.rs: sums, differences and reductions of polynomials.               *)
LEMMA WithinIs ==
  ASSUME MlKemRingAssumption, NEW b \in Nat, 2 * b < WORD, NEW f \in Within(b)
  PROVE  /\ f \in Words /\ Res(f) \in Polys
         /\ \A i \in Index : f[i] \in Near(b) /\ f[i] \in Int /\ f[i] \in Half /\ Wrap(f[i]) = f[i]
<1>1. \A i \in Index : f[i] \in Near(b)
  BY DEF Within
<1>2. \A i \in Index : f[i] \in Int /\ f[i] \in Half /\ Wrap(f[i]) = f[i]
  BY <1>1, NearHalf
<1>3. f \in Words
  BY <1>2 DEF Within, Words
<1> QED BY <1>1, <1>2, <1>3, ResIn

LEMMA WithinMore ==
  ASSUME NEW a \in Nat, NEW b \in Nat, a <= b, NEW f \in Within(a)
  PROVE  f \in Within(b)
BY NearMore DEF Within

LEMMA WordsInt ==
  ASSUME MlKemRingAssumption, NEW f \in Words
  PROVE  (\A i \in Index : f[i] \in Half /\ f[i] \in Int) /\ Res(f) \in Polys
<1>1. \A i \in Index : f[i] \in Half /\ f[i] \in Int
  BY HalfInt DEF Words
<1> QED BY <1>1, ResIn

LEMMA PolysWithin ==
  ASSUME MlKemRingAssumption, NEW f \in Polys
  PROVE  f \in Within(Q) /\ f \in Words /\ Res(f) = f
<1>1. \A i \in Index : f[i] \in Near(Q) /\ f[i] \in Half /\ f[i] % Q = f[i]
  BY Small, FieldInt DEF Polys
<1> QED BY <1>1 DEF Polys, Within, Words, Res

LEMMA SumForm ==
  ASSUME NEW f, NEW g
  PROVE  /\ PolyAdd(f, g) = [i \in Index |-> Wrap(f[i] + g[i])]
         /\ PolySub(f, g) = [i \in Index |-> Wrap(f[i] - g[i])]
<1>1. PolyAdd(f, g) = [i \in Index |-> Wrap(f[i] + g[i])]
  BY EvaluatedIs DEF PolyAdd, Coeffs
<1>2. PolySub(f, g) = [i \in Index |-> Wrap(f[i] - g[i])]
  BY EvaluatedIs DEF PolySub, Coeffs
<1> QED BY <1>1, <1>2

LEMMA PolyAddIs ==
  ASSUME MlKemRingAssumption, NEW a \in Nat, NEW b \in Nat, 2 * (a + b) < WORD,
         NEW f \in Within(a), NEW g \in Within(b)
  PROVE  /\ PolyAdd(f, g) \in Within(a + b) /\ PolySub(f, g) \in Within(a + b)
         /\ \A i \in Index : PolyAdd(f, g)[i] = f[i] + g[i] /\ PolySub(f, g)[i] = f[i] - g[i]
         /\ Res(PolyAdd(f, g)) = Plus(Res(f), Res(g))
<1> DEFINE c == a + b
           s == PolyAdd(f, g)
           d == PolySub(f, g)
<1>1. c \in Nat /\ 2 * c < WORD
  BY SMT
<1>2. ASSUME NEW i \in Index
      PROVE  /\ s[i] = f[i] + g[i] /\ s[i] \in Near(c) /\ d[i] = f[i] - g[i] /\ d[i] \in Near(c)
             /\ s[i] % Q = Add(f[i] % Q, g[i] % Q)
  <2> DEFINE x == f[i]
             y == g[i]
             u == x + y
             v == x - y
  <2>1. x \in Near(a) /\ y \in Near(b)
    BY DEF Within
  <2>2. s[i] = Wrap(u) /\ d[i] = Wrap(v)
    BY SumForm
  <2> HIDE DEF x, y, s, d
  <2>3. u \in Near(c) /\ v \in Near(c) /\ x \in Int /\ y \in Int
    BY <2>1, NearSum
  <2>4. u % Q = Add(x % Q, y % Q)
    BY <2>3, ResAdd
  <2> HIDE DEF u, v, c
  <2>5. Wrap(u) = u /\ Wrap(v) = v
    BY <1>1, <2>3, NearHalf
  <2> QED BY <2>2, <2>3, <2>4, <2>5 DEF x, y, u, v
<1>3. s \in Within(c) /\ d \in Within(c)
  BY <1>2, SumForm DEF Within
<1>4. Res(s) = Plus(Res(f), Res(g))
  BY <1>2 DEF Res, Plus
<1> QED BY <1>2, <1>3, <1>4

LEMMA ReduceIs ==
  ASSUME MlKemRingAssumption, NEW f \in Words
  PROVE  /\ reduce(f) \in Within(Q) /\ Res(reduce(f)) = Res(f)
         /\ \A i \in Index : reduce(f)[i] = barrett_reduce(f[i])
<1>1. reduce(f) = [i \in Index |-> barrett_reduce(f[i])]
  BY EvaluatedIs DEF reduce, Coeffs
<1>2. ASSUME NEW i \in Index
      PROVE  barrett_reduce(f[i]) \in Near(Q) /\ barrett_reduce(f[i]) % Q = f[i] % Q
  <2>1. f[i] \in Half /\ f[i] \in Int
    BY WordsInt
  <2> QED BY <2>1, BarrettIs, IsEqual, Small
<1>3. reduce(f) \in Within(Q)
  BY <1>1, <1>2 DEF Within
<1> QED BY <1>1, <1>2, <1>3 DEF Res

LEMMA MontIs ==
  ASSUME MlKemRingAssumption, NEW f \in Words
  PROVE  apply_mont(f) \in Within(Q) /\ Res(apply_mont(f)) = ScaleBy(Square, Res(f))
<1>1. apply_mont(f) = [i \in Index |-> fqmul(f[i], F_MONT)]
  BY EvaluatedIs DEF apply_mont, Coeffs
<1>0. F_MONT \in Field /\ F_MONT = Square /\ F_MONT % Q = F_MONT /\ F_MONT \in Half /\ F_MONT \in Near(Q)
  BY Factors, Small, FieldInt DEF Square
<1>2. ASSUME NEW i \in Index
      PROVE  fqmul(f[i], F_MONT) \in Near(Q) /\ fqmul(f[i], F_MONT) % Q = Mul(Square, f[i] % Q)
  <2>1. f[i] \in Half /\ f[i] \in Int
    BY WordsInt
  <2>2. fqmul(f[i], F_MONT) \in Near(Q)
    BY <1>0, <2>1, FqmulIs
  <2>3. fqmul(f[i], F_MONT) % Q = Mul(f[i] % Q, F_MONT % Q)
    BY <1>0, <2>1, ResFqmul
  <2>4. Mul(f[i] % Q, F_MONT) = Mul(F_MONT, f[i] % Q)
    BY <1>0, <2>1, IsMod, MulComm
  <2> QED BY <1>0, <2>2, <2>3, <2>4
<1>3. apply_mont(f) \in Within(Q)
  BY <1>1, <1>2 DEF Within
<1> QED BY <1>1, <1>2, <1>3 DEF Res, ScaleBy

(* encode.rs: what is packed is the polynomial modulo Q.                   *)
LEMMA BytesIs ==
  ASSUME MlKemRingAssumption, NEW f \in Words
  PROVE  poly_tobytes(f) = Res(f)
<1>1. poly_tobytes(f) = [i \in Index |-> freeze(f[i]) % FIELD]
  BY EvaluatedIs DEF poly_tobytes, Coeffs
<1>2. ASSUME NEW i \in Index PROVE freeze(f[i]) % FIELD = f[i] % Q
  <2>1. f[i] \in Half /\ f[i] \in Int
    BY WordsInt
  <2> DEFINE x == f[i] % Q
  <2>2. freeze(f[i]) = x /\ x \in Field
    BY <2>1, FreezeIs, IsMod
  <2> HIDE DEF x
  <2>3. x % FIELD = x
    BY <2>2, Ring, SMT DEF Field
  <2> QED BY <2>2, <2>3 DEF x
<1> QED BY <1>1, <1>2 DEF Res

(* basemul_acc: a row of field elements times a vector of words.           *)
LEMMA AccIs ==
  ASSUME MlKemRingAssumption, K \in Nat, 4 * (K * Q) < WORD, NEW u \in Vectors,
         NEW v \in [Dim -> Words]
  PROVE  /\ basemul_acc(u, v) \in Within(K * (2 * Q)) /\ basemul_acc(u, v) \in Words
         /\ Res(basemul_acc(u, v)) = Dot(u, [k \in Dim |-> Res(v[k])])
<1> DEFINE n == K
           sq == [s \in DOMAIN v |-> s]
           term(j) == poly_basemul(u[j], v[j])
           step == [j \in 1 .. n |-> [g \in Words |-> PolyAdd(g, term(j))]]
           IsFold(h) == h = [s \in SUBSET (1 .. n) |->
                               IF s = {} THEN ZeroPoly
                               ELSE PolyAdd(h[s \ {Max(s)}], poly_basemul(u[sq[Max(s)]], v[sq[Max(s)]]))]
           it == CHOOSE h : IsFold(h)
           t == [k \in 1 .. n |-> Times(u[k], Res(v[k]))]
<1>a. /\ n \in Nat /\ DOMAIN v = 1 .. n /\ DOMAIN sq = 1 .. n /\ \A j \in 1 .. n : sq[j] = j
      /\ Q \in Nat /\ WORD \in Nat /\ WORD > 0
  BY Ring DEF Dim
<1>b. \A j \in 1 .. n : u[j] \in Polys /\ v[j] \in Words /\ Res(v[j]) \in Polys
  BY <1>a, WordsInt DEF Vectors, Dim
<1>c. \A j \in 1 .. n : term(j) \in Within(2 * Q) /\ Res(term(j)) = Times(u[j], Res(v[j]))
  BY <1>b, BasemulIs
<1>d. ZeroPoly = Zero
  BY EvaluatedIs DEF ZeroPoly, Coeffs, Zero
<1>0. ZeroPoly \in Within(0) /\ ZeroPoly \in Words /\ Zero \in Polys /\ Res(ZeroPoly) = Zero
  <2>1. Zero \in Polys
    BY ZeroIs
  <2>2. 0 \in Near(0)
    BY SMT DEF Near
  <2>3. Zero \in Within(0)
    BY <2>2 DEF Zero, Within
  <2> QED BY <1>d, <2>1, <2>3, PolysWithin
<1>2. basemul_acc(u, v) = it[1 .. n]
  <2>1. basemul_acc(u, v) = FoldLeft(LAMBDA f, s : PolyAdd(f, poly_basemul(u[s], v[s])), ZeroPoly, sq)
    BY DEF basemul_acc
  <2> HIDE DEF sq
  <2> QED BY <1>a, <2>1 DEF FoldLeft, MapThenFoldSet
<1>3. \A j \in 1 .. n, g \in Words : step[j][g] = PolyAdd(g, term(j)) /\ step[j][g] \in Words
  <2> TAKE j \in 1 .. n, g \in Words
  <2>1. term(j) \in Within(2 * Q) /\ 2 * (2 * Q) < WORD /\ 2 * Q \in Nat
    BY <1>a, <1>c, Ring, SMT
  <2>2. (\A i \in Index : g[i] \in Int) /\ \A i \in Index : term(j)[i] \in Int
    <3> DEFINE x == term(j)
               b == 2 * Q
    <3>1. x \in Within(b) /\ b \in Nat /\ 2 * b < WORD
      BY <2>1
    <3> HIDE DEF x, b
    <3>2. \A i \in Index : x[i] \in Int
      BY <3>1, WithinIs
    <3> QED BY <3>2, WordsInt DEF x
  <2> DEFINE x == term(j)
  <2>3. \A i \in Index : g[i] + x[i] \in Int
    BY <2>2
  <2>5. \A i \in Index : x[i] \in Int
    BY <2>2
  <2> HIDE DEF x
  <2>4. \A i \in Index : Wrap(g[i] + x[i]) \in Half
    <3> TAKE i \in Index
    <3> DEFINE e == g[i] + x[i]
    <3>1. e \in Int
      BY <2>3
    <3> HIDE DEF e
    <3>2. Wrap(e) \in Half
      BY <3>1, WrapHalf
    <3> QED BY <3>2 DEF e
  <2>6. PolyAdd(g, x) \in Words
    BY <2>4, SumForm DEF Words
  <2> QED BY <2>6 DEF x
<1>4. \A s \in SUBSET (1 .. n) : s # {} => Max(s) \in 1 .. n /\ s \ {Max(s)} \in SUBSET (1 .. n)
  BY <1>a, LastPick DEF Picks
<1> HIDE DEF step
<1>5. Closed(n, Words, step)
  BY <1>3 DEF Closed
<1>6. IsFold(it)
  <2>1. PICK h : /\ LeftFolds(h, n, ZeroPoly, step)
                 /\ \A s \in SUBSET (1 .. n) : h[s] \in Words
    <3> HIDE DEF n
    <3> QED BY ONLY <1>0, <1>a, <1>5, LeftFold
  <2>2. \A s \in SUBSET (1 .. n) :
          s # {} => step[Max(s)][h[s \ {Max(s)}]] =
                      PolyAdd(h[s \ {Max(s)}], poly_basemul(u[sq[Max(s)]], v[sq[Max(s)]]))
    BY <1>3, <1>4, <1>a, <2>1
  <2>3. IsFold(h)
    <3> HIDE DEF n, sq
    <3> QED BY <2>1, <2>2 DEF LeftFolds
  <2> QED BY <2>3
<1> HIDE DEF it
<1>7. LeftTakes(it, n, Words, ZeroPoly, step)
  <2>1. it = [s \in SUBSET (1 .. n) |->
                IF s = {} THEN ZeroPoly
                ELSE PolyAdd(it[s \ {Max(s)}], poly_basemul(u[sq[Max(s)]], v[sq[Max(s)]]))]
    BY <1>6
  <2> HIDE DEF IsFold
  <2>2. it[{}] = ZeroPoly
    BY <2>1
  <2>3. \A s \in SUBSET (1 .. n) :
          s # {} => it[s] = PolyAdd(it[s \ {Max(s)}], term(Max(s)))
    <3> HIDE DEF sq
    <3> QED BY <1>4, <1>a, <2>1
  <2> QED BY <1>3, <1>4, <2>2, <2>3 DEF LeftTakes
<1> HIDE DEF IsFold
<1>8. PICK r : /\ Runs(r, n, Words, ZeroPoly) /\ r[n] = it[1 .. n]
               /\ \A k \in 0 .. n - 1 : r[k + 1] = step[k + 1][r[k]]
  <2> HIDE DEF n
  <2> QED BY ONLY <1>0, <1>a, <1>5, <1>7, LeftRun
<1>9. \A k \in 0 .. n - 1 : r[k + 1] = PolyAdd(r[k], term(k + 1))
  <2> TAKE k \in 0 .. n - 1
  <2>1. k \in 0 .. n /\ k + 1 \in 1 .. n
    BY <1>a, SMT
  <2> QED BY <1>3, <1>8, <2>1 DEF Runs
<1>e. t \in [1 .. n -> Polys]
  BY <1>b, TimesIn
<1>10. PICK c : /\ Runs(c, n, Polys, Zero) /\ Sum(t) = c[n]
                /\ \A k \in 0 .. n - 1 : c[k + 1] = Plus(c[k], t[k + 1])
  <2> HIDE DEF t, n
  <2> QED BY ONLY <1>a, <1>e, MlKemRingAssumption, SumRun
<1> DEFINE S == {k \in 0 .. n : r[k] \in Within(k * (2 * Q)) /\ Res(r[k]) = c[k]}
<1>11. 0 \in S
  <2>1. 0 \in 0 .. n /\ 0 * (2 * Q) = 0
    BY <1>a, SMT
  <2> QED BY <1>0, <1>8, <1>10, <2>1 DEF Runs
<1>12. ASSUME NEW k \in 0 .. n - 1, k \in S PROVE k + 1 \in S
  <2> DEFINE a == k * (2 * Q)
             b == 2 * Q
             f == r[k]
             g == term(k + 1)
  <2>1. k \in 0 .. n /\ k + 1 \in 0 .. n /\ k + 1 \in 1 .. n /\ k + 1 <= n /\ k + 1 \in Int /\ n \in Int
    BY <1>a, SMT
  <2>2. a \in Nat /\ b \in Nat /\ a + b = (k + 1) * (2 * Q) /\ a + b = b * (k + 1)
        /\ b * n = 2 * (K * Q) /\ b * n \in Int
    <3> b \in Nat /\ k \in Nat
      BY <1>a, SMT
    <3> HIDE DEF b
    <3>1. k * b \in Nat /\ (k * b) + b = (k + 1) * b /\ (k + 1) * b = b * (k + 1) /\ b * n \in Int
      BY <1>a, SMT
    <3>2. b * n = 2 * (K * Q)
      BY <1>a, SMT DEF b
    <3> QED BY <3>1, <3>2 DEF b
  <2>3. b * (k + 1) <= b * n
    BY <2>1, <2>2, Times2
  <2> DEFINE m == b * n
             o == a + b
  <2>4. o <= m /\ 2 * m < WORD /\ o \in Nat /\ m \in Int
    <3> HIDE DEF b
    <3>1. 2 * (2 * (K * Q)) < WORD
      <4> DEFINE z == K * Q
      <4>1. z \in Int /\ 4 * z < WORD
        BY <1>a, SMT
      <4> HIDE DEF z
      <4>2. 2 * (2 * z) < WORD
        BY <1>a, <4>1, SMT
      <4> QED BY <4>2 DEF z
    <3> QED BY <2>2, <2>3, <3>1
  <2>5. 2 * o < WORD
    <3> HIDE DEF o, m
    <3> QED BY <1>a, <2>4, SMT
  <2>6. f \in Within(a) /\ Res(f) = c[k] /\ g \in Within(b) /\ Res(g) = t[k + 1]
    BY <1>c, <1>12, <2>1
  <2>7. r[k + 1] = PolyAdd(f, g) /\ c[k + 1] = Plus(c[k], t[k + 1])
    BY <1>9, <1>10
  <2> HIDE DEF a, b, f, g, t, m
  <2>8. PolyAdd(f, g) \in Within(a + b) /\ Res(PolyAdd(f, g)) = Plus(Res(f), Res(g))
    BY <2>2, <2>5, <2>6, PolyAddIs
  <2> QED BY <2>1, <2>2, <2>6, <2>7, <2>8
<1>13. n \in S
  <2>1. n \in 0 .. n
    BY <1>a, SMT
  <2> HIDE DEF S, n
  <2> QED BY <1>a, <1>11, <1>12, <2>1, UptoInduction
<1>14. r[n] \in Words
  <2>1. n \in 0 .. n
    BY <1>a, SMT
  <2> QED BY <1>8, <2>1 DEF Runs
<1>15. Sum(t) = Dot(u, [k \in Dim |-> Res(v[k])])
  <2>1. t = [k \in Dim |-> Times(u[k], [j \in Dim |-> Res(v[j])][k])]
    BY DEF Dim
  <2> HIDE DEF t
  <2> QED BY <2>1 DEF Dot
<1> QED BY <1>2, <1>8, <1>10, <1>13, <1>14, <1>15
-----------------------------------------------------------------------------
(* sample.rs: what is drawn.                                               *)
LEMMA RejIs ==
  ASSUME MlKemRingAssumption, NEW r0 \in Seq(Field), NEW fields \in Seq(Nat)
  PROVE  rej_uniform(r0, fields) \in Seq(Field)
<1> DEFINE n == Len(fields)
           T == Seq(Field)
           more(s, d) == IF Len(s) < DEGREE /\ d < Q THEN Append(s, d) ELSE s
           step == [j \in 1 .. n |-> [s \in T |-> more(s, fields[j])]]
           IsFold(h) == h = [s \in SUBSET (1 .. n) |->
                               IF s = {} THEN r0 ELSE more(h[s \ {Max(s)}], fields[Max(s)])]
           it == CHOOSE h : IsFold(h)
<1>0. n \in Nat /\ DOMAIN fields = 1 .. n /\ \A j \in 1 .. n : fields[j] \in Nat
  OBVIOUS
<1>1. rej_uniform(r0, fields) = it[1 .. n]
  BY <1>0 DEF rej_uniform, FoldLeft, MapThenFoldSet
<1>2. \A j \in 1 .. n, s \in T : step[j][s] = more(s, fields[j]) /\ step[j][s] \in T
  <2> TAKE j \in 1 .. n, s \in T
  <2> DEFINE d == fields[j]
  <2>1. d \in Nat /\ (d < Q => d \in Field)
    BY <1>0, Ring, SMT DEF Field
  <2> HIDE DEF d
  <2>2. more(s, d) \in T
    BY <2>1
  <2> QED BY <2>2 DEF d
<1>3. \A s \in SUBSET (1 .. n) : s # {} => Max(s) \in 1 .. n /\ s \ {Max(s)} \in SUBSET (1 .. n)
  BY <1>0, LastPick DEF Picks
<1> HIDE DEF step, more
<1>4. Closed(n, T, step) /\ r0 \in T
  BY <1>2 DEF Closed
<1>5. IsFold(it)
  <2>1. PICK h : LeftFolds(h, n, r0, step) /\ \A s \in SUBSET (1 .. n) : h[s] \in T
    <3> HIDE DEF n, T
    <3> QED BY ONLY <1>0, <1>4, LeftFold
  <2>2. IsFold(h)
    <3> HIDE DEF n, T
    <3> QED BY <1>2, <1>3, <2>1 DEF LeftFolds
  <2> QED BY <2>2
<1> HIDE DEF it
<1>6. LeftTakes(it, n, T, r0, step)
  <2>1. it = [s \in SUBSET (1 .. n) |->
                IF s = {} THEN r0 ELSE more(it[s \ {Max(s)}], fields[Max(s)])]
    BY <1>5
  <2> HIDE DEF IsFold, T, n
  <2> QED BY <1>2, <1>3, <2>1 DEF LeftTakes
<1> HIDE DEF IsFold
<1>7. PICK r : Runs(r, n, T, r0) /\ r[n] = it[1 .. n]
  <2> HIDE DEF n, T
  <2> QED BY ONLY <1>0, <1>4, <1>6, LeftRun
<1>8. n \in 0 .. n
  BY <1>0, SMT
<1> QED BY <1>1, <1>7, <1>8 DEF Runs

LEMMA WindowIs ==
  ASSUME MlKemRingAssumption, NEW stream, Fills(stream), NEW w \in 1 .. Len(WINDOWS)
  PROVE  SubSeq(stream, 1 + Filled(w - 1), Filled(w)) \in Seq(Nat)
<1> DEFINE a == 1 + Filled(w - 1)
           b == Filled(w)
<1>1. WINDOWS \in Seq(Nat)
  BY DEF MlKemRingAssumption
<1>2. w \in DOMAIN WINDOWS
  BY <1>1
<1>3. stream \in Seq(Nat) /\ Filled(w - 1) \in 0 .. b /\ b \in 0 .. Len(stream)
  BY <1>2 DEF Fills
<1>4. a \in 1 .. Len(stream) + 1 /\ b \in a - 1 .. Len(stream)
  BY <1>3
<1> HIDE DEF a, b
<1>5. SubSeq(stream, a, b) \in Seq(Nat)
  BY <1>3, <1>4, SubSeqProperties
<1> QED BY <1>5 DEF a, b

LEMMA SampleIs ==
  ASSUME MlKemRingAssumption, NEW stream, Fills(stream)
  PROVE  sample_ntt(stream) \in Polys
<1> DEFINE n == Len(WINDOWS)
           T == Seq(Field)
           sq == [w \in DOMAIN WINDOWS |-> w]
           window(w) == SubSeq(stream, 1 + Filled(w - 1), Filled(w))
           more(s, w) == IF Len(s) < DEGREE THEN rej_uniform(s, window(w)) ELSE s
           step == [j \in 1 .. n |-> [s \in T |-> more(s, sq[j])]]
           IsFold(h) == h = [s \in SUBSET (1 .. n) |->
                               IF s = {} THEN <<>> ELSE more(h[s \ {Max(s)}], sq[Max(s)])]
           it == CHOOSE h : IsFold(h)
           end == it[1 .. n]
<1>0. n \in Nat /\ DOMAIN WINDOWS = 1 .. n /\ DOMAIN sq = 1 .. n /\ \A j \in 1 .. n : sq[j] = j
  <2>1. WINDOWS \in Seq(Nat)
    BY DEF MlKemRingAssumption
  <2>2. n \in Nat /\ DOMAIN WINDOWS = 1 .. n
    BY <2>1
  <2> HIDE DEF n
  <2> QED BY <2>2
<1>1. FoldLeft(LAMBDA s, w : more(s, w), <<>>, sq) = end
  <2> HIDE DEF sq, more
  <2> QED BY <1>0 DEF FoldLeft, MapThenFoldSet
<1>a. sample_ntt(stream) = [i \in Index |-> IF i < Len(end) THEN end[i + 1] ELSE 0]
  <2> DEFINE r == FoldLeft(LAMBDA s, w : more(s, w), <<>>, sq)
  <2>1. sample_ntt(stream) = [i \in Index |-> IF i < Len(r) THEN r[i + 1] ELSE 0]
    BY EvaluatedIs DEF sample_ntt, Coeffs
  <2> HIDE DEF end
  <2> QED BY <1>1, <2>1
<1>2. \A j \in 1 .. n, s \in T : step[j][s] = more(s, sq[j]) /\ step[j][s] \in T
  <2> TAKE j \in 1 .. n, s \in T
  <2>1. window(j) \in Seq(Nat)
    BY WindowIs
  <2>2. rej_uniform(s, window(j)) \in T
    BY <2>1, RejIs
  <2>3. more(s, j) \in T
    BY <2>2
  <2> HIDE DEF more
  <2> QED BY <1>0, <2>3
<1>3. \A s \in SUBSET (1 .. n) : s # {} => Max(s) \in 1 .. n /\ s \ {Max(s)} \in SUBSET (1 .. n)
  BY <1>0, LastPick DEF Picks
<1> HIDE DEF step, more, sq
<1>4. Closed(n, T, step) /\ <<>> \in T
  BY <1>2 DEF Closed
<1>5. IsFold(it)
  <2>1. PICK h : LeftFolds(h, n, <<>>, step) /\ \A s \in SUBSET (1 .. n) : h[s] \in T
    <3> HIDE DEF n, T
    <3> QED BY ONLY <1>0, <1>4, LeftFold
  <2>2. IsFold(h)
    <3> HIDE DEF n, T
    <3> QED BY <1>2, <1>3, <2>1 DEF LeftFolds
  <2> QED BY <2>2
<1>6. LeftTakes(it, n, T, <<>>, step)
  <2> HIDE DEF it
  <2>1. it = [s \in SUBSET (1 .. n) |->
                IF s = {} THEN <<>> ELSE more(it[s \ {Max(s)}], sq[Max(s)])]
    BY <1>5
  <2> HIDE DEF IsFold, T, n
  <2> QED BY <1>2, <1>3, <2>1 DEF LeftTakes
<1> HIDE DEF IsFold, it
<1>7. PICK r : Runs(r, n, T, <<>>) /\ r[n] = it[1 .. n]
  <2> HIDE DEF n, T
  <2> QED BY ONLY <1>0, <1>4, <1>6, LeftRun
<1>8. end \in T
  <2>1. n \in 0 .. n
    BY <1>0, SMT
  <2> QED BY <1>7, <2>1 DEF Runs
<1> HIDE DEF end
<1>9. \A i \in Index : (IF i < Len(end) THEN end[i + 1] ELSE 0) \in Field
  <2> TAKE i \in Index
  <2>0. Len(end) \in Nat
    BY <1>8
  <2>1. i \in Nat /\ 0 \in Field /\ Len(end) \in Nat
    BY <2>0, Degree, Ring, SMT DEF Index, Field
  <2>2. CASE i < Len(end)
    <3>1. i + 1 \in 1 .. Len(end)
      BY <2>1, <2>2, SMT
    <3> QED BY <1>8, <2>2, <3>1
  <2> QED BY <2>1, <2>2
<1> QED BY <1>9, <1>a DEF Polys

(* The ones among so many bits.                                            *)
LEMMA OnesIs ==
  ASSUME NEW bits \in Seq({0, 1}), NEW a \in Nat, NEW m \in Nat, a + m <= Len(bits)
  PROVE  FoldLeft(+, 0, SubSeq(bits, a + 1, a + m)) \in 0 .. m
<1> DEFINE sq == SubSeq(bits, a + 1, a + m)
           step == [j \in 1 .. m |-> [x \in Nat |-> x + sq[j]]]
           IsFold(h) == h = [s \in SUBSET (1 .. m) |->
                               IF s = {} THEN 0 ELSE h[s \ {Max(s)}] + sq[Max(s)]]
           it == CHOOSE h : IsFold(h)
<1>0. sq \in Seq({0, 1}) /\ Len(sq) = m /\ DOMAIN sq = 1 .. m /\ \A j \in 1 .. m : sq[j] \in {0, 1}
  <2> DEFINE c == a + 1
             d == a + m
  <2>1. c \in 1 .. Len(bits) + 1 /\ d \in c - 1 .. Len(bits) /\ d - c + 1 = m /\ Len(bits) \in Nat
    OBVIOUS
  <2> HIDE DEF c, d
  <2>2. SubSeq(bits, c, d) \in Seq({0, 1}) /\ Len(SubSeq(bits, c, d)) = d - c + 1
    BY <2>1, SubSeqProperties
  <2>3. sq \in Seq({0, 1}) /\ Len(sq) = m
    BY <2>1, <2>2 DEF c, d
  <2> HIDE DEF sq
  <2> QED BY <2>3
<1>1. FoldLeft(+, 0, sq) = it[1 .. m]
  <2> HIDE DEF sq
  <2> QED BY <1>0 DEF FoldLeft, MapThenFoldSet
<1> HIDE DEF sq
<1>2. \A j \in 1 .. m, x \in Nat : step[j][x] = x + sq[j] /\ step[j][x] \in Nat
  <2> TAKE j \in 1 .. m, x \in Nat
  <2>1. x + sq[j] \in Nat
    BY <1>0
  <2> QED BY <2>1
<1>3. \A s \in SUBSET (1 .. m) : s # {} => Max(s) \in 1 .. m /\ s \ {Max(s)} \in SUBSET (1 .. m)
  BY LastPick DEF Picks
<1> HIDE DEF step
<1>4. Closed(m, Nat, step) /\ 0 \in Nat
  BY <1>2 DEF Closed
<1>5. IsFold(it)
  <2>1. PICK h : LeftFolds(h, m, 0, step) /\ \A s \in SUBSET (1 .. m) : h[s] \in Nat
    BY <1>4, LeftFold
  <2>2. \A s \in SUBSET (1 .. m) :
          s # {} => step[Max(s)][h[s \ {Max(s)}]] = h[s \ {Max(s)}] + sq[Max(s)]
    BY <1>2, <1>3, <2>1
  <2>3. IsFold(h)
    BY <2>1, <2>2 DEF LeftFolds
  <2> QED BY <2>3
<1> HIDE DEF it
<1>6. LeftTakes(it, m, Nat, 0, step)
  <2>1. it = [s \in SUBSET (1 .. m) |-> IF s = {} THEN 0 ELSE it[s \ {Max(s)}] + sq[Max(s)]]
    BY <1>5
  <2> HIDE DEF IsFold
  <2>2. it[{}] = 0
    BY <2>1
  <2>3. \A s \in SUBSET (1 .. m) : s # {} => it[s] = it[s \ {Max(s)}] + sq[Max(s)]
    BY <2>1
  <2> QED BY <1>2, <1>3, <2>2, <2>3 DEF LeftTakes
<1> HIDE DEF IsFold
<1>7. PICK r : /\ Runs(r, m, Nat, 0) /\ r[m] = it[1 .. m]
               /\ \A k \in 0 .. m - 1 : r[k + 1] = step[k + 1][r[k]]
  <2> DEFINE T == Nat
             zero == 0
  <2>1. m \in Nat /\ Closed(m, T, step) /\ zero \in T /\ LeftTakes(it, m, T, zero, step)
    BY <1>4, <1>6
  <2> HIDE DEF T, zero
  <2>2. \E r : /\ Runs(r, m, T, zero) /\ r[m] = it[1 .. m]
               /\ \A k \in 0 .. m - 1 : r[k + 1] = step[k + 1][r[k]]
    BY ONLY <2>1, LeftRun
  <2> QED BY <2>2 DEF T, zero
<1> DEFINE S == {k \in 0 .. m : r[k] \in 0 .. k}
<1>8. 0 \in S
  BY <1>7 DEF Runs
<1>9. ASSUME NEW k \in 0 .. m - 1, k \in S PROVE k + 1 \in S
  <2>1. k \in 0 .. m /\ k + 1 \in 0 .. m /\ k + 1 \in 1 .. m /\ r[k] \in Nat
    BY <1>9
  <2>2. r[k + 1] = r[k] + sq[k + 1] /\ sq[k + 1] \in {0, 1}
    BY <1>0, <1>2, <1>7, <2>1
  <2>3. r[k] \in 0 .. k
    BY <1>9
  <2>4. r[k + 1] \in 0 .. k + 1
    BY <2>2, <2>3
  <2> QED BY <2>1, <2>4
<1>10. m \in S
  <2>1. m \in 0 .. m
    OBVIOUS
  <2> HIDE DEF S
  <2> QED BY <1>8, <1>9, <2>1, UptoInduction
<1> QED BY <1>1, <1>7, <1>10 DEF sq

LEMMA CbdIs ==
  ASSUME MlKemRingAssumption, NEW bits \in Seq({0, 1}), NEW eta \in Nat,
         2 * eta * DEGREE <= Len(bits), eta <= Q
  PROVE  poly_cbd(bits, eta) \in Within(Q)
<1> DEFINE ones(from) == FoldLeft(+, 0, SubSeq(bits, from + 1, from + eta))
<1>1. poly_cbd(bits, eta) =
        [i \in Index |-> ones(2 * eta * i) - ones(2 * eta * i + eta)]
  BY EvaluatedIs DEF poly_cbd, Coeffs
<1>2. ASSUME NEW i \in Index PROVE ones(2 * eta * i) - ones(2 * eta * i + eta) \in Near(Q)
  <2> DEFINE a == 2 * eta * i
             b == a + eta
             w == 2 * eta
  <2>1. i \in Nat /\ i + 1 <= DEGREE /\ DEGREE \in Int /\ i + 1 \in Int /\ w \in Nat /\ Len(bits) \in Nat
    BY Degree, SMT DEF Index
  <2>2. w * (i + 1) <= w * DEGREE
    BY <2>1, Times2
  <2>3. a = w * i /\ w * (i + 1) = (w * i) + w /\ w = eta + eta /\ w * i \in Nat /\ w * DEGREE <= Len(bits)
    <3>1. w = eta + eta /\ a = w * i /\ w * DEGREE <= Len(bits)
      OBVIOUS
    <3> HIDE DEF w, a
    <3>2. w * (i + 1) = (w * i) + w /\ w * i \in Nat
      BY <2>1, SMT
    <3> QED BY <3>1, <3>2
  <2>4. a \in Nat /\ b \in Nat /\ a + eta <= Len(bits) /\ b + eta <= Len(bits)
    <3> DEFINE x == w * i
               y == w * DEGREE
               z == w * (i + 1)
    <3>1. a = x /\ z = x + w /\ w = eta + eta /\ x \in Nat /\ y <= Len(bits) /\ z <= y /\ y \in Int
      BY <2>1, <2>2, <2>3
    <3> HIDE DEF x, y, z, a, w
    <3> QED BY <2>1, <3>1
  <2> HIDE DEF a, b
  <2>5. FoldLeft(+, 0, SubSeq(bits, a + 1, a + eta)) \in 0 .. eta
        /\ FoldLeft(+, 0, SubSeq(bits, b + 1, b + eta)) \in 0 .. eta
    BY <2>4, OnesIs
  <2> DEFINE p == FoldLeft(+, 0, SubSeq(bits, a + 1, a + eta))
             q == FoldLeft(+, 0, SubSeq(bits, b + 1, b + eta))
  <2>6. p \in 0 .. eta /\ q \in 0 .. eta
    BY <2>5
  <2>7. ones(2 * eta * i) = p /\ ones(2 * eta * i + eta) = q
    BY DEF a, b
  <2> HIDE DEF p, q, ones
  <2>8. p - q \in Near(Q)
    BY <2>6, Ring, SMT DEF Near
  <2> QED BY <2>7, <2>8
<1> HIDE DEF ones
<1> QED BY <1>1, <1>2 DEF Within

-----------------------------------------------------------------------------
(* encode.rs: bits and fields of a ciphertext.                             *)
LEMMA DivUpto ==
  ASSUME NEW p \in Nat, p > 0, NEW x \in Nat, NEW m \in Nat, x < p * (m + 1)
  PROVE  x \div p \in 0 .. m
<1> DEFINE y == x \div p
           z == x % p
<1>1. y \in Int /\ z \in 0 .. p - 1 /\ x = p * y + z
  BY DivMod
<1> HIDE DEF y, z
<1>2. y <= m
  <2> SUFFICES ASSUME m + 1 <= y PROVE FALSE
    BY <1>1, SMT
  <2>1. p * (m + 1) <= p * y
    BY <1>1, Times2
  <2> DEFINE u == p * (m + 1)
             v == p * y
  <2>2. u \in Int /\ v \in Int /\ u <= v /\ x < u /\ x = v + z
    BY <1>1, <2>1, SMT
  <2> HIDE DEF u, v
  <2> QED BY <1>1, <2>2, SMT
<1>3. y >= 0
  <2> SUFFICES ASSUME y <= -1 PROVE FALSE
    BY <1>1, SMT
  <2>1. p * y <= p * (-1) /\ p * (-1) = -p
    BY <1>1, Times2, SMT
  <2> DEFINE v == p * y
  <2>2. v \in Int /\ v <= -p /\ x = v + z
    BY <1>1, <2>1, SMT
  <2> HIDE DEF v
  <2> QED BY <1>1, <2>2, SMT
<1>4. y \in 0 .. m
  BY <1>1, <1>2, <1>3, SMT
<1> QED BY <1>4 DEF y

LEMMA PowersAre ==
  ASSUME MlKemRingAssumption, NEW d \in 1 .. SHIFT
  PROVE  /\ 2 ^ d \in Nat /\ 2 ^ d > 0 /\ 2 ^ (d - 1) \in Nat /\ 2 ^ d = 2 * 2 ^ (d - 1)
<1>1. \A n \in 0 .. SHIFT : 2 ^ n \in Nat \ {0} /\ 2 ^ (n + 1) = 2 * 2 ^ n
  BY DEF MlKemRingAssumption
<1>2. d \in 0 .. SHIFT /\ d - 1 \in 0 .. SHIFT /\ (d - 1) + 1 = d
  BY Ring, SMT
<1>3. 2 ^ d \in Nat \ {0} /\ 2 ^ (d - 1) \in Nat \ {0}
  BY <1>1, <1>2
<1>4. 2 ^ ((d - 1) + 1) = 2 * 2 ^ (d - 1)
  BY <1>1, <1>2
<1> QED BY <1>2, <1>3, <1>4

LEMMA CompressedIs ==
  ASSUME MlKemRingAssumption, NEW d \in 1 .. SHIFT, NEW f \in Words
  PROVE  poly_decompress(poly_compress(f, d), d) \in Within(Q)
<1> DEFINE p == 2 ^ d
           h == 2 ^ (d - 1)
           g == poly_compress(f, d)
<1>0. p \in Nat /\ p > 0 /\ h \in Nat /\ p = 2 * h /\ Q \in Nat /\ Q > 1
  BY PowersAre, Ring
<1>1. g = [i \in Index |-> compress(freeze(f[i]), d)]
  BY EvaluatedIs DEF poly_compress, Coeffs
<1>2. poly_decompress(g, d) = [i \in Index |-> decompress(g[i], d)]
  BY EvaluatedIs DEF poly_decompress, Coeffs
<1>3. ASSUME NEW i \in Index PROVE decompress(g[i], d) \in Near(Q)
  <2> DEFINE a == freeze(f[i])
             c == ((a * p + Q \div 2) \div Q)
             b == c % p
  <2>1. a \in Field /\ a \in Int
    <3>1. f[i] \in Half /\ f[i] \in Int
      BY WordsInt
    <3> QED BY <3>1, FreezeIs, IsMod
  <2>2. g[i] = b
    BY <1>1 DEF compress
  <2> HIDE DEF a, g, p
  <2>3. c \in Int
    <3> DEFINE y == a * p + Q \div 2
    <3>1. y \in Int
      BY <1>0, <2>1, SMT
    <3> HIDE DEF y
    <3>2. y \div Q \in Int
      BY <1>0, <3>1, DivMod
    <3> QED BY <3>2 DEF y
  <2> HIDE DEF c
  <2>4. b \in 0 .. p - 1
    BY <1>0, <2>3, DivMod
  <2> HIDE DEF b, h
  <2> DEFINE x == b * Q + h
  <2>5. x \in Nat /\ x < p * (Q + 1)
    <3>1. Q * b <= Q * (p - 1)
      BY <1>0, <2>4, Times2
    <3>2. Q * (p - 1) = (p * Q) - Q /\ b * Q = Q * b /\ p * (Q + 1) = (p * Q) + p /\ Q * b \in Nat
          /\ p * Q \in Int
      BY <1>0, <2>4, SMT
    <3> DEFINE u == Q * b
               v == p * Q
    <3>3. u \in Nat /\ v \in Int /\ u <= v - Q /\ x = u + h /\ p * (Q + 1) = v + p
      BY <3>1, <3>2
    <3> HIDE DEF u, v, x
    <3> QED BY <1>0, <3>3, SMT
  <2>6. decompress(b, d) = x \div p
    BY DEF decompress, p, h
  <2> HIDE DEF x
  <2>7. x \div p \in 0 .. Q
    BY <1>0, <2>5, DivUpto
  <2> DEFINE z == x \div p
  <2>8. z \in 0 .. Q /\ decompress(g[i], d) = z
    BY <2>2, <2>6, <2>7
  <2> HIDE DEF z
  <2> QED BY <1>0, <2>8, SMT DEF Near
<1> QED BY <1>2, <1>3 DEF Within

(* A bit is half of the modulus,                                           *)
LEMMA MsgIs ==
  ASSUME MlKemRingAssumption, NEW m \in [Index -> {0, 1}]
  PROVE  /\ poly_frommsg(m) \in Within(Q)
         /\ \A i \in Index : poly_frommsg(m)[i] = m[i] * ((Q + 1) \div 2)
<1>1. poly_frommsg(m) = [i \in Index |-> m[i] * ((Q + 1) \div 2)]
  BY EvaluatedIs DEF poly_frommsg, Coeffs
<1>2. \A i \in Index : m[i] * ((Q + 1) \div 2) \in Near(Q)
  <2> TAKE i \in Index
  <2> DEFINE b == m[i]
             h == (Q + 1) \div 2
  <2>1. b \in {0, 1} /\ h \in Int /\ 0 <= h /\ h <= Q /\ Q \in Nat
    BY Ring, SMT
  <2> HIDE DEF b, h
  <2>2. b * h \in Near(Q)
    BY <2>1, SMT DEF Near
  <2> QED BY <2>2 DEF b, h
<1> QED BY <1>1, <1>2 DEF Within

(* and what is within a quarter of it is the bit.                          *)
LEMMA BitIs ==
  ASSUME MlKemRingAssumption, NEW b \in {0, 1}, NEW n \in Field,
         4 * n < Q - 1 \/ 4 * (Q - n) < Q - 1,
         NEW y \in Field, Is(y, b * ((Q + 1) \div 2) + n)
  PROVE  ((2 * y + Q \div 2) \div Q) % 2 = b
<1> DEFINE h == Q \div 2
<1>0. Q \in Nat /\ Q > 1 /\ Q % 2 = 1
  BY Ring DEF MlKemRingAssumption
<1>1. h \in Nat /\ Q = 2 * h + 1 /\ (Q + 1) \div 2 = h + 1
  BY <1>0, SMT
<1> HIDE DEF h
<1>2. /\ n \in Int /\ 0 <= n /\ n < Q /\ y \in Int /\ 0 <= y /\ y < Q
  BY FieldInt
<1>3. y = (b * (h + 1) + n) % Q
  <2> DEFINE x == b * (h + 1) + n
  <2>1. x \in Int /\ Is(y, x)
    BY <1>1, <1>2, SMT
  <2> HIDE DEF x
  <2>2. y % Q = x % Q /\ y % Q = y
    BY <1>2, <2>1, IsEqual, FieldInt
  <2> QED BY <2>2 DEF x
<1>4. \/ b = 0 /\ y = n
      \/ b = 1 /\ n < h /\ y = h + 1 + n
      \/ b = 1 /\ n >= h /\ y = h + 1 + n - Q
  <2>1. CASE b = 0
    BY <1>1, <1>2, <1>3, <2>1, SMT
  <2>2. CASE b = 1
    <3> DEFINE x == h + 1 + n
    <3>1. x \in Nat /\ y = x % Q /\ x < 2 * Q
      BY <1>1, <1>2, <1>3, <2>2, SMT
    <3>2. x % Q = IF x < Q THEN x ELSE x - Q
      <4> HIDE DEF x
      <4>1. CASE x < Q
        BY <1>0, <3>1, <4>1, SMT
      <4>2. CASE x >= Q
        <5>1. x - Q \in 0 .. Q - 1 /\ x = Q * 1 + (x - Q)
          BY <1>0, <3>1, <4>2, SMT
        <5>2. x % Q = x - Q
          BY <1>0, <3>1, <5>1, DivIs, SMT
        <5> QED BY <1>0, <3>1, <4>2, <5>2, SMT
      <4> QED BY <1>0, <3>1, <4>1, <4>2, SMT
    <3> QED BY <1>1, <1>2, <2>2, <3>1, <3>2, SMT
  <2> QED BY <2>1, <2>2
<1> DEFINE z == 2 * y + h
           q == IF b = 1 THEN 1 ELSE IF 4 * n < Q - 1 THEN 0 ELSE 2
           r == z - Q * q
<1>5. z \in Int /\ q \in Int /\ r \in 0 .. Q - 1 /\ z = Q * q + r
  <2>1. z \in Int /\ q \in Int /\ z = Q * q + r
    BY <1>1, <1>2, SMT
  <2>2. CASE b = 1
    <3>0. q = 1
      BY <2>2
    <3>1. q = 1 /\ r = z - Q
      <4> HIDE DEF q, z
      <4> QED BY <1>0, <2>1, <3>0, SMT
    <3>2. z - Q \in 0 .. Q - 1
      BY <1>1, <1>2, <1>4, <2>2, SMT
    <3> QED BY <2>1, <3>1, <3>2
  <2>3. CASE b = 0 /\ 4 * n < Q - 1
    <3>0. q = 0
      BY <2>3
    <3>1. q = 0 /\ r = z
      <4> HIDE DEF q, z
      <4> QED BY <1>0, <2>1, <3>0, SMT
    <3>2. z \in 0 .. Q - 1
      BY <1>1, <1>2, <1>4, <2>3, SMT
    <3> QED BY <2>1, <3>1, <3>2
  <2>4. CASE b = 0 /\ ~ (4 * n < Q - 1)
    <3>0. q = 2
      BY <2>4
    <3>1. q = 2 /\ r = z - 2 * Q
      <4> HIDE DEF q, z
      <4> QED BY <1>0, <2>1, <3>0, SMT
    <3>2. z - 2 * Q \in 0 .. Q - 1
      BY <1>1, <1>2, <1>4, <2>4, SMT
    <3> QED BY <2>1, <3>1, <3>2
  <2> QED BY <2>2, <2>3, <2>4
<1> HIDE DEF z, r
<1>6. z \div Q = q
  <2> HIDE DEF q
  <2> QED BY <1>0, <1>5, DivIs
<1>7. q % 2 = b
  OBVIOUS
<1> QED BY <1>6, <1>7 DEF z, h
-----------------------------------------------------------------------------
(* Vectors of the code.                                                    *)
WordVectors == [Dim -> Words]
NearVectors == [Dim -> Within(Q)]
ResOf(v)    == [k \in Dim |-> Res(v[k])]

LEMMA Params ==
  ASSUME MlKemAssumption
  PROVE  /\ MlKemRingAssumption /\ K \in Nat /\ K > 0 /\ Q \in Nat /\ 4 * (K * Q) < WORD /\ WORD \in Nat
         /\ ETA1 \in Nat /\ ETA2 \in Nat /\ ETA1 <= Q /\ ETA2 <= Q
         /\ DU \in 1 .. SHIFT /\ DV \in 1 .. SHIFT
         /\ Messages \subseteq [Index -> {0, 1}]
<1>1. /\ MlKemRingAssumption /\ K \in Nat \ {0} /\ ETA1 \in Nat \ {0} /\ ETA2 \in Nat \ {0}
      /\ DU \in Nat \ {0} /\ DV \in Nat \ {0}
      /\ 4 * K * Q < WORD /\ ETA1 <= Q /\ ETA2 <= Q /\ DU <= SHIFT /\ DV <= SHIFT
      /\ Messages \subseteq [Index -> {0, 1}]
  BY DEF MlKemAssumption
<1>2. Q \in Nat /\ WORD \in Nat /\ SHIFT \in Nat
  BY <1>1, Ring
<1>3. 4 * (K * Q) < WORD
  BY <1>1, <1>2, SMT
<1>4. DU \in 1 .. SHIFT /\ DV \in 1 .. SHIFT
  BY <1>1, <1>2, SMT
<1> QED BY <1>1, <1>2, <1>3, <1>4, SMT

LEMMA VectorsAre ==
  ASSUME MlKemAssumption
  PROVE  /\ \A v \in NearVectors : v \in WordVectors
         /\ \A v \in Vectors : v \in NearVectors /\ v \in WordVectors
         /\ \A v \in WordVectors : ResOf(v) \in Vectors /\ \A k \in Dim : ResOf(v)[k] = Res(v[k])
<1>0. MlKemRingAssumption /\ Q \in Nat /\ 2 * Q < WORD
  BY Params, Small
<1>1. \A f \in Within(Q) : f \in Words
  BY <1>0, WithinIs
<1>2. \A f \in Polys : f \in Within(Q)
  BY <1>0, PolysWithin
<1>3. \A f \in Words : Res(f) \in Polys
  BY <1>0, WordsInt
<1> QED BY <1>1, <1>2, <1>3 DEF NearVectors, WordVectors, Vectors, ResOf

LEMMA EntriesAre ==
  ASSUME NEW v \in WordVectors
  PROVE  /\ OnVec(v, ntt) = [k \in Dim |-> ntt(v[k])]
         /\ OnVec(v, poly_tobytes) = [k \in Dim |-> poly_tobytes(v[k])]
         /\ OnVec(v, poly_frombytes) = v
         /\ OnVec(v, LAMBDA f : poly_compress(f, DU)) = [k \in Dim |-> poly_compress(v[k], DU)]
<1>0. DOMAIN v = Dim /\ v = [k \in Dim |-> v[k]]
  BY DEF WordVectors
<1>1. OnVec(v, ntt) = [k \in Dim |-> ntt(v[k])]
  BY <1>0, EvaluatedIs DEF OnVec, Entries
<1>2. OnVec(v, poly_tobytes) = [k \in Dim |-> poly_tobytes(v[k])]
  BY <1>0, EvaluatedIs DEF OnVec, Entries
<1>3. OnVec(v, poly_frombytes) = [k \in Dim |-> v[k]]
  BY <1>0, EvaluatedIs DEF OnVec, Entries, poly_frombytes
<1>4. OnVec(v, LAMBDA f : poly_compress(f, DU)) = [k \in Dim |-> poly_compress(v[k], DU)]
  BY <1>0, EvaluatedIs DEF OnVec, Entries
<1> QED BY <1>0, <1>1, <1>2, <1>3, <1>4

LEMMA NttVector ==
  ASSUME MlKemAssumption, NEW v \in NearVectors
  PROVE  /\ OnVec(v, ntt) \in [Dim -> Within((LAYERS + 1) * Q)] /\ OnVec(v, ntt) \in WordVectors
         /\ (LAYERS + 1) * Q \in Nat /\ 2 * ((LAYERS + 1) * Q + Q) < WORD
         /\ \A k \in Dim : Res(OnVec(v, ntt)[k]) = NT(Res(v[k]))
<1> DEFINE b == (LAYERS + 1) * Q
<1>0. MlKemRingAssumption /\ Q \in Nat /\ LAYERS \in Nat /\ WORD \in Nat /\ v \in WordVectors
      /\ 2 * ((LAYERS + 2) * Q) < WORD
  BY Params, Ring, VectorsAre
<1>1. b \in Nat /\ 2 * (b + Q) < WORD
  <2>1. (LAYERS + 2) * Q = b + Q /\ b \in Nat
    BY <1>0, SMT
  <2> HIDE DEF b
  <2> QED BY <1>0, <2>1
<1>2. 2 * b < WORD
  <2> HIDE DEF b
  <2> QED BY <1>0, <1>1, SMT
<1>3. \A k \in Dim : ntt(v[k]) \in Within(b) /\ Res(ntt(v[k])) = NT(Res(v[k]))
  <2> TAKE k \in Dim
  <2>1. v[k] \in Within(Q)
    BY DEF NearVectors
  <2> QED BY <1>0, <2>1, NttIs
<1> HIDE DEF b
<1>4. \A k \in Dim : ntt(v[k]) \in Words
  BY <1>0, <1>1, <1>2, <1>3, WithinIs
<1>5. OnVec(v, ntt) = [k \in Dim |-> ntt(v[k])]
  BY <1>0, EntriesAre
<1>6. OnVec(v, ntt) \in [Dim -> Within(b)] /\ OnVec(v, ntt) \in WordVectors
      /\ \A k \in Dim : Res(OnVec(v, ntt)[k]) = NT(Res(v[k]))
  BY <1>3, <1>4, <1>5 DEF WordVectors
<1> QED BY <1>1, <1>6 DEF b

LEMMA BytesVector ==
  ASSUME MlKemAssumption, NEW v \in WordVectors
  PROVE  OnVec(v, poly_tobytes) = ResOf(v) /\ ResOf(v) \in Vectors
<1>1. \A k \in Dim : poly_tobytes(v[k]) = Res(v[k])
  BY Params, BytesIs DEF WordVectors
<1>2. [k \in Dim |-> poly_tobytes(v[k])] = [k \in Dim |-> Res(v[k])]
  BY <1>1
<1> QED BY <1>2, EntriesAre, VectorsAre DEF ResOf

LEMMA PointIs ==
  ASSUME MlKemAssumption, NEW u \in Vectors, NEW v \in WordVectors
  PROVE  /\ pointwise_acc(u, v) \in Within(Q)
         /\ Res(pointwise_acc(u, v)) = Dot(u, ResOf(v))
         /\ basemul_acc(u, v) \in Words
         /\ Res(basemul_acc(u, v)) = Dot(u, ResOf(v))
<1>1. basemul_acc(u, v) \in Words /\ Res(basemul_acc(u, v)) = Dot(u, ResOf(v))
  BY Params, AccIs DEF WordVectors, ResOf
<1> QED BY <1>1, Params, ReduceIs DEF pointwise_acc

LEMMA InvPoint ==
  ASSUME MlKemAssumption, NEW u \in Vectors, NEW v \in WordVectors
  PROVE  /\ invntt(pointwise_acc(u, v)) \in Within(Q)
         /\ Res(invntt(pointwise_acc(u, v))) = INT(Dot(u, ResOf(v)))
<1> DEFINE f == pointwise_acc(u, v)
<1>1. f \in Within(Q) /\ Res(f) = Dot(u, ResOf(v))
  BY PointIs
<1> HIDE DEF f
<1>2. f \in [Index -> Quarter]
  <2>1. \A i \in Index : f[i] \in Near(Q)
    BY <1>1 DEF Within
  <2>2. \A i \in Index : f[i] \in Quarter
    BY <2>1, Params, Small
  <2> QED BY <1>1, <2>2 DEF Within
<1>3. invntt(f) \in Within(Q) /\ Res(invntt(f)) = INT(Res(f))
  BY <1>2, Params, InvIs
<1> QED BY <1>1, <1>3 DEF f

(* The matrix and the noise.                                               *)
LEMMA MatrixIs ==
  ASSUME MlKemAssumption, StreamsAssumption, NEW d \in Seeds
  PROVE  /\ gen_matrix([rho |-> d], FALSE) \in [Dim -> Vectors]
         /\ TransposedOf([rho |-> d]) =
              [j \in Dim |-> [i \in Dim |-> gen_matrix([rho |-> d], FALSE)[i][j]]]
<1> DEFINE rho == [rho |-> d]
           at(i, j) == sample_ntt(Stream(rho, i - 1, j - 1))
<1>0. K \in Nat /\ MlKemRingAssumption
  BY Params
<1>1. \A i, j \in Dim : at(i, j) \in Polys
  <2> TAKE i, j \in Dim
  <2>1. i - 1 \in 0 .. K - 1 /\ j - 1 \in 0 .. K - 1
    BY <1>0, SMT DEF Dim
  <2>2. Fills(Stream(rho, i - 1, j - 1))
    BY <2>1 DEF StreamsAssumption
  <2> QED BY <1>0, <2>2, SampleIs
<1>2. gen_matrix(rho, FALSE) = [i \in Dim |-> [j \in Dim |-> at(i, j)]]
  <2>1. \A i \in Dim : Evaluated([j \in Dim |-> at(i, j)]) = [j \in Dim |-> at(i, j)]
    BY EvaluatedIs
  <2>2. [i \in Dim |-> Evaluated([j \in Dim |-> at(i, j)])] = [i \in Dim |-> [j \in Dim |-> at(i, j)]]
    BY <2>1
  <2>3. gen_matrix(rho, FALSE) = [i \in Dim |-> Evaluated([j \in Dim |-> at(i, j)])]
    BY EvaluatedIs DEF gen_matrix, Entries
  <2> QED BY <2>2, <2>3
<1>3. gen_matrix(rho, TRUE) = [i \in Dim |-> [j \in Dim |-> at(j, i)]]
  <2>1. \A i \in Dim : Evaluated([j \in Dim |-> at(j, i)]) = [j \in Dim |-> at(j, i)]
    BY EvaluatedIs
  <2>2. [i \in Dim |-> Evaluated([j \in Dim |-> at(j, i)])] = [i \in Dim |-> [j \in Dim |-> at(j, i)]]
    BY <2>1
  <2>3. gen_matrix(rho, TRUE) = [i \in Dim |-> Evaluated([j \in Dim |-> at(j, i)])]
    BY EvaluatedIs DEF gen_matrix, Entries
  <2> QED BY <2>2, <2>3
<1>4. gen_matrix(rho, FALSE) \in [Dim -> Vectors]
  <2>1. \A i \in Dim : [j \in Dim |-> at(i, j)] \in Vectors
    <3> HIDE DEF at
    <3> QED BY <1>1 DEF Vectors
  <2> QED BY <1>2, <2>1
<1>5. gen_matrix(rho, TRUE) = [j \in Dim |-> [i \in Dim |-> gen_matrix(rho, FALSE)[i][j]]]
  <2> DEFINE M == gen_matrix(rho, FALSE)
  <2>0. \A i \in Dim : M[i] = [j \in Dim |-> at(i, j)]
    BY <1>2
  <2>1. \A i, j \in Dim : M[i][j] = at(i, j)
    BY <2>0
  <2> HIDE DEF at
  <2> HIDE DEF M
  <2>2. \A i \in Dim : [j \in Dim |-> at(j, i)] = [j \in Dim |-> M[j][i]]
    BY <2>1
  <2>3. [i \in Dim |-> [j \in Dim |-> at(j, i)]] = [i \in Dim |-> [j \in Dim |-> M[j][i]]]
    BY <2>2
  <2> QED BY <1>3, <2>3 DEF M
<1> QED BY <1>4, <1>5 DEF TransposedOf

LEMMA CbdOf ==
  ASSUME MlKemAssumption, NEW bits, Draws(bits), NEW eta \in {ETA1, ETA2}
  PROVE  poly_cbd(bits, eta) \in Within(Q)
<1>1. bits \in Seq({0, 1}) /\ 2 * eta * DEGREE <= Len(bits) /\ eta \in Nat /\ eta <= Q
  BY Params DEF Draws
<1> QED BY <1>1, Params, CbdIs

LEMMA NoiseIs ==
  ASSUME MlKemAssumption, NEW seed, \A nonce \in 0 .. 2 * K : Draws(Bits(seed, nonce)),
         NEW eta \in {ETA1, ETA2}, NEW from \in {0, K}
  PROVE  sample_noise(seed, from, eta) \in NearVectors
<1>1. sample_noise(seed, from, eta) = [i \in Dim |-> poly_cbd(Bits(seed, from + i - 1), eta)]
  BY EvaluatedIs DEF sample_noise, sample_poly_cbd, Entries
<1>2. \A i \in Dim : poly_cbd(Bits(seed, from + i - 1), eta) \in Within(Q)
  <2> TAKE i \in Dim
  <2> DEFINE n == from + i - 1
  <2>1. n \in 0 .. 2 * K
    BY Params, SMT DEF Dim
  <2> HIDE DEF n
  <2>2. Draws(Bits(seed, n))
    BY <2>1
  <2> DEFINE bits == Bits(seed, n)
  <2>3. Draws(bits)
    BY <2>2
  <2> HIDE DEF bits
  <2>4. poly_cbd(bits, eta) \in Within(Q)
    BY <2>3, CbdOf
  <2> QED BY <2>4 DEF bits, n
<1> QED BY <1>1, <1>2 DEF NearVectors

-----------------------------------------------------------------------------
(* kpke.rs: what keypair makes,                                            *)
SecretOf(d) == OnVec(sample_noise([sigma |-> d], 0, ETA1), ntt)
ErrorOf(d)  == OnVec(sample_noise([sigma |-> d], K, ETA1), ntt)
MatrixFor(d) == gen_matrix([rho |-> d], FALSE)

LEMMA KeypairIs ==
  ASSUME MlKemAssumption, StreamsAssumption, NEW d \in Seeds
  PROVE  /\ SecretOf(d) \in WordVectors /\ ErrorOf(d) \in WordVectors
         /\ ResOf(SecretOf(d)) \in Vectors /\ ResOf(ErrorOf(d)) \in Vectors
         /\ MatrixFor(d) \in [Dim -> Vectors]
         /\ keypair(d).s = ResOf(SecretOf(d))
         /\ keypair(d).ek.rho = [rho |-> d]
         /\ keypair(d).ek.t_hat \in Vectors
         /\ keypair(d).ek.t_hat =
              [i \in Dim |-> Plus(ScaleBy(Square, Dot(MatrixFor(d)[i], ResOf(SecretOf(d)))),
                                  ResOf(ErrorOf(d))[i])]
         /\ keypair(d) = [ek |-> keypair(d).ek, s |-> keypair(d).s]
<1> DEFINE A == MatrixFor(d)
           s == SecretOf(d)
           e == ErrorOf(d)
           sigma == [sigma |-> d]
           row(i) == reduce(PolyAdd(apply_mont(basemul_acc(A[i], s)), e[i]))
           T == [i \in Dim |-> row(i)]
           b == (LAYERS + 1) * Q
<1>1. \A nonce \in 0 .. 2 * K : Draws(Bits(sigma, nonce))
  BY DEF StreamsAssumption
<1>2. sample_noise(sigma, 0, ETA1) \in NearVectors /\ sample_noise(sigma, K, ETA1) \in NearVectors
  <2> HIDE DEF sigma
  <2> QED BY <1>1, NoiseIs
<1>3. s \in WordVectors /\ e \in WordVectors /\ e \in [Dim -> Within(b)] /\ b \in Nat /\ 2 * (b + Q) < WORD
  <2> HIDE DEF b
  <2> QED BY <1>2, NttVector DEF SecretOf, ErrorOf, b
<1>4. A \in [Dim -> Vectors]
  BY MatrixIs DEF MatrixFor
<1>5. keypair(d) = [ek |-> [t_hat |-> OnVec(Entries(Dim, LAMBDA i : row(i)), poly_tobytes),
                            rho |-> [rho |-> d]],
                    s |-> OnVec(s, poly_tobytes)]
  BY DEF keypair, SecretOf, ErrorOf, MatrixFor
<1>6. Entries(Dim, LAMBDA i : row(i)) = T
  BY EvaluatedIs DEF Entries
<1>7. ASSUME NEW i \in Dim
      PROVE  /\ row(i) \in Words
             /\ Res(row(i)) = Plus(ScaleBy(Square, Dot(A[i], ResOf(s))), Res(e[i]))
  <2> DEFINE f == basemul_acc(A[i], s)
             g == apply_mont(f)
             h == e[i]
             p == PolyAdd(g, h)
  <2>0. MlKemRingAssumption /\ Q \in Nat /\ WORD \in Nat
    BY Params
  <2>1. f \in Words /\ Res(f) = Dot(A[i], ResOf(s))
    <3>1. A[i] \in Vectors
      BY <1>4
    <3> HIDE DEF A, s
    <3> QED BY <1>3, <3>1, PointIs
  <2>2. h \in Within(b)
    BY <1>3
  <2> HIDE DEF f, h, b, A, s, e
  <2>3. g \in Within(Q) /\ Res(g) = ScaleBy(Square, Res(f))
    BY <2>0, <2>1, MontIs
  <2> HIDE DEF g
  <2> DEFINE c == Q + b
  <2>4. c \in Nat /\ 2 * c < WORD
    BY <1>3, <2>0, SMT
  <2>5. p \in Within(c) /\ Res(p) = Plus(Res(g), Res(h))
    BY <1>3, <2>0, <2>2, <2>3, <2>4, PolyAddIs
  <2> HIDE DEF c, p
  <2>6. p \in Words
    BY <2>0, <2>4, <2>5, WithinIs
  <2>7. reduce(p) \in Within(Q) /\ Res(reduce(p)) = Res(p)
    BY <2>0, <2>6, ReduceIs
  <2>8. reduce(p) \in Words
    BY <2>0, <2>7, WithinIs, Small
  <2> QED BY <2>1, <2>3, <2>5, <2>7, <2>8 DEF p, g, f, h, e, s, A
<1> HIDE DEF row, A, s, e, b
<1>8. T \in WordVectors
  BY <1>7 DEF WordVectors
<1>9. ResOf(T) = [i \in Dim |-> Plus(ScaleBy(Square, Dot(A[i], ResOf(s))), ResOf(e)[i])]
  BY <1>7 DEF ResOf
<1>10. OnVec(T, poly_tobytes) = ResOf(T) /\ ResOf(T) \in Vectors
  <2> HIDE DEF T
  <2> QED BY <1>8, BytesVector
<1>11. OnVec(s, poly_tobytes) = ResOf(s) /\ ResOf(s) \in Vectors /\ ResOf(e) \in Vectors
  BY <1>3, BytesVector
<1>12. keypair(d) = [ek |-> [t_hat |-> ResOf(T), rho |-> [rho |-> d]], s |-> ResOf(s)]
  <2> HIDE DEF T
  <2> QED BY <1>5, <1>6, <1>10, <1>11
<1>13. keypair(d).s = ResOf(s) /\ keypair(d).ek.rho = [rho |-> d] /\ keypair(d).ek.t_hat = ResOf(T)
       /\ keypair(d) = [ek |-> keypair(d).ek, s |-> keypair(d).s]
  <2> HIDE DEF T
  <2> QED BY <1>12
<1> QED BY <1>3, <1>4, <1>9, <1>10, <1>11, <1>13 DEF A, s, e

(* and what encrypt draws.                                                 *)
LEMMA DrawnIs ==
  ASSUME MlKemAssumption, NEW seed, \A nonce \in 0 .. 2 * K : Draws(Bits(seed, nonce))
  PROVE  /\ Drawn(seed).r \in WordVectors /\ Drawn(seed).e1 \in NearVectors
         /\ Drawn(seed).e2 \in Within(Q)
<1>1. sample_noise(seed, 0, ETA1) \in NearVectors /\ sample_noise(seed, K, ETA2) \in NearVectors
  BY NoiseIs
<1>2. OnVec(sample_noise(seed, 0, ETA1), ntt) \in WordVectors
  <2> DEFINE v == sample_noise(seed, 0, ETA1)
  <2>1. v \in NearVectors
    BY <1>1
  <2> HIDE DEF v
  <2>2. OnVec(v, ntt) \in WordVectors
    BY <2>1, NttVector
  <2> QED BY <2>2 DEF v
<1>3. sample_poly_cbd(seed, 2 * K, ETA2) \in Within(Q)
  <2> DEFINE n == 2 * K
             bits == Bits(seed, n)
  <2>1. n \in 0 .. 2 * K
    BY Params, SMT
  <2> HIDE DEF n
  <2>2. Draws(bits)
    BY <2>1
  <2> HIDE DEF bits
  <2>3. poly_cbd(bits, ETA2) \in Within(Q)
    BY <2>2, CbdOf
  <2> QED BY <2>3 DEF bits, n, sample_poly_cbd
<1>4. Drawn(seed).r = OnVec(sample_noise(seed, 0, ETA1), ntt)
      /\ Drawn(seed).e1 = sample_noise(seed, K, ETA2)
      /\ Drawn(seed).e2 = sample_poly_cbd(seed, 2 * K, ETA2)
  BY DEF Drawn
<1> QED BY <1>1, <1>2, <1>3, <1>4
Column(d, j) == [i \in Dim |-> MatrixFor(d)[i][j]]

LEMMA ProductsAre ==
  ASSUME MlKemAssumption, StreamsAssumption, NEW d \in Seeds, NEW r \in WordVectors
  PROVE  /\ DOMAIN Products([rho |-> d], r) = Dim
         /\ \A j \in Dim : /\ Column(d, j) \in Vectors
                           /\ Products([rho |-> d], r)[j] \in Words
                           /\ Res(Products([rho |-> d], r)[j]) = Dot(Column(d, j), ResOf(r))
<1> DEFINE at == TransposedOf([rho |-> d])
<1>1. at = [j \in Dim |-> Column(d, j)] /\ MatrixFor(d) \in [Dim -> Vectors]
  BY MatrixIs DEF MatrixFor, Column
<1>2. \A j \in Dim : Column(d, j) \in Vectors
  BY <1>1 DEF Column, Vectors
<1>3. Products([rho |-> d], r) = [i \in Dim |-> basemul_acc(at[i], r)]
  BY EvaluatedIs DEF Products, Entries
<1> HIDE DEF at
<1>4. \A j \in Dim : Products([rho |-> d], r)[j] = basemul_acc(Column(d, j), r)
  BY <1>1, <1>3
<1>5. \A j \in Dim : /\ basemul_acc(Column(d, j), r) \in Words
                     /\ Res(basemul_acc(Column(d, j), r)) = Dot(Column(d, j), ResOf(r))
  BY <1>2, PointIs
<1> QED BY <1>2, <1>3, <1>4, <1>5

(* The difference of two polynomials, added again.                         *)
LEMMA ResBack ==
  ASSUME MlKemRingAssumption, NEW f \in Within(Q), NEW g \in Within(Q)
  PROVE  /\ PolySub(f, g) \in Within(Q + Q) /\ Res(f) = Plus(Res(g), Res(PolySub(f, g)))
         /\ \A i \in Index : PolySub(f, g)[i] = f[i] - g[i]
<1>0. Q \in Nat /\ WORD \in Nat /\ 6 * Q < WORD
  BY Ring
<1>1. 2 * (Q + Q) < WORD
  BY <1>0, SMT
<1>2. PolySub(f, g) \in Within(Q + Q) /\ \A i \in Index : PolySub(f, g)[i] = f[i] - g[i]
  BY <1>0, <1>1, PolyAddIs
<1>3. ASSUME NEW i \in Index PROVE f[i] % Q = Add(g[i] % Q, PolySub(f, g)[i] % Q)
  <2> DEFINE x == f[i]
             y == g[i]
             z == x - y
  <2>1. x \in Int /\ y \in Int
    BY Small DEF Within
  <2>2. PolySub(f, g)[i] = z
    BY <1>2
  <2> HIDE DEF x, y
  <2>3. z \in Int /\ y + z = x
    BY <2>1
  <2> HIDE DEF z
  <2>4. (y + z) % Q = Add(y % Q, z % Q)
    BY <2>1, <2>3, ResAdd
  <2> QED BY <2>2, <2>3, <2>4 DEF x, y
<1>4. Res(f) = Plus(Res(g), Res(PolySub(f, g)))
  BY <1>3 DEF Res, Plus
<1> QED BY <1>2, <1>4

LEMMA PlusAssoc ==
  ASSUME MlKemRingAssumption, NEW f \in Polys, NEW g \in Polys, NEW h \in Polys
  PROVE  Plus(Plus(f, g), h) = Plus(f, Plus(g, h))
<1> DEFINE p == Plus(f, g)
           q == Plus(g, h)
<1>1. \A i \in Index : /\ f[i] \in Field /\ g[i] \in Field /\ h[i] \in Field
                       /\ p[i] = Add(f[i], g[i]) /\ q[i] = Add(g[i], h[i])
  BY DEF Polys, Plus
<1>2. p \in Polys /\ q \in Polys
  BY PolyOps
<1> HIDE DEF p, q
<1>3. \A i \in Index : Plus(p, h)[i] = Plus(f, q)[i]
  BY <1>1, AddLaws DEF Plus
<1>4. Plus(p, h) = Plus(f, q)
  BY <1>2, <1>3, PolyOps, SamePoly
<1> QED BY <1>4 DEF p, q

(* What encrypt computes, before it is rounded.                            *)
LEMMA UnroundedIs ==
  ASSUME MlKemAssumption, StreamsAssumption, NEW d \in Seeds, NEW m \in Messages,
         NEW x, x.r \in WordVectors, x.e1 \in NearVectors, x.e2 \in Within(Q),
         NEW key, key.t_hat \in Vectors, key.rho = [rho |-> d],
         \A j \in Dim : Products(key.rho, x.r)[j] \in [Index -> Quarter]
  PROVE  /\ Unrounded(key, m, x).u \in NearVectors /\ Unrounded(key, m, x).v \in Within(Q)
         /\ \A j \in Dim : Res(Unrounded(key, m, x).u[j]) =
              Plus(INT(Dot(Column(d, j), ResOf(x.r))), Res(x.e1[j]))
         /\ \A i \in Index :
              Is(Unrounded(key, m, x).v[i],
                 invntt(pointwise_acc(key.t_hat, x.r))[i] + (x.e2[i] + poly_frommsg(m)[i]))
<1> DEFINE ar == Products(key.rho, x.r)
           tr == invntt(pointwise_acc(key.t_hat, x.r))
           mg == poly_frommsg(m)
           at(i) == reduce(PolyAdd(invntt(ar[i]), x.e1[i]))
           U == [i \in Dim |-> at(i)]
           W == PolyAdd(PolyAdd(tr, x.e2), mg)
<1>0. MlKemRingAssumption /\ Q \in Nat /\ WORD \in Nat /\ 6 * Q < WORD /\ m \in [Index -> {0, 1}]
  BY Params, Ring
<1>1. Unrounded(key, m, x).u = U /\ Unrounded(key, m, x).v = reduce(W)
  <2>1. key.t_hat \in WordVectors
    BY VectorsAre
  <2>2. OnVec(key.t_hat, poly_frombytes) = key.t_hat
    BY <2>1, EntriesAre
  <2>3. Unrounded(key, m, x) = [u |-> Entries(Dim, LAMBDA i : at(i)), v |-> reduce(W)]
    BY <2>2 DEF Unrounded
  <2>4. Entries(Dim, LAMBDA i : at(i)) = U
    BY EvaluatedIs DEF Entries
  <2> HIDE DEF U, W, at
  <2> QED BY <2>3, <2>4
<1>2. ASSUME NEW j \in Dim
      PROVE  at(j) \in Within(Q) /\ Res(at(j)) = Plus(INT(Dot(Column(d, j), ResOf(x.r))), Res(x.e1[j]))
  <2> DEFINE f == ar[j]
             g == invntt(f)
             h == x.e1[j]
             p == PolyAdd(g, h)
             c == Q + Q
  <2>1. f \in [Index -> Quarter] /\ Res(f) = Dot(Column(d, j), ResOf(x.r))
    BY ProductsAre
  <2>2. h \in Within(Q)
    BY DEF NearVectors
  <2>3. at(j) = reduce(p)
    OBVIOUS
  <2> HIDE DEF f, h, at, ar
  <2>4. g \in Within(Q) /\ Res(g) = INT(Res(f))
    BY <1>0, <2>1, InvIs
  <2> HIDE DEF g
  <2>5. c \in Nat /\ 2 * c < WORD
    BY <1>0, SMT
  <2>6. p \in Within(c) /\ Res(p) = Plus(Res(g), Res(h))
    BY <1>0, <2>2, <2>4, <2>5, PolyAddIs
  <2> HIDE DEF c, p
  <2>7. p \in Words
    BY <1>0, <2>5, <2>6, WithinIs
  <2>8. reduce(p) \in Within(Q) /\ Res(reduce(p)) = Res(p)
    BY <1>0, <2>7, ReduceIs
  <2> QED BY <2>1, <2>3, <2>4, <2>6, <2>8 DEF h
<1>3. U \in NearVectors /\ \A j \in Dim : U[j] = at(j)
  <2> HIDE DEF at
  <2> QED BY <1>2 DEF NearVectors
<1>4. reduce(W) \in Within(Q)
      /\ \A i \in Index : Is(reduce(W)[i], tr[i] + (x.e2[i] + mg[i]))
  <2> DEFINE e2 == x.e2
             s == PolyAdd(tr, e2)
             a == Q + Q
             b == a + Q
  <2>1. tr \in Within(Q)
    BY InvPoint
  <2>2. mg \in Within(Q) /\ e2 \in Within(Q)
    BY <1>0, MsgIs
  <2>3. W = PolyAdd(s, mg)
    OBVIOUS
  <2> HIDE DEF tr, mg, e2, W
  <2>4. a \in Nat /\ 2 * a < WORD /\ b \in Nat /\ 2 * b < WORD
    BY <1>0, SMT
  <2>5. s \in Within(a) /\ \A i \in Index : s[i] = tr[i] + e2[i]
    BY <1>0, <2>1, <2>2, <2>4, PolyAddIs
  <2> HIDE DEF a, s
  <2>6. W \in Within(b) /\ \A i \in Index : W[i] = s[i] + mg[i]
    BY <1>0, <2>2, <2>3, <2>4, <2>5, PolyAddIs
  <2> HIDE DEF b
  <2>7. W \in Words
    BY <1>0, <2>4, <2>6, WithinIs
  <2>8. reduce(W) \in Within(Q) /\ \A i \in Index : reduce(W)[i] = barrett_reduce(W[i])
    BY <1>0, <2>7, ReduceIs
  <2>9. ASSUME NEW i \in Index PROVE Is(reduce(W)[i], tr[i] + (e2[i] + mg[i]))
    <3>1. W[i] \in Half
      BY <1>0, <2>7, WordsInt
    <3>2. Is(barrett_reduce(W[i]), W[i])
      BY <1>0, <3>1, BarrettIs
    <3> DEFINE p == tr[i]
               q == e2[i]
               t == mg[i]
    <3>3. p \in Int /\ q \in Int /\ t \in Int
      BY <1>0, <2>1, <2>2, Small DEF Within
    <3>4. W[i] = (p + q) + t
      BY <2>5, <2>6
    <3> HIDE DEF p, q, t
    <3>5. (p + q) + t = p + (q + t)
      BY <3>3
    <3> QED BY <2>8, <3>2, <3>4, <3>5 DEF p, q, t
  <2> QED BY <2>8, <2>9 DEF e2
<1> HIDE DEF at, U, W, tr, mg
<1>5. \A j \in Dim : Res(U[j]) = Plus(INT(Dot(Column(d, j), ResOf(x.r))), Res(x.e1[j]))
  BY <1>2, <1>3
<1> QED BY <1>1, <1>3, <1>4, <1>5 DEF tr, mg

(* A ciphertext, decompressed.                                             *)
LEMMA DecompressedIs ==
  ASSUME MlKemAssumption, NEW key, NEW m, NEW seed,
         Unrounded(key, m, Drawn(seed)).u \in NearVectors,
         Unrounded(key, m, Drawn(seed)).v \in Within(Q)
  PROVE  /\ Decompressed(encrypt(key, m, seed)).u \in NearVectors
         /\ Decompressed(encrypt(key, m, seed)).v \in Within(Q)
<1> DEFINE c == Unrounded(key, m, Drawn(seed))
           cu == c.u
           cv == c.v
           comp == [j \in Dim |-> poly_compress(cu[j], DU)]
           ct == encrypt(key, m, seed)
<1>0. MlKemRingAssumption /\ DU \in 1 .. SHIFT /\ DV \in 1 .. SHIFT /\ Q \in Nat /\ 2 * Q < WORD
  BY Params, Small
<1>1. cu \in NearVectors /\ cu \in WordVectors /\ cv \in Words
  BY <1>0, VectorsAre, WithinIs
<1>2. ct = [u |-> OnVec(cu, LAMBDA f : poly_compress(f, DU)), v |-> poly_compress(cv, DV)]
  BY DEF encrypt
<1> HIDE DEF cu, cv
<1>3. OnVec(cu, LAMBDA f : poly_compress(f, DU)) = comp
  BY <1>1, EntriesAre
<1>4. ct.u = comp /\ ct.v = poly_compress(cv, DV) /\ DOMAIN comp = Dim
  <2>1. DOMAIN comp = Dim
    OBVIOUS
  <2> HIDE DEF comp, ct
  <2> QED BY <1>2, <1>3, <2>1
<1> HIDE DEF ct
<1>5. Decompressed(ct).u = OnVec(comp, LAMBDA f : poly_decompress(f, DU))
      /\ Decompressed(ct).v = poly_decompress(poly_compress(cv, DV), DV)
  BY <1>4 DEF Decompressed
<1>6. OnVec(comp, LAMBDA f : poly_decompress(f, DU)) = [j \in Dim |-> poly_decompress(comp[j], DU)]
  <2> HIDE DEF comp
  <2> QED BY <1>4, EvaluatedIs DEF OnVec, Entries
<1>7. \A j \in Dim : poly_decompress(comp[j], DU) \in Within(Q)
  <2> TAKE j \in Dim
  <2>1. cu[j] \in Words /\ comp[j] = poly_compress(cu[j], DU)
    BY <1>1 DEF WordVectors
  <2> QED BY <1>0, <2>1, CompressedIs
<1>8. poly_decompress(poly_compress(cv, DV), DV) \in Within(Q)
  BY <1>0, <1>1, CompressedIs
<1> HIDE DEF comp
<1> QED BY <1>5, <1>6, <1>7, <1>8 DEF NearVectors, ct
-----------------------------------------------------------------------------
(* What decrypt finds.                                                     *)
LEMMA Congruences ==
  ASSUME MlKemRingAssumption, NEW tr \in Int, NEW mp \in Int, NEW er \in Int, NEW su \in Int,
         NEW p \in Int, NEW e2 \in Int, NEW mg \in Int, NEW cv \in Int, NEW fv \in Int,
         NEW y \in Int, Is(tr, p + er), Is(mp, p + su), Is(cv, tr + (e2 + mg)), Is(y, fv - mp)
  PROVE  Is(y, mg + ((er + e2 + (fv - cv) - su) % Q))
<1> DEFINE n == er + e2 + (fv - cv) - su
           k == n % Q
           a == p + er
           b == p + su
           l == er - su
           g == e2 + mg
           w == tr + g
           v == tr - mp
<1>0. n \in Int /\ a \in Int /\ b \in Int /\ l \in Int /\ g \in Int /\ w \in Int /\ v \in Int
      /\ a - b = l /\ w - mp = v + g
  OBVIOUS
<1>1. Is(v, l)
  <2>1. Is(tr - mp, a - b)
    <3> HIDE DEF a, b
    <3> QED BY <1>0, IsPlus DEF a, b
  <2> QED BY <1>0, <2>1
<1>2. Is(cv - mp, w - mp)
  <2>1. Is(mp, mp)
    BY IsRefl
  <2>2. Is(cv, w)
    OBVIOUS
  <2> HIDE DEF w
  <2> QED BY <1>0, <2>1, <2>2, IsPlus
<1>3. Is(v + g, l + g)
  <2> HIDE DEF v, l, g
  <2>1. Is(g, g)
    BY <1>0, IsRefl
  <2> QED BY <1>0, <1>1, <2>1, IsPlus
<1> DEFINE i == cv - mp
           j == l + g
           r == fv - cv
<1>4. i \in Int /\ j \in Int /\ r \in Int /\ r + i = fv - mp /\ r + j = mg + n
  OBVIOUS
<1>5. Is(i, j)
  <2>1. Is(i, v + g)
    BY <1>0, <1>2
  <2>2. v + g \in Int
    BY <1>0
  <2> DEFINE z == v + g
  <2>3. Is(i, z) /\ Is(z, j) /\ z \in Int
    BY <1>3, <2>1, <2>2
  <2> HIDE DEF i, j, z
  <2> QED BY <1>4, <2>3, IsTrans
<1>6. Is(r + i, r + j)
  <2> HIDE DEF r, i, j
  <2>1. Is(r, r)
    BY <1>4, IsRefl
  <2> QED BY <1>4, <1>5, <2>1, IsPlus
<1>7. Is(k, n) /\ Is(n, k) /\ k \in Int
  <2> HIDE DEF n
  <2> QED BY <1>0, IsMod
<1>8. Is(mg + n, mg + k)
  <2> HIDE DEF n, k
  <2>1. Is(mg, mg)
    BY IsRefl
  <2> QED BY <1>0, <1>7, <2>1, IsPlus
<1> DEFINE q == fv - mp
           s == mg + n
           t == mg + k
<1>9. q \in Int /\ s \in Int /\ t \in Int
  <2> HIDE DEF n, k
  <2> QED BY <1>0, <1>7
<1>10. Is(y, q) /\ Is(q, s) /\ Is(s, t)
  <2>1. Is(y, q)
    OBVIOUS
  <2>2. Is(q, s)
    <3> HIDE DEF r, i, j, n, s, q
    <3> QED BY <1>4, <1>6 DEF s, q
  <2> QED BY <1>8, <2>1, <2>2
<1>11. Is(y, t)
  <2> HIDE DEF q, s, t
  <2>1. Is(y, s)
    BY <1>9, <1>10, IsTrans
  <2> QED BY <1>9, <1>10, <2>1, IsTrans
<1> QED BY <1>11

(* A congruence for a coefficient of a sum.                                *)
LEMMA ResSum ==
  ASSUME MlKemRingAssumption, NEW f \in Within(Q), NEW g \in Within(Q), NEW p \in Polys,
         Res(f) = Plus(p, Res(g)), NEW i \in Index
  PROVE  f[i] \in Int /\ g[i] \in Int /\ p[i] \in Int /\ Is(f[i], p[i] + g[i])
<1> DEFINE x == f[i]
           y == g[i]
           z == p[i]
<1>1. x \in Int /\ y \in Int /\ z \in Field /\ z \in Int
  BY Small DEF Within, Polys
<1>2. x % Q = Add(z, y % Q)
  BY DEF Res, Plus
<1>3. z % Q = z
  BY <1>1, FieldInt
<1> HIDE DEF x, y, z
<1> DEFINE s == z + y
<1>4. s \in Int /\ s % Q = Add(z % Q, y % Q)
  BY <1>1, ResAdd
<1> HIDE DEF s
<1>5. x % Q = s % Q
  BY <1>2, <1>3, <1>4
<1>6. Is(x, x % Q) /\ Is(s, s % Q) /\ x % Q \in Int
  BY <1>1, <1>4, IsMod
<1>7. Is(x, s)
  <2> DEFINE r == x % Q
  <2>1. r \in Int /\ Is(x, r) /\ Is(s, r)
    BY <1>5, <1>6
  <2> HIDE DEF r
  <2> QED BY <1>1, <1>4, <2>1, IsMeet
<1> QED BY <1>1, <1>7 DEF x, y, z, s

EkOf(d)      == keypair(d).ek
SeedOf(d, m) == coins(m, hash_h(EkOf(d)))
Off(x, f, c) == [i \in Dim |-> reduce(PolyAdd(x.e1[i], PolySub(f.u[i], c.u[i])))]

(* What encryption, rounding and the key add up to, in the transform.      *)
LEMMA OffIs ==
  ASSUME MlKemAssumption, StreamsAssumption, NEW d \in Seeds, NEW x, x.e1 \in NearVectors,
         x.r \in WordVectors, NEW f, f.u \in NearVectors, NEW c, c.u \in NearVectors,
         \A j \in Dim : Res(c.u[j]) = Plus(INT(Dot(Column(d, j), ResOf(x.r))), Res(x.e1[j]))
  PROVE  /\ Off(x, f, c) \in NearVectors
         /\ OnVec(Off(x, f, c), ntt) \in WordVectors /\ OnVec(f.u, ntt) \in WordVectors
         /\ ResOf(OnVec(Off(x, f, c), ntt)) \in Vectors /\ ResOf(OnVec(f.u, ntt)) \in Vectors
         /\ \A j \in Dim : ResOf(OnVec(f.u, ntt))[j] =
              Plus(ScaleBy(Square, Dot(Column(d, j), ResOf(x.r))), ResOf(OnVec(Off(x, f, c), ntt))[j])
<1> DEFINE off == Off(x, f, c)
           fu == f.u
           cu == c.u
           e1 == x.e1
           r == ResOf(x.r)
<1>0. MlKemRingAssumption /\ Q \in Nat /\ WORD \in Nat /\ 6 * Q < WORD /\ K \in Nat /\ r \in Vectors
  BY Params, Ring, VectorsAre
<1>1. fu \in NearVectors /\ cu \in NearVectors /\ e1 \in NearVectors
  OBVIOUS
<1>2. off = [i \in Dim |-> reduce(PolyAdd(e1[i], PolySub(fu[i], cu[i])))]
  BY DEF Off
<1>3. \A j \in Dim : /\ Column(d, j) \in Vectors
                     /\ Res(cu[j]) = Plus(INT(Dot(Column(d, j), r)), Res(e1[j]))
  BY ProductsAre
<1> HIDE DEF off, fu, cu, e1, r
<1>4. ASSUME NEW j \in Dim
      PROVE  /\ off[j] \in Within(Q)
             /\ NT(Res(fu[j])) = Plus(ScaleBy(Square, Dot(Column(d, j), r)), NT(Res(off[j])))
  <2> DEFINE a == fu[j]
             b == cu[j]
             e == e1[j]
             s == PolySub(a, b)
             t == PolyAdd(e, s)
             q2 == Q + Q
             q3 == Q + q2
             z == Dot(Column(d, j), r)
  <2>1. a \in Within(Q) /\ b \in Within(Q) /\ e \in Within(Q)
    BY <1>1 DEF NearVectors
  <2>2. off[j] = reduce(t) /\ Res(b) = Plus(INT(z), Res(e)) /\ z \in Polys
    <3>1. off[j] = reduce(t)
      BY <1>2
    <3>2. Res(b) = Plus(INT(z), Res(e))
      BY <1>3
    <3>3. z \in Polys
      BY <1>0, <1>3, DotIn
    <3> HIDE DEF t, b, e, z
    <3> QED BY <3>1, <3>2, <3>3
  <2> HIDE DEF a, b, e, z
  <2>3. q2 \in Nat /\ q3 \in Nat /\ 2 * q2 < WORD /\ 2 * q3 < WORD /\ 2 * Q < WORD
    BY <1>0, SMT
  <2>4. s \in Within(q2) /\ Res(a) = Plus(Res(b), Res(s))
    BY <1>0, <2>1, ResBack
  <2> HIDE DEF s
  <2>5. t \in Within(q3) /\ Res(t) = Plus(Res(e), Res(s))
    <3> HIDE DEF q2
    <3> QED BY <1>0, <2>1, <2>3, <2>4, PolyAddIs
  <2> HIDE DEF t, q2, q3
  <2>6. t \in Words /\ Res(e) \in Polys /\ Res(s) \in Polys /\ Res(t) \in Polys /\ INT(z) \in Polys
    BY <1>0, <2>1, <2>2, <2>3, <2>4, <2>5, WithinIs, TransformsIn
  <2>7. reduce(t) \in Within(Q) /\ Res(reduce(t)) = Res(t)
    BY <1>0, <2>6, ReduceIs
  <2>8. Res(a) = Plus(INT(z), Res(t))
    BY <1>0, <2>2, <2>4, <2>5, <2>6, PlusAssoc
  <2>9. NT(Plus(INT(z), Res(t))) = Plus(NT(INT(z)), NT(Res(t)))
    <3>1. \A g \in Field : NT(Plus(INT(z), Res(t))) = Plus(NT(INT(z)), NT(Res(t)))
      BY <1>0, <2>6, NtLinear
    <3>2. 0 \in Field
      BY <1>0, FieldInt, SMT DEF Field
    <3> QED BY <3>1, <3>2
  <2>10. NT(INT(z)) = ScaleBy(Square, z)
    BY <1>0, <2>2, BackAndThere
  <2> QED BY <2>2, <2>7, <2>8, <2>9, <2>10 DEF a, z
<1>5. off \in NearVectors
  <2>1. off = [i \in Dim |-> off[i]]
    BY <1>2
  <2> QED BY <1>4, <2>1 DEF NearVectors
<1>6. /\ OnVec(off, ntt) \in WordVectors /\ OnVec(fu, ntt) \in WordVectors
      /\ \A j \in Dim : /\ Res(OnVec(off, ntt)[j]) = NT(Res(off[j]))
                        /\ Res(OnVec(fu, ntt)[j]) = NT(Res(fu[j]))
  BY <1>1, <1>5, NttVector
<1>7. /\ ResOf(OnVec(off, ntt)) \in Vectors /\ ResOf(OnVec(fu, ntt)) \in Vectors
      /\ \A j \in Dim : /\ ResOf(OnVec(off, ntt))[j] = NT(Res(off[j]))
                        /\ ResOf(OnVec(fu, ntt))[j] = NT(Res(fu[j]))
  BY <1>6, VectorsAre
<1>8. \A j \in Dim : ResOf(OnVec(fu, ntt))[j] =
                       Plus(ScaleBy(Square, Dot(Column(d, j), r)), ResOf(OnVec(off, ntt))[j])
  <2> DEFINE u == ResOf(OnVec(fu, ntt))
             o == ResOf(OnVec(off, ntt))
  <2>1. \A j \in Dim : /\ u[j] = NT(Res(fu[j])) /\ o[j] = NT(Res(off[j]))
    BY <1>7
  <2> HIDE DEF u, o
  <2>2. \A j \in Dim : u[j] = Plus(ScaleBy(Square, Dot(Column(d, j), r)), o[j])
    BY <1>4, <2>1
  <2> QED BY <2>2 DEF u, o
<1> QED BY <1>5, <1>6, <1>7, <1>8 DEF off, fu, r

(* decrypt gives back what encrypt was given, for every key pair, message  *)
(* and stream, as long as the noise and the sums that are not reduced fit: *)
(* the public-key encryption that encaps and decaps rest on (kpke.rs:      *)
(* keypair, encrypt, decrypt).                                             *)
THEOREM Decrypts ==
  ASSUME MlKemAssumption, StreamsAssumption, NEW d \in Seeds, NEW m \in Messages, Fits(d, m)
  PROVE  decrypt(encrypt(EkOf(d), m, SeedOf(d, m)), keypair(d).s) = m
<1> DEFINE pair == keypair(d)
           ek0  == EkOf(d)
           seed == SeedOf(d, m)
           x    == Drawn(seed)
           c    == Unrounded(ek0, m, x)
           ct   == encrypt(ek0, m, seed)
           f    == Decompressed(ct)
           off  == Off(x, f, c)
           T    == ek0.t_hat
           tr   == invntt(pointwise_acc(T, x.r))
           er   == invntt(pointwise_acc(OnVec(ErrorOf(d), poly_tobytes), x.r))
           su   == invntt(pointwise_acc(pair.s, OnVec(off, ntt)))
           mp   == invntt(pointwise_acc(OnVec(pair.s, poly_frombytes), OnVec(f.u, ntt)))
           mg   == poly_frommsg(m)
           n    == [i \in Index |-> (er[i] + x.e2[i] + (f.v[i] - c.v[i]) - su[i]) % Q]
           S    == ResOf(SecretOf(d))
           E    == ResOf(ErrorOf(d))
           R    == ResOf(x.r)
           last == reduce(PolySub(f.v, mp))
<1>0. MlKemRingAssumption /\ Q \in Nat /\ WORD \in Nat /\ 6 * Q < WORD /\ K \in Nat
      /\ m \in [Index -> {0, 1}]
  BY Params, Ring
<1>1. /\ T \in Vectors /\ S \in Vectors /\ E \in Vectors /\ MatrixFor(d) \in [Dim -> Vectors]
      /\ ek0.rho = [rho |-> d] /\ pair.s = S /\ ErrorOf(d) \in WordVectors
      /\ T = [i \in Dim |-> Plus(ScaleBy(Square, Dot(MatrixFor(d)[i], S)), E[i])]
  BY KeypairIs DEF EkOf
<1>2. \A nonce \in 0 .. 2 * K : Draws(Bits(seed, nonce))
  BY DEF StreamsAssumption, SeedOf, EkOf
<1>3. x.r \in WordVectors /\ x.e1 \in NearVectors /\ x.e2 \in Within(Q)
  <2> HIDE DEF seed
  <2> QED BY <1>2, DrawnIs
<1>4. /\ \A j \in Dim : Products(ek0.rho, x.r)[j] \in [Index -> Quarter]
      /\ \A i \in Index : 4 * Noise(d, m)[i] < Q - 1 \/ 4 * (Q - Noise(d, m)[i]) < Q - 1
  <2> DEFINE ar == Products(ek0.rho, x.r)
  <2>1. /\ \A i \in Index : 4 * Noise(d, m)[i] < Q - 1 \/ 4 * (Q - Noise(d, m)[i]) < Q - 1
        /\ \A j \in Dim, i \in Index : -WORD < 4 * ar[j][i] /\ 4 * ar[j][i] < WORD
    BY DEF Fits, EkOf, SeedOf
  <2>2. \A j \in Dim : ar[j] \in Words
    BY <1>1, <1>3, ProductsAre
  <2> HIDE DEF ar
  <2>3. ASSUME NEW j \in Dim PROVE ar[j] \in [Index -> Quarter]
    <3>1. \A i \in Index : ar[j][i] \in Int
      BY <1>0, <2>2, WordsInt
    <3>2. \A i \in Index : ar[j][i] \in Quarter
      BY <2>1, <3>1 DEF Quarter
    <3>3. ar[j] = [i \in Index |-> ar[j][i]]
      BY <2>2 DEF Words
    <3> QED BY <3>2, <3>3
  <2> QED BY <2>1, <2>3 DEF ar
<1>5. /\ c.u \in NearVectors /\ c.v \in Within(Q)
      /\ \A j \in Dim : Res(c.u[j]) = Plus(INT(Dot(Column(d, j), R)), Res(x.e1[j]))
      /\ \A i \in Index : Is(c.v[i], tr[i] + (x.e2[i] + mg[i]))
  <2> HIDE DEF ek0, x
  <2> QED BY <1>1, <1>3, <1>4, UnroundedIs
<1>6. f.u \in NearVectors /\ f.v \in Within(Q)
  <2> HIDE DEF ek0, seed
  <2> QED BY <1>5, DecompressedIs
<1> DEFINE u == OnVec(f.u, ntt)
           o == OnVec(off, ntt)
<1>7. /\ off \in NearVectors /\ o \in WordVectors /\ u \in WordVectors
      /\ ResOf(o) \in Vectors /\ ResOf(u) \in Vectors
      /\ \A j \in Dim : ResOf(u)[j] = Plus(ScaleBy(Square, Dot(Column(d, j), R)), ResOf(o)[j])
  <2> HIDE DEF x, f, c
  <2> QED BY <1>3, <1>5, <1>6, OffIs
<1>8. decrypt(ct, pair.s) = poly_tomsg(last)
  BY DEF decrypt
<1>9. Noise(d, m) = n
  <2> DEFINE off0 == Entries(Dim, LAMBDA i : reduce(PolyAdd(x.e1[i], PolySub(f.u[i], c.u[i]))))
             su0 == invntt(pointwise_acc(pair.s, OnVec(off0, ntt)))
  <2>1. Noise(d, m) = Coeffs(LAMBDA i : (er[i] + x.e2[i] + (f.v[i] - c.v[i]) - su0[i]) % Q)
    BY DEF Noise, EkOf, SeedOf, ErrorOf
  <2>2. off0 = off
    BY EvaluatedIs DEF Entries, Off
  <2>3. su0 = su
    <3> HIDE DEF off0, off
    <3> QED BY <2>2
  <2> HIDE DEF er, x, f, c, su0, su
  <2>4. Noise(d, m) = [i \in Index |-> (er[i] + x.e2[i] + (f.v[i] - c.v[i]) - su0[i]) % Q]
    BY <2>1, EvaluatedIs DEF Coeffs
  <2> QED BY <2>3, <2>4
<1> HIDE DEF pair, ek0, seed, x, c, ct, f, off, u, o, T, S, E
<1>10. /\ tr \in Within(Q) /\ Res(tr) = INT(Dot(T, R))
       /\ R \in Vectors
  BY <1>1, <1>3, InvPoint, VectorsAre
<1>11. er \in Within(Q) /\ Res(er) = INT(Dot(E, R))
  <2>1. OnVec(ErrorOf(d), poly_tobytes) = E
    BY <1>1, BytesVector DEF E
  <2> QED BY <1>1, <1>3, <2>1, InvPoint
<1>12. su \in Within(Q) /\ Res(su) = INT(Dot(S, ResOf(o)))
  BY <1>1, <1>7, InvPoint DEF o
<1>13. mp \in Within(Q) /\ Res(mp) = INT(Dot(S, ResOf(u)))
  <2>1. OnVec(pair.s, poly_frombytes) = S
    BY <1>1, VectorsAre, EntriesAre
  <2> QED BY <1>1, <1>7, <2>1, InvPoint DEF u
<1> DEFINE ro == ResOf(o)
           ru == ResOf(u)
<1>14. PICK p \in Polys : /\ INT(Dot(T, R)) = Plus(p, INT(Dot(E, R)))
                          /\ INT(Dot(S, ru)) = Plus(p, INT(Dot(S, ro)))
  <2> DEFINE A == MatrixFor(d)
             B == [j \in Dim |-> Column(d, j)]
  <2>1. /\ A \in [Dim -> Vectors] /\ {S, E, R, ro, T, ru} \subseteq Vectors
        /\ \A i \in Dim : T[i] = Plus(ScaleBy(Square, Dot(A[i], S)), E[i])
    BY <1>1, <1>7, <1>10
  <2>2. \A i, j \in Dim : B[j][i] = A[i][j]
    BY DEF Column
  <2>3. \A j \in Dim : B[j] \in Vectors
    <3>1. \A i \in Dim : A[i] \in [Dim -> Polys]
      BY <2>1 DEF Vectors
    <3> HIDE DEF A
    <3> QED BY <3>1 DEF Vectors, Column, A
  <2>4. \A j \in Dim : ru[j] = Plus(ScaleBy(Square, Dot(B[j], R)), ro[j])
    <3>1. \A j \in Dim : ru[j] = Plus(ScaleBy(Square, Dot(Column(d, j), R)), ro[j])
      BY <1>7
    <3>2. \A j \in Dim : B[j] = Column(d, j)
      OBVIOUS
    <3> HIDE DEF ro, ru, R, B
    <3> QED BY <3>1, <3>2
  <2>5. B \in [Dim -> Vectors]
    BY <2>3
  <2> HIDE DEF ro, ru, R, A, B
  <2>6. Exchanged(A, B, S, E, R, ro, T, ru)
    BY <2>1, <2>2, <2>4, <2>5 DEF Exchanged
  <2> QED BY <1>0, <2>6, Exchange
<1>15. mg \in Within(Q) /\ \A i \in Index : mg[i] = m[i] * ((Q + 1) \div 2)
  BY <1>0, MsgIs
<1> HIDE DEF ro, ru, R, tr, er, su, mp, mg, n
<1>16. /\ Res(tr) = Plus(p, Res(er)) /\ Res(mp) = Plus(p, Res(su))
  BY <1>10, <1>11, <1>12, <1>13, <1>14 DEF ro, ru
<1>17. last \in Within(Q) /\ last \in Words
       /\ \A i \in Index : Is(last[i], f.v[i] - mp[i])
  <2> DEFINE fv == f.v
             w == PolySub(fv, mp)
             q2 == Q + Q
  <2>1. fv \in Within(Q) /\ last = reduce(w)
    BY <1>6
  <2> HIDE DEF fv, last
  <2>2. q2 \in Nat /\ 2 * q2 < WORD /\ 2 * Q < WORD
    BY <1>0, SMT
  <2>3. w \in Within(q2) /\ \A i \in Index : w[i] = fv[i] - mp[i]
    BY <1>0, <1>13, <2>1, ResBack
  <2> HIDE DEF w, q2
  <2>4. w \in Words
    BY <1>0, <2>2, <2>3, WithinIs
  <2>5. last \in Within(Q) /\ \A i \in Index : last[i] = barrett_reduce(w[i])
    BY <1>0, <2>1, <2>4, ReduceIs
  <2>6. \A i \in Index : Is(last[i], fv[i] - mp[i])
    <3> TAKE i \in Index
    <3>1. w[i] \in Half
      BY <1>0, <2>4, WordsInt
    <3>2. Is(barrett_reduce(w[i]), w[i])
      BY <1>0, <3>1, BarrettIs
    <3> QED BY <2>3, <2>5, <3>2
  <2>7. last \in Words
    BY <1>0, <2>2, <2>5, WithinIs
  <2> QED BY <2>5, <2>6, <2>7 DEF fv
<1>18. poly_tomsg(last) = [i \in Index |-> ((2 * freeze(last[i]) + Q \div 2) \div Q) % 2]
  <2> HIDE DEF last
  <2> QED BY EvaluatedIs DEF poly_tomsg, Coeffs
<1> HIDE DEF last
<1>19. ASSUME NEW i \in Index
       PROVE  ((2 * freeze(last[i]) + Q \div 2) \div Q) % 2 = m[i]
  <2> DEFINE y0 == last[i]
             y == y0 % Q
             b == m[i]
             h == mg[i]
             k == n[i]
             e2 == x.e2[i]
             fv == f.v[i]
             cv == c.v[i]
             z == (er[i] + e2 + (fv - cv) - su[i]) % Q
  <2>1. y0 \in Half /\ y0 \in Int
    BY <1>0, <1>17, WordsInt
  <2>2. freeze(y0) = y /\ y \in Field /\ y \in Int /\ Is(y, y0)
    BY <1>0, <2>1, FreezeIs, IsMod
  <2>3. /\ tr[i] \in Int /\ er[i] \in Int /\ p[i] \in Int /\ Is(tr[i], p[i] + er[i])
        /\ mp[i] \in Int /\ su[i] \in Int /\ Is(mp[i], p[i] + su[i])
    BY <1>0, <1>10, <1>11, <1>12, <1>13, <1>16, ResSum
  <2>4. e2 \in Int /\ fv \in Int /\ cv \in Int /\ h \in Int
    <3>1. \A g \in Within(Q) : g[i] \in Int
      BY <1>0, Small DEF Within
    <3>2. x.e2 \in Within(Q) /\ f.v \in Within(Q) /\ c.v \in Within(Q) /\ mg \in Within(Q)
      BY <1>3, <1>5, <1>6, <1>15
    <3> QED BY <3>1, <3>2
  <2>5. Is(cv, tr[i] + (e2 + h)) /\ Is(y0, fv - mp[i])
    BY <1>5, <1>17 DEF mg, tr
  <2>6. k = z /\ Noise(d, m)[i] = k
    BY <1>9 DEF n
  <2> HIDE DEF y0, e2, fv, cv, h, k
  <2>7. Is(y0, h + z)
    BY <1>0, <2>1, <2>3, <2>4, <2>5, Congruences
  <2>8. z \in Field /\ z \in Int
    <3> DEFINE r == er[i] + e2 + (fv - cv) - su[i]
    <3>1. r \in Int
      BY <2>3, <2>4
    <3> HIDE DEF r
    <3>2. r % Q \in Field /\ r % Q \in Int
      BY <1>0, <3>1, IsMod
    <3> QED BY <3>2 DEF r
  <2> HIDE DEF z
  <2>9. Is(y, h + k)
    <3> DEFINE g == h + k
    <3>1. g \in Int /\ Is(y0, g)
      BY <2>4, <2>6, <2>7, <2>8
    <3> HIDE DEF g, y
    <3>2. Is(y, g)
      BY <1>0, <2>1, <2>2, <3>1, IsTrans
    <3> QED BY <3>2 DEF g
  <2>10. b \in {0, 1} /\ h = b * ((Q + 1) \div 2) /\ k \in Field
         /\ (4 * k < Q - 1 \/ 4 * (Q - k) < Q - 1)
    BY <1>0, <1>4, <1>15, <2>6, <2>8 DEF h
  <2> HIDE DEF b, y
  <2>11. ((2 * y + Q \div 2) \div Q) % 2 = b
    BY <1>0, <2>2, <2>9, <2>10, BitIs
  <2> QED BY <2>2, <2>11 DEF b, y0
<1>20. poly_tomsg(last) = m
  <2>1. m = [i \in Index |-> m[i]]
    BY <1>0
  <2> QED BY <1>18, <1>19, <2>1
<1> QED BY <1>8, <1>20 DEF ct, pair, ek0, seed

-----------------------------------------------------------------------------
(* The state: whose keys are kept, and of what the last calls were made.   *)
KeysOf(d, z) ==
  /\ ek = EkOf(d)
  /\ dk = [s |-> keypair(d).s, ek |-> EkOf(d), h |-> hash_h(EkOf(d)), z |-> z]
SentFor(m) ==
  sent = [m  |-> m, ct |-> encrypt(ek, m, coins(m, hash_h(ek))),
          ss |-> kdf(encrypt(ek, m, coins(m, hash_h(ek))), k_bar(m, hash_h(ek)))]
(* The keys are those of one seed; what was sent was made of one message   *)
(* for them; what was got is what decaps makes of what arrived.            *)
HasKeys     == ek # None => \E d \in Seeds, z \in Zs : KeysOf(d, z)
HasSent     == sent # None => ek # None /\ \E m \in Messages : SentFor(m)
HasGot      == got # None => sent # None /\ got.ss = Secret(got.ct)
IInv        == HasKeys /\ HasSent /\ HasGot

(* Every call keeps this.                                                  *)
LEMMA KeygenKeeps ==
  ASSUME IInv, NEW d \in Seeds, NEW z \in Zs, keygen(d, z)
  PROVE  IInv'
<1>1. ek = None /\ sent = None /\ got = None /\ sent' = sent /\ got' = got
  BY DEF IInv, HasSent, HasGot, keygen
<1>2. HasKeys'
  <2>1. KeysOf(d, z)'
    BY DEF KeysOf, keygen, EkOf
  <2> QED BY <2>1 DEF HasKeys
<1>3. HasSent' /\ HasGot'
  BY <1>1 DEF HasSent, HasGot, None
<1> QED BY <1>2, <1>3 DEF IInv

LEMMA EncapsKeeps ==
  ASSUME IInv, NEW m \in Messages, encaps(m)
  PROVE  IInv'
<1>1. ek # None /\ ek' = ek /\ dk' = dk /\ got' = None
  BY DEF encaps
<1>2. HasKeys'
  BY <1>1 DEF IInv, HasKeys, KeysOf, None
<1>3. HasSent'
  <2>1. SentFor(m)'
    BY <1>1 DEF encaps, SentFor
  <2> QED BY <1>1, <2>1 DEF HasSent, None
<1>4. HasGot'
  BY <1>1 DEF HasGot, None
<1> QED BY <1>2, <1>3, <1>4 DEF IInv

LEMMA DecapsKeeps ==
  ASSUME IInv, NEW c, decaps(c)
  PROVE  IInv'
<1>1. ek' = ek /\ dk' = dk /\ sent' = sent /\ sent # None
      /\ got' = [ct |-> c, ss |-> Secret(c)]
  BY DEF decaps
<1>2. HasKeys' /\ HasSent'
  BY <1>1 DEF IInv, HasKeys, HasSent, KeysOf, SentFor, None
<1>3. HasGot'
  <2>1. Secret(c)' = Secret(c)
    BY <1>1 DEF Secret
  <2>2. got'.ct = c /\ got'.ss = Secret(c)
    BY <1>1
  <2>3. (got.ss = Secret(got.ct))'
    BY <1>1, <2>1, <2>2 DEF Secret
  <2> QED BY <1>1, <2>3 DEF HasGot, None
<1> QED BY <1>2, <1>3 DEF IInv

LEMMA Inductive == Spec => []IInv
<1>1. Init => IInv
  BY DEF Init, IInv, HasKeys, HasSent, HasGot
<1>2. ASSUME IInv, [Next]_vars PROVE IInv'
  <2>1. CASE \E d \in Seeds, z \in Zs : keygen(d, z)
    BY <1>2, <2>1, KeygenKeeps
  <2>2. CASE \E m \in Messages : encaps(m)
    BY <1>2, <2>2, EncapsKeeps
  <2>3. CASE \E c \in IF sent = None THEN {} ELSE Arrivals(sent.ct) : decaps(c)
    BY <1>2, <2>3, DecapsKeeps
  <2>4. CASE UNCHANGED vars
    BY <1>2, <2>4 DEF vars, IInv, HasKeys, HasSent, HasGot, KeysOf, SentFor, Secret, None
  <2> QED BY <1>2, <2>1, <2>2, <2>3, <2>4 DEF Next
<1> QED BY <1>1, <1>2, PTL DEF Spec

(* What was sent last fits.                                                *)
FitsSent == sent # None => Fits(ek.rho.rho, sent.m)

(* One exchange.                                                           *)
LEMMA SecretIsSent ==
  ASSUME MlKemAssumption, StreamsAssumption, IInv, FitsSent
  PROVE  DecapsAgrees
<1> SUFFICES ASSUME got # None, got.ct = sent.ct PROVE got.ss = sent.ss
  BY DEF DecapsAgrees
<1>1. sent # None /\ ek # None /\ got.ss = Secret(sent.ct)
  BY DEF IInv, HasGot, HasSent
<1>2. PICK d \in Seeds, z \in Zs : KeysOf(d, z)
  BY <1>1 DEF IInv, HasKeys
<1>3. PICK m \in Messages : SentFor(m)
  BY <1>1 DEF IInv, HasSent
<1>4. ek = EkOf(d) /\ dk.s = keypair(d).s /\ dk.ek = ek /\ dk.h = hash_h(ek)
  BY <1>2 DEF KeysOf
<1> DEFINE ct == encrypt(ek, m, coins(m, hash_h(ek)))
<1>5. sent.m = m /\ sent.ct = ct /\ sent.ss = kdf(ct, k_bar(m, hash_h(ek)))
  BY <1>3 DEF SentFor
<1>6. Fits(d, m)
  <2>1. ek.rho = [rho |-> d]
    BY <1>4, KeypairIs DEF EkOf
  <2>2. ek.rho.rho = d
    BY <2>1
  <2> QED BY <1>1, <1>5, <2>2 DEF FitsSent
<1>7. decrypt(ct, dk.s) = m
  <2>1. ct = encrypt(EkOf(d), m, SeedOf(d, m))
    BY <1>4 DEF SeedOf
  <2> HIDE DEF ct
  <2> QED BY <1>4, <1>6, <2>1, Decrypts
<1>8. encrypt(dk.ek, m, coins(m, dk.h)) = ct
  BY <1>4
<1> HIDE DEF ct
<1>9. Secret(ct) = kdf(ct, k_bar(m, dk.h))
  BY <1>7, <1>8 DEF Secret, SameBytes
<1> QED BY <1>1, <1>4, <1>5, <1>9

(* The secret that decaps makes of what encaps sent is the one encaps kept *)
(* (DecapsAgrees), for any keys, any message and any bits drawn, as long   *)
(* as the noise and the sums that are not reduced stay within what decrypt *)
(* can tell apart (kem.rs: keygen, encaps, decaps; kpke.rs).               *)
THEOREM EndsAgreeIfFits ==
  ASSUME MlKemAssumption, StreamsAssumption
  PROVE  Spec => [](FitsSent => DecapsAgrees)
<1>1. IInv => (FitsSent => DecapsAgrees)
  BY SecretIsSent
<1> QED BY <1>1, Inductive, PTL

(* When the noise of every seed and message fits, both ends agree in every *)
(* exchange: DecapsAgrees (kem.rs: encaps, decaps).                        *)
THEOREM EndsAgree ==
  ASSUME MlKemAssumption, StreamsAssumption, \A d \in Seeds, m \in Messages : Fits(d, m)
  PROVE  Spec => []DecapsAgrees
<1>1. ASSUME IInv PROVE FitsSent
  <2> SUFFICES ASSUME sent # None PROVE Fits(ek.rho.rho, sent.m)
    BY DEF FitsSent
  <2>1. PICK d \in Seeds, z \in Zs : KeysOf(d, z)
    BY <1>1 DEF IInv, HasKeys, HasSent
  <2>2. PICK m \in Messages : SentFor(m)
    BY <1>1 DEF IInv, HasSent
  <2>3. ek.rho = [rho |-> d] /\ sent.m = m
    BY <2>1, <2>2, KeypairIs DEF EkOf, KeysOf, SentFor
  <2>4. ek.rho.rho = d
    BY <2>3
  <2> QED BY <2>3, <2>4
<1>2. IInv => DecapsAgrees
  BY <1>1, SecretIsSent
<1> QED BY <1>2, Inductive, PTL

(* What arrived is not what another message is encrypted to.               *)
NotAnother ==
  got # None => LET m == decrypt(got.ct, dk.s)
                IN  got.ct = encrypt(ek, m, coins(m, hash_h(ek))) => m = sent.m

(* A changed ciphertext is answered with the secret made of z              *)
(* (RejectsChanged), unless it is, in every part, what another message is  *)
(* encrypted to: nothing else gets past the second encryption, whichever   *)
(* part was changed and whatever it decrypts to (kem.rs: decaps).          *)
THEOREM RejectsAllOthers ==
  Spec => [](NotAnother => RejectsChanged)
<1>1. ASSUME IInv, NotAnother, got # None, got.ct # sent.ct
      PROVE  got.ss = kdf(got.ct, dk.z)
  <2>1. sent # None /\ ek # None /\ got.ss = Secret(got.ct)
    BY <1>1 DEF IInv, HasGot, HasSent
  <2>2. PICK d \in Seeds, z \in Zs : KeysOf(d, z)
    BY <1>1, <2>1 DEF IInv, HasKeys
  <2>3. PICK m0 \in Messages : SentFor(m0)
    BY <1>1, <2>1 DEF IInv, HasSent
  <2>4. dk.ek = ek /\ dk.h = hash_h(ek)
    BY <2>2 DEF KeysOf
  <2> DEFINE c == got.ct
             m == decrypt(c, dk.s)
             ct == encrypt(ek, m, coins(m, hash_h(ek)))
  <2>5. sent.m = m0 /\ sent.ct = encrypt(ek, m0, coins(m0, hash_h(ek)))
    BY <2>3 DEF SentFor
  <2>6. c = ct => m = m0
    BY <1>1, <2>5 DEF NotAnother
  <2>7. Secret(c) = IF c = ct THEN kdf(c, k_bar(m, hash_h(ek))) ELSE kdf(c, dk.z)
    BY <2>4 DEF Secret, SameBytes
  <2>8. c # ct
    <3> SUFFICES ASSUME c = ct PROVE FALSE
      OBVIOUS
    <3>1. m = m0
      BY <2>6
    <3>2. ct = sent.ct
      BY <2>5, <3>1
    <3> QED BY <1>1, <3>2
  <2> HIDE DEF m, ct
  <2> QED BY <2>1, <2>7, <2>8
<1>2. IInv => (NotAnother => RejectsChanged)
  BY <1>1 DEF RejectsChanged
<1> QED BY <1>2, Inductive, PTL
=============================================================================
