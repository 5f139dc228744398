--------------------------- MODULE MlDsaRingProofs --------------------------
(***************************************************************************)
(* That the transforms, the Montgomery products and the inverse transform  *)
(* of mldsa/src compute products modulo X ^ N + 1 (ProductIs), and that    *)
(* what a verifier makes of a row of the matrix is what the signer had     *)
(* (RowVerifies): for every modulus, every size and every table of zetas   *)
(* MlDsaRingAssumption allows.                                             *)
(*                                                                         *)
(* The argument.  Add, Sub and Mul are sums, differences and products by   *)
(* the inverse of WORD modulo Q, so that the layers, and with them the     *)
(* transforms, are linear.  A layer on the way back undoes one on the way  *)
(* there but for a factor 2, and INV_N_MONT is what all of them come to.   *)
(* A layer that takes remainders modulo X ^ (2 * len) - r apart turns a    *)
(* product by X into a product by X of both remainders, so that all layers *)
(* turn it into a product of each coefficient by a root of X ^ N + 1.      *)
(* A product of transforms is then that of f's coefficients by powers of   *)
(* X times g, one coefficient of f after the other.                        *)
(***************************************************************************)
EXTENDS MlDsaRing, TLAPS, SequenceTheorems, FiniteSetTheorems, WellFoundedInduction

-----------------------------------------------------------------------------
(* Numbers: leasts, greatests, inductions, and the values a fold goes      *)
(* through.                                                                *)

(* Numbers have a least.                                                   *)
LEMMA LeastNat ==
  ASSUME NEW T, T \subseteq Nat, T # {}
  PROVE  \E m \in T : \A n \in T : m <= n
<1> DEFINE R == OpToRel(<, Nat)
<1>1. IsWellFoundedOn(R, Nat)
  BY NatLessThanWellFounded, Zenon
<1>2. \A x, y \in Nat : x < y => <<x, y>> \in R
  BY DEF OpToRel
<1> HIDE DEF R
<1>3. \E x \in T : \A y \in T : ~ (<<y, x>> \in R)
  BY <1>1, WFMin
<1>4. \A x, y \in Nat : ~ (y < x) => x <= y
  BY SMT
<1> QED BY <1>2, <1>3, <1>4

(* A set that has 0, and each number's successor, has every number.        *)
LEMMA SetInduction ==
  ASSUME NEW S, 0 \in S, \A n \in Nat : n \in S => n + 1 \in S
  PROVE  \A n \in Nat : n \in S
<1> DEFINE T == Nat \ S
<1> SUFFICES ASSUME T # {} PROVE FALSE
  OBVIOUS
<1>1. PICK m \in T : \A n \in T : m <= n
  <2>1. T \subseteq Nat
    OBVIOUS
  <2> HIDE DEF T
  <2> QED BY <2>1, LeastNat
<1>2. m \in Nat /\ m # 0
  BY <1>1
<1>3. m - 1 \in Nat /\ (m - 1) + 1 = m /\ ~ (m <= m - 1)
  BY <1>2, SMT
<1>4. m - 1 \in S
  BY <1>1, <1>3
<1> QED BY <1>1, <1>3, <1>4

(* A set of numbers has its least and, bounded, its greatest.              *)
LEMMA MinIn ==
  ASSUME NEW T, T \subseteq Nat, T # {}
  PROVE  Min(T) \in T
BY LeastNat DEF Min

LEMMA MaxIn ==
  ASSUME NEW n \in Nat, NEW T, T \subseteq 1 .. n, T # {}
  PROVE  Max(T) \in T
<1> DEFINE B == {n - x : x \in T}
<1>1. \A x \in T : x \in Int /\ n - x \in Nat
  BY SMT
<1>2. B \subseteq Nat /\ B # {}
  BY <1>1
<1>3. PICK m \in B : \A y \in B : m <= y
  <2> HIDE DEF B
  <2> QED BY <1>2, LeastNat
<1>4. PICK x \in T : m = n - x
  BY <1>3
<1>5. \A y \in T : x >= y
  <2>1. SUFFICES ASSUME NEW y \in T PROVE x >= y
    OBVIOUS
  <2>2. n - x <= n - y
    BY <1>3, <1>4
  <2> QED BY <1>1, <2>2, SMT
<1> QED BY <1>4, <1>5 DEF Max

(* A fold over 1 .. n takes one element after another from a set, until    *)
(* the set is empty.                                                       *)
Picks(n, pick) ==
  \A s \in SUBSET (1 .. n) : s # {} => pick[s] \in s

(* A set is smaller without one of its elements.                           *)
LEMMA Smaller ==
  ASSUME NEW n \in Nat, NEW s \in SUBSET (1 .. n), NEW x \in s
  PROVE  /\ Cardinality(s) \in Nat /\ Cardinality(s) # 0
         /\ s \ {x} \in SUBSET (1 .. n)
         /\ Cardinality(s \ {x}) = Cardinality(s) - 1
         /\ Cardinality(s) <= n
<1>1. IsFiniteSet(1 .. n) /\ Cardinality(1 .. n) = n
  BY FS_Interval, SMT
<1>2. IsFiniteSet(s) /\ Cardinality(s) <= n
  BY <1>1, FS_Subset
<1>3. Cardinality(s) \in Nat /\ Cardinality(s) # 0
  BY <1>2, FS_CardinalityType, FS_EmptySet
<1> QED BY <1>2, <1>3, FS_RemoveElement

(* The size of a set of places.                                            *)
LEMMA Cards ==
  ASSUME NEW n \in Nat, NEW s \in SUBSET (1 .. n)
  PROVE  Cardinality(s) \in Nat /\ Cardinality(s) <= n
         /\ (Cardinality(s) = 0 <=> s = {})
<1>1. IsFiniteSet(1 .. n) /\ Cardinality(1 .. n) = n
  BY FS_Interval, SMT
<1>2. IsFiniteSet(s) /\ Cardinality(s) <= n
  BY <1>1, FS_Subset
<1> QED BY <1>2, FS_CardinalityType, FS_EmptySet

(* A fold whose steps stay in T exists, and its values are in T.           *)
Folds(g, dom, base, pick, next) ==
  g = [s \in dom |-> IF s = {} THEN base ELSE next[s][g[s \ {pick[s]}]]]

LEMMA FoldExists ==
  ASSUME NEW n \in Nat, NEW pick, Picks(n, pick), NEW T, NEW base \in T, NEW next,
         \A s \in SUBSET (1 .. n), t \in T : s # {} => next[s][t] \in T
  PROVE  \E g : /\ Folds(g, SUBSET (1 .. n), base, pick, next)
                /\ \A s \in SUBSET (1 .. n) : g[s] \in T
<1> DEFINE Upto(k) == {s \in SUBSET (1 .. n) : Cardinality(s) <= k}
           S == {k \in Nat : \E g : Folds(g, Upto(k), base, pick, next)
                                    /\ \A s \in Upto(k) : g[s] \in T}
<1>1. 0 \in S
  <2> DEFINE g == [s \in Upto(0) |-> base]
  <2>1. \A s \in Upto(0) : s = {}
    <3>1. SUFFICES ASSUME NEW s \in SUBSET (1 .. n), Cardinality(s) <= 0 PROVE s = {}
      OBVIOUS
    <3>2. Cardinality(s) \in Nat /\ (Cardinality(s) = 0 <=> s = {})
      BY Cards
    <3> QED BY <3>1, <3>2, SMT
  <2>2. g = [s \in Upto(0) |-> IF s = {} THEN base ELSE next[s][g[s \ {pick[s]}]]]
    BY <2>1
  <2>3. Folds(g, Upto(0), base, pick, next) /\ \A s \in Upto(0) : g[s] \in T
    BY <2>2 DEF Folds
  <2> QED BY <2>3
<1>2. ASSUME NEW k \in Nat, k \in S PROVE k + 1 \in S
  <2>1. PICK h : Folds(h, Upto(k), base, pick, next) /\ \A s \in Upto(k) : h[s] \in T
    BY <1>2
  <2> DEFINE g == [s \in Upto(k + 1) |->
                     IF s = {} THEN base ELSE next[s][h[s \ {pick[s]}]]]
  <2>2. \A s \in Upto(k) : h[s] = IF s = {} THEN base ELSE next[s][h[s \ {pick[s]}]]
    BY <2>1 DEF Folds
  <2>3. \A s \in Upto(k) : s \in Upto(k + 1) /\ g[s] = h[s]
    <3>1. SUFFICES ASSUME NEW s \in Upto(k)
                   PROVE  s \in Upto(k + 1) /\ g[s] = h[s]
      OBVIOUS
    <3>2. Cardinality(s) \in Nat /\ Cardinality(s) <= k
      BY Cards
    <3>3. s \in Upto(k + 1)
      BY <3>2, SMT
    <3> QED BY <2>2, <3>3
  <2>4. \A s \in Upto(k + 1) : s # {} => s \ {pick[s]} \in Upto(k)
    <3>1. SUFFICES ASSUME NEW s \in Upto(k + 1), s # {}
                   PROVE  s \ {pick[s]} \in Upto(k)
      OBVIOUS
    <3>2. pick[s] \in s
      BY <3>1 DEF Picks
    <3>3. Cardinality(s) \in Nat /\ Cardinality(s) <= k + 1
      BY Cards
    <3>4. s \ {pick[s]} \in SUBSET (1 .. n) /\ Cardinality(s \ {pick[s]}) = Cardinality(s) - 1
      BY <3>2, Smaller
    <3> QED BY <3>3, <3>4, SMT
  <2>5. g = [s \in Upto(k + 1) |-> IF s = {} THEN base ELSE next[s][g[s \ {pick[s]}]]]
    BY <2>3, <2>4
  <2>6. \A s \in Upto(k + 1) : g[s] \in T
    BY <2>1, <2>4
  <2>7. Folds(g, Upto(k + 1), base, pick, next)
    BY <2>5 DEF Folds
  <2>8. k + 1 \in Nat
    BY SMT
  <2> HIDE DEF g, Upto
  <2>9. \E f : Folds(f, Upto(k + 1), base, pick, next)
               /\ \A s \in Upto(k + 1) : f[s] \in T
    BY <2>6, <2>7
  <2> QED BY <2>8, <2>9
<1>3. n \in S
  <2> HIDE DEF S
  <2> QED BY <1>1, <1>2, SetInduction
<1>4. Upto(n) = SUBSET (1 .. n)
  BY Cards
<1> QED BY <1>3, <1>4

(* FoldLeft takes the last place first, FoldRight the first.               *)
LEMMA LastPick ==
  ASSUME NEW n \in Nat
  PROVE  Picks(n, [s \in SUBSET (1 .. n) |-> Max(s)])
BY MaxIn DEF Picks

LEMMA FirstPick ==
  ASSUME NEW n \in Nat
  PROVE  Picks(n, [s \in SUBSET (1 .. n) |-> Min(s)])
<1>1. \A s \in SUBSET (1 .. n) : s \subseteq Nat
  BY SMT
<1> QED BY <1>1, MinIn DEF Picks

(* Intervals that a fold takes apart. *)
LEMMA Ends ==
  ASSUME NEW a \in Int, NEW b \in Int, a <= b
  PROVE  /\ Max(a .. b) = b /\ (a .. b) \ {b} = a .. b - 1
         /\ Min(a .. b) = a /\ (a .. b) \ {a} = a + 1 .. b
         /\ a .. b # {}
<1>1. b \in a .. b /\ a \in a .. b
  BY SMT
<1>2. \A x \in a .. b : x \in Int /\ a <= x /\ x <= b
  BY SMT
<1> DEFINE S == a .. b
           m == CHOOSE t \in S : \A s \in S : t >= s
           l == CHOOSE t \in S : \A s \in S : t <= s
<1>3. m \in S /\ \A s \in S : m >= s
  BY <1>1, <1>2
<1>4. l \in S /\ \A s \in S : l <= s
  BY <1>1, <1>2
<1>5. Max(S) = m /\ Min(S) = l
  BY DEF Max, Min
<1> HIDE DEF m, l
<1>6. m = b /\ l = a
  BY <1>1, <1>2, <1>3, <1>4, SMT
<1>7. (a .. b) \ {b} = a .. b - 1 /\ (a .. b) \ {a} = a + 1 .. b
  BY SMT
<1> QED BY <1>1, <1>5, <1>6, <1>7

(* The values a fold passes through. *)
Runs(r, n, T, base) == r \in [0 .. n -> T] /\ r[0] = base

(* What is true of 0, and of a number's successor when of the number, up   *)
(* to n.                                                                   *)
LEMMA UptoInduction ==
  ASSUME NEW n \in Nat, NEW S, 0 \in S, \A k \in 0 .. n - 1 : k \in S => k + 1 \in S
  PROVE  \A k \in 0 .. n : k \in S
<1> DEFINE T == {k \in Nat : k <= n => k \in S}
<1>1. 0 \in T
  BY SMT
<1>2. \A k \in Nat : k \in T => k + 1 \in T
  <2>1. SUFFICES ASSUME NEW k \in Nat, k \in T, k + 1 <= n PROVE k + 1 \in S
    BY SMT
  <2>2. k \in 0 .. n - 1 /\ k <= n
    BY <2>1, SMT
  <2> QED BY <2>1, <2>2
<1>3. \A k \in Nat : k \in T
  <2> HIDE DEF T
  <2> QED BY <1>1, <1>2, SetInduction
<1> QED BY <1>3, SMT

-----------------------------------------------------------------------------
(* Coefficients and polynomials stay in their ranges.                      *)

(* Coefficients, polynomials, and the lengths of a transform's layers.     *)
Field == 0 .. Q - 1

Polys == [Index -> Field]

Layers == {len \in 1 .. N \div 2 : N % (2 * len) = 0}

(* The value of a function is the function.                                *)
LEMMA EvaluatedIs ==
  ASSUME NEW f
  PROVE  Evaluated(f) = f
BY DEF Evaluated

(* The parameters and tables.                                              *)
LEMMA Ring ==
  ASSUME MlDsaRingAssumption
  PROVE  /\ Q \in Nat /\ Q > 1 /\ N \in Nat /\ N > 0
         /\ WORD \in Nat /\ 2 * Q <= WORD
         /\ Lens \in Seq(Layers)
         /\ \A k \in Index : ZETAS[k] \in 1 .. Q - 1
         /\ Q_INV \in Nat /\ INV_N_MONT \in Field
<1>1. Q \in Nat /\ Q # 0 /\ N \in Nat /\ N > 0 /\ WORD \in Nat /\ 2 * Q <= WORD
  <2>1. /\ Q \in Nat \ {0} /\ N \in Nat \ {0} /\ WORD \in Nat \ {0}
        /\ 2 * Q <= WORD
    BY DEF MlDsaRingAssumption
  <2> QED BY <2>1, SMT
<1>2. Q > 1
  <2>1. Bits(D) \in 1 .. Q - 1
    BY DEF MlDsaRingAssumption
  <2> QED BY <1>1, <2>1, SMT
<1>3. Lens \in Seq(Layers) /\ \A k \in Index : ZETAS[k] \in 1 .. Q - 1
  BY DEF MlDsaRingAssumption, Layers
<1>4. Q_INV \in Nat /\ INV_N_MONT \in Field
  BY DEF MlDsaRingAssumption, Field
<1> QED BY <1>1, <1>2, <1>3, <1>4

LEMMA LiftIn ==
  ASSUME MlDsaRingAssumption, NEW x \in Int, -Q <= x, x < Q
  PROVE  Lift(x) \in Field
BY Ring, SMT DEF Lift, Field

(* field.rs: sums, differences and products are reduced.                   *)
LEMMA AddIn ==
  ASSUME MlDsaRingAssumption, NEW a \in Field, NEW b \in Field
  PROVE  Add(a, b) \in Field
BY Ring, SMT DEF Add, Field

LEMMA SubIn ==
  ASSUME MlDsaRingAssumption, NEW a \in Field, NEW b \in Field
  PROVE  Sub(a, b) \in Field
<1>1. a - b \in Int /\ -Q <= a - b /\ a - b < Q
  BY Ring, SMT DEF Field
<1> QED BY <1>1, LiftIn DEF Sub

(* Division.                                                               *)
LEMMA DivMod ==
  ASSUME NEW x \in Int, NEW m \in Nat, m > 0
  PROVE  /\ x \div m \in Int /\ x % m \in 0 .. m - 1
         /\ x = m * (x \div m) + (x % m)
BY SMT

LEMMA Times2 ==
  ASSUME NEW a \in Int, NEW b \in Int, NEW m \in Nat, a <= b
  PROVE  m * a <= m * b
BY SMT

(* What an i32 wraps to is within half of its values.                      *)
LEMMA WrapIn ==
  ASSUME NEW w \in Nat, w > 0, NEW x \in Int, WORD = w
  PROVE  Wrap(x) \in Int /\ -w <= 2 * Wrap(x) /\ 2 * Wrap(x) <= w
<1>1. WORD \div 2 \in Nat /\ 2 * (WORD \div 2) <= w /\ w <= 2 * (WORD \div 2) + 1
  BY SMT
<1>2. x + WORD \div 2 \in Int
  BY <1>1, SMT
<1>3. (x + WORD \div 2) % WORD \in 0 .. w - 1
  BY <1>2, DivMod
<1> QED BY <1>1, <1>3, SMT DEF Wrap

(* Montgomery's reduction: of a product below Q * Q it leaves one          *)
(* correction.                                                             *)
LEMMA MulIn ==
  ASSUME MlDsaRingAssumption, NEW a \in Field, NEW b \in Field
  PROVE  Mul(a, b) \in Field
<1> DEFINE t == Wrap(Wrap(a * b) * Q_INV)
           x == a * b - t * Q
           y == x \div WORD
<1>1. Q \in Nat /\ Q > 1 /\ WORD \in Nat /\ WORD > 0 /\ 2 * Q <= WORD /\ Q_INV \in Nat
  BY Ring, SMT
<1>2. a \in Int /\ b \in Int /\ 0 <= a /\ 0 <= b /\ a <= Q - 1 /\ b <= Q - 1
  BY <1>1, SMT DEF Field
<1>3. a * b \in Int /\ 0 <= a * b /\ a * b <= (Q - 1) * (Q - 1)
  BY <1>1, <1>2, SMT
<1>4. t \in Int /\ -WORD <= 2 * t /\ 2 * t <= WORD
  <2>1. Wrap(a * b) \in Int
    BY <1>1, <1>3, WrapIn
  <2>2. Wrap(a * b) * Q_INV \in Int
    BY <1>1, <2>1, SMT
  <2> QED BY <1>1, <2>2, WrapIn
<1> HIDE DEF t
<1>5. t * Q \in Int /\ Q * (-WORD) <= 2 * (t * Q) /\ 2 * (t * Q) <= Q * WORD
  <2>1. Q * (-WORD) <= Q * (2 * t) /\ Q * (2 * t) <= Q * WORD
    BY <1>1, <1>4, Times2
  <2>2. Q * (2 * t) = 2 * (t * Q) /\ t * Q \in Int
    BY <1>1, <1>4, SMT
  <2> QED BY <2>1, <2>2
<1>6. Q * (2 * Q) <= Q * WORD
  BY <1>1, Times2
<1>7. Q * WORD \in Int /\ Q * (-WORD) = -(Q * WORD) /\ Q * (2 * Q) = 2 * (Q * Q)
      /\ Q * Q \in Int /\ (Q - 1) * (Q - 1) = Q * Q - 2 * Q + 1
  BY <1>1, SMT
<1>8. x \in Int /\ 2 * x < 2 * (Q * WORD) /\ -(Q * WORD) <= 2 * x
  BY <1>1, <1>3, <1>5, <1>6, <1>7, SMT
<1> HIDE DEF x
<1>9. y \in Int /\ x % WORD \in 0 .. WORD - 1 /\ x = WORD * y + (x % WORD)
  BY <1>1, <1>8, DivMod
<1> HIDE DEF y
<1>10. y < Q
  <2>1. SUFFICES ASSUME Q <= y PROVE FALSE
    BY <1>1, <1>9, SMT
  <2>2. WORD * Q <= WORD * y /\ WORD * Q = Q * WORD /\ WORD * y \in Int
    BY <1>1, <1>9, <2>1, Times2
  <2> QED BY <1>7, <1>8, <1>9, <2>2, SMT
<1>11. -Q <= y
  <2>1. SUFFICES ASSUME y <= -Q - 1 PROVE FALSE
    BY <1>1, <1>9, SMT
  <2>2. WORD * y <= WORD * (-Q - 1) /\ WORD * y \in Int
    BY <1>1, <1>9, <2>1, Times2
  <2>3. WORD * (-Q - 1) = -(Q * WORD) - WORD
    BY <1>1, SMT
  <2>4. Q * WORD >= 0
    BY <1>1, SMT
  <2> QED BY <1>1, <1>7, <1>8, <1>9, <2>2, <2>3, <2>4, SMT
<1>12. Lift(y) \in Field
  BY <1>9, <1>10, <1>11, LiftIn
<1> QED BY <1>12 DEF Mul, t, x, y

(* The places of a layer's blocks.                                         *)
LEMMA Blocks ==
  ASSUME NEW m \in Nat, NEW len \in 1 .. m \div 2, m % (2 * len) = 0,
         NEW i \in 0 .. m - 1
  PROVE  /\ len \in Nat /\ len > 0
         /\ i % (2 * len) < len => i + len \in 0 .. m - 1
         /\ ~ (i % (2 * len) < len) => i - len \in 0 .. m - 1
         /\ (m \div (2 * len)) + (i \div (2 * len)) \in 0 .. m - 1
         /\ (m \div len) - 1 - (i \div (2 * len)) \in 0 .. m - 1
<1> DEFINE b == 2 * len
           q == m \div b
           k == i \div b
           r == i % b
<1>1. len \in Nat /\ len > 0 /\ 2 * len <= m /\ b \in Nat /\ b > 0 /\ b = 2 * len /\ b <= m
  BY SMT
<1> HIDE DEF b
<1>2. i \in Int /\ 0 <= i /\ i < m
  BY SMT
<1>3. q \in Int /\ m = b * q
  <2>1. m % b = 0
    BY DEF b
  <2> QED BY <1>1, <2>1, DivMod
<1>4. k \in Int /\ r \in 0 .. b - 1 /\ i = b * k + r
  BY <1>1, <1>2, DivMod
<1> HIDE DEF q, k, r
<1>5. k >= 0
  <2>1. SUFFICES ASSUME k <= -1 PROVE FALSE
    BY <1>4, SMT
  <2>2. b * k <= b * (-1) /\ b * (-1) = -b /\ b * k \in Int
    BY <1>1, <1>4, <2>1, Times2
  <2> QED BY <1>1, <1>2, <1>4, <2>2, SMT
<1>6. k + 1 <= q
  <2>1. SUFFICES ASSUME q <= k PROVE FALSE
    BY <1>3, <1>4, SMT
  <2>2. b * q <= b * k /\ b * k \in Int
    BY <1>1, <1>3, <1>4, <2>1, Times2
  <2> QED BY <1>1, <1>2, <1>3, <1>4, <2>2, SMT
<1>7. b * (k + 1) <= m /\ b * (k + 1) = b * k + b /\ b * k \in Int
  <2>1. b * (k + 1) <= b * q
    BY <1>1, <1>3, <1>4, <1>6, Times2
  <2> QED BY <1>1, <1>3, <1>4, <2>1, SMT
<1>8. r < len => i + len \in 0 .. m - 1
  BY <1>1, <1>2, <1>4, <1>7, SMT
<1>9. ~ (r < len) => i - len \in 0 .. m - 1
  <2>1. b * k >= 0
    BY <1>1, <1>4, <1>5, SMT
  <2> QED BY <1>1, <1>2, <1>4, <2>1, SMT
<1>10. 2 * q <= m
  <2>1. q * 2 <= q * b /\ q * b = b * q
    <3>1. q \in Nat /\ 2 <= b
      BY <1>1, <1>3, <1>5, <1>6, SMT
    <3> QED BY <1>1, <3>1, Times2
  <2> QED BY <1>3, <2>1, SMT
<1>11. m \div len = 2 * q
  <2> DEFINE p == m \div len
             s == m % len
  <2>1. p \in Int /\ s \in 0 .. len - 1 /\ m = len * p + s
    BY <1>1, DivMod
  <2> HIDE DEF p, s
  <2>2. m = len * (2 * q) /\ len * (2 * q) \in Int /\ len * p \in Int
    BY <1>1, <1>3, <2>1, SMT
  <2>3. CASE p < 2 * q
    <3>1. len * (p + 1) <= len * (2 * q)
      BY <1>1, <1>3, <2>1, <2>3, Times2
    <3>2. len * (p + 1) = len * p + len
      BY <1>1, <2>1, SMT
    <3> QED BY <1>1, <2>1, <2>2, <3>1, <3>2, SMT
  <2>4. CASE p > 2 * q
    <3>1. len * (2 * q + 1) <= len * p
      BY <1>1, <1>3, <2>1, <2>4, Times2
    <3>2. len * (2 * q + 1) = len * (2 * q) + len
      BY <1>1, <1>3, SMT
    <3> QED BY <1>1, <2>1, <2>2, <3>1, <3>2, SMT
  <2>5. p = 2 * q
    BY <1>3, <2>1, <2>3, <2>4, SMT
  <2> QED BY <2>5 DEF p
<1>12. q + k \in 0 .. m - 1 /\ 2 * q - 1 - k \in 0 .. m - 1
  BY <1>1, <1>3, <1>4, <1>5, <1>6, <1>10, SMT
<1> QED BY <1>1, <1>8, <1>9, <1>11, <1>12 DEF b, q, k, r

(* A layer of a transform, on the way there and back.                      *)
LEMMA NttLayerIn ==
  ASSUME MlDsaRingAssumption, NEW f \in Polys, NEW len \in Layers
  PROVE  NttLayer(f, len) \in Polys
<1> DEFINE z(i) == NttZeta(i, len)
           c(i) == IF LowHalf(i, len) THEN Add(f[i], Mul(f[i + len], z(i)))
                                      ELSE Sub(f[i - len], Mul(f[i], z(i)))
<1>1. ASSUME NEW i \in Index PROVE c(i) \in Field
  <2>1. len \in 1 .. N \div 2 /\ N % (2 * len) = 0 /\ N \in Nat /\ i \in 0 .. N - 1
    BY Ring DEF Layers, Index
  <2>2. /\ LowHalf(i, len) => i + len \in Index
        /\ ~ LowHalf(i, len) => i - len \in Index
        /\ (N \div (2 * len)) + (i \div (2 * len)) \in Index
    BY <2>1, Blocks DEF LowHalf, Index
  <2>3. z(i) \in Field
    <3>1. z(i) \in 1 .. Q - 1
      BY <2>2, Ring DEF NttZeta
    <3> QED BY <3>1, Ring, SMT DEF Field
  <2>4. \A j \in Index : f[j] \in Field
    BY DEF Polys
  <2> HIDE DEF z
  <2>5. CASE LowHalf(i, len)
    BY <2>2, <2>3, <2>4, <2>5, AddIn, MulIn
  <2>6. CASE ~ LowHalf(i, len)
    BY <2>2, <2>3, <2>4, <2>6, SubIn, MulIn
  <2> QED BY <2>5, <2>6
<1>2. NttLayer(f, len) = [i \in Index |-> c(i)]
  BY EvaluatedIs DEF NttLayer, Coeffs
<1> QED BY <1>1, <1>2 DEF Polys

LEMMA InttLayerIn ==
  ASSUME MlDsaRingAssumption, NEW f \in Polys, NEW len \in Layers
  PROVE  InttLayer(f, len) \in Polys
<1> DEFINE c(i) == IF LowHalf(i, len) THEN Add(f[i], f[i + len])
                   ELSE Mul(Sub(f[i - len], f[i]), InttZeta(i, len))
<1>1. ASSUME NEW i \in Index PROVE c(i) \in Field
  <2>1. len \in 1 .. N \div 2 /\ N % (2 * len) = 0 /\ N \in Nat /\ i \in 0 .. N - 1
    BY Ring DEF Layers, Index
  <2>2. /\ LowHalf(i, len) => i + len \in Index
        /\ ~ LowHalf(i, len) => i - len \in Index
        /\ (N \div len) - 1 - (i \div (2 * len)) \in Index
    BY <2>1, Blocks DEF LowHalf, Index
  <2>3. InttZeta(i, len) \in Field
    <3> DEFINE k == (N \div len) - 1 - (i \div (2 * len))
    <3>1. k \in Index
      BY <2>2
    <3>2. InttZeta(i, len) = INTT_ZETAS[k]
      BY DEF InttZeta
    <3> HIDE DEF k
    <3>3. INTT_ZETAS[k] = Q - ZETAS[k] /\ ZETAS[k] \in 1 .. Q - 1
      BY <3>1, EvaluatedIs, Ring DEF INTT_ZETAS, Coeffs
    <3> QED BY <3>2, <3>3, Ring, SMT DEF Field
  <2>4. \A j \in Index : f[j] \in Field
    BY DEF Polys
  <2>5. CASE LowHalf(i, len)
    BY <2>2, <2>4, <2>5, AddIn
  <2>6. CASE ~ LowHalf(i, len)
    BY <2>2, <2>3, <2>4, <2>6, SubIn, MulIn
  <2> QED BY <2>5, <2>6
<1>2. InttLayer(f, len) = [i \in Index |-> c(i)]
  BY EvaluatedIs DEF InttLayer, Coeffs
<1> QED BY <1>1, <1>2 DEF Polys

(* poly.rs, coefficient by coefficient.                                    *)
LEMMA PolyOps ==
  ASSUME MlDsaRingAssumption
  PROVE  /\ ZeroPoly \in Polys
         /\ \A f, g \in Polys : /\ PolyAdd(f, g) \in Polys
                                /\ PolySub(f, g) \in Polys
                                /\ pointwise_montgomery(f, g) \in Polys
<1>1. 0 \in Field
  BY Ring, SMT DEF Field
<1>2. ZeroPoly \in Polys
  BY <1>1, EvaluatedIs DEF ZeroPoly, Coeffs, Polys
<1>3. ASSUME NEW f \in Polys, NEW g \in Polys
      PROVE  /\ PolyAdd(f, g) \in Polys
             /\ PolySub(f, g) \in Polys
             /\ pointwise_montgomery(f, g) \in Polys
  <2>1. \A i \in Index : f[i] \in Field /\ g[i] \in Field
    BY DEF Polys
  <2>2. PolyAdd(f, g) = [i \in Index |-> Add(f[i], g[i])]
    BY EvaluatedIs DEF PolyAdd, Coeffs
  <2>3. PolySub(f, g) = [i \in Index |-> Sub(f[i], g[i])]
    BY EvaluatedIs DEF PolySub, Coeffs
  <2>4. pointwise_montgomery(f, g) = [i \in Index |-> Mul(f[i], g[i])]
    BY EvaluatedIs DEF pointwise_montgomery, Coeffs
  <2>5. \A i \in Index : /\ Add(f[i], g[i]) \in Field /\ Sub(f[i], g[i]) \in Field
                         /\ Mul(f[i], g[i]) \in Field
    BY <2>1, AddIn, SubIn, MulIn
  <2> QED BY <2>2, <2>3, <2>4, <2>5 DEF Polys
<1> QED BY <1>2, <1>3

LEMMA NttRun ==
  ASSUME MlDsaRingAssumption, NEW f \in Polys
  PROVE  \E r : /\ Runs(r, Len(Lens), Polys, f) /\ ntt(f) = r[Len(Lens)]
                /\ \A k \in 0 .. Len(Lens) - 1 : r[k + 1] = NttLayer(r[k], Lens[Len(Lens) - k])
<1> DEFINE n == Len(Lens)
           pick == [s \in SUBSET (1 .. n) |-> Min(s)]
           next == [s \in SUBSET (1 .. n) |-> [g \in Polys |-> NttLayer(g, Lens[Min(s)])]]
           IsFold(h) == h = [s \in SUBSET (1 .. n) |->
                               IF s = {} THEN f
                               ELSE NttLayer(h[s \ {Min(s)}], Lens[Min(s)])]
           it == CHOOSE h : IsFold(h)
<1>1. n \in Nat /\ DOMAIN Lens = 1 .. n /\ \A i \in 1 .. n : Lens[i] \in Layers
  BY Ring, SMT
<1>2. ntt(f) = it[1 .. n]
  BY <1>1 DEF ntt, FoldRight, MapThenFoldSet
<1>3. Picks(n, pick)
  BY <1>1, FirstPick
<1>4. \A s \in SUBSET (1 .. n), g \in Polys :
        s # {} => next[s][g] = NttLayer(g, Lens[Min(s)]) /\ next[s][g] \in Polys
  BY <1>1, <1>3, NttLayerIn DEF Picks
<1>5. \E h : IsFold(h)
  <2>1. PICK h : /\ Folds(h, SUBSET (1 .. n), f, pick, next)
                 /\ \A s \in SUBSET (1 .. n) : h[s] \in Polys
    <3>1. \A s \in SUBSET (1 .. n), g \in Polys : s # {} => next[s][g] \in Polys
      BY <1>4
    <3> HIDE DEF n, pick, next
    <3> QED BY <1>1, <1>3, <3>1, FoldExists
  <2>2. \A s \in SUBSET (1 .. n) : s \ {Min(s)} \in SUBSET (1 .. n)
    OBVIOUS
  <2>3. h = [s \in SUBSET (1 .. n) |->
               IF s = {} THEN f ELSE next[s][h[s \ {pick[s]}]]]
    BY <2>1 DEF Folds
  <2>4. IsFold(h)
    <3>1. \A s \in SUBSET (1 .. n) :
            s # {} => next[s][h[s \ {pick[s]}]] = NttLayer(h[s \ {Min(s)}], Lens[Min(s)])
      BY <1>4, <2>1, <2>2
    <3> HIDE DEF n, pick, next
    <3> QED BY <2>3, <3>1
  <2> QED BY <2>4
<1>6. IsFold(it)
  BY <1>5
<1> HIDE DEF it
<1> DEFINE r == [k \in 0 .. n |-> it[n - k + 1 .. n]]
<1>7. n + 1 .. n = {} /\ 0 \in 0 .. n /\ n \in 0 .. n /\ n - 0 + 1 = n + 1 /\ n - n + 1 = 1
  BY <1>1, SMT
<1>8. r[0] = f /\ r[n] = it[1 .. n]
  <2> HIDE DEF n
  <2>1. r[0] = it[{}] /\ r[n] = it[1 .. n]
    BY <1>7
  <2>2. {} \in SUBSET (1 .. n)
    OBVIOUS
  <2> QED BY <1>6, <2>1, <2>2
<1>9. ASSUME NEW k \in 0 .. n - 1
      PROVE  r[k + 1] = NttLayer(r[k], Lens[n - k]) /\ n - k \in 1 .. n
  <2> DEFINE s == n - k .. n
  <2>1. /\ k \in 0 .. n /\ k + 1 \in 0 .. n /\ n - (k + 1) + 1 = n - k
        /\ n - k \in 1 .. n /\ n - k <= n /\ n - k \in Int /\ n \in Int
    BY <1>1, SMT
  <2>2. s \in SUBSET (1 .. n)
    BY <2>1, SMT
  <2>3. Min(s) = n - k /\ s \ {n - k} = n - k + 1 .. n /\ s # {}
    BY <2>1, Ends
  <2>4. r[k + 1] = it[s]
    BY <2>1
  <2>5. it[s] = NttLayer(it[s \ {Min(s)}], Lens[Min(s)])
    <3> HIDE DEF s, n
    <3> QED BY <1>6, <2>2, <2>3
  <2> HIDE DEF s, n
  <2>6. r[k] = it[n - k + 1 .. n]
    BY <2>1
  <2> QED BY <2>1, <2>3, <2>4, <2>5, <2>6
<1> HIDE DEF r
<1>10. \A k \in 0 .. n : r[k] \in Polys
  <2> DEFINE S == {k \in 0 .. n : r[k] \in Polys}
  <2>1. 0 \in S
    BY <1>7, <1>8
  <2>2. ASSUME NEW k \in 0 .. n - 1, k \in S PROVE k + 1 \in S
    <3>1. k + 1 \in 0 .. n
      BY <1>1, SMT
    <3> QED BY <1>1, <1>9, <2>2, <3>1, NttLayerIn
  <2>3. \A k \in 0 .. n : k \in S
    <3> HIDE DEF S, n
    <3> QED BY <1>1, <2>1, <2>2, UptoInduction
  <2> QED BY <2>3
<1>11. r \in [0 .. n -> Polys]
  BY <1>10 DEF r
<1> QED BY <1>2, <1>8, <1>9, <1>11 DEF Runs

LEMMA InttRun ==
  ASSUME MlDsaRingAssumption, NEW f \in Polys
  PROVE  \E r : /\ Runs(r, Len(Lens), Polys, f)
                /\ intt(f) = [i \in Index |-> Mul(r[Len(Lens)][i], INV_N_MONT)]
                /\ \A k \in 0 .. Len(Lens) - 1 : r[k + 1] = InttLayer(r[k], Lens[k + 1])
<1> DEFINE n == Len(Lens)
           pick == [s \in SUBSET (1 .. n) |-> Max(s)]
           next == [s \in SUBSET (1 .. n) |-> [g \in Polys |-> InttLayer(g, Lens[Max(s)])]]
           IsFold(h) == h = [s \in SUBSET (1 .. n) |->
                               IF s = {} THEN f
                               ELSE InttLayer(h[s \ {Max(s)}], Lens[Max(s)])]
           it == CHOOSE h : IsFold(h)
<1>1. n \in Nat /\ DOMAIN Lens = 1 .. n /\ \A i \in 1 .. n : Lens[i] \in Layers
  BY Ring, SMT
<1>2. intt(f) = [i \in Index |-> Mul(it[1 .. n][i], INV_N_MONT)]
  <2>1. FoldLeft(InttLayer, f, Lens) = it[1 .. n]
    BY <1>1 DEF FoldLeft, MapThenFoldSet
  <2> HIDE DEF it, n
  <2> QED BY <2>1, EvaluatedIs DEF intt, Coeffs
<1>3. Picks(n, pick)
  BY <1>1, LastPick
<1>4. \A s \in SUBSET (1 .. n), g \in Polys :
        s # {} => next[s][g] = InttLayer(g, Lens[Max(s)]) /\ next[s][g] \in Polys
  BY <1>1, <1>3, InttLayerIn DEF Picks
<1>5. \E h : IsFold(h)
  <2>1. PICK h : /\ Folds(h, SUBSET (1 .. n), f, pick, next)
                 /\ \A s \in SUBSET (1 .. n) : h[s] \in Polys
    <3>1. \A s \in SUBSET (1 .. n), g \in Polys : s # {} => next[s][g] \in Polys
      BY <1>4
    <3> HIDE DEF n, pick, next
    <3> QED BY <1>1, <1>3, <3>1, FoldExists
  <2>2. \A s \in SUBSET (1 .. n) : s \ {Max(s)} \in SUBSET (1 .. n)
    OBVIOUS
  <2>3. h = [s \in SUBSET (1 .. n) |->
               IF s = {} THEN f ELSE next[s][h[s \ {pick[s]}]]]
    BY <2>1 DEF Folds
  <2>4. IsFold(h)
    <3>1. \A s \in SUBSET (1 .. n) :
            s # {} => next[s][h[s \ {pick[s]}]] = InttLayer(h[s \ {Max(s)}], Lens[Max(s)])
      BY <1>4, <2>1, <2>2
    <3> HIDE DEF n, pick, next
    <3> QED BY <2>3, <3>1
  <2> QED BY <2>4
<1>6. IsFold(it)
  BY <1>5
<1> HIDE DEF it
<1> DEFINE r == [k \in 0 .. n |-> it[1 .. k]]
<1>7. 1 .. 0 = {} /\ 0 \in 0 .. n /\ n \in 0 .. n
  BY <1>1, SMT
<1>8. r[0] = f /\ r[n] = it[1 .. n]
  <2> HIDE DEF n
  <2>1. r[0] = it[{}] /\ r[n] = it[1 .. n]
    BY <1>7
  <2>2. {} \in SUBSET (1 .. n)
    OBVIOUS
  <2> QED BY <1>6, <2>1, <2>2
<1>9. ASSUME NEW k \in 0 .. n - 1
      PROVE  r[k + 1] = InttLayer(r[k], Lens[k + 1]) /\ k + 1 \in 1 .. n
  <2> DEFINE s == 1 .. k + 1
  <2>1. /\ k \in 0 .. n /\ k + 1 \in 0 .. n /\ (k + 1) - 1 = k
        /\ k + 1 \in 1 .. n /\ 1 <= k + 1 /\ k + 1 \in Int /\ 1 \in Int
    BY <1>1, SMT
  <2>2. s \in SUBSET (1 .. n)
    BY <2>1, SMT
  <2>3. Max(s) = k + 1 /\ s \ {k + 1} = 1 .. (k + 1) - 1 /\ s # {}
    <3> DEFINE c == k + 1
    <3>1. c \in Int /\ 1 <= c /\ 1 \in Int
      BY <2>1
    <3> HIDE DEF c
    <3>2. Max(1 .. c) = c /\ (1 .. c) \ {c} = 1 .. c - 1 /\ 1 .. c # {}
      BY <3>1, Ends
    <3> QED BY <3>2 DEF c
  <2>4. r[k + 1] = it[s]
    BY <2>1
  <2>5. it[s] = InttLayer(it[s \ {Max(s)}], Lens[Max(s)])
    <3> HIDE DEF s, n
    <3> QED BY <1>6, <2>2, <2>3
  <2> HIDE DEF s, n
  <2>6. r[k] = it[1 .. k]
    BY <2>1
  <2> QED BY <2>1, <2>3, <2>4, <2>5, <2>6
<1> HIDE DEF r
<1>10. \A k \in 0 .. n : r[k] \in Polys
  <2> DEFINE S == {k \in 0 .. n : r[k] \in Polys}
  <2>1. 0 \in S
    BY <1>7, <1>8
  <2>2. ASSUME NEW k \in 0 .. n - 1, k \in S PROVE k + 1 \in S
    <3>1. k + 1 \in 0 .. n
      BY <1>1, SMT
    <3> QED BY <1>1, <1>9, <2>2, <3>1, InttLayerIn
  <2>3. \A k \in 0 .. n : k \in S
    <3> HIDE DEF S, n
    <3> QED BY <1>1, <2>1, <2>2, UptoInduction
  <2> QED BY <2>3
<1>11. r \in [0 .. n -> Polys]
  BY <1>10 DEF r
<1> QED BY <1>2, <1>8, <1>9, <1>11 DEF Runs

(* ntt.rs.                                                                 *)
LEMMA Transforms ==
  ASSUME MlDsaRingAssumption, NEW f \in Polys
  PROVE  ntt(f) \in Polys /\ intt(f) \in Polys
<1>1. Len(Lens) \in 0 .. Len(Lens)
  <2>1. Len(Lens) \in Nat
    BY Ring
  <2> QED BY <2>1, SMT
<1>2. ntt(f) \in Polys
  <2>1. PICK r : Runs(r, Len(Lens), Polys, f) /\ ntt(f) = r[Len(Lens)]
    BY NttRun
  <2> QED BY <1>1, <2>1 DEF Runs
<1>3. intt(f) \in Polys
  <2>1. PICK r : /\ Runs(r, Len(Lens), Polys, f)
                 /\ intt(f) = [i \in Index |-> Mul(r[Len(Lens)][i], INV_N_MONT)]
    BY InttRun
  <2> DEFINE g == r[Len(Lens)]
  <2>2. g \in Polys
    BY <1>1, <2>1 DEF Runs
  <2> HIDE DEF g
  <2>3. \A i \in Index : Mul(g[i], INV_N_MONT) \in Field
    BY <2>2, Ring, MulIn DEF Polys
  <2> QED BY <2>1, <2>3 DEF g, Polys
<1> QED BY <1>2, <1>3

-----------------------------------------------------------------------------
(* Add, Sub and Mul compute sums, differences and Montgomery products      *)
(* modulo Q.                                                               *)

(* A hint moves its coefficient to another bucket.                         *)
LEMMA Monotone ==
  ASSUME NEW a \in Int, NEW b \in Int, NEW m \in Nat, m > 0
  PROVE  /\ m * a <= m * b <=> a <= b
         /\ (m * a) \div m = a
<1>1. m * a <= m * b <=> a <= b
  BY SMT
<1> DEFINE x == m * a
<1>2. x \in Int
  BY SMT
<1>3. x \div m \in Int /\ x % m \in 0 .. m - 1 /\ x = m * (x \div m) + (x % m)
  BY <1>2, DivMod
<1> DEFINE d == x \div m
           e == x % m
<1>4. d \in Int /\ e \in 0 .. m - 1 /\ m * a = m * d + e
  BY <1>3
<1> HIDE DEF d, e
<1>5. CASE d < a
  <2>1. m * (d + 1) <= m * a
    BY <1>4, <1>5, Times2
  <2>2. m * (d + 1) = m * d + m /\ m * d \in Int
    BY <1>4, SMT
  <2> QED BY <1>4, <2>1, <2>2, SMT
<1>6. CASE a < d
  <2>1. m * (a + 1) <= m * d
    BY <1>4, <1>6, Times2
  <2>2. m * (a + 1) = m * a + m /\ m * d \in Int /\ m * a \in Int
    BY <1>4, SMT
  <2> QED BY <1>4, <2>1, <2>2, SMT
<1>7. d = a
  BY <1>4, <1>5, <1>6, SMT
<1> QED BY <1>1, <1>7 DEF d

(* Congruence.                                                             *)
Cong(m, a, b) == \E k \in Int : a = b + k * m

LEMMA CongRefl ==
  ASSUME NEW m \in Int, NEW a \in Int
  PROVE  Cong(m, a, a)
<1>1. a = a + 0 * m /\ 0 \in Int
  BY SMT
<1> QED BY <1>1 DEF Cong

LEMMA CongSym ==
  ASSUME NEW m \in Int, NEW a \in Int, NEW b \in Int, Cong(m, a, b)
  PROVE  Cong(m, b, a)
<1>1. PICK k \in Int : a = b + k * m
  BY DEF Cong
<1>2. b = a + (-k) * m /\ -k \in Int
  BY <1>1, SMT
<1> QED BY <1>2 DEF Cong

LEMMA CongTrans ==
  ASSUME NEW m \in Int, NEW a \in Int, NEW b \in Int, NEW c \in Int,
         Cong(m, a, b), Cong(m, b, c)
  PROVE  Cong(m, a, c)
<1>1. PICK k \in Int : a = b + k * m
  BY DEF Cong
<1>2. PICK j \in Int : b = c + j * m
  BY DEF Cong
<1>3. a = c + (k + j) * m /\ k + j \in Int
  BY <1>1, <1>2, SMT
<1> QED BY <1>3 DEF Cong

LEMMA CongAdd ==
  ASSUME NEW m \in Int, NEW a \in Int, NEW b \in Int, NEW c \in Int, NEW d \in Int,
         Cong(m, a, b), Cong(m, c, d)
  PROVE  Cong(m, a + c, b + d) /\ Cong(m, a - c, b - d)
<1>1. PICK k \in Int : a = b + k * m
  BY DEF Cong
<1>2. PICK j \in Int : c = d + j * m
  BY DEF Cong
<1>3. /\ a + c = (b + d) + (k + j) * m /\ k + j \in Int
      /\ a - c = (b - d) + (k - j) * m /\ k - j \in Int
  BY <1>1, <1>2, SMT
<1> QED BY <1>3 DEF Cong

LEMMA CongTimes ==
  ASSUME NEW m \in Int, NEW a \in Int, NEW b \in Int, NEW c \in Int,
         Cong(m, a, b)
  PROVE  Cong(m, c * a, c * b) /\ Cong(m, a * c, b * c)
<1>1. PICK k \in Int : a = b + k * m
  BY DEF Cong
<1>2. c * a = c * b + (c * k) * m /\ a * c = b * c + (c * k) * m /\ c * k \in Int
  BY <1>1, SMT
<1> QED BY <1>2 DEF Cong

LEMMA CongMod ==
  ASSUME NEW m \in Nat, m > 0, NEW a \in Int
  PROVE  Cong(m, a % m, a) /\ Cong(m, a, a % m)
<1>1. a \div m \in Int /\ a % m \in 0 .. m - 1 /\ a = m * (a \div m) + (a % m)
  BY DivMod
<1> DEFINE d == a \div m
           e == a % m
<1>2. d \in Int /\ e \in Int /\ a = m * d + e
  BY <1>1, SMT
<1> HIDE DEF d, e
<1>3. a = e + d * m /\ e = a + (-d) * m /\ -d \in Int
  BY <1>2, SMT
<1>4. Cong(m, e, a) /\ Cong(m, a, e)
  BY <1>2, <1>3 DEF Cong
<1> QED BY <1>4 DEF e

LEMMA SmallCong ==
  ASSUME NEW m \in Nat, m > 0, NEW a \in 0 .. m - 1, NEW b \in 0 .. m - 1, Cong(m, a, b)
  PROVE  a = b
<1>1. PICK k \in Int : a = b + k * m
  BY DEF Cong
<1>2. a \in Int /\ b \in Int /\ 0 <= a /\ a < m /\ 0 <= b /\ b < m
  BY SMT
<1>3. CASE k >= 1
  <2>1. m * 1 <= m * k /\ m * 1 = m /\ m * k = k * m
    BY <1>3, Times2, SMT
  <2> QED BY <1>1, <1>2, <2>1, SMT
<1>4. CASE k <= -1
  <2>1. m * k <= m * (-1) /\ m * (-1) = -m /\ m * k = k * m
    BY <1>4, Times2, SMT
  <2> QED BY <1>1, <1>2, <2>1, SMT
<1>5. CASE k = 0
  BY <1>1, <1>2, <1>5, SMT
<1> QED BY <1>3, <1>4, <1>5, SMT

(* Coefficients are the numbers modulo Q.                                  *)
Is(x, y) == Cong(Q, x, y)

LEMMA FieldInt ==
  ASSUME MlDsaRingAssumption
  PROVE  /\ Q \in Int /\ Q \in Nat /\ Q > 1 /\ WORD \in Int
         /\ \A x \in Field : x \in Int /\ 0 <= x /\ x < Q
BY Ring, SMT DEF Field

LEMMA FieldEqual ==
  ASSUME MlDsaRingAssumption, NEW a \in Field, NEW b \in Field, Is(a, b)
  PROVE  a = b
BY Ring, SmallCong DEF Is, Field

LEMMA LiftIs ==
  ASSUME MlDsaRingAssumption, NEW x \in Int
  PROVE  Is(Lift(x), x) /\ Lift(x) \in Int
<1>1. Q \in Int
  BY Ring, SMT
<1>2. Lift(x) = x + 0 * Q \/ Lift(x) = x + 1 * Q
  BY <1>1, SMT DEF Lift
<1>3. 0 \in Int /\ 1 \in Int /\ Lift(x) \in Int
  BY <1>1, SMT DEF Lift
<1> QED BY <1>2, <1>3 DEF Is, Cong

LEMMA AddIs ==
  ASSUME MlDsaRingAssumption, NEW a \in Int, NEW b \in Int
  PROVE  Is(Add(a, b), a + b)
<1>1. Q \in Int
  BY Ring, SMT
<1>2. Add(a, b) = (a + b) + 0 * Q \/ Add(a, b) = (a + b) + (-1) * Q
  BY <1>1, SMT DEF Add
<1>3. 0 \in Int /\ -1 \in Int
  BY SMT
<1> QED BY <1>2, <1>3 DEF Is, Cong

LEMMA SubIs ==
  ASSUME MlDsaRingAssumption, NEW a \in Int, NEW b \in Int
  PROVE  Is(Sub(a, b), a - b)
BY LiftIs, SMT DEF Sub

(* x may be taken for what it is congruent to.                             *)
LEMMA IsRefl ==
  ASSUME MlDsaRingAssumption, NEW a \in Int
  PROVE  Is(a, a)
BY FieldInt, CongRefl DEF Is

LEMMA IsSym ==
  ASSUME MlDsaRingAssumption, NEW a \in Int, NEW b \in Int, Is(a, b)
  PROVE  Is(b, a)
BY FieldInt, CongSym DEF Is

LEMMA IsTrans ==
  ASSUME MlDsaRingAssumption, NEW a \in Int, NEW b \in Int, NEW c \in Int,
         Is(a, b), Is(b, c)
  PROVE  Is(a, c)
BY FieldInt, CongTrans DEF Is

LEMMA IsMeet ==
  ASSUME MlDsaRingAssumption, NEW a \in Int, NEW b \in Int, NEW c \in Int,
         Is(a, c), Is(b, c)
  PROVE  Is(a, b)
BY IsSym, IsTrans

LEMMA IsTimes ==
  ASSUME MlDsaRingAssumption, NEW a \in Int, NEW b \in Int, NEW c \in Int, Is(a, b)
  PROVE  Is(c * a, c * b) /\ Is(a * c, b * c)
BY FieldInt, CongTimes DEF Is

LEMMA IsPlus ==
  ASSUME MlDsaRingAssumption, NEW a \in Int, NEW b \in Int, NEW c \in Int, NEW d \in Int,
         Is(a, b), Is(c, d)
  PROVE  Is(a + c, b + d) /\ Is(a - c, b - d)
BY FieldInt, CongAdd DEF Is

LEMMA IsMod ==
  ASSUME MlDsaRingAssumption, NEW a \in Int
  PROVE  Is(a % Q, a) /\ (a % Q) \in Field
<1>1. Q \in Nat /\ Q > 0
  BY Ring, SMT
<1>2. Cong(Q, a % Q, a)
  BY <1>1, CongMod
<1>3. (a % Q) \in 0 .. Q - 1
  BY <1>1, DivMod
<1> QED BY <1>2, <1>3 DEF Is, Field

LEMMA QInverse ==
  ASSUME MlDsaRingAssumption
  PROVE  /\ Q \in Nat /\ Q > 1 /\ WORD \in Nat /\ WORD > 0 /\ Q_INV \in Nat
         /\ (Q_INV * Q) % WORD = 1
<1>1. Q \in Nat /\ Q > 1 /\ WORD \in Nat /\ WORD > 0
  BY Ring, SMT
<1>2. Q_INV \in Nat /\ (Q_INV * Q) % WORD = 1
  BY DEF MlDsaRingAssumption
<1> QED BY <1>1, <1>2

(* A word has a reciprocal: Q_INV * Q is one more than a multiple of it. *)
LEMMA WordInverse ==
  ASSUME MlDsaRingAssumption
  PROVE  \E v \in Int : Is(v * WORD, 1)
<1>1. /\ Q \in Nat /\ WORD \in Nat /\ WORD > 0 /\ Q_INV \in Nat
      /\ (Q_INV * Q) % WORD = 1
  BY QInverse
<1> DEFINE p == Q_INV * Q
           k == p \div WORD
<1>2. p \in Int
  BY <1>1, SMT
<1>3. k \in Int /\ p = WORD * k + (p % WORD)
  BY <1>1, <1>2, DivMod
<1> HIDE DEF k
<1>4. (-k) * WORD = 1 + (-Q_INV) * Q /\ -k \in Int /\ -Q_INV \in Int
  <2>1. Q_INV * Q = WORD * k + 1
    BY <1>1, <1>3
  <2> QED BY <1>1, <1>3, <2>1, SMT
<1> QED BY <1>4 DEF Is, Cong

LEMMA WordCancel ==
  ASSUME MlDsaRingAssumption, NEW a \in Int, NEW b \in Int, Is(WORD * a, WORD * b)
  PROVE  Is(a, b)
<1>1. PICK v \in Int : Is(v * WORD, 1)
  BY WordInverse
<1>2. WORD \in Int
  BY Ring, SMT
<1> DEFINE w == v * WORD
           x == WORD * a
           y == WORD * b
           e == 1
<1>3. /\ w \in Int /\ x \in Int /\ y \in Int /\ e \in Int
      /\ v * x = w * a /\ v * y = w * b /\ e * a = a /\ e * b = b
      /\ v * x \in Int /\ v * y \in Int
  BY <1>1, <1>2, SMT
<1>4. Is(w, e) /\ Is(x, y)
  BY <1>1
<1> HIDE DEF w, x, y, e
<1>5. Is(v * x, v * y)
  BY <1>1, <1>3, <1>4, IsTimes
<1>6. Is(w * a, e * a)
  BY <1>3, <1>4, IsTimes
<1>7. Is(w * b, e * b)
  BY <1>3, <1>4, IsTimes
<1> DEFINE c == v * x
           d == v * y
<1>8. c \in Int /\ d \in Int /\ Is(c, d) /\ Is(c, a) /\ Is(d, b)
  BY <1>3, <1>5, <1>6, <1>7
<1> HIDE DEF c, d
<1>9. Is(a, c)
  BY <1>8, IsSym
<1>10. Is(a, d)
  BY <1>8, <1>9, IsTrans
<1> QED BY <1>8, <1>10, IsTrans

(* What wraps is the same number modulo a word. *)
LEMMA WrapIs ==
  ASSUME MlDsaRingAssumption, NEW x \in Int
  PROVE  Wrap(x) \in Int /\ Cong(WORD, Wrap(x), x)
<1>1. WORD \in Nat /\ WORD > 0 /\ WORD \div 2 \in Int /\ x + WORD \div 2 \in Int
  BY Ring, SMT
<1>2. Cong(WORD, (x + WORD \div 2) % WORD, x + WORD \div 2)
  BY <1>1, CongMod
<1>3. (x + WORD \div 2) % WORD \in Int
  BY <1>1, DivMod, SMT
<1>4. Cong(WORD, WORD \div 2, WORD \div 2)
  BY <1>1, CongRefl
<1>5. Cong(WORD, ((x + WORD \div 2) % WORD) - (WORD \div 2), (x + WORD \div 2) - (WORD \div 2))
  BY <1>1, <1>2, <1>3, <1>4, CongAdd
<1>6. (x + WORD \div 2) - (WORD \div 2) = x
  BY <1>1, SMT
<1> QED BY <1>1, <1>3, <1>5, <1>6, SMT DEF Wrap

(* Montgomery's product: a word times it is the product. *)
LEMMA MulIs ==
  ASSUME MlDsaRingAssumption, NEW a \in Int, NEW b \in Int
  PROVE  Mul(a, b) \in Int /\ Is(WORD * Mul(a, b), a * b)
<1> DEFINE p == a * b
           u == Wrap(p)
           t == Wrap(u * Q_INV)
           x == p - t * Q
           y == x \div WORD
<1>1. /\ Q \in Nat /\ Q > 1 /\ WORD \in Nat /\ WORD > 0 /\ Q_INV \in Nat
      /\ (Q_INV * Q) % WORD = 1
  BY QInverse
<1>2. p \in Int
  BY SMT
<1>3. Mul(a, b) = Lift(y)
  BY DEF Mul
<1> HIDE DEF p
<1>4. u \in Int /\ Cong(WORD, u, p)
  BY <1>2, WrapIs
<1> HIDE DEF u
<1>5. u * Q_INV \in Int
  BY <1>1, <1>4, SMT
<1>6. t \in Int /\ Cong(WORD, t, u * Q_INV)
  BY <1>5, WrapIs
<1> HIDE DEF t
<1> DEFINE g == Q_INV * Q
<1>7. g \in Int /\ Cong(WORD, g, 1)
  <2>1. g \in Int
    BY <1>1, SMT
  <2>2. g % WORD = 1
    BY <1>1
  <2> HIDE DEF g
  <2>3. Cong(WORD, g, g % WORD)
    BY <1>1, <2>1, CongMod
  <2> QED BY <2>1, <2>2, <2>3
<1>8. Cong(WORD, t * Q, p)
  <2>1. WORD \in Int /\ Q \in Int /\ 1 \in Int
    BY <1>1, SMT
  <2>2. Cong(WORD, t * Q, (u * Q_INV) * Q)
    BY <1>5, <1>6, <2>1, CongTimes
  <2>3. Cong(WORD, u * g, u * 1)
    BY <1>4, <1>7, <2>1, CongTimes
  <2>4. (u * Q_INV) * Q = u * g /\ u * 1 = u /\ u * g \in Int /\ t * Q \in Int
    BY <1>1, <1>4, <1>6, SMT
  <2>5. Cong(WORD, u * g, p)
    BY <1>2, <1>4, <2>1, <2>3, <2>4, CongTrans
  <2>6. Cong(WORD, t * Q, u * g)
    BY <2>2, <2>4
  <2> QED BY <1>2, <2>1, <2>4, <2>5, <2>6, CongTrans
<1>9. x \in Int /\ x = WORD * y /\ y \in Int
  <2>1. t * Q \in Int
    BY <1>1, <1>6, SMT
  <2>2. PICK k \in Int : t * Q = p + k * WORD
    BY <1>8 DEF Cong
  <2>3. x = WORD * (-k) /\ -k \in Int /\ x \in Int
    BY <1>1, <1>2, <2>1, <2>2, SMT
  <2>4. (WORD * (-k)) \div WORD = -k
    <3>1. 0 \in Int
      BY SMT
    <3> QED BY <1>1, <2>3, <3>1, Monotone
  <2> HIDE DEF x
  <2>5. y = -k
    BY <2>3, <2>4
  <2> QED BY <2>3, <2>5
<1> HIDE DEF y
<1>10. Lift(y) \in Int /\ Is(Lift(y), y)
  BY <1>9, LiftIs
<1>11. Is(WORD * Lift(y), WORD * y)
  <2>1. WORD \in Int
    BY <1>1, SMT
  <2> QED BY <1>9, <1>10, <2>1, IsTimes
<1>12. Is(x, p)
  <2>1. x = p + (-t) * Q /\ -t \in Int
    BY <1>1, <1>2, <1>6, SMT DEF x
  <2> HIDE DEF x
  <2> QED BY <2>1 DEF Is, Cong
<1>13. Is(WORD * Lift(y), p)
  <2>1. WORD * Lift(y) \in Int
    BY <1>1, <1>10, SMT
  <2> HIDE DEF x
  <2>2. Is(WORD * Lift(y), x)
    BY <1>9, <1>11
  <2> QED BY <1>2, <1>9, <1>12, <2>1, <2>2, IsTrans
<1> QED BY <1>3, <1>10, <1>13 DEF p

(* Sums and differences. *)
LEMMA AddLaws ==
  ASSUME MlDsaRingAssumption, NEW a \in Field, NEW b \in Field, NEW c \in Field
  PROVE  /\ Add(a, b) = Add(b, a) /\ Add(Add(a, b), c) = Add(a, Add(b, c))
         /\ 0 \in Field /\ Add(a, 0) = a /\ Add(0, a) = a
         /\ Sub(Add(a, b), b) = a /\ Add(Sub(a, b), b) = a
         /\ Sub(Sub(a, b), c) = Sub(a, Add(b, c))
         /\ Sub(a, Sub(b, c)) = Add(Sub(a, b), c)
         /\ Sub(Add(a, b), c) = Add(Sub(a, c), b)
<1>1. /\ Q \in Int /\ Q > 1 /\ a \in Int /\ b \in Int /\ c \in Int
      /\ 0 <= a /\ a < Q /\ 0 <= b /\ b < Q /\ 0 <= c /\ c < Q
  BY Ring, SMT DEF Field
<1> QED BY <1>1, SMT DEF Add, Sub, Lift, Field

(* Numbers of the field that agree, multiplied by a word, are the same. *)
LEMMA SameField ==
  ASSUME MlDsaRingAssumption, NEW x \in Field, NEW y \in Field, NEW e \in Int,
         Is(WORD * x, e), Is(WORD * y, e)
  PROVE  x = y
<1>1. x \in Int /\ y \in Int /\ WORD \in Int
  BY Ring, SMT DEF Field
<1> DEFINE u == WORD * x
           v == WORD * y
<1>2. u \in Int /\ v \in Int /\ Is(u, e) /\ Is(v, e)
  BY <1>1, SMT
<1> HIDE DEF u, v
<1>4. Is(u, v)
  BY <1>2, IsMeet
<1>5. Is(x, y)
  BY <1>1, <1>4, WordCancel DEF u, v
<1> QED BY <1>5, FieldEqual

(* Products. *)
LEMMA MulComm ==
  ASSUME MlDsaRingAssumption, NEW a \in Field, NEW b \in Field
  PROVE  Mul(a, b) = Mul(b, a)
<1>1. a \in Int /\ b \in Int
  BY FieldInt
<1>2. a * b = b * a
  BY <1>1, SMT
<1> QED BY <1>2 DEF Mul

LEMMA MulAdd ==
  ASSUME MlDsaRingAssumption, NEW a \in Field, NEW b \in Field, NEW c \in Field
  PROVE  Mul(a, Add(b, c)) = Add(Mul(a, b), Mul(a, c))
<1> DEFINE s == Add(b, c)
           m == Mul(a, b)
           n == Mul(a, c)
           x == Mul(a, s)
           y == Add(m, n)
<1>1. s \in Field /\ m \in Field /\ n \in Field
  BY AddIn, MulIn
<1>2. x \in Field /\ y \in Field
  BY <1>1, AddIn, MulIn
<1>3. /\ a \in Int /\ b \in Int /\ c \in Int /\ WORD \in Int
      /\ s \in Int /\ m \in Int /\ n \in Int /\ x \in Int /\ y \in Int
  BY <1>1, <1>2, FieldInt
<1>4. Is(s, b + c) /\ Is(y, m + n)
  <2> HIDE DEF m, n
  <2> QED BY <1>3, AddIs
<1>5. Is(WORD * m, a * b) /\ Is(WORD * n, a * c)
  BY <1>3, MulIs
<1>6. Is(WORD * x, a * s)
  <2> HIDE DEF s
  <2> QED BY <1>3, MulIs
<1> HIDE DEF s, m, n, x, y
<1> DEFINE ab == a * b
           ac == a * c
           as == a * s
           wm == WORD * m
           wn == WORD * n
           wx == WORD * x
           wy == WORD * y
           bc == b + c
           mn == m + n
<1>7. /\ ab \in Int /\ ac \in Int /\ as \in Int /\ wm \in Int /\ wn \in Int
      /\ wx \in Int /\ wy \in Int /\ bc \in Int /\ mn \in Int
      /\ a * bc = ab + ac /\ WORD * mn = wm + wn
  BY <1>3, SMT
<1>8. Is(wy, WORD * mn)
  <2>1. Is(y, mn)
    BY <1>4
  <2> HIDE DEF mn
  <2> QED BY <2>1, <1>3, <1>7, IsTimes
<1>9. Is(as, a * bc)
  <2>1. Is(s, bc)
    BY <1>4
  <2> HIDE DEF bc
  <2> QED BY <2>1, <1>3, <1>7, IsTimes
<1>10. Is(wy, wm + wn) /\ Is(as, ab + ac) /\ Is(wm, ab) /\ Is(wn, ac) /\ Is(wx, as)
  BY <1>5, <1>6, <1>7, <1>8, <1>9
<1> HIDE DEF ab, ac, as, wm, wn, wx, wy, bc, mn
<1>11. Is(wm + wn, ab + ac)
  BY <1>7, <1>10, IsPlus
<1> DEFINE e == ab + ac
           g == wm + wn
<1>13. e \in Int /\ g \in Int
  BY <1>7, SMT
<1>14. Is(wy, g) /\ Is(g, e) /\ Is(as, e)
  BY <1>10, <1>11
<1> HIDE DEF e, g
<1>16. Is(wy, e)
  BY <1>7, <1>13, <1>14, IsTrans
<1>17. Is(wx, e)
  BY <1>7, <1>10, <1>13, <1>14, IsTrans
<1>18. x = y
  BY <1>2, <1>13, <1>16, <1>17, SameField DEF wx, wy
<1> QED BY <1>18 DEF x, y, s, m, n

LEMMA MulAssoc ==
  ASSUME MlDsaRingAssumption, NEW a \in Field, NEW b \in Field, NEW c \in Field
  PROVE  Mul(Mul(a, b), c) = Mul(a, Mul(b, c))
<1> DEFINE m == Mul(a, b)
           n == Mul(b, c)
           x == Mul(m, c)
           y == Mul(a, n)
<1>1. m \in Field /\ n \in Field
  BY MulIn
<1>2. x \in Field /\ y \in Field
  BY <1>1, MulIn
<1>3. /\ a \in Int /\ b \in Int /\ c \in Int /\ WORD \in Int
      /\ m \in Int /\ n \in Int /\ x \in Int /\ y \in Int
  BY <1>1, <1>2, FieldInt
<1>4. Is(WORD * m, a * b) /\ Is(WORD * n, b * c)
  BY <1>3, MulIs
<1>5. Is(WORD * x, m * c) /\ Is(WORD * y, a * n)
  <2> HIDE DEF m, n
  <2> QED BY <1>3, MulIs
<1> HIDE DEF m, n, x, y
<1> DEFINE ab == a * b
           bc == b * c
           wm == WORD * m
           wn == WORD * n
           wx == WORD * x
           wy == WORD * y
           mc == m * c
           an == a * n
           e == ab * c
<1>6. /\ ab \in Int /\ bc \in Int /\ wm \in Int /\ wn \in Int /\ wx \in Int /\ wy \in Int
      /\ mc \in Int /\ an \in Int /\ e \in Int
      /\ WORD * mc = wm * c /\ WORD * an = a * wn /\ a * bc = e
  <2>1. /\ ab \in Int /\ bc \in Int /\ wm \in Int /\ wn \in Int /\ wx \in Int /\ wy \in Int
        /\ mc \in Int /\ an \in Int
    BY <1>3, SMT
  <2>2. e \in Int
    <3> HIDE DEF ab
    <3> QED BY <1>3, <2>1, SMT
  <2>3. WORD * mc = wm * c
    BY <1>3, SMT
  <2>4. WORD * an = a * wn
    BY <1>3, SMT
  <2>5. a * bc = e
    BY <1>3, SMT
  <2> QED BY <2>1, <2>2, <2>3, <2>4, <2>5
<1>7. Is(wm, ab) /\ Is(wn, bc) /\ Is(wx, mc) /\ Is(wy, an)
  BY <1>4, <1>5
<1> HIDE DEF ab, bc, wm, wn, wx, wy, mc, an, e
<1>8. Is(wm * c, ab * c)
  BY <1>3, <1>6, <1>7, IsTimes
<1>9. Is(a * wn, a * bc)
  BY <1>3, <1>6, <1>7, IsTimes
<1>10. Is(WORD * wx, WORD * mc) /\ Is(WORD * wy, WORD * an)
  <2>1. Is(WORD * wx, WORD * mc)
    BY <1>3, <1>6, <1>7, IsTimes
  <2>2. Is(WORD * wy, WORD * an)
    BY <1>3, <1>6, <1>7, IsTimes
  <2> QED BY <2>1, <2>2
<1> DEFINE k == WORD * wx
           l == WORD * wy
           f == WORD * mc
           g == WORD * an
<1>11. /\ k \in Int /\ l \in Int /\ f \in Int /\ g \in Int
       /\ Is(k, f) /\ Is(f, e) /\ Is(l, g) /\ Is(g, e)
  <2>1. k \in Int /\ l \in Int /\ f \in Int /\ g \in Int
    BY <1>3, <1>6, SMT
  <2>2. Is(f, e) /\ Is(g, e)
    BY <1>6, <1>8, <1>9 DEF e
  <2> QED BY <1>10, <2>1, <2>2
<1> HIDE DEF k, l, f, g
<1>12. Is(k, e)
  BY <1>6, <1>11, IsTrans
<1>13. Is(l, e)
  BY <1>6, <1>11, IsTrans
<1>14. Is(k, l)
  BY <1>6, <1>11, <1>12, <1>13, IsMeet
<1>15. Is(wx, wy)
  BY <1>6, <1>14, WordCancel DEF k, l
<1>16. Is(x, y)
  BY <1>3, <1>15, WordCancel DEF wx, wy
<1>17. x = y
  BY <1>2, <1>16, FieldEqual
<1> QED BY <1>17 DEF x, y, m, n

(* Montgomery's one. *)
LEMMA MulOne ==
  ASSUME MlDsaRingAssumption, NEW a \in Field
  PROVE  /\ One \in Field /\ Mul(a, One) = a /\ Mul(One, a) = a
         /\ Mul(a, 0) = 0 /\ Mul(0, a) = 0
<1>1. a \in Int /\ WORD \in Int /\ Q \in Int /\ Q > 1
  BY FieldInt
<1>2. One \in Field /\ Is(One, WORD)
  BY <1>1, IsMod DEF One
<1>3. 0 \in Field
  BY <1>1, SMT DEF Field
<1>4. Mul(a, One) = a
  <2> DEFINE m == Mul(a, One)
             e == a * One
             w == WORD * a
  <2>1. m \in Field
    BY <1>2, MulIn
  <2>2. One \in Int
    BY <1>2, FieldInt
  <2>3. Is(WORD * m, e)
    BY <1>1, <2>2, MulIs
  <2>4. Is(a * One, a * WORD)
    <3> HIDE DEF One
    <3> QED BY <1>1, <1>2, <2>2, IsTimes
  <2>5. a * WORD = w /\ e \in Int /\ w \in Int
    BY <1>1, <2>2, SMT
  <2>6. Is(e, w)
    BY <2>4, <2>5
  <2> HIDE DEF e, m
  <2>7. Is(w, e)
    <3> HIDE DEF w
    <3> QED BY <2>5, <2>6, IsSym
  <2>8. m = a
    BY <2>1, <2>3, <2>5, <2>7, SameField
  <2> QED BY <2>8 DEF m
<1>5. Mul(a, 0) = 0
  <2> DEFINE m == Mul(a, 0)
  <2>1. m \in Field
    BY <1>3, MulIn
  <2>2. Is(WORD * m, a * 0)
    BY <1>1, MulIs, SMT
  <2> HIDE DEF m
  <2>3. a * 0 = 0 /\ WORD * 0 = 0 /\ 0 \in Int
    BY <1>1, SMT
  <2>4. Is(0, 0)
    BY <2>3, IsRefl
  <2>5. m = 0
    BY <1>3, <2>1, <2>2, <2>3, <2>4, SameField
  <2> QED BY <2>5 DEF m
<1> QED BY <1>2, <1>3, <1>4, <1>5, MulComm

LEMMA MulSub ==
  ASSUME MlDsaRingAssumption, NEW a \in Field, NEW b \in Field, NEW c \in Field
  PROVE  Mul(a, Sub(b, c)) = Sub(Mul(a, b), Mul(a, c))
<1> DEFINE d == Sub(b, c)
<1>1. d \in Field /\ Add(d, c) = b
  BY SubIn, AddLaws
<1> HIDE DEF d
<1> DEFINE m == Mul(a, d)
           n == Mul(a, c)
<1>2. Mul(a, b) = Add(m, n)
  BY <1>1, MulAdd
<1>3. m \in Field /\ n \in Field
  BY <1>1, MulIn
<1> HIDE DEF m, n
<1>4. Sub(Add(m, n), n) = m
  BY <1>3, AddLaws
<1> QED BY <1>2, <1>4 DEF d, m, n

-----------------------------------------------------------------------------
(* The transforms are linear.                                              *)

(* poly.rs, coefficient by coefficient. *)
ScaleBy(a, f) == [i \in Index |-> Mul(a, f[i])]

LEMMA PolyIs ==
  ASSUME NEW f, NEW g
  PROVE  /\ PolyAdd(f, g) = [i \in Index |-> Add(f[i], g[i])]
         /\ PolySub(f, g) = [i \in Index |-> Sub(f[i], g[i])]
         /\ pointwise_montgomery(f, g) = [i \in Index |-> Mul(f[i], g[i])]
         /\ ZeroPoly = [i \in Index |-> 0]
<1>1. PolyAdd(f, g) = [i \in Index |-> Add(f[i], g[i])]
  BY EvaluatedIs DEF PolyAdd, Coeffs
<1>2. PolySub(f, g) = [i \in Index |-> Sub(f[i], g[i])]
  BY EvaluatedIs DEF PolySub, Coeffs
<1>3. pointwise_montgomery(f, g) = [i \in Index |-> Mul(f[i], g[i])]
  BY EvaluatedIs DEF pointwise_montgomery, Coeffs
<1>4. ZeroPoly = [i \in Index |-> 0]
  BY EvaluatedIs DEF ZeroPoly, Coeffs
<1> QED BY <1>1, <1>2, <1>3, <1>4

LEMMA ScaleIn ==
  ASSUME MlDsaRingAssumption, NEW a \in Field, NEW f \in Polys
  PROVE  ScaleBy(a, f) \in Polys
BY MulIn DEF ScaleBy, Polys

(* Polynomials are the same that have the same coefficients. *)
LEMMA SamePoly ==
  ASSUME NEW f \in Polys, NEW g \in Polys, \A i \in Index : f[i] = g[i]
  PROVE  f = g
BY DEF Polys

(* A layer's places and factors. *)
LEMMA Places ==
  ASSUME MlDsaRingAssumption, NEW len \in Layers, NEW i \in Index
  PROVE  /\ LowHalf(i, len) => i + len \in Index
         /\ ~ LowHalf(i, len) => i - len \in Index
         /\ NttZeta(i, len) \in Field /\ InttZeta(i, len) \in Field
<1>1. len \in 1 .. N \div 2 /\ N % (2 * len) = 0 /\ N \in Nat /\ i \in 0 .. N - 1
  BY Ring DEF Layers, Index
<1>2. /\ LowHalf(i, len) => i + len \in Index
      /\ ~ LowHalf(i, len) => i - len \in Index
      /\ (N \div (2 * len)) + (i \div (2 * len)) \in Index
      /\ (N \div len) - 1 - (i \div (2 * len)) \in Index
  BY <1>1, Blocks DEF LowHalf, Index
<1>3. NttZeta(i, len) \in Field
  <2> DEFINE k == (N \div (2 * len)) + (i \div (2 * len))
  <2>1. k \in Index /\ NttZeta(i, len) = ZETAS[k]
    BY <1>2 DEF NttZeta
  <2> HIDE DEF k
  <2>2. ZETAS[k] \in 1 .. Q - 1
    BY <2>1, Ring
  <2> QED BY <2>1, <2>2, Ring, SMT DEF Field
<1>4. InttZeta(i, len) \in Field
  <2> DEFINE k == (N \div len) - 1 - (i \div (2 * len))
  <2>1. k \in Index /\ InttZeta(i, len) = INTT_ZETAS[k]
    BY <1>2 DEF InttZeta
  <2> HIDE DEF k
  <2>2. INTT_ZETAS[k] = Q - ZETAS[k] /\ ZETAS[k] \in 1 .. Q - 1
    BY <2>1, EvaluatedIs, Ring DEF INTT_ZETAS, Coeffs
  <2> QED BY <2>1, <2>2, Ring, SMT DEF Field
<1> QED BY <1>2, <1>3, <1>4

LEMMA LayersAre ==
  ASSUME NEW f, NEW len
  PROVE  /\ NttLayer(f, len) =
              [i \in Index |-> IF LowHalf(i, len)
                               THEN Add(f[i], Mul(f[i + len], NttZeta(i, len)))
                               ELSE Sub(f[i - len], Mul(f[i], NttZeta(i, len)))]
         /\ InttLayer(f, len) =
              [i \in Index |-> IF LowHalf(i, len)
                               THEN Add(f[i], f[i + len])
                               ELSE Mul(Sub(f[i - len], f[i]), InttZeta(i, len))]
<1>1. NttLayer(f, len) =
        [i \in Index |-> IF LowHalf(i, len)
                         THEN Add(f[i], Mul(f[i + len], NttZeta(i, len)))
                         ELSE Sub(f[i - len], Mul(f[i], NttZeta(i, len)))]
  BY EvaluatedIs DEF NttLayer, Coeffs
<1>2. InttLayer(f, len) =
        [i \in Index |-> IF LowHalf(i, len)
                         THEN Add(f[i], f[i + len])
                         ELSE Mul(Sub(f[i - len], f[i]), InttZeta(i, len))]
  BY EvaluatedIs DEF InttLayer, Coeffs
<1> QED BY <1>1, <1>2

(* Sums of sums and of products. *)
LEMMA Add4 ==
  ASSUME MlDsaRingAssumption, NEW a \in Field, NEW b \in Field, NEW c \in Field, NEW d \in Field
  PROVE  /\ Add(Add(a, b), Add(c, d)) = Add(Add(a, c), Add(b, d))
         /\ Sub(Add(a, b), Add(c, d)) = Add(Sub(a, c), Sub(b, d))
<1>1. /\ Q \in Int /\ Q > 1 /\ a \in Int /\ b \in Int /\ c \in Int /\ d \in Int
      /\ 0 <= a /\ a < Q /\ 0 <= b /\ b < Q /\ 0 <= c /\ c < Q /\ 0 <= d /\ d < Q
  BY FieldInt
<1> QED BY <1>1, SMT DEF Add, Sub, Lift

LEMMA MulSums ==
  ASSUME MlDsaRingAssumption, NEW a \in Field, NEW b \in Field, NEW z \in Field
  PROVE  /\ Mul(Add(a, b), z) = Add(Mul(a, z), Mul(b, z))
         /\ Mul(Sub(a, b), z) = Sub(Mul(a, z), Mul(b, z))
<1>1. Add(a, b) \in Field /\ Sub(a, b) \in Field
  BY AddIn, SubIn
<1>2. Mul(Add(a, b), z) = Mul(z, Add(a, b)) /\ Mul(Sub(a, b), z) = Mul(z, Sub(a, b))
  BY <1>1, MulComm
<1>3. Mul(z, a) = Mul(a, z) /\ Mul(z, b) = Mul(b, z)
  BY MulComm
<1> QED BY <1>2, <1>3, MulAdd, MulSub

(* Layers are linear. *)
LEMMA NttLayerLinear ==
  ASSUME MlDsaRingAssumption, NEW len \in Layers, NEW f \in Polys, NEW g \in Polys,
         NEW a \in Field
  PROVE  /\ NttLayer(PolyAdd(f, g), len) = PolyAdd(NttLayer(f, len), NttLayer(g, len))
         /\ NttLayer(ScaleBy(a, f), len) = ScaleBy(a, NttLayer(f, len))
<1> DEFINE F == NttLayer(f, len)
           G == NttLayer(g, len)
           s == PolyAdd(f, g)
           t == ScaleBy(a, f)
<1>1. F \in Polys /\ G \in Polys /\ s \in Polys /\ t \in Polys
  BY NttLayerIn, PolyOps, ScaleIn
<1>2. NttLayer(s, len) \in Polys /\ NttLayer(t, len) \in Polys
  <2> HIDE DEF s, t
  <2> QED BY <1>1, NttLayerIn
<1>3. PolyAdd(F, G) \in Polys /\ ScaleBy(a, F) \in Polys
  <2> HIDE DEF F, G
  <2> QED BY <1>1, PolyOps, ScaleIn
<1>4. ASSUME NEW i \in Index
      PROVE  /\ NttLayer(s, len)[i] = PolyAdd(F, G)[i]
             /\ NttLayer(t, len)[i] = ScaleBy(a, F)[i]
  <2> DEFINE z == NttZeta(i, len)
  <2>1. /\ PolyAdd(F, G)[i] = Add(F[i], G[i]) /\ ScaleBy(a, F)[i] = Mul(a, F[i])
        /\ \A j \in Index : s[j] = Add(f[j], g[j]) /\ t[j] = Mul(a, f[j])
                            /\ f[j] \in Field /\ g[j] \in Field
    BY PolyIs DEF ScaleBy, Polys
  <2>2. z \in Field
    BY Places
  <2> HIDE DEF z, s, t, F, G
  <2>3. CASE LowHalf(i, len)
    <3> DEFINE j == i + len
               x == Mul(f[j], z)
               y == Mul(g[j], z)
    <3>1. j \in Index
      BY <2>3, Places
    <3>2. /\ F[i] = Add(f[i], x) /\ G[i] = Add(g[i], y)
          /\ NttLayer(s, len)[i] = Add(s[i], Mul(s[j], z))
          /\ NttLayer(t, len)[i] = Add(t[i], Mul(t[j], z))
      BY <2>3, LayersAre DEF F, G, z
    <3> HIDE DEF j
    <3>3. x \in Field /\ y \in Field
      BY <2>1, <2>2, <3>1, MulIn
    <3>4. Mul(s[j], z) = Add(x, y)
      BY <2>1, <2>2, <3>1, MulSums
    <3>5. Mul(t[j], z) = Mul(a, x)
      BY <2>1, <2>2, <3>1, MulAssoc
    <3> HIDE DEF x, y
    <3>6. Add(Add(f[i], g[i]), Add(x, y)) = Add(Add(f[i], x), Add(g[i], y))
      BY <2>1, <3>3, Add4
    <3>7. Mul(a, Add(f[i], x)) = Add(Mul(a, f[i]), Mul(a, x))
      BY <2>1, <3>3, MulAdd
    <3> QED BY <2>1, <3>2, <3>4, <3>5, <3>6, <3>7
  <2>4. CASE ~ LowHalf(i, len)
    <3> DEFINE j == i - len
               x == Mul(f[i], z)
               y == Mul(g[i], z)
    <3>1. j \in Index
      BY <2>4, Places
    <3>2. /\ F[i] = Sub(f[j], x) /\ G[i] = Sub(g[j], y)
          /\ NttLayer(s, len)[i] = Sub(s[j], Mul(s[i], z))
          /\ NttLayer(t, len)[i] = Sub(t[j], Mul(t[i], z))
      BY <2>4, LayersAre DEF F, G, z
    <3> HIDE DEF j
    <3>3. x \in Field /\ y \in Field
      BY <2>1, <2>2, MulIn
    <3>4. Mul(s[i], z) = Add(x, y)
      BY <2>1, <2>2, MulSums
    <3>5. Mul(t[i], z) = Mul(a, x)
      BY <2>1, <2>2, MulAssoc
    <3> HIDE DEF x, y
    <3>6. Sub(Add(f[j], g[j]), Add(x, y)) = Add(Sub(f[j], x), Sub(g[j], y))
      BY <2>1, <3>1, <3>3, Add4
    <3>7. Mul(a, Sub(f[j], x)) = Sub(Mul(a, f[j]), Mul(a, x))
      BY <2>1, <3>1, <3>3, MulSub
    <3> QED BY <2>1, <3>1, <3>2, <3>4, <3>5, <3>6, <3>7
  <2> QED BY <2>3, <2>4
<1> HIDE DEF F, G, s, t
<1>5. NttLayer(s, len) = PolyAdd(F, G)
  BY <1>2, <1>3, <1>4, SamePoly
<1>6. NttLayer(t, len) = ScaleBy(a, F)
  BY <1>2, <1>3, <1>4, SamePoly
<1> QED BY <1>5, <1>6 DEF F, G, s, t

LEMMA InttLayerLinear ==
  ASSUME MlDsaRingAssumption, NEW len \in Layers, NEW f \in Polys, NEW g \in Polys,
         NEW a \in Field
  PROVE  /\ InttLayer(PolyAdd(f, g), len) = PolyAdd(InttLayer(f, len), InttLayer(g, len))
         /\ InttLayer(ScaleBy(a, f), len) = ScaleBy(a, InttLayer(f, len))
<1> DEFINE F == InttLayer(f, len)
           G == InttLayer(g, len)
           s == PolyAdd(f, g)
           t == ScaleBy(a, f)
<1>1. F \in Polys /\ G \in Polys /\ s \in Polys /\ t \in Polys
  BY InttLayerIn, PolyOps, ScaleIn
<1>2. InttLayer(s, len) \in Polys /\ InttLayer(t, len) \in Polys
  <2> HIDE DEF s, t
  <2> QED BY <1>1, InttLayerIn
<1>3. PolyAdd(F, G) \in Polys /\ ScaleBy(a, F) \in Polys
  <2> HIDE DEF F, G
  <2> QED BY <1>1, PolyOps, ScaleIn
<1>4. ASSUME NEW i \in Index
      PROVE  /\ InttLayer(s, len)[i] = PolyAdd(F, G)[i]
             /\ InttLayer(t, len)[i] = ScaleBy(a, F)[i]
  <2> DEFINE z == InttZeta(i, len)
  <2>1. /\ PolyAdd(F, G)[i] = Add(F[i], G[i]) /\ ScaleBy(a, F)[i] = Mul(a, F[i])
        /\ \A j \in Index : s[j] = Add(f[j], g[j]) /\ t[j] = Mul(a, f[j])
                            /\ f[j] \in Field /\ g[j] \in Field
    BY PolyIs DEF ScaleBy, Polys
  <2>2. z \in Field
    BY Places
  <2> HIDE DEF z, s, t, F, G
  <2>3. CASE LowHalf(i, len)
    <3> DEFINE j == i + len
    <3>1. j \in Index
      BY <2>3, Places
    <3>2. /\ F[i] = Add(f[i], f[j]) /\ G[i] = Add(g[i], g[j])
          /\ InttLayer(s, len)[i] = Add(s[i], s[j])
          /\ InttLayer(t, len)[i] = Add(t[i], t[j])
      BY <2>3, LayersAre DEF F, G
    <3> HIDE DEF j
    <3>6. Add(Add(f[i], g[i]), Add(f[j], g[j])) = Add(Add(f[i], f[j]), Add(g[i], g[j]))
      BY <2>1, <3>1, Add4
    <3>7. Mul(a, Add(f[i], f[j])) = Add(Mul(a, f[i]), Mul(a, f[j]))
      BY <2>1, <3>1, MulAdd
    <3> QED BY <2>1, <3>1, <3>2, <3>6, <3>7
  <2>4. CASE ~ LowHalf(i, len)
    <3> DEFINE j == i - len
               x == Sub(f[j], f[i])
               y == Sub(g[j], g[i])
    <3>1. j \in Index
      BY <2>4, Places
    <3>2. /\ F[i] = Mul(x, z) /\ G[i] = Mul(y, z)
          /\ InttLayer(s, len)[i] = Mul(Sub(s[j], s[i]), z)
          /\ InttLayer(t, len)[i] = Mul(Sub(t[j], t[i]), z)
      BY <2>4, LayersAre DEF F, G, z
    <3> HIDE DEF j
    <3>3. x \in Field /\ y \in Field
      BY <2>1, <3>1, SubIn
    <3>4. Sub(s[j], s[i]) = Add(x, y)
      BY <2>1, <3>1, Add4
    <3>5. Sub(t[j], t[i]) = Mul(a, x)
      BY <2>1, <3>1, MulSub
    <3> HIDE DEF x, y
    <3>6. Mul(Add(x, y), z) = Add(Mul(x, z), Mul(y, z))
      BY <2>2, <3>3, MulSums
    <3>7. Mul(Mul(a, x), z) = Mul(a, Mul(x, z))
      BY <2>2, <3>3, MulAssoc
    <3> QED BY <2>1, <3>2, <3>4, <3>5, <3>6, <3>7
  <2> QED BY <2>3, <2>4
<1> HIDE DEF F, G, s, t
<1>5. InttLayer(s, len) = PolyAdd(F, G)
  BY <1>2, <1>3, <1>4, SamePoly
<1>6. InttLayer(t, len) = ScaleBy(a, F)
  BY <1>2, <1>3, <1>4, SamePoly
<1> QED BY <1>5, <1>6 DEF F, G, s, t

(* The transforms are linear. *)
LEMMA NttLinear ==
  ASSUME MlDsaRingAssumption, NEW f \in Polys, NEW g \in Polys, NEW a \in Field
  PROVE  /\ ntt(PolyAdd(f, g)) = PolyAdd(ntt(f), ntt(g))
         /\ ntt(ScaleBy(a, f)) = ScaleBy(a, ntt(f))
<1> DEFINE n == Len(Lens)
           s == PolyAdd(f, g)
           t == ScaleBy(a, f)
<1>1. n \in Nat /\ \A i \in 1 .. n : Lens[i] \in Layers
  BY Ring, SMT
<1>2. s \in Polys /\ t \in Polys
  BY PolyOps, ScaleIn
<1> HIDE DEF s, t
<1>3. PICK rf : /\ Runs(rf, n, Polys, f) /\ ntt(f) = rf[n]
                /\ \A k \in 0 .. n - 1 : rf[k + 1] = NttLayer(rf[k], Lens[n - k])
  BY NttRun
<1>4. PICK rg : /\ Runs(rg, n, Polys, g) /\ ntt(g) = rg[n]
                /\ \A k \in 0 .. n - 1 : rg[k + 1] = NttLayer(rg[k], Lens[n - k])
  BY NttRun
<1>5. PICK rs : /\ Runs(rs, n, Polys, s) /\ ntt(s) = rs[n]
                /\ \A k \in 0 .. n - 1 : rs[k + 1] = NttLayer(rs[k], Lens[n - k])
  BY <1>2, NttRun
<1>6. PICK rt : /\ Runs(rt, n, Polys, t) /\ ntt(t) = rt[n]
                /\ \A k \in 0 .. n - 1 : rt[k + 1] = NttLayer(rt[k], Lens[n - k])
  BY <1>2, NttRun
<1> DEFINE S == {k \in 0 .. n : rs[k] = PolyAdd(rf[k], rg[k]) /\ rt[k] = ScaleBy(a, rf[k])}
<1>7. 0 \in S
  <2>1. 0 \in 0 .. n
    BY <1>1, SMT
  <2> QED BY <1>3, <1>4, <1>5, <1>6, <2>1 DEF Runs, s, t
<1>8. ASSUME NEW k \in 0 .. n - 1, k \in S PROVE k + 1 \in S
  <2>1. k \in 0 .. n /\ k + 1 \in 0 .. n /\ n - k \in 1 .. n
    BY <1>1, SMT
  <2>2. rf[k] \in Polys /\ rg[k] \in Polys /\ Lens[n - k] \in Layers
    BY <1>1, <1>3, <1>4, <2>1 DEF Runs
  <2>3. /\ rf[k + 1] = NttLayer(rf[k], Lens[n - k])
        /\ rg[k + 1] = NttLayer(rg[k], Lens[n - k])
        /\ rs[k + 1] = NttLayer(rs[k], Lens[n - k])
        /\ rt[k + 1] = NttLayer(rt[k], Lens[n - k])
    BY <1>3, <1>4, <1>5, <1>6
  <2>4. rs[k] = PolyAdd(rf[k], rg[k]) /\ rt[k] = ScaleBy(a, rf[k])
    BY <1>8
  <2> QED BY <2>1, <2>2, <2>3, <2>4, NttLayerLinear
<1>9. n \in S
  <2>1. n \in 0 .. n
    BY <1>1, SMT
  <2> HIDE DEF S, n
  <2> QED BY <1>1, <1>7, <1>8, <2>1, UptoInduction
<1> QED BY <1>3, <1>4, <1>5, <1>6, <1>9 DEF s, t

LEMMA InttLinear ==
  ASSUME MlDsaRingAssumption, NEW f \in Polys, NEW g \in Polys, NEW a \in Field
  PROVE  /\ intt(PolyAdd(f, g)) = PolyAdd(intt(f), intt(g))
         /\ intt(ScaleBy(a, f)) = ScaleBy(a, intt(f))
<1> DEFINE n == Len(Lens)
           s == PolyAdd(f, g)
           t == ScaleBy(a, f)
<1>1. n \in Nat /\ \A i \in 1 .. n : Lens[i] \in Layers
  BY Ring, SMT
<1>2. s \in Polys /\ t \in Polys
  BY PolyOps, ScaleIn
<1> HIDE DEF s, t
<1>3. PICK rf : /\ Runs(rf, n, Polys, f)
                /\ intt(f) = [i \in Index |-> Mul(rf[n][i], INV_N_MONT)]
                /\ \A k \in 0 .. n - 1 : rf[k + 1] = InttLayer(rf[k], Lens[k + 1])
  BY InttRun
<1>4. PICK rg : /\ Runs(rg, n, Polys, g)
                /\ intt(g) = [i \in Index |-> Mul(rg[n][i], INV_N_MONT)]
                /\ \A k \in 0 .. n - 1 : rg[k + 1] = InttLayer(rg[k], Lens[k + 1])
  BY InttRun
<1>5. PICK rs : /\ Runs(rs, n, Polys, s)
                /\ intt(s) = [i \in Index |-> Mul(rs[n][i], INV_N_MONT)]
                /\ \A k \in 0 .. n - 1 : rs[k + 1] = InttLayer(rs[k], Lens[k + 1])
  BY <1>2, InttRun
<1>6. PICK rt : /\ Runs(rt, n, Polys, t)
                /\ intt(t) = [i \in Index |-> Mul(rt[n][i], INV_N_MONT)]
                /\ \A k \in 0 .. n - 1 : rt[k + 1] = InttLayer(rt[k], Lens[k + 1])
  BY <1>2, InttRun
<1> DEFINE S == {k \in 0 .. n : rs[k] = PolyAdd(rf[k], rg[k]) /\ rt[k] = ScaleBy(a, rf[k])}
<1>7. 0 \in S
  <2>1. 0 \in 0 .. n
    BY <1>1, SMT
  <2> QED BY <1>3, <1>4, <1>5, <1>6, <2>1 DEF Runs, s, t
<1>8. ASSUME NEW k \in 0 .. n - 1, k \in S PROVE k + 1 \in S
  <2>1. k \in 0 .. n /\ k + 1 \in 0 .. n /\ k + 1 \in 1 .. n
    BY <1>1, SMT
  <2>2. rf[k] \in Polys /\ rg[k] \in Polys /\ Lens[k + 1] \in Layers
    BY <1>1, <1>3, <1>4, <2>1 DEF Runs
  <2>3. /\ rf[k + 1] = InttLayer(rf[k], Lens[k + 1])
        /\ rg[k + 1] = InttLayer(rg[k], Lens[k + 1])
        /\ rs[k + 1] = InttLayer(rs[k], Lens[k + 1])
        /\ rt[k + 1] = InttLayer(rt[k], Lens[k + 1])
    BY <1>3, <1>4, <1>5, <1>6
  <2>4. rs[k] = PolyAdd(rf[k], rg[k]) /\ rt[k] = ScaleBy(a, rf[k])
    BY <1>8
  <2> QED BY <2>1, <2>2, <2>3, <2>4, InttLayerLinear
<1>9. n \in S
  <2>1. n \in 0 .. n
    BY <1>1, SMT
  <2> HIDE DEF S, n
  <2> QED BY <1>1, <1>7, <1>8, <2>1, UptoInduction
<1> DEFINE F == rf[n]
           G == rg[n]
<1>10. F \in Polys /\ G \in Polys
  <2>1. n \in 0 .. n
    BY <1>1, SMT
  <2> QED BY <1>3, <1>4, <2>1 DEF Runs
<1>11. rs[n] = PolyAdd(F, G) /\ rt[n] = ScaleBy(a, F)
  BY <1>9
<1>12. /\ intt(f) \in Polys /\ intt(g) \in Polys /\ intt(s) \in Polys /\ intt(t) \in Polys
  BY <1>2, Transforms
<1> DEFINE z == INV_N_MONT
<1>13. z \in Field
  BY Ring
<1> HIDE DEF F, G, z
<1>14. ASSUME NEW i \in Index
       PROVE  /\ intt(s)[i] = PolyAdd(intt(f), intt(g))[i]
              /\ intt(t)[i] = ScaleBy(a, intt(f))[i]
  <2>1. F[i] \in Field /\ G[i] \in Field
    BY <1>10 DEF Polys
  <2>2. /\ intt(f)[i] = Mul(F[i], z) /\ intt(g)[i] = Mul(G[i], z)
        /\ intt(s)[i] = Mul(PolyAdd(F, G)[i], z) /\ intt(t)[i] = Mul(ScaleBy(a, F)[i], z)
    BY <1>3, <1>4, <1>5, <1>6, <1>11 DEF F, G, z
  <2>3. /\ PolyAdd(F, G)[i] = Add(F[i], G[i]) /\ ScaleBy(a, F)[i] = Mul(a, F[i])
        /\ PolyAdd(intt(f), intt(g))[i] = Add(intt(f)[i], intt(g)[i])
        /\ ScaleBy(a, intt(f))[i] = Mul(a, intt(f)[i])
    BY PolyIs DEF ScaleBy
  <2>4. Mul(Add(F[i], G[i]), z) = Add(Mul(F[i], z), Mul(G[i], z))
    BY <1>13, <2>1, MulSums
  <2>5. Mul(Mul(a, F[i]), z) = Mul(a, Mul(F[i], z))
    BY <1>13, <2>1, MulAssoc
  <2> QED BY <2>2, <2>3, <2>4, <2>5
<1>15. PolyAdd(intt(f), intt(g)) \in Polys /\ ScaleBy(a, intt(f)) \in Polys
  BY <1>12, PolyOps, ScaleIn
<1>16. intt(s) = PolyAdd(intt(f), intt(g))
  BY <1>12, <1>14, <1>15, SamePoly
<1>17. intt(t) = ScaleBy(a, intt(f))
  BY <1>12, <1>14, <1>15, SamePoly
<1> QED BY <1>16, <1>17 DEF s, t

-----------------------------------------------------------------------------
(* What a transform does, the other one undoes, but for a factor of its    *)
(* own.                                                                    *)

(* The quotient and the remainder of a multiple and less than the divisor. *)
LEMMA DivIs ==
  ASSUME NEW m \in Nat, m > 0, NEW q \in Int, NEW r \in 0 .. m - 1, NEW x \in Int,
         x = m * q + r
  PROVE  x \div m = q /\ (x % m) = r
<1> DEFINE d == x \div m
           e == x % m
<1>1. d \in Int /\ e \in 0 .. m - 1 /\ m * q + r = m * d + e
  BY DivMod
<1> HIDE DEF d, e
<1>2. r \in Int /\ 0 <= r /\ r < m /\ e \in Int /\ 0 <= e /\ e < m
  BY <1>1, SMT
<1>3. CASE d < q
  <2>1. m * (d + 1) <= m * q
    BY <1>1, <1>3, Times2
  <2>2. m * (d + 1) = m * d + m /\ m * d \in Int /\ m * q \in Int
    BY <1>1, SMT
  <2> QED BY <1>1, <1>2, <2>1, <2>2, SMT
<1>4. CASE q < d
  <2>1. m * (q + 1) <= m * d
    BY <1>1, <1>4, Times2
  <2>2. m * (q + 1) = m * q + m /\ m * d \in Int /\ m * q \in Int
    BY <1>1, SMT
  <2> QED BY <1>1, <1>2, <2>1, <2>2, SMT
<1>5. d = q
  BY <1>1, <1>3, <1>4, SMT
<1>6. e = r
  <2>1. m * q \in Int
    BY SMT
  <2> QED BY <1>1, <1>2, <1>5, <2>1, SMT
<1> QED BY <1>5, <1>6 DEF d, e

(* The two halves of a block take the same zetas. *)
LEMMA Twins ==
  ASSUME MlDsaRingAssumption, NEW len \in Layers, NEW i \in Index
  PROVE  /\ LowHalf(i, len) =>
              /\ i + len \in Index /\ ~ LowHalf(i + len, len) /\ (i + len) - len = i
              /\ NttZeta(i + len, len) = NttZeta(i, len)
              /\ InttZeta(i + len, len) = InttZeta(i, len)
         /\ ~ LowHalf(i, len) =>
              /\ i - len \in Index /\ LowHalf(i - len, len) /\ (i - len) + len = i
              /\ NttZeta(i - len, len) = NttZeta(i, len)
              /\ InttZeta(i - len, len) = InttZeta(i, len)
<1> DEFINE b == 2 * len
           q == i \div b
           r == i % b
<1>1. len \in Nat /\ len > 0 /\ b \in Nat /\ b > 0 /\ b = 2 * len /\ i \in Int
  BY SMT DEF Layers, Index
<1> HIDE DEF b
<1>2. q \in Int /\ r \in 0 .. b - 1 /\ i = b * q + r
  BY <1>1, DivMod
<1> HIDE DEF q, r
<1>3. b * q \in Int
  BY <1>1, <1>2, SMT
<1>4. CASE r < len
  <2> DEFINE j == i + len
             s == r + len
  <2>1. j \in Int /\ s \in 0 .. b - 1 /\ j = b * q + s /\ j - len = i /\ ~ (s < len)
    BY <1>1, <1>2, <1>3, <1>4, SMT
  <2> HIDE DEF j, s
  <2>2. j \div b = q /\ (j % b) = s
    <3>1. b \in Nat /\ b > 0 /\ q \in Int /\ s \in 0 .. b - 1 /\ j \in Int /\ j = b * q + s
      BY <1>1, <1>2, <2>1
    <3> QED BY ONLY <3>1, DivIs
  <2>3. LowHalf(i, len) /\ ~ LowHalf(j, len)
    BY <1>4, <2>1, <2>2 DEF LowHalf, b, r
  <2>4. NttZeta(j, len) = NttZeta(i, len) /\ InttZeta(j, len) = InttZeta(i, len)
    BY <2>2 DEF NttZeta, InttZeta, b, q
  <2>5. j \in Index
    BY <2>3, Places DEF j
  <2> QED BY <2>1, <2>3, <2>4, <2>5 DEF j
<1>5. CASE ~ (r < len)
  <2> DEFINE j == i - len
             s == r - len
  <2>1. j \in Int /\ s \in 0 .. b - 1 /\ j = b * q + s /\ j + len = i /\ s < len
    BY <1>1, <1>2, <1>3, <1>5, SMT
  <2> HIDE DEF j, s
  <2>2. j \div b = q /\ (j % b) = s
    <3>1. b \in Nat /\ b > 0 /\ q \in Int /\ s \in 0 .. b - 1 /\ j \in Int /\ j = b * q + s
      BY <1>1, <1>2, <2>1
    <3> QED BY ONLY <3>1, DivIs
  <2>3. ~ LowHalf(i, len) /\ LowHalf(j, len)
    BY <1>5, <2>1, <2>2 DEF LowHalf, b, r
  <2>4. NttZeta(j, len) = NttZeta(i, len) /\ InttZeta(j, len) = InttZeta(i, len)
    BY <2>2 DEF NttZeta, InttZeta, b, q
  <2>5. j \in Index
    BY <2>3, Places DEF j
  <2> QED BY <2>1, <2>3, <2>4, <2>5 DEF j
<1> QED BY <1>4, <1>5

(* The zetas of a layer on the two ways cancel. *)
LEMMA ZetasCancel ==
  ASSUME MlDsaRingAssumption, NEW k \in 1 .. Len(Lens), NEW i \in Index
  PROVE  /\ Mul(NttZeta(i, Lens[k]), InttZeta(i, Lens[k])) = One
         /\ Mul(NttZeta(i, Lens[k]), NttZeta(i, Lens[k])) = Root(i, 2 * Lens[k])
BY DEF MlDsaRingAssumption, ZetasAreRoots

(* A sum and a difference make up twice a number. *)
LEMMA Halves ==
  ASSUME MlDsaRingAssumption, NEW a \in Field, NEW b \in Field
  PROVE  /\ Add(Add(a, b), Sub(a, b)) = Add(a, a)
         /\ Sub(Add(a, b), Sub(a, b)) = Add(b, b)
<1>1. /\ Q \in Int /\ Q > 1 /\ a \in Int /\ b \in Int
      /\ 0 <= a /\ a < Q /\ 0 <= b /\ b < Q
  BY FieldInt
<1> QED BY <1>1, SMT DEF Add, Sub, Lift

(* A layer and back is twice the polynomial, either way round. *)
LEMMA LayerInverts ==
  ASSUME MlDsaRingAssumption, NEW k \in 1 .. Len(Lens), NEW f \in Polys
  PROVE  /\ InttLayer(NttLayer(f, Lens[k]), Lens[k]) = PolyAdd(f, f)
         /\ NttLayer(InttLayer(f, Lens[k]), Lens[k]) = PolyAdd(f, f)
<1> DEFINE len == Lens[k]
           F == NttLayer(f, len)
           G == InttLayer(f, len)
<1>1. len \in Layers
  BY Ring, SMT
<1>2. \A i \in Index : Mul(NttZeta(i, len), InttZeta(i, len)) = One
  BY ZetasCancel
<1>3. F \in Polys /\ G \in Polys
  <2> HIDE DEF len
  <2> QED BY <1>1, NttLayerIn, InttLayerIn
<1> HIDE DEF len
<1>4. InttLayer(F, len) \in Polys /\ NttLayer(G, len) \in Polys /\ PolyAdd(f, f) \in Polys
  <2> HIDE DEF F, G
  <2> QED BY <1>1, <1>3, NttLayerIn, InttLayerIn, PolyOps
<1>5. ASSUME NEW i \in Index
      PROVE  /\ InttLayer(F, len)[i] = Add(f[i], f[i])
             /\ NttLayer(G, len)[i] = Add(f[i], f[i])
  <2> DEFINE z == NttZeta(i, len)
             y == InttZeta(i, len)
  <2>1. z \in Field /\ y \in Field
    BY <1>1, Places
  <2>2. Mul(z, y) = One
    BY <1>2
  <2>3. Mul(y, z) = One
    <3> HIDE DEF y, z
    <3> QED BY <2>1, <2>2, MulComm
  <2>4. \A j \in Index : f[j] \in Field
    BY DEF Polys
  <2>5. CASE LowHalf(i, len)
    <3> DEFINE j == i + len
               x == f[i]
               u == f[j]
               v == Mul(u, z)
               w == Sub(x, u)
    <3>1. /\ j \in Index /\ ~ LowHalf(j, len) /\ j - len = i
          /\ NttZeta(j, len) = z /\ InttZeta(j, len) = y
      BY <1>1, <2>5, Twins
    <3>2. F[i] = Add(x, v) /\ G[i] = Add(x, u)
      BY <2>5, LayersAre
    <3>3. /\ InttLayer(F, len)[i] = Add(F[i], F[j])
          /\ NttLayer(G, len)[i] = Add(G[i], Mul(G[j], z))
      <4> HIDE DEF F, G
      <4> QED BY <2>5, LayersAre
    <3>4. F[j] = Sub(x, v) /\ G[j] = Mul(w, y)
      <4> HIDE DEF j, z, y
      <4> QED BY <3>1, LayersAre
    <3> HIDE DEF F, G, z, y, j
    <3>5. x \in Field /\ u \in Field
      BY <2>4, <3>1
    <3>6. v \in Field /\ w \in Field
      BY <2>1, <3>5, MulIn, SubIn
    <3>7. Add(Add(x, v), Sub(x, v)) = Add(x, x)
      <4> HIDE DEF x, v
      <4> QED BY <3>5, <3>6, Halves
    <3>8. Mul(Mul(w, y), z) = w
      <4> HIDE DEF w
      <4>1. Mul(Mul(w, y), z) = Mul(w, Mul(y, z))
        BY <2>1, <3>6, MulAssoc
      <4> QED BY <2>3, <3>6, <4>1, MulOne
    <3>9. Add(Add(x, u), Sub(x, u)) = Add(x, x)
      <4> HIDE DEF x, u
      <4> QED BY <3>5, Halves
    <3> QED BY <3>2, <3>3, <3>4, <3>7, <3>8, <3>9
  <2>6. CASE ~ LowHalf(i, len)
    <3> DEFINE j == i - len
               x == f[j]
               u == f[i]
               v == Mul(u, z)
               w == Sub(x, u)
    <3>1. /\ j \in Index /\ LowHalf(j, len) /\ j + len = i
          /\ NttZeta(j, len) = z /\ InttZeta(j, len) = y
      BY <1>1, <2>6, Twins
    <3>2. F[i] = Sub(x, v) /\ G[i] = Mul(w, y)
      BY <2>6, LayersAre
    <3>3. /\ InttLayer(F, len)[i] = Mul(Sub(F[j], F[i]), y)
          /\ NttLayer(G, len)[i] = Sub(G[j], Mul(G[i], z))
      <4> HIDE DEF F, G
      <4> QED BY <2>6, LayersAre
    <3>4. F[j] = Add(x, v) /\ G[j] = Add(x, u)
      <4> HIDE DEF j, z, y
      <4> QED BY <3>1, LayersAre
    <3> HIDE DEF F, G, z, y, j
    <3>5. x \in Field /\ u \in Field
      BY <2>4, <3>1
    <3>6. v \in Field /\ w \in Field
      BY <2>1, <3>5, MulIn, SubIn
    <3>7. Sub(Add(x, v), Sub(x, v)) = Add(v, v)
      <4> HIDE DEF x, v
      <4> QED BY <3>5, <3>6, Halves
    <3>8. Mul(Mul(w, y), z) = w
      <4> HIDE DEF w
      <4>1. Mul(Mul(w, y), z) = Mul(w, Mul(y, z))
        BY <2>1, <3>6, MulAssoc
      <4> QED BY <2>3, <3>6, <4>1, MulOne
    <3>9. Sub(Add(x, u), Sub(x, u)) = Add(u, u)
      <4> HIDE DEF x, u
      <4> QED BY <3>5, Halves
    <3>10. Mul(Add(v, v), y) = Add(u, u)
      <4>1. Mul(Mul(u, z), y) = u
        <5> HIDE DEF u
        <5>1. Mul(Mul(u, z), y) = Mul(u, Mul(z, y))
          BY <2>1, <3>5, MulAssoc
        <5> QED BY <2>2, <3>5, <5>1, MulOne
      <4>2. Mul(v, y) = u
        BY <4>1
      <4> HIDE DEF v, u
      <4> QED BY <2>1, <3>6, <4>2, MulSums
    <3> QED BY <3>2, <3>3, <3>4, <3>7, <3>8, <3>9, <3>10
  <2> QED BY <2>5, <2>6
<1>6. \A i \in Index : PolyAdd(f, f)[i] = Add(f[i], f[i])
  BY PolyIs
<1> HIDE DEF F, G
<1>7. InttLayer(F, len) = PolyAdd(f, f)
  BY <1>4, <1>5, <1>6, SamePoly
<1>8. NttLayer(G, len) = PolyAdd(f, f)
  BY <1>4, <1>5, <1>6, SamePoly
<1> QED BY <1>7, <1>8 DEF F, G, len

(* How many times a polynomial has been doubled, k layers on. *)
Size(k) == IF k = Len(Lens) THEN N ELSE Lens[k + 1]

LEMMA Sizes ==
  ASSUME MlDsaRingAssumption
  PROVE  /\ Len(Lens) \in Nat /\ Size(0) = 1 /\ Size(Len(Lens)) = N
         /\ \A k \in 0 .. Len(Lens) : Size(k) \in Nat
         /\ \A k \in 0 .. Len(Lens) - 1 : Size(k + 1) = 2 * Size(k)
<1> DEFINE n == Len(Lens)
<1>1. /\ n \in Nat /\ n > 0 /\ Lens[1] = 1 /\ 2 * Lens[n] = N /\ N \in Nat
      /\ \A j \in 1 .. n - 1 : Lens[j + 1] = 2 * Lens[j]
  <2>1. Lens \in Seq(Layers) /\ N \in Nat
    BY Ring
  <2>2. LensDouble
    BY DEF MlDsaRingAssumption
  <2> QED BY <2>1, <2>2 DEF LensDouble
<1>2. \A j \in 1 .. n : Lens[j] \in Nat
  BY Ring, SMT DEF Layers
<1> HIDE DEF n
<1>3. Size(0) = 1 /\ Size(n) = N
  BY <1>1, SMT DEF Size, n
<1>4. \A k \in 0 .. n : Size(k) \in Nat
  BY <1>1, <1>2, SMT DEF Size, n
<1>5. ASSUME NEW k \in 0 .. n - 1 PROVE Size(k + 1) = 2 * Size(k)
  <2> DEFINE j == k + 1
  <2>1. j \in 1 .. n /\ k # n /\ j - 1 = k
    BY <1>1, SMT
  <2>2. Size(k) = Lens[j]
    BY <2>1 DEF Size, n
  <2>3. Size(j) = 2 * Lens[j]
    <3>1. CASE j = n
      BY <1>1, <3>1 DEF Size, n
    <3>2. CASE j # n
      <4>1. j \in 1 .. n - 1
        BY <1>1, <2>1, <3>2, SMT
      <4> HIDE DEF j
      <4>2. Size(j) = Lens[j + 1]
        BY <3>2 DEF Size, n
      <4> QED BY <1>1, <4>1, <4>2
    <3> QED BY <3>1, <3>2
  <2> QED BY <2>2, <2>3
<1> QED BY <1>1, <1>3, <1>4, <1>5 DEF n

LEMMA Doubled ==
  ASSUME MlDsaRingAssumption, NEW p \in Field, NEW m \in Nat, Is(p, WORD * m)
  PROVE  Add(p, p) \in Field /\ Is(Add(p, p), WORD * (2 * m))
<1> DEFINE s == Add(p, p)
           e == WORD * m
           t == p + p
           u == e + e
<1>1. p \in Int /\ WORD \in Int
  BY FieldInt
<1>2. s \in Field
  BY AddIn
<1>3. s \in Int /\ e \in Int /\ t \in Int /\ u \in Int /\ u = WORD * (2 * m)
  <2>1. s \in Int
    BY <1>2, FieldInt
  <2> QED BY <1>1, <2>1, SMT
<1>4. Is(s, t)
  BY <1>1, AddIs
<1>5. Is(p, e)
  OBVIOUS
<1> HIDE DEF s, e
<1>6. Is(t, u)
  BY <1>1, <1>3, <1>5, IsPlus
<1> HIDE DEF t, u
<1>7. Is(s, u)
  BY <1>3, <1>4, <1>6, IsTrans
<1> QED BY <1>2, <1>3, <1>7 DEF s

LEMMA ScaleTwice ==
  ASSUME MlDsaRingAssumption, NEW p \in Field, NEW f \in Polys
  PROVE  ScaleBy(p, PolyAdd(f, f)) = ScaleBy(Add(p, p), f)
<1> DEFINE s == PolyAdd(f, f)
           q == Add(p, p)
<1>1. s \in Polys /\ q \in Field
  BY PolyOps, AddIn
<1>2. \A i \in Index : s[i] = Add(f[i], f[i])
  BY PolyIs
<1> HIDE DEF s
<1>3. ScaleBy(p, s) \in Polys /\ ScaleBy(q, f) \in Polys
  <2> HIDE DEF q
  <2> QED BY <1>1, ScaleIn
<1>4. ASSUME NEW i \in Index PROVE ScaleBy(p, s)[i] = ScaleBy(q, f)[i]
  <2>1. f[i] \in Field
    BY DEF Polys
  <2>2. Mul(p, Add(f[i], f[i])) = Add(Mul(p, f[i]), Mul(p, f[i]))
    BY <2>1, MulAdd
  <2>3. Mul(q, f[i]) = Add(Mul(p, f[i]), Mul(p, f[i]))
    BY <2>1, MulSums
  <2> QED BY <1>2, <2>2, <2>3 DEF ScaleBy
<1> HIDE DEF q
<1>5. ScaleBy(p, s) = ScaleBy(q, f)
  BY <1>3, <1>4, SamePoly
<1> QED BY <1>5 DEF s, q

LEMMA ScaleOne ==
  ASSUME MlDsaRingAssumption, NEW f \in Polys
  PROVE  One \in Field /\ ScaleBy(One, f) = f /\ Is(One, WORD * 1)
<1>1. 0 \in Field
  BY Ring, SMT DEF Field
<1>2. One \in Field
  BY <1>1, MulOne
<1>3. ScaleBy(One, f) \in Polys
  <2> HIDE DEF One
  <2> QED BY <1>2, ScaleIn
<1>4. \A i \in Index : ScaleBy(One, f)[i] = f[i]
  BY MulOne DEF ScaleBy, Polys
<1>5. ScaleBy(One, f) = f
  BY <1>3, <1>4, SamePoly
<1>6. WORD \in Int /\ WORD * 1 = WORD
  BY Ring, SMT
<1>7. Is(One, WORD)
  BY <1>6, IsMod DEF One
<1> QED BY <1>2, <1>5, <1>6, <1>7

(* The factor that Montgomery's products of N and its reciprocal make up.  *)
Square == (WORD * WORD) % Q

LEMMA BackFactor ==
  ASSUME MlDsaRingAssumption, NEW p \in Field, Is(p, WORD * N)
  PROVE  Mul(p, INV_N_MONT) = Square /\ Square \in Field
<1> DEFINE z == INV_N_MONT
           m == Mul(p, z)
           ww == WORD * WORD
<1>1. WORD \in Int /\ p \in Int /\ N \in Int /\ z \in Field /\ Q \in Nat
  BY FieldInt, Ring
<1>2. (z * N) % Q = ww % Q
  BY DEF MlDsaRingAssumption
<1>3. m \in Field
  BY <1>1, MulIn
<1> HIDE DEF z
<1>4. z \in Int
  BY <1>1, FieldInt
<1> DEFINE zn == z * N
           e == p * z
           wn == WORD * N
           g == wn * z
           h == WORD * ww
<1>5. zn \in Int /\ ww \in Int /\ e \in Int /\ wn \in Int /\ g \in Int /\ h \in Int
  BY <1>1, <1>4, SMT
<1>6. g = WORD * zn
  BY <1>1, <1>4, SMT
<1>7. Is(WORD * m, e)
  BY <1>1, <1>4, MulIs
<1>8. Square \in Field /\ Is(Square, ww)
  BY <1>5, IsMod DEF Square
<1>9. Is(zn, ww)
  <2> HIDE DEF zn, ww
  <2>1. Is(zn % Q, zn) /\ Is(ww % Q, ww) /\ zn % Q \in Field /\ ww % Q \in Field
    BY <1>5, IsMod
  <2> DEFINE a == zn % Q
             b == ww % Q
  <2>2. a = b
    BY <1>2 DEF zn
  <2>3. Is(a, zn) /\ Is(b, ww) /\ a \in Int
    BY <2>1, FieldInt
  <2> HIDE DEF a, b
  <2>4. Is(zn, a)
    BY <1>5, <2>3, IsSym
  <2> QED BY <1>5, <2>2, <2>3, <2>4, IsTrans
<1>10. Is(e, g)
  <2>1. Is(p, wn)
    OBVIOUS
  <2> HIDE DEF wn
  <2> QED BY <1>1, <1>4, <1>5, <2>1, IsTimes
<1>11. Is(g, h)
  <2> HIDE DEF zn, ww, g
  <2>1. Is(WORD * zn, WORD * ww)
    BY <1>1, <1>5, <1>9, IsTimes
  <2> QED BY <1>6, <2>1
<1> DEFINE s == WORD * Square
<1>12. Is(s, h)
  <2>1. Square \in Int
    BY <1>8, FieldInt
  <2> HIDE DEF ww
  <2> QED BY <1>1, <1>5, <1>8, <2>1, IsTimes
<1> DEFINE x == WORD * m
<1>13. x \in Int /\ s \in Int
  <2>1. m \in Int /\ Square \in Int
    BY <1>3, <1>8, FieldInt
  <2> HIDE DEF m
  <2> QED BY <1>1, <2>1, SMT
<1>14. Is(x, h)
  <2>1. Is(x, e)
    BY <1>7
  <2> HIDE DEF x, e, g, h
  <2>2. Is(x, g)
    BY <1>5, <1>10, <1>13, <2>1, IsTrans
  <2> QED BY <1>5, <1>11, <1>13, <2>2, IsTrans
<1>15. m = Square
  <2>1. Is(WORD * m, h) /\ Is(WORD * Square, h)
    BY <1>12, <1>14
  <2> HIDE DEF m, h
  <2> QED BY <1>3, <1>5, <1>8, <2>1, SameField
<1> QED BY <1>8, <1>15 DEF z

(* A polynomial that is a multiple of another, by as many words as 2 ^ k.  *)
Multiple(s, g, k) == \E p \in Field : s = ScaleBy(p, g) /\ Is(p, WORD * Size(k))

LEMMA MultipleStep ==
  ASSUME MlDsaRingAssumption, NEW k \in 0 .. Len(Lens) - 1, NEW j \in 1 .. Len(Lens),
         NEW s \in Polys, NEW g \in Polys, NEW h \in Polys, Multiple(s, g, k)
  PROVE  /\ g = NttLayer(h, Lens[j]) => Multiple(InttLayer(s, Lens[j]), h, k + 1)
         /\ g = InttLayer(h, Lens[j]) => Multiple(NttLayer(s, Lens[j]), h, k + 1)
<1>1. Lens[j] \in Layers /\ k \in 0 .. Len(Lens) /\ Len(Lens) \in Nat
  <2>1. Lens \in Seq(Layers)
    BY Ring
  <2> QED BY <2>1, SMT
<1>2. Size(k) \in Nat /\ Size(k + 1) = 2 * Size(k)
  BY <1>1, Sizes
<1>3. PICK p \in Field : s = ScaleBy(p, g) /\ Is(p, WORD * Size(k))
  BY DEF Multiple
<1> DEFINE q == Add(p, p)
           m == Size(k)
<1>4. q \in Field /\ Is(q, WORD * (2 * m))
  <2>1. m \in Nat /\ Is(p, WORD * m)
    BY <1>2, <1>3
  <2> HIDE DEF m
  <2> QED BY <2>1, Doubled
<1>5. Is(q, WORD * Size(k + 1))
  BY <1>2, <1>4
<1>6. ScaleBy(p, PolyAdd(h, h)) = ScaleBy(q, h)
  BY ScaleTwice
<1> HIDE DEF q
<1>7. ASSUME g = NttLayer(h, Lens[j]) PROVE Multiple(InttLayer(s, Lens[j]), h, k + 1)
  <2>1. InttLayer(s, Lens[j]) = ScaleBy(p, InttLayer(g, Lens[j]))
    BY <1>1, <1>3, InttLayerLinear
  <2>2. InttLayer(g, Lens[j]) = PolyAdd(h, h)
    BY <1>7, LayerInverts
  <2> QED BY <1>4, <1>5, <1>6, <2>1, <2>2 DEF Multiple
<1>8. ASSUME g = InttLayer(h, Lens[j]) PROVE Multiple(NttLayer(s, Lens[j]), h, k + 1)
  <2>1. NttLayer(s, Lens[j]) = ScaleBy(p, NttLayer(g, Lens[j]))
    BY <1>1, <1>3, NttLayerLinear
  <2>2. NttLayer(g, Lens[j]) = PolyAdd(h, h)
    BY <1>8, LayerInverts
  <2> QED BY <1>4, <1>5, <1>6, <2>1, <2>2 DEF Multiple
<1> QED BY <1>7, <1>8

LEMMA ScaleBoth ==
  ASSUME MlDsaRingAssumption, NEW p \in Field, NEW q \in Field, NEW f \in Polys
  PROVE  ScaleBy(q, ScaleBy(p, f)) = ScaleBy(Mul(p, q), f)
<1> DEFINE s == ScaleBy(p, f)
           m == Mul(p, q)
<1>1. s \in Polys /\ m \in Field /\ \A i \in Index : s[i] = Mul(p, f[i])
  BY ScaleIn, MulIn DEF ScaleBy
<1> HIDE DEF s
<1>2. ScaleBy(q, s) \in Polys /\ ScaleBy(m, f) \in Polys
  <2> HIDE DEF m
  <2> QED BY <1>1, ScaleIn
<1>3. ASSUME NEW i \in Index PROVE ScaleBy(q, s)[i] = ScaleBy(m, f)[i]
  <2>1. f[i] \in Field
    BY DEF Polys
  <2>2. Mul(Mul(q, p), f[i]) = Mul(q, Mul(p, f[i]))
    BY <2>1, MulAssoc
  <2>3. Mul(q, p) = Mul(p, q)
    BY MulComm
  <2> QED BY <1>1, <2>2, <2>3 DEF ScaleBy
<1>4. ScaleBy(q, s) = ScaleBy(m, f)
  <2> HIDE DEF m
  <2> QED BY <1>2, <1>3, SamePoly
<1> QED BY <1>4 DEF s, m

LEMMA MultipleEnd ==
  ASSUME MlDsaRingAssumption, NEW s, NEW f \in Polys, Multiple(s, f, Len(Lens))
  PROVE  ScaleBy(INV_N_MONT, s) = ScaleBy(Square, f)
<1>1. PICK p \in Field : s = ScaleBy(p, f) /\ Is(p, WORD * N)
  BY Sizes DEF Multiple
<1>2. Mul(p, INV_N_MONT) = Square
  BY <1>1, BackFactor
<1>3. INV_N_MONT \in Field
  BY Ring
<1> QED BY <1>1, <1>2, <1>3, ScaleBoth

(* There and back, and back and there, multiply by a word: they undo what  *)
(* a Montgomery product takes away.                                        *)
LEMMA ThereAndBack ==
  ASSUME MlDsaRingAssumption, NEW f \in Polys
  PROVE  intt(ntt(f)) = ScaleBy(Square, f)
<1> DEFINE n == Len(Lens)
           g == ntt(f)
<1>1. n \in Nat
  BY Sizes
<1>2. g \in Polys
  BY Transforms
<1> HIDE DEF g
<1>3. PICK r : /\ Runs(r, n, Polys, f) /\ ntt(f) = r[n]
               /\ \A k \in 0 .. n - 1 : r[k + 1] = NttLayer(r[k], Lens[n - k])
  BY NttRun
<1>4. PICK s : /\ Runs(s, n, Polys, g)
               /\ intt(g) = [i \in Index |-> Mul(s[n][i], INV_N_MONT)]
               /\ \A k \in 0 .. n - 1 : s[k + 1] = InttLayer(s[k], Lens[k + 1])
  BY <1>2, InttRun
<1> DEFINE S == {k \in 0 .. n : Multiple(s[k], r[n - k], k)}
<1>5. 0 \in S
  <2>1. 0 \in 0 .. n /\ n - 0 = n
    BY <1>1, SMT
  <2>2. s[0] = r[n] /\ s[0] = g
    BY <1>3, <1>4 DEF Runs, g
  <2>3. One \in Field /\ ScaleBy(One, g) = g /\ Is(One, WORD * 1)
    BY <1>2, ScaleOne
  <2>4. Size(0) = 1
    BY Sizes
  <2> HIDE DEF n
  <2>5. Multiple(g, g, 0)
    BY <2>3, <2>4 DEF Multiple
  <2> QED BY <2>1, <2>2, <2>5
<1>6. ASSUME NEW k \in 0 .. n - 1, k \in S PROVE k + 1 \in S
  <2> DEFINE j == n - (k + 1)
  <2>1. /\ k \in 0 .. n /\ n - k \in 0 .. n /\ j \in 0 .. n /\ j \in 0 .. n - 1
        /\ k + 1 \in 0 .. n /\ j + 1 = n - k /\ n - j = k + 1 /\ k + 1 \in 1 .. n
    BY <1>1, SMT
  <2> HIDE DEF j
  <2>2. s[k] \in Polys /\ r[n - k] \in Polys /\ r[j] \in Polys
    BY <1>3, <1>4, <2>1 DEF Runs
  <2>3. r[j + 1] = NttLayer(r[j], Lens[n - j])
    BY <1>3, <2>1
  <2>4. r[n - k] = NttLayer(r[j], Lens[k + 1])
    BY <2>1, <2>3
  <2>5. s[k + 1] = InttLayer(s[k], Lens[k + 1])
    BY <1>4
  <2>6. Multiple(s[k], r[n - k], k)
    BY <1>6
  <2> DEFINE l == k + 1
             G == r[n - k]
             H == r[j]
             T == s[k]
  <2>7. l \in 1 .. Len(Lens) /\ G = NttLayer(H, Lens[l]) /\ Multiple(T, G, k) /\ T \in Polys
        /\ G \in Polys /\ H \in Polys /\ k \in 0 .. Len(Lens) - 1
    BY <2>1, <2>2, <2>4, <2>6
  <2> HIDE DEF l, G, H, T
  <2>8. Multiple(InttLayer(T, Lens[l]), H, k + 1)
    BY ONLY <2>7, MlDsaRingAssumption, MultipleStep
  <2> QED BY <2>1, <2>5, <2>8 DEF j, l, H, T
<1>7. n \in S
  <2>1. n \in 0 .. n
    BY <1>1, SMT
  <2> HIDE DEF S, n
  <2> QED BY <1>1, <1>5, <1>6, <2>1, UptoInduction
<1>8. Multiple(s[n], f, n)
  <2>1. n - n = 0
    BY <1>1, SMT
  <2> QED BY <1>3, <1>7, <2>1 DEF Runs
<1>9. ScaleBy(INV_N_MONT, s[n]) = ScaleBy(Square, f)
  BY <1>8, MultipleEnd
<1>10. intt(g) = ScaleBy(INV_N_MONT, s[n])
  <2>1. INV_N_MONT \in Field
    BY Ring
  <2>2. s[n] \in Polys
    <3>1. n \in 0 .. n
      BY <1>1, SMT
    <3> QED BY <1>4, <3>1 DEF Runs
  <2> DEFINE F == s[n]
             z == INV_N_MONT
  <2>3. F \in Polys /\ z \in Field
    BY <2>1, <2>2
  <2>4. intt(g) = [i \in Index |-> Mul(F[i], z)]
    BY <1>4
  <2> HIDE DEF F, z
  <2>5. \A i \in Index : Mul(F[i], z) = Mul(z, F[i])
    BY <2>3, MulComm DEF Polys
  <2>6. intt(g) = ScaleBy(z, F)
    BY <2>4, <2>5 DEF ScaleBy
  <2> QED BY <2>6 DEF F, z
<1> QED BY <1>9, <1>10 DEF g

LEMMA BackAndThere ==
  ASSUME MlDsaRingAssumption, NEW f \in Polys
  PROVE  ntt(intt(f)) = ScaleBy(Square, f)
<1> DEFINE n == Len(Lens)
           z == INV_N_MONT
<1>1. n \in Nat /\ z \in Field
  BY Sizes, Ring
<1>2. PICK s : /\ Runs(s, n, Polys, f)
               /\ intt(f) = [i \in Index |-> Mul(s[n][i], z)]
               /\ \A k \in 0 .. n - 1 : s[k + 1] = InttLayer(s[k], Lens[k + 1])
  BY InttRun
<1> HIDE DEF z
<1> DEFINE g == s[n]
<1>3. g \in Polys
  <2>1. n \in 0 .. n
    BY <1>1, SMT
  <2> QED BY <1>2, <2>1 DEF Runs
<1>4. intt(f) = ScaleBy(z, g)
  <2> HIDE DEF g
  <2>1. \A i \in Index : Mul(g[i], z) = Mul(z, g[i])
    BY <1>1, <1>3, MulComm DEF Polys
  <2> QED BY <1>2, <2>1 DEF ScaleBy, g
<1>5. PICK r : /\ Runs(r, n, Polys, g) /\ ntt(g) = r[n]
               /\ \A k \in 0 .. n - 1 : r[k + 1] = NttLayer(r[k], Lens[n - k])
  <2> HIDE DEF g
  <2> QED BY <1>3, NttRun
<1> DEFINE S == {k \in 0 .. n : Multiple(r[k], s[n - k], k)}
<1>6. 0 \in S
  <2>1. 0 \in 0 .. n /\ n - 0 = n
    BY <1>1, SMT
  <2>2. r[0] = g
    BY <1>5 DEF Runs
  <2> HIDE DEF g
  <2>3. One \in Field /\ ScaleBy(One, g) = g /\ Is(One, WORD * 1)
    BY <1>3, ScaleOne
  <2>4. Size(0) = 1
    BY Sizes
  <2> HIDE DEF n
  <2>5. Multiple(g, g, 0)
    BY <2>3, <2>4 DEF Multiple
  <2> QED BY <2>1, <2>2, <2>5 DEF g
<1>7. ASSUME NEW k \in 0 .. n - 1, k \in S PROVE k + 1 \in S
  <2> DEFINE j == n - (k + 1)
  <2>1. /\ k \in 0 .. n /\ n - k \in 0 .. n /\ j \in 0 .. n /\ j \in 0 .. n - 1
        /\ k + 1 \in 0 .. n /\ j + 1 = n - k /\ n - k \in 1 .. n
    BY <1>1, SMT
  <2> HIDE DEF j, g
  <2>2. r[k] \in Polys /\ s[n - k] \in Polys /\ s[j] \in Polys
    BY <1>2, <1>5, <2>1 DEF Runs
  <2>3. s[j + 1] = InttLayer(s[j], Lens[j + 1])
    BY <1>2, <2>1
  <2>4. s[n - k] = InttLayer(s[j], Lens[n - k])
    BY <2>1, <2>3
  <2>5. r[k + 1] = NttLayer(r[k], Lens[n - k])
    BY <1>5
  <2>6. Multiple(r[k], s[n - k], k)
    BY <1>7
  <2> DEFINE l == n - k
             G == s[n - k]
             H == s[j]
             T == r[k]
  <2>7. l \in 1 .. Len(Lens) /\ G = InttLayer(H, Lens[l]) /\ Multiple(T, G, k) /\ T \in Polys
        /\ G \in Polys /\ H \in Polys /\ k \in 0 .. Len(Lens) - 1
    BY <2>1, <2>2, <2>4, <2>6
  <2> HIDE DEF l, G, H, T
  <2>8. Multiple(NttLayer(T, Lens[l]), H, k + 1)
    BY ONLY <2>7, MlDsaRingAssumption, MultipleStep
  <2> QED BY <2>1, <2>5, <2>8 DEF j, l, H, T
<1>8. n \in S
  <2>1. n \in 0 .. n
    BY <1>1, SMT
  <2> HIDE DEF S, n
  <2> QED BY <1>1, <1>6, <1>7, <2>1, UptoInduction
<1>9. Multiple(ntt(g), f, n)
  <2>1. n - n = 0
    BY <1>1, SMT
  <2> QED BY <1>2, <1>5, <1>8, <2>1 DEF Runs
<1> HIDE DEF g
<1>10. ScaleBy(z, ntt(g)) = ScaleBy(Square, f)
  BY <1>9, MultipleEnd DEF z
<1>11. ntt(ScaleBy(z, g)) = ScaleBy(z, ntt(g))
  BY <1>1, <1>3, NttLinear
<1> QED BY <1>4, <1>10, <1>11

-----------------------------------------------------------------------------
(* The transform of a product by X is a product by the roots of X ^ N + 1. *)

(* Another place of a block: its half, its zeta, its place in the halves. *)
PlaceOf(len, q, s) == (2 * len) * q + s

LEMMA SameBlock ==
  ASSUME MlDsaRingAssumption, NEW len \in Layers, NEW q \in Int,
         NEW r \in 0 .. 2 * len - 1, NEW i \in Index, i = PlaceOf(len, q, r),
         NEW s \in 0 .. 2 * len - 1, NEW j \in Int, j = PlaceOf(len, q, s)
  PROVE  /\ j \in Index /\ (j % (2 * len)) = s
         /\ LowHalf(j, len) <=> s < len
         /\ NttZeta(j, len) = NttZeta(i, len)
         /\ (j % len) = IF s < len THEN s ELSE s - len
<1> DEFINE b == 2 * len
           m == N \div b
<1>1. /\ len \in Nat /\ len > 0 /\ b \in Nat /\ b > 0 /\ b = 2 * len /\ i \in Int
      /\ N \in Nat /\ 0 <= i /\ i < N
  BY Ring, SMT DEF Layers, Index
<1>2. m \in Int /\ N = b * m
  <2>1. N % b = 0
    BY DEF Layers
  <2> QED BY <1>1, <2>1, DivMod
<1>3. r \in 0 .. b - 1 /\ s \in 0 .. b - 1 /\ i = b * q + r /\ j = b * q + s
  BY DEF PlaceOf
<1> HIDE DEF b
<1>4. i \div b = q /\ (i % b) = r
  BY <1>1, <1>3, DivIs
<1>5. j \div b = q /\ (j % b) = s
  BY <1>1, <1>3, DivIs
<1>6. (j % b) = s /\ (LowHalf(j, len) <=> s < len) /\ NttZeta(j, len) = NttZeta(i, len)
  BY <1>4, <1>5 DEF LowHalf, NttZeta, b
<1>7. j \in Index
  <2> HIDE DEF m
  <2>1. r \in Int /\ 0 <= r /\ r < b /\ s \in Int /\ 0 <= s /\ s < b /\ b * q \in Int
    BY <1>1, <1>3, SMT
  <2>2. q >= 0
    <3>1. SUFFICES ASSUME q <= -1 PROVE FALSE
      BY SMT
    <3>2. b * q <= b * (-1) /\ b * (-1) = -b
      BY <1>1, <3>1, Times2, SMT
    <3> QED BY <1>1, <1>3, <2>1, <3>2, SMT
  <2>3. q + 1 <= m
    <3>1. SUFFICES ASSUME m <= q PROVE FALSE
      BY <1>2, SMT
    <3>2. b * m <= b * q
      BY <1>1, <1>2, <3>1, Times2
    <3> QED BY <1>1, <1>2, <1>3, <2>1, <3>2, SMT
  <2>4. b * (q + 1) <= N /\ b * (q + 1) = b * q + b
    <3>1. b * (q + 1) <= b * m
      BY <1>1, <1>2, <2>3, Times2
    <3> QED BY <1>1, <1>2, <3>1, SMT
  <2>5. b * q >= 0
    BY <1>1, <2>2, SMT
  <2> QED BY <1>1, <1>3, <2>1, <2>4, <2>5, SMT DEF Index
<1>8. (j % len) = IF s < len THEN s ELSE s - len
  <2>1. s \in Int /\ 0 <= s /\ s < b
    BY <1>1, <1>3, SMT
  <2>2. CASE s < len
    <3> DEFINE p == 2 * q
    <3>1. p \in Int /\ s \in 0 .. len - 1 /\ j = len * p + s
      BY <1>1, <1>3, <2>1, <2>2, SMT
    <3> HIDE DEF p
    <3>2. (j % len) = s
      BY <1>1, <3>1, DivIs
    <3> QED BY <2>2, <3>2
  <2>3. CASE ~ (s < len)
    <3> DEFINE p == 2 * q + 1
               t == s - len
    <3>1. p \in Int /\ t \in 0 .. len - 1 /\ j = len * p + t
      BY <1>1, <1>3, <2>1, <2>3, SMT
    <3> HIDE DEF p, t
    <3>2. (j % len) = t
      <4>1. len \in Nat /\ len > 0 /\ p \in Int /\ t \in 0 .. len - 1 /\ j \in Int
            /\ j = len * p + t
        BY <1>1, <3>1
      <4> QED BY ONLY <4>1, DivIs
    <3> QED BY <2>3, <3>2 DEF t
  <2> QED BY <2>2, <2>3
<1> QED BY <1>6, <1>7, <1>8 DEF b

(* The product of X and the polynomials that the blocks of a size are.     *)
Turn(f, size) ==
  [i \in Index |-> IF i % size = 0 THEN Mul(Root(i, size), f[i + size - 1]) ELSE f[i - 1]]

(* z * (a + z * c) and -z * (a - z * c). *)
LEMMA TurnSums ==
  ASSUME MlDsaRingAssumption, NEW z \in Field, z > 0, NEW a \in Field, NEW c \in Field
  PROVE  /\ Q - z \in Field
         /\ Mul(z, Add(a, Mul(c, z))) = Add(Mul(Mul(z, z), c), Mul(a, z))
         /\ Mul(Q - z, Sub(a, Mul(c, z))) = Sub(Mul(Mul(z, z), c), Mul(a, z))
<1> DEFINE m == Mul(c, z)
           n == Q - z
           p == Mul(a, z)
           r == Mul(z, z)
           t == Mul(r, c)
<1>1. m \in Field /\ p \in Field /\ r \in Field
  BY MulIn
<1>2. n \in Field /\ n = Sub(0, z) /\ 0 \in Field
  <2>1. Q \in Int /\ Q > 1 /\ z \in Int /\ 0 <= z /\ z < Q
    BY FieldInt
  <2> QED BY <2>1, SMT DEF Field, Sub, Lift
<1>3. t \in Field /\ Mul(z, m) = t
  <2> HIDE DEF r
  <2>1. t \in Field
    BY <1>1, MulIn
  <2>2. Mul(c, z) = Mul(z, c)
    BY MulComm
  <2>3. Mul(Mul(z, z), c) = Mul(z, Mul(z, c))
    BY MulAssoc
  <2> QED BY <2>1, <2>2, <2>3 DEF r
<1>4. Mul(z, a) = p
  BY MulComm
<1> HIDE DEF m, p, r, n
<1>5. Mul(z, Add(a, m)) = Add(t, p)
  <2>1. Mul(z, Add(a, m)) = Add(Mul(z, a), Mul(z, m))
    BY <1>1, MulAdd
  <2> HIDE DEF t
  <2>2. Add(p, t) = Add(t, p)
    BY <1>1, <1>3, AddLaws
  <2> QED BY <1>3, <1>4, <2>1, <2>2
<1>6. Mul(n, Sub(a, m)) = Sub(t, p)
  <2> DEFINE d == Sub(a, m)
  <2>1. d \in Field /\ Mul(z, d) = Sub(p, t)
    <3>1. d \in Field
      BY <1>1, SubIn
    <3>2. Mul(z, d) = Sub(Mul(z, a), Mul(z, m))
      BY <1>1, MulSub
    <3> QED BY <1>3, <1>4, <3>1, <3>2
  <2> HIDE DEF d
  <2>2. Mul(n, d) = Sub(Mul(0, d), Mul(z, d))
    BY <1>2, <2>1, MulSums
  <2>3. Mul(0, d) = 0
    BY <2>1, MulOne
  <2> HIDE DEF t
  <2>4. Sub(0, Sub(p, t)) = Sub(t, p)
    <3>1. Sub(0, Sub(p, t)) = Add(Sub(0, p), t)
      BY <1>1, <1>2, <1>3, AddLaws
    <3>2. /\ Q \in Int /\ Q > 1 /\ p \in Int /\ t \in Int
          /\ 0 <= p /\ p < Q /\ 0 <= t /\ t < Q
      BY <1>1, <1>3, FieldInt
    <3> QED BY <3>1, <3>2, SMT DEF Add, Sub, Lift
  <2> QED BY <2>1, <2>2, <2>3, <2>4 DEF d
<1> QED BY <1>2, <1>5, <1>6 DEF m, n, p, r, t

LEMMA ZetaIs ==
  ASSUME MlDsaRingAssumption, NEW len \in Layers, NEW i \in Index
  PROVE  NttZeta(i, len) \in Field /\ NttZeta(i, len) > 0
<1> DEFINE k == (N \div (2 * len)) + (i \div (2 * len))
<1>1. len \in 1 .. N \div 2 /\ N % (2 * len) = 0 /\ N \in Nat /\ i \in 0 .. N - 1
  BY Ring DEF Layers, Index
<1>2. k \in Index
  BY <1>1, Blocks DEF Index
<1>3. NttZeta(i, len) = ZETAS[k]
  BY DEF NttZeta
<1> HIDE DEF k
<1>4. ZETAS[k] \in 1 .. Q - 1
  BY <1>2, Ring
<1> QED BY <1>3, <1>4, Ring, SMT DEF Field

(* The product of X and the blocks of a layer is made of theirs before it. *)
LEMMA LayerTurns ==
  ASSUME MlDsaRingAssumption, NEW k \in 1 .. Len(Lens), NEW f \in Polys, NEW i \in Index
  PROVE  NttLayer(Turn(f, 2 * Lens[k]), Lens[k])[i] = Turn(NttLayer(f, Lens[k]), Lens[k])[i]
<1> DEFINE len == Lens[k]
           T == Turn(f, 2 * len)
           F == NttLayer(f, len)
           z == NttZeta(i, len)
           b == 2 * len
           q == i \div b
           r == i % b
<1>1. len \in Layers
  BY Ring, SMT
<1>2. \A j \in Index : Mul(NttZeta(j, len), NttZeta(j, len)) = Root(j, b)
  BY ZetasCancel
<1> HIDE DEF len
<1>3. z \in Field /\ z > 0
  BY <1>1, ZetaIs
<1>4. /\ len \in Int /\ len > 0 /\ len # N /\ b \in Nat /\ b > 0 /\ b = 2 * len
      /\ i \in Int
  BY <1>1, Ring, SMT DEF Layers, Index
<1>5. q \in Int /\ r \in 0 .. b - 1 /\ i = b * q + r
  <2> HIDE DEF b
  <2> QED BY <1>4, DivMod
<1>6. b * q \in Int /\ r \in Int /\ 0 <= r /\ r < b
  BY <1>4, <1>5, SMT
<1>7. \A j \in Index : f[j] \in Field
  BY DEF Polys
<1> DEFINE Near(j, s) == /\ j \in Index /\ (j % b) = s /\ (LowHalf(j, len) <=> s < len)
                         /\ NttZeta(j, len) = z
                         /\ (j % len) = IF s < len THEN s ELSE s - len
<1>8. \A j \in Int, s \in 0 .. b - 1 : j = b * q + s => Near(j, s)
  <2>1. SUFFICES ASSUME NEW j \in Int, NEW s \in 0 .. b - 1, j = b * q + s
                 PROVE  Near(j, s)
    OBVIOUS
  <2>2. s \in 0 .. 2 * len - 1 /\ j = PlaceOf(len, q, s)
        /\ r \in 0 .. 2 * len - 1 /\ i = PlaceOf(len, q, r)
    BY <1>5, <2>1 DEF PlaceOf
  <2> HIDE DEF q, r
  <2>3. q \in Int
    BY <1>5
  <2>4. /\ j \in Index /\ (j % (2 * len)) = s
        /\ (LowHalf(j, len) <=> s < len) /\ NttZeta(j, len) = NttZeta(i, len)
        /\ (j % len) = IF s < len THEN s ELSE s - len
    BY ONLY <1>1, <2>2, <2>3, MlDsaRingAssumption, i \in Index, j \in Int, SameBlock
  <2> QED BY <2>4 DEF z, b
<1>9. Near(i, r)
  BY <1>4, <1>5, <1>8
<1> HIDE DEF q, r, z, b, Near
<1>10. \A j, s : Near(j, s) =>
          /\ T[j] = IF s = 0 THEN Mul(Root(j, b), f[j + b - 1]) ELSE f[j - 1]
          /\ F[j] = IF s < len THEN Add(f[j], Mul(f[j + len], z))
                               ELSE Sub(f[j - len], Mul(f[j], z))
          /\ NttLayer(T, len)[j] = IF s < len THEN Add(T[j], Mul(T[j + len], z))
                                   ELSE Sub(T[j - len], Mul(T[j], z))
  <2>1. SUFFICES ASSUME NEW j, NEW s, Near(j, s)
        PROVE  /\ T[j] = IF s = 0 THEN Mul(Root(j, b), f[j + b - 1]) ELSE f[j - 1]
               /\ F[j] = IF s < len THEN Add(f[j], Mul(f[j + len], z))
                                    ELSE Sub(f[j - len], Mul(f[j], z))
               /\ NttLayer(T, len)[j] = IF s < len THEN Add(T[j], Mul(T[j + len], z))
                                        ELSE Sub(T[j - len], Mul(T[j], z))
    OBVIOUS
  <2>2. /\ j \in Index /\ (j % b) = s /\ (LowHalf(j, len) <=> s < len)
        /\ NttZeta(j, len) = z
    BY <2>1 DEF Near
  <2>3. T[j] = IF s = 0 THEN Mul(Root(j, b), f[j + b - 1]) ELSE f[j - 1]
    BY <2>2 DEF Turn, b
  <2>4. F[j] = IF s < len THEN Add(f[j], Mul(f[j + len], z))
                          ELSE Sub(f[j - len], Mul(f[j], z))
    BY <2>2, LayersAre
  <2>5. NttLayer(T, len)[j] = IF s < len THEN Add(T[j], Mul(T[j + len], z))
                              ELSE Sub(T[j - len], Mul(T[j], z))
    <3> HIDE DEF T
    <3> QED BY <2>2, LayersAre
  <2> QED BY <2>3, <2>4, <2>5
<1>11. Root(i, len) = (IF r < len THEN z ELSE Q - z) /\ Turn(F, len)[i] =
         IF (IF r < len THEN r ELSE r - len) = 0 THEN Mul(Root(i, len), F[i + len - 1])
                                                 ELSE F[i - 1]
  <2>1. (LowHalf(i, len) <=> r < len) /\ NttZeta(i, len) = z
        /\ (i % len) = IF r < len THEN r ELSE r - len
    BY <1>9 DEF Near
  <2>2. Root(i, len) = (IF r < len THEN z ELSE Q - z)
    BY <1>4, <2>1 DEF Root
  <2>3. Turn(F, len)[i] = IF i % len = 0 THEN Mul(Root(i, len), F[i + len - 1]) ELSE F[i - 1]
    BY DEF Turn
  <2> QED BY <2>1, <2>2, <2>3
<1>12. \A j, s : Near(j, s) => Root(j, b) = Mul(z, z) /\ j \in Index
  BY <1>2 DEF Near
<1> HIDE DEF T, F
<1>13. CASE r = 0
  <2> DEFINE j == i + len
             m == i + len - 1
             l == i + b - 1
  <2>1. Near(j, len) /\ Near(m, len - 1) /\ Near(l, b - 1)
    <3>1. /\ j \in Int /\ len \in 0 .. b - 1 /\ j = b * q + len
          /\ m \in Int /\ len - 1 \in 0 .. b - 1 /\ m = b * q + (len - 1)
          /\ l \in Int /\ b - 1 \in 0 .. b - 1 /\ l = b * q + (b - 1)
      BY <1>4, <1>5, <1>6, <1>13, SMT
    <3> HIDE DEF j, m, l
    <3> QED BY <1>8, <3>1
  <2>2. j - 1 = m /\ m + len = l /\ len # 0 /\ 0 < len /\ len - 1 < len
    BY <1>4, SMT
  <2>3. j \in Index /\ m \in Index /\ l \in Index /\ Root(i, b) = Mul(z, z)
    BY <1>9, <1>12, <2>1
  <2> HIDE DEF j, m, l
  <2>4. T[i] = Mul(Mul(z, z), f[l]) /\ T[j] = f[m]
    BY <1>9, <1>10, <1>13, <2>1, <2>2, <2>3 DEF l
  <2>5. NttLayer(T, len)[i] = Add(T[i], Mul(T[j], z))
    BY <1>9, <1>10, <1>13, <2>2 DEF j
  <2>6. F[m] = Add(f[m], Mul(f[l], z))
    BY <1>10, <2>1, <2>2
  <2>7. Turn(F, len)[i] = Mul(z, F[m])
    BY <1>11, <1>13, <2>2 DEF m
  <2> QED BY <1>3, <1>7, <2>3, <2>4, <2>5, <2>6, <2>7, TurnSums DEF T, F, len
<1>14. CASE r > 0 /\ r < len
  <2> DEFINE j == i + len
             m == i - 1
             l == i + len - 1
  <2>1. Near(j, r + len) /\ Near(m, r - 1) /\ Near(l, r + len - 1)
    <3>1. /\ j \in Int /\ r + len \in 0 .. b - 1 /\ j = b * q + (r + len)
          /\ m \in Int /\ r - 1 \in 0 .. b - 1 /\ m = b * q + (r - 1)
          /\ l \in Int /\ r + len - 1 \in 0 .. b - 1 /\ l = b * q + (r + len - 1)
      BY <1>4, <1>5, <1>6, <1>14, SMT
    <3> HIDE DEF j, m, l
    <3> QED BY <1>8, <3>1
  <2>2. j - 1 = l /\ m + len = l /\ r # 0 /\ r + len # 0 /\ r - 1 < len
    BY <1>4, <1>6, <1>14, SMT
  <2> HIDE DEF j, m, l
  <2>4. T[i] = f[m] /\ T[j] = f[l]
    BY <1>9, <1>10, <2>1, <2>2 DEF m
  <2>5. NttLayer(T, len)[i] = Add(T[i], Mul(T[j], z))
    BY <1>9, <1>10, <1>14 DEF j
  <2>6. F[m] = Add(f[m], Mul(f[l], z))
    BY <1>10, <2>1, <2>2
  <2>7. Turn(F, len)[i] = F[m]
    BY <1>11, <1>14, <2>2 DEF m
  <2> QED BY <2>4, <2>5, <2>6, <2>7 DEF T, F, len
<1>15. CASE r = len
  <2> DEFINE j == i - len
             m == i - 1
             l == i + len - 1
  <2>1. Near(j, 0) /\ Near(m, len - 1) /\ Near(l, b - 1)
    <3>1. /\ j \in Int /\ 0 \in 0 .. b - 1 /\ j = b * q + 0
          /\ m \in Int /\ len - 1 \in 0 .. b - 1 /\ m = b * q + (len - 1)
          /\ l \in Int /\ b - 1 \in 0 .. b - 1 /\ l = b * q + (b - 1)
      BY <1>4, <1>5, <1>6, <1>15, SMT
    <3> HIDE DEF j, m, l
    <3> QED BY <1>8, <3>1
  <2>2. /\ j + b - 1 = l /\ l - len = m /\ len # 0 /\ ~ (len < len) /\ ~ (b - 1 < len)
        /\ len - len = 0
    BY <1>4, SMT
  <2>3. m \in Index /\ l \in Index /\ Root(j, b) = Mul(z, z)
    BY <1>12, <2>1
  <2> HIDE DEF j, m, l
  <2>4. T[j] = Mul(Mul(z, z), f[l]) /\ T[i] = f[m]
    BY <1>9, <1>10, <1>15, <2>1, <2>2, <2>3 DEF m
  <2>5. NttLayer(T, len)[i] = Sub(T[j], Mul(T[i], z))
    BY <1>9, <1>10, <1>15, <2>2 DEF j
  <2>6. F[l] = Sub(f[m], Mul(f[l], z))
    BY <1>10, <2>1, <2>2
  <2>7. Turn(F, len)[i] = Mul(Q - z, F[l])
    BY <1>11, <1>15, <2>2 DEF l
  <2> QED BY <1>3, <1>7, <2>3, <2>4, <2>5, <2>6, <2>7, TurnSums DEF T, F, len
<1>16. CASE r > len
  <2> DEFINE j == i - len
             m == i - 1
             l == i - len - 1
  <2>1. Near(j, r - len) /\ Near(m, r - 1)
    <3>1. /\ j \in Int /\ r - len \in 0 .. b - 1 /\ j = b * q + (r - len)
          /\ m \in Int /\ r - 1 \in 0 .. b - 1 /\ m = b * q + (r - 1)
      BY <1>4, <1>5, <1>6, <1>16, SMT
    <3> HIDE DEF j, m
    <3> QED BY <1>8, <3>1
  <2>2. /\ j - 1 = l /\ m - len = l /\ r # 0 /\ r - len # 0 /\ ~ (r - 1 < len)
        /\ ~ (r < len)
    BY <1>4, <1>6, <1>16, SMT
  <2> HIDE DEF j, m, l
  <2>4. T[i] = f[m] /\ T[j] = f[l]
    BY <1>9, <1>10, <2>1, <2>2 DEF m
  <2>5. NttLayer(T, len)[i] = Sub(T[j], Mul(T[i], z))
    BY <1>9, <1>10, <2>2 DEF j
  <2>6. F[m] = Sub(f[l], Mul(f[m], z))
    BY <1>10, <2>1, <2>2
  <2>7. Turn(F, len)[i] = F[m]
    BY <1>11, <2>2 DEF m
  <2> QED BY <2>4, <2>5, <2>6, <2>7 DEF T, F, len
<1> QED BY <1>4, <1>6, <1>13, <1>14, <1>15, <1>16, SMT

(* The remainders modulo N and modulo 1. *)
LEMMA Remainders ==
  ASSUME MlDsaRingAssumption, NEW i \in Index
  PROVE  (i % N) = i /\ (i % 1) = 0
<1>1. N \in Nat /\ N > 0 /\ i \in 0 .. N - 1 /\ i \in Int
  BY Ring, SMT DEF Index
<1>2. (i % N) = i
  <2>1. 0 \in Int /\ i = N * 0 + i
    BY <1>1, SMT
  <2> QED BY <1>1, <2>1, DivIs
<1>3. (i % 1) = 0
  BY <1>1, SMT
<1> QED BY <1>2, <1>3

(* A polynomial of ones at the first places of the blocks of a size. *)
Comb(size) == [i \in Index |-> IF i % size = 0 THEN One ELSE 0]

LEMMA LayerCombs ==
  ASSUME MlDsaRingAssumption, NEW len \in Layers
  PROVE  NttLayer(Comb(2 * len), len) = Comb(len)
<1> DEFINE b == 2 * len
           T == Comb(b)
<1>1. /\ len \in Int /\ len > 0 /\ b \in Nat /\ b > 0 /\ b = 2 * len /\ 0 \in Field
  BY Ring, SMT DEF Layers, Index, Field
<1>2. One \in Field
  BY <1>1, MulOne
<1>3. ASSUME NEW i \in Index PROVE NttLayer(T, len)[i] = Comb(len)[i]
  <2> DEFINE q == i \div b
             r == i % b
             z == NttZeta(i, len)
  <2>1. z \in Field
    BY ZetaIs
  <2>2. q \in Int /\ r \in 0 .. b - 1 /\ i = b * q + r /\ i \in Int
    <3>1. i \in Int
      BY SMT DEF Index
    <3> HIDE DEF b
    <3> QED BY <1>1, <3>1, DivMod
  <2>3. b * q \in Int /\ r \in Int /\ 0 <= r /\ r < b
    BY <1>1, <2>2, SMT
  <2> HIDE DEF q, r, z
  <2>4. \A j \in Int, s \in 0 .. b - 1 : j = b * q + s => j \in Index /\ (j % b) = s
    <3>1. SUFFICES ASSUME NEW j \in Int, NEW s \in 0 .. b - 1, j = b * q + s
                   PROVE  j \in Index /\ (j % b) = s
      OBVIOUS
    <3>2. s \in 0 .. 2 * len - 1 /\ j = PlaceOf(len, q, s)
          /\ r \in 0 .. 2 * len - 1 /\ i = PlaceOf(len, q, r)
      BY <2>2, <3>1 DEF PlaceOf
    <3>3. q \in Int
      BY <2>2
    <3>4. j \in Index /\ (j % (2 * len)) = s
      BY ONLY <3>2, <3>3, MlDsaRingAssumption, len \in Layers, i \in Index, j \in Int, SameBlock
    <3> QED BY <3>4
  <2>5. (LowHalf(i, len) <=> r < len) /\ (i % len) = IF r < len THEN r ELSE r - len
    <3>1. r \in 0 .. 2 * len - 1 /\ i = PlaceOf(len, q, r) /\ q \in Int /\ i \in Int
      BY <2>2 DEF PlaceOf
    <3> QED BY ONLY <3>1, MlDsaRingAssumption, len \in Layers, i \in Index, SameBlock
  <2>6. NttLayer(T, len)[i] = IF r < len THEN Add(T[i], Mul(T[i + len], z))
                              ELSE Sub(T[i - len], Mul(T[i], z))
    <3> HIDE DEF T
    <3> QED BY <2>5, LayersAre DEF z
  <2>7. \A j \in Index : T[j] = IF j % b = 0 THEN One ELSE 0
    BY DEF Comb
  <2>8. (i % b) = r
    BY <2>2, <2>4
  <2>9. Comb(len)[i] = IF (IF r < len THEN r ELSE r - len) = 0 THEN One ELSE 0
    BY <2>5 DEF Comb
  <2> HIDE DEF T, b
  <2>10. CASE r < len
    <3> DEFINE j == i + len
               s == r + len
    <3>1. j \in Int /\ s \in 0 .. b - 1 /\ j = b * q + s /\ s # 0
      BY <1>1, <2>2, <2>3, <2>10, SMT
    <3> HIDE DEF j, s
    <3>2. T[j] = 0
      BY <2>4, <2>7, <3>1
    <3>3. Mul(T[j], z) = 0
      BY <2>1, <3>2, MulOne
    <3>4. T[i] = IF r = 0 THEN One ELSE 0
      BY <2>7, <2>8
    <3>5. Add(T[i], 0) = T[i]
      BY <1>1, <1>2, <3>4, AddLaws
    <3> QED BY <2>6, <2>9, <2>10, <3>3, <3>4, <3>5 DEF j
  <2>11. CASE ~ (r < len)
    <3> DEFINE j == i - len
               s == r - len
    <3>1. j \in Int /\ s \in 0 .. b - 1 /\ j = b * q + s /\ r # 0
      BY <1>1, <2>2, <2>3, <2>11, SMT
    <3> HIDE DEF j, s
    <3>2. T[i] = 0
      BY <2>7, <2>8, <3>1
    <3>3. Mul(T[i], z) = 0
      BY <2>1, <3>2, MulOne
    <3>4. T[j] = IF s = 0 THEN One ELSE 0
      BY <2>4, <2>7, <3>1
    <3>5. Sub(T[j], 0) = T[j]
      <4>1. Q \in Int /\ Q > 1 /\ T[j] \in Int /\ 0 <= T[j] /\ T[j] < Q
        BY <1>1, <1>2, <3>4, FieldInt
      <4> QED BY <4>1, SMT DEF Sub, Lift
    <3> QED BY <2>6, <2>9, <2>11, <3>3, <3>4, <3>5 DEF j, s
  <2> QED BY <2>10, <2>11
<1>4. NttLayer(T, len) = [i \in Index |-> NttLayer(T, len)[i]]
  <2> HIDE DEF T
  <2> QED BY LayersAre
<1> QED BY <1>3, <1>4 DEF Comb

(* The product of X and a polynomial. *)
LEMMA TurnIs ==
  ASSUME MlDsaRingAssumption, NEW f \in Polys
  PROVE  /\ Turn(f, N) \in Polys
         /\ \A i \in Index : Turn(f, N)[i] = IF i = 0 THEN Sub(0, f[N - 1]) ELSE f[i - 1]
<1>1. N \in Nat /\ N > 0 /\ 0 \in Index /\ N - 1 \in Index /\ 0 + N - 1 = N - 1
  BY Ring, SMT DEF Index
<1>2. \A i \in Index : i # 0 => i - 1 \in Index
  BY <1>1, SMT DEF Index
<1>3. \A i \in Index : f[i] \in Field
  BY DEF Polys
<1>4. 0 \in Field
  BY Ring, SMT DEF Field
<1> DEFINE a == f[N - 1]
<1>5. Mul(Q - One, a) = Sub(0, a)
  <2>1. One \in Field /\ a \in Field
    BY <1>1, <1>3, <1>4, MulOne
  <2>2. One # 0
    <3>1. SUFFICES ASSUME One = 0 PROVE FALSE
      OBVIOUS
    <3>2. 1 \in Field /\ 0 \in Field
      BY Ring, SMT DEF Field
    <3>3. Mul(1, One) = 1
      <4> HIDE DEF One
      <4> QED BY <3>2, MulOne
    <3>4. Mul(1, 0) = 0
      BY <3>2, MulOne
    <3> QED BY <3>1, <3>3, <3>4
  <2> HIDE DEF One, a
  <2>3. Q - One = Sub(0, One)
    <3>1. Q \in Int /\ Q > 1 /\ One \in Int /\ 0 <= One /\ One < Q
      BY <2>1, FieldInt
    <3> QED BY <2>2, <3>1, SMT DEF Sub, Lift
  <2>4. Mul(Sub(0, One), a) = Sub(Mul(0, a), Mul(One, a))
    BY <1>4, <2>1, MulSums
  <2> QED BY <2>1, <2>3, <2>4, MulOne
<1>6. ASSUME NEW i \in Index
      PROVE  /\ Turn(f, N)[i] = IF i = 0 THEN Sub(0, a) ELSE f[i - 1]
             /\ Turn(f, N)[i] \in Field
  <2>1. Turn(f, N)[i] = IF i = 0 THEN Mul(Root(i, N), f[i + N - 1]) ELSE f[i - 1]
    BY Remainders DEF Turn
  <2>2. Root(i, N) = Q - One
    BY DEF Root
  <2>3. Turn(f, N)[i] = IF i = 0 THEN Sub(0, a) ELSE f[i - 1]
    BY <1>1, <1>5, <2>1, <2>2
  <2>4. a \in Field
    BY <1>1, <1>3
  <2>5. Sub(0, a) \in Field
    BY <1>4, <2>4, SubIn
  <2> QED BY <1>2, <1>3, <2>3, <2>5
<1>7. Turn(f, N) \in Polys
  BY <1>6 DEF Turn, Polys
<1> QED BY <1>6, <1>7

(* The transform of X, and that of 1. *)
Rho == [i \in Index |-> Root(i, 1)]

Unit == [i \in Index |-> IF i = 0 THEN One ELSE 0]

LEMMA LensSize ==
  ASSUME MlDsaRingAssumption, NEW k \in 0 .. Len(Lens) - 1
  PROVE  /\ Len(Lens) - k \in 1 .. Len(Lens)
         /\ Size(Len(Lens) - k) = 2 * Lens[Len(Lens) - k]
         /\ Size(Len(Lens) - (k + 1)) = Lens[Len(Lens) - k]
<1> DEFINE n == Len(Lens)
           j == n - (k + 1)
<1>1. n \in Nat
  BY Sizes
<1>2. j \in 0 .. n - 1 /\ j + 1 = n - k /\ j # n /\ n - k \in 1 .. n
  BY <1>1, SMT
<1> HIDE DEF j
<1>3. Size(j) = Lens[n - k]
  BY <1>2 DEF Size
<1>4. Size(j + 1) = 2 * Size(j)
  BY <1>2, Sizes
<1> QED BY <1>2, <1>3, <1>4 DEF j

LEMMA NttTurns ==
  ASSUME MlDsaRingAssumption, NEW f \in Polys
  PROVE  ntt(Turn(f, N)) = pointwise_montgomery(Rho, ntt(f))
<1> DEFINE n == Len(Lens)
           t == Turn(f, N)
<1>1. n \in Nat /\ t \in Polys
  BY Sizes, TurnIs
<1> HIDE DEF t
<1>2. PICK r : /\ Runs(r, n, Polys, f) /\ ntt(f) = r[n]
               /\ \A k \in 0 .. n - 1 : r[k + 1] = NttLayer(r[k], Lens[n - k])
  BY NttRun
<1>3. PICK s : /\ Runs(s, n, Polys, t) /\ ntt(t) = s[n]
               /\ \A k \in 0 .. n - 1 : s[k + 1] = NttLayer(s[k], Lens[n - k])
  BY <1>1, NttRun
<1> DEFINE S == {k \in 0 .. n : s[k] = Turn(r[k], Size(n - k))}
<1>4. 0 \in S
  <2>1. 0 \in 0 .. n /\ n - 0 = n
    BY <1>1, SMT
  <2>2. Size(n) = N
    BY Sizes
  <2> QED BY <1>2, <1>3, <2>1, <2>2 DEF Runs, t
<1>5. ASSUME NEW k \in 0 .. n - 1, k \in S PROVE k + 1 \in S
  <2> DEFINE l == n - k
             F == r[k]
             len == Lens[l]
  <2>1. k \in 0 .. n /\ k + 1 \in 0 .. n
    BY <1>1, SMT
  <2>2. F \in Polys
    BY <1>2, <2>1 DEF Runs
  <2>3. l \in 1 .. n /\ Size(l) = 2 * len /\ Size(n - (k + 1)) = len
    BY LensSize
  <2>4. s[k] = Turn(F, 2 * len)
    BY <1>5, <2>3
  <2>5. s[k + 1] = NttLayer(s[k], len) /\ r[k + 1] = NttLayer(F, len)
    BY <1>2, <1>3
  <2> HIDE DEF F, l
  <2>6. \A i \in Index : NttLayer(Turn(F, 2 * len), len)[i] = Turn(NttLayer(F, len), len)[i]
    BY <2>2, <2>3, LayerTurns
  <2>7. NttLayer(Turn(F, 2 * len), len) = Turn(NttLayer(F, len), len)
    <3> HIDE DEF len
    <3> DEFINE g == Turn(F, 2 * len)
               h == NttLayer(F, len)
    <3>1. \A i \in Index : NttLayer(g, len)[i] = Turn(h, len)[i]
      BY <2>6
    <3> HIDE DEF g, h
    <3>2. NttLayer(g, len) = [i \in Index |-> NttLayer(g, len)[i]]
      BY LayersAre
    <3>3. Turn(h, len) = [i \in Index |-> Turn(h, len)[i]]
      BY DEF Turn
    <3>4. NttLayer(g, len) = Turn(h, len)
      BY <3>1, <3>2, <3>3
    <3> QED BY <3>4 DEF g, h
  <2> QED BY <2>1, <2>3, <2>4, <2>5, <2>7
<1>6. n \in S
  <2>1. n \in 0 .. n
    BY <1>1, SMT
  <2> HIDE DEF S, n
  <2> QED BY <1>1, <1>4, <1>5, <2>1, UptoInduction
<1> DEFINE F == ntt(f)
<1>7. ntt(t) = Turn(F, 1)
  <2>1. n - n = 0
    BY <1>1, SMT
  <2>2. Size(0) = 1
    BY Sizes
  <2> QED BY <1>2, <1>3, <1>6, <2>1, <2>2
<1> HIDE DEF F
<1>8. \A i \in Index : Turn(F, 1)[i] = Mul(Rho[i], F[i])
  <2>1. \A i \in Index : i + 1 - 1 = i
    BY SMT DEF Index
  <2> QED BY <2>1, Remainders DEF Turn, Rho
<1>9. Turn(F, 1) = [i \in Index |-> Turn(F, 1)[i]]
  BY DEF Turn
<1>10. Turn(F, 1) = pointwise_montgomery(Rho, F)
  BY <1>8, <1>9, PolyIs
<1> QED BY <1>7, <1>10 DEF t, F

LEMMA NttUnit ==
  ASSUME MlDsaRingAssumption
  PROVE  Unit \in Polys /\ \A i \in Index : ntt(Unit)[i] = One
<1> DEFINE n == Len(Lens)
<1>1. n \in Nat
  BY Sizes
<1>2. Unit \in Polys
  <2>1. 0 \in Field
    BY Ring, SMT DEF Field
  <2>2. One \in Field
    BY <2>1, MulOne
  <2> QED BY <2>1, <2>2 DEF Unit, Polys
<1>3. PICK r : /\ Runs(r, n, Polys, Unit) /\ ntt(Unit) = r[n]
               /\ \A k \in 0 .. n - 1 : r[k + 1] = NttLayer(r[k], Lens[n - k])
  BY <1>2, NttRun
<1> DEFINE S == {k \in 0 .. n : r[k] = Comb(Size(n - k))}
<1>4. 0 \in S
  <2>1. 0 \in 0 .. n /\ n - 0 = n
    BY <1>1, SMT
  <2>2. Size(n) = N
    BY Sizes
  <2>3. Comb(N) = Unit
    BY Remainders DEF Comb, Unit
  <2> QED BY <1>3, <2>1, <2>2, <2>3 DEF Runs
<1>5. ASSUME NEW k \in 0 .. n - 1, k \in S PROVE k + 1 \in S
  <2> DEFINE l == n - k
             len == Lens[l]
  <2>1. k \in 0 .. n /\ k + 1 \in 0 .. n
    BY <1>1, SMT
  <2>2. l \in 1 .. n /\ Size(l) = 2 * len /\ Size(n - (k + 1)) = len
    BY LensSize
  <2>3. r[k] = Comb(2 * len)
    BY <1>5, <2>2
  <2>4. r[k + 1] = NttLayer(r[k], len)
    BY <1>3
  <2> HIDE DEF l
  <2>5. len \in Layers
    BY <2>2, Ring, SMT
  <2> HIDE DEF len
  <2>6. NttLayer(Comb(2 * len), len) = Comb(len)
    BY <2>5, LayerCombs
  <2> QED BY <2>1, <2>2, <2>3, <2>4, <2>6
<1>6. n \in S
  <2>1. n \in 0 .. n
    BY <1>1, SMT
  <2> HIDE DEF S, n
  <2> QED BY <1>1, <1>4, <1>5, <2>1, UptoInduction
<1>7. ntt(Unit) = Comb(1)
  <2>1. n - n = 0
    BY <1>1, SMT
  <2>2. Size(0) = 1
    BY Sizes
  <2> QED BY <1>3, <1>6, <2>1, <2>2
<1> QED BY <1>2, <1>7, Remainders DEF Comb

(* The product of X ^ m and a polynomial. *)
Rot(g, m) == [k \in Index |-> IF m <= k THEN g[k - m] ELSE Sub(0, g[k - m + N])]

LEMMA RotIs ==
  ASSUME MlDsaRingAssumption, NEW g \in Polys
  PROVE  /\ Rot(g, 0) = g
         /\ \A m \in 0 .. N : Rot(g, m) \in Polys
         /\ \A m \in 0 .. N - 1 : Rot(g, m + 1) = Turn(Rot(g, m), N)
<1>1. N \in Nat /\ N > 0 /\ 0 \in Field
  BY Ring, SMT DEF Field
<1>2. \A i \in Index : g[i] \in Field /\ Sub(0, g[i]) \in Field
  BY <1>1, SubIn DEF Polys
<1>3. \A m \in 0 .. N, k \in Index :
        /\ m <= k => k - m \in Index
        /\ ~ (m <= k) => k - m + N \in Index
  BY <1>1, SMT DEF Index
<1>4. Rot(g, 0) = g
  <2>1. \A k \in Index : 0 <= k /\ k - 0 = k
    BY SMT DEF Index
  <2>2. \A k \in Index : Rot(g, 0)[k] = g[k]
    BY <2>1 DEF Rot
  <2> QED BY <2>2 DEF Rot, Polys
<1>5. \A m \in 0 .. N : Rot(g, m) \in Polys
  <2>1. SUFFICES ASSUME NEW m \in 0 .. N PROVE Rot(g, m) \in Polys
    OBVIOUS
  <2>2. \A k \in Index : (IF m <= k THEN g[k - m] ELSE Sub(0, g[k - m + N])) \in Field
    BY <1>2, <1>3
  <2> QED BY <2>2 DEF Rot, Polys
<1>6. ASSUME NEW m \in 0 .. N - 1 PROVE Rot(g, m + 1) = Turn(Rot(g, m), N)
  <2> DEFINE R == Rot(g, m)
             l == m + 1
  <2>1. m \in 0 .. N /\ l \in 0 .. N /\ m \in Int /\ N - 1 \in Index /\ m <= N - 1
    BY <1>1, SMT DEF Index
  <2>2. R \in Polys
    BY <1>5, <2>1
  <2> HIDE DEF R, l
  <2>3. \A i \in Index : Turn(R, N)[i] = IF i = 0 THEN Sub(0, R[N - 1]) ELSE R[i - 1]
    BY <2>2, TurnIs
  <2>4. ASSUME NEW i \in Index PROVE Rot(g, l)[i] = Turn(R, N)[i]
    <3>1. Rot(g, l)[i] = IF l <= i THEN g[i - l] ELSE Sub(0, g[i - l + N])
      BY DEF Rot
    <3>2. CASE i = 0
      <4>1. ~ (l <= i) /\ i - l + N = N - 1 - m
        BY <1>1, <2>1, <3>2, SMT DEF l
      <4>2. R[N - 1] = g[N - 1 - m]
        BY <2>1 DEF R, Rot
      <4> QED BY <2>3, <3>1, <3>2, <4>1, <4>2
    <3>3. CASE i # 0
      <4> DEFINE j == i - 1
      <4>1. /\ j \in Index /\ (l <= i <=> m <= j) /\ i - l = j - m /\ i - l + N = j - m + N
        BY <1>1, <2>1, <3>3, SMT DEF l, Index
      <4> HIDE DEF j
      <4>2. R[j] = IF m <= j THEN g[j - m] ELSE Sub(0, g[j - m + N])
        BY <4>1 DEF R, Rot
      <4>3. Turn(R, N)[i] = R[j]
        BY <2>3, <3>3 DEF j
      <4> QED BY <3>1, <4>1, <4>2, <4>3
    <3> QED BY <3>2, <3>3
  <2>5. Rot(g, l) = [i \in Index |-> Rot(g, l)[i]]
    BY DEF Rot
  <2>6. Turn(R, N) = [i \in Index |-> Turn(R, N)[i]]
    BY DEF Turn
  <2>7. Rot(g, l) = Turn(R, N)
    BY <2>4, <2>5, <2>6
  <2> QED BY <2>7 DEF R, l
<1> QED BY <1>4, <1>5, <1>6

(* The transform of the product of X ^ m and g.                            *)
LEMMA NttRot ==
  ASSUME MlDsaRingAssumption, NEW g \in Polys, NEW m \in 0 .. N
  PROVE  ntt(Rot(g, m)) = pointwise_montgomery(ntt(Rot(Unit, m)), ntt(g))
<1> DEFINE G == ntt(g)
           E(k) == ntt(Rot(Unit, k))
           H(k) == ntt(Rot(g, k))
           S == {k \in 0 .. N : H(k) = pointwise_montgomery(E(k), G)}
<1>1. N \in Nat /\ Unit \in Polys /\ G \in Polys
  BY Ring, NttUnit, Transforms
<1>2. \A k \in 0 .. N : E(k) \in Polys /\ H(k) \in Polys
  BY <1>1, RotIs, Transforms
<1>3. Rho \in Polys
  <2>1. ASSUME NEW i \in Index PROVE Root(i, 1) \in Field
    <3>1. /\ Len(Lens) \in Nat /\ Len(Lens) > 0 /\ Lens[1] = 1 /\ 2 * Lens[Len(Lens)] = N
          /\ Lens \in Seq(Layers)
      <4>1. Len(Lens) > 0 /\ Lens[1] = 1 /\ 2 * Lens[Len(Lens)] = N
        BY DEF MlDsaRingAssumption, LensDouble
      <4>2. Lens \in Seq(Layers) /\ Len(Lens) \in Nat
        BY Ring
      <4> QED BY <4>1, <4>2
    <3>2. 1 \in Layers
      <4>1. 1 \in 1 .. Len(Lens)
        BY <3>1, SMT
      <4> QED BY <3>1, <4>1
    <3>3. 1 # N
      BY <3>2, SMT DEF Layers
    <3> DEFINE z == NttZeta(i, 1)
    <3>4. z \in Field /\ z > 0
      BY <3>2, ZetaIs
    <3>5. Root(i, 1) = z \/ Root(i, 1) = Q - z
      BY <3>3 DEF Root
    <3> HIDE DEF z
    <3>6. Q - z \in Field
      BY <3>4, FieldInt, SMT DEF Field
    <3> QED BY <3>4, <3>5, <3>6
  <2> QED BY <2>1 DEF Rho, Polys
<1>4. \A k \in 0 .. N - 1 : /\ k \in 0 .. N /\ k + 1 \in 0 .. N
                            /\ E(k + 1) = pointwise_montgomery(Rho, E(k))
                            /\ H(k + 1) = pointwise_montgomery(Rho, H(k))
  <2>1. SUFFICES ASSUME NEW k \in 0 .. N - 1
                 PROVE  /\ k \in 0 .. N /\ k + 1 \in 0 .. N
                        /\ E(k + 1) = pointwise_montgomery(Rho, E(k))
                        /\ H(k + 1) = pointwise_montgomery(Rho, H(k))
    OBVIOUS
  <2>2. k \in 0 .. N /\ k + 1 \in 0 .. N
    BY <1>1, SMT
  <2> DEFINE l == k + 1
             u == Rot(Unit, k)
             v == Rot(g, k)
  <2>3. /\ u \in Polys /\ v \in Polys
        /\ Rot(Unit, l) = Turn(u, N) /\ Rot(g, l) = Turn(v, N)
    BY <1>1, <2>2, RotIs
  <2> HIDE DEF u, v, l
  <2>4. ntt(Turn(u, N)) = pointwise_montgomery(Rho, ntt(u))
    BY <2>3, NttTurns
  <2>5. ntt(Turn(v, N)) = pointwise_montgomery(Rho, ntt(v))
    BY <2>3, NttTurns
  <2> QED BY <2>2, <2>3, <2>4, <2>5 DEF u, v, l
<1>5. 0 \in S
  <2>1. 0 \in 0 .. N
    BY <1>1, SMT
  <2>2. E(0) = ntt(Unit) /\ H(0) = G
    BY <1>1, RotIs
  <2>3. \A i \in Index : Mul(ntt(Unit)[i], G[i]) = G[i]
    BY <1>1, NttUnit, MulOne DEF Polys
  <2> HIDE DEF G
  <2> DEFINE P == pointwise_montgomery(ntt(Unit), G)
  <2>4. \A i \in Index : P[i] = G[i]
    BY <2>3, PolyIs
  <2>5. P \in Polys
    <3>1. ntt(Unit) \in Polys
      BY <1>1, Transforms
    <3> QED BY <1>1, <3>1, PolyOps
  <2>6. P = G
    BY <1>1, <2>4, <2>5, SamePoly
  <2> QED BY <2>1, <2>2, <2>6
<1> HIDE DEF E, H, G
<1>6. ASSUME NEW k \in 0 .. N - 1, k \in S PROVE k + 1 \in S
  <2> DEFINE e == E(k)
             h == H(k)
             P == pointwise_montgomery(Rho, h)
             R == pointwise_montgomery(pointwise_montgomery(Rho, e), G)
  <2>1. e \in Polys /\ h = pointwise_montgomery(e, G) /\ h \in Polys
    BY <1>2, <1>4, <1>6
  <2> HIDE DEF e, h
  <2>2. P = R
    <3>1. P \in Polys /\ pointwise_montgomery(Rho, e) \in Polys
      BY <1>3, <2>1, PolyOps
    <3>2. R \in Polys
      BY <1>1, <3>1, PolyOps
    <3>3. ASSUME NEW i \in Index PROVE P[i] = R[i]
      <4>1. Rho[i] \in Field /\ e[i] \in Field /\ G[i] \in Field
        BY <1>1, <1>3, <2>1 DEF Polys
      <4>2. h[i] = Mul(e[i], G[i]) /\ P[i] = Mul(Rho[i], h[i])
        BY <2>1, PolyIs
      <4>3. pointwise_montgomery(Rho, e)[i] = Mul(Rho[i], e[i])
        BY PolyIs
      <4>4. R[i] = Mul(Mul(Rho[i], e[i]), G[i])
        BY <4>3, PolyIs
      <4> QED BY <4>1, <4>2, <4>4, MulAssoc
    <3> HIDE DEF P, R
    <3> QED BY <3>1, <3>2, <3>3, SamePoly
  <2>3. E(k + 1) = pointwise_montgomery(Rho, e) /\ H(k + 1) = P
    BY <1>4 DEF e, h
  <2> QED BY <1>4, <2>2, <2>3
<1>7. m \in S
  <2> HIDE DEF S
  <2> QED BY <1>1, <1>5, <1>6, UptoInduction
<1> QED BY <1>7 DEF E, H, G

-----------------------------------------------------------------------------
(* Products of transforms are transforms of products.                      *)

(* One product of a coefficient of f and one of g, as Negacyclic takes it. *)
Term(f, g, k, i) ==
  IF i <= k THEN f[i] * g[k - i] ELSE Q * Q - f[i] * g[k - i + N]

LEMMA TermIs ==
  ASSUME MlDsaRingAssumption, NEW f \in Polys, NEW g \in Polys,
         NEW k \in Index, NEW i \in Index
  PROVE  /\ Term(f, g, k, i) \in Int
         /\ Is(Term(f, g, k, i), f[i] * Rot(g, i)[k])
         /\ f[i] * Rot(g, i)[k] \in Int
<1>1. N \in Nat /\ Q \in Int /\ f[i] \in Field
  BY Ring, SMT DEF Polys
<1>2. Rot(g, i)[k] = IF i <= k THEN g[k - i] ELSE Sub(0, g[k - i + N])
  BY DEF Rot
<1>3. f[i] \in Int
  BY <1>1, FieldInt
<1> DEFINE a == f[i]
<1>4. CASE i <= k
  <2> DEFINE b == g[k - i]
             p == a * b
  <2>1. b \in Field
    <3>1. k - i \in Index
      BY <1>1, <1>4, SMT DEF Index
    <3> QED BY <3>1 DEF Polys
  <2>2. b \in Int
    BY <2>1, FieldInt
  <2>3. p \in Int
    BY <1>3, <2>2, SMT
  <2>4. Term(f, g, k, i) = p /\ f[i] * Rot(g, i)[k] = p
    BY <1>2, <1>4 DEF Term
  <2> HIDE DEF p
  <2> QED BY <2>3, <2>4, IsRefl
<1>5. CASE ~ (i <= k)
  <2> DEFINE b == g[k - i + N]
             c == Sub(0, b)
             p == a * b
             t == Q * Q - p
             u == a * c
             d == 0 - b
             v == a * d
  <2>1. b \in Field
    <3>1. k - i + N \in Index
      BY <1>1, <1>5, SMT DEF Index
    <3> QED BY <3>1 DEF Polys
  <2>2. b \in Int /\ 0 \in Int /\ 0 \in Field
    BY <2>1, FieldInt, SMT DEF Field
  <2>3. c \in Int
    <3> HIDE DEF b
    <3>1. c \in Field
      BY <2>1, <2>2, SubIn
    <3> QED BY <3>1, FieldInt
  <2>4. Term(f, g, k, i) = t /\ f[i] * Rot(g, i)[k] = u
    BY <1>2, <1>5 DEF Term
  <2>5. Is(c, d)
    <3> HIDE DEF b
    <3> QED BY <2>2, SubIs
  <2>6. d \in Int /\ p \in Int /\ t \in Int /\ u \in Int /\ v \in Int /\ v = -p
    <3> HIDE DEF a, b
    <3>1. a \in Int
      BY <1>3 DEF a
    <3>2. d \in Int /\ p \in Int /\ v = -p
      BY <2>2, <3>1, SMT
    <3>3. t \in Int /\ v \in Int
      BY <1>1, <3>2, SMT
    <3>4. u \in Int
      <4> HIDE DEF c
      <4> QED BY <2>3, <3>1, SMT
    <3> QED BY <3>2, <3>3, <3>4
  <2> HIDE DEF b, c, d
  <2>7. Is(u, v)
    BY <1>3, <2>3, <2>5, <2>6, IsTimes
  <2> HIDE DEF a, u, v
  <2>8. Is(t, v)
    <3>1. t = v + Q * Q
      <4> HIDE DEF p
      <4> QED BY <1>1, <2>6, SMT
    <3> HIDE DEF t
    <3> QED BY <1>1, <3>1 DEF Is, Cong
  <2> HIDE DEF t
  <2>9. Is(t, u)
    BY <2>6, <2>7, <2>8, IsMeet
  <2> QED BY <2>4, <2>6, <2>9
<1> QED BY <1>4, <1>5

LEMMA NegacyclicRun ==
  ASSUME MlDsaRingAssumption, NEW f \in Polys, NEW g \in Polys, NEW k \in Index
  PROVE  \E r : /\ Runs(r, N, Field, 0) /\ Negacyclic(f, g)[k] = r[N]
                /\ \A m \in 0 .. N - 1 : r[m + 1] = (r[m] + Term(f, g, k, m)) % Q
<1> DEFINE n == N
           Step(x, i) == (x + Term(f, g, k, i)) % Q
           seq == [i \in 1 .. n |-> i - 1]
           pick == [s \in SUBSET (1 .. n) |-> Max(s)]
           next == [s \in SUBSET (1 .. n) |-> [x \in Field |-> Step(x, seq[Max(s)])]]
           IsFold(h) == h = [s \in SUBSET (1 .. n) |->
                               IF s = {} THEN 0
                               ELSE Step(h[s \ {Max(s)}], seq[Max(s)])]
           it == CHOOSE h : IsFold(h)
<1>1. n \in Nat /\ 0 \in Field
  BY Ring, SMT DEF Field
<1>2. Negacyclic(f, g)[k] = it[1 .. n]
  BY DEF Negacyclic, FoldLeft, MapThenFoldSet, Term
<1>3. Picks(n, pick)
  BY <1>1, LastPick
<1>4. \A x \in Field, i \in 1 .. n : Step(x, seq[i]) \in Field
  <2>1. SUFFICES ASSUME NEW x \in Field, NEW i \in 1 .. n PROVE Step(x, seq[i]) \in Field
    OBVIOUS
  <2> DEFINE j == seq[i]
             t == Term(f, g, k, j)
  <2>2. j \in Index
    BY <1>1, SMT DEF Index
  <2> HIDE DEF j
  <2>3. t \in Int /\ x \in Int
    BY <2>2, TermIs, FieldInt
  <2> HIDE DEF t
  <2>4. x + t \in Int
    BY <2>3, SMT
  <2>5. ((x + t) % Q) \in Field
    BY <2>4, IsMod
  <2> QED BY <2>5 DEF t, j
<1> HIDE DEF Step
<1>5. \A s \in SUBSET (1 .. n), x \in Field :
        s # {} => next[s][x] = Step(x, seq[Max(s)]) /\ next[s][x] \in Field
  <2> HIDE DEF seq
  <2> QED BY <1>1, <1>3, <1>4 DEF Picks
<1>6. \E h : IsFold(h)
  <2> HIDE DEF seq
  <2>1. PICK h : /\ Folds(h, SUBSET (1 .. n), 0, pick, next)
                 /\ \A s \in SUBSET (1 .. n) : h[s] \in Field
    <3>1. \A s \in SUBSET (1 .. n), x \in Field : s # {} => next[s][x] \in Field
      BY <1>5
    <3> HIDE DEF n, pick, next
    <3> QED BY <1>1, <1>3, <3>1, FoldExists
  <2>2. \A s \in SUBSET (1 .. n) : s \ {Max(s)} \in SUBSET (1 .. n)
    OBVIOUS
  <2>3. h = [s \in SUBSET (1 .. n) |->
               IF s = {} THEN 0 ELSE next[s][h[s \ {pick[s]}]]]
    BY <2>1 DEF Folds
  <2>4. IsFold(h)
    <3>1. \A s \in SUBSET (1 .. n) :
            s # {} => next[s][h[s \ {pick[s]}]] = Step(h[s \ {Max(s)}], seq[Max(s)])
      BY <1>5, <2>1, <2>2
    <3> HIDE DEF n, pick, next
    <3> QED BY <2>3, <3>1
  <2> QED BY <2>4
<1>7. IsFold(it)
  BY <1>6
<1> HIDE DEF it
<1> DEFINE r == [m \in 0 .. n |-> it[1 .. m]]
<1>8. 1 .. 0 = {} /\ 0 \in 0 .. n /\ n \in 0 .. n
  BY <1>1, SMT
<1>9. r[0] = 0 /\ r[n] = it[1 .. n]
  <2> HIDE DEF n
  <2>1. r[0] = it[{}] /\ r[n] = it[1 .. n]
    BY <1>8
  <2>2. {} \in SUBSET (1 .. n)
    OBVIOUS
  <2> QED BY <1>7, <2>1, <2>2
<1>10. ASSUME NEW m \in 0 .. n - 1
       PROVE  r[m + 1] = Step(r[m], m) /\ r[m + 1] = Step(r[m], seq[m + 1]) /\ m + 1 \in 1 .. n
  <2> DEFINE s == 1 .. m + 1
  <2>1. /\ m \in 0 .. n /\ m + 1 \in 0 .. n /\ (m + 1) - 1 = m
        /\ m + 1 \in 1 .. n /\ 1 <= m + 1 /\ m + 1 \in Int /\ 1 \in Int
    BY <1>1, SMT
  <2>2. s \in SUBSET (1 .. n)
    <3> DEFINE c == m + 1
    <3>1. c \in 1 .. n
      BY <2>1
    <3> HIDE DEF c, n
    <3>2. \A x \in 1 .. c : x \in 1 .. n
      BY <1>1, <3>1, SMT
    <3> QED BY <3>2 DEF c
  <2>3. Max(s) = m + 1 /\ s \ {m + 1} = 1 .. (m + 1) - 1 /\ s # {}
    <3> DEFINE c == m + 1
    <3>1. c \in Int /\ 1 <= c /\ 1 \in Int
      BY <2>1
    <3> HIDE DEF c
    <3>2. Max(1 .. c) = c /\ (1 .. c) \ {c} = 1 .. c - 1 /\ 1 .. c # {}
      BY <3>1, Ends
    <3> QED BY <3>2 DEF c
  <2>4. r[m + 1] = it[s]
    BY <2>1
  <2>5. it[s] = Step(it[s \ {Max(s)}], seq[Max(s)])
    <3> HIDE DEF s, n, seq
    <3> QED BY <1>7, <2>2, <2>3
  <2>6. seq[m + 1] = m
    BY <2>1
  <2> HIDE DEF s, n, seq
  <2>7. r[m] = it[1 .. m]
    BY <2>1
  <2> QED BY <2>1, <2>3, <2>4, <2>5, <2>6, <2>7
<1> HIDE DEF r
<1>11. \A m \in 0 .. n : r[m] \in Field
  <2> DEFINE S == {m \in 0 .. n : r[m] \in Field}
  <2>1. 0 \in S
    BY <1>1, <1>8, <1>9
  <2>2. ASSUME NEW m \in 0 .. n - 1, m \in S PROVE m + 1 \in S
    <3>1. m + 1 \in 0 .. n
      BY <1>1, SMT
    <3> HIDE DEF seq
    <3> QED BY <1>4, <1>10, <2>2, <3>1
  <2>3. \A m \in 0 .. n : m \in S
    <3> HIDE DEF S, n
    <3> QED BY <1>1, <2>1, <2>2, UptoInduction
  <2> QED BY <2>3
<1>12. r \in [0 .. n -> Field]
  BY <1>11 DEF r
<1> QED BY <1>2, <1>9, <1>10, <1>12 DEF Runs, Step

LEMMA SquareIs ==
  ASSUME MlDsaRingAssumption
  PROVE  Square \in Field /\ Is(Square, WORD * WORD) /\ WORD * WORD \in Int
<1>1. WORD * WORD \in Int
  <2>1. WORD \in Int
    BY FieldInt
  <2> QED BY <2>1, SMT
<1> QED BY <1>1, IsMod DEF Square

(* The factor of the way back makes Montgomery's products plain ones.      *)
LEMMA SquareTimes ==
  ASSUME MlDsaRingAssumption, NEW x \in Field
  PROVE  Mul(Square, x) \in Field /\ Is(Mul(Square, x), WORD * x)
<1> DEFINE s == Square
           m == Mul(s, x)
           e == s * x
           ww == WORD * WORD
           wx == WORD * x
           h == ww * x
           k == WORD * m
           l == WORD * wx
<1>1. s \in Field /\ Is(s, ww) /\ ww \in Int
  BY SquareIs
<1> HIDE DEF s
<1>2. m \in Field
  BY <1>1, MulIn
<1>3. x \in Int /\ s \in Int /\ m \in Int /\ WORD \in Int
  BY <1>1, <1>2, FieldInt
<1>4. Is(k, e)
  BY <1>3, MulIs
<1>5. Is(e, h)
  <2> HIDE DEF ww
  <2> QED BY <1>1, <1>3, IsTimes
<1> HIDE DEF m
<1>6. wx \in Int /\ e \in Int /\ h \in Int /\ k \in Int /\ l \in Int /\ l = h
  BY <1>3, SMT
<1>7. Is(k, l)
  <2> HIDE DEF k, e, h, l
  <2> QED BY <1>4, <1>5, <1>6, IsTrans
<1>8. Is(m, wx)
  <2>1. Is(WORD * m, WORD * wx)
    BY <1>7
  <2> HIDE DEF wx
  <2> QED BY <1>3, <1>6, <2>1, WordCancel
<1> QED BY <1>2, <1>8 DEF m, s

LEMMA BackMul ==
  ASSUME MlDsaRingAssumption, NEW a \in Field, NEW x \in Field
  PROVE  /\ Mul(a, Mul(Square, x)) \in Field
         /\ Is(Mul(a, Mul(Square, x)), a * x) /\ a * x \in Int
<1> DEFINE y == Mul(Square, x)
           m == Mul(a, y)
           ax == a * x
           wx == WORD * x
           ay == a * y
           u == a * wx
           v == WORD * ax
           k == WORD * m
<1>1. y \in Field /\ Is(y, wx)
  BY SquareTimes
<1> HIDE DEF y
<1>2. m \in Field
  BY <1>1, MulIn
<1>3. a \in Int /\ x \in Int /\ y \in Int /\ m \in Int /\ WORD \in Int
  BY <1>1, <1>2, FieldInt
<1>4. Is(k, ay)
  BY <1>3, MulIs
<1> HIDE DEF m
<1>5. /\ ax \in Int /\ wx \in Int /\ ay \in Int /\ u \in Int /\ v \in Int /\ k \in Int
      /\ u = v
  BY <1>3, SMT
<1>6. Is(ay, u)
  <2> HIDE DEF wx
  <2> QED BY <1>1, <1>3, <1>5, IsTimes
<1>7. Is(k, v)
  <2> HIDE DEF k, ay, u, v
  <2> QED BY <1>4, <1>5, <1>6, IsTrans
<1>8. Is(m, ax)
  <2>1. Is(WORD * m, WORD * ax)
    BY <1>7
  <2> HIDE DEF ax
  <2> QED BY <1>3, <1>5, <2>1, WordCancel
<1> QED BY <1>2, <1>5, <1>8 DEF m, y

(* Products of transforms are linear. *)
LEMMA PointwiseLinear ==
  ASSUME MlDsaRingAssumption, NEW f \in Polys, NEW g \in Polys, NEW h \in Polys,
         NEW a \in Field
  PROVE  /\ pointwise_montgomery(PolyAdd(f, g), h)
              = PolyAdd(pointwise_montgomery(f, h), pointwise_montgomery(g, h))
         /\ pointwise_montgomery(ScaleBy(a, f), h) = ScaleBy(a, pointwise_montgomery(f, h))
<1> DEFINE p == PolyAdd(f, g)
           q == ScaleBy(a, f)
           u == pointwise_montgomery(f, h)
           v == pointwise_montgomery(g, h)
<1>1. /\ \A i \in Index : f[i] \in Field /\ g[i] \in Field /\ h[i] \in Field
      /\ \A i \in Index : p[i] = Add(f[i], g[i]) /\ q[i] = Mul(a, f[i])
      /\ \A i \in Index : u[i] = Mul(f[i], h[i]) /\ v[i] = Mul(g[i], h[i])
  BY PolyIs DEF Polys, ScaleBy
<1>2. p \in Polys /\ q \in Polys /\ u \in Polys /\ v \in Polys
  BY PolyOps, ScaleIn
<1> HIDE DEF p, q, u, v
<1>3. /\ pointwise_montgomery(p, h) \in Polys /\ PolyAdd(u, v) \in Polys
      /\ pointwise_montgomery(q, h) \in Polys /\ ScaleBy(a, u) \in Polys
  BY <1>2, PolyOps, ScaleIn
<1>4. ASSUME NEW i \in Index
      PROVE  /\ pointwise_montgomery(p, h)[i] = PolyAdd(u, v)[i]
             /\ pointwise_montgomery(q, h)[i] = ScaleBy(a, u)[i]
  <2>1. f[i] \in Field /\ g[i] \in Field /\ h[i] \in Field
    BY <1>1
  <2>2. /\ pointwise_montgomery(p, h)[i] = Mul(p[i], h[i])
        /\ pointwise_montgomery(q, h)[i] = Mul(q[i], h[i])
        /\ PolyAdd(u, v)[i] = Add(u[i], v[i])
        /\ ScaleBy(a, u)[i] = Mul(a, u[i])
    BY PolyIs DEF ScaleBy
  <2>3. Mul(Add(f[i], g[i]), h[i]) = Add(Mul(f[i], h[i]), Mul(g[i], h[i]))
    BY <2>1, MulSums
  <2>4. Mul(Mul(a, f[i]), h[i]) = Mul(a, Mul(f[i], h[i]))
    BY <2>1, MulAssoc
  <2> QED BY <1>1, <2>2, <2>3, <2>4
<1>5. pointwise_montgomery(p, h) = PolyAdd(u, v)
  BY <1>3, <1>4, SamePoly
<1>6. pointwise_montgomery(q, h) = ScaleBy(a, u)
  BY <1>3, <1>4, SamePoly
<1> QED BY <1>5, <1>6 DEF p, q, u, v

(* The first coefficients of a polynomial. *)
Prefix(f, m) == [i \in Index |-> IF i < m THEN f[i] ELSE 0]

LEMMA PrefixIs ==
  ASSUME MlDsaRingAssumption, NEW f \in Polys
  PROVE  /\ \A m \in 0 .. N : Prefix(f, m) \in Polys
         /\ Prefix(f, 0) = ScaleBy(0, f) /\ Prefix(f, N) = f /\ 0 \in Field
         /\ \A m \in Index :
              Prefix(f, m + 1) = PolyAdd(Prefix(f, m), ScaleBy(f[m], Rot(Unit, m)))
<1>1. N \in Nat /\ N > 0 /\ 0 \in Field /\ \A i \in Index : i \in Int /\ 0 <= i /\ i < N
  BY Ring, SMT DEF Field, Index
<1>2. \A i \in Index : f[i] \in Field
  BY DEF Polys
<1>3. \A m \in 0 .. N : Prefix(f, m) \in Polys
  BY <1>1, <1>2 DEF Prefix, Polys
<1>4. Prefix(f, 0) = ScaleBy(0, f)
  <2>1. \A i \in Index : ~ (i < 0)
    BY <1>1, SMT
  <2>2. \A i \in Index : Mul(0, f[i]) = 0
    BY <1>2, MulOne
  <2> QED BY <2>1, <2>2 DEF Prefix, ScaleBy
<1>5. Prefix(f, N) = f
  BY <1>1 DEF Prefix, Polys
<1>6. ASSUME NEW m \in Index
      PROVE  Prefix(f, m + 1) = PolyAdd(Prefix(f, m), ScaleBy(f[m], Rot(Unit, m)))
  <2> DEFINE P == Prefix(f, m)
             a == f[m]
             U == Rot(Unit, m)
             V == ScaleBy(a, U)
             R == Prefix(f, m + 1)
  <2>1. m \in 0 .. N /\ m + 1 \in 0 .. N
    BY <1>1, SMT
  <2>2. P \in Polys /\ R \in Polys /\ U \in Polys /\ a \in Field
    BY <1>2, <1>3, <2>1, NttUnit, RotIs
  <2>3. V \in Polys
    <3> HIDE DEF a, U
    <3> QED BY <2>2, ScaleIn
  <2>4. PolyAdd(P, V) \in Polys
    <3> HIDE DEF P, V
    <3> QED BY <2>2, <2>3, PolyOps
  <2>5. ASSUME NEW i \in Index PROVE R[i] = PolyAdd(P, V)[i]
    <3>1. PolyAdd(P, V)[i] = Add(P[i], V[i]) /\ V[i] = Mul(a, U[i])
      <4>1. PolyAdd(P, V)[i] = Add(P[i], V[i])
        <5> HIDE DEF P, V
        <5> QED BY PolyIs
      <4> QED BY <4>1 DEF ScaleBy
    <3>2. U[i] = IF i = m THEN One ELSE 0
      <4>1. U[i] = IF m <= i THEN Unit[i - m] ELSE Sub(0, Unit[i - m + N])
        BY DEF Rot
      <4>2. CASE m <= i
        <5>1. i - m \in Index /\ (i - m = 0 <=> i = m)
          BY <1>1, <4>2, SMT DEF Index
        <5> QED BY <4>1, <4>2, <5>1 DEF Unit
      <4>3. CASE ~ (m <= i)
        <5>1. i - m + N \in Index /\ i - m + N # 0 /\ i # m
          BY <1>1, <4>3, SMT DEF Index
        <5>2. Sub(0, 0) = 0
          BY Ring, SMT DEF Sub, Lift
        <5> QED BY <4>1, <4>3, <5>1, <5>2 DEF Unit
      <4> QED BY <4>2, <4>3
    <3>3. P[i] = IF i < m THEN f[i] ELSE 0
      BY DEF Prefix
    <3>4. R[i] = IF i < m + 1 THEN f[i] ELSE 0
      BY DEF Prefix
    <3>5. /\ Mul(a, One) = a /\ Mul(a, 0) = 0 /\ Add(0, a) = a
          /\ Add(f[i], 0) = f[i] /\ Add(0, 0) = 0
      BY <1>1, <1>2, MulOne, AddLaws
    <3> HIDE DEF P, U, V, R
    <3>6. CASE i < m
      <4>1. i # m /\ i < m + 1
        BY <1>1, <3>6, SMT
      <4> QED BY <3>1, <3>2, <3>3, <3>4, <3>5, <3>6, <4>1
    <3>7. CASE i = m
      <4>1. ~ (i < m) /\ i < m + 1
        BY <1>1, <3>7, SMT
      <4> QED BY <3>1, <3>2, <3>3, <3>4, <3>5, <3>7, <4>1
    <3>8. CASE i > m
      <4>1. i # m /\ ~ (i < m) /\ ~ (i < m + 1)
        BY <1>1, <3>8, SMT
      <4> QED BY <3>1, <3>2, <3>3, <3>4, <3>5, <4>1
    <3> QED BY <1>1, <3>6, <3>7, <3>8, SMT
  <2> HIDE DEF P, V, R
  <2>6. R = PolyAdd(P, V)
    BY <2>2, <2>4, <2>5, SamePoly
  <2> QED BY <2>6 DEF P, V, R
<1> QED BY <1>1, <1>3, <1>4, <1>5, <1>6

(* What the transforms make of a product, and one coefficient more of it.  *)
Product(f, g) == intt(pointwise_montgomery(ntt(f), ntt(g)))

LEMMA ProductStep ==
  ASSUME MlDsaRingAssumption, NEW f \in Polys, NEW g \in Polys, NEW m \in Index
  PROVE  Product(Prefix(f, m + 1), g)
           = PolyAdd(Product(Prefix(f, m), g), ScaleBy(f[m], ScaleBy(Square, Rot(g, m))))
<1> DEFINE P == Prefix(f, m)
           a == f[m]
           U == Rot(Unit, m)
           V == ScaleBy(a, U)
           G == ntt(g)
           R == Rot(g, m)
<1>1. m \in 0 .. N
  BY Ring, SMT DEF Index
<1>2. P \in Polys /\ a \in Field /\ U \in Polys /\ G \in Polys /\ R \in Polys
  BY <1>1, NttUnit, RotIs, PrefixIs, Transforms DEF Polys
<1>3. Prefix(f, m + 1) = PolyAdd(P, V)
  BY PrefixIs
<1>4. ntt(R) = pointwise_montgomery(ntt(U), G)
  BY <1>1, NttRot
<1> HIDE DEF P, a, U, G, R
<1>5. V \in Polys
  BY <1>2, ScaleIn
<1> DEFINE p == ntt(P)
           u == ntt(U)
           v == ntt(V)
<1>6. ntt(PolyAdd(P, V)) = PolyAdd(p, v)
  <2> HIDE DEF V
  <2> QED BY <1>2, <1>5, NttLinear
<1>7. v = ScaleBy(a, u)
  BY <1>2, NttLinear
<1>8. p \in Polys /\ u \in Polys /\ v \in Polys
  <2> HIDE DEF V
  <2> QED BY <1>2, <1>5, Transforms
<1> HIDE DEF V, p, u, v
<1> DEFINE x == pointwise_montgomery(p, G)
           y == pointwise_montgomery(u, G)
           z == pointwise_montgomery(v, G)
<1>9. pointwise_montgomery(PolyAdd(p, v), G) = PolyAdd(x, z)
  BY <1>2, <1>8, PointwiseLinear
<1>10. z = ScaleBy(a, y)
  BY <1>2, <1>7, <1>8, PointwiseLinear
<1>11. x \in Polys /\ y \in Polys /\ z \in Polys
  BY <1>2, <1>8, PolyOps
<1> HIDE DEF x, y, z
<1>12. intt(PolyAdd(x, z)) = PolyAdd(intt(x), intt(z))
  BY <1>2, <1>11, InttLinear
<1>13. intt(z) = ScaleBy(a, intt(y))
  BY <1>2, <1>10, <1>11, InttLinear
<1>14. intt(y) = ScaleBy(Square, R)
  <2>1. y = ntt(R)
    BY <1>4 DEF y, u
  <2> QED BY <1>2, <2>1, ThereAndBack
<1>15. Product(Prefix(f, m + 1), g) = intt(PolyAdd(x, z))
  BY <1>3, <1>6, <1>9 DEF Product, G
<1>16. Product(P, g) = intt(x)
  BY DEF Product, G, p, x
<1> QED BY <1>12, <1>13, <1>14, <1>15, <1>16 DEF P, a, R

LEMMA ProductZero ==
  ASSUME MlDsaRingAssumption, NEW f \in Polys, NEW g \in Polys, NEW k \in Index
  PROVE  Product(Prefix(f, 0), g)[k] = 0
<1> DEFINE F == ntt(f)
           G == ntt(g)
           P == pointwise_montgomery(F, G)
<1>1. Prefix(f, 0) = ScaleBy(0, f) /\ 0 \in Field
  BY PrefixIs
<1>2. F \in Polys /\ G \in Polys
  BY Transforms
<1>3. ntt(ScaleBy(0, f)) = ScaleBy(0, F)
  BY <1>1, NttLinear
<1> HIDE DEF F, G
<1>4. pointwise_montgomery(ScaleBy(0, F), G) = ScaleBy(0, P)
  BY <1>1, <1>2, PointwiseLinear
<1>5. P \in Polys
  BY <1>2, PolyOps
<1> HIDE DEF P
<1>6. intt(ScaleBy(0, P)) = ScaleBy(0, intt(P))
  BY <1>1, <1>5, InttLinear
<1>7. Product(Prefix(f, 0), g) = ScaleBy(0, intt(P))
  BY <1>1, <1>3, <1>4, <1>6 DEF Product, G
<1>8. intt(P)[k] \in Field
  BY <1>5, Transforms DEF Polys
<1>9. Mul(0, intt(P)[k]) = 0
  BY <1>8, MulOne
<1> QED BY <1>7, <1>9 DEF ScaleBy

(* What the transforms make of a product is the product.                   *)
THEOREM ProductIs ==
  ASSUME MlDsaRingAssumption, NEW f \in Polys, NEW g \in Polys
  PROVE  intt(pointwise_montgomery(ntt(f), ntt(g))) = Negacyclic(f, g)
<1>1. N \in Nat /\ N > 0
  BY Ring
<1>2. \A m \in 0 .. N : Product(Prefix(f, m), g) \in Polys
  <2>1. SUFFICES ASSUME NEW m \in 0 .. N PROVE Product(Prefix(f, m), g) \in Polys
    OBVIOUS
  <2> DEFINE P == Prefix(f, m)
  <2>2. P \in Polys
    BY PrefixIs
  <2> HIDE DEF P
  <2>3. ntt(P) \in Polys /\ ntt(g) \in Polys
    BY <2>2, Transforms
  <2>4. pointwise_montgomery(ntt(P), ntt(g)) \in Polys
    BY <2>3, PolyOps
  <2>5. Product(P, g) \in Polys
    BY <2>4, Transforms DEF Product
  <2> QED BY <2>5 DEF P
<1>3. ASSUME NEW k \in Index PROVE Product(f, g)[k] = Negacyclic(f, g)[k]
  <2>1. PICK r : /\ Runs(r, N, Field, 0) /\ Negacyclic(f, g)[k] = r[N]
                 /\ \A m \in 0 .. N - 1 : r[m + 1] = (r[m] + Term(f, g, k, m)) % Q
    BY NegacyclicRun
  <2> DEFINE S == {m \in 0 .. N : Product(Prefix(f, m), g)[k] = r[m]}
  <2>2. 0 \in S
    <3>1. 0 \in 0 .. N
      BY <1>1, SMT
    <3> QED BY <2>1, <3>1, ProductZero DEF Runs
  <2>3. ASSUME NEW m \in 0 .. N - 1, m \in S PROVE m + 1 \in S
    <3> DEFINE x == r[m]
               R == Rot(g, m)
               a == f[m]
               b == R[k]
               c == Mul(a, Mul(Square, b))
               t == Term(f, g, k, m)
               ab == a * b
               W == Product(Prefix(f, m), g)
    <3>1. m \in Index /\ m \in 0 .. N /\ m + 1 \in 0 .. N
      BY <1>1, SMT DEF Index
    <3>2. R \in Polys
      BY <3>1, RotIs
    <3>3. b \in Field /\ a \in Field /\ x \in Field
      BY <2>1, <3>1, <3>2 DEF Polys, Runs
    <3>4. c \in Field /\ Is(c, ab) /\ ab \in Int
      <4> HIDE DEF a, b
      <4> QED BY <3>3, BackMul
    <3>5. t \in Int /\ Is(t, ab)
      BY <3>1, TermIs
    <3>6. Product(Prefix(f, m + 1), g)[k] = Add(x, c)
      <4>1. Product(Prefix(f, m + 1), g) = PolyAdd(W, ScaleBy(a, ScaleBy(Square, R)))
        BY <3>1, ProductStep
      <4>2. W[k] = x
        BY <2>3
      <4> HIDE DEF W, R, a
      <4>3. ScaleBy(a, ScaleBy(Square, R))[k] = c
        BY DEF ScaleBy, b, c
      <4> DEFINE Y == ScaleBy(a, ScaleBy(Square, R))
      <4>4. PolyAdd(W, Y)[k] = Add(W[k], Y[k])
        <5> HIDE DEF Y
        <5> QED BY PolyIs
      <4> QED BY <4>1, <4>2, <4>3, <4>4
    <3>7. r[m + 1] = (x + t) % Q
      BY <2>1
    <3> HIDE DEF x, c, t, ab, W, R, a, b
    <3> DEFINE y == Add(x, c)
               z == (x + t) % Q
               xc == x + c
               xt == x + t
               xp == x + ab
    <3>8. x \in Int /\ c \in Int /\ xc \in Int /\ xt \in Int /\ xp \in Int
      <4>1. x \in Int /\ c \in Int
        BY <3>3, <3>4, FieldInt
      <4> QED BY <3>4, <3>5, <4>1, SMT
    <3>9. y \in Field /\ Is(y, xc)
      BY <3>3, <3>4, <3>8, AddIn, AddIs
    <3>10. z \in Field /\ Is(z, xt)
      BY <3>8, IsMod
    <3>11. Is(x, x)
      BY <3>8, IsRefl
    <3>12. Is(xc, xp)
      BY <3>4, <3>8, <3>11, IsPlus
    <3>13. Is(xt, xp)
      BY <3>4, <3>5, <3>8, <3>11, IsPlus
    <3> HIDE DEF y, z, xc, xt, xp
    <3>14. y \in Int /\ z \in Int
      BY <3>9, <3>10, FieldInt
    <3>15. Is(y, xp)
      BY <3>8, <3>9, <3>12, <3>14, IsTrans
    <3>16. Is(z, xp)
      BY <3>8, <3>10, <3>13, <3>14, IsTrans
    <3>17. Is(y, z)
      BY <3>8, <3>14, <3>15, <3>16, IsMeet
    <3>18. y = z
      BY <3>9, <3>10, <3>17, FieldEqual
    <3> QED BY <3>1, <3>6, <3>7, <3>18 DEF y, z
  <2>4. N \in S
    <3>1. N \in 0 .. N
      BY <1>1, SMT
    <3> HIDE DEF S
    <3> QED BY <1>1, <2>2, <2>3, <3>1, UptoInduction
  <2>5. Prefix(f, N) = f
    BY PrefixIs
  <2> QED BY <2>1, <2>4, <2>5
<1>4. Product(f, g) \in Polys
  <2>1. N \in 0 .. N /\ Prefix(f, N) = f
    BY <1>1, PrefixIs, SMT
  <2> QED BY <1>2, <2>1
<1>5. Product(f, g) = [k \in Index |-> Product(f, g)[k]]
  BY <1>4 DEF Polys
<1>6. Negacyclic(f, g) = [k \in Index |-> Negacyclic(f, g)[k]]
  BY DEF Negacyclic
<1>7. Product(f, g) = Negacyclic(f, g)
  BY <1>3, <1>5, <1>6
<1> QED BY <1>7 DEF Product

-----------------------------------------------------------------------------
(* Rows of a matrix, and what signer and verifier make of one.             *)

(* One row of a matrix times a vector.                                     *)
RowTimes(row, v) ==
  FoldLeft(LAMBDA f, s : PolyAdd(f, pointwise_montgomery(row[s], v[s])),
           ZeroPoly, [s \in DOMAIN v |-> s])

(* A product of a row and a vector as the sums the code goes through.      *)
LEMMA RowRun ==
  ASSUME MlDsaRingAssumption, NEW n \in Nat,
         NEW row \in [1 .. n -> Polys], NEW v \in [1 .. n -> Polys]
  PROVE  \E r : /\ Runs(r, n, Polys, ZeroPoly) /\ RowTimes(row, v) = r[n]
                /\ \A k \in 0 .. n - 1 :
                     r[k + 1] = PolyAdd(r[k], pointwise_montgomery(row[k + 1], v[k + 1]))
<1> DEFINE Step(f, k) == PolyAdd(f, pointwise_montgomery(row[k], v[k]))
           pick == [s \in SUBSET (1 .. n) |-> Max(s)]
           next == [s \in SUBSET (1 .. n) |-> [g \in Polys |-> Step(g, Max(s))]]
           IsFold(h) == h = [s \in SUBSET (1 .. n) |->
                               IF s = {} THEN ZeroPoly
                               ELSE Step(h[s \ {Max(s)}], [i \in 1 .. n |-> i][Max(s)])]
           it == CHOOSE h : IsFold(h)
<1>1. \A f \in Polys, k \in 1 .. n : Step(f, k) \in Polys
  BY PolyOps
<1>2. RowTimes(row, v) = it[1 .. n]
  BY DEF RowTimes, FoldLeft, MapThenFoldSet
<1> HIDE DEF Step
<1>3. Picks(n, pick)
  BY LastPick
<1>4. \A s \in SUBSET (1 .. n), g \in Polys :
        s # {} => /\ next[s][g] = Step(g, [i \in 1 .. n |-> i][Max(s)])
                  /\ next[s][g] \in Polys
  BY <1>1, <1>3 DEF Picks
<1>5. \E h : IsFold(h)
  <2>1. PICK h : /\ Folds(h, SUBSET (1 .. n), ZeroPoly, pick, next)
                 /\ \A s \in SUBSET (1 .. n) : h[s] \in Polys
    <3>1. \A s \in SUBSET (1 .. n), g \in Polys : s # {} => next[s][g] \in Polys
      BY <1>4
    <3>2. ZeroPoly \in Polys
      BY PolyOps
    <3> HIDE DEF pick, next
    <3> QED BY <1>3, <3>1, <3>2, FoldExists
  <2>2. \A s \in SUBSET (1 .. n) : s \ {Max(s)} \in SUBSET (1 .. n)
    OBVIOUS
  <2>3. h = [s \in SUBSET (1 .. n) |->
               IF s = {} THEN ZeroPoly ELSE next[s][h[s \ {pick[s]}]]]
    BY <2>1 DEF Folds
  <2>4. IsFold(h)
    <3>1. \A s \in SUBSET (1 .. n) :
            s # {} => next[s][h[s \ {pick[s]}]]
                        = Step(h[s \ {Max(s)}], [i \in 1 .. n |-> i][Max(s)])
      BY <1>4, <2>1, <2>2
    <3> HIDE DEF pick, next
    <3> QED BY <2>3, <3>1
  <2> QED BY <2>4
<1>6. IsFold(it)
  BY <1>5
<1> HIDE DEF it
<1> DEFINE r == [k \in 0 .. n |-> it[1 .. k]]
<1>7. 1 .. 0 = {} /\ 0 \in 0 .. n /\ n \in 0 .. n
  BY SMT
<1>8. r[0] = ZeroPoly /\ r[n] = it[1 .. n]
  <2>1. r[0] = it[{}] /\ r[n] = it[1 .. n]
    BY <1>7
  <2>2. {} \in SUBSET (1 .. n)
    OBVIOUS
  <2> QED BY <1>6, <2>1, <2>2
<1>9. ASSUME NEW k \in 0 .. n - 1
      PROVE  r[k + 1] = Step(r[k], k + 1) /\ k + 1 \in 1 .. n
  <2> DEFINE c == k + 1
             s == 1 .. c
  <2>1. /\ k \in 0 .. n /\ c \in 0 .. n /\ c - 1 = k
        /\ c \in 1 .. n /\ 1 <= c /\ c \in Int /\ 1 \in Int
    BY SMT
  <2> HIDE DEF c
  <2>2. s \in SUBSET (1 .. n)
    <3>1. \A x \in 1 .. c : x \in 1 .. n
      BY <2>1, SMT
    <3> QED BY <3>1
  <2>3. Max(s) = c /\ s \ {c} = 1 .. c - 1 /\ s # {}
    BY <2>1, Ends
  <2>4. r[c] = it[s]
    BY <2>1
  <2>5. it[s] = Step(it[s \ {Max(s)}], [i \in 1 .. n |-> i][Max(s)])
    <3> HIDE DEF s
    <3> QED BY <1>6, <2>2, <2>3
  <2> HIDE DEF s
  <2>6. r[k] = it[1 .. k]
    BY <2>1
  <2>7. [i \in 1 .. n |-> i][c] = c
    BY <2>1
  <2>8. r[c] = Step(r[k], c)
    BY <2>1, <2>3, <2>4, <2>5, <2>6, <2>7
  <2> QED BY <2>1, <2>8 DEF c
<1> HIDE DEF r
<1>10. \A k \in 0 .. n : r[k] \in Polys
  <2> DEFINE S == {k \in 0 .. n : r[k] \in Polys}
  <2>1. 0 \in S
    BY <1>7, <1>8, PolyOps
  <2>2. ASSUME NEW k \in 0 .. n - 1, k \in S PROVE k + 1 \in S
    <3>1. k + 1 \in 0 .. n
      BY SMT
    <3> QED BY <1>1, <1>9, <2>2, <3>1
  <2>3. \A k \in 0 .. n : k \in S
    <3> HIDE DEF S
    <3> QED BY <2>1, <2>2, UptoInduction
  <2> QED BY <2>3
<1>11. r \in [0 .. n -> Polys]
  BY <1>10 DEF r
<1> QED BY <1>2, <1>8, <1>9, <1>11 DEF Runs, Step

(* It is a polynomial.                                                     *)
LEMMA RowIn ==
  ASSUME MlDsaRingAssumption, NEW n \in Nat,
         NEW row \in [1 .. n -> Polys], NEW v \in [1 .. n -> Polys]
  PROVE  RowTimes(row, v) \in Polys
<1>1. PICK r : Runs(r, n, Polys, ZeroPoly) /\ RowTimes(row, v) = r[n]
  BY RowRun
<1> QED BY <1>1 DEF Runs

(* Products of polynomials in the transform's domain.                      *)
LEMMA PointwiseLaws ==
  ASSUME MlDsaRingAssumption, NEW f \in Polys, NEW g \in Polys, NEW h \in Polys
  PROVE  /\ pointwise_montgomery(f, pointwise_montgomery(g, h))
              = pointwise_montgomery(g, pointwise_montgomery(f, h))
         /\ pointwise_montgomery(f, PolyAdd(g, h))
              = PolyAdd(pointwise_montgomery(f, g), pointwise_montgomery(f, h))
         /\ pointwise_montgomery(f, PolySub(g, h))
              = PolySub(pointwise_montgomery(f, g), pointwise_montgomery(f, h))
         /\ pointwise_montgomery(f, ZeroPoly) = ZeroPoly
<1> DEFINE P(x, y) == pointwise_montgomery(x, y)
           A == PolyAdd(g, h)
           B == PolySub(g, h)
           C == P(f, g)
           E == P(f, h)
           G == P(g, h)
<1>1. /\ \A i \in Index : f[i] \in Field /\ g[i] \in Field /\ h[i] \in Field
      /\ \A i \in Index : A[i] = Add(g[i], h[i]) /\ B[i] = Sub(g[i], h[i])
      /\ \A i \in Index : C[i] = Mul(f[i], g[i]) /\ E[i] = Mul(f[i], h[i]) /\ G[i] = Mul(g[i], h[i])
      /\ \A i \in Index : ZeroPoly[i] = 0
  BY PolyIs DEF Polys
<1>2. A \in Polys /\ B \in Polys /\ C \in Polys /\ E \in Polys /\ G \in Polys /\ ZeroPoly \in Polys
  BY PolyOps
<1> HIDE DEF A, B, C, E, G
<1>3. /\ P(f, G) \in Polys /\ P(g, E) \in Polys /\ P(f, A) \in Polys /\ PolyAdd(C, E) \in Polys
      /\ P(f, B) \in Polys /\ PolySub(C, E) \in Polys /\ P(f, ZeroPoly) \in Polys
  BY <1>2, PolyOps
<1>4. ASSUME NEW i \in Index
      PROVE  /\ P(f, G)[i] = P(g, E)[i] /\ P(f, A)[i] = PolyAdd(C, E)[i]
             /\ P(f, B)[i] = PolySub(C, E)[i] /\ P(f, ZeroPoly)[i] = ZeroPoly[i]
  <2> DEFINE a == f[i]
             b == g[i]
             c == h[i]
  <2>1. a \in Field /\ b \in Field /\ c \in Field
    BY <1>1
  <2>2. /\ P(f, G)[i] = Mul(a, G[i]) /\ P(g, E)[i] = Mul(b, E[i]) /\ P(f, A)[i] = Mul(a, A[i])
        /\ P(f, B)[i] = Mul(a, B[i]) /\ P(f, ZeroPoly)[i] = Mul(a, 0)
        /\ PolyAdd(C, E)[i] = Add(C[i], E[i]) /\ PolySub(C, E)[i] = Sub(C[i], E[i])
    BY <1>1, PolyIs
  <2>3. /\ A[i] = Add(b, c) /\ B[i] = Sub(b, c) /\ C[i] = Mul(a, b) /\ E[i] = Mul(a, c)
        /\ G[i] = Mul(b, c) /\ ZeroPoly[i] = 0
    BY <1>1
  <2> HIDE DEF a, b, c
  <2>4. Mul(Mul(a, b), c) = Mul(a, Mul(b, c))
    BY <2>1, MulAssoc
  <2>5. Mul(Mul(b, a), c) = Mul(b, Mul(a, c))
    BY <2>1, MulAssoc
  <2>6. Mul(a, b) = Mul(b, a)
    BY <2>1, MulComm
  <2>7. Mul(a, Add(b, c)) = Add(Mul(a, b), Mul(a, c))
    BY <2>1, MulAdd
  <2>8. Mul(a, Sub(b, c)) = Sub(Mul(a, b), Mul(a, c))
    BY <2>1, MulSub
  <2>9. Mul(a, 0) = 0
    BY <2>1, MulOne
  <2> QED BY <2>2, <2>3, <2>4, <2>5, <2>6, <2>7, <2>8, <2>9
<1>5. P(f, G) = P(g, E)
  BY <1>3, <1>4, SamePoly
<1>6. P(f, A) = PolyAdd(C, E)
  BY <1>3, <1>4, SamePoly
<1>7. P(f, B) = PolySub(C, E)
  BY <1>3, <1>4, SamePoly
<1>8. P(f, ZeroPoly) = ZeroPoly
  BY <1>2, <1>3, <1>4, SamePoly
<1> QED BY <1>5, <1>6, <1>7, <1>8 DEF A, B, C, E, G

(* Sums and differences of polynomials.                                    *)
LEMMA PolyLaws ==
  ASSUME MlDsaRingAssumption, NEW f \in Polys, NEW g \in Polys
  PROVE  /\ PolyAdd(f, ZeroPoly) = f /\ PolyAdd(ZeroPoly, ZeroPoly) = ZeroPoly
         /\ PolyAdd(PolySub(f, g), g) = f /\ PolySub(PolyAdd(f, g), g) = f
<1> DEFINE A == PolyAdd(f, ZeroPoly)
           B == PolySub(f, g)
           C == PolyAdd(f, g)
           Z == PolyAdd(ZeroPoly, ZeroPoly)
<1>1. ZeroPoly \in Polys /\ A \in Polys /\ B \in Polys /\ C \in Polys /\ Z \in Polys
  BY PolyOps
<1>2. /\ \A i \in Index : f[i] \in Field /\ g[i] \in Field /\ ZeroPoly[i] = 0
      /\ \A i \in Index : A[i] = Add(f[i], 0) /\ B[i] = Sub(f[i], g[i]) /\ C[i] = Add(f[i], g[i])
      /\ \A i \in Index : Z[i] = Add(0, 0)
  BY PolyIs DEF Polys
<1> HIDE DEF A, B, C, Z
<1>3. PolyAdd(B, g) \in Polys /\ PolySub(C, g) \in Polys
  BY <1>1, PolyOps
<1>4. ASSUME NEW i \in Index
      PROVE  A[i] = f[i] /\ Z[i] = ZeroPoly[i] /\ PolyAdd(B, g)[i] = f[i] /\ PolySub(C, g)[i] = f[i]
  <2> DEFINE a == f[i]
             b == g[i]
  <2>1. a \in Field /\ b \in Field
    BY <1>2
  <2>2. PolyAdd(B, g)[i] = Add(Sub(a, b), b) /\ PolySub(C, g)[i] = Sub(Add(a, b), b)
    BY <1>2, PolyIs
  <2>3. A[i] = Add(a, 0) /\ Z[i] = Add(0, 0) /\ ZeroPoly[i] = 0
    BY <1>2
  <2> HIDE DEF a, b
  <2>4. Add(a, 0) = a /\ Add(Sub(a, b), b) = a /\ Sub(Add(a, b), b) = a /\ 0 \in Field
    BY <2>1, AddLaws
  <2>5. Add(0, 0) = 0
    BY <2>4, AddLaws
  <2> QED BY <2>2, <2>3, <2>4, <2>5 DEF a
<1>5. A = f
  BY <1>1, <1>4, SamePoly
<1>6. Z = ZeroPoly
  BY <1>1, <1>4, SamePoly
<1>7. PolyAdd(B, g) = f
  BY <1>3, <1>4, SamePoly
<1>8. PolySub(C, g) = f
  BY <1>3, <1>4, SamePoly
<1> QED BY <1>5, <1>6, <1>7, <1>8 DEF A, B, C, Z

(* The transforms of a difference.                                         *)
LEMMA NttSub ==
  ASSUME MlDsaRingAssumption, NEW f \in Polys, NEW g \in Polys
  PROVE  /\ ntt(PolySub(f, g)) = PolySub(ntt(f), ntt(g))
         /\ intt(PolySub(f, g)) = PolySub(intt(f), intt(g))
<1> DEFINE d == PolySub(f, g)
<1>1. d \in Polys /\ PolyAdd(d, g) = f
  BY PolyOps, PolyLaws
<1>2. 0 \in Field
  BY MulOne, AddLaws, Ring, SMT DEF Field
<1> HIDE DEF d
<1>3. ntt(f) = PolyAdd(ntt(d), ntt(g))
  BY <1>1, <1>2, NttLinear
<1>4. intt(f) = PolyAdd(intt(d), intt(g))
  BY <1>1, <1>2, InttLinear
<1>5. ntt(d) \in Polys /\ intt(d) \in Polys
  BY <1>1, Transforms
<1>6. ntt(g) \in Polys /\ intt(g) \in Polys
  BY Transforms
<1>7. PolySub(PolyAdd(ntt(d), ntt(g)), ntt(g)) = ntt(d)
  BY <1>5, <1>6, PolyLaws
<1>8. PolySub(PolyAdd(intt(d), intt(g)), intt(g)) = intt(d)
  BY <1>5, <1>6, PolyLaws
<1> QED BY <1>3, <1>4, <1>7, <1>8 DEF d

LEMMA PolyAdd4 ==
  ASSUME MlDsaRingAssumption,
         NEW a \in Polys, NEW b \in Polys, NEW c \in Polys, NEW d \in Polys
  PROVE  PolyAdd(PolyAdd(a, b), PolyAdd(c, d)) = PolyAdd(PolyAdd(a, c), PolyAdd(b, d))
<1> DEFINE p == PolyAdd(a, b)
           q == PolyAdd(c, d)
           r == PolyAdd(a, c)
           s == PolyAdd(b, d)
<1>1. p \in Polys /\ q \in Polys /\ r \in Polys /\ s \in Polys
  BY PolyOps
<1>2. \A i \in Index : /\ p[i] = Add(a[i], b[i]) /\ q[i] = Add(c[i], d[i])
                       /\ r[i] = Add(a[i], c[i]) /\ s[i] = Add(b[i], d[i])
                       /\ a[i] \in Field /\ b[i] \in Field /\ c[i] \in Field /\ d[i] \in Field
  BY PolyIs DEF Polys
<1> HIDE DEF p, q, r, s
<1>3. PolyAdd(p, q) \in Polys /\ PolyAdd(r, s) \in Polys
  BY <1>1, PolyOps
<1>4. ASSUME NEW i \in Index PROVE PolyAdd(p, q)[i] = PolyAdd(r, s)[i]
  <2>1. PolyAdd(p, q)[i] = Add(p[i], q[i]) /\ PolyAdd(r, s)[i] = Add(r[i], s[i])
    BY PolyIs
  <2> QED BY <1>2, <2>1, Add4
<1>5. PolyAdd(p, q) = PolyAdd(r, s)
  BY <1>3, <1>4, SamePoly
<1> QED BY <1>5 DEF p, q, r, s

(* Vectors of n polynomials.                                               *)
Vectors(n) == [1 .. n -> Polys]

(* A row's product is linear in the vector.                                *)
Mixed(n, u, c, v) == [j \in 1 .. n |-> PolyAdd(u[j], pointwise_montgomery(c, v[j]))]

LEMMA RowLinear ==
  ASSUME MlDsaRingAssumption, NEW n \in Nat, NEW row \in Vectors(n),
         NEW u \in Vectors(n), NEW v \in Vectors(n), NEW c \in Polys,
         NEW w, w = Mixed(n, u, c, v)
  PROVE  /\ w \in Vectors(n)
         /\ RowTimes(row, w)
              = PolyAdd(RowTimes(row, u), pointwise_montgomery(c, RowTimes(row, v)))
<1> DEFINE P(x, y) == pointwise_montgomery(x, y)
<1>0. row \in [1 .. n -> Polys] /\ u \in [1 .. n -> Polys] /\ v \in [1 .. n -> Polys]
  BY DEF Vectors
<1>1. w \in [1 .. n -> Polys]
  BY <1>0, PolyOps DEF Mixed
<1>2. PICK ru : /\ Runs(ru, n, Polys, ZeroPoly) /\ RowTimes(row, u) = ru[n]
                /\ \A k \in 0 .. n - 1 : ru[k + 1] = PolyAdd(ru[k], P(row[k + 1], u[k + 1]))
  BY <1>0, RowRun
<1>3. PICK rv : /\ Runs(rv, n, Polys, ZeroPoly) /\ RowTimes(row, v) = rv[n]
                /\ \A k \in 0 .. n - 1 : rv[k + 1] = PolyAdd(rv[k], P(row[k + 1], v[k + 1]))
  BY <1>0, RowRun
<1>4. PICK rw : /\ Runs(rw, n, Polys, ZeroPoly) /\ RowTimes(row, w) = rw[n]
                /\ \A k \in 0 .. n - 1 : rw[k + 1] = PolyAdd(rw[k], P(row[k + 1], w[k + 1]))
  BY <1>0, <1>1, RowRun
<1> DEFINE S == {k \in 0 .. n : rw[k] = PolyAdd(ru[k], P(c, rv[k]))}
<1>5. 0 \in S
  <2>1. 0 \in 0 .. n
    BY SMT
  <2>2. ru[0] = ZeroPoly /\ rv[0] = ZeroPoly /\ rw[0] = ZeroPoly
    BY <1>2, <1>3, <1>4 DEF Runs
  <2>3. ZeroPoly \in Polys
    BY PolyOps
  <2>4. P(c, ZeroPoly) = ZeroPoly
    BY <2>3, PointwiseLaws
  <2>5. PolyAdd(ZeroPoly, ZeroPoly) = ZeroPoly
    BY <2>3, PolyLaws
  <2> QED BY <2>1, <2>2, <2>4, <2>5
<1>6. ASSUME NEW k \in 0 .. n - 1, k \in S PROVE k + 1 \in S
  <2> DEFINE m == k + 1
             U == ru[k]
             V == rv[k]
             a == row[m]
             x == u[m]
             y == v[m]
  <2>1. k \in 0 .. n /\ m \in 0 .. n /\ m \in 1 .. n
    BY SMT
  <2>2. U \in Polys /\ V \in Polys
    BY <1>2, <1>3, <2>1 DEF Runs
  <2>3. /\ ru[m] = PolyAdd(U, P(a, x)) /\ rv[m] = PolyAdd(V, P(a, y))
        /\ rw[m] = PolyAdd(PolyAdd(U, P(c, V)), P(a, w[m]))
    <3>1. rw[k] = PolyAdd(U, P(c, V))
      BY <1>6
    <3> QED BY <1>2, <1>3, <1>4, <3>1
  <2> HIDE DEF m
  <2>4. a \in Polys /\ x \in Polys /\ y \in Polys /\ w[m] = PolyAdd(x, P(c, y))
    BY <1>0, <2>1 DEF Mixed
  <2> HIDE DEF U, V, a, x, y
  <2>5. P(c, y) \in Polys /\ P(c, V) \in Polys /\ P(a, x) \in Polys /\ P(a, y) \in Polys
    BY <2>2, <2>4, PolyOps
  <2>6. P(a, PolyAdd(x, P(c, y))) = PolyAdd(P(a, x), P(a, P(c, y)))
    BY <2>4, <2>5, PointwiseLaws
  <2>7. P(a, P(c, y)) = P(c, P(a, y))
    BY <2>4, PointwiseLaws
  <2>8. P(c, P(a, y)) \in Polys
    BY <2>5, PolyOps
  <2>9. PolyAdd(PolyAdd(U, P(c, V)), PolyAdd(P(a, x), P(c, P(a, y))))
          = PolyAdd(PolyAdd(U, P(a, x)), PolyAdd(P(c, V), P(c, P(a, y))))
    BY <2>2, <2>5, <2>8, PolyAdd4
  <2>10. P(c, PolyAdd(V, P(a, y))) = PolyAdd(P(c, V), P(c, P(a, y)))
    BY <2>2, <2>5, PointwiseLaws
  <2>11. rw[m] = PolyAdd(ru[m], P(c, rv[m]))
    BY <2>3, <2>4, <2>6, <2>7, <2>9, <2>10
  <2> QED BY <2>1, <2>11 DEF m
<1>7. n \in S
  <2>1. n \in 0 .. n
    BY SMT
  <2> HIDE DEF S
  <2> QED BY <1>5, <1>6, <2>1, UptoInduction
<1> QED BY <1>1, <1>2, <1>3, <1>4, <1>7 DEF Vectors

(* What cancels when the verifier takes ct from az.                        *)
LEMMA Cancels ==
  ASSUME MlDsaRingAssumption,
         NEW w \in Polys, NEW x \in Polys, NEW p \in Polys, NEW q \in Polys
  PROVE  PolySub(PolyAdd(w, x), PolySub(PolyAdd(x, p), q)) = PolyAdd(PolySub(w, p), q)
<1> DEFINE a == PolyAdd(w, x)
           b == PolyAdd(x, p)
           c == PolySub(b, q)
           d == PolySub(w, p)
<1>1. a \in Polys /\ b \in Polys /\ d \in Polys
  BY PolyOps
<1>2. c \in Polys
  <2> HIDE DEF b
  <2> QED BY <1>1, PolyOps
<1>3. \A i \in Index : /\ a[i] = Add(w[i], x[i]) /\ b[i] = Add(x[i], p[i])
                       /\ c[i] = Sub(b[i], q[i]) /\ d[i] = Sub(w[i], p[i])
                       /\ w[i] \in Field /\ x[i] \in Field /\ p[i] \in Field /\ q[i] \in Field
  BY PolyIs DEF Polys
<1> HIDE DEF a, b, c, d
<1>4. PolySub(a, c) \in Polys /\ PolyAdd(d, q) \in Polys
  BY <1>1, <1>2, PolyOps
<1>5. ASSUME NEW i \in Index PROVE PolySub(a, c)[i] = PolyAdd(d, q)[i]
  <2> DEFINE e == w[i]
             f == x[i]
             g == p[i]
             h == q[i]
             m == Add(e, f)
             n == Add(f, g)
  <2>1. e \in Field /\ f \in Field /\ g \in Field /\ h \in Field
    BY <1>3
  <2>2. PolySub(a, c)[i] = Sub(m, Sub(n, h)) /\ PolyAdd(d, q)[i] = Add(Sub(e, g), h)
    BY <1>3, PolyIs
  <2> HIDE DEF e, f, g, h
  <2>3. m \in Field /\ n \in Field
    BY <2>1, AddIn
  <2>4. Sub(Sub(m, f), g) = Sub(m, n)
    <3> HIDE DEF m
    <3> QED BY <2>1, <2>3, AddLaws
  <2>5. Sub(m, f) = e
    BY <2>1, AddLaws
  <2> HIDE DEF m, n
  <2>6. Sub(m, Sub(n, h)) = Add(Sub(m, n), h)
    BY <2>1, <2>3, AddLaws
  <2> QED BY <2>2, <2>4, <2>5, <2>6
<1>6. PolySub(a, c) = PolyAdd(d, q)
  BY <1>4, <1>5, SamePoly
<1> QED BY <1>6 DEF a, b, c, d

LEMMA ScaledAcross ==
  ASSUME MlDsaRingAssumption, NEW a \in Field, NEW c \in Polys, NEW s \in Polys
  PROVE  pointwise_montgomery(c, ScaleBy(a, s)) = pointwise_montgomery(ScaleBy(a, c), s)
<1> DEFINE x == ScaleBy(a, s)
           y == ScaleBy(a, c)
<1>1. x \in Polys /\ y \in Polys
  BY ScaleIn
<1>2. \A i \in Index : /\ x[i] = Mul(a, s[i]) /\ y[i] = Mul(a, c[i])
                       /\ c[i] \in Field /\ s[i] \in Field
  BY DEF ScaleBy, Polys
<1> HIDE DEF x, y
<1>3. pointwise_montgomery(c, x) \in Polys /\ pointwise_montgomery(y, s) \in Polys
  BY <1>1, PolyOps
<1>4. ASSUME NEW i \in Index
      PROVE  pointwise_montgomery(c, x)[i] = pointwise_montgomery(y, s)[i]
  <2> DEFINE b == c[i]
             d == s[i]
  <2>1. b \in Field /\ d \in Field
    BY <1>2
  <2>2. pointwise_montgomery(c, x)[i] = Mul(b, Mul(a, d))
        /\ pointwise_montgomery(y, s)[i] = Mul(Mul(a, b), d)
    BY <1>2, PolyIs
  <2> HIDE DEF b, d
  <2>3. Mul(Mul(b, a), d) = Mul(b, Mul(a, d)) /\ Mul(b, a) = Mul(a, b)
    BY <2>1, MulAssoc, MulComm
  <2> QED BY <2>2, <2>3
<1>5. pointwise_montgomery(c, x) = pointwise_montgomery(y, s)
  BY <1>3, <1>4, SamePoly
<1> QED BY <1>5 DEF x, y

(* A row of what the verifier computes: w less cs2 and plus ct0.           *)
LEMMA RowVerifies ==
  ASSUME MlDsaRingAssumption, NEW n \in Nat, NEW row \in Vectors(n),
         NEW y \in Vectors(n), NEW s \in Vectors(n), NEW c \in Polys,
         NEW s2 \in Polys, NEW t0 \in Polys, NEW t,
         t = PolySub(PolyAdd(intt(RowTimes(row, s)), s2), t0),
         NEW z, z = Mixed(n, y, ScaleBy(Square, c), s)
  PROVE  intt(PolySub(RowTimes(row, z), pointwise_montgomery(c, ntt(t))))
           = PolyAdd(PolySub(intt(RowTimes(row, y)), intt(pointwise_montgomery(c, ntt(s2)))),
                     intt(pointwise_montgomery(c, ntt(t0))))
<1> DEFINE P(f, g) == pointwise_montgomery(f, g)
           C == ScaleBy(Square, c)
           W == RowTimes(row, y)
           S == RowTimes(row, s)
           x == P(C, S)
           p == P(c, ntt(s2))
           q == P(c, ntt(t0))
           sum == PolyAdd(intt(S), s2)
<1>0. row \in [1 .. n -> Polys] /\ y \in [1 .. n -> Polys] /\ s \in [1 .. n -> Polys]
  BY DEF Vectors
<1>1. Square \in Field /\ 0 \in Field
  BY SquareIs, MulOne, AddLaws, Ring, SMT DEF Field
<1>2. C \in Polys /\ W \in Polys /\ S \in Polys
  BY <1>0, <1>1, ScaleIn, RowIn
<1>3. ntt(s2) \in Polys /\ ntt(t0) \in Polys
  BY Transforms
<1>4. p \in Polys /\ q \in Polys
  BY <1>3, PolyOps
<1>5. RowTimes(row, z) = PolyAdd(W, x)
  <2>1. z = Mixed(n, y, C, s) /\ C \in Polys
    BY <1>2 
  <2> HIDE DEF C
  <2>2. RowTimes(row, z)
          = PolyAdd(RowTimes(row, y), pointwise_montgomery(C, RowTimes(row, s)))
    BY <2>1, RowLinear
  <2> QED BY <2>2
<1> HIDE DEF C, W, S
<1>6. x \in Polys
  BY <1>2, PolyOps
<1>7. intt(S) \in Polys /\ ntt(intt(S)) = ScaleBy(Square, S)
  BY <1>2, Transforms, BackAndThere
<1>8. sum \in Polys /\ ntt(sum) = PolyAdd(ScaleBy(Square, S), ntt(s2))
  BY <1>1, <1>7, PolyOps, NttLinear
<1>9. t = PolySub(sum, t0)
  BY DEF S
<1> HIDE DEF sum
<1>10. ntt(t) = PolySub(PolyAdd(ScaleBy(Square, S), ntt(s2)), ntt(t0))
  BY <1>8, <1>9, NttSub
<1> DEFINE e == ScaleBy(Square, S)
           f == PolyAdd(e, ntt(s2))
<1>11. e \in Polys /\ P(c, e) = x
  BY <1>1, <1>2, ScaleIn, ScaledAcross DEF C
<1> HIDE DEF e, x
<1>12. f \in Polys /\ P(c, f) = PolyAdd(x, p)
  BY <1>3, <1>11, PolyOps, PointwiseLaws
<1>13. ntt(t) = PolySub(f, ntt(t0))
  BY <1>10 DEF e
<1> HIDE DEF f
<1>14. P(c, ntt(t)) = PolySub(PolyAdd(x, p), q)
  BY <1>3, <1>12, <1>13, PointwiseLaws
<1> HIDE DEF p, q
<1>15. PolySub(PolyAdd(W, x), PolySub(PolyAdd(x, p), q)) = PolyAdd(PolySub(W, p), q)
  BY <1>2, <1>4, <1>6, Cancels
<1> DEFINE d == PolySub(W, p)
<1>16. d \in Polys /\ intt(d) = PolySub(intt(W), intt(p))
  BY <1>2, <1>4, PolyOps, NttSub
<1> HIDE DEF d
<1>17. intt(PolyAdd(d, q)) = PolyAdd(intt(d), intt(q))
  BY <1>1, <1>4, <1>16, InttLinear
<1>18. intt(PolySub(RowTimes(row, z), P(c, ntt(t)))) = PolyAdd(PolySub(intt(W), intt(p)), intt(q))
  BY <1>5, <1>14, <1>15, <1>16, <1>17 DEF d
<1> QED BY <1>18 DEF W, p, q
=============================================================================
