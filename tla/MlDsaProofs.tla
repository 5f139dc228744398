----------------------------- MODULE MlDsaProofs ----------------------------
(***************************************************************************)
(* What sign returns, verify accepts; what verify accepts, sign returned,  *)
(* for its own request and in its own bytes; and no two masks of one call  *)
(* of sign come from one nonce: for every parameter set, every key, mask   *)
(* and message, and every stream a challenge is drawn from.                *)
(*                                                                         *)
(* The nonces of a call are counted up from 0, and a call ends before the  *)
(* counter wraps.                                                          *)
(*                                                                         *)
(* Of a signature the verifier computes w - c * s2 + c * t0 (RoughIs, from *)
(* the ring's RowVerifies), and the hint takes it to the bucket of w: what *)
(* is rejected for its norm leaves room for c * s2, whose coefficients are *)
(* at most BETA (SecretTimes), and for c * t0, which moves a coefficient   *)
(* to the next bucket at most (RoundingAgrees).  z, t0, t1, the secrets    *)
(* and the hint survive their encodings (ZKept, KeyUnpacks, HintKept).     *)
(* The invariant is that the keys are those of a seed and secrets, that    *)
(* what is being signed was not refused, and that verify accepts what was  *)
(* returned.                                                               *)
(*                                                                         *)
(* Nothing else is accepted, as requests are framed apart, a hint has one  *)
(* encoding, and a hint moves what it is for.                              *)
(***************************************************************************)
EXTENDS MlDsa, MlDsaRingProofs

-----------------------------------------------------------------------------
(* Nonces.                                                                 *)

(* The nonces are 0, 1, ..; between attempts kappa is how many were used,  *)
(* L for each attempt.                                                     *)
CountedUp ==
  /\ used \in Seq(Int)
  /\ \A i \in 1 .. Len(used) : used[i] = i - 1

AttemptsCounted ==
  /\ iter \in Nat /\ iter < MAX_ITER
  /\ kappa = iter * L /\ Len(used) = kappa

NonceInv == CountedUp /\ (phase = "signing" => AttemptsCounted)

LEMMA Parameters ==
  ASSUME MlDsaAssumption
  PROVE  L \in Nat /\ L > 0 /\ MAX_ITER \in Nat /\ MAX_ITER > 0
         /\ NONCES \in Nat /\ NONCES > 0 /\ MAX_ITER * L <= NONCES
BY SMT DEF MlDsaAssumption

(* An attempt's nonces, and the next one's if there is one, are in range.  *)
LEMMA Room ==
  ASSUME NEW l \in Nat, l > 0, NEW m \in Nat, NEW n \in Nat, m * l <= n,
         NEW i \in Nat, i < m
  PROVE  /\ i * l \in Nat
         /\ i * l + l <= n
         /\ (i + 1) * l = i * l + l
         /\ i + 1 < m => i * l + l < n
<1>1. i * l \in Nat /\ (i + 1) * l = i * l + l
  BY SMT
<1>2. (i + 1) * l <= m * l
  BY SMT
<1>3. ASSUME i + 1 < m PROVE i * l + l < n
  <2>1. (i + 2) * l = i * l + l + l
    BY SMT
  <2>2. (i + 2) * l <= m * l
    BY <1>3, SMT
  <2>3. m * l \in Nat
    BY SMT
  <2> QED BY <1>1, <2>1, <2>2, <2>3, SMT
<1>4. m * l \in Nat
  BY SMT
<1> QED BY <1>1, <1>2, <1>3, <1>4, SMT

LEMMA Modulus ==
  ASSUME NEW a \in Nat, NEW n \in Nat, a < n
  PROVE  (a % n) = a
BY SMT

(* What an attempt appends goes on counting.                               *)
LEMMA AttemptCounts ==
  ASSUME MlDsaAssumption, CountedUp, AttemptsCounted,
         used' = used \o MaskNonces
  PROVE  CountedUp' /\ Len(used') = kappa + L
<1>1. /\ L \in Nat /\ L > 0 /\ NONCES \in Nat /\ MAX_ITER \in Nat
      /\ MAX_ITER * L <= NONCES
  BY Parameters
<1>2. kappa \in Nat /\ kappa + L <= NONCES
  BY <1>1, Room DEF AttemptsCounted
<1>3. \A i \in 1 .. L : MaskNonces[i] = kappa + i - 1
  <2>1. SUFFICES ASSUME NEW i \in 1 .. L PROVE MaskNonces[i] = kappa + i - 1
    OBVIOUS
  <2>2. kappa + i - 1 \in Nat /\ kappa + i - 1 < NONCES
    BY <1>1, <1>2, SMT
  <2>3. ((kappa + i - 1) % NONCES) = kappa + i - 1
    BY <1>1, <2>2, Modulus
  <2> QED BY <2>3 DEF MaskNonces
<1>4. MaskNonces = [i \in 1 .. L |-> kappa + i - 1]
  BY <1>3 DEF MaskNonces
<1>5. MaskNonces \in Seq(Int) /\ Len(MaskNonces) = L
  BY <1>1, <1>2, <1>4, SMT
<1>6. /\ used' \in Seq(Int) /\ Len(used') = Len(used) + L
      /\ \A i \in 1 .. Len(used) : used'[i] = used[i]
      /\ \A i \in Len(used) + 1 .. Len(used) + L :
           used'[i] = MaskNonces[i - Len(used)]
  <2> DEFINE masks == MaskNonces
  <2>1. used \in Seq(Int) /\ masks \in Seq(Int) /\ Len(masks) = L
        /\ Len(used) \in Nat /\ used' = used \o masks
    BY <1>5, <1>2 DEF CountedUp, AttemptsCounted
  <2> HIDE DEF masks
  <2>2. /\ used' \in Seq(Int) /\ Len(used') = Len(used) + Len(masks)
        /\ \A i \in 1 .. Len(used) + Len(masks) :
             used'[i] = IF i <= Len(used) THEN used[i] ELSE masks[i - Len(used)]
    BY <2>1, ConcatProperties
  <2>3. \A i \in 1 .. Len(used) : used'[i] = used[i]
    BY <1>1, <2>1, <2>2, SMT
  <2>4. \A i \in Len(used) + 1 .. Len(used) + L :
          used'[i] = masks[i - Len(used)]
    BY <1>1, <2>1, <2>2, SMT
  <2> QED BY <2>1, <2>2, <2>3, <2>4 DEF masks
<1>7. \A i \in Len(used) + 1 .. Len(used) + L : used'[i] = i - 1
  <2>1. SUFFICES ASSUME NEW i \in Len(used) + 1 .. Len(used) + L
                 PROVE  used'[i] = i - 1
    OBVIOUS
  <2>2. i - Len(used) \in 1 .. L /\ kappa + (i - Len(used)) - 1 = i - 1
    BY <1>1, <1>2, SMT DEF AttemptsCounted
  <2>3. MaskNonces[i - Len(used)] = kappa + (i - Len(used)) - 1
    BY <1>3, <2>2
  <2> QED BY <1>6, <2>2, <2>3
<1>8. \A i \in 1 .. Len(used') : used'[i] = i - 1
  BY <1>1, <1>6, <1>7, SMT DEF CountedUp
<1> QED BY <1>6, <1>8, <1>2, <1>1, SMT DEF CountedUp, AttemptsCounted

(* The counter and the loop agree after an attempt that is thrown away.    *)
LEMMA RejectCounts ==
  ASSUME MlDsaAssumption, AttemptsCounted, phase = "signing", Reject,
         Len(used') = kappa + L
  PROVE  phase' = "signing" => AttemptsCounted'
<1>1. /\ L \in Nat /\ L > 0 /\ NONCES \in Nat /\ MAX_ITER \in Nat
      /\ MAX_ITER * L <= NONCES
  BY Parameters
<1>2. CASE LastAttempt
  BY <1>2 DEF Reject
<1>3. CASE ~LastAttempt
  <2>1. iter \in Nat /\ iter + 1 < MAX_ITER
    BY <1>1, <1>3, SMT DEF LastAttempt, AttemptsCounted
  <2>2. kappa + L \in Nat /\ kappa + L < NONCES /\ (iter + 1) * L = kappa + L
    BY <1>1, <2>1, Room DEF AttemptsCounted
  <2>3. kappa' = kappa + L
    BY <1>1, <2>2, Modulus DEF Reject, NextKappa
  <2>4. iter' = iter + 1
    BY <1>3 DEF Reject
  <2> QED BY <2>1, <2>2, <2>3, <2>4 DEF AttemptsCounted
<1> QED BY <1>2, <1>3

LEMMA NonceInit ==
  ASSUME MlDsaAssumption, Init
  PROVE  NonceInv
<1>1. <<>> \in Seq(Int) /\ Len(<<>>) = 0
  OBVIOUS
<1>2. \A i \in 1 .. 0 : FALSE
  BY SMT
<1> QED BY <1>1, <1>2 DEF Init, NonceInv, CountedUp

LEMMA NonceStep ==
  ASSUME MlDsaAssumption, NonceInv, [Next]_vars
  PROVE  NonceInv'
<1>1. CASE UNCHANGED vars
  BY <1>1 DEF vars, NonceInv, CountedUp, AttemptsCounted
<1>2. CASE KeygenFails
  BY <1>2 DEF KeygenFails, NonceInv, CountedUp, AttemptsCounted
<1>3. ASSUME NEW rho \in Rhos \ BadRhos, NEW s \in Secrets, Keygen(rho, s)
      PROVE  NonceInv'
  <2>1. phase' = "keyed" /\ UNCHANGED used
    BY <1>3 DEF Keygen
  <2> QED BY <2>1 DEF NonceInv, CountedUp
<1>4. ASSUME NEW r \in Requests, Sign(r)
      PROVE  NonceInv'
  <2>1. used' = <<>> /\ kappa' = 0 /\ iter' = 0
    BY <1>4 DEF Sign
  <2>2. <<>> \in Seq(Int) /\ Len(<<>>) = 0
    OBVIOUS
  <2>3. \A i \in 1 .. 0 : FALSE
    BY SMT
  <2>4. CountedUp'
    BY <2>1, <2>2, <2>3 DEF CountedUp
  <2>5. L \in Nat /\ MAX_ITER \in Nat /\ MAX_ITER > 0
    BY Parameters
  <2>6. 0 * L = 0 /\ 0 \in Nat
    BY <2>5, SMT
  <2> QED BY <2>1, <2>2, <2>4, <2>5, <2>6 DEF NonceInv, AttemptsCounted
<1>5. ASSUME NEW masks \in [1 .. L -> MaskPolys], Attempt(masks)
      PROVE  NonceInv'
  <2>1. phase = "signing" /\ used' = used \o MaskNonces
    BY <1>5 DEF Attempt
  <2>2. CountedUp' /\ Len(used') = kappa + L
    BY <2>1, AttemptCounts DEF NonceInv
  <2>3. Reject \/ \E result : Return(result)
    BY <1>5 DEF Attempt
  <2>4. CASE Reject
    BY <2>1, <2>2, <2>4, RejectCounts DEF NonceInv
  <2>5. CASE \E result : Return(result)
    <3>1. phase' # "signing"
      BY <2>5 DEF Return
    <3> QED BY <2>2, <3>1 DEF NonceInv
  <2> QED BY <2>3, <2>4, <2>5
<1>6. ASSUME NEW r, NEW s, Verify(r, s)
      PROVE  NonceInv'
  BY <1>6 DEF Verify, NonceInv, CountedUp, AttemptsCounted
<1> QED
  BY <1>1, <1>2, <1>3, <1>4, <1>5, <1>6 DEF Next, VerifyOther, VerifyHint

(* sign never draws two masks of one call from one nonce, whatever the     *)
(* attempts' fate: the u16 it counts them with does not wrap before the    *)
(* loop's limit, in none of the parameter sets.                            *)
THEOREM MasksAreFresh ==
  ASSUME MlDsaAssumption
  PROVE  Spec => []NoncesFresh
<1>1. NonceInv => NoncesFresh
  <2>1. SUFFICES ASSUME NonceInv, NEW i \in DOMAIN used, NEW j \in DOMAIN used,
                        i # j
                 PROVE  used[i] # used[j]
    BY DEF NoncesFresh
  <2>2. used \in Seq(Int) /\ \A k \in 1 .. Len(used) : used[k] = k - 1
    BY <2>1 DEF NonceInv, CountedUp
  <2>3. DOMAIN used = 1 .. Len(used) /\ Len(used) \in Nat
    BY <2>2, SMT
  <2>4. i \in 1 .. Len(used) /\ j \in 1 .. Len(used)
    BY <2>1, <2>3
  <2>5. used[i] = i - 1 /\ used[j] = j - 1
    BY <2>2, <2>4
  <2>6. i \in Int /\ j \in Int
    BY <2>3, <2>4, SMT
  <2> QED BY <2>1, <2>5, <2>6, SMT
<1> QED BY <1>1, NonceInit, NonceStep, PTL DEF Spec

-----------------------------------------------------------------------------
(* Vectors, and products of a matrix or a polynomial and a vector.         *)

(* Transforms of them.                                                       *)
LEMMA NttVec ==
  ASSUME MlDsaRingAssumption, NEW n \in Nat, NEW v \in Vectors(n)
  PROVE  nttVec(v) \in Vectors(n) /\ inttVec(v) \in Vectors(n)
<1>1. nttVec(v) = [i \in 1 .. n |-> ntt(v[i])]
  BY EvaluatedIs DEF nttVec, OnVec, Entries, Vectors
<1>2. inttVec(v) = [i \in 1 .. n |-> intt(v[i])]
  BY EvaluatedIs DEF inttVec, OnVec, Entries, Vectors
<1> QED BY <1>1, <1>2, Transforms DEF Vectors

LEMMA VecSubIn ==
  ASSUME MlDsaRingAssumption, NEW n \in Nat, NEW u \in Vectors(n), NEW v \in Vectors(n)
  PROVE  VecSub(u, v) \in Vectors(n)
<1>1. VecSub(u, v) = [i \in 1 .. n |-> PolySub(u[i], v[i])]
  BY EvaluatedIs DEF VecSub, OnVecs, Entries, Vectors
<1> QED BY <1>1, PolyOps DEF Vectors

LEMMA MultiplyIn ==
  ASSUME MlDsaRingAssumption, NEW n \in Nat, NEW m \in Nat,
         NEW A \in [1 .. n -> Vectors(m)], NEW v \in Vectors(m)
  PROVE  multiply_vector(A, v) \in Vectors(n)
<1>1. multiply_vector(A, v) = [i \in 1 .. n |-> RowTimes(A[i], v)]
  BY EvaluatedIs DEF multiply_vector, OnVec, Entries, RowTimes
<1>2. \A i \in 1 .. n : RowTimes(A[i], v) \in Polys
  BY RowIn DEF Vectors
<1> QED BY <1>1, <1>2 DEF Vectors

LEMMA PolyTimesIn ==
  ASSUME MlDsaRingAssumption, NEW n \in Nat, NEW c \in Polys, NEW v \in Vectors(n)
  PROVE  poly_mul_polyvec(c, v) \in Vectors(n)
<1>1. poly_mul_polyvec(c, v) = [i \in 1 .. n |-> pointwise_montgomery(c, v[i])]
  BY EvaluatedIs DEF poly_mul_polyvec, OnVec, Entries, Vectors
<1> QED BY <1>1, PolyOps DEF Vectors

LEMMA VecAddIn ==
  ASSUME MlDsaRingAssumption, NEW n \in Nat, NEW u \in Vectors(n), NEW v \in Vectors(n)
  PROVE  /\ VecAdd(u, v) = [i \in 1 .. n |-> PolyAdd(u[i], v[i])]
         /\ VecSub(u, v) = [i \in 1 .. n |-> PolySub(u[i], v[i])]
         /\ VecAdd(u, v) \in Vectors(n) /\ VecSub(u, v) \in Vectors(n)
<1>1. DOMAIN u = 1 .. n /\ \A i \in 1 .. n : u[i] \in Polys /\ v[i] \in Polys
  BY DEF Vectors
<1>2. /\ VecAdd(u, v) = [i \in 1 .. n |-> PolyAdd(u[i], v[i])]
      /\ VecSub(u, v) = [i \in 1 .. n |-> PolySub(u[i], v[i])]
  BY <1>1, EvaluatedIs DEF VecAdd, VecSub, OnVecs, Entries
<1>3. \A i \in 1 .. n : PolyAdd(u[i], v[i]) \in Polys /\ PolySub(u[i], v[i]) \in Polys
  BY <1>1, PolyOps
<1> QED BY <1>2, <1>3 DEF Vectors

(* The products a signer and a verifier compute, by rows.                  *)
LEMMA VecIs ==
  ASSUME MlDsaRingAssumption, NEW n \in Nat, NEW v \in Vectors(n), NEW c \in Polys
  PROVE  /\ nttVec(v) = [i \in 1 .. n |-> ntt(v[i])]
         /\ inttVec(v) = [i \in 1 .. n |-> intt(v[i])]
         /\ poly_mul_polyvec(c, v) = [i \in 1 .. n |-> pointwise_montgomery(c, v[i])]
<1>1. DOMAIN v = 1 .. n
  BY DEF Vectors
<1> QED BY <1>1, EvaluatedIs DEF nttVec, inttVec, poly_mul_polyvec, OnVec, Entries

LEMMA TimesPolyIs ==
  ASSUME MlDsaRingAssumption, NEW n \in Nat, NEW v \in Vectors(n), NEW c \in Polys
  PROVE  /\ TimesPoly(c, v)
              = [i \in 1 .. n |-> intt(pointwise_montgomery(ntt(c), ntt(v[i])))]
         /\ TimesPoly(c, v) \in Vectors(n)
         /\ poly_mul_polyvec(ntt(c), nttVec(v))
              = [i \in 1 .. n |-> pointwise_montgomery(ntt(c), ntt(v[i]))]
<1> DEFINE a == ntt(c)
           u == nttVec(v)
           p == poly_mul_polyvec(a, u)
<1>1. a \in Polys /\ u \in Vectors(n) /\ u = [i \in 1 .. n |-> ntt(v[i])]
  BY Transforms, NttVec, VecIs
<1>2. TimesPoly(c, v) = inttVec(p)
  BY DEF TimesPoly
<1> HIDE DEF a, u
<1>3. p = [i \in 1 .. n |-> pointwise_montgomery(a, u[i])] /\ p \in Vectors(n)
  BY <1>1, VecIs, PolyTimesIn
<1>4. p = [i \in 1 .. n |-> pointwise_montgomery(a, ntt(v[i]))]
  BY <1>1, <1>3
<1> HIDE DEF p
<1>5. inttVec(p) = [i \in 1 .. n |-> intt(p[i])] /\ inttVec(p) \in Vectors(n)
  BY <1>1, <1>3, VecIs, NttVec
<1>6. inttVec(p) = [i \in 1 .. n |-> intt(pointwise_montgomery(a, ntt(v[i])))]
  BY <1>4, <1>5
<1> QED BY <1>2, <1>4, <1>5, <1>6 DEF a, p, u

(* The operations on vectors keep their length.                            *)
LEMMA Lengths ==
  ASSUME NEW v, NEW w, NEW a, NEW b
  PROVE  /\ DOMAIN VecAdd(v, w) = DOMAIN v
         /\ DOMAIN Times(v, w) = DOMAIN v
         /\ DOMAIN power2round_vec(v)[1] = DOMAIN v
         /\ DOMAIN simple_bit_pack(v, a) = DOMAIN v
         /\ DOMAIN bit_pack(v, a, b) = DOMAIN v
         /\ DOMAIN bit_unpack(v, a) = DOMAIN v
<1>1. VecAdd(v, w) = [i \in DOMAIN v |-> PolyAdd(v[i], w[i])]
  BY EvaluatedIs DEF VecAdd, OnVecs, Entries
<1>2. DOMAIN Times(v, w) = DOMAIN v
  <2> DEFINE m == multiply_vector(v, nttVec(w))
  <2>1. m = [i \in DOMAIN v |-> RowTimes(v[i], nttVec(w))]
    BY EvaluatedIs DEF multiply_vector, OnVec, Entries, RowTimes
  <2>2. Times(v, w) = inttVec(m)
    BY DEF Times
  <2> HIDE DEF m
  <2>3. inttVec(m) = [i \in DOMAIN m |-> intt(m[i])]
    BY EvaluatedIs DEF inttVec, OnVec, Entries
  <2> QED BY <2>1, <2>2, <2>3
<1>3. power2round_vec(v)[1] = [i \in DOMAIN v |-> Coeffs(LAMBDA j : High(v[i][j]))]
  BY EvaluatedIs DEF power2round_vec, Coeffwise, OnVec, Entries, Coeffs
<1>4. simple_bit_pack(v, a) = [i \in DOMAIN v |-> [j \in Index |-> (v[i][j] % Bits(a))]]
  BY EvaluatedIs DEF simple_bit_pack, Coeffwise, OnVec, Entries, Coeffs
<1>5. bit_pack(v, a, b) =
        [i \in DOMAIN v |->
           [j \in Index |-> ((a + fq_to_signed_ct(v[i][j], b)) % Bits(bitlen(a + b)))]]
  BY EvaluatedIs DEF bit_pack, Coeffwise, OnVec, Entries, Coeffs
<1>6. bit_unpack(v, a) =
        [i \in DOMAIN v |-> [j \in Index |-> signed_to_fq(v[i][j] - a)]]
  BY EvaluatedIs DEF bit_unpack, Coeffwise, OnVec, Entries, Coeffs
<1> QED BY <1>1, <1>2, <1>3, <1>4, <1>5, <1>6

(* expand_s: secrets are small.                                            *)
LEMMA Sizes2 ==
  ASSUME MlDsaRingAssumption, MlDsaAssumption
  PROVE  /\ ETA \in Nat /\ ETA > 0 /\ ETA + ETA < Q /\ ETA + ETA = 2 * ETA
         /\ Bits(bitlen(ETA + ETA)) \in Nat /\ ETA + ETA < Bits(bitlen(ETA + ETA))
         /\ K \in Nat /\ K > 0 /\ L \in Nat /\ L > 0
<1>1. /\ ETA \in Nat \ {0} /\ K \in Nat \ {0} /\ L \in Nat \ {0}
      /\ Bits(bitlen(2 * ETA)) \in 2 * ETA + 1 .. 4 * ETA /\ 2 * ETA < Q
  BY DEF MlDsaAssumption
<1>2. ETA + ETA = 2 * ETA
  BY <1>1, SMT
<1> DEFINE b == Bits(bitlen(2 * ETA))
<1>3. b \in 2 * ETA + 1 .. 4 * ETA
  BY <1>1
<1> HIDE DEF b
<1>4. b \in Nat /\ 2 * ETA < b
  BY <1>1, <1>3, SMT
<1> QED BY <1>1, <1>2, <1>4, SMT DEF b

LEMMA MatrixIs ==
  ASSUME MlDsaRingAssumption, MlDsaAssumption, NEW rho \in Rhos
  PROVE  /\ DOMAIN ExpandA(rho) = 1 .. K
         /\ ExpandA(rho) \in [1 .. K -> Vectors(L)]
         /\ \A i \in 1 .. K : ExpandA(rho)[i] \in [1 .. L -> Polys]
<1>1. ExpandA(rho) \in [1 .. K -> [1 .. L -> [Index -> 0 .. Q - 1]]]
  BY DEF MlDsaAssumption
<1> QED BY <1>1 DEF Vectors, Polys, Field

LEMMA TimesIn ==
  ASSUME MlDsaRingAssumption, MlDsaAssumption, NEW rho \in Rhos, NEW v \in Vectors(L)
  PROVE  /\ Times(ExpandA(rho), v) \in Vectors(K)
         /\ Times(ExpandA(rho), v)
              = [i \in 1 .. K |-> intt(RowTimes(ExpandA(rho)[i], nttVec(v)))]
<1>1. K \in Nat /\ L \in Nat
  BY Sizes2
<1> DEFINE A == ExpandA(rho)
           u == nttVec(v)
<1>2. A \in [1 .. K -> Vectors(L)] /\ DOMAIN A = 1 .. K
  BY MatrixIs
<1>3. u \in Vectors(L)
  BY <1>1, NttVec
<1> HIDE DEF A, u
<1> DEFINE m == multiply_vector(A, u)
<1>4. m = [i \in 1 .. K |-> RowTimes(A[i], u)]
  BY <1>2, EvaluatedIs DEF multiply_vector, OnVec, Entries, RowTimes
<1>5. m \in Vectors(K)
  BY <1>1, <1>2, <1>3, MultiplyIn
<1> HIDE DEF m
<1>6. inttVec(m) = [i \in 1 .. K |-> intt(m[i])] /\ inttVec(m) \in Vectors(K)
  <2>1. DOMAIN m = 1 .. K
    BY <1>4
  <2>2. inttVec(m) = [i \in 1 .. K |-> intt(m[i])]
    BY <2>1, EvaluatedIs DEF inttVec, OnVec, Entries
  <2> QED BY <1>1, <1>5, <2>2, NttVec
<1>7. inttVec(m) = [i \in 1 .. K |-> intt(RowTimes(A[i], u))]
  BY <1>4, <1>6
<1>8. Times(A, v) = inttVec(m)
  BY DEF Times, m, u
<1> QED BY <1>6, <1>7, <1>8 DEF A, u

-----------------------------------------------------------------------------
(* A challenge is a polynomial with at most TAU coefficients, 1 or -1,     *)
(* that are not 0.                                                         *)

(* What a digest is squeezed into is bytes.                                *)
StreamsOfBytes == \A digest : BallStream(digest).bytes \in Seq(Nat)

Balls == [ok : BOOLEAN, bytes : Seq(Nat), c : Polys]

Drawn(stream, s, i) ==
  LET good == {p \in DOMAIN s.bytes : s.bytes[p] <= i}
      p    == Min(good)
      j    == s.bytes[p]
      sign == stream.signs[i + TAU - N + 1]
  IN  IF ~s.ok \/ good = {} THEN [s EXCEPT !.ok = FALSE]
      ELSE [ok    |-> TRUE,
            bytes |-> SubSeq(s.bytes, p + 1, Len(s.bytes)),
            c     |-> [s.c EXCEPT ![i] = s.c[j],
                         ![j] = IF sign = 0 THEN 1 ELSE Q - 1]]

LEMMA ExceptOk ==
  ASSUME NEW A, NEW B, NEW C, NEW s \in [ok : A, bytes : B, c : C], NEW v \in A
  PROVE  [s EXCEPT !.ok = v] \in [ok : A, bytes : B, c : C]
OBVIOUS

(* A draw exchanges two places of the challenge.                           *)
LEMMA DrawnIn ==
  ASSUME MlDsaRingAssumption, NEW stream, NEW s \in Balls, NEW i \in Index
  PROVE  Drawn(stream, s, i) \in Balls
<1> DEFINE good == {p \in DOMAIN s.bytes : s.bytes[p] <= i}
           m == Min(good)
           j == s.bytes[m]
           sign == stream.signs[i + TAU - N + 1]
           c == [s.c EXCEPT ![i] = s.c[j], ![j] = IF sign = 0 THEN 1 ELSE Q - 1]
           rest == SubSeq(s.bytes, m + 1, Len(s.bytes))
<1>1. /\ s = [ok |-> s.ok, bytes |-> s.bytes, c |-> s.c]
      /\ s.ok \in BOOLEAN /\ s.bytes \in Seq(Nat) /\ s.c \in Polys
  BY DEF Balls
<1>2. CASE ~s.ok \/ good = {}
  <2>1. Drawn(stream, s, i) = [s EXCEPT !.ok = FALSE]
    BY <1>2 DEF Drawn
  <2>2. [s EXCEPT !.ok = FALSE] \in Balls
    BY ExceptOk DEF Balls
  <2> QED BY <2>1, <2>2
<1>3. CASE s.ok /\ good # {}
  <2>1. Drawn(stream, s, i) = [ok |-> TRUE, bytes |-> rest, c |-> c]
    BY <1>3 DEF Drawn
  <2>2. m \in DOMAIN s.bytes /\ s.bytes[m] <= i
    <3>1. good \subseteq Nat
      BY <1>1, SMT
    <3>2. m \in good
      <4> HIDE DEF good
      <4> QED BY <1>3, <3>1, MinIn
    <3> QED BY <3>2
  <2>3. m \in Nat /\ m >= 1 /\ m <= Len(s.bytes) /\ Len(s.bytes) \in Nat
        /\ s.bytes[m] \in Nat
    BY <1>1, <2>2, SMT
  <2>4. j \in Index
    BY <2>2, <2>3, Ring, SMT DEF Index
  <2>5. rest \in Seq(Nat)
    <3>1. \A k \in m + 1 .. Len(s.bytes) : s.bytes[k] \in Nat
      BY <1>1, <2>3, SMT
    <3> HIDE DEF m
    <3> QED BY <1>1, <2>3, <3>1, SubSeqProperties, SMT
  <2>6. c \in Polys
    <3>1. 1 \in Field /\ Q - 1 \in Field
      BY Ring, SMT DEF Field
    <3> HIDE DEF j, sign
    <3> QED BY <1>1, <2>4, <3>1 DEF Polys
  <2> HIDE DEF rest, c
  <2> QED BY <2>1, <2>5, <2>6 DEF Balls
<1> QED BY <1>1, <1>2, <1>3

(* A challenge as the draws the code goes through.                         *)
LEMMA BallRun ==
  ASSUME MlDsaRingAssumption, MlDsaAssumption, StreamsOfBytes, NEW digest
  PROVE  \E r, base :
           /\ Runs(r, TAU, Balls, base) /\ base.c = ZeroPoly
           /\ sample_in_ball(digest) = r[TAU]
           /\ \A k \in 0 .. TAU - 1 :
                /\ N - TAU + k \in Index
                /\ r[k + 1] = Drawn(BallStream(digest), r[k], N - TAU + k)
<1> DEFINE stream == BallStream(digest)
           n == TAU
           seq == [i \in 1 .. n |-> N - n + i - 1]
           base == [ok |-> TRUE, bytes |-> stream.bytes, c |-> ZeroPoly]
           pick == [s \in SUBSET (1 .. n) |-> Max(s)]
           next == [s \in SUBSET (1 .. n) |-> [g \in Balls |-> Drawn(stream, g, seq[Max(s)])]]
           IsFold(h) == h = [s \in SUBSET (1 .. n) |->
                               IF s = {} THEN base
                               ELSE Drawn(stream, h[s \ {Max(s)}], seq[Max(s)])]
           it == CHOOSE h : IsFold(h)
<1>1. n \in Nat /\ N \in Nat /\ \A i \in 1 .. n : seq[i] \in Index
  <2>1. TAU \in Nat /\ TAU <= N
    BY DEF MlDsaAssumption
  <2> QED BY <2>1, Ring, SMT DEF Index
<1>2. sample_in_ball(digest) = it[1 .. n]
  <2>1. DOMAIN seq = 1 .. n
    OBVIOUS
  <2> QED BY <2>1 DEF sample_in_ball, FoldLeft, MapThenFoldSet, Drawn
<1> HIDE DEF stream
<1>3. Picks(n, pick)
  BY <1>1, LastPick
<1>4. \A k \in 0 .. n - 1 : k + 1 \in 1 .. n /\ seq[k + 1] = N - n + k
  BY <1>1, SMT
<1> HIDE DEF seq
<1>5. \A s \in SUBSET (1 .. n), g \in Balls :
        s # {} => /\ next[s][g] = Drawn(stream, g, seq[Max(s)])
                  /\ next[s][g] \in Balls
  BY <1>1, <1>3, DrawnIn DEF Picks
<1>6. base \in Balls /\ base.c = ZeroPoly
  BY PolyOps DEF StreamsOfBytes, Balls, stream
<1> HIDE DEF base
<1>7. \E h : IsFold(h)
  <2>1. PICK h : /\ Folds(h, SUBSET (1 .. n), base, pick, next)
                 /\ \A s \in SUBSET (1 .. n) : h[s] \in Balls
    <3>1. \A s \in SUBSET (1 .. n), g \in Balls : s # {} => next[s][g] \in Balls
      BY <1>5
    <3> HIDE DEF n, pick, next
    <3> QED BY <1>1, <1>3, <1>6, <3>1, FoldExists
  <2>2. \A s \in SUBSET (1 .. n) : s \ {Max(s)} \in SUBSET (1 .. n)
    OBVIOUS
  <2>3. h = [s \in SUBSET (1 .. n) |->
               IF s = {} THEN base ELSE next[s][h[s \ {pick[s]}]]]
    BY <2>1 DEF Folds
  <2>4. IsFold(h)
    <3>1. \A s \in SUBSET (1 .. n) :
            s # {} => next[s][h[s \ {pick[s]}]] = Drawn(stream, h[s \ {Max(s)}], seq[Max(s)])
      BY <1>5, <2>1, <2>2
    <3> HIDE DEF n, pick, next
    <3> QED BY <2>3, <3>1
  <2> QED BY <2>4
<1>8. IsFold(it)
  BY <1>7
<1> HIDE DEF it
<1> DEFINE r == [k \in 0 .. n |-> it[1 .. k]]
<1>9. 1 .. 0 = {} /\ 0 \in 0 .. n /\ n \in 0 .. n
  BY <1>1, SMT
<1>10. r[0] = base /\ r[n] = it[1 .. n]
  <2> HIDE DEF n
  <2>1. r[0] = it[{}] /\ r[n] = it[1 .. n]
    BY <1>9
  <2>2. {} \in SUBSET (1 .. n)
    OBVIOUS
  <2> QED BY <1>8, <2>1, <2>2
<1>11. ASSUME NEW k \in 0 .. n - 1
       PROVE  r[k + 1] = Drawn(stream, r[k], seq[k + 1]) /\ k + 1 \in 1 .. n
  <2> HIDE DEF n
  <2> DEFINE c == k + 1
             s == 1 .. c
  <2>1. /\ k \in 0 .. n /\ c \in 0 .. n /\ c - 1 = k
        /\ c \in 1 .. n /\ 1 <= c /\ c \in Int /\ 1 \in Int
    BY <1>1, SMT
  <2> HIDE DEF c
  <2>2. s \in SUBSET (1 .. n)
    <3>1. \A x \in 1 .. c : x \in 1 .. n
      BY <1>1, <2>1, SMT
    <3> QED BY <3>1
  <2>3. Max(s) = c /\ s \ {c} = 1 .. c - 1 /\ s # {}
    BY <2>1, Ends
  <2>4. r[c] = it[s]
    BY <2>1
  <2>5. it[s] = Drawn(stream, it[s \ {Max(s)}], seq[Max(s)])
    <3> HIDE DEF s
    <3> QED BY <1>8, <2>2, <2>3
  <2> HIDE DEF s
  <2>6. r[k] = it[1 .. k]
    BY <2>1
  <2>7. r[c] = Drawn(stream, r[k], seq[c])
    BY <2>1, <2>3, <2>4, <2>5, <2>6
  <2> QED BY <2>1, <2>7 DEF c
<1> HIDE DEF r
<1>12. \A k \in 0 .. n : r[k] \in Balls
  <2> DEFINE S == {k \in 0 .. n : r[k] \in Balls}
  <2>1. 0 \in S
    BY <1>6, <1>9, <1>10
  <2>2. ASSUME NEW k \in 0 .. n - 1, k \in S PROVE k + 1 \in S
    <3>1. k + 1 \in 0 .. n
      BY <1>1, SMT
    <3> QED BY <1>1, <1>11, <2>2, <3>1, DrawnIn
  <2>3. \A k \in 0 .. n : k \in S
    <3> HIDE DEF S, n
    <3> QED BY <1>1, <2>1, <2>2, UptoInduction
  <2> QED BY <2>3
<1>13. r \in [0 .. n -> Balls]
  BY <1>12 DEF r
<1>14. Runs(r, TAU, Balls, base)
  BY <1>10, <1>13 DEF Runs
<1>15. \A k \in 0 .. TAU - 1 : N - TAU + k \in Index /\ r[k + 1] = Drawn(stream, r[k], N - TAU + k)
  BY <1>1, <1>4, <1>11
<1> QED BY <1>2, <1>6, <1>10, <1>14, <1>15 DEF stream

(* It is a polynomial.                                                     *)
LEMMA BallIn ==
  ASSUME MlDsaRingAssumption, MlDsaAssumption, StreamsOfBytes, NEW digest
  PROVE  sample_in_ball(digest).c \in Polys
<1>1. PICK r, base : Runs(r, TAU, Balls, base) /\ sample_in_ball(digest) = r[TAU]
  BY BallRun
<1>2. TAU \in Nat
  BY DEF MlDsaAssumption
<1> QED BY <1>1, <1>2 DEF Runs, Balls

(* A challenge of at most m ones and minus ones.                           *)
Marks(c) == {i \in Index : c[i] # 0}

Sparse(c, m) ==
  /\ c \in [Index -> {0, 1, Q - 1}]
  /\ IsFiniteSet(Marks(c)) /\ Cardinality(Marks(c)) <= m

LEMMA DrawnSparse ==
  ASSUME MlDsaRingAssumption, NEW stream, NEW s \in Balls, NEW i \in Index,
         NEW m \in Nat, Sparse(s.c, m)
  PROVE  Sparse(Drawn(stream, s, i).c, m + 1)
<1> DEFINE good == {p \in DOMAIN s.bytes : s.bytes[p] <= i}
           q == Min(good)
           j == s.bytes[q]
           sign == stream.signs[i + TAU - N + 1]
           x == IF sign = 0 THEN 1 ELSE Q - 1
           c == s.c
           d == [c EXCEPT ![i] = c[j], ![j] = x]
           e == Drawn(stream, s, i).c
<1>1. s \in [ok : BOOLEAN, bytes : Seq(Nat), c : Polys]
  BY DEF Balls
<1>2. /\ c \in [Index -> {0, 1, Q - 1}] /\ IsFiniteSet(Marks(c)) /\ Cardinality(Marks(c)) <= m
      /\ Cardinality(Marks(c)) \in Nat
  BY FS_CardinalityType DEF Sparse
<1>3. CASE ~ s.ok \/ good = {}
  <2>1. Drawn(stream, s, i) = [s EXCEPT !.ok = FALSE]
    BY <1>3 DEF Drawn
  <2>2. [s EXCEPT !.ok = FALSE].c = c
    BY <1>1
  <2>3. Cardinality(Marks(c)) <= m + 1
    BY <1>2, SMT
  <2> QED BY <1>2, <2>1, <2>2, <2>3 DEF Sparse
<1>4. CASE s.ok /\ good # {}
  <2>1. e = d
    BY <1>4 DEF Drawn
  <2>2. Drawn(stream, s, i) \in Balls
    BY DrawnIn
  <2>3. x \in {1, Q - 1} /\ x # 0
    BY FieldInt, SMT
  <2>4. j \in Index
    <3>1. s.bytes \in Seq(Nat)
      BY <1>1
    <3>2. good \subseteq Nat
      BY <3>1, SMT
    <3>3. q \in good
      <4> HIDE DEF good
      <4> QED BY <1>4, <3>2, MinIn
    <3>4. q \in DOMAIN s.bytes /\ s.bytes[q] <= i
      BY <3>3
    <3>5. s.bytes[q] \in Nat
      <4>1. \A l \in DOMAIN s.bytes : s.bytes[l] \in Nat
        BY <3>1
      <4> HIDE DEF q
      <4> QED BY <3>4, <4>1
    <3>6. j \in Nat /\ j <= i
      BY <3>4, <3>5
    <3> HIDE DEF j
    <3> QED BY <3>6, Ring, SMT DEF Index
  <2> HIDE DEF j, x, c, e
  <2>5. d \in [Index -> {0, 1, Q - 1}]
    BY <1>2, <2>3, <2>4
  <2>6. \E y : Marks(d) \subseteq Marks(c) \cup {y}
    <3>1. \A l \in Index : d[l] = IF l = j THEN x ELSE IF l = i THEN c[j] ELSE c[l]
      BY <1>2, <2>4
    <3>2. CASE c[j] = 0
      <4>1. Marks(d) \subseteq Marks(c) \cup {j}
        BY <3>1, <3>2 DEF Marks
      <4> QED BY <4>1
    <3>3. CASE c[j] # 0
      <4>1. Marks(d) \subseteq Marks(c) \cup {i}
        BY <2>4, <3>1, <3>3 DEF Marks
      <4> QED BY <4>1
    <3> QED BY <3>2, <3>3
  <2>7. PICK y : Marks(d) \subseteq Marks(c) \cup {y}
    BY <2>6
  <2> HIDE DEF d
  <2> DEFINE M == Marks(c)
             B == M \cup {y}
  <2>8. IsFiniteSet(B) /\ Cardinality(B) = IF y \in M THEN Cardinality(M) ELSE Cardinality(M) + 1
    BY <1>2, FS_AddElement
  <2>9. Marks(d) \in SUBSET B
    BY <2>7
  <2> HIDE DEF B, M
  <2>10. IsFiniteSet(Marks(d)) /\ Cardinality(Marks(d)) <= Cardinality(B)
         /\ Cardinality(Marks(d)) \in Nat /\ Cardinality(B) \in Nat
    BY <2>8, <2>9, FS_Subset, FS_CardinalityType
  <2>11. Cardinality(Marks(d)) <= m + 1
    <3> DEFINE a == Cardinality(M)
               b == Cardinality(B)
               f == Cardinality(Marks(d))
    <3>1. a \in Nat /\ a <= m /\ b \in Nat /\ f \in Nat /\ f <= b /\ (b = a \/ b = a + 1)
      BY <1>2, <2>8, <2>10 DEF M
    <3> HIDE DEF a, b, f
    <3>2. f <= m + 1
      BY <3>1, SMT
    <3> QED BY <3>2 DEF f
  <2> QED BY <2>1, <2>5, <2>10, <2>11 DEF Sparse, e
<1> QED BY <1>1, <1>3, <1>4

(* sample_in_ball gives at most TAU of them.                               *)
LEMMA BallSparse ==
  ASSUME MlDsaRingAssumption, MlDsaAssumption, StreamsOfBytes, NEW digest
  PROVE  Sparse(sample_in_ball(digest).c, TAU)
<1>1. PICK r, base :
        /\ Runs(r, TAU, Balls, base) /\ base.c = ZeroPoly
        /\ sample_in_ball(digest) = r[TAU]
        /\ \A k \in 0 .. TAU - 1 :
             /\ N - TAU + k \in Index
             /\ r[k + 1] = Drawn(BallStream(digest), r[k], N - TAU + k)
  BY BallRun
<1> DEFINE n == TAU
           S == {k \in 0 .. n : Sparse(r[k].c, k)}
<1>2. n \in Nat
  BY DEF MlDsaAssumption
<1>3. 0 \in S
  <2>1. ZeroPoly = [i \in Index |-> 0]
    BY PolyIs
  <2>2. Marks(ZeroPoly) = {}
    BY <2>1 DEF Marks
  <2>3. Sparse(ZeroPoly, 0)
    BY <2>1, <2>2, FS_EmptySet, SMT DEF Sparse
  <2>4. 0 \in 0 .. n
    BY <1>2, SMT
  <2>5. r[0].c = ZeroPoly
    BY <1>1 DEF Runs
  <2> QED BY <2>3, <2>4, <2>5
<1>4. ASSUME NEW k \in 0 .. n - 1, k \in S PROVE k + 1 \in S
  <2> DEFINE i == N - TAU + k
  <2>1. k \in 0 .. n /\ k + 1 \in 0 .. n /\ k \in Nat
    BY <1>2, SMT
  <2>2. i \in Index /\ r[k + 1] = Drawn(BallStream(digest), r[k], i)
    BY <1>1
  <2>3. r[k] \in Balls
    BY <1>1, <2>1 DEF Runs
  <2> HIDE DEF i
  <2>4. Sparse(Drawn(BallStream(digest), r[k], i).c, k + 1)
    BY <1>4, <2>1, <2>2, <2>3, DrawnSparse
  <2> QED BY <2>1, <2>2, <2>4
<1>5. n \in S
  <2>1. n \in 0 .. n
    BY <1>2, SMT
  <2> HIDE DEF S, n
  <2> QED BY <1>2, <1>3, <1>4, <2>1, UptoInduction
<1> QED BY <1>1, <1>5

-----------------------------------------------------------------------------
(* Rounding: buckets, and what hints do to them.                           *)

(* The buckets divide what is below Q - 1.                                 *)
LEMMA BucketsAre ==
  ASSUME MlDsaRingAssumption
  PROVE  /\ GAMMA2 \in Nat /\ GAMMA2 > 0 /\ Buckets \in Nat /\ Buckets > 1
         /\ Q - 1 = (2 * GAMMA2) * Buckets
<1>1. GAMMA2 \in Nat /\ GAMMA2 > 0 /\ (Q - 1) % (2 * GAMMA2) = 0 /\ 1 < Buckets
  <2>1. GAMMA2 \in Nat \ {0} /\ (Q - 1) % (2 * GAMMA2) = 0 /\ 1 < Buckets
    BY DEF MlDsaRingAssumption
  <2>2. GAMMA2 \in Nat /\ GAMMA2 > 0
    BY <2>1, SMT
  <2> QED BY <2>1, <2>2
<1>2. Q - 1 \in Int /\ 2 * GAMMA2 \in Nat /\ 2 * GAMMA2 > 0
  BY <1>1, Ring, SMT
<1>3. Buckets \in Int /\ Q - 1 = (2 * GAMMA2) * Buckets + ((Q - 1) % (2 * GAMMA2))
  BY <1>2, DivMod DEF Buckets
<1>4. (2 * GAMMA2) * Buckets \in Int
  BY <1>2, <1>3, SMT
<1> QED BY <1>1, <1>3, <1>4, SMT

(* A coefficient's upper bits are the number of a bucket.                  *)
LEMMA UpperIn ==
  ASSUME MlDsaRingAssumption, NEW r \in Field
  PROVE  decompose(r)[1] \in 0 .. Buckets - 1
<1> DEFINE alpha == 2 * GAMMA2
           q == r \div alpha
           m == r % alpha
           r0 == IF m > GAMMA2 THEN m - alpha ELSE m
           B == Buckets
<1>1. /\ alpha \in Nat /\ alpha > 0 /\ GAMMA2 \in Nat /\ GAMMA2 > 0
      /\ B \in Nat /\ B > 1 /\ Q - 1 = alpha * B
  BY BucketsAre, SMT
<1>2. r \in Int /\ 0 <= r /\ r <= Q - 1 /\ Q \in Nat
  BY Ring, SMT DEF Field
<1>3. decompose(r)[1] = IF r - r0 = Q - 1 THEN 0 ELSE (r - r0) \div alpha
  BY DEF decompose
<1> HIDE DEF alpha, B
<1>4. q \in Int /\ m \in 0 .. alpha - 1 /\ r = alpha * q + m
  BY <1>1, <1>2, DivMod
<1> HIDE DEF q, m
<1>5. q >= 0
  <2>1. SUFFICES ASSUME q <= -1 PROVE FALSE
    BY <1>4, SMT
  <2>2. alpha * q <= alpha * (-1) /\ alpha * (-1) = -alpha /\ alpha * q \in Int
    BY <1>1, <1>4, <2>1, Times2
  <2> QED BY <1>1, <1>2, <1>4, <2>2, SMT
<1>6. alpha * q \in Int /\ alpha * B \in Int /\ alpha * (q + 1) = alpha * q + alpha
  BY <1>1, <1>4, SMT
<1>7. CASE m > GAMMA2
  <2>1. r - r0 = alpha * (q + 1)
    BY <1>1, <1>2, <1>4, <1>6, <1>7, SMT
  <2>2. q + 1 <= B
    <3>1. SUFFICES ASSUME B <= q PROVE FALSE
      BY <1>1, <1>4, SMT
    <3>2. alpha * B <= alpha * q
      BY <1>1, <1>4, <3>1, Times2
    <3> QED BY <1>1, <1>2, <1>4, <1>6, <1>7, <3>2, SMT
  <2>3. (alpha * (q + 1)) \div alpha = q + 1
    BY <1>1, <1>4, Monotone
  <2>4. CASE r - r0 = Q - 1
    BY <1>1, <1>3, <2>4, SMT DEF B
  <2>5. CASE r - r0 # Q - 1
    <3>1. q + 1 # B
      BY <1>1, <2>1, <2>5
    <3>2. q + 1 \in 0 .. B - 1
      BY <1>1, <1>4, <1>5, <2>2, <3>1, SMT
    <3> QED BY <1>3, <2>1, <2>3, <2>5, <3>2 DEF B
  <2> QED BY <2>4, <2>5
<1>8. CASE ~ (m > GAMMA2)
  <2>1. r - r0 = alpha * q
    BY <1>1, <1>2, <1>4, <1>6, <1>8, SMT
  <2>2. q <= B
    <3>1. SUFFICES ASSUME B + 1 <= q PROVE FALSE
      BY <1>1, <1>4, SMT
    <3>2. alpha * (B + 1) <= alpha * q /\ alpha * (B + 1) = alpha * B + alpha
      BY <1>1, <1>4, <3>1, Times2
    <3> QED BY <1>1, <1>2, <1>4, <1>6, <3>2, SMT
  <2>3. (alpha * q) \div alpha = q
    BY <1>1, <1>4, Monotone
  <2>4. CASE r - r0 = Q - 1
    BY <1>1, <1>3, <2>4, SMT DEF B
  <2>5. CASE r - r0 # Q - 1
    <3>1. q # B
      BY <1>1, <2>1, <2>5
    <3>2. q \in 0 .. B - 1
      BY <1>1, <1>4, <1>5, <2>2, <3>1, SMT
    <3> QED BY <1>3, <2>1, <2>3, <2>5, <3>2 DEF B
  <2> QED BY <2>4, <2>5
<1> QED BY <1>7, <1>8

(* The buckets next to one.                                                *)
LEMMA Neighbours ==
  ASSUME NEW b \in Nat, b > 1, NEW x \in 0 .. b - 1
  PROVE  /\ (x + 1) % b \in 0 .. b - 1 /\ (x + 1) % b # x
         /\ (x - 1) % b \in 0 .. b - 1 /\ (x - 1) % b # x
<1>1. x \in Int /\ 0 <= x /\ x <= b - 1
  BY SMT
<1>2. (x + 1) % b = IF x = b - 1 THEN 0 ELSE x + 1
  BY <1>1, SMT
<1>3. (x - 1) % b = IF x = 0 THEN b - 1 ELSE x - 1
  BY <1>1, SMT
<1> QED BY <1>1, <1>2, <1>3, SMT

(* A hint moves a coefficient to another bucket.                           *)
LEMMA HintMoves ==
  ASSUME MlDsaRingAssumption, NEW r \in Field
  PROVE  /\ \A b : use_hint_coeff(b, r) \in 0 .. Buckets - 1
         /\ use_hint_coeff(1, r) # use_hint_coeff(0, r)
<1> DEFINE r1 == decompose(r)[1]
           r0 == decompose(r)[2]
<1>1. r1 \in 0 .. Buckets - 1 /\ Buckets \in Nat /\ Buckets > 1
  BY UpperIn, BucketsAre
<1> HIDE DEF r1, r0
<1>2. /\ (r1 + 1) % Buckets \in 0 .. Buckets - 1 /\ (r1 + 1) % Buckets # r1
      /\ (r1 - 1) % Buckets \in 0 .. Buckets - 1 /\ (r1 - 1) % Buckets # r1
  BY <1>1, Neighbours
<1>3. \A b : use_hint_coeff(b, r) =
               IF b # 1 THEN r1 ELSE IF r0 > 0 THEN (r1 + 1) % Buckets
                                               ELSE (r1 - 1) % Buckets
  BY DEF use_hint_coeff, r1, r0
<1>4. 0 # 1
  BY SMT
<1> QED BY <1>1, <1>2, <1>3, <1>4

(* Nor do buckets fall together when their numbers are packed.             *)
LEMMA PackKeeps ==
  ASSUME MlDsaRingAssumption, NEW x \in 0 .. Buckets - 1
  PROVE  (x % Bits(bitlen(Buckets - 1))) = x
<1> DEFINE w == Bits(bitlen(Buckets - 1))
<1>1. w \in Buckets .. 2 * Buckets
  BY DEF MlDsaRingAssumption
<1>2. w \in Nat /\ x \in Nat /\ x < w
  BY <1>1, BucketsAre, SMT
<1> HIDE DEF w
<1>3. (x % w) = x
  BY <1>2, Modulus
<1> QED BY <1>3 DEF w

(* A number of a bucket and a distance from its middle; the numbers just   *)
(* below Q are in the first bucket.                                        *)
InBucket(a, b) ==
  /\ a \in 0 .. Buckets - 1 /\ b \in Int
  /\ -GAMMA2 <= b /\ b <= GAMMA2 /\ (b = -GAMMA2 => a = 0)

Middle(a) == (2 * GAMMA2) * a

LEMMA MiddleIs ==
  ASSUME MlDsaRingAssumption, NEW a \in Int
  PROVE  /\ Middle(a) \in Int /\ Middle(a + 1) = Middle(a) + 2 * GAMMA2
         /\ Middle(a - 1) = Middle(a) - 2 * GAMMA2
         /\ Middle(0) = 0 /\ Middle(Buckets) = Q - 1
         /\ \A b \in Int : a <= b => Middle(a) <= Middle(b)
<1> DEFINE alpha == 2 * GAMMA2
<1>1. alpha \in Nat /\ alpha > 0 /\ Q - 1 = alpha * Buckets
  BY BucketsAre, SMT
<1> HIDE DEF alpha
<1>2. \A b \in Int : a <= b => alpha * a <= alpha * b
  BY <1>1, Times2
<1>3. /\ alpha * a \in Int /\ alpha * (a + 1) = alpha * a + alpha
      /\ alpha * (a - 1) = alpha * a - alpha /\ alpha * 0 = 0
  BY <1>1, SMT
<1> QED BY <1>1, <1>2, <1>3 DEF Middle, alpha

(* decompose finds the bucket.                                             *)
LEMMA BucketIs ==
  ASSUME MlDsaRingAssumption, NEW r \in Field
  PROVE  /\ InBucket(decompose(r)[1], decompose(r)[2])
         /\ Is(r, Middle(decompose(r)[1]) + decompose(r)[2])
<1> DEFINE alpha == 2 * GAMMA2
           q == r \div alpha
           m == r % alpha
           r0 == IF m > GAMMA2 THEN m - alpha ELSE m
           a == decompose(r)[1]
           b == decompose(r)[2]
<1>1. /\ alpha \in Nat /\ alpha > 0 /\ GAMMA2 \in Nat /\ GAMMA2 > 0 /\ alpha = 2 * GAMMA2
      /\ Buckets \in Nat /\ Buckets > 1
  BY BucketsAre, SMT
<1>2. r \in Int /\ 0 <= r /\ r <= Q - 1 /\ Q \in Int
  BY Ring, SMT DEF Field
<1>3. /\ a = IF r - r0 = Q - 1 THEN 0 ELSE (r - r0) \div alpha
      /\ b = IF r - r0 = Q - 1 THEN r0 - 1 ELSE r0
  BY DEF decompose
<1> HIDE DEF a, b, alpha
<1>4. a \in 0 .. Buckets - 1
  BY UpperIn DEF a
<1>5. q \in Int /\ m \in 0 .. alpha - 1 /\ r = alpha * q + m
  BY <1>1, <1>2, DivMod
<1> HIDE DEF q, m
<1> DEFINE p == IF m > GAMMA2 THEN q + 1 ELSE q
<1>6. p \in Int /\ r - r0 = Middle(p) /\ r0 \in Int /\ -GAMMA2 < r0 /\ r0 <= GAMMA2
  <2>1. Middle(q) = alpha * q /\ Middle(q) \in Int /\ Middle(q + 1) = Middle(q) + 2 * GAMMA2
    BY <1>5, MiddleIs DEF Middle, alpha
  <2>2. CASE m > GAMMA2
    BY <1>1, <1>2, <1>5, <2>1, <2>2, SMT
  <2>3. CASE ~ (m > GAMMA2)
    BY <1>1, <1>2, <1>5, <2>1, <2>3, SMT
  <2> QED BY <2>2, <2>3
<1> HIDE DEF p, r0
<1>7. Middle(p) \in Int /\ Middle(p) = alpha * p /\ (alpha * p) \div alpha = p
  BY <1>1, <1>6, MiddleIs, Monotone DEF Middle, alpha
<1>8. CASE r - r0 = Q - 1
  <2>1. a = 0 /\ b = r0 - 1
    BY <1>3, <1>8
  <2>2. Middle(a) = 0
    BY <1>1, <2>1, MiddleIs
  <2>3. b \in Int /\ b <= -1 /\ -GAMMA2 <= b
    <3>1. /\ r \in Int /\ r <= Q - 1 /\ Q \in Int /\ r0 \in Int /\ -GAMMA2 < r0 /\ GAMMA2 \in Int
          /\ r - r0 = Q - 1 /\ b = r0 - 1
      BY <1>1, <1>2, <1>6, <1>8, <2>1
    <3> QED BY ONLY <3>1, SMT
  <2>4. r = (Middle(a) + b) + 1 * Q /\ 1 \in Int
    BY <1>2, <1>6, <1>8, <2>1, <2>2, SMT
  <2>5. Is(r, Middle(a) + b)
    BY <2>4 DEF Is, Cong
  <2>6. b <= GAMMA2
    BY <1>1, <2>3, SMT
  <2>7. InBucket(a, b)
    BY <1>4, <2>1, <2>3, <2>6 DEF InBucket
  <2> QED BY <2>5, <2>7 DEF a, b
<1>9. CASE r - r0 # Q - 1
  <2>1. a = p /\ b = r0
    BY <1>3, <1>6, <1>7, <1>9
  <2>2. r = Middle(a) + b
    BY <1>2, <1>6, <1>7, <2>1, SMT
  <2>3. Is(r, Middle(a) + b)
    BY <1>2, <2>2, IsRefl
  <2>4. InBucket(a, b)
    BY <1>1, <1>4, <1>6, <2>1, SMT DEF InBucket
  <2> QED BY <2>3, <2>4 DEF a, b
<1> QED BY <1>8, <1>9

(* And there is no other.                                                  *)
LEMMA BucketOf ==
  ASSUME MlDsaRingAssumption, NEW r \in Field, NEW a, NEW b, InBucket(a, b),
         Is(r, Middle(a) + b)
  PROVE  decompose(r)[1] = a /\ decompose(r)[2] = b
<1> DEFINE c == decompose(r)[1]
           d == decompose(r)[2]
           x == Middle(a) + b
           y == Middle(c) + d
           u == x + GAMMA2
           v == y + GAMMA2
<1>1. InBucket(c, d) /\ Is(r, y)
  BY BucketIs
<1> HIDE DEF c, d
<1>2. /\ GAMMA2 \in Nat /\ GAMMA2 > 0 /\ Buckets \in Nat /\ Q \in Nat /\ Q > 1
      /\ r \in Int /\ Buckets - 1 \in Int
  BY BucketsAre, FieldInt, SMT
<1>3. /\ a \in Int /\ 0 <= a /\ a <= Buckets - 1 /\ b \in Int /\ -GAMMA2 <= b /\ b <= GAMMA2
      /\ c \in Int /\ 0 <= c /\ c <= Buckets - 1 /\ d \in Int /\ -GAMMA2 <= d /\ d <= GAMMA2
      /\ (b = -GAMMA2 => a = 0) /\ (d = -GAMMA2 => c = 0)
  BY <1>1, <1>2, SMT DEF InBucket
<1> DEFINE top == Buckets - 1
<1>4. Middle(top) = Q - 1 - 2 * GAMMA2 /\ Middle(0) = 0
  BY <1>2, MiddleIs
<1>5. /\ Middle(a) \in Int /\ 0 <= Middle(a) /\ Middle(a) <= Q - 1 - 2 * GAMMA2
      /\ Middle(c) \in Int /\ 0 <= Middle(c) /\ Middle(c) <= Q - 1 - 2 * GAMMA2
  <2>1. 0 \in Int /\ top \in Int
    BY <1>2
  <2>2. /\ Middle(a) \in Int /\ Middle(0) <= Middle(a) /\ Middle(a) <= Middle(top)
        /\ Middle(c) \in Int /\ Middle(0) <= Middle(c) /\ Middle(c) <= Middle(top)
    BY <1>3, <2>1, MiddleIs
  <2> QED BY <1>4, <2>2
<1>6. x \in Int /\ y \in Int /\ u \in 0 .. Q - 1 /\ v \in 0 .. Q - 1
  BY <1>2, <1>3, <1>5, SMT
<1>7. Is(u, v)
  <2>1. Is(r, x)
    OBVIOUS
  <2> HIDE DEF x, y
  <2>2. Is(x, r)
    BY <1>2, <1>6, <2>1, IsSym
  <2>3. Is(x, y)
    BY <1>1, <1>2, <1>6, <2>2, IsTrans
  <2>4. GAMMA2 \in Int
    BY <1>2
  <2>5. Is(GAMMA2, GAMMA2)
    BY <2>4, IsRefl
  <2> QED BY <1>6, <2>3, <2>4, <2>5, IsPlus
<1>8. u = v
  <2> HIDE DEF u, v
  <2> QED BY <1>6, <1>7, FieldEqual DEF Field
<1>9. Middle(a) + b = Middle(c) + d
  <2>1. x + GAMMA2 = y + GAMMA2
    BY <1>8
  <2> HIDE DEF x, y
  <2>2. x = y
    BY <1>2, <1>6, <2>1, SMT
  <2> QED BY <2>2 DEF x, y
<1>10. CASE a = c
  <2>1. b = d
    BY <1>3, <1>5, <1>9, <1>10, SMT
  <2> QED BY <1>10, <2>1 DEF c, d
<1>11. CASE a < c
  <2>1. Middle(a + 1) <= Middle(c) /\ Middle(a + 1) = Middle(a) + 2 * GAMMA2
    <3> DEFINE e == a + 1
    <3>1. e \in Int /\ e <= c
      BY <1>3, <1>11, SMT
    <3>2. Middle(e) = Middle(a) + 2 * GAMMA2
      BY <1>3, MiddleIs
    <3> HIDE DEF e
    <3>3. Middle(e) <= Middle(c)
      BY <1>3, <3>1, MiddleIs
    <3> QED BY <3>2, <3>3 DEF e
  <2>2. d = -GAMMA2
    BY <1>2, <1>3, <1>5, <1>9, <2>1, SMT
  <2> QED BY <1>3, <1>11, <2>2, SMT
<1>12. CASE c < a
  <2>1. Middle(c + 1) <= Middle(a) /\ Middle(c + 1) = Middle(c) + 2 * GAMMA2
    <3> DEFINE e == c + 1
    <3>1. e \in Int /\ e <= a
      BY <1>3, <1>12, SMT
    <3>2. Middle(e) = Middle(c) + 2 * GAMMA2
      BY <1>3, MiddleIs
    <3> HIDE DEF e
    <3>3. Middle(e) <= Middle(a)
      BY <1>3, <3>1, MiddleIs
    <3> QED BY <3>2, <3>3 DEF e
  <2>2. b = -GAMMA2
    BY <1>2, <1>3, <1>5, <1>9, <2>1, SMT
  <2> QED BY <1>3, <1>12, <2>2, SMT
<1> QED BY <1>3, <1>10, <1>11, <1>12, SMT

(* A coefficient that is a number of at most n, or its negative.           *)
Within(x, n) == \E v \in Int : Is(x, v) /\ -n <= v /\ v <= n

(* What a small summand leaves in its bucket. *)
LEMMA LowStable ==
  ASSUME MlDsaRingAssumption, NEW w \in Field, NEW c \in Field, NEW n \in Nat,
         Within(c, n), decompose(Sub(w, c))[2] > n - GAMMA2,
         decompose(Sub(w, c))[2] < GAMMA2 - n
  PROVE  decompose(w)[1] = decompose(Sub(w, c))[1]
<1> DEFINE u == Sub(w, c)
           a == decompose(u)[1]
           b == decompose(u)[2]
<1>1. u \in Field
  BY SubIn
<1>2. InBucket(a, b) /\ Is(u, Middle(a) + b)
  <2> HIDE DEF u
  <2> QED BY <1>1, BucketIs
<1>3. PICK v \in Int : Is(c, v) /\ -n <= v /\ v <= n
  BY DEF Within
<1>4. n - GAMMA2 < b /\ b < GAMMA2 - n
  BY <1>2, BucketsAre, SMT DEF InBucket
<1>5. Add(u, c) = w
  BY AddLaws
<1> HIDE DEF u, a, b
<1> DEFINE d == b + v
           x == Middle(a) + b
           y == x + v
           z == Middle(a) + d
           s == u + c
<1>6. /\ GAMMA2 \in Nat /\ a \in Int /\ b \in Int /\ Middle(a) \in Int
      /\ u \in Int /\ c \in Int /\ w \in Int
  BY <1>1, <1>2, BucketsAre, FieldInt, MiddleIs, SMT DEF InBucket
<1>7. x \in Int /\ y \in Int /\ s \in Int /\ y = z /\ d \in Int /\ -GAMMA2 < d /\ d < GAMMA2
  BY <1>3, <1>4, <1>6, SMT
<1>8. InBucket(a, d)
  BY <1>2, <1>6, <1>7, SMT DEF InBucket
<1>9. Is(w, s)
  BY <1>5, <1>6, AddIs
<1>10. Is(u, x)
  BY <1>2
<1> HIDE DEF x
<1>11. Is(s, y)
  BY <1>3, <1>6, <1>7, <1>10, IsPlus
<1> HIDE DEF s, y, z
<1>12. Is(w, y)
  BY <1>6, <1>7, <1>9, <1>11, IsTrans
<1>13. Is(w, Middle(a) + d)
  BY <1>7, <1>12 DEF z
<1> HIDE DEF d
<1>14. decompose(w)[1] = a
  BY <1>8, <1>13, BucketOf
<1> QED BY <1>14 DEF a, u

(* The buckets next to one. *)
LEMMA NextBucket ==
  ASSUME MlDsaRingAssumption, NEW a \in 0 .. Buckets - 1
  PROVE  /\ a > 0 => ((a - 1) + 1) % Buckets = a
         /\ a < Buckets - 1 => ((a + 1) - 1) % Buckets = a
         /\ a = 0 => ((Buckets - 1) + 1) % Buckets = a
         /\ a = Buckets - 1 => (0 - 1) % Buckets = a
<1> DEFINE B == Buckets
<1>1. B \in Nat /\ B > 1 /\ a \in Nat /\ a < B /\ a \in Int
  BY BucketsAre, SMT
<1> HIDE DEF B
<1>2. (a % B) = a
  BY <1>1, Modulus
<1>3. (a - 1) + 1 = a /\ (a + 1) - 1 = a
  BY <1>1, SMT
<1>4. (B % B) = 0
  <2>1. B \in Nat /\ B > 0 /\ 1 \in Int /\ 0 \in 0 .. B - 1 /\ B \in Int /\ B = B * 1 + 0
    BY <1>1, SMT
  <2> QED BY ONLY <2>1, DivIs
<1>5. ((-1) % B) = B - 1
  <2>1. B \in Nat /\ B > 0 /\ -1 \in Int /\ B - 1 \in 0 .. B - 1 /\ -1 = B * (-1) + (B - 1)
    BY <1>1, SMT
  <2> DEFINE m == -1
             e == B - 1
  <2>2. B \in Nat /\ B > 0 /\ m \in Int /\ e \in 0 .. B - 1 /\ m = B * m + e
    BY <2>1
  <2> HIDE DEF m, e
  <2>3. (m % B) = e
    BY ONLY <2>2, DivIs
  <2> QED BY <2>3 DEF m, e
<1>6. (B - 1) + 1 = B /\ 0 - 1 = -1
  BY <1>1, SMT
<1> QED BY <1>2, <1>3, <1>4, <1>5, <1>6 DEF B

(* A summand below half a bucket moves a coefficient one bucket at most,   *)
(* and to which side says the sign of what is left.                        *)
LEMMA MovesByOne ==
  ASSUME MlDsaRingAssumption, NEW u \in Field, NEW c \in Field,
         Within(c, GAMMA2 - 1), NEW r, r = Add(u, c),
         decompose(r)[1] # decompose(u)[1]
  PROVE  use_hint_coeff(1, r) = decompose(u)[1]
<1> DEFINE a == decompose(u)[1]
           b == decompose(u)[2]
<1>1. r \in Field
  BY AddIn
<1>2. InBucket(a, b) /\ Is(u, Middle(a) + b)
  BY BucketIs
<1> HIDE DEF a, b
<1>3. PICK v \in Int : Is(c, v) /\ -(GAMMA2 - 1) <= v /\ v <= GAMMA2 - 1
  BY DEF Within
<1> DEFINE d == b + v
           x == Middle(a) + b
           y == x + v
           z == Middle(a) + d
           s == u + c
<1>4. /\ GAMMA2 \in Nat /\ GAMMA2 > 0 /\ Buckets \in Nat /\ Buckets > 1
      /\ a \in Int /\ 0 <= a /\ a <= Buckets - 1 /\ Q \in Int /\ Buckets \in Int
  BY <1>2, BucketsAre, FieldInt, SMT DEF InBucket
<1>5. /\ b \in Int /\ -GAMMA2 <= b /\ b <= GAMMA2 /\ (b = -GAMMA2 => a = 0)
      /\ Middle(a) \in Int /\ u \in Int /\ c \in Int /\ r \in Int
  BY <1>1, <1>2, <1>4, FieldInt, MiddleIs DEF InBucket
<1>6. /\ x \in Int /\ y \in Int /\ s \in Int /\ z \in Int /\ y = z /\ d \in Int
      /\ -2 * GAMMA2 < d /\ d < 2 * GAMMA2 /\ -GAMMA2 - (GAMMA2 - 1) <= d
  BY <1>3, <1>4, <1>5, SMT
<1>7. Is(r, s)
  BY <1>5, AddIs
<1>8. Is(u, x)
  BY <1>2
<1> HIDE DEF x
<1>9. Is(s, y)
  BY <1>3, <1>5, <1>6, <1>8, IsPlus
<1> HIDE DEF s, y
<1>10. Is(r, z)
  <2>1. Is(r, y)
    BY <1>5, <1>6, <1>7, <1>9, IsTrans
  <2> QED BY <1>6, <2>1
<1>11. \A e, f : InBucket(e, f) /\ Is(r, Middle(e) + f) =>
          /\ e # a
          /\ f > 0 => use_hint_coeff(1, r) = (e + 1) % Buckets
          /\ ~ (f > 0) => use_hint_coeff(1, r) = (e - 1) % Buckets
  <2>1. SUFFICES ASSUME NEW e, NEW f, InBucket(e, f), Is(r, Middle(e) + f)
                 PROVE  /\ e # a
                        /\ f > 0 => use_hint_coeff(1, r) = (e + 1) % Buckets
                        /\ ~ (f > 0) => use_hint_coeff(1, r) = (e - 1) % Buckets
    OBVIOUS
  <2>2. decompose(r)[1] = e /\ decompose(r)[2] = f
    BY <1>1, <2>1, BucketOf
  <2> QED BY <2>2 DEF use_hint_coeff, a
<1>12. CASE -GAMMA2 < d /\ d <= GAMMA2
  <2>1. InBucket(a, d)
    BY <1>2, <1>6, <1>12, <1>4, SMT DEF InBucket
  <2> QED BY <1>10, <1>11, <2>1
<1>13. CASE d > GAMMA2
  <2>1. CASE a < Buckets - 1
    <3> DEFINE e == a + 1
               f == d - 2 * GAMMA2
    <3>1. e \in 0 .. Buckets - 1 /\ f \in Int /\ -GAMMA2 < f /\ f < 0
      BY <1>4, <1>6, <1>13, <2>1, SMT
    <3>2. Middle(e) + f = z
      <4>1. Middle(e) = Middle(a) + 2 * GAMMA2
        BY <1>4, MiddleIs
      <4> HIDE DEF e
      <4> QED BY <1>4, <1>5, <1>6, <4>1, SMT
    <3>3. (e - 1) % Buckets = a
      BY <1>2, <2>1, NextBucket DEF InBucket
    <3> HIDE DEF e, f
    <3>4. InBucket(e, f) /\ ~ (f > 0)
      BY <1>4, <3>1, SMT DEF InBucket
    <3> QED BY <1>10, <1>11, <3>2, <3>3, <3>4 DEF a
  <2>2. CASE a = Buckets - 1
    <3> DEFINE f == d - 2 * GAMMA2 - 1
    <3>1. f \in Int /\ -GAMMA2 <= f /\ f < 0 /\ 0 \in 0 .. Buckets - 1
      BY <1>4, <1>6, <1>13, SMT
    <3>2. Is(r, Middle(0) + f)
      <4> DEFINE t == Middle(0) + f
      <4>1. Middle(0) = 0 /\ Middle(Buckets) = Q - 1
        BY <1>4, MiddleIs
      <4>2. Middle(a + 1) = Middle(a) + 2 * GAMMA2
        BY <1>4, MiddleIs
      <4>3. a + 1 = Buckets
        BY <1>4, <2>2, SMT
      <4>4. Middle(a) + 2 * GAMMA2 = Q - 1
        BY <4>1, <4>2, <4>3
      <4>5. z = t + 1 * Q /\ t \in Int /\ 1 \in Int
        BY <1>4, <1>5, <1>6, <3>1, <4>1, <4>4, SMT
      <4>6. Is(z, t)
        <5> HIDE DEF z, t
        <5> QED BY <4>5 DEF Is, Cong
      <4> HIDE DEF z, t
      <4>7. Is(r, t)
        BY <1>5, <1>6, <1>10, <4>5, <4>6, IsTrans
      <4> QED BY <4>7 DEF t
    <3>3. (0 - 1) % Buckets = a
      BY <1>2, <2>2, NextBucket DEF InBucket
    <3> HIDE DEF f
    <3>4. InBucket(0, f) /\ ~ (f > 0)
      BY <1>4, <3>1, SMT DEF InBucket
    <3> QED BY <1>11, <3>2, <3>3, <3>4 DEF a
  <2> QED BY <1>4, <2>1, <2>2, SMT
<1>14. CASE d <= -GAMMA2
  <2>1. CASE a > 0
    <3> DEFINE e == a - 1
               f == d + 2 * GAMMA2
    <3>1. e \in 0 .. Buckets - 1 /\ f \in Int /\ 0 < f /\ f <= GAMMA2
      BY <1>4, <1>6, <1>14, <2>1, SMT
    <3>2. Middle(e) + f = z
      <4>1. Middle(e) = Middle(a) - 2 * GAMMA2
        BY <1>4, MiddleIs
      <4> HIDE DEF e
      <4> QED BY <1>4, <1>5, <1>6, <4>1, SMT
    <3>3. (e + 1) % Buckets = a
      BY <1>2, <2>1, NextBucket DEF InBucket
    <3> HIDE DEF e, f
    <3>4. InBucket(e, f) /\ f > 0
      BY <1>4, <3>1, SMT DEF InBucket
    <3> QED BY <1>10, <1>11, <3>2, <3>3, <3>4 DEF a
  <2>2. CASE a = 0 /\ d = -GAMMA2
    <3>1. InBucket(a, d)
      BY <1>2, <1>6, <1>4, <2>2, SMT DEF InBucket
    <3> QED BY <1>10, <1>11, <3>1
  <2>3. CASE a = 0 /\ d # -GAMMA2
    <3> DEFINE e == Buckets - 1
               f == d + 2 * GAMMA2 + 1
    <3>1. e \in 0 .. Buckets - 1 /\ e \in Int /\ f \in Int /\ 0 < f /\ f <= GAMMA2
      BY <1>4, <1>6, <1>14, <2>3, SMT
    <3>2. Is(r, Middle(e) + f)
      <4> DEFINE t == Middle(e) + f
      <4>1. Middle(0) = 0 /\ Middle(Buckets) = Q - 1
        BY <1>4, MiddleIs
      <4>2. Middle(e) = Middle(Buckets) - 2 * GAMMA2
        BY <1>4, MiddleIs
      <4> HIDE DEF e
      <4>3. z = t + (-1) * Q /\ t \in Int /\ -1 \in Int
        BY <1>4, <1>5, <1>6, <2>3, <3>1, <4>1, <4>2, SMT
      <4>4. Is(z, t)
        <5> HIDE DEF z, t
        <5> QED BY <4>3 DEF Is, Cong
      <4> HIDE DEF z, t
      <4>5. Is(r, t)
        BY <1>5, <1>6, <1>10, <4>3, <4>4, IsTrans
      <4> QED BY <4>5 DEF t
    <3>3. (e + 1) % Buckets = a
      BY <1>2, <2>3, NextBucket DEF InBucket
    <3> HIDE DEF e, f
    <3>4. InBucket(e, f) /\ f > 0
      BY <1>4, <3>1, SMT DEF InBucket
    <3> QED BY <1>11, <3>2, <3>3, <3>4 DEF a
  <2> QED BY <1>4, <2>1, <2>2, <2>3, SMT
<1> QED BY <1>4, <1>6, <1>12, <1>13, <1>14, SMT

(* The hint that the summand is made into takes it back. *)
LEMMA HintTakesBack ==
  ASSUME MlDsaRingAssumption, NEW u \in Field, NEW c \in Field, Within(c, GAMMA2 - 1)
  PROVE  /\ make_hint_coeff(IF c = 0 THEN 0 ELSE Q - c, Add(u, c)) \in {0, 1}
         /\ use_hint_coeff(make_hint_coeff(IF c = 0 THEN 0 ELSE Q - c, Add(u, c)), Add(u, c))
              = decompose(u)[1]
<1> DEFINE r == Add(u, c)
           z == IF c = 0 THEN 0 ELSE Q - c
<1>1. r \in Field
  BY AddIn
<1>2. (r + z) % Q = u
  <2>1. /\ Q \in Int /\ Q > 1 /\ u \in Int /\ 0 <= u /\ u < Q
        /\ c \in Int /\ 0 <= c /\ c < Q
    BY FieldInt
  <2>2. r + z = Q * 0 + u \/ r + z = Q * 1 + u
    BY <2>1, SMT DEF Add
  <2>3. Q \in Nat /\ Q > 0 /\ 0 \in Int /\ 1 \in Int /\ u \in 0 .. Q - 1
    BY <2>1, SMT
  <2> DEFINE x == r + z
  <2>4. x \in Int
    <3>1. r \in Int
      BY <1>1, FieldInt
    <3>2. z \in Int
      BY <2>1, SMT
    <3> HIDE DEF r, z
    <3> QED BY <3>1, <3>2, SMT
  <2> HIDE DEF r, z
  <2>5. x = Q * 0 + u \/ x = Q * 1 + u
    BY <2>2
  <2> HIDE DEF x
  <2>6. (x % Q) = u
    BY <2>3, <2>4, <2>5, DivIs
  <2> QED BY <2>6 DEF x
<1> DEFINE h == make_hint_coeff(z, r)
<1>3. h = IF decompose(r)[1] # decompose(u)[1] THEN 1 ELSE 0
  BY <1>2 DEF make_hint_coeff
<1>4. use_hint_coeff(1, r) = decompose(u)[1] \/ decompose(r)[1] = decompose(u)[1]
  BY MovesByOne
<1> HIDE DEF r, z
<1>5. use_hint_coeff(0, r) = decompose(r)[1]
  <2>1. 0 # 1
    BY SMT
  <2> QED BY <2>1 DEF use_hint_coeff
<1>6. use_hint_coeff(h, r) = decompose(u)[1]
  BY <1>3, <1>4, <1>5
<1> QED BY <1>3, <1>6 DEF r, z

-----------------------------------------------------------------------------
(* Norms, and what is kept when coefficients are packed.                   *)

(* A bounded set of numbers has its greatest. *)
LEMMA Greatest ==
  ASSUME NEW n \in Nat, NEW T, T \subseteq 0 .. n, T # {}
  PROVE  Max(T) \in T /\ \A y \in T : Max(T) >= y
<1> DEFINE B == {n - x : x \in T}
<1>1. \A x \in T : x \in Int /\ n - x \in Nat
  BY SMT
<1>2. B \subseteq Nat /\ B # {}
  BY <1>1
<1>3. PICK m \in B : \A y \in B : m <= y
  <2> HIDE DEF B
  <2> QED BY <1>2, LeastNat
<1>4. PICK x \in T : m = n - x
  BY <1>3
<1>5. \A y \in T : x >= y
  <2>1. SUFFICES ASSUME NEW y \in T PROVE x >= y
    OBVIOUS
  <2>2. n - x <= n - y
    BY <1>3, <1>4
  <2> QED BY <1>1, <2>2, SMT
<1> QED BY <1>4, <1>5 DEF Max

(* A coefficient as a signed number. *)
LEMMA CentredIs ==
  ASSUME MlDsaRingAssumption, NEW x \in Field
  PROVE  /\ fq_to_signed(x) \in Int /\ Is(x, fq_to_signed(x))
         /\ x = Lift(fq_to_signed(x)) /\ Abs(fq_to_signed(x)) \in 0 .. Q
         /\ -Abs(fq_to_signed(x)) <= fq_to_signed(x) /\ fq_to_signed(x) <= Abs(fq_to_signed(x))
<1> DEFINE s == fq_to_signed(x)
<1>1. x \in Int /\ 0 <= x /\ x < Q /\ Q \in Int /\ Q > 1
  BY FieldInt
<1>2. Q \div 2 \in Int /\ 0 <= Q \div 2 /\ Q \div 2 < Q /\ Q <= 2 * (Q \div 2) + 1
  BY <1>1, SMT
<1>3. s = x \/ (s = x - Q /\ x > Q \div 2)
  BY DEF fq_to_signed
<1> HIDE DEF s
<1>4. s \in Int /\ x = Lift(s) /\ Abs(s) \in 0 .. Q /\ -Abs(s) <= s /\ s <= Abs(s)
  BY <1>1, <1>2, <1>3, SMT DEF Lift, Abs
<1>5. Is(x, s)
  <2>1. x = s + 0 * Q \/ x = s + 1 * Q
    BY <1>1, <1>3, SMT
  <2>2. 0 \in Int /\ 1 \in Int
    BY SMT
  <2> QED BY <2>1, <2>2 DEF Is, Cong
<1> QED BY <1>4, <1>5 DEF s

(* A norm bounds every coefficient. *)
LEMMA NormIs ==
  ASSUME MlDsaRingAssumption, NEW n \in Nat, NEW v \in Vectors(n),
         NEW m \in Int, inf_norm_vec(v) < m, NEW i \in 1 .. n, NEW j \in Index
  PROVE  Abs(fq_to_signed(v[i][j])) < m
<1> DEFINE T == {Abs(fq_to_signed(v[k][l])) : k \in DOMAIN v, l \in Index}
           x == Abs(fq_to_signed(v[i][j]))
<1>1. DOMAIN v = 1 .. n /\ \A k \in 1 .. n, l \in Index : v[k][l] \in Field
  BY DEF Vectors, Polys
<1>2. T \subseteq 0 .. Q
  BY <1>1, CentredIs
<1>3. x \in T
  BY <1>1
<1>4. inf_norm_vec(v) = Max(T)
  BY DEF inf_norm_vec
<1> HIDE DEF T, x
<1>5. Max(T) \in T /\ Max(T) >= x
  BY <1>2, <1>3, FieldInt, Greatest
<1>6. Max(T) \in Int /\ x \in Int
  <2>1. \A y \in 0 .. Q : y \in Int
    BY FieldInt, SMT
  <2> QED BY <1>2, <1>3, <1>5, <2>1
<1> QED BY <1>4, <1>5, <1>6, SMT DEF x

LEMMA NormWithin ==
  ASSUME MlDsaRingAssumption, NEW n \in Nat, NEW v \in Vectors(n),
         NEW m \in Int, inf_norm_vec(v) < m, NEW i \in 1 .. n, NEW j \in Index
  PROVE  /\ Within(v[i][j], m - 1) /\ v[i][j] = Lift(fq_to_signed(v[i][j]))
         /\ fq_to_signed(v[i][j]) \in -(m - 1) .. m - 1
<1> DEFINE x == v[i][j]
           s == fq_to_signed(x)
           l == m - 1
<1>1. x \in Field
  BY DEF Vectors, Polys
<1>2. Abs(s) < m
  BY NormIs
<1> HIDE DEF x
<1>3. s \in Int /\ Is(x, s) /\ x = Lift(s) /\ Abs(s) \in 0 .. Q /\ -Abs(s) <= s /\ s <= Abs(s)
  BY <1>1, CentredIs
<1> HIDE DEF s
<1>4. Abs(s) \in Int
  BY <1>3, SMT
<1>5. -l <= s /\ s <= l /\ l \in Int
  BY <1>2, <1>3, <1>4, SMT
<1>6. s \in -l .. l
  BY <1>3, <1>5, SMT
<1> HIDE DEF l
<1>7. Within(x, l)
  BY <1>3, <1>5 DEF Within
<1> QED BY <1>3, <1>6, <1>7 DEF x, s, l

(* The norm is a number, and low bits are coefficients.                    *)
LEMMA NormInt ==
  ASSUME MlDsaRingAssumption, NEW n \in Nat, n > 0, NEW v \in Vectors(n)
  PROVE  inf_norm_vec(v) \in Int
<1> DEFINE T == {Abs(fq_to_signed(v[k][l])) : k \in DOMAIN v, l \in Index}
<1>1. DOMAIN v = 1 .. n /\ \A k \in 1 .. n, l \in Index : v[k][l] \in Field
  BY DEF Vectors, Polys
<1>2. T \subseteq 0 .. Q
  BY <1>1, CentredIs
<1>3. 1 \in 1 .. n /\ 0 \in Index
  BY Ring, SMT DEF Index
<1>4. Abs(fq_to_signed(v[1][0])) \in T
  BY <1>1, <1>3
<1>5. inf_norm_vec(v) = Max(T)
  BY DEF inf_norm_vec
<1> HIDE DEF T
<1>6. Max(T) \in 0 .. Q
  BY <1>2, <1>4, FieldInt, Greatest
<1>7. \A y \in 0 .. Q : y \in Int
  BY FieldInt, SMT
<1> QED BY <1>5, <1>6, <1>7

(* The signed number of low bits is what they are. *)
LEMMA LowIs ==
  ASSUME MlDsaRingAssumption, NEW u \in Field, NEW m \in Int,
         Abs(fq_to_signed(Lift(decompose(u)[2]))) < m
  PROVE  Lift(decompose(u)[2]) \in Field /\ -m < decompose(u)[2] /\ decompose(u)[2] < m
<1> DEFINE b == decompose(u)[2]
<1>1. InBucket(decompose(u)[1], b)
  BY BucketIs
<1> HIDE DEF b
<1>2. b \in Int /\ -GAMMA2 <= b /\ b <= GAMMA2
  BY <1>1 DEF InBucket
<1>3. GAMMA2 \in Int /\ GAMMA2 > 0 /\ Q \in Int /\ 4 * GAMMA2 + 1 <= Q
  <2>1. /\ GAMMA2 \in Nat /\ GAMMA2 > 0 /\ Buckets \in Nat /\ Buckets > 1
        /\ Q - 1 = (2 * GAMMA2) * Buckets /\ Q \in Int
    BY BucketsAre, FieldInt
  <2> DEFINE e == 2 * GAMMA2
  <2>2. e \in Nat /\ 2 \in Int /\ Buckets \in Int /\ 2 <= Buckets
    BY <2>1, SMT
  <2> HIDE DEF e
  <2>3. e * 2 <= e * Buckets /\ e * 2 = e + e
    BY <2>2, Times2, SMT
  <2>4. e + e <= Q - 1
    BY <2>1, <2>3 DEF e
  <2> QED BY <2>1, <2>4, SMT DEF e
<1>4. Q \div 2 \in Int /\ 2 * (Q \div 2) <= Q /\ Q <= 2 * (Q \div 2) + 1
  BY <1>3, SMT
<1> DEFINE h == Q \div 2
<1>5. h \in Int /\ 2 * h <= Q /\ Q <= 2 * h + 1
  BY <1>4
<1>6. fq_to_signed(Lift(b)) = IF Lift(b) > h THEN Lift(b) - Q ELSE Lift(b)
  BY DEF fq_to_signed
<1> HIDE DEF h
<1>7. fq_to_signed(Lift(b)) = b
  BY <1>2, <1>3, <1>5, <1>6, SMT DEF Lift
<1>8. Lift(b) \in Field
  BY <1>2, <1>3, SMT DEF Lift, Field
<1>9. Abs(b) < m
  BY <1>7 DEF b
<1>10. -m < b /\ b < m
  BY <1>2, <1>9, SMT DEF Abs
<1> QED BY <1>8, <1>10 DEF b

LEMMA LowField ==
  ASSUME MlDsaRingAssumption, NEW u \in Field
  PROVE  Lift(decompose(u)[2]) \in Field
<1> DEFINE b == decompose(u)[2]
<1>1. InBucket(decompose(u)[1], b)
  BY BucketIs
<1> HIDE DEF b
<1>2. b \in Int /\ -GAMMA2 <= b /\ b <= GAMMA2
  BY <1>1 DEF InBucket
<1>3. GAMMA2 \in Nat /\ GAMMA2 < Q /\ Q \in Int
  <2>1. /\ GAMMA2 \in Nat /\ GAMMA2 > 0 /\ Buckets \in Nat /\ Buckets > 1
        /\ Q - 1 = (2 * GAMMA2) * Buckets /\ Q \in Int
    BY BucketsAre, FieldInt
  <2> DEFINE e == 2 * GAMMA2
  <2>2. e \in Nat /\ Buckets \in Int /\ 1 \in Int /\ 1 <= Buckets /\ e * 1 = e
    BY <2>1, SMT
  <2>3. e * 1 <= e * Buckets
    BY <2>2, Times2
  <2>4. e <= Q - 1
    BY <2>1, <2>2, <2>3
  <2> QED BY <2>1, <2>4, SMT
<1>4. -Q <= b /\ b < Q
  BY <1>2, <1>3, SMT
<1>5. Lift(b) \in Field
  BY <1>2, <1>4, LiftIn
<1> QED BY <1>5 DEF b

(* pack.rs: a signed number from -a to b keeps its value.                  *)
SignedIn(x, a, b) == \E y \in Int : -a <= y /\ y <= b /\ x = Lift(y)

LEMMA PackField ==
  ASSUME MlDsaRingAssumption, NEW a \in Nat, NEW b \in Nat, a + b < Q,
         NEW w \in Nat, a + b < w, NEW x, SignedIn(x, a, b)
  PROVE  /\ (a + fq_to_signed_ct(x, b)) % w \in 0 .. a + b
         /\ signed_to_fq(((a + fq_to_signed_ct(x, b)) % w) - a) = x
<1>1. PICK y \in Int : -a <= y /\ y <= b /\ x = Lift(y)
  BY DEF SignedIn
<1>2. Q \in Int /\ Q > 1
  BY FieldInt
<1>3. fq_to_signed_ct(x, b) = y
  BY <1>1, <1>2, SMT DEF Lift, fq_to_signed_ct
<1> DEFINE e == a + y
<1>4. e \in Nat /\ e < w /\ e \in 0 .. a + b /\ e - a = y
  BY <1>1, SMT
<1> HIDE DEF e
<1>5. (e % w) = e
  BY <1>4, Modulus
<1>6. (a + fq_to_signed_ct(x, b)) % w = e
  BY <1>3, <1>5 DEF e
<1> QED BY <1>1, <1>4, <1>6 DEF signed_to_fq

SignedVec(v, n, a, b) ==
  /\ v = [i \in 1 .. n |-> [j \in Index |-> v[i][j]]]
  /\ \A i \in 1 .. n, j \in Index : SignedIn(v[i][j], a, b)

LEMMA PackVec ==
  ASSUME MlDsaRingAssumption, NEW n \in Nat, NEW a \in Nat, NEW b \in Nat, a + b < Q,
         Bits(bitlen(a + b)) \in Nat, a + b < Bits(bitlen(a + b)),
         NEW v, SignedVec(v, n, a, b)
  PROVE  /\ DOMAIN bit_pack(v, a, b) = 1 .. n
         /\ FieldsBelow(bit_pack(v, a, b), a + b + 1)
         /\ bit_unpack(bit_pack(v, a, b), a) = v
<1> DEFINE w == Bits(bitlen(a + b))
           E(i, j) == (a + fq_to_signed_ct(v[i][j], b)) % w
           p == bit_pack(v, a, b)
<1>1. ASSUME NEW i \in 1 .. n, NEW j \in Index
      PROVE  E(i, j) \in 0 .. a + b /\ signed_to_fq(E(i, j) - a) = v[i][j]
  <2>1. SignedIn(v[i][j], a, b)
    BY DEF SignedVec
  <2> HIDE DEF w
  <2> QED BY <2>1, PackField DEF w
<1>2. DOMAIN v = 1 .. n
  BY DEF SignedVec
<1>3. p = [i \in 1 .. n |-> [j \in Index |-> E(i, j)]]
  BY <1>2, EvaluatedIs DEF bit_pack, Coeffwise, OnVec, Entries, Coeffs
<1> HIDE DEF E, p
<1>4. bit_unpack(p, a) = [i \in 1 .. n |-> [j \in Index |-> signed_to_fq(E(i, j) - a)]]
  <2>1. DOMAIN p = 1 .. n /\ \A i \in 1 .. n, j \in Index : p[i][j] = E(i, j)
    BY <1>3
  <2>2. bit_unpack(p, a) = [i \in 1 .. n |-> [j \in Index |-> signed_to_fq(p[i][j] - a)]]
    BY <2>1, EvaluatedIs DEF bit_unpack, Coeffwise, OnVec, Entries, Coeffs
  <2> QED BY <2>1, <2>2
<1>5. bit_unpack(p, a) = v
  BY <1>1, <1>4 DEF SignedVec
<1>6. a + b = (a + b + 1) - 1
  BY SMT
<1>7. DOMAIN p = 1 .. n /\ FieldsBelow(p, a + b + 1)
  BY <1>1, <1>3, <1>6 DEF FieldsBelow
<1> QED BY <1>5, <1>7 DEF p

(* The fields of z, and t1 scaled, are coefficients.                       *)
LEMMA UnpackZ ==
  ASSUME MlDsaRingAssumption, NEW n \in Nat, NEW v, DOMAIN v = 1 .. n,
         FieldsBelow(v, 2 * GAMMA1)
  PROVE  polyvec_bit_unpack_z(v) \in Vectors(n)
<1> DEFINE c(i, j) == signed_to_fq(v[i][j] - (GAMMA1 - 1))
<1>1. ASSUME NEW i \in 1 .. n, NEW j \in Index PROVE c(i, j) \in Field
  <2>1. GAMMA1 \in Nat /\ GAMMA1 > 0 /\ 2 * GAMMA1 < Q
    <3>1. GAMMA1 \in Nat \ {0} /\ 2 * GAMMA1 < Q
      BY DEF MlDsaRingAssumption
    <3> QED BY <3>1, SMT
  <2>2. v[i][j] \in 0 .. 2 * GAMMA1 - 1
    BY DEF FieldsBelow
  <2> DEFINE x == v[i][j]
  <2>3. x \in Int /\ 0 <= x /\ x <= 2 * GAMMA1 - 1
    BY <2>1, <2>2, SMT
  <2> HIDE DEF x
  <2>4. Q \in Nat
    BY Ring
  <2>5. x - (GAMMA1 - 1) \in Int /\ -Q <= x - (GAMMA1 - 1) /\ x - (GAMMA1 - 1) < Q
    BY <2>1, <2>3, <2>4, SMT
  <2>6. Lift(x - (GAMMA1 - 1)) \in Field
    BY <2>5, LiftIn
  <2> QED BY <2>6 DEF signed_to_fq, x
<1>2. polyvec_bit_unpack_z(v) = [i \in 1 .. n |-> [j \in Index |-> c(i, j)]]
  BY EvaluatedIs DEF polyvec_bit_unpack_z, bit_unpack, Coeffwise, OnVec, Entries, Coeffs
<1> HIDE DEF c
<1> QED BY <1>1, <1>2 DEF Vectors, Polys

LEMMA Scale ==
  ASSUME MlDsaRingAssumption, NEW n \in Nat, NEW v, DOMAIN v = 1 .. n,
         NEW b, FieldsBelow(v, b)
  PROVE  polyvec_scale_2d(v) \in Vectors(n)
<1> DEFINE c(i, j) == (v[i][j] * Bits(D)) % Q
<1>1. ASSUME NEW i \in 1 .. n, NEW j \in Index PROVE c(i, j) \in Field
  <2>1. Bits(D) \in Int
    BY DEF MlDsaRingAssumption
  <2>2. v[i][j] \in Int
    BY DEF FieldsBelow
  <2> DEFINE d == Bits(D)
             x == v[i][j]
  <2> HIDE DEF d, x
  <2>3. x * d \in Int
    BY <2>1, <2>2, SMT DEF d, x
  <2>4. (x * d) % Q \in 0 .. Q - 1
    BY <2>3, Ring, DivMod, SMT
  <2> QED BY <2>4 DEF Field, d, x
<1>2. polyvec_scale_2d(v) = [i \in 1 .. n |-> [j \in Index |-> c(i, j)]]
  BY EvaluatedIs DEF polyvec_scale_2d, Coeffwise, OnVec, Entries, Coeffs
<1> HIDE DEF c
<1> QED BY <1>1, <1>2 DEF Vectors, Polys

(* power2round: the low part of t is of D bits about zero, and the high    *)
(* part fits its field.                                                    *)
LEMMA TSizes ==
  ASSUME MlDsaRingAssumption
  PROVE  /\ Bits(D - 1) \in Nat /\ Bits(D - 1) > 0 /\ Bits(D) = 2 * Bits(D - 1)
         /\ Bits(D) < Q
<1>1. /\ Bits(D - 1) \in Nat /\ Bits(D) = 2 * Bits(D - 1) /\ Bits(D) \in 1 .. Q - 1
  BY DEF MlDsaRingAssumption
<1> DEFINE e == Bits(D - 1)
           f == Bits(D)
<1>2. e \in Nat /\ f = 2 * e /\ f \in 1 .. Q - 1 /\ Q \in Int
  BY <1>1, FieldInt
<1> HIDE DEF e, f
<1>3. e > 0 /\ f < Q
  BY <1>2, SMT
<1> QED BY <1>2, <1>3 DEF e, f

LEMMA HighIs ==
  ASSUME NEW e \in Nat, e > 0, NEW a \in Nat
  PROVE  LET h == (a + e - 1) \div (2 * e) IN
         /\ h \in Nat /\ a - h * (2 * e) \in Int
         /\ -(e - 1) <= a - h * (2 * e) /\ a - h * (2 * e) <= e
<1> DEFINE f == 2 * e
           x == a + e - 1
           h == x \div f
           r == x % f
<1>1. f \in Nat /\ f > 0 /\ x \in Nat /\ x = a + e - 1 /\ f = 2 * e
  BY SMT
<1> HIDE DEF f, x
<1>2. h \in Int /\ r \in 0 .. f - 1 /\ x = f * h + r
  BY <1>1, DivMod
<1>3. h >= 0
  BY <1>1, SMT
<1> HIDE DEF h, r
<1>4. h * f = f * h /\ h * f \in Int
  BY <1>1, <1>2, SMT
<1> DEFINE p == h * f
<1>5. p \in Int /\ x = p + r
  BY <1>2, <1>4
<1> HIDE DEF p
<1>6. a - p \in Int /\ -(e - 1) <= a - p /\ a - p <= e
  BY <1>1, <1>2, <1>5, SMT
<1> QED BY <1>2, <1>3, <1>6, SMT DEF p, h, f, x

LEMMA HighMonotone ==
  ASSUME NEW f \in Nat, f > 0, NEW x \in Int, NEW y \in Int, x <= y
  PROVE  x \div f <= y \div f
<1> DEFINE a == x \div f
           b == y \div f
           c == b + 1
           r == x % f
           s == y % f
<1>1. /\ a \in Int /\ r \in 0 .. f - 1 /\ x = f * a + r
      /\ b \in Int /\ s \in 0 .. f - 1 /\ y = f * b + s
  BY DivMod
<1> HIDE DEF a, b, r, s
<1>2. c \in Int /\ f * c = f * b + f
  BY <1>1, SMT
<1>3. ASSUME c <= a PROVE FALSE
  <2>1. f * c <= f * a
    BY <1>1, <1>2, <1>3, Times2
  <2> DEFINE m == f * a
             o == f * b
             p == f * c
  <2>2. m \in Int /\ o \in Int /\ p \in Int
    BY <1>1, <1>2, SMT
  <2>3. p <= m /\ p = o + f /\ x = m + r /\ y = o + s
    BY <1>1, <1>2, <2>1
  <2> HIDE DEF m, o, p
  <2> QED BY <1>1, <2>2, <2>3, SMT
<1> QED BY <1>1, <1>3, SMT DEF a, b

LEMMA THigh ==
  ASSUME MlDsaRingAssumption, NEW a \in Field
  PROVE  /\ High(a) \in Nat /\ High(a) < Bits(T1Bits) /\ (High(a) % Bits(T1Bits)) = High(a)
         /\ SignedIn(Lift(a - High(a) * Bits(D)), Bits(D - 1) - 1, Bits(D - 1))
         /\ a - High(a) * Bits(D) \in Int
<1> DEFINE e == Bits(D - 1)
           f == Bits(D)
           h == High(a)
           x == a + e - 1
           y == (Q - 1) + e - 1
<1>1. e \in Nat /\ e > 0 /\ f = 2 * e /\ a \in Nat /\ a <= Q - 1 /\ Q \in Int
  BY TSizes, FieldInt, SMT
<1>2. High(Q - 1) < Bits(T1Bits) /\ Bits(T1Bits) \in Nat
  BY DEF MlDsaRingAssumption
<1>3. h = x \div f /\ High(Q - 1) = y \div f
  BY DEF High
<1> HIDE DEF e, f, h
<1>4. f \in Nat /\ f > 0 /\ x \in Int /\ y \in Int /\ x <= y
  BY <1>1, SMT
<1> HIDE DEF y
<1>5. h <= High(Q - 1) /\ High(Q - 1) \in Int
  <2> HIDE DEF x
  <2> QED BY <1>3, <1>4, HighMonotone, DivMod
<1>6. h \in Nat /\ a - h * f \in Int /\ -(e - 1) <= a - h * f /\ a - h * f <= e
  BY <1>1, <1>3, HighIs
<1>7. h < Bits(T1Bits)
  <2> DEFINE b == Bits(T1Bits)
             g == High(Q - 1)
  <2>1. g < b /\ b \in Nat /\ h <= g /\ g \in Int /\ h \in Nat
    BY <1>2, <1>5, <1>6
  <2> HIDE DEF b, g
  <2>2. h < b
    BY <2>1, SMT
  <2> QED BY <2>2 DEF b
<1>8. (h % Bits(T1Bits)) = h
  BY <1>2, <1>6, <1>7, Modulus
<1> DEFINE d == a - h * f
<1>9. SignedIn(Lift(d), e - 1, e)
  <2>1. d \in Int /\ -(e - 1) <= d /\ d <= e
    BY <1>6
  <2> HIDE DEF d
  <2> QED BY <2>1 DEF SignedIn
<1> QED BY <1>6, <1>7, <1>8, <1>9 DEF d, h, e, f

(* The verifier's t: what the high part stands for is t less the low part. *)
LEMMA TScaled ==
  ASSUME MlDsaRingAssumption, NEW a \in Field
  PROVE  /\ Lift(a - High(a) * Bits(D)) \in Field
         /\ (High(a) * Bits(D)) % Q = Sub(a, Lift(a - High(a) * Bits(D)))
<1> DEFINE p == High(a) * Bits(D)
           d == a - p
           e == Bits(D - 1)
           l == Lift(d)
<1>1. High(a) \in Nat /\ SignedIn(l, e - 1, e) /\ d \in Int /\ e \in Nat /\ e > 0
      /\ Bits(D) = 2 * e /\ Bits(D) < Q /\ Bits(D) \in Nat
  <2>1. Bits(D) \in Nat
    BY TSizes, SMT
  <2> QED BY <2>1, THigh, TSizes
<1>2. p \in Int
  BY <1>1, SMT
<1>3. a \in Int /\ Q \in Int /\ Q > 1
  BY FieldInt
<1>4. l \in Field
  <2>1. PICK y \in Int : -(e - 1) <= y /\ y <= e /\ l = Lift(y)
    BY <1>1 DEF SignedIn
  <2>2. e < Q
    BY <1>1, <1>3, SMT
  <2> HIDE DEF e, l
  <2>3. e \in Nat /\ e < Q
    BY <1>1, <2>2
  <2>4. -Q <= y /\ y < Q
    BY <1>3, <2>1, <2>3, SMT
  <2> QED BY <2>1, <2>4, LiftIn
<1> HIDE DEF p, e
<1>5. Is(l, d)
  BY <1>1, LiftIs
<1> HIDE DEF l
<1>6. Is(a - l, a - d) /\ l \in Int
  BY <1>1, <1>3, <1>4, <1>5, IsRefl, IsPlus, FieldInt
<1>7. a - d = p
  BY <1>2, <1>3, SMT
<1>8. Sub(a, l) \in Field /\ Is(Sub(a, l), a - l)
  BY <1>3, <1>4, <1>6, SubIn, SubIs
<1> DEFINE s == Sub(a, l)
           t == a - l
<1>9. t \in Int
  BY <1>3, <1>6, SMT
<1> HIDE DEF s, d, t
<1>10. s \in Field /\ Is(s, t) /\ Is(t, p) /\ s \in Int
  BY <1>6, <1>7, <1>8, FieldInt DEF s, t
<1>11. Is(s, p)
  BY <1>2, <1>9, <1>10, IsTrans
<1>12. Is(p % Q, p) /\ (p % Q) \in Field /\ (p % Q) \in Int
  BY <1>2, IsMod, FieldInt
<1>13. Is(p % Q, s)
  BY <1>2, <1>10, <1>11, <1>12, IsMeet
<1>14. (p % Q) = s
  BY <1>10, <1>12, <1>13, FieldEqual
<1> QED BY <1>4, <1>14 DEF p, s, l, d

-----------------------------------------------------------------------------
(* Hints: an encoding is of one hint, and a hint has one.                  *)

(* Numbers that rise from each place of a + 1 .. b to the next.            *)
RisesIn(y, a, b) ==
  /\ \A p \in a + 1 .. b : y[p] \in Int
  /\ \A p \in a + 1 .. b : a + 1 < p => y[p - 1] < y[p]

Rising(y, a, b) ==
  \A p, q \in a + 1 .. b : p < q => y[p] < y[q]

(* Later is higher.                                                        *)
LEMMA RiseFar ==
  ASSUME NEW y, NEW a \in Nat, NEW b \in Nat, RisesIn(y, a, b)
  PROVE  Rising(y, a, b)
<1> DEFINE S == {n \in Nat : \A p \in a + 1 .. b : p < n /\ n <= b => y[p] < y[n]}
<1>1. 0 \in S
  BY SMT
<1>2. ASSUME NEW n \in Nat, n \in S PROVE n + 1 \in S
  <2>1. SUFFICES ASSUME NEW p \in a + 1 .. b, p < n + 1, n + 1 <= b
                 PROVE  y[p] < y[n + 1]
    BY SMT
  <2> DEFINE next == n + 1
  <2>2. /\ next \in a + 1 .. b /\ a + 1 < next /\ next - 1 = n /\ n \in a + 1 .. b
        /\ p \in Int /\ (p = n \/ p < n) /\ n <= b
    BY <2>1, SMT
  <2> HIDE DEF next
  <2>3. y[next - 1] < y[next]
    BY <2>2 DEF RisesIn
  <2>4. y[n] < y[next]
    BY <2>2, <2>3
  <2>5. y[p] = y[n] \/ y[p] < y[n]
    BY <1>2, <2>2
  <2>6. y[p] \in Int /\ y[n] \in Int /\ y[next] \in Int
    BY <2>2 DEF RisesIn
  <2>7. y[p] < y[next]
    BY <2>4, <2>5, <2>6, SMT
  <2> QED BY <2>7 DEF next
<1>3. \A n \in Nat : n \in S
  <2> HIDE DEF S
  <2> QED BY <1>1, <1>2, SetInduction
<1>4. \A q \in a + 1 .. b : q \in Nat /\ q <= b
  BY SMT
<1> QED BY <1>3, <1>4 DEF Rising

(* The first place two such sequences of one set may differ in, does not.  *)
LEMMA NotBelow ==
  ASSUME NEW y, NEW z, NEW a \in Nat, NEW b \in Nat, NEW c \in Nat,
         RisesIn(y, a, b), RisesIn(z, a, c),
         NEW p \in a + 1 .. b, p <= c,
         \A q \in a + 1 .. b : q < p => y[q] = z[q],
         \E q \in a + 1 .. c : y[p] = z[q]
  PROVE  z[p] <= y[p]
<1>1. Rising(y, a, b) /\ Rising(z, a, c)
  BY RiseFar
<1>2. PICK q \in a + 1 .. c : y[p] = z[q]
  OBVIOUS
<1>3. p \in Int /\ q \in Int /\ p \in a + 1 .. c
  BY SMT
<1>4. y[p] \in Int /\ z[p] \in Int /\ z[q] \in Int
  BY <1>3 DEF RisesIn
<1>5. CASE q < p
  <2>1. q \in a + 1 .. b
    BY <1>3, <1>5, SMT
  <2>2. y[q] < y[p] /\ y[q] = z[q] /\ y[q] \in Int
    BY <1>1, <1>5, <2>1 DEF Rising, RisesIn
  <2> QED BY <1>2, <1>4, <2>2, SMT
<1>6. CASE p < q
  <2>1. z[p] < z[q]
    BY <1>1, <1>3, <1>6 DEF Rising
  <2> QED BY <1>2, <1>4, <2>1, SMT
<1>7. CASE p = q
  BY <1>2, <1>4, <1>7, SMT
<1> QED BY <1>3, <1>5, <1>6, <1>7, SMT

SameIn(y, a, b, z, c) ==
  /\ \A p \in a + 1 .. b : \E q \in a + 1 .. c : y[p] = z[q]
  /\ \A q \in a + 1 .. c : \E p \in a + 1 .. b : y[p] = z[q]

(* Two rising sequences of one set are the same.                           *)
LEMMA SegmentsEqual ==
  ASSUME NEW y, NEW z, NEW a \in Nat, NEW b \in Nat, NEW c \in Nat,
         a <= b, a <= c,
         RisesIn(y, a, b), RisesIn(z, a, c), SameIn(y, a, b, z, c)
  PROVE  b = c /\ \A p \in a + 1 .. b : y[p] = z[p]
<1> DEFINE S == {n \in Nat : \A p \in a + 1 .. b : p < n /\ p <= c => y[p] = z[p]}
<1>1. 0 \in S
  BY SMT
<1>2. ASSUME NEW n \in Nat, n \in S PROVE n + 1 \in S
  <2>1. SUFFICES ASSUME NEW p \in a + 1 .. b, p < n + 1, p <= c
                 PROVE  y[p] = z[p]
    BY SMT
  <2>2. p \in Int /\ (p < n \/ p = n) /\ p \in a + 1 .. c
    BY <2>1, SMT
  <2>3. CASE p < n
    BY <1>2, <2>1, <2>3
  <2>4. CASE p = n
    <3>1. \A q \in a + 1 .. b : q < p => q <= c
      BY <2>1, <2>2, SMT
    <3>2. \A q \in a + 1 .. b : q < p => y[q] = z[q]
      BY <1>2, <2>4, <3>1
    <3>3. \A q \in a + 1 .. c : q < p => q \in a + 1 .. b
      BY <2>1, <2>2, SMT
    <3>4. \A q \in a + 1 .. c : q < p => z[q] = y[q]
      BY <3>2, <3>3
    <3>5. p <= b
      BY SMT
    <3>6. \E q \in a + 1 .. c : y[p] = z[q]
      BY DEF SameIn
    <3>7. \E q \in a + 1 .. b : z[p] = y[q]
      BY <2>2 DEF SameIn
    <3>8. z[p] <= y[p]
      BY <2>1, <3>2, <3>6, NotBelow
    <3>9. y[p] <= z[p]
      BY <2>2, <3>4, <3>5, <3>7, NotBelow
    <3>10. y[p] \in Int /\ z[p] \in Int
      BY <2>2 DEF RisesIn
    <3> QED BY <3>8, <3>9, <3>10, SMT
  <2> QED BY <2>2, <2>3, <2>4
<1>3. \A n \in Nat : n \in S
  <2> HIDE DEF S
  <2> QED BY <1>1, <1>2, SetInduction
<1>4. \A p \in a + 1 .. b : p <= c => y[p] = z[p]
  <2>1. SUFFICES ASSUME NEW p \in a + 1 .. b, p <= c PROVE y[p] = z[p]
    OBVIOUS
  <2>2. b + 1 \in Nat /\ p < b + 1
    BY SMT
  <2> QED BY <1>3, <2>1, <2>2
<1>5. Rising(y, a, b) /\ Rising(z, a, c)
  BY RiseFar
<1>6. ~ (b < c)
  <2>1. SUFFICES ASSUME b < c PROVE FALSE
    OBVIOUS
  <2> DEFINE m == b + 1
  <2>2. m \in a + 1 .. c /\ \A p \in a + 1 .. b : p < m /\ p \in a + 1 .. c /\ p <= c
    BY <2>1, SMT
  <2> HIDE DEF m
  <2>3. PICK p \in a + 1 .. b : y[p] = z[m]
    BY <2>2 DEF SameIn
  <2>4. z[p] = z[m] /\ z[p] < z[m]
    BY <1>4, <1>5, <2>2, <2>3 DEF Rising
  <2>5. z[m] \in Int
    BY <2>2 DEF RisesIn
  <2> QED BY <2>4, <2>5, SMT
<1>7. ~ (c < b)
  <2>1. SUFFICES ASSUME c < b PROVE FALSE
    OBVIOUS
  <2> DEFINE m == c + 1
  <2>2. m \in a + 1 .. b /\ \A p \in a + 1 .. c : p < m /\ p \in a + 1 .. b /\ p <= c
    BY <2>1, SMT
  <2> HIDE DEF m
  <2>3. PICK p \in a + 1 .. c : y[m] = z[p]
    BY <2>2 DEF SameIn
  <2>4. y[p] = y[m] /\ y[p] < y[m]
    BY <1>4, <1>5, <2>2, <2>3 DEF Rising
  <2>5. y[m] \in Int
    BY <2>2 DEF RisesIn
  <2> QED BY <2>4, <2>5, SMT
<1>8. b = c
  BY <1>6, <1>7, SMT
<1>9. \A p \in a + 1 .. b : p <= c
  BY <1>8, SMT
<1> QED BY <1>4, <1>8, <1>9

(* What hint_bit_unpack has checked of bytes it decodes.                   *)
LEMMA Unpacked ==
  ASSUME NEW y, NEW k, hint_bit_unpack(y, k) # NoHint
  PROVE  /\ LimitsRise(y, k) /\ PositionsRise(y, k) /\ RestIsZero(y, k)
         /\ hint_bit_unpack(y, k) =
              [i \in 1 .. k |->
                 [j \in Index |->
                    IF \E p \in Limit(y, i - 1) + 1 .. Limit(y, i) : y[p] = j
                    THEN 1 ELSE 0]]
BY DEF hint_bit_unpack

(* The number of ones up to the end of a polynomial.                       *)
LEMMA LimitType ==
  ASSUME OMEGA \in Nat, N \in Nat, NEW k \in Nat, NEW y \in [1 .. OMEGA + k -> Index],
         LimitsRise(y, k), NEW i \in 0 .. k
  PROVE  Limit(y, i) \in Nat /\ Limit(y, i) <= OMEGA /\ (i = 0 => Limit(y, i) = 0)
<1>1. CASE i = 0
  BY <1>1, SMT DEF Limit
<1>2. CASE i # 0
  <2>1. i \in 1 .. k /\ OMEGA + i \in 1 .. OMEGA + k
    BY <1>2, SMT
  <2>2. Limit(y, i) = y[OMEGA + i]
    BY <1>2 DEF Limit
  <2>3. Limit(y, i) \in Index
    BY <2>1, <2>2
  <2>4. Limit(y, i) <= OMEGA
    BY <2>1 DEF LimitsRise
  <2> QED BY <1>2, <2>3, <2>4, SMT DEF Index
<1> QED BY <1>1, <1>2

(* The positions of polynomial i rise.                                     *)
LEMMA PositionsAre ==
  ASSUME OMEGA \in Nat, N \in Nat, NEW k \in Nat, NEW y \in [1 .. OMEGA + k -> Index],
         LimitsRise(y, k), PositionsRise(y, k), NEW i \in 1 .. k
  PROVE  /\ Limit(y, i - 1) \in Nat /\ Limit(y, i) \in Nat
         /\ Limit(y, i - 1) <= Limit(y, i) /\ Limit(y, i) <= OMEGA
         /\ RisesIn(y, Limit(y, i - 1), Limit(y, i))
         /\ \A p \in 1 .. Limit(y, i) : y[p] \in Index
<1> DEFINE a == Limit(y, i - 1)
           b == Limit(y, i)
<1>1. i - 1 \in 0 .. k /\ i \in 0 .. k
  BY SMT
<1>2. a \in Nat /\ b \in Nat /\ b <= OMEGA
  BY <1>1, LimitType
<1>3. a <= b
  BY DEF LimitsRise
<1>4. \A p \in 1 .. OMEGA : a + 1 < p /\ p <= b => y[p - 1] < y[p]
  BY DEF PositionsRise
<1> HIDE DEF a, b
<1>5. \A p \in 1 .. b : p \in 1 .. OMEGA + k
  BY <1>2, SMT
<1>6. \A p \in 1 .. b : y[p] \in Index
  BY <1>5
<1>7. \A p \in a + 1 .. b : p \in 1 .. b /\ p \in 1 .. OMEGA /\ p <= b
  BY <1>2, SMT
<1>8. \A p \in a + 1 .. b : y[p] \in Int
  <2>1. Index \subseteq Int
    BY SMT DEF Index
  <2> QED BY <1>6, <1>7, <2>1
<1>9. RisesIn(y, a, b)
  BY <1>4, <1>7, <1>8 DEF RisesIn
<1> QED BY <1>2, <1>3, <1>6, <1>9 DEF a, b

(* The ones of polynomial i are at its positions.                          *)
OneAt(y, i, j) == \E p \in Limit(y, i - 1) + 1 .. Limit(y, i) : y[p] = j

LEMMA SameOnes ==
  ASSUME NEW k \in Nat, NEW y, NEW z, NEW i \in 1 .. k,
         hint_bit_unpack(y, k) # NoHint,
         hint_bit_unpack(y, k) = hint_bit_unpack(z, k)
  PROVE  \A j \in Index : OneAt(y, i, j) <=> OneAt(z, i, j)
<1> SUFFICES ASSUME NEW j \in Index
             PROVE  OneAt(y, i, j) <=> OneAt(z, i, j)
  OBVIOUS
<1>1. hint_bit_unpack(y, k)[i][j] = IF OneAt(y, i, j) THEN 1 ELSE 0
  BY Unpacked DEF OneAt
<1>2. hint_bit_unpack(z, k)[i][j] = IF OneAt(z, i, j) THEN 1 ELSE 0
  BY Unpacked DEF OneAt
<1>3. 0 # 1
  BY SMT
<1> QED BY <1>1, <1>2, <1>3

(* A hint has one encoding: what decodes to the same hint is the same.     *)
LEMMA OneEncoding ==
  ASSUME OMEGA \in Nat, N \in Nat, NEW k \in Nat,
         NEW y \in [1 .. OMEGA + k -> Index], NEW z \in [1 .. OMEGA + k -> Index],
         hint_bit_unpack(y, k) # NoHint,
         hint_bit_unpack(y, k) = hint_bit_unpack(z, k)
  PROVE  y = z
<1>1. /\ LimitsRise(y, k) /\ PositionsRise(y, k) /\ RestIsZero(y, k)
      /\ LimitsRise(z, k) /\ PositionsRise(z, k) /\ RestIsZero(z, k)
  BY Unpacked
<1> DEFINE Same(i) == Limit(y, i) = Limit(z, i)
                      /\ \A p \in 1 .. Limit(y, i) : y[p] = z[p]
           S == {i \in Nat : i <= k => Same(i)}
<1>2. 0 \in S
  <2>1. 0 \in 0 .. k
    BY SMT
  <2>2. Limit(y, 0) = 0 /\ Limit(z, 0) = 0
    BY <1>1, <2>1, LimitType
  <2>3. \A p \in 1 .. 0 : FALSE
    BY SMT
  <2> QED BY <2>2, <2>3
<1>3. ASSUME NEW n \in Nat, n \in S PROVE n + 1 \in S
  <2>1. SUFFICES ASSUME n + 1 <= k PROVE Same(n + 1)
    BY SMT
  <2> DEFINE i == n + 1
             a == Limit(y, i - 1)
             b == Limit(y, i)
             c == Limit(z, i)
  <2>2. i \in 1 .. k /\ i - 1 = n /\ n <= k
    BY <2>1, SMT
  <2>3. Limit(z, i - 1) = a /\ \A p \in 1 .. a : y[p] = z[p]
    BY <1>3, <2>2
  <2> HIDE DEF i
  <2>4. /\ a \in Nat /\ b \in Nat /\ a <= b /\ RisesIn(y, a, b)
        /\ \A p \in 1 .. b : y[p] \in Index
    BY <1>1, <2>2, PositionsAre
  <2>5. /\ Limit(z, i - 1) \in Nat /\ c \in Nat /\ Limit(z, i - 1) <= c
        /\ RisesIn(z, Limit(z, i - 1), c)
        /\ \A p \in 1 .. c : z[p] \in Index
    BY <1>1, <2>2, PositionsAre
  <2>6. \A j \in Index : OneAt(y, i, j) <=> OneAt(z, i, j)
    BY <2>2, SameOnes
  <2> HIDE DEF a, b, c
  <2>7. /\ \A p \in a + 1 .. b : p \in 1 .. b
        /\ \A p \in a + 1 .. c : p \in 1 .. c
    BY <2>4, SMT
  <2>8. SameIn(y, a, b, z, c)
    <3>1. \A j \in Index : /\ OneAt(y, i, j) <=> \E p \in a + 1 .. b : y[p] = j
                           /\ OneAt(z, i, j) <=> \E p \in a + 1 .. c : z[p] = j
      BY <2>3 DEF OneAt, a, b, c
    <3> QED BY <2>4, <2>5, <2>3, <2>6, <2>7, <3>1 DEF SameIn
  <2>9. b = c /\ \A p \in a + 1 .. b : y[p] = z[p]
    BY <2>3, <2>4, <2>5, <2>8, SegmentsEqual
  <2>10. \A p \in 1 .. b : p \in 1 .. a \/ p \in a + 1 .. b
    BY <2>4, SMT
  <2>11. \A p \in 1 .. b : y[p] = z[p]
    BY <2>3, <2>9, <2>10
  <2> QED BY <2>9, <2>11 DEF b, c, i
<1>4. \A n \in Nat : n \in S
  <2> HIDE DEF S
  <2> QED BY <1>2, <1>3, SetInduction
<1>5. \A i \in 0 .. k : i \in Nat /\ i <= k
  BY SMT
<1>6. \A i \in 0 .. k : Same(i)
  BY <1>4, <1>5
<1>7. \A p \in 1 .. OMEGA : y[p] = z[p]
  <2> DEFINE m == Limit(y, k)
  <2>1. k \in 0 .. k
    BY SMT
  <2>2. m \in Nat /\ m <= OMEGA /\ Limit(z, k) = m /\ \A p \in 1 .. m : y[p] = z[p]
    BY <1>1, <1>6, <2>1, LimitType
  <2>3. \A p \in m + 1 .. OMEGA : y[p] = 0 /\ z[p] = 0
    BY <1>1, <2>2 DEF RestIsZero
  <2> HIDE DEF m
  <2>4. \A p \in 1 .. OMEGA : p \in 1 .. m \/ p \in m + 1 .. OMEGA
    BY <2>2, SMT
  <2> QED BY <2>2, <2>3, <2>4
<1>8. \A i \in 1 .. k : y[OMEGA + i] = z[OMEGA + i]
  <2>1. \A i \in 1 .. k : i \in 0 .. k /\ i # 0
    BY SMT
  <2>2. \A i \in 1 .. k : Limit(y, i) = y[OMEGA + i] /\ Limit(z, i) = z[OMEGA + i]
    BY <2>1 DEF Limit
  <2> QED BY <1>6, <2>1, <2>2
<1>9. \A p \in 1 .. OMEGA + k : y[p] = z[p]
  <2>1. SUFFICES ASSUME NEW p \in 1 .. OMEGA + k, ~ (p \in 1 .. OMEGA)
                 PROVE  y[p] = z[p]
    BY <1>7
  <2>2. p - OMEGA \in 1 .. k /\ OMEGA + (p - OMEGA) = p
    BY <2>1, SMT
  <2> QED BY <1>8, <2>2
<1> QED BY <1>9

(* hint_bit_pack: the ones before a place, in the order they are packed.   *)
Hints(k) == [1 .. k -> [Index -> {0, 1}]]

Earlier(h, i, j) == {p \in Ones(h) : p[1] < i \/ (p[1] = i /\ p[2] < j)}

LEMMA Larger ==
  ASSUME NEW T, IsFiniteSet(T), NEW B \in SUBSET T, NEW A \in SUBSET B
  PROVE  /\ Cardinality(A) \in Nat /\ Cardinality(B) \in Nat
         /\ Cardinality(A) <= Cardinality(B)
         /\ \A x \in B \ A : Cardinality(A) + 1 <= Cardinality(B)
         /\ \A x : B = A \cup {x} => Cardinality(B) <= Cardinality(A) + 1
<1>1. IsFiniteSet(B) /\ IsFiniteSet(A) /\ Cardinality(A) <= Cardinality(B)
  BY FS_Subset
<1>2. Cardinality(A) \in Nat /\ Cardinality(B) \in Nat
  BY <1>1, FS_CardinalityType
<1>3. ASSUME NEW x \in B \ A PROVE Cardinality(A) + 1 <= Cardinality(B)
  <2>1. Cardinality(A \cup {x}) = Cardinality(A) + 1
    BY <1>1, <1>3, FS_AddElement
  <2>2. Cardinality(A \cup {x}) <= Cardinality(B)
    BY <1>1, <1>3, FS_Subset
  <2> QED BY <2>1, <2>2
<1>4. ASSUME NEW x, B = A \cup {x} PROVE Cardinality(B) <= Cardinality(A) + 1
  <2>1. Cardinality(B) = IF x \in A THEN Cardinality(A) ELSE Cardinality(A) + 1
    BY <1>1, <1>4, FS_AddElement
  <2> QED BY <1>2, <2>1, SMT
<1> QED BY <1>1, <1>2, <1>3, <1>4

LEMMA OnesAre ==
  ASSUME MlDsaRingAssumption, NEW k \in Nat, NEW h \in Hints(k)
  PROVE  /\ Ones(h) \subseteq (1 .. k) \X Index /\ IsFiniteSet(Ones(h))
         /\ \A i \in 1 .. k, j \in Index : <<i, j>> \in Ones(h) <=> h[i][j] = 1
         /\ HintCount(h) = Cardinality(Ones(h))
         /\ \A i, j : Before(h, i, j) = Cardinality(Earlier(h, i, j))
         /\ Index \subseteq Int /\ N \in Nat /\ N > 0
<1>1. DOMAIN h = 1 .. k /\ \A i \in 1 .. k, j \in Index : h[i][j] \in {0, 1}
  BY DEF Hints
<1>2. N \in Nat /\ N > 0
  BY Ring
<1>3. Index \subseteq Int /\ IsFiniteSet(Index)
  <2>1. 0 \in Int /\ N - 1 \in Int
    BY <1>2, SMT
  <2>2. Index \subseteq Int
    BY <1>2, SMT DEF Index
  <2> QED BY <2>1, <2>2, FS_Interval DEF Index
<1>4. IsFiniteSet((1 .. k) \X Index)
  <2>1. IsFiniteSet(1 .. k)
    <3>1. 1 \in Int /\ k \in Int
      BY SMT
    <3> QED BY <3>1, FS_Interval
  <2> QED BY <1>3, <2>1, FS_Product
<1>5. Ones(h) \in SUBSET ((1 .. k) \X Index)
  BY <1>1 DEF Ones
<1>6. IsFiniteSet(Ones(h))
  BY <1>4, <1>5, FS_Subset
<1>7. {p \in (DOMAIN h) \X Index : h[p[1]][p[2]] = 1} = Ones(h)
  BY <1>1 DEF Ones
<1>8. \A i \in 1 .. k, j \in Index : <<i, j>> \in Ones(h) <=> h[i][j] = 1
  BY <1>1 DEF Ones
<1> QED BY <1>2, <1>3, <1>5, <1>6, <1>7, <1>8 DEF HintCount, Before, Earlier

(* Later places have more ones before them.                                *)
LEMMA BeforeRises ==
  ASSUME MlDsaRingAssumption, NEW k \in Nat, NEW h \in Hints(k),
         NEW i \in Int, NEW j \in Int, NEW l \in Int, NEW m \in Int,
         i < l \/ (i = l /\ j <= m)
  PROVE  /\ Before(h, i, j) \in Nat /\ Before(h, l, m) \in Nat
         /\ Before(h, i, j) <= Before(h, l, m)
         /\ Before(h, l, m) <= HintCount(h) /\ HintCount(h) \in Nat
         /\ <<i, j>> \in Ones(h) /\ (i < l \/ j < m) => Before(h, i, j) + 1 <= Before(h, l, m)
<1> DEFINE A == Earlier(h, i, j)
           B == Earlier(h, l, m)
           T == Ones(h)
<1>1. IsFiniteSet(T) /\ T \subseteq (1 .. k) \X Index /\ Index \subseteq Int
      /\ Cardinality(T) = HintCount(h)
      /\ Before(h, i, j) = Cardinality(A) /\ Before(h, l, m) = Cardinality(B)
  BY OnesAre
<1>2. B \in SUBSET T
  BY DEF Earlier
<1>3. \A p \in T : p[1] \in Int /\ p[2] \in Int
  <2>1. \A x \in 1 .. k : x \in Int
    BY SMT
  <2>2. \A p \in T : p[1] \in 1 .. k /\ p[2] \in Index
    BY <1>1
  <2> QED BY <1>1, <2>1, <2>2
<1>4. A \in SUBSET B
  <2>1. SUFFICES ASSUME NEW p \in A PROVE p \in B
    OBVIOUS
  <2>2. p \in T /\ (p[1] < i \/ (p[1] = i /\ p[2] < j))
    BY DEF Earlier
  <2>3. p[1] < l \/ (p[1] = l /\ p[2] < m)
    <3> DEFINE a == p[1]
               b == p[2]
    <3>1. a \in Int /\ b \in Int /\ (a < i \/ (a = i /\ b < j))
      BY <1>3, <2>2
    <3> HIDE DEF a, b
    <3>2. a < l \/ (a = l /\ b < m)
      BY <3>1, SMT
    <3> QED BY <3>2 DEF a, b
  <2> QED BY <2>2, <2>3 DEF Earlier
<1>5. <<i, j>> \notin A
  BY SMT DEF Earlier
<1>6. ASSUME <<i, j>> \in T, i < l \/ j < m PROVE <<i, j>> \in B \ A
  <2>1. i < l \/ (i = l /\ j < m)
    BY <1>6, SMT
  <2>2. <<i, j>> \in B
    BY <1>6, <2>1 DEF Earlier
  <2> QED BY <1>5, <2>2
<1> HIDE DEF A, B, T
<1>7. /\ Cardinality(A) \in Nat /\ Cardinality(B) \in Nat
      /\ Cardinality(A) <= Cardinality(B)
      /\ \A x \in B \ A : Cardinality(A) + 1 <= Cardinality(B)
  BY <1>1, <1>2, <1>4, Larger
<1>8. Cardinality(B) <= Cardinality(T) /\ Cardinality(T) \in Nat
  <2>1. T \in SUBSET T
    OBVIOUS
  <2> QED BY <1>1, <1>2, <2>1, Larger
<1> QED BY <1>1, <1>6, <1>7, <1>8 DEF T

(* A row of ones ends where the next one begins.                           *)
LEMMA BeforeEnds ==
  ASSUME MlDsaRingAssumption, NEW k \in Nat, NEW h \in Hints(k)
  PROVE  /\ \A i \in 1 .. k : Before(h, i, 0) = Before(h, i - 1, N)
         /\ Before(h, 0, N) = 0 /\ Before(h, k, N) = HintCount(h)
         /\ \A i \in 1 .. k, j \in Index :
              /\ Before(h, i, j + 1) <= Before(h, i, j) + 1
              /\ Before(h, i, j + 1) > Before(h, i, j) => <<i, j>> \in Ones(h)
<1>1. /\ Ones(h) \subseteq (1 .. k) \X Index /\ IsFiniteSet(Ones(h))
      /\ HintCount(h) = Cardinality(Ones(h))
      /\ \A i, j : Before(h, i, j) = Cardinality(Earlier(h, i, j))
      /\ Index \subseteq Int /\ N \in Nat /\ N > 0
  BY OnesAre
<1>2. \A p \in Ones(h) : p[1] \in 1 .. k /\ p[2] \in Index /\ p = <<p[1], p[2]>>
  BY <1>1
<1>3. \A j \in Index : j \in Int /\ 0 <= j /\ j < N
  BY <1>1, SMT DEF Index
<1>4. \A i \in 1 .. k : i \in Int /\ 1 <= i /\ i <= k
  BY SMT
<1>5. ASSUME NEW i \in 1 .. k PROVE Earlier(h, i, 0) = Earlier(h, i - 1, N)
  <2>1. ASSUME NEW p \in Ones(h)
        PROVE  (p[1] < i \/ (p[1] = i /\ p[2] < 0)) <=> (p[1] < i - 1 \/ (p[1] = i - 1 /\ p[2] < N))
    <3> DEFINE a == p[1]
               b == p[2]
    <3>1. a \in Int /\ b \in Int /\ 0 <= b /\ b < N /\ i \in Int
      BY <1>2, <1>3, <1>4
    <3> HIDE DEF a, b
    <3>2. (a < i \/ (a = i /\ b < 0)) <=> (a < i - 1 \/ (a = i - 1 /\ b < N))
      BY <1>1, <3>1, SMT
    <3> QED BY <3>2 DEF a, b
  <2> QED BY <2>1 DEF Earlier
<1>6. Earlier(h, 0, N) = {}
  <2>1. ASSUME NEW p \in Ones(h) PROVE ~ (p[1] < 0 \/ (p[1] = 0 /\ p[2] < N))
    <3>1. p[1] \in Int /\ 1 <= p[1]
      BY <1>2, <1>4
    <3> QED BY <3>1, SMT
  <2> QED BY <2>1 DEF Earlier
<1>7. Earlier(h, k, N) = Ones(h)
  <2>1. ASSUME NEW p \in Ones(h) PROVE p[1] < k \/ (p[1] = k /\ p[2] < N)
    <3>1. p[1] \in Int /\ p[1] <= k /\ p[2] < N
      BY <1>2, <1>3, <1>4
    <3> QED BY <3>1, SMT
  <2> QED BY <2>1 DEF Earlier
<1>8. ASSUME NEW i \in 1 .. k, NEW j \in Index
      PROVE  /\ Before(h, i, j + 1) <= Before(h, i, j) + 1
             /\ Before(h, i, j + 1) > Before(h, i, j) => <<i, j>> \in Ones(h)
  <2> DEFINE A == Earlier(h, i, j)
             B == Earlier(h, i, j + 1)
  <2>1. \A p \in Ones(h) : (p[2] < j + 1) <=> (p[2] < j \/ p[2] = j)
    <3>1. \A b \in Index : (b < j + 1) <=> (b < j \/ b = j)
      BY <1>1, SMT
    <3> QED BY <1>2, <3>1
  <2>2. B \subseteq A \cup {<<i, j>>} /\ A \subseteq B
    BY <1>2, <2>1 DEF Earlier
  <2>3. ~ (<<i, j>> \in Ones(h)) => B = A
    <3>1. B \subseteq Ones(h)
      BY DEF Earlier
    <3> QED BY <2>2, <3>1
  <2>4. <<i, j>> \in Ones(h) => B = A \cup {<<i, j>>}
    <3>1. i \in Int /\ j \in Int
      BY <1>3, <1>4
    <3>2. j < j + 1
      BY <3>1, SMT
    <3>3. <<i, j>> \in Ones(h) => <<i, j>> \in B
      BY <3>2 DEF Earlier
    <3> QED BY <2>2, <3>3
  <2>5. B \in SUBSET Ones(h)
    BY DEF Earlier
  <2>6. Before(h, i, j) = Cardinality(A) /\ Before(h, i, j + 1) = Cardinality(B)
    BY <1>1
  <2> HIDE DEF A, B
  <2>7. /\ Cardinality(A) \in Nat /\ Cardinality(B) \in Nat
        /\ \A x : B = A \cup {x} => Cardinality(B) <= Cardinality(A) + 1
    BY <1>1, <2>2, <2>5, Larger
  <2>8. Cardinality(B) <= Cardinality(A) + 1
    <3>1. CASE <<i, j>> \in Ones(h)
      BY <2>4, <2>7, <3>1
    <3>2. CASE <<i, j>> \notin Ones(h)
      BY <2>3, <2>7, <3>2, SMT
    <3> QED BY <3>1, <3>2
  <2>9. Cardinality(B) > Cardinality(A) => <<i, j>> \in Ones(h)
    <3>1. B = A => ~ (Cardinality(B) > Cardinality(A))
      BY <2>7, SMT
    <3> QED BY <2>3, <3>1
  <2> QED BY <2>6, <2>8, <2>9
<1>9. \A i \in 1 .. k : Before(h, i, 0) = Before(h, i - 1, N)
  BY <1>1, <1>5
<1>10. Before(h, 0, N) = 0 /\ Before(h, k, N) = HintCount(h)
  BY <1>1, <1>6, <1>7, FS_EmptySet
<1> QED BY <1>8, <1>9, <1>10

(* Every number of ones up to all of them is before some one.              *)
LEMMA OneOfRank ==
  ASSUME MlDsaRingAssumption, NEW k \in Nat, NEW h \in Hints(k),
         NEW r \in Nat, r < HintCount(h)
  PROVE  \E i \in 1 .. k, j \in Index : <<i, j>> \in Ones(h) /\ Before(h, i, j) = r
<1>1. N \in Nat /\ N > 0 /\ HintCount(h) \in Nat
  <2>1. N \in Nat /\ N > 0 /\ Ones(h) \in SUBSET Ones(h) /\ IsFiniteSet(Ones(h))
        /\ HintCount(h) = Cardinality(Ones(h))
    BY OnesAre
  <2> QED BY <2>1, FS_CardinalityType
<1> DEFINE T == {i \in 0 .. k : Before(h, i, N) > r}
<1>2. \A i \in 0 .. k : i \in Nat /\ i \in Int
  BY SMT
<1>3. T \subseteq Nat /\ T # {}
  <2>1. k \in 0 .. k /\ Before(h, k, N) = HintCount(h)
    BY BeforeEnds, SMT
  <2>2. Before(h, k, N) > r
    BY <1>1, <2>1, SMT
  <2> QED BY <1>2, <2>1, <2>2
<1>4. PICK i \in T : \A x \in T : i <= x
  <2> HIDE DEF T
  <2> QED BY <1>3, LeastNat
<1>5. i \in 0 .. k /\ Before(h, i, N) > r
  BY <1>4
<1>6. i # 0
  <2>1. i = 0 => Before(h, i, N) = 0
    BY BeforeEnds
  <2> QED BY <1>5, <2>1, SMT
<1>7. i \in 1 .. k /\ i - 1 \in 0 .. k
  BY <1>5, <1>6, SMT
<1>8. Before(h, i - 1, N) <= r
  <2>1. ASSUME Before(h, i - 1, N) > r PROVE FALSE
    <3>1. i - 1 \in T
      BY <1>7, <2>1
    <3>2. i <= i - 1
      BY <1>4, <3>1
    <3> QED BY <1>5, <3>2, SMT
  <2>2. Before(h, i - 1, N) \in Nat
    <3>1. i - 1 \in Int /\ N \in Int /\ (i - 1 < i - 1 \/ (i - 1 = i - 1 /\ N <= N))
      BY <1>1, <1>7, SMT
    <3> QED BY <3>1, BeforeRises
  <2> QED BY <2>1, <2>2, SMT
<1> DEFINE U == {j \in 0 .. N : Before(h, i, j) > r}
<1>9. U \subseteq Nat /\ U # {}
  <2>1. N \in 0 .. N /\ \A j \in 0 .. N : j \in Nat
    BY <1>1, SMT
  <2> QED BY <1>5, <2>1
<1>10. PICK j \in U : \A x \in U : j <= x
  <2> HIDE DEF U
  <2> QED BY <1>9, LeastNat
<1>11. j \in 0 .. N /\ Before(h, i, j) > r
  BY <1>10
<1>12. j # 0
  <2>1. Before(h, i, 0) = Before(h, i - 1, N)
    BY <1>7, BeforeEnds
  <2>2. Before(h, i, 0) \in Nat
    <3>1. i \in Int /\ 0 \in Int /\ (i < i \/ (i = i /\ 0 <= 0))
      BY <1>7, SMT
    <3> QED BY <3>1, BeforeRises
  <2> QED BY <1>8, <1>11, <2>1, <2>2, SMT
<1> DEFINE m == j - 1
<1>13. m \in Index /\ m \in 0 .. N /\ m + 1 = j /\ m \in Int /\ m < j
  BY <1>1, <1>11, <1>12, SMT DEF Index
<1>14. ~ (Before(h, i, m) > r)
  <2>1. ASSUME Before(h, i, m) > r PROVE FALSE
    <3>1. m \in U
      BY <1>13, <2>1
    <3>2. j <= m
      BY <1>10, <3>1
    <3> QED BY <1>11, <1>13, <3>2, SMT
  <2> QED BY <2>1
<1> HIDE DEF m
<1>15. Before(h, i, m) \in Nat /\ Before(h, i, j) \in Nat
  <2>1. i \in Int /\ j \in Int /\ m \in Int /\ (i < i \/ (i = i /\ m <= j))
    BY <1>7, <1>11, <1>13, SMT
  <2> QED BY <2>1, BeforeRises
<1>16. Before(h, i, j) <= Before(h, i, m) + 1
       /\ (Before(h, i, j) > Before(h, i, m) => <<i, m>> \in Ones(h))
  BY <1>7, <1>13, BeforeEnds
<1>17. Before(h, i, m) = r /\ Before(h, i, j) > Before(h, i, m)
  BY <1>11, <1>14, <1>15, <1>16, SMT
<1> QED BY <1>7, <1>13, <1>16, <1>17

(* What hint_bit_pack makes of the ones: the ends of the rows, the place   *)
(* of each one, zeros after them.                                          *)
LEMMA PackedIs ==
  ASSUME MlDsaRingAssumption, NEW k \in Nat, NEW h \in Hints(k),
         HintCount(h) <= OMEGA, NEW y, y = hint_bit_pack(h)
  PROVE  /\ DOMAIN y = 1 .. OMEGA + k /\ OMEGA \in Nat /\ HintCount(h) \in Nat
         /\ \A i \in 0 .. k : Limit(y, i) = Before(h, i, N)
         /\ \A i \in 1 .. k, j \in Index : <<i, j>> \in Ones(h) =>
              /\ Before(h, i, j) + 1 \in 1 .. HintCount(h)
              /\ y[Before(h, i, j) + 1] = j
         /\ \A p \in 1 .. OMEGA : p > HintCount(h) => y[p] = 0
<1>1. OMEGA \in Nat
  BY DEF MlDsaRingAssumption
<1>2. Len(h) = k
  BY DEF Hints
<1>3. /\ Ones(h) \subseteq (1 .. k) \X Index /\ IsFiniteSet(Ones(h))
      /\ HintCount(h) = Cardinality(Ones(h))
      /\ Index \subseteq Int /\ N \in Nat /\ N > 0
  BY OnesAre
<1>4. HintCount(h) \in Nat
  BY <1>3, FS_CardinalityType
<1>5. y = [p \in 1 .. OMEGA + k |->
             IF p > OMEGA THEN Before(h, p - OMEGA, N)
             ELSE IF \E q \in Ones(h) : Before(h, q[1], q[2]) = p - 1
             THEN (CHOOSE q \in Ones(h) : Before(h, q[1], q[2]) = p - 1)[2]
             ELSE 0]
  BY <1>2 DEF hint_bit_pack
<1>6. ASSUME NEW i \in 0 .. k PROVE Limit(y, i) = Before(h, i, N)
  <2>1. CASE i = 0
    BY <2>1, BeforeEnds DEF Limit
  <2>2. CASE i # 0
    <3> DEFINE p == OMEGA + i
    <3>1. p \in 1 .. OMEGA + k /\ p > OMEGA /\ p - OMEGA = i
      BY <1>1, <2>2, SMT
    <3>2. Limit(y, i) = y[p]
      BY <2>2 DEF Limit
    <3> HIDE DEF p
    <3> QED BY <1>5, <3>1, <3>2
  <2> QED BY <2>1, <2>2
<1>7. ASSUME NEW q \in Ones(h), NEW s \in Ones(h), Before(h, q[1], q[2]) = Before(h, s[1], s[2])
      PROVE  q = s
  <2> DEFINE a == q[1]
             b == q[2]
             c == s[1]
             d == s[2]
  <2>1. a \in 1 .. k /\ c \in 1 .. k /\ b \in Index /\ d \in Index /\ q = <<a, b>> /\ s = <<c, d>>
    BY <1>3
  <2>2. a \in Int /\ c \in Int /\ b \in Int /\ d \in Int
    BY <1>3, <2>1, SMT
  <2> HIDE DEF a, b, c, d
  <2>3. ASSUME a < c \/ (a = c /\ b < d) PROVE FALSE
    <3>1. a < c \/ (a = c /\ b <= d)
      BY <2>2, <2>3, SMT
    <3>2. a < c \/ b < d
      BY <2>3
    <3>3. Before(h, a, b) + 1 <= Before(h, c, d) /\ Before(h, a, b) \in Nat
      BY <2>1, <2>2, <3>1, <3>2, BeforeRises
    <3>4. Before(h, a, b) = Before(h, c, d)
      BY <1>7 DEF a, b, c, d
    <3> QED BY <3>3, <3>4, SMT
  <2>4. ASSUME c < a \/ (c = a /\ d < b) PROVE FALSE
    <3>1. c < a \/ (c = a /\ d <= b)
      BY <2>2, <2>4, SMT
    <3>2. c < a \/ d < b
      BY <2>4
    <3>3. Before(h, c, d) + 1 <= Before(h, a, b) /\ Before(h, c, d) \in Nat
      BY <2>1, <2>2, <3>1, <3>2, BeforeRises
    <3>4. Before(h, a, b) = Before(h, c, d)
      BY <1>7 DEF a, b, c, d
    <3> QED BY <3>3, <3>4, SMT
  <2>5. a = c /\ b = d
    BY <2>2, <2>3, <2>4, SMT
  <2> QED BY <2>1, <2>5
<1>8. ASSUME NEW i \in 1 .. k, NEW j \in Index, <<i, j>> \in Ones(h)
      PROVE  /\ Before(h, i, j) + 1 \in 1 .. HintCount(h)
             /\ y[Before(h, i, j) + 1] = j
  <2> DEFINE r == Before(h, i, j)
             p == r + 1
             q == <<i, j>>
  <2>1. r \in Nat /\ r + 1 <= HintCount(h)
    <3>1. i \in Int /\ j \in Int /\ i + 1 \in Int /\ i < i + 1 /\ N \in Int
      BY <1>3, SMT
    <3>2. r \in Nat /\ r + 1 <= Before(h, i + 1, N) /\ Before(h, i + 1, N) <= HintCount(h)
          /\ Before(h, i + 1, N) \in Nat
      BY <1>8, <3>1, BeforeRises
    <3> HIDE DEF r
    <3> QED BY <1>4, <3>2, SMT
  <2>2. q[1] = i /\ q[2] = j /\ q \in Ones(h)
    BY <1>8
  <2>3. Before(h, q[1], q[2]) = r
    BY <2>2
  <2> HIDE DEF r, q
  <2>4. p \in 1 .. HintCount(h) /\ p - 1 = r /\ p \in 1 .. OMEGA + k /\ ~ (p > OMEGA)
    BY <1>1, <1>4, <2>1, SMT
  <2> HIDE DEF p
  <2>5. y[p] = IF \E x \in Ones(h) : Before(h, x[1], x[2]) = p - 1
               THEN (CHOOSE x \in Ones(h) : Before(h, x[1], x[2]) = p - 1)[2]
               ELSE 0
    BY <1>5, <2>4
  <2> DEFINE z == CHOOSE x \in Ones(h) : Before(h, x[1], x[2]) = p - 1
  <2>6. \E x \in Ones(h) : Before(h, x[1], x[2]) = p - 1
    BY <2>2, <2>3, <2>4
  <2>7. z \in Ones(h) /\ Before(h, z[1], z[2]) = p - 1
    BY <2>6
  <2>8. y[p] = z[2]
    BY <2>5, <2>6
  <2> HIDE DEF z
  <2>9. z = q
    BY <1>7, <2>2, <2>3, <2>4, <2>7
  <2> QED BY <2>2, <2>4, <2>8, <2>9 DEF p, r
<1>9. ASSUME NEW p \in 1 .. OMEGA, p > HintCount(h) PROVE y[p] = 0
  <2>1. p \in 1 .. OMEGA + k /\ ~ (p > OMEGA) /\ p \in Int
    BY <1>1, SMT
  <2>2. ASSUME NEW x \in Ones(h), Before(h, x[1], x[2]) = p - 1 PROVE FALSE
    <3> DEFINE a == x[1]
               b == x[2]
    <3>1. a \in 1 .. k /\ b \in Index /\ <<a, b>> \in Ones(h)
      BY <1>3
    <3>2. Before(h, a, b) + 1 \in 1 .. HintCount(h) /\ Before(h, a, b) = p - 1
      BY <1>8, <2>2, <3>1
    <3> QED BY <1>4, <1>9, <2>1, <3>2, SMT
  <2>3. y[p] = IF \E x \in Ones(h) : Before(h, x[1], x[2]) = p - 1
               THEN (CHOOSE x \in Ones(h) : Before(h, x[1], x[2]) = p - 1)[2]
               ELSE 0
    BY <1>5, <2>1
  <2> QED BY <2>2, <2>3
<1>10. DOMAIN y = 1 .. OMEGA + k
  BY <1>5
<1> QED BY <1>1, <1>4, <1>6, <1>8, <1>9, <1>10

(* The ones of a row are packed between the ends of the rows.              *)
LEMMA RowOfRank ==
  ASSUME MlDsaRingAssumption, NEW k \in Nat, NEW h \in Hints(k),
         NEW i \in 1 .. k, NEW p \in Int,
         Before(h, i - 1, N) + 1 <= p, p <= Before(h, i, N)
  PROVE  \E j \in Index : <<i, j>> \in Ones(h) /\ Before(h, i, j) + 1 = p
<1>1. N \in Nat /\ N > 0 /\ N \in Int /\ \A x \in Index : x \in Int /\ 0 <= x /\ x < N
  <2>1. N \in Nat /\ N > 0
    BY OnesAre
  <2> QED BY <2>1, SMT DEF Index
<1>2. i \in Int /\ i - 1 \in Int /\ i - 1 < i /\ i <= k /\ k \in Int
  BY SMT
<1>3. /\ Before(h, i - 1, N) \in Nat /\ Before(h, i, N) \in Nat
      /\ Before(h, i, N) <= HintCount(h) /\ HintCount(h) \in Nat
  BY <1>1, <1>2, BeforeRises
<1> DEFINE r == p - 1
<1>4. r \in Nat /\ r < HintCount(h) /\ Before(h, i - 1, N) <= r /\ r < Before(h, i, N) /\ r + 1 = p
  BY <1>3, SMT
<1> HIDE DEF r
<1>5. PICK l \in 1 .. k, j \in Index : <<l, j>> \in Ones(h) /\ Before(h, l, j) = r
  BY <1>4, OneOfRank
<1>6. l \in Int /\ j \in Int /\ 0 <= j /\ j < N
  BY <1>1, SMT
<1>7. ASSUME l < i PROVE FALSE
  <2>1. l < i - 1 \/ (l = i - 1 /\ j <= N)
    BY <1>1, <1>2, <1>6, <1>7, SMT
  <2>2. l < i - 1 \/ j < N
    BY <1>6
  <2>3. Before(h, l, j) + 1 <= Before(h, i - 1, N) /\ Before(h, l, j) \in Nat
    BY <1>1, <1>2, <1>5, <1>6, <2>1, <2>2, BeforeRises
  <2> QED BY <1>3, <1>4, <1>5, <2>3, SMT
<1>8. ASSUME i < l PROVE FALSE
  <2>1. Before(h, i, N) <= Before(h, l, j) /\ Before(h, l, j) \in Nat
    BY <1>1, <1>2, <1>6, <1>8, BeforeRises
  <2> QED BY <1>3, <1>4, <1>5, <2>1, SMT
<1>9. l = i
  BY <1>2, <1>6, <1>7, <1>8, SMT
<1> QED BY <1>4, <1>5, <1>9

(* A hint survives its encoding.                                           *)
THEOREM HintKept ==
  ASSUME MlDsaRingAssumption, NEW k \in Nat, k > 0, NEW h \in Hints(k),
         HintCount(h) <= OMEGA
  PROVE  /\ hint_bit_pack(h) \in [1 .. OMEGA + k -> Index]
         /\ hint_bit_unpack(hint_bit_pack(h), k) = h
         /\ hint_bit_unpack(hint_bit_pack(h), k) # NoHint
<1> DEFINE y == hint_bit_pack(h)
           n == HintCount(h)
<1> HIDE DEF y
<1>1. /\ DOMAIN y = 1 .. OMEGA + k /\ OMEGA \in Nat /\ n \in Nat
      /\ \A i \in 0 .. k : Limit(y, i) = Before(h, i, N)
      /\ \A i \in 1 .. k, j \in Index : <<i, j>> \in Ones(h) =>
           /\ Before(h, i, j) + 1 \in 1 .. n
           /\ y[Before(h, i, j) + 1] = j
      /\ \A p \in 1 .. OMEGA : p > n => y[p] = 0
  BY PackedIs DEF y
<1>2. N \in Nat /\ N > 0 /\ N \in Int /\ OMEGA < N
      /\ \A x \in Index : x \in Int /\ 0 <= x /\ x < N
  <2>1. N \in Nat /\ N > 0
    BY OnesAre
  <2>2. OMEGA < N
    BY DEF MlDsaRingAssumption
  <2> QED BY <2>1, <2>2, SMT DEF Index
<1>3. \A i \in 0 .. k : /\ Before(h, i, N) \in Nat /\ Before(h, i, N) <= n
                        /\ Before(h, i, N) \in Index
  <2>1. SUFFICES ASSUME NEW i \in 0 .. k
                 PROVE  Before(h, i, N) \in Nat /\ Before(h, i, N) <= n
                        /\ Before(h, i, N) \in Index
    OBVIOUS
  <2>2. i \in Int /\ (i < i \/ (i = i /\ N <= N))
    BY <1>2, SMT
  <2>3. Before(h, i, N) \in Nat /\ Before(h, i, N) <= n
    BY <1>2, <2>2, BeforeRises
  <2> QED BY <1>1, <1>2, <2>3, SMT DEF Index
<1>4. ASSUME NEW i \in 1 .. k
      PROVE  /\ Limit(y, i - 1) = Before(h, i - 1, N) /\ Limit(y, i) = Before(h, i, N)
             /\ Limit(y, i - 1) \in Nat /\ Limit(y, i) \in Nat
             /\ Limit(y, i - 1) <= Limit(y, i) /\ Limit(y, i) <= n
             /\ i \in Int /\ i - 1 \in Int
  <2>1. i \in 0 .. k /\ i - 1 \in 0 .. k /\ i \in Int /\ i - 1 \in Int /\ i - 1 < i
    BY SMT
  <2>2. Before(h, i - 1, N) <= Before(h, i, N)
    BY <1>2, <2>1, BeforeRises
  <2> QED BY <1>1, <1>3, <2>1, <2>2
<1>5. ASSUME NEW i \in 1 .. k, NEW p \in Limit(y, i - 1) + 1 .. Limit(y, i)
      PROVE  \E j \in Index : <<i, j>> \in Ones(h) /\ Before(h, i, j) + 1 = p /\ y[p] = j
  <2>1. p \in Int /\ Before(h, i - 1, N) + 1 <= p /\ p <= Before(h, i, N)
    <3> DEFINE a == Limit(y, i - 1)
               b == Limit(y, i)
    <3>1. a \in Nat /\ b \in Nat /\ p \in a + 1 .. b
      BY <1>4
    <3> HIDE DEF a, b
    <3>2. p \in Int /\ a + 1 <= p /\ p <= b
      BY <3>1, SMT
    <3> QED BY <1>4, <3>2 DEF a, b
  <2>2. PICK j \in Index : <<i, j>> \in Ones(h) /\ Before(h, i, j) + 1 = p
    BY <2>1, RowOfRank
  <2> QED BY <1>1, <2>2
<1>6. ASSUME NEW i \in 1 .. k, NEW j \in Index, <<i, j>> \in Ones(h)
      PROVE  Before(h, i, j) + 1 \in Limit(y, i - 1) + 1 .. Limit(y, i)
  <2>1. i \in Int /\ j \in Int /\ (i < i \/ (i = i /\ j <= N)) /\ (i < i \/ j < N)
    BY <1>2, SMT
  <2>2. Before(h, i, j) + 1 <= Before(h, i, N) /\ Before(h, i, j) \in Nat
    BY <1>2, <1>6, <2>1, BeforeRises
  <2>3. Before(h, i, 0) = Before(h, i - 1, N)
    BY BeforeEnds
  <2>4. i \in Int /\ 0 \in Int /\ (i < i \/ (i = i /\ 0 <= j))
    BY <1>2, SMT
  <2>5. Before(h, i, 0) <= Before(h, i, j)
    BY <2>1, <2>4, BeforeRises
  <2> DEFINE a == Limit(y, i - 1)
             b == Limit(y, i)
             r == Before(h, i, j)
  <2>6. a \in Nat /\ b \in Nat /\ r \in Nat /\ a <= r /\ r + 1 <= b
    BY <1>4, <2>2, <2>3, <2>5
  <2> HIDE DEF a, b, r
  <2>7. r + 1 \in a + 1 .. b
    BY <2>6, SMT
  <2> QED BY <2>7 DEF a, b, r
<1>7. LimitsRise(y, k)
  <2>1. \A i \in 1 .. k : Limit(y, i - 1) <= Limit(y, i) /\ Limit(y, i) <= OMEGA
    BY <1>1, <1>4, SMT
  <2> QED BY <2>1 DEF LimitsRise
<1>8. PositionsRise(y, k)
  <2>1. SUFFICES ASSUME NEW i \in 1 .. k, NEW p \in 1 .. OMEGA,
                        Limit(y, i - 1) + 1 < p, p <= Limit(y, i)
                 PROVE  y[p - 1] < y[p]
    BY DEF PositionsRise
  <2>2. p \in Limit(y, i - 1) + 1 .. Limit(y, i) /\ p - 1 \in Limit(y, i - 1) + 1 .. Limit(y, i)
        /\ p \in Int
    <3> DEFINE a == Limit(y, i - 1)
               b == Limit(y, i)
    <3>1. a \in Nat /\ b \in Nat /\ a + 1 < p /\ p <= b
      BY <1>4, <2>1
    <3> HIDE DEF a, b
    <3>2. p \in a + 1 .. b /\ p - 1 \in a + 1 .. b /\ p \in Int
      BY <1>1, <3>1, SMT
    <3> QED BY <3>2 DEF a, b
  <2>3. PICK j \in Index : <<i, j>> \in Ones(h) /\ Before(h, i, j) + 1 = p /\ y[p] = j
    BY <1>5, <2>2
  <2>4. PICK l \in Index : <<i, l>> \in Ones(h) /\ Before(h, i, l) + 1 = p - 1 /\ y[p - 1] = l
    BY <1>5, <2>2
  <2>5. l \in Int /\ j \in Int /\ i \in Int
    BY <1>2, <1>4
  <2>6. ASSUME j <= l PROVE FALSE
    <3>1. i < i \/ (i = i /\ j <= l)
      BY <2>6
    <3>2. Before(h, i, j) <= Before(h, i, l) /\ Before(h, i, j) \in Nat /\ Before(h, i, l) \in Nat
      BY <2>5, <3>1, BeforeRises
    <3> QED BY <2>2, <2>3, <2>4, <3>2, SMT
  <2> QED BY <2>3, <2>4, <2>5, <2>6, SMT
<1>9. RestIsZero(y, k)
  <2>1. k \in 0 .. k
    BY SMT
  <2>2. Limit(y, k) = n
    BY <1>1, <2>1, BeforeEnds
  <2>3. \A p \in n + 1 .. OMEGA : p \in 1 .. OMEGA /\ p > n
    BY <1>1, SMT
  <2> QED BY <1>1, <2>2, <2>3 DEF RestIsZero
<1>10. hint_bit_unpack(y, k) = [i \in 1 .. k |->
          [j \in Index |->
             IF \E p \in Limit(y, i - 1) + 1 .. Limit(y, i) : y[p] = j THEN 1 ELSE 0]]
  BY <1>7, <1>8, <1>9 DEF hint_bit_unpack
<1>11. ASSUME NEW i \in 1 .. k, NEW j \in Index
       PROVE  (IF \E p \in Limit(y, i - 1) + 1 .. Limit(y, i) : y[p] = j THEN 1 ELSE 0) = h[i][j]
  <2>1. h[i][j] \in {0, 1} /\ (<<i, j>> \in Ones(h) <=> h[i][j] = 1)
    BY OnesAre DEF Hints
  <2>2. CASE h[i][j] = 1
    <3>1. <<i, j>> \in Ones(h)
      BY <2>1, <2>2
    <3>2. Before(h, i, j) + 1 \in Limit(y, i - 1) + 1 .. Limit(y, i)
          /\ y[Before(h, i, j) + 1] = j
      BY <1>1, <1>6, <3>1
    <3> QED BY <2>2, <3>2
  <2>3. CASE h[i][j] = 0
    <3>1. <<i, j>> \notin Ones(h)
      BY <2>1, <2>3
    <3>2. ASSUME NEW p \in Limit(y, i - 1) + 1 .. Limit(y, i), y[p] = j PROVE FALSE
      <4>1. PICK l \in Index : <<i, l>> \in Ones(h) /\ y[p] = l
        BY <1>5
      <4> QED BY <3>1, <3>2, <4>1
    <3> QED BY <2>3, <3>2
  <2> QED BY <2>1, <2>2, <2>3
<1>12. h = [i \in 1 .. k |-> [j \in Index |-> h[i][j]]]
  BY DEF Hints
<1>13. hint_bit_unpack(y, k) = h
  BY <1>10, <1>11, <1>12
<1>14. h # NoHint
  <2>1. 1 \in DOMAIN h
    BY SMT DEF Hints
  <2>2. DOMAIN NoHint = {}
    BY DEF NoHint
  <2> QED BY <2>1, <2>2
<1>15. y \in [1 .. OMEGA + k -> Index]
  <2>1. ASSUME NEW p \in 1 .. OMEGA + k PROVE y[p] \in Index
    <3>1. CASE p > OMEGA
      <4> DEFINE i == p - OMEGA
      <4>1. i \in 1 .. k /\ i \in 0 .. k /\ i # 0 /\ p = OMEGA + i
        BY <1>1, <3>1, SMT
      <4> HIDE DEF i
      <4>2. Limit(y, i) = y[p]
        BY <4>1 DEF Limit
      <4> QED BY <1>1, <1>3, <4>1, <4>2
    <3>2. CASE p <= n
      <4> DEFINE r == p - 1
      <4>1. r \in Nat /\ r < n /\ r + 1 = p
        BY <1>1, <3>2, SMT
      <4> HIDE DEF r
      <4>2. PICK l \in 1 .. k, j \in Index : <<l, j>> \in Ones(h) /\ Before(h, l, j) = r
        BY <4>1, OneOfRank
      <4> QED BY <1>1, <4>1, <4>2
    <3>3. CASE ~ (p > OMEGA) /\ ~ (p <= n)
      <4>1. p \in 1 .. OMEGA /\ p > n /\ 0 \in Index
        BY <1>1, <1>2, <3>3, SMT DEF Index
      <4> QED BY <1>1, <4>1
    <3> QED BY <3>1, <3>2, <3>3
  <2>2. y = [p \in 1 .. OMEGA + k |-> y[p]]
    BY <1>5, <1>1 DEF y, hint_bit_pack
  <2> QED BY <2>1, <2>2
<1> QED BY <1>13, <1>14, <1>15 DEF y

-----------------------------------------------------------------------------
(* A challenge times a secret is small.                                    *)

LEMMA WithinSum ==
  ASSUME MlDsaRingAssumption, NEW a \in Nat, NEW b \in Nat, NEW x \in Int, NEW y \in Int,
         Within(x, a), Within(y, b)
  PROVE  Within((x + y) % Q, a + b)
<1>1. PICK v \in Int : Is(x, v) /\ -a <= v /\ v <= a
  BY DEF Within
<1>2. PICK w \in Int : Is(y, w) /\ -b <= w /\ w <= b
  BY DEF Within
<1> DEFINE s == x + y
           t == v + w
           n == a + b
<1>3. s \in Int /\ t \in Int /\ -n <= t /\ t <= n
  BY <1>1, <1>2, SMT
<1>4. Is(s, t)
  BY <1>1, <1>2, IsPlus
<1> HIDE DEF s, t, n
<1>5. Is(s % Q, s) /\ (s % Q) \in Int
  BY <1>3, IsMod, FieldInt
<1>6. Is(s % Q, t)
  BY <1>3, <1>4, <1>5, IsTrans
<1>7. Within(s % Q, n)
  BY <1>3, <1>6 DEF Within
<1> QED BY <1>7 DEF s, n

LEMMA WithinMore ==
  ASSUME NEW x, NEW a \in Nat, NEW b \in Nat, a <= b, Within(x, a)
  PROVE  Within(x, b)
<1>1. PICK v \in Int : Is(x, v) /\ -a <= v /\ v <= a
  BY DEF Within
<1>2. -b <= v /\ v <= b
  BY <1>1, SMT
<1> QED BY <1>1, <1>2 DEF Within

LEMMA WithinIs ==
  ASSUME MlDsaRingAssumption, NEW x \in Int, NEW y \in Int, NEW a \in Nat,
         Is(x, y), Within(y, a)
  PROVE  Within(x, a)
<1>1. PICK v \in Int : Is(y, v) /\ -a <= v /\ v <= a
  BY DEF Within
<1>2. Is(x, v)
  BY <1>1, IsTrans
<1> QED BY <1>1, <1>2 DEF Within

LEMMA WithinMinus ==
  ASSUME MlDsaRingAssumption, NEW x \in Int, NEW a \in Nat, Within(x, a)
  PROVE  Within(0 - x, a)
<1>1. PICK v \in Int : Is(x, v) /\ -a <= v /\ v <= a
  BY DEF Within
<1>2. 0 \in Int /\ Is(0, 0)
  BY IsRefl, SMT
<1>3. Is(0 - x, 0 - v)
  BY <1>1, <1>2, IsPlus
<1>4. 0 - v \in Int /\ -a <= 0 - v /\ 0 - v <= a
  BY <1>1, SMT
<1> QED BY <1>3, <1>4 DEF Within

(* A coefficient of a small polynomial turned about is as small.           *)
LEMMA RotWithin ==
  ASSUME MlDsaRingAssumption, NEW g \in Polys, NEW n \in Nat,
         \A i \in Index : Within(g[i], n), NEW m \in Index, NEW k \in Index
  PROVE  Rot(g, m)[k] \in Field /\ Within(Rot(g, m)[k], n)
<1>1. N \in Nat /\ 0 \in Field /\ 0 \in Int
  BY Ring, SMT DEF Field
<1>2. Rot(g, m)[k] = IF m <= k THEN g[k - m] ELSE Sub(0, g[k - m + N])
  BY DEF Rot
<1>3. CASE m <= k
  <2>1. k - m \in Index
    BY <1>1, <1>3, SMT DEF Index
  <2> QED BY <1>2, <1>3, <2>1 DEF Polys
<1>4. CASE ~ (m <= k)
  <2> DEFINE j == k - m + N
             x == g[j]
  <2>1. j \in Index
    BY <1>1, <1>4, SMT DEF Index
  <2> HIDE DEF j
  <2>2. x \in Field /\ Within(x, n)
    BY <2>1 DEF Polys
  <2>3. Rot(g, m)[k] = Sub(0, x)
    BY <1>2, <1>4 DEF j
  <2> HIDE DEF x
  <2>4. x \in Int /\ 0 - x \in Int
    BY <2>2, FieldInt, SMT
  <2>5. Is(Sub(0, x), 0 - x) /\ Sub(0, x) \in Field
    BY <1>1, <2>2, <2>4, SubIs, SubIn
  <2>6. Within(0 - x, n)
    BY <2>2, <2>4, WithinMinus
  <2>7. Sub(0, x) \in Int
    BY <2>5, FieldInt
  <2>8. Within(Sub(0, x), n)
    BY <2>4, <2>5, <2>6, <2>7, WithinIs
  <2> QED BY <2>3, <2>5, <2>8
<1> QED BY <1>3, <1>4

(* One product with a one or a minus one is as small, with a zero it is 0. *)
LEMMA TermWithin ==
  ASSUME MlDsaRingAssumption, NEW c \in Polys, NEW g \in Polys, NEW n \in Nat,
         \A i \in Index : Within(g[i], n), NEW k \in Index, NEW i \in Index,
         c[i] \in {0, 1, Q - 1}
  PROVE  /\ Term(c, g, k, i) \in Int
         /\ Within(Term(c, g, k, i), IF c[i] = 0 THEN 0 ELSE n)
<1> DEFINE t == Term(c, g, k, i)
           x == Rot(g, i)[k]
           a == c[i]
           p == a * x
<1>1. t \in Int /\ Is(t, p) /\ p \in Int
  BY TermIs
<1>2. x \in Field /\ Within(x, n)
  BY RotWithin
<1>3. x \in Int /\ Q \in Int /\ Q > 1
  BY <1>2, FieldInt
<1> HIDE DEF t, x, a
<1>4. CASE a = 0
  <2>1. p = 0
    BY <1>3, <1>4, SMT
  <2>2. Within(0, 0)
    <3>1. 0 \in Int /\ -0 <= 0 /\ 0 <= 0 /\ Is(0, 0)
      BY IsRefl, SMT
    <3> QED BY <3>1 DEF Within
  <2>3. Within(t, 0)
    <3>1. 0 \in Nat
      BY SMT
    <3> HIDE DEF p
    <3> QED BY <1>1, <2>1, <2>2, <3>1, WithinIs
  <2> QED BY <1>1, <1>4, <2>3 DEF t, a
<1>5. CASE a = 1
  <2>1. p = x
    BY <1>3, <1>5, SMT
  <2> HIDE DEF p
  <2>2. Within(t, n)
    BY <1>1, <1>2, <1>3, <2>1, WithinIs
  <2>3. a # 0
    BY <1>5, SMT
  <2> QED BY <1>1, <2>2, <2>3 DEF t, a
<1>6. CASE a = Q - 1
  <2> DEFINE m == 0 - x
  <2>1. p = m + x * Q /\ m \in Int
    BY <1>3, <1>6, SMT
  <2>2. Within(m, n)
    BY <1>2, <1>3, WithinMinus
  <2> HIDE DEF p, m
  <2>3. Is(p, m)
    BY <1>3, <2>1 DEF Is, Cong
  <2>4. Within(p, n)
    BY <1>1, <2>1, <2>2, <2>3, WithinIs
  <2>5. Within(t, n)
    BY <1>1, <2>4, WithinIs
  <2>6. a # 0
    BY <1>3, <1>6, SMT
  <2> QED BY <1>1, <2>5, <2>6 DEF t, a
<1>7. a = 0 \/ a = 1 \/ a = Q - 1
  BY DEF a
<1> QED BY <1>4, <1>5, <1>6, <1>7

(* A sparse challenge times a small polynomial is small.                   *)
LEMMA SparseTimes ==
  ASSUME MlDsaRingAssumption, NEW c \in Polys, NEW m \in Nat, Sparse(c, m),
         NEW g \in Polys, NEW n \in Nat, \A i \in Index : Within(g[i], n), NEW k \in Index
  PROVE  Within(Negacyclic(c, g)[k], m * n)
<1>1. PICK r : /\ Runs(r, N, Field, 0) /\ Negacyclic(c, g)[k] = r[N]
               /\ \A j \in 0 .. N - 1 : r[j + 1] = (r[j] + Term(c, g, k, j)) % Q
  BY NegacyclicRun
<1>2. N \in Nat /\ N > 0
  BY Ring
<1> DEFINE M(j) == {i \in Marks(c) : i < j}
           b(j) == Cardinality(M(j)) * n
<1>3. c \in [Index -> {0, 1, Q - 1}] /\ IsFiniteSet(Marks(c)) /\ Cardinality(Marks(c)) <= m
  BY DEF Sparse
<1>4. \A i \in Marks(c) : i \in Index /\ i \in Int /\ i < N
  BY <1>2, SMT DEF Marks, Index
<1>5. \A j : M(j) \in SUBSET Marks(c) /\ IsFiniteSet(M(j)) /\ Cardinality(M(j)) \in Nat
  BY <1>3, FS_Subset, FS_CardinalityType
<1> DEFINE S == {j \in 0 .. N : Within(r[j], b(j))}
<1>6. 0 \in S
  <2>1. 0 \in 0 .. N /\ r[0] = 0
    BY <1>1, <1>2, SMT DEF Runs
  <2>2. M(0) = {}
    <3>1. \A i \in Marks(c) : ~ (i < 0)
      BY <1>2, SMT DEF Marks, Index
    <3> QED BY <3>1
  <2>3. Cardinality(M(0)) = 0
    BY <2>2, FS_EmptySet
  <2>4. b(0) = 0
    BY <2>3, SMT
  <2>5. Within(0, 0)
    <3>1. 0 \in Int /\ -0 <= 0 /\ 0 <= 0 /\ Is(0, 0)
      BY IsRefl, SMT
    <3> QED BY <3>1 DEF Within
  <2> QED BY <2>1, <2>4, <2>5
<1>7. ASSUME NEW j \in 0 .. N - 1, j \in S PROVE j + 1 \in S
  <2> DEFINE x == r[j]
             t == Term(c, g, k, j)
             d == Cardinality(M(j))
             e == Cardinality(M(j + 1))
  <2>1. j \in 0 .. N /\ j + 1 \in 0 .. N /\ j \in Index /\ j \in Int
    BY <1>2, SMT DEF Index
  <2>2. x \in Int
    BY <1>1, <2>1, FieldInt DEF Runs
  <2>3. c[j] \in {0, 1, Q - 1}
    BY <1>3, <2>1
  <2>4. t \in Int /\ Within(t, IF c[j] = 0 THEN 0 ELSE n)
    BY <2>1, <2>3, TermWithin
  <2>5. r[j + 1] = (x + t) % Q /\ Within(x, b(j))
    BY <1>1, <1>7
  <2>6. M(j + 1) = IF c[j] = 0 THEN M(j) ELSE M(j) \cup {j}
    <3>1. \A i \in Marks(c) : i < j + 1 <=> (i < j \/ i = j)
      BY <1>4, <2>1, SMT
    <3>2. j \in Marks(c) <=> c[j] # 0
      BY <2>1 DEF Marks
    <3> QED BY <3>1, <3>2
  <2>7. j \notin M(j)
    BY <2>1, SMT
  <2>8. d \in Nat /\ e \in Nat
    BY <1>5
  <2>9. e = IF c[j] = 0 THEN d ELSE d + 1
    <3>1. Cardinality(M(j) \cup {j}) = d + 1
      <4> HIDE DEF M
      <4> QED BY <1>5, <2>7, FS_AddElement
    <3> QED BY <2>6, <3>1
  <2>10. d * n \in Nat /\ b(j) = d * n /\ b(j + 1) = e * n
    BY <2>8, SMT
  <2>11. Within((x + t) % Q, b(j + 1))
    <3>1. CASE c[j] = 0
      <4> DEFINE a == d * n
      <4>1. Within(t, 0) /\ e = d /\ 0 \in Nat
        BY <2>4, <2>9, <3>1, SMT
      <4>2. a \in Nat /\ Within(x, a)
        BY <2>5, <2>10
      <4> HIDE DEF a, t, x
      <4>3. Within((x + t) % Q, a + 0)
        BY <2>2, <2>4, <4>1, <4>2, WithinSum
      <4>4. a + 0 = a
        BY <4>2, SMT
      <4> QED BY <2>10, <4>1, <4>3, <4>4 DEF a
    <3>2. CASE c[j] # 0
      <4> DEFINE a == d * n
      <4>1. Within(t, n) /\ e = d + 1
        BY <2>4, <2>9, <3>2
      <4>2. a \in Nat /\ Within(x, a)
        BY <2>5, <2>10
      <4>3. e * n = a + n
        <5> HIDE DEF d, e
        <5> QED BY <2>8, <4>1, SMT
      <4> HIDE DEF a, t, x
      <4>4. Within((x + t) % Q, a + n)
        BY <2>2, <2>4, <4>1, <4>2, WithinSum
      <4> QED BY <2>10, <4>3, <4>4
    <3> QED BY <3>1, <3>2
  <2> QED BY <2>1, <2>5, <2>11
<1>8. N \in S
  <2>1. N \in 0 .. N
    BY <1>2, SMT
  <2> HIDE DEF S
  <2> QED BY <1>2, <1>6, <1>7, <2>1, UptoInduction
<1>9. Within(r[N], b(N))
  BY <1>8
<1>10. M(N) = Marks(c)
  BY <1>4
<1> DEFINE d == Cardinality(Marks(c))
<1>11. b(N) = d * n
  BY <1>10
<1>12. d \in Nat /\ d <= m
  BY <1>3, FS_CardinalityType
<1> HIDE DEF d
<1>13. d * n \in Nat /\ m * n \in Nat /\ d * n <= m * n
  <2>1. n * d <= n * m
    BY <1>12, Times2
  <2>2. n * d = d * n /\ n * m = m * n /\ d * n \in Nat /\ m * n \in Nat
    BY <1>12, SMT
  <2> QED BY <2>1, <2>2
<1> QED BY <1>1, <1>9, <1>11, <1>13, WithinMore

LEMMA EtaIs ==
  ASSUME MlDsaRingAssumption, MlDsaAssumption, NEW c \in Etas
  PROVE  c \in Field /\ SignedIn(c, ETA, ETA) /\ Within(c, ETA)
<1>1. PICK x \in -ETA .. ETA : c = Lift(x)
  BY DEF Etas, signed_to_fq
<1>2. x \in Int /\ -ETA <= x /\ x <= ETA /\ -Q <= x /\ x < Q
  BY <1>1, Sizes2, FieldInt, SMT
<1>3. Is(c, x)
  BY <1>1, <1>2, LiftIs
<1> QED BY <1>1, <1>2, <1>3, LiftIn DEF SignedIn, Within

LEMMA SecretIs ==
  ASSUME MlDsaRingAssumption, MlDsaAssumption, NEW n \in Nat,
         NEW v \in [1 .. n -> [Index -> Etas]]
  PROVE  /\ v \in Vectors(n) /\ SignedVec(v, n, ETA, ETA)
         /\ unpack_eta(pack_eta(v)) = v
         /\ FieldsBelow(pack_eta(v), 2 * ETA + 1)
         /\ \A i \in 1 .. n, j \in Index : v[i][j] \in Field /\ Within(v[i][j], ETA)
<1>1. \A i \in 1 .. n, j \in Index :
        v[i][j] \in Field /\ SignedIn(v[i][j], ETA, ETA) /\ Within(v[i][j], ETA)
  BY EtaIs
<1>2. v \in Vectors(n)
  BY <1>1 DEF Vectors, Polys
<1>3. v = [i \in 1 .. n |-> [j \in Index |-> v[i][j]]]
  OBVIOUS
<1>4. SignedVec(v, n, ETA, ETA)
  BY <1>1, <1>3 DEF SignedVec
<1> DEFINE a == ETA
<1>5. a \in Nat /\ a + a < Q /\ a + a = 2 * a
      /\ Bits(bitlen(a + a)) \in Nat /\ a + a < Bits(bitlen(a + a))
      /\ SignedVec(v, n, a, a)
  BY <1>4, Sizes2
<1> HIDE DEF a
<1>6. FieldsBelow(bit_pack(v, a, a), a + a + 1) /\ bit_unpack(bit_pack(v, a, a), a) = v
  BY <1>5, PackVec
<1> QED BY <1>1, <1>2, <1>4, <1>5, <1>6 DEF a, unpack_eta, pack_eta

(* cs1 and cs2 are small: TAU products of at most ETA.                     *)
LEMMA SecretTimes ==
  ASSUME MlDsaRingAssumption, MlDsaAssumption, NEW n \in Nat,
         NEW v \in [1 .. n -> [Index -> Etas]], NEW c \in Polys, Sparse(c, TAU),
         NEW i \in 1 .. n, NEW j \in Index
  PROVE  TimesPoly(c, v)[i][j] \in Field /\ Within(TimesPoly(c, v)[i][j], BETA)
<1>1. v \in Vectors(n) /\ \A k \in 1 .. n, l \in Index : Within(v[k][l], ETA)
  BY SecretIs
<1>2. TimesPoly(c, v) = [k \in 1 .. n |-> intt(pointwise_montgomery(ntt(c), ntt(v[k])))]
      /\ TimesPoly(c, v) \in Vectors(n)
  BY <1>1, TimesPolyIs
<1> DEFINE g == v[i]
<1>3. g \in Polys /\ \A l \in Index : Within(g[l], ETA)
  BY <1>1 DEF Vectors
<1>4. TimesPoly(c, v)[i] = intt(pointwise_montgomery(ntt(c), ntt(g)))
  BY <1>2
<1> HIDE DEF g
<1>5. TimesPoly(c, v)[i] = Negacyclic(c, g)
  BY <1>3, <1>4, ProductIs
<1>6. TAU \in Nat /\ ETA \in Nat /\ BETA = TAU * ETA
  BY DEF MlDsaAssumption
<1>7. Within(Negacyclic(c, g)[j], TAU * ETA)
  BY <1>3, <1>6, SparseTimes
<1>8. TimesPoly(c, v)[i][j] \in Field
  BY <1>2 DEF Vectors, Polys
<1> QED BY <1>5, <1>6, <1>7, <1>8

-----------------------------------------------------------------------------
(* Keys.                                                                   *)

(* keygen: t, and what is kept of it.                                      *)
TOf(rho, s) == VecAdd(Times(ExpandA(rho), s.s1), s.s2)

LowOf(t)    == power2round_vec(t)[2]

HighOf(t)   == simple_bit_pack(power2round_vec(t)[1], T1Bits)

LEMMA TIn ==
  ASSUME MlDsaRingAssumption, MlDsaAssumption, NEW rho \in Rhos, NEW s \in Secrets
  PROVE  /\ s.s1 \in [1 .. L -> [Index -> Etas]] /\ s.s2 \in [1 .. K -> [Index -> Etas]]
         /\ TOf(rho, s) \in Vectors(K)
<1>1. s.s1 \in [1 .. L -> [Index -> Etas]] /\ s.s2 \in [1 .. K -> [Index -> Etas]]
  BY DEF MlDsaAssumption
<1>2. K \in Nat /\ L \in Nat
  BY Sizes2
<1>3. s.s1 \in Vectors(L)
  BY <1>1, <1>2, SecretIs
<1>4. s.s2 \in Vectors(K)
  BY <1>1, <1>2, SecretIs
<1>5. Times(ExpandA(rho), s.s1) \in Vectors(K)
  BY <1>3, TimesIn
<1> QED BY <1>1, <1>2, <1>4, <1>5, VecAddIn DEF TOf

(* The low part is kept, and the high part is t less the low part.         *)
LEMMA TKept ==
  ASSUME MlDsaRingAssumption, MlDsaAssumption, NEW t \in Vectors(K)
  PROVE  /\ LowOf(t) \in Vectors(K)
         /\ DOMAIN polyvec_bit_pack_t0(LowOf(t)) = 1 .. K
         /\ polyvec_bit_unpack_t0(polyvec_bit_pack_t0(LowOf(t))) = LowOf(t)
         /\ FieldsBelow(polyvec_bit_pack_t0(LowOf(t)), Bits(D))
         /\ DOMAIN HighOf(t) = 1 .. K /\ FieldsBelow(HighOf(t), Bits(T1Bits))
         /\ polyvec_scale_2d(HighOf(t)) = VecSub(t, LowOf(t))
<1> DEFINE R(a) == Lift(a - High(a) * Bits(D))
           a == Bits(D - 1) - 1
           b == Bits(D - 1)
           l == LowOf(t)
           h == HighOf(t)
           g == power2round_vec(t)[1]
<1>1. K \in Nat
  BY Sizes2
<1>2. DOMAIN t = 1 .. K /\ \A i \in 1 .. K, j \in Index : t[i][j] \in Field
  BY DEF Vectors, Polys
<1>3. l = [i \in 1 .. K |-> [j \in Index |-> R(t[i][j])]]
  BY <1>2, EvaluatedIs DEF LowOf, power2round_vec, Coeffwise, OnVec, Entries, Coeffs
<1>4. g = [i \in 1 .. K |-> [j \in Index |-> High(t[i][j])]]
  BY <1>2, EvaluatedIs DEF power2round_vec, Coeffwise, OnVec, Entries, Coeffs
<1>5. h = [i \in 1 .. K |-> [j \in Index |-> g[i][j] % Bits(T1Bits)]]
  <2>1. DOMAIN g = 1 .. K
    BY <1>4
  <2> HIDE DEF g
  <2>2. simple_bit_pack(g, T1Bits) = [i \in 1 .. K |-> [j \in Index |-> g[i][j] % Bits(T1Bits)]]
    BY <2>1, EvaluatedIs DEF simple_bit_pack, Coeffwise, OnVec, Entries, Coeffs
  <2> QED BY <2>2 DEF HighOf, g
<1>6. ASSUME NEW i \in 1 .. K, NEW j \in Index
      PROVE  /\ R(t[i][j]) \in Field /\ SignedIn(R(t[i][j]), a, b)
             /\ (High(t[i][j]) * Bits(D)) % Q = Sub(t[i][j], R(t[i][j]))
             /\ High(t[i][j]) \in Nat /\ High(t[i][j]) < Bits(T1Bits)
             /\ (High(t[i][j]) % Bits(T1Bits)) = High(t[i][j])
  BY <1>2, TScaled, THigh
<1>7. /\ a \in Nat /\ b \in Nat /\ a + b < Q /\ a + b + 1 = Bits(D)
      /\ Bits(bitlen(a + b)) \in Nat /\ a + b < Bits(bitlen(a + b))
  <2>1. b \in Nat /\ b > 0 /\ Bits(D) = 2 * b /\ Bits(D) < Q /\ Q \in Int
    BY TSizes, FieldInt
  <2> DEFINE n == Bits(D) - 1
             m == Bits(bitlen(n))
  <2>2. m \in n + 1 .. 2 * n
    BY DEF MlDsaRingAssumption
  <2> HIDE DEF b, m
  <2>3. a \in Nat /\ n \in Nat /\ a + b < Q /\ a + b + 1 = Bits(D) /\ a + b = n
    BY <2>1, SMT DEF b
  <2> HIDE DEF n, a
  <2>4. m \in Nat /\ n < m
    BY <2>2, <2>3, SMT
  <2>5. m = Bits(bitlen(a + b))
    BY <2>3 DEF m
  <2> QED BY <2>1, <2>3, <2>4, <2>5
<1> HIDE DEF R, l, h, g
<1>8. l \in Vectors(K)
  BY <1>3, <1>6 DEF Vectors, Polys
<1>9. SignedVec(l, K, a, b)
  <2>1. \A i \in 1 .. K, j \in Index : SignedIn(l[i][j], a, b)
    BY <1>3, <1>6
  <2>2. l = [i \in 1 .. K |-> [j \in Index |-> l[i][j]]]
    BY <1>3
  <2> QED BY <2>1, <2>2 DEF SignedVec
<1>10. /\ DOMAIN bit_pack(l, a, b) = 1 .. K
       /\ FieldsBelow(bit_pack(l, a, b), Bits(D))
       /\ bit_unpack(bit_pack(l, a, b), a) = l
  <2>1. a \in Nat /\ b \in Nat /\ a + b < Q /\ a + b + 1 = Bits(D)
        /\ Bits(bitlen(a + b)) \in Nat /\ a + b < Bits(bitlen(a + b))
        /\ SignedVec(l, K, a, b)
    BY <1>7, <1>9
  <2> HIDE DEF a, b
  <2> QED BY <1>1, <2>1, PackVec
<1>11. h = [i \in 1 .. K |-> [j \in Index |-> High(t[i][j])]]
  BY <1>4, <1>5, <1>6
<1>12. FieldsBelow(h, Bits(T1Bits))
  <2> DEFINE m == Bits(T1Bits)
  <2>1. m \in Nat
    BY DEF MlDsaRingAssumption
  <2>2. ASSUME NEW i \in 1 .. K, NEW j \in Index PROVE h[i][j] \in 0 .. m - 1
    <3>1. h[i][j] \in Nat /\ h[i][j] < m
      BY <1>6, <1>11
    <3> HIDE DEF m
    <3> QED BY <2>1, <3>1, SMT
  <2> QED BY <1>11, <2>2 DEF FieldsBelow
<1>13. polyvec_scale_2d(h) = [i \in 1 .. K |-> [j \in Index |-> (h[i][j] * Bits(D)) % Q]]
  BY <1>11, EvaluatedIs DEF polyvec_scale_2d, Coeffwise, OnVec, Entries, Coeffs
<1>14. VecSub(t, l) = [i \in 1 .. K |-> [j \in Index |-> Sub(t[i][j], l[i][j])]]
  BY <1>1, <1>8, VecAddIn, PolyIs
<1>15. polyvec_scale_2d(h) = VecSub(t, l)
  <2>1. ASSUME NEW i \in 1 .. K, NEW j \in Index
        PROVE  (h[i][j] * Bits(D)) % Q = Sub(t[i][j], l[i][j])
    <3>1. h[i][j] = High(t[i][j]) /\ l[i][j] = R(t[i][j])
      BY <1>3, <1>11
    <3> QED BY <1>6, <3>1
  <2> QED BY <1>13, <1>14, <2>1
<1> QED BY <1>8, <1>10, <1>11, <1>12, <1>15 DEF l, h, a, b, polyvec_bit_pack_t0, polyvec_bit_unpack_t0

(* The keys are what Keygen makes of a seed's matrix and of secrets.       *)
KeyMade ==
  \E rho \in Rhos, s \in Secrets :
    /\ pk = [rho |-> rho, t1 |-> HighOf(TOf(rho, s))]
    /\ sk = [rho |-> rho, tr |-> Tr(rho, HighOf(TOf(rho, s))), s1 |-> pack_eta(s.s1),
             s2 |-> pack_eta(s.s2), t0 |-> polyvec_bit_pack_t0(LowOf(TOf(rho, s)))]

(* Keys are unpacked to what they were packed from.                        *)
LEMMA KeyUnpacks ==
  ASSUME MlDsaRingAssumption, MlDsaAssumption, NEW rho \in Rhos, NEW s \in Secrets,
         NEW t, t = TOf(rho, s)
  PROVE  /\ unpack_eta(pack_eta(s.s1)) = s.s1 /\ unpack_eta(pack_eta(s.s2)) = s.s2
         /\ FieldsBelow(pack_eta(s.s1), 2 * ETA + 1)
         /\ FieldsBelow(pack_eta(s.s2), 2 * ETA + 1)
         /\ s.s1 \in Vectors(L) /\ s.s2 \in Vectors(K) /\ t \in Vectors(K)
         /\ polyvec_bit_unpack_t0(polyvec_bit_pack_t0(LowOf(t))) = LowOf(t)
         /\ FieldsBelow(polyvec_bit_pack_t0(LowOf(t)), Bits(D))
         /\ LowOf(t) \in Vectors(K) /\ FieldsBelow(HighOf(t), Bits(T1Bits))
         /\ polyvec_scale_2d(HighOf(t)) \in Vectors(K)
<1>1. K \in Nat /\ L \in Nat
  BY Sizes2
<1>2. s.s1 \in [1 .. L -> [Index -> Etas]] /\ s.s2 \in [1 .. K -> [Index -> Etas]] /\ t \in Vectors(K)
  BY TIn
<1>3. /\ s.s1 \in Vectors(L) /\ unpack_eta(pack_eta(s.s1)) = s.s1
      /\ FieldsBelow(pack_eta(s.s1), 2 * ETA + 1)
  BY <1>1, <1>2, SecretIs
<1>4. /\ s.s2 \in Vectors(K) /\ unpack_eta(pack_eta(s.s2)) = s.s2
      /\ FieldsBelow(pack_eta(s.s2), 2 * ETA + 1)
  BY <1>1, <1>2, SecretIs
<1>5. /\ LowOf(t) \in Vectors(K)
      /\ polyvec_bit_unpack_t0(polyvec_bit_pack_t0(LowOf(t))) = LowOf(t)
      /\ FieldsBelow(polyvec_bit_pack_t0(LowOf(t)), Bits(D))
      /\ FieldsBelow(HighOf(t), Bits(T1Bits))
      /\ polyvec_scale_2d(HighOf(t)) = VecSub(t, LowOf(t))
  BY <1>2, TKept
<1>6. VecSub(t, LowOf(t)) \in Vectors(K)
  BY <1>1, <1>2, <1>5, VecAddIn
<1> QED BY <1>2, <1>3, <1>4, <1>5, <1>6

LEMMA KeyTypes ==
  ASSUME MlDsaRingAssumption, MlDsaAssumption, KeyMade
  PROVE  /\ FieldsBelow(pk.t1, Bits(T1Bits)) /\ FieldsBelow(sk.t0, Bits(D))
         /\ FieldsBelow(sk.s1, 2 * ETA + 1) /\ FieldsBelow(sk.s2, 2 * ETA + 1)
<1>1. PICK rho \in Rhos, s \in Secrets :
        /\ pk = [rho |-> rho, t1 |-> HighOf(TOf(rho, s))]
        /\ sk = [rho |-> rho, tr |-> Tr(rho, HighOf(TOf(rho, s))), s1 |-> pack_eta(s.s1),
                 s2 |-> pack_eta(s.s2), t0 |-> polyvec_bit_pack_t0(LowOf(TOf(rho, s)))]
  BY DEF KeyMade
<1> DEFINE t == TOf(rho, s)
           t1 == HighOf(t)
           t0 == LowOf(t)
<1>2. /\ FieldsBelow(t1, Bits(T1Bits)) /\ FieldsBelow(polyvec_bit_pack_t0(t0), Bits(D))
      /\ FieldsBelow(pack_eta(s.s1), 2 * ETA + 1)
      /\ FieldsBelow(pack_eta(s.s2), 2 * ETA + 1)
  <2>1. t = TOf(rho, s)
    OBVIOUS
  <2> HIDE DEF t
  <2> QED BY <2>1, KeyUnpacks
<1>3. /\ pk.t1 = t1 /\ sk.t0 = polyvec_bit_pack_t0(t0)
      /\ sk.s1 = pack_eta(s.s1) /\ sk.s2 = pack_eta(s.s2)
  BY <1>1
<1> HIDE DEF t1, t0
<1> QED BY <1>2, <1>3

(* Every polynomial of a key is one.                                       *)
LEMMA KeyPolysAre ==
  ASSUME MlDsaRingAssumption, MlDsaAssumption, KeyMade
  PROVE  KeyPolys \subseteq Polys
<1>1. PICK rho \in Rhos, s \in Secrets :
        /\ pk = [rho |-> rho, t1 |-> HighOf(TOf(rho, s))]
        /\ sk = [rho |-> rho, tr |-> Tr(rho, HighOf(TOf(rho, s))), s1 |-> pack_eta(s.s1),
                 s2 |-> pack_eta(s.s2), t0 |-> polyvec_bit_pack_t0(LowOf(TOf(rho, s)))]
  BY DEF KeyMade
<1> DEFINE t == TOf(rho, s)
           a == unpack_eta(sk.s1)
           b == unpack_eta(sk.s2)
           c == polyvec_bit_unpack_t0(sk.t0)
           d == polyvec_scale_2d(pk.t1)
<1>2. /\ unpack_eta(pack_eta(s.s1)) = s.s1 /\ unpack_eta(pack_eta(s.s2)) = s.s2
      /\ s.s1 \in Vectors(L) /\ s.s2 \in Vectors(K)
      /\ polyvec_bit_unpack_t0(polyvec_bit_pack_t0(LowOf(t))) = LowOf(t)
      /\ LowOf(t) \in Vectors(K) /\ polyvec_scale_2d(HighOf(t)) \in Vectors(K)
  <2>1. t = TOf(rho, s)
    OBVIOUS
  <2> HIDE DEF t
  <2> QED BY <2>1, KeyUnpacks
<1>3. /\ pk.t1 = HighOf(t) /\ sk.t0 = polyvec_bit_pack_t0(LowOf(t))
      /\ sk.s1 = pack_eta(s.s1) /\ sk.s2 = pack_eta(s.s2)
  BY <1>1
<1> HIDE DEF t
<1>4. a \in Vectors(L) /\ b \in Vectors(K) /\ c \in Vectors(K) /\ d \in Vectors(K)
  BY <1>2, <1>3
<1> HIDE DEF a, b, c, d
<1>5. KeyPolys = UNION {{v[i] : i \in DOMAIN v} : v \in {a, b, c, d}}
  BY DEF KeyPolys, a, b, c, d
<1>6. \A v \in {a, b, c, d} : \A i \in DOMAIN v : v[i] \in Polys
  BY <1>4 DEF Vectors
<1> QED BY <1>5, <1>6

-----------------------------------------------------------------------------
(* What sign returns, verify accepts.                                      *)

(* The transform of z.                                                     *)
LEMMA ZThere ==
  ASSUME MlDsaRingAssumption, NEW n \in Nat, NEW y \in Vectors(n), NEW s \in Vectors(n),
         NEW c \in Polys
  PROVE  /\ VecAdd(y, TimesPoly(c, s)) \in Vectors(n)
         /\ nttVec(VecAdd(y, TimesPoly(c, s)))
              = Mixed(n, nttVec(y), ScaleBy(Square, ntt(c)), nttVec(s))
<1> DEFINE a == ntt(c)
           b == ScaleBy(Square, a)
           e == TimesPoly(c, s)
           z == VecAdd(y, e)
<1>1. a \in Polys /\ Square \in Field /\ 0 \in Field
  BY Transforms, SquareIs, Ring, SMT DEF Field
<1>2. e \in Vectors(n) /\ e = [i \in 1 .. n |-> intt(pointwise_montgomery(a, ntt(s[i])))]
  BY TimesPolyIs
<1> HIDE DEF e
<1>3. z \in Vectors(n) /\ z = [i \in 1 .. n |-> PolyAdd(y[i], e[i])]
  BY <1>2, VecAddIn
<1> HIDE DEF z
<1>4. nttVec(z) = [i \in 1 .. n |-> ntt(z[i])]
  BY <1>1, <1>3, VecIs
<1>5. nttVec(y) = [i \in 1 .. n |-> ntt(y[i])] /\ nttVec(s) = [i \in 1 .. n |-> ntt(s[i])]
  BY <1>1, VecIs
<1> HIDE DEF a
<1>6. ASSUME NEW i \in 1 .. n
      PROVE  ntt(z[i]) = PolyAdd(ntt(y[i]), pointwise_montgomery(b, ntt(s[i])))
  <2> DEFINE f == ntt(s[i])
             g == pointwise_montgomery(a, f)
  <2>1. y[i] \in Polys /\ s[i] \in Polys
    BY DEF Vectors
  <2>2. f \in Polys
    BY <2>1, Transforms
  <2>3. g \in Polys
    BY <1>1, <2>2, PolyOps
  <2>4. e[i] = intt(g) /\ z[i] = PolyAdd(y[i], intt(g))
    BY <1>2, <1>3
  <2>5. ScaleBy(Square, g) = pointwise_montgomery(b, f)
    BY <1>1, <2>2, PointwiseLinear
  <2> HIDE DEF g
  <2>6. intt(g) \in Polys /\ ntt(intt(g)) = ScaleBy(Square, g)
    BY <2>3, Transforms, BackAndThere
  <2>7. ntt(PolyAdd(y[i], intt(g))) = PolyAdd(ntt(y[i]), ntt(intt(g)))
    BY <1>1, <2>1, <2>6, NttLinear
  <2> QED BY <2>4, <2>5, <2>6, <2>7
<1>7. nttVec(z) = Mixed(n, nttVec(y), b, nttVec(s))
  BY <1>4, <1>5, <1>6 DEF Mixed
<1> QED BY <1>3, <1>7 DEF z, e, b, a

(* What the verifier rounds is w less cs2 and plus ct0.                    *)
LEMMA RoughIs ==
  ASSUME MlDsaRingAssumption, MlDsaAssumption, NEW rho \in Rhos, NEW s \in Secrets,
         NEW y \in Vectors(L), NEW c \in Polys, NEW t, t = TOf(rho, s)
  PROVE  inttVec(VecSub(multiply_vector(ExpandA(rho),
                                        nttVec(VecAdd(y, TimesPoly(c, s.s1)))),
                        poly_mul_polyvec(ntt(c), nttVec(polyvec_scale_2d(HighOf(t))))))
           = VecAdd(VecSub(Times(ExpandA(rho), y), TimesPoly(c, s.s2)),
                    TimesPoly(c, LowOf(t)))
<1> DEFINE A == ExpandA(rho)
           s1 == s.s1
           s2 == s.s2
           z == VecAdd(y, TimesPoly(c, s1))
           zh == nttVec(z)
           t0 == LowOf(t)
           g == VecSub(t, t0)
           a == ntt(c)
           m == multiply_vector(A, zh)
           x == poly_mul_polyvec(a, nttVec(g))
           yh == nttVec(y)
           sh == nttVec(s1)
<1>1. K \in Nat /\ L \in Nat
  BY Sizes2
<1>2. s1 \in Vectors(L)
  BY <1>1, TIn, SecretIs
<1>3. s2 \in Vectors(K)
  BY <1>1, TIn, SecretIs
<1>4. t \in Vectors(K)
  BY TIn
<1>5. t0 \in Vectors(K) /\ polyvec_scale_2d(HighOf(t)) = g
  BY <1>4, TKept
<1>6. A \in [1 .. K -> Vectors(L)] /\ DOMAIN A = 1 .. K /\ \A i \in 1 .. K : A[i] \in [1 .. L -> Polys]
  BY MatrixIs
<1>7. a \in Polys
  BY Transforms
<1>8. t = VecAdd(Times(A, s1), s2)
  BY DEF TOf
<1>9. Times(A, s1) \in Vectors(K) /\ Times(A, s1) = [i \in 1 .. K |-> intt(RowTimes(A[i], sh))]
  BY <1>2, TimesIn
<1>10. Times(A, y) \in Vectors(K) /\ Times(A, y) = [i \in 1 .. K |-> intt(RowTimes(A[i], yh))]
  BY TimesIn
<1>11. yh \in Vectors(L) /\ yh \in [1 .. L -> Polys]
  BY <1>1, NttVec DEF Vectors
<1>12. sh \in Vectors(L) /\ sh \in [1 .. L -> Polys]
  BY <1>1, <1>2, NttVec DEF Vectors
<1>13. z \in Vectors(L) /\ zh = Mixed(L, yh, ScaleBy(Square, a), sh)
  BY <1>1, <1>2, ZThere
<1> HIDE DEF s1, s2, t0, sh, yh, A
<1>14. zh \in Vectors(L)
  <2> HIDE DEF z
  <2> QED BY <1>1, <1>13, NttVec
<1> HIDE DEF z, zh
<1>15. g \in Vectors(K) /\ g = [i \in 1 .. K |-> PolySub(t[i], t0[i])]
  BY <1>1, <1>4, <1>5, VecAddIn
<1>16. t = [i \in 1 .. K |-> PolyAdd(intt(RowTimes(A[i], sh)), s2[i])]
  <2>1. t = [i \in 1 .. K |-> PolyAdd(Times(A, s1)[i], s2[i])]
    BY <1>1, <1>3, <1>8, <1>9, VecAddIn
  <2> QED BY <1>9, <2>1
<1> HIDE DEF g
<1>17. x = [i \in 1 .. K |-> pointwise_montgomery(a, ntt(g[i]))]
  BY <1>1, <1>15, TimesPolyIs
<1>18. nttVec(g) \in Vectors(K)
  BY <1>1, <1>15, NttVec
<1>19. x \in Vectors(K)
  BY <1>1, <1>7, <1>18, PolyTimesIn
<1>20. m = [i \in 1 .. K |-> RowTimes(A[i], zh)] /\ m \in Vectors(K)
  <2>1. m = [i \in 1 .. K |-> RowTimes(A[i], zh)]
    BY <1>6, EvaluatedIs DEF multiply_vector, OnVec, Entries, RowTimes
  <2>2. m \in Vectors(K)
    BY <1>1, <1>6, <1>14, MultiplyIn
  <2> QED BY <2>1, <2>2
<1> HIDE DEF m, x
<1> DEFINE d == VecSub(m, x)
<1>21. d \in Vectors(K) /\ d = [i \in 1 .. K |-> PolySub(m[i], x[i])]
  BY <1>1, <1>19, <1>20, VecAddIn
<1> HIDE DEF d
<1>22. inttVec(d) = [i \in 1 .. K |-> intt(d[i])]
  BY <1>1, <1>7, <1>21, VecIs
<1> DEFINE w == Times(A, y)
           cs2 == TimesPoly(c, s2)
           ct0 == TimesPoly(c, t0)
           e == VecSub(w, cs2)
<1>23. cs2 \in Vectors(K) /\ cs2 = [i \in 1 .. K |-> intt(pointwise_montgomery(a, ntt(s2[i])))]
  BY <1>1, <1>3, TimesPolyIs
<1>24. ct0 \in Vectors(K) /\ ct0 = [i \in 1 .. K |-> intt(pointwise_montgomery(a, ntt(t0[i])))]
  BY <1>1, <1>5, TimesPolyIs
<1> HIDE DEF w, cs2, ct0
<1>25. w \in Vectors(K) /\ w = [i \in 1 .. K |-> intt(RowTimes(A[i], yh))]
  BY <1>10 DEF w
<1>26. e \in Vectors(K) /\ e = [i \in 1 .. K |-> PolySub(w[i], cs2[i])]
  BY <1>1, <1>23, <1>25, VecAddIn
<1> HIDE DEF e
<1>27. VecAdd(e, ct0) = [i \in 1 .. K |-> PolyAdd(e[i], ct0[i])]
  BY <1>1, <1>24, <1>26, VecAddIn
<1> HIDE DEF a
<1>28. ASSUME NEW i \in 1 .. K PROVE intt(d[i]) = PolyAdd(e[i], ct0[i])
  <2> DEFINE row == A[i]
             b == s2[i]
             f == t0[i]
             r == g[i]
  <2>1. row \in Vectors(L) /\ b \in Polys /\ f \in Polys
    BY <1>3, <1>5, <1>6 DEF Vectors
  <2>2. r = PolySub(PolyAdd(intt(RowTimes(row, sh)), b), f)
    BY <1>15, <1>16
  <2>3. d[i] = PolySub(RowTimes(row, zh), pointwise_montgomery(a, ntt(r)))
    BY <1>17, <1>20, <1>21
  <2>4. e[i] = PolySub(intt(RowTimes(row, yh)), intt(pointwise_montgomery(a, ntt(b))))
        /\ ct0[i] = intt(pointwise_montgomery(a, ntt(f)))
    BY <1>23, <1>24, <1>25, <1>26
  <2> HIDE DEF row, b, f, r
  <2>5. intt(PolySub(RowTimes(row, zh), pointwise_montgomery(a, ntt(r))))
          = PolyAdd(PolySub(intt(RowTimes(row, yh)), intt(pointwise_montgomery(a, ntt(b)))),
                    intt(pointwise_montgomery(a, ntt(f))))
    <3>1. /\ L \in Nat /\ a \in Polys /\ yh \in Vectors(L) /\ sh \in Vectors(L)
          /\ zh = Mixed(L, yh, ScaleBy(Square, a), sh)
      BY <1>1, <1>7, <1>11, <1>12, <1>13
    <3> QED BY ONLY <2>1, <2>2, <3>1, RowVerifies, MlDsaRingAssumption
  <2> QED BY <2>3, <2>4, <2>5
<1>29. inttVec(d) = VecAdd(e, ct0)
  BY <1>22, <1>27, <1>28
<1> QED BY <1>5, <1>29 DEF d, m, x, zh, z, e, w, cs2, ct0, s1, s2, t0, a, A

(* What is not refused.                                                    *)
LEMMA NoLeak ==
  ASSUME MlDsaRingAssumption, MlDsaAssumption, NEW z \in Vectors(L), NEW u \in Vectors(K),
         ~ Leaks(z, low_bits_vec(u))
  PROVE  /\ inf_norm_vec(z) < GAMMA1 - BETA
         /\ \A i \in 1 .. L, j \in Index : SignedIn(z[i][j], GAMMA1 - 1, GAMMA1)
         /\ \A i \in 1 .. K, j \in Index :
              /\ BETA - GAMMA2 < decompose(u[i][j])[2]
              /\ decompose(u[i][j])[2] < GAMMA2 - BETA
<1>1. /\ GAMMA1 \in Nat /\ GAMMA2 \in Nat /\ GAMMA1 > 0 /\ BETA \in Nat
      /\ BETA < GAMMA1 /\ BETA < GAMMA2
  <2>1. GAMMA1 \in Nat \ {0} /\ GAMMA2 \in Nat
    BY DEF MlDsaRingAssumption
  <2>2. TAU \in Nat /\ ETA \in Nat /\ BETA = TAU * ETA /\ BETA < GAMMA2 /\ BETA < GAMMA1
    BY DEF MlDsaAssumption
  <2>3. TAU * ETA \in Nat
    BY <2>2, SMT
  <2> QED BY <2>1, <2>2, <2>3, SMT
<1>2. K \in Nat /\ L \in Nat /\ K > 0 /\ L > 0
  BY Sizes2
<1> DEFINE l == low_bits_vec(u)
<1>3. DOMAIN u = 1 .. K /\ \A i \in 1 .. K, j \in Index : u[i][j] \in Field
  BY DEF Vectors, Polys
<1>4. l = [i \in 1 .. K |-> [j \in Index |-> Lift(decompose(u[i][j])[2])]]
  BY <1>3, EvaluatedIs DEF low_bits_vec, Coeffwise, OnVec, Entries, Coeffs
<1>5. l \in Vectors(K)
  BY <1>3, <1>4, LowField DEF Vectors, Polys
<1> HIDE DEF l
<1>6. inf_norm_vec(z) \in Int /\ inf_norm_vec(l) \in Int
  BY <1>2, <1>5, NormInt
<1>7. ~ (inf_norm_vec(z) >= GAMMA1 - BETA) /\ ~ (inf_norm_vec(l) >= GAMMA2 - BETA)
  BY DEF Leaks, l
<1>8. inf_norm_vec(z) < GAMMA1 - BETA /\ inf_norm_vec(l) < GAMMA2 - BETA
  <2> DEFINE a == inf_norm_vec(z)
             b == inf_norm_vec(l)
  <2>1. a \in Int /\ b \in Int /\ ~ (a >= GAMMA1 - BETA) /\ ~ (b >= GAMMA2 - BETA)
    BY <1>6, <1>7
  <2> HIDE DEF a, b
  <2>2. a < GAMMA1 - BETA /\ b < GAMMA2 - BETA
    BY <1>1, <2>1, SMT
  <2> QED BY <2>2 DEF a, b
<1>9. ASSUME NEW i \in 1 .. L, NEW j \in Index
      PROVE  SignedIn(z[i][j], GAMMA1 - 1, GAMMA1)
  <2> DEFINE m == GAMMA1 - BETA
             x == fq_to_signed(z[i][j])
  <2>1. m \in Int /\ inf_norm_vec(z) < m
    BY <1>1, <1>8, SMT
  <2> HIDE DEF m
  <2>2. z[i][j] = Lift(x) /\ x \in -(m - 1) .. m - 1
    BY <1>2, <2>1, NormWithin
  <2> HIDE DEF x
  <2>3. x \in Int /\ -(GAMMA1 - 1) <= x /\ x <= GAMMA1
    BY <1>1, <2>1, <2>2, SMT DEF m
  <2> QED BY <2>2, <2>3 DEF SignedIn
<1>10. ASSUME NEW i \in 1 .. K, NEW j \in Index
       PROVE  BETA - GAMMA2 < decompose(u[i][j])[2] /\ decompose(u[i][j])[2] < GAMMA2 - BETA
  <2> DEFINE m == GAMMA2 - BETA
             x == u[i][j]
             y == decompose(x)[2]
  <2>1. m \in Int /\ inf_norm_vec(l) < m
    BY <1>1, <1>8, SMT
  <2> HIDE DEF m
  <2>2. Abs(fq_to_signed(l[i][j])) < m
    BY <1>2, <1>5, <2>1, NormIs
  <2>3. x \in Field /\ l[i][j] = Lift(decompose(x)[2])
    BY <1>3, <1>4
  <2> HIDE DEF x
  <2>4. -m < y /\ y < m
    BY <2>1, <2>2, <2>3, LowIs
  <2>5. InBucket(decompose(x)[1], y)
    BY <2>3, BucketIs
  <2> HIDE DEF y
  <2>6. y \in Int
    BY <2>5 DEF InBucket
  <2>7. BETA - GAMMA2 < y /\ y < GAMMA2 - BETA
    BY <1>1, <2>4, <2>6, SMT DEF m
  <2> QED BY <2>7 DEF x, y
<1> QED BY <1>8, <1>9, <1>10

(* z survives its encoding.                                                *)
LEMMA ZKept ==
  ASSUME MlDsaRingAssumption, MlDsaAssumption, NEW z \in Vectors(L),
         \A i \in 1 .. L, j \in Index : SignedIn(z[i][j], GAMMA1 - 1, GAMMA1)
  PROVE  /\ polyvec_bit_unpack_z(polyvec_bit_pack_z(z)) = z
         /\ FieldsBelow(polyvec_bit_pack_z(z), 2 * GAMMA1)
<1> DEFINE a == GAMMA1 - 1
           b == GAMMA1
           n == 2 * GAMMA1 - 1
           m == Bits(bitlen(n))
<1>1. b \in Nat /\ b > 0 /\ 2 * b < Q /\ Q \in Int /\ m \in n + 1 .. 2 * n
  <2>1. GAMMA1 \in Nat \ {0} /\ 2 * GAMMA1 < Q
    BY DEF MlDsaRingAssumption
  <2>2. m \in n + 1 .. 2 * n
    BY DEF MlDsaRingAssumption
  <2> HIDE DEF m
  <2> QED BY <2>1, <2>2, FieldInt, SMT
<1> HIDE DEF m
<1>2. a \in Nat /\ a + b = n /\ n \in Nat /\ a + b < Q /\ a + b + 1 = 2 * b
  BY <1>1, SMT
<1>3. SignedVec(z, L, a, b)
  <2>1. z = [i \in 1 .. L |-> [j \in Index |-> z[i][j]]]
    BY DEF Vectors, Polys
  <2> QED BY <2>1 DEF SignedVec
<1> HIDE DEF a, n
<1>4. m \in Nat /\ n < m
  BY <1>1, <1>2, SMT
<1>5. m = Bits(bitlen(a + b))
  BY <1>2 DEF m
<1> HIDE DEF b
<1>6. L \in Nat
  BY Sizes2
<1>7. FieldsBelow(bit_pack(z, a, b), a + b + 1) /\ bit_unpack(bit_pack(z, a, b), a) = z
  <2>1. Bits(bitlen(a + b)) \in Nat /\ a + b < Bits(bitlen(a + b))
    BY <1>2, <1>4, <1>5
  <2> QED BY ONLY <1>1, <1>2, <1>3, <1>6, <2>1, PackVec, MlDsaRingAssumption
<1> QED BY <1>2, <1>7 DEF a, b, polyvec_bit_pack_z, polyvec_bit_unpack_z

(* The hint for ct0 makes up for it: the verifier rounds to what the       *)
(* signer rounded w to.                                                    *)
THEOREM RoundingAgrees ==
  ASSUME MlDsaRingAssumption, MlDsaAssumption, NEW n \in Nat, n > 0,
         NEW w \in Vectors(n), NEW e \in Vectors(n), NEW d \in Vectors(n),
         \A i \in 1 .. n, j \in Index : Within(e[i][j], BETA),
         NEW u, u = VecSub(w, e), NEW x, x = VecAdd(u, d),
         \A i \in 1 .. n, j \in Index :
           /\ BETA - GAMMA2 < decompose(u[i][j])[2]
           /\ decompose(u[i][j])[2] < GAMMA2 - BETA,
         inf_norm_vec(d) < GAMMA2,
         NEW h, h = make_hint_vec(polyvec_neg(d), x)
  PROVE  h \in Hints(n) /\ use_hint_vec(h, x) = high_bits_vec(w)
<1> DEFINE m(i, j) == make_hint_coeff(IF d[i][j] = 0 THEN 0 ELSE Q - d[i][j], Add(u[i][j], d[i][j]))
<1>1. GAMMA2 \in Int /\ BETA \in Nat
  <2>1. GAMMA2 \in Nat
    BY DEF MlDsaRingAssumption
  <2>2. TAU \in Nat /\ ETA \in Nat /\ BETA = TAU * ETA
    BY DEF MlDsaAssumption
  <2> QED BY <2>1, <2>2, SMT
<1>2. u \in Vectors(n) /\ u = [i \in 1 .. n |-> PolySub(w[i], e[i])]
  BY VecAddIn
<1>3. x \in Vectors(n) /\ x = [i \in 1 .. n |-> PolyAdd(u[i], d[i])]
  BY <1>2, VecAddIn
<1>4. /\ DOMAIN d = 1 .. n /\ DOMAIN w = 1 .. n /\ DOMAIN x = 1 .. n
      /\ \A i \in 1 .. n, j \in Index :
           /\ w[i][j] \in Field /\ e[i][j] \in Field /\ d[i][j] \in Field
           /\ u[i][j] \in Field
  BY <1>2, <1>3 DEF Vectors, Polys
<1>5. \A i \in 1 .. n, j \in Index :
        u[i][j] = Sub(w[i][j], e[i][j]) /\ x[i][j] = Add(u[i][j], d[i][j])
  BY <1>2, <1>3, PolyIs
<1> DEFINE neg == polyvec_neg(d)
<1>6. neg = [i \in 1 .. n |-> [j \in Index |-> IF d[i][j] = 0 THEN 0 ELSE Q - d[i][j]]]
  BY <1>4, EvaluatedIs DEF polyvec_neg, Coeffwise, OnVec, Entries, Coeffs
<1>7. h = [i \in 1 .. n |-> [j \in Index |-> make_hint_coeff(neg[i][j], x[i][j])]]
  <2>1. DOMAIN neg = 1 .. n
    BY <1>6
  <2> HIDE DEF neg
  <2>2. make_hint_vec(neg, x)
          = [i \in 1 .. n |-> [j \in Index |-> make_hint_coeff(neg[i][j], x[i][j])]]
    BY <2>1, EvaluatedIs DEF make_hint_vec, OnVecs, Entries, Coeffs
  <2> QED BY <2>2 DEF neg
<1> HIDE DEF neg
<1>8. \A i \in 1 .. n, j \in Index : h[i][j] = m(i, j)
  BY <1>5, <1>6, <1>7
<1>9. ASSUME NEW i \in 1 .. n, NEW j \in Index
      PROVE  /\ m(i, j) \in {0, 1}
             /\ use_hint_coeff(m(i, j), x[i][j]) = decompose(w[i][j])[1]
  <2> DEFINE a == u[i][j]
             c == d[i][j]
             f == w[i][j]
             g == e[i][j]
  <2>1. a \in Field /\ c \in Field /\ f \in Field /\ g \in Field
        /\ a = Sub(f, g) /\ x[i][j] = Add(a, c)
    BY <1>4, <1>5
  <2>2. Within(c, GAMMA2 - 1)
    BY <1>1, NormWithin
  <2>3. Within(g, BETA) /\ BETA - GAMMA2 < decompose(a)[2] /\ decompose(a)[2] < GAMMA2 - BETA
    OBVIOUS
  <2> DEFINE r == decompose(a)[2]
  <2>4. r > BETA - GAMMA2 /\ r < GAMMA2 - BETA
    <3>1. InBucket(decompose(a)[1], r)
      <4> HIDE DEF a
      <4> QED BY <2>1, BucketIs
    <3>2. r \in Int
      <4> HIDE DEF r
      <4> QED BY <3>1 DEF InBucket
    <3> QED BY <2>3, <3>2, SMT
  <2> HIDE DEF a, c, f, g
  <2>5. decompose(f)[1] = decompose(a)[1]
    BY <1>1, <2>1, <2>3, <2>4, LowStable
  <2>6. /\ make_hint_coeff(IF c = 0 THEN 0 ELSE Q - c, Add(a, c)) \in {0, 1}
        /\ use_hint_coeff(make_hint_coeff(IF c = 0 THEN 0 ELSE Q - c, Add(a, c)), Add(a, c))
              = decompose(a)[1]
    BY <2>1, <2>2, HintTakesBack
  <2> QED BY <2>1, <2>5, <2>6 DEF a, c, f
<1> HIDE DEF m
<1>10. h \in Hints(n)
  <2>1. h = [i \in 1 .. n |-> [j \in Index |-> h[i][j]]]
    BY <1>7
  <2>2. \A i \in 1 .. n, j \in Index : h[i][j] \in {0, 1}
    BY <1>8, <1>9
  <2> QED BY <2>1, <2>2 DEF Hints
<1>11. DOMAIN h = 1 .. n
  BY <1>7
<1>12. use_hint_vec(h, x)
         = [i \in 1 .. n |-> [j \in Index |-> use_hint_coeff(h[i][j], x[i][j])]]
  BY <1>11, EvaluatedIs DEF use_hint_vec, OnVecs, Entries, Coeffs
<1>13. high_bits_vec(w) = [i \in 1 .. n |-> [j \in Index |-> decompose(w[i][j])[1]]]
  BY <1>4, EvaluatedIs DEF high_bits_vec, Coeffwise, OnVec, Entries, Coeffs
<1>14. \A i \in 1 .. n, j \in Index :
         use_hint_coeff(h[i][j], x[i][j]) = decompose(w[i][j])[1]
  BY <1>8, <1>9
<1> QED BY <1>10, <1>12, <1>13, <1>14

(* A hint that fits is found by the verifier.                              *)
LEMMA NotUnhintable ==
  ASSUME MlDsaRingAssumption, MlDsaAssumption, NEW d \in Vectors(K), NEW h,
         ~ Unhintable(d, h)
  PROVE  inf_norm_vec(d) < GAMMA2 /\ (h \in Hints(K) => HintCount(h) <= OMEGA)
<1>1. K \in Nat /\ K > 0 /\ GAMMA2 \in Nat /\ OMEGA \in Nat
  <2>1. GAMMA2 \in Nat /\ OMEGA \in Nat
    BY DEF MlDsaRingAssumption
  <2> QED BY <2>1, Sizes2
<1>2. inf_norm_vec(d) \in Int
  BY <1>1, NormInt
<1>3. ~ (inf_norm_vec(d) >= GAMMA2) /\ ~ (HintCount(h) > OMEGA)
  BY DEF Unhintable
<1>4. inf_norm_vec(d) < GAMMA2
  <2> DEFINE a == inf_norm_vec(d)
  <2>1. a \in Int /\ ~ (a >= GAMMA2)
    BY <1>2, <1>3
  <2> HIDE DEF a
  <2>2. a < GAMMA2
    BY <1>1, <2>1, SMT
  <2> QED BY <2>2 DEF a
<1>5. ASSUME h \in Hints(K) PROVE HintCount(h) <= OMEGA
  <2> DEFINE a == HintCount(h)
  <2>1. a \in Nat
    BY <1>1, <1>5, OnesAre, FS_CardinalityType
  <2> HIDE DEF a
  <2>2. ~ (a > OMEGA)
    BY <1>3 DEF a
  <2>3. a <= OMEGA
    BY <1>1, <2>1, <2>2, SMT
  <2> QED BY <2>3 DEF a
<1> QED BY <1>4, <1>5

(* What verify makes of z, the challenge and t1, before the hint is used.  *)
Rough(key, s) ==
  inttVec(VecSub(multiply_vector(ExpandA(key.rho), nttVec(polyvec_bit_unpack_z(s.z))),
                 poly_mul_polyvec(ntt(sample_in_ball(s.c_tilde).c),
                                  nttVec(polyvec_scale_2d(key.t1)))))

(* What an attempt computes.                                               *)
YOf(masks) == polyvec_bit_unpack_z(masks)

WOf(masks) == Times(ExpandA(sk.rho), YOf(masks))

CtOf(masks) == CTilde(Mu(sk.tr, request), high_bits_vec(WOf(masks)))

BallOf(masks) == sample_in_ball(CtOf(masks))

ZOf(masks) == VecAdd(YOf(masks), TimesPoly(BallOf(masks).c, unpack_eta(sk.s1)))

UOf(masks) == VecSub(WOf(masks), TimesPoly(BallOf(masks).c, unpack_eta(sk.s2)))

DOf(masks) == TimesPoly(BallOf(masks).c, polyvec_bit_unpack_t0(sk.t0))

HOf(masks) == make_hint_vec(polyvec_neg(DOf(masks)), VecAdd(UOf(masks), DOf(masks)))

SigOf(masks) == [c_tilde |-> CtOf(masks), z |-> polyvec_bit_pack_z(ZOf(masks)),
                 h |-> hint_bit_pack(HOf(masks))]

(* What sign returns, verify accepts.                                      *)
LEMMA AttemptValid ==
  ASSUME MlDsaRingAssumption, MlDsaAssumption, StreamsOfBytes, KeyMade,
         Refused(request) = "no", NEW masks \in [1 .. L -> MaskPolys], BallOf(masks).ok,
         ~ Leaks(ZOf(masks), low_bits_vec(UOf(masks))), ~ Unhintable(DOf(masks), HOf(masks))
  PROVE  /\ verify(pk, request, SigOf(masks)) = "valid"
         /\ FieldsBelow(SigOf(masks).z, 2 * GAMMA1) /\ SigOf(masks).h \in HintBytes
<1>1. PICK rho \in Rhos, s \in Secrets :
        /\ pk = [rho |-> rho, t1 |-> HighOf(TOf(rho, s))]
        /\ sk = [rho |-> rho, tr |-> Tr(rho, HighOf(TOf(rho, s))), s1 |-> pack_eta(s.s1),
                 s2 |-> pack_eta(s.s2), t0 |-> polyvec_bit_pack_t0(LowOf(TOf(rho, s)))]
  BY DEF KeyMade
<1> DEFINE t == TOf(rho, s)
           y == YOf(masks)
           w == WOf(masks)
           ct == CtOf(masks)
           ball == BallOf(masks)
           c == ball.c
           z == ZOf(masks)
           u == UOf(masks)
           d == DOf(masks)
           h == HOf(masks)
           x == VecAdd(u, d)
           e == TimesPoly(c, s.s2)
           A == ExpandA(rho)
<1>2. /\ unpack_eta(pack_eta(s.s1)) = s.s1 /\ unpack_eta(pack_eta(s.s2)) = s.s2
      /\ s.s1 \in Vectors(L) /\ s.s2 \in Vectors(K) /\ t \in Vectors(K)
      /\ polyvec_bit_unpack_t0(polyvec_bit_pack_t0(LowOf(t))) = LowOf(t)
      /\ LowOf(t) \in Vectors(K)
  <2>1. t = TOf(rho, s)
    OBVIOUS
  <2> HIDE DEF t
  <2> QED BY <2>1, KeyUnpacks
<1>3. /\ pk.t1 = HighOf(t) /\ pk.rho = rho /\ sk.t0 = polyvec_bit_pack_t0(LowOf(t))
      /\ sk.s1 = pack_eta(s.s1) /\ sk.s2 = pack_eta(s.s2) /\ sk.rho = rho
      /\ sk.tr = Tr(rho, HighOf(t))
  BY <1>1
<1>4. K \in Nat /\ L \in Nat /\ K > 0 /\ L > 0
  BY Sizes2
<1>5. y \in Vectors(L)
  <2>1. DOMAIN masks = 1 .. L
    OBVIOUS
  <2>2. FieldsBelow(masks, 2 * GAMMA1)
    <3>1. MaskPolys \subseteq [Index -> 0 .. 2 * GAMMA1 - 1]
      BY DEF MlDsaAssumption
    <3> QED BY <3>1 DEF FieldsBelow
  <2> QED BY <1>4, <2>1, <2>2, UnpackZ DEF YOf
<1>6. w = Times(A, y) /\ w \in Vectors(K)
  <2>1. w = Times(A, y)
    BY <1>3 DEF WOf
  <2> HIDE DEF y, w
  <2> QED BY <1>5, <2>1, TimesIn
<1>7. c \in Polys /\ Sparse(c, TAU)
  <2>1. ball = sample_in_ball(ct)
    BY DEF BallOf
  <2> HIDE DEF ball, ct
  <2> QED BY <2>1, BallIn, BallSparse
<1>8. /\ z = VecAdd(y, TimesPoly(c, s.s1)) /\ u = VecSub(w, e)
      /\ d = TimesPoly(c, LowOf(t)) /\ h = make_hint_vec(polyvec_neg(d), x)
  BY <1>2, <1>3 DEF ZOf, UOf, DOf, HOf
<1>9. /\ SigOf(masks).c_tilde = ct /\ SigOf(masks).z = polyvec_bit_pack_z(z)
      /\ SigOf(masks).h = hint_bit_pack(h) /\ ct = CTilde(Mu(sk.tr, request), high_bits_vec(w))
      /\ ball = sample_in_ball(ct) /\ ball.ok
  BY DEF SigOf, CtOf, BallOf
<1>10. ~ Leaks(z, low_bits_vec(u)) /\ ~ Unhintable(d, h)
  OBVIOUS
<1> HIDE DEF y, w, c, ball, ct, z, u, d, h, t
<1>11. z \in Vectors(L)
  BY <1>2, <1>4, <1>5, <1>7, <1>8, ZThere
<1>12. s.s2 \in [1 .. K -> [Index -> Etas]]
  BY TIn
<1>13. e \in Vectors(K) /\ \A i \in 1 .. K, j \in Index : Within(e[i][j], BETA)
  <2>1. e \in Vectors(K)
    BY <1>2, <1>4, <1>7, TimesPolyIs
  <2>2. \A i \in 1 .. K, j \in Index : Within(TimesPoly(c, s.s2)[i][j], BETA)
    BY <1>4, <1>7, <1>12, SecretTimes
  <2> QED BY <2>1, <2>2
<1> HIDE DEF e
<1>14. d \in Vectors(K)
  BY <1>2, <1>4, <1>7, <1>8, TimesPolyIs
<1>15. u \in Vectors(K)
  BY <1>4, <1>6, <1>8, <1>13, VecAddIn
<1>16. /\ inf_norm_vec(z) < GAMMA1 - BETA
       /\ \A i \in 1 .. L, j \in Index : SignedIn(z[i][j], GAMMA1 - 1, GAMMA1)
       /\ \A i \in 1 .. K, j \in Index :
            /\ BETA - GAMMA2 < decompose(u[i][j])[2]
            /\ decompose(u[i][j])[2] < GAMMA2 - BETA
  BY <1>10, <1>11, <1>15, NoLeak
<1>17. /\ polyvec_bit_unpack_z(polyvec_bit_pack_z(z)) = z
       /\ FieldsBelow(polyvec_bit_pack_z(z), 2 * GAMMA1)
  BY <1>11, <1>16, ZKept
<1>18. inf_norm_vec(d) < GAMMA2 /\ (h \in Hints(K) => HintCount(h) <= OMEGA)
  BY <1>10, <1>14, NotUnhintable
<1>19. h \in Hints(K) /\ use_hint_vec(h, x) = high_bits_vec(w)
  <2>1. x = VecAdd(u, d)
    OBVIOUS
  <2> HIDE DEF x
  <2> QED BY <1>4, <1>6, <1>8, <1>13, <1>14, <1>16, <1>18, <2>1, RoundingAgrees
<1>20. /\ hint_bit_pack(h) \in [1 .. OMEGA + K -> Index]
       /\ hint_bit_unpack(hint_bit_pack(h), K) = h
       /\ hint_bit_unpack(hint_bit_pack(h), K) # NoHint
  BY <1>4, <1>18, <1>19, HintKept
<1> DEFINE sig == SigOf(masks)
<1>21. Rough(pk, sig) = x
  <2>1. inttVec(VecSub(multiply_vector(A, nttVec(z)),
                       poly_mul_polyvec(ntt(c), nttVec(polyvec_scale_2d(HighOf(t))))))
          = VecAdd(VecSub(Times(A, y), e), d)
    <3>1. t = TOf(rho, s)
      BY DEF t
    <3> HIDE DEF A
    <3> QED BY <1>5, <1>7, <1>8, <3>1, RoughIs DEF A, e
  <2>2. Rough(pk, sig)
          = inttVec(VecSub(multiply_vector(A, nttVec(polyvec_bit_unpack_z(sig.z))),
                           poly_mul_polyvec(ntt(sample_in_ball(sig.c_tilde).c),
                                            nttVec(polyvec_scale_2d(HighOf(t))))))
    BY <1>3 DEF Rough
  <2>3. polyvec_bit_unpack_z(sig.z) = z /\ sample_in_ball(sig.c_tilde).c = c
    BY <1>9, <1>17 DEF c
  <2> HIDE DEF sig
  <2> QED BY <1>6, <1>8, <2>1, <2>2, <2>3
<1>22. /\ hint_bit_unpack(sig.h, K) = h /\ h # NoHint
       /\ sample_in_ball(sig.c_tilde).ok
       /\ inf_norm_vec(polyvec_bit_unpack_z(sig.z)) < GAMMA1 - BETA
       /\ CTilde(Mu(Tr(pk.rho, pk.t1), request), use_hint_vec(h, x)) = sig.c_tilde
  BY <1>3, <1>9, <1>16, <1>17, <1>19, <1>20
<1>23. ~ (inf_norm_vec(polyvec_bit_unpack_z(sig.z)) >= GAMMA1 - BETA)
  <2> DEFINE a == inf_norm_vec(polyvec_bit_unpack_z(sig.z))
             b == GAMMA1 - BETA
  <2>1. a \in Int
    BY <1>4, <1>9, <1>11, <1>17, NormInt
  <2>2. b \in Int /\ a < b
    <3>1. GAMMA1 \in Nat
      BY DEF MlDsaRingAssumption
    <3>2. TAU \in Nat /\ ETA \in Nat /\ BETA = TAU * ETA
      BY DEF MlDsaAssumption
    <3>3. BETA \in Nat
      BY <3>2, SMT
    <3> HIDE DEF sig
    <3>4. GAMMA1 - BETA \in Int
      BY <3>1, <3>3, SMT
    <3> QED BY <1>22, <3>4
  <2> HIDE DEF a, b
  <2>3. ~ (a >= b)
    BY <2>1, <2>2, SMT
  <2> QED BY <2>3 DEF a, b
<1> HIDE DEF sig, x
<1>24. verify_internal(pk, request, sig) = "valid"
  <2>1. verify_internal(pk, request, sig)
          = IF hint_bit_unpack(sig.h, K) = NoHint THEN "invalid"
            ELSE IF ~ sample_in_ball(sig.c_tilde).ok THEN "InternalError"
            ELSE IF inf_norm_vec(polyvec_bit_unpack_z(sig.z)) >= GAMMA1 - BETA THEN "invalid"
            ELSE IF CTilde(Mu(Tr(pk.rho, pk.t1), request),
                           use_hint_vec(hint_bit_unpack(sig.h, K), Rough(pk, sig))) = sig.c_tilde
                 THEN "valid" ELSE "invalid"
    BY DEF verify_internal, Rough
  <2> QED BY <1>21, <1>22, <1>23, <2>1
<1>25. verify(pk, request, sig) = "valid"
  BY <1>24 DEF verify
<1> QED BY <1>9, <1>17, <1>20, <1>25 DEF sig, HintBytes

(* The inductive invariant: the counters are in range, the keys are        *)
(* keygen's, what is being signed was not refused, and verify accepts what *)
(* sign returned.                                                          *)
Counters == kappa \in 0 .. NONCES - 1 /\ iter \in 0 .. MAX_ITER - 1

OutKept ==
  /\ FieldsBelow(out.z, 2 * GAMMA1) /\ out.h \in HintBytes
  /\ verify(pk, request, out) = "valid"

MadeInv ==
  /\ phase \in {"new", "keyed", "signing", "signed"} /\ Counters
  /\ phase # "new" => KeyMade
  /\ phase = "signing" => Refused(request) = "no"
  /\ phase = "signed" => OutKept

LEMMA MadeIsSigned ==
  ASSUME MlDsaRingAssumption, MlDsaAssumption, MadeInv
  PROVE  SignedVerifies
<1>1. phase # "new" => /\ FieldsBelow(pk.t1, Bits(T1Bits)) /\ FieldsBelow(sk.t0, Bits(D))
                       /\ FieldsBelow(sk.s1, 2 * ETA + 1) /\ FieldsBelow(sk.s2, 2 * ETA + 1)
  BY KeyTypes DEF MadeInv
<1> QED BY <1>1 DEF MadeInv, Counters, OutKept, SignedVerifies, MlDsaTypeOK

LEMMA MadeInit ==
  ASSUME MlDsaAssumption
  PROVE  Init => MadeInv
<1>1. NONCES \in Nat \ {0} /\ MAX_ITER \in Nat \ {0}
  BY DEF MlDsaAssumption
<1>2. 0 \in 0 .. NONCES - 1 /\ 0 \in 0 .. MAX_ITER - 1
  BY <1>1, SMT
<1> QED BY <1>2 DEF Init, MadeInv, Counters

(* keygen: the keys are made of the seed's matrix and of the secrets.      *)
LEMMA KeygenMade ==
  ASSUME MadeInv, NEW rho \in Rhos \ BadRhos, NEW s \in Secrets, Keygen(rho, s)
  PROVE  MadeInv'
<1> DEFINE t == TOf(rho, s)
           t1 == HighOf(t)
           t0 == polyvec_bit_pack_t0(LowOf(t))
<1>1. /\ phase' = "keyed" /\ UNCHANGED <<kappa, iter>>
      /\ pk' = [rho |-> rho, t1 |-> t1]
      /\ sk' = [rho |-> rho, tr |-> Tr(rho, t1), s1 |-> pack_eta(s.s1),
                s2 |-> pack_eta(s.s2), t0 |-> t0]
  BY DEF Keygen, TOf, HighOf, LowOf
<1>2. KeyMade'
  <2>1. rho \in Rhos
    OBVIOUS
  <2> QED BY <1>1, <2>1 DEF KeyMade
<1> QED BY <1>1, <1>2 DEF MadeInv, Counters

(* sign: a message that is too long ends the call at once.                 *)
LEMMA SignMade ==
  ASSUME MlDsaAssumption, MadeInv, NEW r \in Requests, Sign(r)
  PROVE  MadeInv'
<1>1. NONCES \in Nat \ {0} /\ MAX_ITER \in Nat \ {0}
  BY DEF MlDsaAssumption
<1>2. 0 \in 0 .. NONCES - 1 /\ 0 \in 0 .. MAX_ITER - 1
  BY <1>1, SMT
<1>3. /\ phase # "new" /\ UNCHANGED <<pk, sk>> /\ request' = r
      /\ kappa' = 0 /\ iter' = 0
      /\ \/ phase' = "signing" /\ Refused(r) = "no"
         \/ phase' = "keyed"
  BY DEF Sign
<1>4. KeyMade' /\ Counters'
  BY <1>2, <1>3 DEF MadeInv, KeyMade, Counters
<1>5. phase' = "signing" => Refused(request') = "no"
  BY <1>3
<1>6. phase' \in {"new", "keyed", "signing", "signed"} /\ phase' # "signed"
  BY <1>3
<1> QED BY <1>4, <1>5, <1>6 DEF MadeInv

(* The loop goes on with counters in range.                                *)
LEMMA LoopCounters ==
  ASSUME MlDsaAssumption, Counters, Reject, phase = "signing"
  PROVE  Counters' /\ phase' \in {"keyed", "signing"}
<1>1. NONCES \in Nat \ {0} /\ MAX_ITER \in Nat \ {0} /\ L \in Nat
  BY DEF MlDsaAssumption
<1>2. /\ kappa' = (kappa + L) % NONCES
      /\ \/ iter' = iter /\ phase' = "keyed"
         \/ iter + 1 # MAX_ITER /\ iter' = iter + 1 /\ phase' = phase
  BY DEF Reject, NextKappa, LastAttempt
<1>3. ((kappa + L) % NONCES) \in 0 .. NONCES - 1
  BY <1>1, SMT DEF Counters
<1>4. iter + 1 # MAX_ITER => iter + 1 \in 0 .. MAX_ITER - 1
  BY <1>1, SMT DEF Counters
<1> QED BY <1>2, <1>3, <1>4 DEF Counters

(* An attempt: what it returns, verify accepts (AttemptValid).             *)
LEMMA AttemptMade ==
  ASSUME MlDsaRingAssumption, MlDsaAssumption, StreamsOfBytes, MadeInv,
         NEW masks \in [1 .. L -> MaskPolys], Attempt(masks)
  PROVE  MadeInv'
<1> DEFINE sig == SigOf(masks)
           leaks == Leaks(ZOf(masks), low_bits_vec(UOf(masks)))
           unhintable == Unhintable(DOf(masks), HOf(masks))
<1>1. /\ phase = "signing" /\ UNCHANGED <<pk, sk, request>>
      /\ \/ Return(Error("InternalError"))
         \/ BallOf(masks).ok /\ Reject
         \/ BallOf(masks).ok /\ ~ leaks /\ ~ unhintable /\ Return(sig)
  BY DEF Attempt, SigOf, HOf, DOf, UOf, ZOf, BallOf, CtOf, WOf, YOf
<1>2. KeyMade /\ Refused(request) = "no" /\ Counters
  BY <1>1 DEF MadeInv
<1>3. KeyMade' /\ Refused(request') = "no"
  BY <1>1, <1>2 DEF KeyMade
<1>4. CASE Return(Error("InternalError"))
  <2>1. phase' = "keyed" /\ UNCHANGED <<kappa, iter>>
    BY <1>4 DEF Return, Error
  <2> QED BY <1>2, <1>3, <2>1 DEF MadeInv, Counters
<1>5. CASE Reject
  <2>1. Counters' /\ phase' \in {"keyed", "signing"}
    BY <1>1, <1>2, <1>5, LoopCounters
  <2> QED BY <1>3, <2>1 DEF MadeInv
<1>6. CASE BallOf(masks).ok /\ ~ leaks /\ ~ unhintable /\ Return(sig)
  <2>1. /\ verify(pk, request, sig) = "valid"
        /\ FieldsBelow(sig.z, 2 * GAMMA1) /\ sig.h \in HintBytes
    BY <1>2, <1>6, AttemptValid
  <2>2. "error" \notin DOMAIN sig
    BY DEF SigOf
  <2> HIDE DEF sig
  <2>3. phase' = "signed" /\ out' = sig /\ UNCHANGED <<kappa, iter>>
    BY <1>6, <2>2 DEF Return
  <2>4. verify(pk, request, out)' = verify(pk, request, sig)
    BY <1>1, <2>3
  <2>5. OutKept'
    BY <2>1, <2>3, <2>4 DEF OutKept
  <2> QED BY <1>2, <1>3, <2>3, <2>5 DEF MadeInv, Counters
<1> QED BY <1>1, <1>4, <1>5, <1>6

LEMMA MadeStep ==
  ASSUME MlDsaRingAssumption, MlDsaAssumption, StreamsOfBytes, MadeInv, [Next]_vars
  PROVE  MadeInv'
<1>1. ASSUME UNCHANGED <<phase, pk, sk, request, kappa, iter>>, phase = "signed" => UNCHANGED out
      PROVE  MadeInv'
  <2>1. KeyMade => KeyMade'
    BY <1>1 DEF KeyMade
  <2>2. phase = "signed" /\ OutKept => OutKept'
    <3>1. phase = "signed" => verify(pk, request, out)' = verify(pk, request, out)
      BY <1>1
    <3> QED BY <1>1, <3>1 DEF OutKept
  <2> QED BY <1>1, <2>1, <2>2 DEF MadeInv, Counters
<1>2. CASE UNCHANGED vars
  BY <1>1, <1>2 DEF vars
<1>3. CASE KeygenFails
  <2>1. phase = "new" /\ UNCHANGED <<phase, pk, sk, request, kappa, iter>>
    BY <1>3 DEF KeygenFails
  <2> QED BY <1>1, <2>1
<1>4. ASSUME NEW rho \in Rhos \ BadRhos, NEW s \in Secrets, Keygen(rho, s)
      PROVE  MadeInv'
  BY <1>4, KeygenMade
<1>5. ASSUME NEW r \in Requests, Sign(r)
      PROVE  MadeInv'
  BY <1>5, SignMade
<1>6. ASSUME NEW r, NEW s, Verify(r, s)
      PROVE  MadeInv'
  <2>1. UNCHANGED <<phase, pk, sk, request, kappa, iter, out>>
    BY <1>6 DEF Verify
  <2> QED BY <1>1, <2>1
<1>7. ASSUME NEW masks \in [1 .. L -> MaskPolys], Attempt(masks)
      PROVE  MadeInv'
  BY <1>7, AttemptMade
<1> QED
  BY <1>2, <1>3, <1>4, <1>5, <1>6, <1>7 DEF Next, VerifyOther, VerifyHint

(* What sign returns, verify accepts, and no field loses bits when it is   *)
(* packed: for every parameter set, every key and every mask, the          *)
(* transforms, the Montgomery products, the rounding, the hint and the     *)
(* encodings of sign and of verify agree.                                  *)
THEOREM SignaturesVerify ==
  ASSUME MlDsaRingAssumption, MlDsaAssumption, StreamsOfBytes
  PROVE  Spec => []SignedVerifies
<1>1. MadeInv => SignedVerifies
  BY MadeIsSigned
<1> QED BY <1>1, MadeInit, MadeStep, PTL DEF Spec

(* What the code computes of two polynomials of a key, through transforms  *)
(* and Montgomery products, is their product modulo X ^ N + 1.             *)
THEOREM ProductsAreNegacyclic ==
  ASSUME MlDsaRingAssumption, MlDsaAssumption, StreamsOfBytes
  PROVE  Spec => []ProductIsNegacyclic
<1>1. MadeInv => ProductIsNegacyclic
  <2>1. SUFFICES ASSUME MadeInv, phase = "keyed", NEW f \in KeyPolys, NEW g \in KeyPolys
                 PROVE  intt(pointwise_montgomery(ntt(f), ntt(g))) = Negacyclic(f, g)
    BY DEF ProductIsNegacyclic
  <2>2. KeyPolys \subseteq Polys
    BY <2>1, KeyPolysAre DEF MadeInv
  <2>3. f \in Polys /\ g \in Polys
    BY <2>1, <2>2
  <2> QED BY <2>3, ProductIs
<1> QED BY <1>1, MadeInit, MadeStep, PTL DEF Spec

-----------------------------------------------------------------------------
(* What verify accepts, sign returned.                                     *)

(* It is a vector of polynomials.                                          *)
LEMMA RoughIn ==
  ASSUME MlDsaRingAssumption, MlDsaAssumption, StreamsOfBytes,
         NEW key, key.rho \in Rhos, DOMAIN key.t1 = 1 .. K, NEW b, FieldsBelow(key.t1, b),
         NEW s, DOMAIN s.z = 1 .. L, FieldsBelow(s.z, 2 * GAMMA1)
  PROVE  Rough(key, s) \in Vectors(K)
<1>1. K \in Nat /\ L \in Nat /\ ExpandA(key.rho) \in [1 .. K -> Vectors(L)]
  BY DEF MlDsaAssumption, Vectors, Polys, Field
<1>2. nttVec(polyvec_bit_unpack_z(s.z)) \in Vectors(L)
  BY <1>1, UnpackZ, NttVec
<1>3. multiply_vector(ExpandA(key.rho), nttVec(polyvec_bit_unpack_z(s.z))) \in Vectors(K)
  BY <1>1, <1>2, MultiplyIn
<1>4. nttVec(polyvec_scale_2d(key.t1)) \in Vectors(K)
  BY <1>1, Scale, NttVec
<1>5. ntt(sample_in_ball(s.c_tilde).c) \in Polys
  BY BallIn, Transforms
<1> QED BY <1>1, <1>3, <1>4, <1>5, PolyTimesIn, VecSubIn, NttVec DEF Rough

(* What a frame is of: the context's length is in it.                      *)
FrameOf(f, a, b) ==
  /\ Len(a) \in Nat /\ Len(b) \in Nat
  /\ f[2] = Len(a) /\ Len(f) = 2 + Len(a) + Len(b)
  /\ \A i \in 1 .. Len(a) : f[2 + i] = a[i]
  /\ \A i \in 1 .. Len(b) : f[2 + Len(a) + i] = b[i]

LEMMA Framed ==
  ASSUME NEW a \in Seq(Nat), NEW b \in Seq(Nat)
  PROVE  FrameOf(<<0, Len(a)>> \o a \o b, a, b)
<1> DEFINE f == <<0, Len(a)>> \o a \o b
<1> DEFINE h == <<0, Len(a)>>
           g == h \o a
<1>1. h \in Seq(Nat) /\ Len(h) = 2 /\ h[2] = Len(a) /\ Len(a) \in Nat /\ Len(b) \in Nat
  OBVIOUS
<1> HIDE DEF h, f
<1>2. /\ g \in Seq(Nat) /\ Len(g) = 2 + Len(a)
      /\ \A i \in 1 .. 2 + Len(a) : g[i] = IF i <= 2 THEN h[i] ELSE a[i - 2]
  <2>1. /\ h \o a \in Seq(Nat) /\ Len(h \o a) = Len(h) + Len(a)
        /\ \A i \in 1 .. Len(h) + Len(a) :
             (h \o a)[i] = IF i <= Len(h) THEN h[i] ELSE a[i - Len(h)]
    BY <1>1, ConcatProperties
  <2> QED BY <1>1, <2>1
<1> HIDE DEF g
<1>3. /\ f = g \o b /\ Len(f) = (2 + Len(a)) + Len(b)
      /\ \A i \in 1 .. (2 + Len(a)) + Len(b) :
           f[i] = IF i <= 2 + Len(a) THEN g[i] ELSE b[i - (2 + Len(a))]
  <2>1. f = g \o b
    BY DEF f, g, h
  <2>2. /\ Len(g \o b) = Len(g) + Len(b)
        /\ \A i \in 1 .. Len(g) + Len(b) :
             (g \o b)[i] = IF i <= Len(g) THEN g[i] ELSE b[i - Len(g)]
    BY <1>2, ConcatProperties
  <2> QED BY <1>2, <2>1, <2>2
<1>4. f[2] = Len(a)
  <2>1. 2 \in 1 .. (2 + Len(a)) + Len(b) /\ 2 \in 1 .. 2 + Len(a) /\ 2 <= 2 + Len(a) /\ 2 <= 2
    BY <1>1, SMT
  <2> QED BY <1>1, <1>2, <1>3, <2>1
<1>5. ASSUME NEW i \in 1 .. Len(a) PROVE f[2 + i] = a[i]
  <2> DEFINE p == 2 + i
  <2>1. /\ p \in 1 .. (2 + Len(a)) + Len(b) /\ p \in 1 .. 2 + Len(a)
        /\ p <= 2 + Len(a) /\ ~ (p <= 2) /\ p - 2 = i
    BY <1>1, SMT
  <2> HIDE DEF p
  <2>2. f[p] = a[i]
    BY <1>2, <1>3, <2>1
  <2> QED BY <2>2 DEF p
<1>6. ASSUME NEW i \in 1 .. Len(b) PROVE f[2 + Len(a) + i] = b[i]
  <2> DEFINE p == 2 + Len(a) + i
  <2>1. /\ p \in 1 .. (2 + Len(a)) + Len(b)
        /\ ~ (p <= 2 + Len(a)) /\ p - (2 + Len(a)) = i
    BY <1>1, SMT
  <2> HIDE DEF p
  <2>2. f[p] = b[i]
    BY <1>3, <2>1
  <2> QED BY <2>2 DEF p
<1>7. FrameOf(f, a, b)
  BY <1>1, <1>3, <1>4, <1>5, <1>6 DEF FrameOf
<1> QED BY <1>7 DEF f

(* No two requests are framed alike.                                       *)
LEMMA OneFrame ==
  ASSUME NEW r \in [ctx : Seq(Nat), message : Seq(Nat)],
         NEW q \in [ctx : Seq(Nat), message : Seq(Nat)],
         m_prime(r) = m_prime(q)
  PROVE  r = q
<1> DEFINE f == m_prime(r)
           a == r.ctx
           b == r.message
           c == q.ctx
           d == q.message
<1>1. /\ a \in Seq(Nat) /\ b \in Seq(Nat) /\ c \in Seq(Nat) /\ d \in Seq(Nat)
      /\ r = [ctx |-> a, message |-> b] /\ q = [ctx |-> c, message |-> d]
      /\ f = <<0, Len(a)>> \o a \o b /\ f = <<0, Len(c)>> \o c \o d
  BY DEF m_prime
<1> HIDE DEF f, a, b, c, d
<1>2. FrameOf(f, a, b)
  BY <1>1, Framed
<1>3. FrameOf(f, c, d)
  BY <1>1, Framed
<1>4. Len(a) = Len(c) /\ Len(b) = Len(d)
  BY <1>2, <1>3, SMT DEF FrameOf
<1>5. \A i \in 1 .. Len(a) : a[i] = c[i]
  BY <1>2, <1>3, <1>4 DEF FrameOf
<1>6. \A i \in 1 .. Len(b) : b[i] = d[i]
  BY <1>2, <1>3, <1>4 DEF FrameOf
<1>7. a = c
  BY <1>1, <1>4, <1>5, SeqEqual
<1>8. b = d
  BY <1>1, <1>4, <1>6, SeqEqual
<1> QED BY <1>1, <1>7, <1>8

(* verify accepts one hint only: of two it accepts, for one challenge and  *)
(* one z, the hints are the same, as a hint moves its coefficient.         *)
LEMMA WithHint ==
  ASSUME MlDsaRingAssumption, NEW k \in Nat, NEW u \in Vectors(k),
         NEW h \in [1 .. k -> [Index -> {0, 1}]]
  PROVE  /\ \A i \in 1 .. k, j \in Index :
              use_hint_coeff(h[i][j], u[i][j]) \in 0 .. Buckets - 1
         /\ polyvec_simple_bit_pack_w1(use_hint_vec(h, u)) =
              [i \in 1 .. k |-> [j \in Index |-> use_hint_coeff(h[i][j], u[i][j])]]
<1>1. \A i \in 1 .. k, j \in Index : use_hint_coeff(h[i][j], u[i][j]) \in 0 .. Buckets - 1
  BY HintMoves DEF Vectors, Polys
<1>2. use_hint_vec(h, u) =
        [i \in 1 .. k |-> [j \in Index |-> use_hint_coeff(h[i][j], u[i][j])]]
  BY EvaluatedIs DEF use_hint_vec, OnVecs, Entries, Coeffs
<1> DEFINE v == use_hint_vec(h, u)
<1>3. \A i \in 1 .. k, j \in Index : v[i][j] = use_hint_coeff(h[i][j], u[i][j])
  BY <1>2
<1>4. DOMAIN v = 1 .. k
  BY <1>2
<1> HIDE DEF v
<1>5. polyvec_simple_bit_pack_w1(v) =
        [i \in 1 .. k |-> [j \in Index |-> (v[i][j] % Bits(bitlen(Buckets - 1)))]]
  BY <1>4, EvaluatedIs
     DEF polyvec_simple_bit_pack_w1, simple_bit_pack, Coeffwise, OnVec, Entries, Coeffs
<1>6. \A i \in 1 .. k, j \in Index :
        (v[i][j] % Bits(bitlen(Buckets - 1))) = use_hint_coeff(h[i][j], u[i][j])
  BY <1>1, <1>3, PackKeeps
<1>7. polyvec_simple_bit_pack_w1(v) =
        [i \in 1 .. k |-> [j \in Index |-> use_hint_coeff(h[i][j], u[i][j])]]
  BY <1>5, <1>6
<1> QED BY <1>1, <1>7 DEF v

LEMMA OneHint ==
  ASSUME MlDsaRingAssumption, NEW k \in Nat, NEW u \in Vectors(k),
         NEW g \in [1 .. k -> [Index -> {0, 1}]],
         NEW h \in [1 .. k -> [Index -> {0, 1}]],
         polyvec_simple_bit_pack_w1(use_hint_vec(g, u))
           = polyvec_simple_bit_pack_w1(use_hint_vec(h, u))
  PROVE  g = h
<1>1. polyvec_simple_bit_pack_w1(use_hint_vec(g, u)) =
        [i \in 1 .. k |-> [j \in Index |-> use_hint_coeff(g[i][j], u[i][j])]]
  BY WithHint
<1>2. polyvec_simple_bit_pack_w1(use_hint_vec(h, u)) =
        [i \in 1 .. k |-> [j \in Index |-> use_hint_coeff(h[i][j], u[i][j])]]
  BY WithHint
<1> DEFINE a == polyvec_simple_bit_pack_w1(use_hint_vec(g, u))
<1>3. \A i \in 1 .. k, j \in Index :
        /\ a[i][j] = use_hint_coeff(g[i][j], u[i][j])
        /\ a[i][j] = use_hint_coeff(h[i][j], u[i][j])
  <2>1. a = [i \in 1 .. k |-> [j \in Index |-> use_hint_coeff(g[i][j], u[i][j])]]
    BY <1>1
  <2>2. a = [i \in 1 .. k |-> [j \in Index |-> use_hint_coeff(h[i][j], u[i][j])]]
    BY <1>2
  <2> HIDE DEF a
  <2> QED BY <2>1, <2>2
<1> HIDE DEF a
<1>4. \A i \in 1 .. k, j \in Index :
        /\ g[i][j] \in {0, 1} /\ h[i][j] \in {0, 1}
        /\ use_hint_coeff(1, u[i][j]) # use_hint_coeff(0, u[i][j])
  BY HintMoves DEF Vectors, Polys
<1>5. \A i \in 1 .. k, j \in Index : g[i][j] = h[i][j]
  BY <1>3, <1>4
<1>6. \A i \in 1 .. k : g[i] = h[i]
  BY <1>5
<1> QED BY <1>6

(* What is checked is a signature the signer returned, or one with other   *)
(* bytes for its hint.                                                     *)
KeysAre ==
  /\ pk.rho \in Rhos /\ DOMAIN pk.t1 = 1 .. K
  /\ sk.tr = Tr(pk.rho, pk.t1)

OutIs ==
  /\ request \in Requests
  /\ DOMAIN out = {"c_tilde", "z", "h"} /\ out = [c_tilde |-> out.c_tilde, z |-> out.z, h |-> out.h]
  /\ DOMAIN out.z = 1 .. L
  /\ \E w : out.c_tilde = CTilde(Mu(sk.tr, request), w)

CheckedIs ==
  /\ phase = "signed"
  /\ checked.result = verify(pk, checked.request, checked.sig)
  /\ \/ checked.request \in Requests /\ checked.sig = out
     \/ /\ checked.request = request
        /\ \E y \in HintBytes : checked.sig = [out EXCEPT !.h = y]

SignedInv ==
  /\ phase # "new" => KeysAre
  /\ phase = "signing" => request \in Requests
  /\ phase = "signed" => OutIs
  /\ checked # None => CheckedIs

(* A signature is of the request and the key.                              *)
LEMMA SignedInit == Init => SignedInv
BY DEF Init, SignedInv

(* keygen: t1 has a polynomial of each row.                                *)
LEMMA KeygenSigned ==
  ASSUME MlDsaRingAssumption, MlDsaAssumption, SignedInv,
         NEW rho \in Rhos \ BadRhos, NEW s \in Secrets, Keygen(rho, s)
  PROVE  SignedInv'
<1> DEFINE A == ExpandA(rho)
           t == VecAdd(Times(A, s.s1), s.s2)
           t1 == simple_bit_pack(power2round_vec(t)[1], T1Bits)
<1>1. DOMAIN A = 1 .. K
  BY DEF MlDsaAssumption
<1>2. DOMAIN t = DOMAIN A
  <2> DEFINE u == Times(A, s.s1)
  <2>1. DOMAIN u = DOMAIN A
    BY Lengths
  <2> HIDE DEF u
  <2>2. DOMAIN VecAdd(u, s.s2) = DOMAIN u
    BY Lengths
  <2> QED BY <2>1, <2>2 DEF u
<1>3. DOMAIN t1 = DOMAIN t
  <2> HIDE DEF t
  <2> QED BY Lengths
<1>4. /\ phase = "new" /\ phase' = "keyed" /\ pk' = [rho |-> rho, t1 |-> t1]
      /\ sk'.tr = Tr(rho, t1) /\ UNCHANGED checked
  BY DEF Keygen
<1> HIDE DEF t1
<1>5. KeysAre'
  BY <1>1, <1>2, <1>3, <1>4 DEF KeysAre
<1> QED BY <1>4, <1>5 DEF SignedInv, CheckedIs

(* An attempt: the digest is of the message that is signed.                *)
LEMMA AttemptSigned ==
  ASSUME SignedInv, NEW masks \in [1 .. L -> MaskPolys], Attempt(masks)
  PROVE  SignedInv'
<1>1. phase = "signing" /\ UNCHANGED <<pk, sk, request, checked>>
  BY DEF Attempt
<1>2. checked' = None /\ KeysAre' /\ request' \in Requests
  BY <1>1 DEF SignedInv, CheckedIs, KeysAre
<1>3. CASE phase' # "signed"
  BY <1>2, <1>3 DEF SignedInv
<1>4. CASE phase' = "signed"
  <2> DEFINE y == polyvec_bit_unpack_z(masks)
             w == Times(ExpandA(sk.rho), y)
             ct == CTilde(Mu(sk.tr, request), high_bits_vec(w))
             z == VecAdd(y, TimesPoly(sample_in_ball(ct).c, unpack_eta(sk.s1)))
             fields == polyvec_bit_pack_z(z)
  <2>1. PICK h : out' = [c_tilde |-> ct, z |-> fields, h |-> h]
    <3>1. ~ Reject
      BY <1>1, <1>4 DEF Reject
    <3>2. \A e : Return(Error(e)) => phase' = "keyed"
      BY DEF Return, Error
    <3>3. \E h : Return([c_tilde |-> ct, z |-> fields, h |-> h])
      BY <1>4, <3>1, <3>2 DEF Attempt
    <3> QED BY <3>3 DEF Return
  <2>2. DOMAIN fields = 1 .. L
    <3>1. DOMAIN y = 1 .. L
      BY Lengths DEF polyvec_bit_unpack_z
    <3> HIDE DEF y
    <3>2. DOMAIN z = 1 .. L
      BY <3>1, Lengths
    <3> HIDE DEF z
    <3> QED BY <3>2, Lengths DEF polyvec_bit_pack_z
  <2>3. \E v : ct = CTilde(Mu(sk.tr, request), v)
    OBVIOUS
  <2> HIDE DEF ct, fields
  <2>4. OutIs'
    BY <1>1, <1>2, <2>1, <2>2, <2>3 DEF OutIs
  <2> QED BY <1>2, <1>4, <2>4 DEF SignedInv
<1> QED BY <1>3, <1>4

(* verify, of what arrives.                                                *)
LEMMA VerifySigned ==
  ASSUME SignedInv, NEW r, NEW s, Verify(r, s),
         \/ r \in Requests /\ s = out
         \/ r = request /\ \E y \in HintBytes : s = [out EXCEPT !.h = y]
  PROVE  SignedInv'
<1>1. /\ phase = "signed" /\ UNCHANGED <<phase, pk, sk, request, out>>
      /\ checked' = [request |-> r, sig |-> s, result |-> verify(pk, r, s)]
  BY DEF Verify
<1>2. /\ checked'.request = r /\ checked'.sig = s
      /\ checked'.result = verify(pk, r, s)
  BY <1>1
<1>3. KeysAre' /\ OutIs'
  BY <1>1 DEF SignedInv, KeysAre, OutIs
<1>4. verify(pk, r, s)' = verify(pk, r, s)
  BY <1>1 DEF verify
<1>5. CheckedIs'
  BY <1>1, <1>2 DEF CheckedIs
<1> QED BY <1>1, <1>3, <1>5 DEF SignedInv

LEMMA SignedStep ==
  ASSUME MlDsaRingAssumption, MlDsaAssumption, SignedInv, [Next]_vars
  PROVE  SignedInv'
<1>1. CASE UNCHANGED vars
  BY <1>1 DEF vars, SignedInv, KeysAre, OutIs, CheckedIs
<1>2. CASE KeygenFails
  BY <1>2 DEF KeygenFails, SignedInv, CheckedIs
<1>3. ASSUME NEW rho \in Rhos \ BadRhos, NEW s \in Secrets, Keygen(rho, s)
      PROVE  SignedInv'
  BY <1>3, KeygenSigned
<1>4. ASSUME NEW r \in Requests, Sign(r)
      PROVE  SignedInv'
  <2>1. /\ phase # "new" /\ phase' # "new" /\ phase' # "signed"
        /\ request' = r /\ checked' = None /\ UNCHANGED <<pk, sk>>
    BY <1>4 DEF Sign
  <2> QED BY <2>1 DEF SignedInv, KeysAre
<1>5. ASSUME NEW masks \in [1 .. L -> MaskPolys], Attempt(masks)
      PROVE  SignedInv'
  BY <1>5, AttemptSigned
<1>6. ASSUME NEW r \in Requests, VerifyOther(r)
      PROVE  SignedInv'
  BY <1>6, VerifySigned DEF VerifyOther
<1>7. ASSUME NEW y \in HintBytes, VerifyHint(y)
      PROVE  SignedInv'
  <2>1. Verify(request, [out EXCEPT !.h = y])
    BY <1>7 DEF VerifyHint
  <2> QED BY <2>1, VerifySigned
<1> QED
  BY <1>1, <1>2, <1>3, <1>4, <1>5, <1>6, <1>7 DEF Next

(* What verify says valid of has the digest of the request, and of the     *)
(* rounding the hint gives.                                                *)
LEMMA ValidIs ==
  ASSUME NEW key, NEW r, NEW s, verify(key, r, s) = "valid"
  PROVE  /\ hint_bit_unpack(s.h, K) # NoHint
         /\ CTilde(Mu(Tr(key.rho, key.t1), r),
                   use_hint_vec(hint_bit_unpack(s.h, K), Rough(key, s))) = s.c_tilde
<1>1. Refused(r) = "no"
  <2>1. SUFFICES ASSUME Refused(r) # "no" PROVE FALSE
    OBVIOUS
  <2>2. Refused(r) = "valid"
    BY <2>1 DEF verify
  <2> QED BY <2>2 DEF Refused
<1>2. verify_internal(key, r, s) = "valid"
  BY <1>1 DEF verify
<1> QED BY <1>2 DEF verify_internal, Rough

(* What is decoded is a hint.                                              *)
LEMMA HintType ==
  ASSUME NEW y, NEW k, hint_bit_unpack(y, k) # NoHint
  PROVE  hint_bit_unpack(y, k) \in [1 .. k -> [Index -> {0, 1}]]
<1>1. hint_bit_unpack(y, k) =
        [i \in 1 .. k |-> [j \in Index |-> IF OneAt(y, i, j) THEN 1 ELSE 0]]
  BY Unpacked DEF OneAt
<1> QED BY <1>1

(* Another request has another digest.                                     *)
LEMMA OtherRequest ==
  ASSUME MlDsaAssumption, KeysAre, OutIs,
         NEW r \in Requests, verify(pk, r, out) = "valid"
  PROVE  r = request
<1>1. PICK w : out.c_tilde = CTilde(Mu(sk.tr, request), w)
  BY DEF OutIs
<1>2. PICK v : out.c_tilde = CTilde(Mu(sk.tr, r), v)
  BY ValidIs DEF KeysAre
<1>3. out.c_tilde.mu.m_prime = m_prime(request) /\ out.c_tilde.mu.m_prime = m_prime(r)
  BY <1>1, <1>2 DEF CTilde, Mu
<1>4. /\ r \in [ctx : Seq(Nat), message : Seq(Nat)]
      /\ request \in [ctx : Seq(Nat), message : Seq(Nat)]
  BY DEF MlDsaAssumption, OutIs
<1> QED BY <1>3, <1>4, OneFrame

(* Other bytes do not decode, or to another hint.                          *)
LEMMA OtherHint ==
  ASSUME MlDsaRingAssumption, MlDsaAssumption, StreamsOfBytes, KeysAre, OutIs,
         FieldsBelow(pk.t1, Bits(T1Bits)), FieldsBelow(out.z, 2 * GAMMA1),
         out.h \in HintBytes, verify(pk, request, out) = "valid",
         NEW y \in HintBytes, NEW s, s = [out EXCEPT !.h = y],
         verify(pk, request, s) = "valid"
  PROVE  s = out
<1>1. OMEGA \in Nat /\ N \in Nat /\ K \in Nat
  <2>1. OMEGA \in Nat /\ N \in Nat
    BY DEF MlDsaRingAssumption
  <2>2. K \in Nat
    BY DEF MlDsaAssumption
  <2> QED BY <2>1, <2>2
<1>2. s.h = y /\ s.z = out.z /\ s.c_tilde = out.c_tilde
  BY DEF OutIs
<1> DEFINE u == Rough(pk, out)
           g == hint_bit_unpack(out.h, K)
           h == hint_bit_unpack(y, K)
           mu == Mu(Tr(pk.rho, pk.t1), request)
<1>3. Rough(pk, s) = u
  BY <1>2 DEF Rough
<1>4. g # NoHint /\ CTilde(mu, use_hint_vec(g, u)) = out.c_tilde
  BY ValidIs
<1>5. h # NoHint /\ CTilde(mu, use_hint_vec(h, u)) = out.c_tilde
  BY <1>2, <1>3, ValidIs
<1>6. u \in Vectors(K)
  BY RoughIn DEF KeysAre, OutIs
<1>7. g \in [1 .. K -> [Index -> {0, 1}]] /\ h \in [1 .. K -> [Index -> {0, 1}]]
  BY <1>4, <1>5, HintType
<1> HIDE DEF u, g, h, mu
<1>8. polyvec_simple_bit_pack_w1(use_hint_vec(g, u))
        = polyvec_simple_bit_pack_w1(use_hint_vec(h, u))
  <2>1. \A w : CTilde(mu, w).w1 = polyvec_simple_bit_pack_w1(w)
    BY DEF CTilde
  <2> QED BY <1>4, <1>5, <2>1
<1>9. g = h
  BY <1>1, <1>6, <1>7, <1>8, OneHint
<1>10. out.h = y
  <2>1. /\ out.h \in [1 .. OMEGA + K -> Index] /\ y \in [1 .. OMEGA + K -> Index]
    BY DEF HintBytes
  <2>2. /\ hint_bit_unpack(out.h, K) # NoHint
        /\ hint_bit_unpack(out.h, K) = hint_bit_unpack(y, K)
    BY <1>4, <1>9 DEF g, h
  <2> QED BY <1>1, <2>1, <2>2, OneEncoding
<1> QED BY <1>10 DEF OutIs

(* Of what arrives in place of a signature's message, context or hint,     *)
(* verify accepts nothing else: a hint has one encoding and moves the      *)
(* coefficients it is given for, for every parameter set.                  *)
THEOREM OnlySignedIsAccepted ==
  ASSUME MlDsaRingAssumption, MlDsaAssumption, StreamsOfBytes
  PROVE  Spec => []AcceptsOnlySigned
<1>1. SignedInv /\ SignedVerifies => AcceptsOnlySigned
  <2>1. SUFFICES ASSUME SignedInv, SignedVerifies, checked # None,
                        checked.result = "valid"
                 PROVE  checked.request = request /\ checked.sig = out
    BY DEF AcceptsOnlySigned
  <2>2. phase = "signed" /\ KeysAre /\ OutIs /\ CheckedIs
    BY <2>1 DEF SignedInv, CheckedIs
  <2>3. verify(pk, checked.request, checked.sig) = "valid"
    BY <2>1, <2>2 DEF CheckedIs
  <2>4. CASE checked.request \in Requests /\ checked.sig = out
    BY <2>2, <2>3, <2>4, OtherRequest
  <2>5. CASE /\ checked.request = request
             /\ \E y \in HintBytes : checked.sig = [out EXCEPT !.h = y]
    <3>1. PICK y \in HintBytes : checked.sig = [out EXCEPT !.h = y]
      BY <2>5
    <3>2. /\ verify(pk, request, out) = "valid" /\ out.h \in HintBytes
          /\ FieldsBelow(pk.t1, Bits(T1Bits)) /\ FieldsBelow(out.z, 2 * GAMMA1)
      BY <2>1, <2>2 DEF SignedVerifies, MlDsaTypeOK
    <3>3. verify(pk, request, checked.sig) = "valid"
      BY <2>3, <2>5
    <3> QED BY <2>2, <2>5, <3>1, <3>2, <3>3, OtherHint
  <2> QED BY <2>2, <2>4, <2>5 DEF CheckedIs
<1> QED BY <1>1, SignedInit, SignedStep, SignaturesVerify, PTL DEF Spec

(* verify accepts a signature for no other message or context than the     *)
(* one it was made for, whatever else holds of it.                         *)
SignedRequestOnly ==
  checked # None /\ checked.result = "valid" => checked.request = request

THEOREM OtherRequestsRejected ==
  ASSUME MlDsaRingAssumption, MlDsaAssumption
  PROVE  Spec => []SignedRequestOnly
<1>1. SignedInv => SignedRequestOnly
  <2>1. SUFFICES ASSUME SignedInv, checked # None, checked.result = "valid"
                 PROVE  checked.request = request
    BY DEF SignedRequestOnly
  <2>2. KeysAre /\ OutIs /\ CheckedIs
    BY <2>1 DEF SignedInv, CheckedIs
  <2>3. verify(pk, checked.request, checked.sig) = "valid"
    BY <2>1, <2>2 DEF CheckedIs
  <2>4. checked.request \in Requests /\ checked.sig = out => checked.request = request
    BY <2>2, <2>3, OtherRequest
  <2> QED BY <2>2, <2>4 DEF CheckedIs
<1> QED BY <1>1, SignedInit, SignedStep, PTL DEF Spec
=============================================================================
