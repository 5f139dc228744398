----------------------------- MODULE MlDsaRing ------------------------------
(***************************************************************************)
(* The arithmetic of mldsa/src: coefficients modulo Q in Montgomery form,  *)
(* polynomials modulo X^N + 1 multiplied through the number theoretic      *)
(* transform, the rounding of the signature scheme (power2round, decompose,*)
(* hints), and the packing of coefficients and hints.  Coefficients are    *)
(* integers 0 .. Q - 1; a packed polynomial is the sequence of the fields  *)
(* the bytes are cut from, each of its number of bits.                     *)
(***************************************************************************)
EXTENDS Integers, SequencesExt

CONSTANTS
  Q,              \* the modulus
  N,              \* coefficients of a polynomial, a power of two
  WORD,           \* what an i32 has values; Montgomery's factor
  ROOT,           \* a 2N-th root of unity the ZETAS are powers of
  D,              \* bits power2round drops
  GAMMA1, GAMMA2, \* the range of masks, half that of low bits
  OMEGA           \* ones a hint may have

Bits(n) == 2 ^ n
Index   == 0 .. N - 1

(* A polynomial of its coefficients, a vector of its polynomials.  (TLC    *)
(* evaluates a function it compares at once, and not again at every use.)  *)
Evaluated(f)        == CHOOSE g \in {f} : g = f
Coeffs(Op(_))       == Evaluated([i \in Index |-> Op(i)])
Entries(dim, Op(_)) == Evaluated([i \in dim |-> Op(i)])

-----------------------------------------------------------------------------
(* field.rs                                                                *)
Wrap(x) == ((x + WORD \div 2) % WORD) - (WORD \div 2)
Q_INV   == CHOOSE x \in 0 .. WORD - 1 : (x * Q) % WORD = 1

Lift(x)   == IF x < 0 THEN x + Q ELSE x
Add(a, b) == IF a + b - Q < 0 THEN a + b ELSE a + b - Q
Sub(a, b) == Lift(a - b)
Mul(a, b) == LET t == Wrap(Wrap(a * b) * Q_INV)
             IN  Lift((a * b - t * Q) \div WORD)

fq_to_signed(v) == IF v > Q \div 2 THEN v - Q ELSE v
signed_to_fq(s) == Lift(s)
Abs(x) == IF x < 0 THEN -x ELSE x

-----------------------------------------------------------------------------
(* ntt.rs: the tables, and the layers of the two transforms.  In a layer   *)
(* of blocks of 2 * len coefficients the k-th zeta belongs to a block.     *)
BitReverse[k \in Index] ==
  IF k = 0 THEN 0 ELSE (BitReverse[k \div 2] \div 2) + (k % 2) * (N \div 2)
ZETAS      == Coeffs(LAMBDA k : (WORD * ROOT ^ BitReverse[k]) % Q)
INTT_ZETAS == Coeffs(LAMBDA k : Q - ZETAS[k])
INV_N_MONT == CHOOSE x \in 0 .. Q - 1 : (x * N) % Q = (WORD * WORD) % Q

LowHalf(i, len) == i % (2 * len) < len

NttZeta(i, len) == ZETAS[(N \div (2 * len)) + (i \div (2 * len))]
NttLayer(f, len) ==
  Coeffs(LAMBDA i : IF LowHalf(i, len)
                    THEN Add(f[i], Mul(f[i + len], NttZeta(i, len)))
                    ELSE Sub(f[i - len], Mul(f[i], NttZeta(i, len))))

InttZeta(i, len) == INTT_ZETAS[(N \div len) - 1 - (i \div (2 * len))]
(* Mutant: the sum is stored before the difference is taken.               *)
InttLayerInPlace(f, len) ==
  Coeffs(LAMBDA i : IF LowHalf(i, len)
                    THEN Add(f[i], f[i + len])
                    ELSE Mul(Sub(Add(f[i - len], f[i]), f[i]), InttZeta(i, len)))
InttLayer(f, len) ==
  Coeffs(LAMBDA i : IF LowHalf(i, len)
                    THEN Add(f[i], f[i + len])
                    ELSE Mul(Sub(f[i - len], f[i]), InttZeta(i, len)))

(* The lengths of the layers: 1, 2, .., N / 2.                             *)
Lens == SelectSeq([i \in 1 .. N \div 2 |-> i],
                  LAMBDA i : \E b \in 0 .. N : i = Bits(b))

ntt(f)  == FoldRight(LAMBDA len, g : NttLayer(g, len), Lens, f)
intt(f) == LET g == FoldLeft(InttLayer, f, Lens)
           IN  Coeffs(LAMBDA i : Mul(g[i], INV_N_MONT))

-----------------------------------------------------------------------------
(* poly.rs: polynomials and vectors of them.                               *)
ZeroPoly == Coeffs(LAMBDA i : 0)
PolyAdd(f, g) == Coeffs(LAMBDA i : Add(f[i], g[i]))
PolySub(f, g) == Coeffs(LAMBDA i : Sub(f[i], g[i]))
pointwise_montgomery(f, g) == Coeffs(LAMBDA i : Mul(f[i], g[i]))

OnVec(v, Op(_))       == Entries(DOMAIN v, LAMBDA i : Op(v[i]))
OnVecs(u, v, Op(_,_)) == Entries(DOMAIN u, LAMBDA i : Op(u[i], v[i]))
VecAdd(u, v) == OnVecs(u, v, PolyAdd)
VecSub(u, v) == OnVecs(u, v, PolySub)
Coeffwise(v, Op(_)) == OnVec(v, LAMBDA f : Coeffs(LAMBDA i : Op(f[i])))

multiply_vector(A, v) ==
  OnVec(A, LAMBDA row :
    FoldLeft(LAMBDA f, s : PolyAdd(f, pointwise_montgomery(row[s], v[s])),
             ZeroPoly, [s \in DOMAIN v |-> s]))
poly_mul_polyvec(c, v) == OnVec(v, LAMBDA f : pointwise_montgomery(c, f))

inf_norm_vec(v) ==
  Max({Abs(fq_to_signed(v[i][j])) : i \in DOMAIN v, j \in Index})
polyvec_neg(v)      == Coeffwise(v, LAMBDA c : IF c = 0 THEN 0 ELSE Q - c)
polyvec_scale_2d(v) == Coeffwise(v, LAMBDA c : (c * Bits(D)) % Q)

-----------------------------------------------------------------------------
(* keys.rs and sign.rs: rounding.                                          *)
High(a) == (a + Bits(D - 1) - 1) \div Bits(D)
power2round_vec(t) ==
  <<Coeffwise(t, High), Coeffwise(t, LAMBDA a : Lift(a - High(a) * Bits(D)))>>

Buckets == (Q - 1) \div (2 * GAMMA2)
(* Mutant: the values next to Q are a bucket of their own.                 *)
decomposeNoWrap(r) ==
  LET alpha == 2 * GAMMA2
      r0    == IF r % alpha > GAMMA2 THEN (r % alpha) - alpha ELSE r % alpha
  IN  <<(r - r0) \div alpha, r0>>
decompose(r) ==
  LET alpha == 2 * GAMMA2
      r0    == IF r % alpha > GAMMA2 THEN (r % alpha) - alpha ELSE r % alpha
  IN  IF r - r0 = Q - 1 THEN <<0, r0 - 1>> ELSE <<(r - r0) \div alpha, r0>>
high_bits_vec(w) == Coeffwise(w, LAMBDA r : decompose(r)[1])
low_bits_vec(w)  == Coeffwise(w, LAMBDA r : Lift(decompose(r)[2]))

make_hint_coeff(z, r) ==
  IF decompose(r)[1] # decompose((r + z) % Q)[1] THEN 1 ELSE 0
make_hint_vec(z, r) ==
  OnVecs(z, r, LAMBDA f, g : Coeffs(LAMBDA i : make_hint_coeff(f[i], g[i])))
HintCount(h) == Cardinality({p \in (DOMAIN h) \X Index : h[p[1]][p[2]] = 1})

use_hint_coeff(b, r) ==
  LET r1 == decompose(r)[1]
      r0 == decompose(r)[2]
  IN  IF b # 1 THEN r1 ELSE IF r0 > 0 THEN (r1 + 1) % Buckets
                                      ELSE (r1 - 1) % Buckets
use_hint_vec(h, w) ==
  OnVecs(h, w, LAMBDA f, g : Coeffs(LAMBDA i : use_hint_coeff(f[i], g[i])))

-----------------------------------------------------------------------------
(* pack.rs: a coefficient's field keeps its low bits only.                 *)
bitlen(n) == CHOOSE b \in 0 .. n : n < Bits(b) /\ (b > 0 => Bits(b - 1) <= n)

fq_to_signed_ct(v, upper) == IF v - upper - 1 < 0 THEN v ELSE v - Q
simple_bit_pack(w, b)   == Coeffwise(w, LAMBDA c : c % Bits(b))
bit_pack(w, a, b) ==
  Coeffwise(w, LAMBDA c : (a + fq_to_signed_ct(c, b)) % Bits(bitlen(a + b)))
bit_unpack(v, a)    == Coeffwise(v, LAMBDA e : signed_to_fq(e - a))

T1Bits == bitlen(Q - 1) - D
polyvec_bit_pack_t0(t0)  == bit_pack(t0, Bits(D - 1) - 1, Bits(D - 1))
polyvec_bit_unpack_t0(v) == bit_unpack(v, Bits(D - 1) - 1)
polyvec_bit_pack_z(z)    == bit_pack(z, GAMMA1 - 1, GAMMA1)
polyvec_bit_unpack_z(v)  == bit_unpack(v, GAMMA1 - 1)
polyvec_simple_bit_pack_w1(w1) == simple_bit_pack(w1, bitlen(Buckets - 1))

(* The ones in the order of polynomials and of their places; their places, *)
(* zeros up to OMEGA, and for each polynomial how many ones there are up   *)
(* to its end.                                                             *)
Ones(h) == {p \in (DOMAIN h) \X Index : h[p[1]][p[2]] # 0}
Before(h, i, j) ==
  Cardinality({p \in Ones(h) : p[1] < i \/ (p[1] = i /\ p[2] < j)})
hint_bit_pack(h) ==
  [p \in 1 .. OMEGA + Len(h) |->
     IF p > OMEGA THEN Before(h, p - OMEGA, N)
     ELSE IF \E q \in Ones(h) : Before(h, q[1], q[2]) = p - 1
     THEN (CHOOSE q \in Ones(h) : Before(h, q[1], q[2]) = p - 1)[2]
     ELSE 0]

NoHint == <<>>
Limit(y, i) == IF i = 0 THEN 0 ELSE y[OMEGA + i]
LimitsRise(y, dim) ==
  \A i \in 1 .. dim : Limit(y, i - 1) <= Limit(y, i) /\ Limit(y, i) <= OMEGA
(* Mutant: a position may be there twice.                                  *)
PositionsRiseWeakly(y, dim) ==
  \A i \in 1 .. dim, p \in 1 .. OMEGA :
    Limit(y, i - 1) + 1 < p /\ p <= Limit(y, i) => y[p - 1] <= y[p]
PositionsRise(y, dim) ==
  \A i \in 1 .. dim, p \in 1 .. OMEGA :
    Limit(y, i - 1) + 1 < p /\ p <= Limit(y, i) => y[p - 1] < y[p]
RestIsZero(y, dim) == \A p \in Limit(y, dim) + 1 .. OMEGA : y[p] = 0
hint_bit_unpack(y, dim) ==
  IF LimitsRise(y, dim) /\ PositionsRise(y, dim) /\ RestIsZero(y, dim)
  THEN [i \in 1 .. dim |->
          [j \in Index |->
             IF \E p \in Limit(y, i - 1) + 1 .. Limit(y, i) : y[p] = j THEN 1
                                                                      ELSE 0]]
  ELSE NoHint

-----------------------------------------------------------------------------
(* The product modulo X ^ N + 1, which the transforms are for.             *)
Negacyclic(f, g) ==
  [k \in Index |->
     LET term(i) == IF i <= k THEN f[i] * g[k - i] ELSE Q * Q - f[i] * g[k - i + N]
     IN  FoldLeft(LAMBDA sum, i : (sum + term(i)) % Q, 0, [i \in 1 .. N |-> i - 1])]

(* What makes the layers transforms.  A block of 2 * len coefficients is a  *)
(* polynomial modulo X ^ (2 * len) - r, and a layer splits it into its     *)
(* remainders modulo X ^ len - zeta and X ^ len + zeta, zeta a root of r;  *)
(* on the way back the factor is the root's inverse.                       *)
One == WORD % Q
Root(i, size) ==
  IF size = N THEN Q - One
  ELSE IF LowHalf(i, size) THEN NttZeta(i, size) ELSE Q - NttZeta(i, size)
LensDouble ==
  /\ Len(Lens) > 0 /\ Lens[1] = 1 /\ 2 * Lens[Len(Lens)] = N
  /\ \A j \in 1 .. Len(Lens) - 1 : Lens[j + 1] = 2 * Lens[j]
ZetasAreRoots ==
  \A j \in 1 .. Len(Lens), i \in Index :
    /\ Mul(NttZeta(i, Lens[j]), NttZeta(i, Lens[j])) = Root(i, 2 * Lens[j])
    /\ Mul(NttZeta(i, Lens[j]), InttZeta(i, Lens[j])) = One

(* FIPS 204's parameters meet these: N is a power of two, so that the      *)
(* blocks of every layer fill the polynomial, there is more than one       *)
(* bucket, whose number fits its field, as do the parts of t, and a place  *)
(* of a hint fits its byte.  The code's tables, its Q_INV and INV_N_MONT   *)
(* are the constants that follow from the parameters.                      *)
MlDsaRingAssumption ==
  /\ {Q, N, WORD, ROOT, D, GAMMA1, GAMMA2, OMEGA} \subseteq Nat \ {0}
  /\ Q % 2 = 1 /\ 2 * Q <= WORD /\ N <= WORD /\ OMEGA < N
  /\ (ROOT ^ N) % Q = Q - 1
  /\ (Q - 1) % (2 * GAMMA2) = 0 /\ 2 * GAMMA1 < Q
  /\ Bits(D) \in 1 .. Q - 1 /\ Bits(D - 1) \in Nat /\ Bits(D) = 2 * Bits(D - 1)
  /\ High(Q - 1) < Bits(T1Bits) /\ Bits(T1Bits) \in Nat
  /\ \A n \in {2 * GAMMA1 - 1, Bits(D) - 1} : Bits(bitlen(n)) \in n + 1 .. 2 * n
  /\ 1 < Buckets /\ Bits(bitlen(Buckets - 1)) \in Buckets .. 2 * Buckets
  /\ Lens \in Seq({len \in 1 .. N \div 2 : N % (2 * len) = 0})
  /\ LensDouble
  /\ (\A k \in Index : ZETAS[k] \in 1 .. Q - 1) /\ ZetasAreRoots
  /\ Q_INV \in Nat /\ (Q_INV * Q) % WORD = 1
  /\ INV_N_MONT \in 0 .. Q - 1 /\ (INV_N_MONT * N) % Q = (WORD * WORD) % Q
=============================================================================
