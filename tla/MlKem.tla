------------------------------- MODULE MlKem --------------------------------
(***************************************************************************)
(* ML-KEM, mlkem/src: keygen, encaps and decaps of one parameter set, with *)
(* the public-key encryption kpke.rs underneath; the hashes are ideal: a   *)
(* digest is the record of what was hashed, and Stream and Bits say what a *)
(* seed is expanded to.                                                    *)
(*                                                                         *)
(* First the arithmetic, computed as the code computes it: coefficients in *)
(* i16 that are only reduced now and then, polynomials modulo              *)
(* X^DEGREE + 1 multiplied through the transform that stops at pairs of    *)
(* coefficients, compression and packing, and the two samplers.  Sums wrap *)
(* as a release build's do.  A packed polynomial is the function of the    *)
(* fields the bytes are cut from.                                          *)
(*                                                                         *)
(* The calls keep no state: of an exchange, what was sent last and what    *)
(* was made of it last are kept.  decaps answers every ciphertext: it      *)
(* encrypts again what it decrypted, and a ciphertext that is not what     *)
(* comes out is answered with a secret made of z.                          *)
(***************************************************************************)
EXTENDS Integers, SequencesExt

CONSTANTS
  Q, LAYERS,      \* the modulus; layers of the transform (7)
  WORD, QINV,     \* values of an i16, Montgomery's factor; 1 / Q modulo it
  SHIFT, V,       \* bits barrett_reduce divides by (26); 2^SHIFT / Q
  ZETAS,          \* the powers of a root of unity, in the order of their use
  F_INVNTT, F_MONT, \* the factors of invntt and apply_mont
  FIELD,          \* values of a field of an uncompressed coefficient (2^12)
  WINDOWS         \* fields of sample_ntt's three buffers, one after another

DEGREE == 2 ^ (LAYERS + 1)
Index  == 0 .. DEGREE - 1

(* A polynomial of its coefficients, a vector of its polynomials.  (TLC    *)
(* evaluates a function it compares at once, and not again at every use.)  *)
Evaluated(f)        == CHOOSE g \in {f} : g = f
Coeffs(Op(_))       == Evaluated([i \in Index |-> Op(i)])
Entries(dim, Op(_)) == Evaluated([i \in dim |-> Op(i)])

-----------------------------------------------------------------------------
(* reduce.rs                                                               *)
Wrap(x) == ((x + WORD \div 2) % WORD) - (WORD \div 2)

montgomery_reduce(a) == Wrap((a - Wrap(Wrap(a) * QINV) * Q) \div WORD)
fqmul(a, b) == montgomery_reduce(a * b)

barrett_reduce(a) ==
  Wrap(a - ((V * a + 2 ^ (SHIFT - 1)) \div (2 ^ SHIFT)) * Q)
csubq(a)  == IF a - Q < 0 THEN a ELSE a - Q
freeze(a) ==
  LET r == barrett_reduce(a) IN csubq(IF r < 0 THEN r + Q ELSE r)

-----------------------------------------------------------------------------
(* ntt.rs: blocks of 2 * len coefficients, of which the k-th has the k-th  *)
(* zeta on the way there, and they are taken from the last on the way back.*)
LowHalf(i, len) == i % (2 * len) < len

NttZeta(i, len) == ZETAS[DEGREE \div (2 * len) + i \div (2 * len)]
NttLayer(f, len) ==
  LET t(i) == fqmul(NttZeta(i, len), f[IF LowHalf(i, len) THEN i + len ELSE i])
  IN  Coeffs(LAMBDA i : IF LowHalf(i, len) THEN Wrap(f[i] + t(i))
                                           ELSE Wrap(f[i - len] - t(i)))

InvZeta(i, len) == ZETAS[DEGREE \div len - 1 - i \div (2 * len)]
InvLayer(f, len) ==
  Coeffs(LAMBDA i : IF LowHalf(i, len) THEN barrett_reduce(Wrap(f[i] + f[i + len]))
                    ELSE fqmul(InvZeta(i, len), Wrap(f[i] - f[i - len])))

(* The lengths of the layers: 2, 4, .., DEGREE / 2.                        *)
Lens == [k \in 1 .. LAYERS |-> 2 ^ k]

ntt(f)    == FoldRight(LAMBDA len, g : NttLayer(g, len), Lens, f)
invntt(f) == LET g == FoldLeft(InvLayer, f, Lens)
             IN  Coeffs(LAMBDA i : fqmul(F_INVNTT, g[i]))

(* Pairs are multiplied modulo X^2 - zeta and, the next, X^2 + zeta.       *)
poly_basemul(a, b) ==
  LET zeta(i) == IF i % 4 < 2 THEN ZETAS[DEGREE \div 4 + i \div 4]
                              ELSE -ZETAS[DEGREE \div 4 + i \div 4]
  IN  Coeffs(LAMBDA i :
        IF i % 2 = 0
        THEN Wrap(fqmul(fqmul(a[i + 1], b[i + 1]), zeta(i)) + fqmul(a[i], b[i]))
        ELSE Wrap(fqmul(a[i - 1], b[i]) + fqmul(a[i], b[i - 1])))

-----------------------------------------------------------------------------
(* poly.rs: polynomials and vectors of them.                               *)
ZeroPoly == Coeffs(LAMBDA i : 0)
reduce(f)      == Coeffs(LAMBDA i : barrett_reduce(f[i]))
PolyAdd(f, g)  == Coeffs(LAMBDA i : Wrap(f[i] + g[i]))
PolySub(f, g)  == Coeffs(LAMBDA i : Wrap(f[i] - g[i]))
apply_mont(f)  == Coeffs(LAMBDA i : fqmul(f[i], F_MONT))

OnVec(v, Op(_)) == Entries(DOMAIN v, LAMBDA i : Op(v[i]))

(* basemul_acc over a row and a vector, from zero.                         *)
basemul_acc(u, v) ==
  FoldLeft(LAMBDA f, s : PolyAdd(f, poly_basemul(u[s], v[s])), ZeroPoly,
           [s \in DOMAIN v |-> s])
pointwise_acc(u, v) == reduce(basemul_acc(u, v))

compress(a, d)   == ((a * (2 ^ d) + Q \div 2) \div Q) % (2 ^ d)
decompress(a, d) == (a * Q + 2 ^ (d - 1)) \div (2 ^ d)
poly_compress(f, d)   == Coeffs(LAMBDA i : compress(freeze(f[i]), d))
poly_decompress(f, d) == Coeffs(LAMBDA i : decompress(f[i], d))

-----------------------------------------------------------------------------
(* encode.rs: what is read back is a field, and not a value modulo Q.      *)
poly_tobytes(f)   == Coeffs(LAMBDA i : freeze(f[i]) % FIELD)
poly_frombytes(a) == a
poly_frommsg(m)   == Coeffs(LAMBDA i : m[i] * ((Q + 1) \div 2))
poly_tomsg(f)     == Coeffs(LAMBDA i : ((2 * freeze(f[i]) + Q \div 2) \div Q) % 2)

-----------------------------------------------------------------------------
(* sample.rs: the fields of a stream that are below Q, until the           *)
(* polynomial has all; when the first buffer has too few, the next one     *)
(* goes on where it ended, and what is still missing after the third stays *)
(* 0.                                                                      *)
rej_uniform(r, fields) ==
  FoldLeft(LAMBDA s, d : IF Len(s) < DEGREE /\ d < Q THEN Append(s, d) ELSE s, r, fields)
Filled(w) == FoldLeft(+, 0, SubSeq(WINDOWS, 1, w))
sample_ntt(stream) ==
  LET window(w) == SubSeq(stream, 1 + Filled(w - 1), Filled(w))
      r == FoldLeft(LAMBDA s, w : IF Len(s) < DEGREE THEN rej_uniform(s, window(w)) ELSE s,
                    <<>>, [w \in DOMAIN WINDOWS |-> w])
  IN  Coeffs(LAMBDA i : IF i < Len(r) THEN r[i + 1] ELSE 0)

(* A coefficient is the ones among eta bits less those among the next.     *)
poly_cbd(bits, eta) ==
  LET ones(from) == FoldLeft(+, 0, SubSeq(bits, from + 1, from + eta))
  IN  Coeffs(LAMBDA i : ones(2 * eta * i) - ones(2 * eta * i + eta))

-----------------------------------------------------------------------------
(* What the code's tables and factors are, of some ROOT; a zeta on the way *)
(* back is the inverse of minus the one on the way there.                  *)
BitReverse[k \in 0 .. DEGREE \div 2 - 1] ==
  IF k = 0 THEN 0 ELSE (BitReverse[k \div 2] \div 2) + (k % 2) * (DEGREE \div 4)
Power(x, n) == FoldLeft(LAMBDA p, i : (p * x) % Q, 1, [i \in 1 .. n |-> i])
ZetasAreRoots ==
  /\ ZETAS \in [0 .. DEGREE \div 2 - 1 -> Int]
  /\ \E ROOT \in 0 .. Q - 1 :
       /\ Power(ROOT, DEGREE \div 2) = Q - 1
       /\ \A k \in DOMAIN ZETAS :
            /\ (ZETAS[k] - WORD * Power(ROOT, BitReverse[k])) % Q = 0
            /\ -Q < 2 * ZETAS[k] /\ 2 * ZETAS[k] < Q
  /\ \A k \in DOMAIN Lens, i \in Index :
       (NttZeta(i, Lens[k]) * InvZeta(i, Lens[k]) + WORD * WORD) % Q = 0

(* FIPS 203's parameters meet these: a word holds a coefficient to which   *)
(* every layer has added one, and Barrett's quotient is off by less than   *)
(* the rounding is.                                                        *)
MlKemRingAssumption ==
  /\ {Q, LAYERS, WORD, QINV, SHIFT, V, FIELD} \subseteq Nat \ {0}
  /\ 1 < Q /\ Q % 2 = 1 /\ Q < FIELD /\ FIELD < WORD /\ 2 * (LAYERS + 2) * Q < WORD
  /\ (QINV * Q) % WORD = 1
  /\ V = (2 ^ SHIFT + Q \div 2) \div Q
  /\ WORD * (V * Q - 2 ^ SHIFT) \in -(2 ^ SHIFT) .. 2 ^ SHIFT
  /\ F_INVNTT \in 0 .. Q - 1 /\ (F_INVNTT * (DEGREE \div 2) - WORD * WORD) % Q = 0
  /\ F_MONT = (WORD * WORD) % Q
  /\ ZetasAreRoots
  /\ LAYERS < SHIFT
  /\ 2 ^ 0 = 1 /\ \A n \in 0 .. SHIFT : 2 ^ n \in Nat \ {0} /\ 2 ^ (n + 1) = 2 * 2 ^ n
  /\ WINDOWS \in Seq(Nat)

-----------------------------------------------------------------------------
(* The scheme.                                                             *)
CONSTANTS
  K, ETA1, ETA2, DU, DV,   \* params.rs
  Stream(_, _, _),  \* the XOF's fields, of seed and two indices
  Bits(_, _),       \* the PRF's bits, of seed and nonce
  Seeds, Zs,        \* d and z, 32 random bytes each
  Messages          \* m, 32 random bytes: a bit for each coefficient

MlKemAssumption ==
  /\ MlKemRingAssumption
  /\ {K, ETA1, ETA2, DU, DV} \subseteq Nat \ {0}
  /\ 4 * K * Q < WORD /\ ETA1 <= Q /\ ETA2 <= Q /\ DU <= SHIFT /\ DV <= SHIFT
  /\ Messages \subseteq [Index -> {0, 1}]

VARIABLES
  ek, dk,         \* the keys
  sent,           \* the last encapsulation: [m, ct, ss]
  got             \* the last decapsulation: [ct, ss]

vars == <<ek, dk, sent, got>>

None == [none |-> TRUE]
Dim  == 1 .. K

-----------------------------------------------------------------------------
(* sample.rs and kem.rs: seeds and hashes.                                 *)
gen_matrix(rho, transposed) ==
  Entries(Dim, LAMBDA i : Entries(Dim, LAMBDA j :
    sample_ntt(IF transposed THEN Stream(rho, j - 1, i - 1)
                             ELSE Stream(rho, i - 1, j - 1))))
sample_poly_cbd(seed, nonce, eta) == poly_cbd(Bits(seed, nonce), eta)
sample_noise(seed, nonce, eta) ==
  Entries(Dim, LAMBDA i : sample_poly_cbd(seed, nonce + i - 1, eta))

hash_h(x)    == [hash_h |-> x]
k_bar(m, h)  == [k_bar |-> m, h |-> h]
coins(m, h)  == [coins |-> m, h |-> h]
kdf(ct, s)   == [ct |-> ct, s |-> s]

-----------------------------------------------------------------------------
(* kpke.rs                                                                 *)
keypair(d) ==
  LET rho   == [rho |-> d]
      sigma == [sigma |-> d]
      a_hat == gen_matrix(rho, FALSE)
      s     == OnVec(sample_noise(sigma, 0, ETA1), ntt)
      e     == OnVec(sample_noise(sigma, K, ETA1), ntt)
      t_hat == Entries(Dim, LAMBDA i :
                 reduce(PolyAdd(apply_mont(basemul_acc(a_hat[i], s)), e[i])))
  IN  [ek |-> [t_hat |-> OnVec(t_hat, poly_tobytes), rho |-> rho],
       s  |-> OnVec(s, poly_tobytes)]

(* Mutant: the matrix as keypair has it.                                   *)
MatrixOf(rho) == gen_matrix(rho, FALSE)
TransposedOf(rho) == gen_matrix(rho, TRUE)

(* What encrypt draws from its seed, the products of the matrix with it,   *)
(* whose sums are not reduced, and the ciphertext before it is rounded.    *)
Drawn(r_seed) ==
  [r  |-> OnVec(sample_noise(r_seed, 0, ETA1), ntt),
   e1 |-> sample_noise(r_seed, K, ETA2),
   e2 |-> sample_poly_cbd(r_seed, 2 * K, ETA2)]
Products(rho, r) ==
  LET at == TransposedOf(rho) IN Entries(Dim, LAMBDA i : basemul_acc(at[i], r))
Unrounded(key, m, x) ==
  LET ar == Products(key.rho, x.r)
      tr == invntt(pointwise_acc(OnVec(key.t_hat, poly_frombytes), x.r))
  IN  [u |-> Entries(Dim, LAMBDA i : reduce(PolyAdd(invntt(ar[i]), x.e1[i]))),
       v |-> reduce(PolyAdd(PolyAdd(tr, x.e2), poly_frommsg(m)))]
encrypt(key, m, r_seed) ==
  LET c == Unrounded(key, m, Drawn(r_seed))
  IN  [u |-> OnVec(c.u, LAMBDA f : poly_compress(f, DU)),
       v |-> poly_compress(c.v, DV)]

Decompressed(ct) ==
  [u |-> OnVec(ct.u, LAMBDA f : poly_decompress(f, DU)),
   v |-> poly_decompress(ct.v, DV)]
decrypt(ct, s) ==
  LET c  == Decompressed(ct)
      mp == invntt(pointwise_acc(OnVec(s, poly_frombytes), OnVec(c.u, ntt)))
  IN  poly_tomsg(reduce(PolySub(c.v, mp)))

-----------------------------------------------------------------------------
(* kem.rs                                                                  *)
Init == ek = None /\ dk = None /\ sent = None /\ got = None

keygen(d, z) ==
  LET pair == keypair(d)
  IN  /\ ek = None
      /\ ek' = pair.ek
      /\ dk' = [s |-> pair.s, ek |-> pair.ek, h |-> hash_h(pair.ek), z |-> z]
      /\ UNCHANGED <<sent, got>>

encaps(m) ==
  LET h  == hash_h(ek)
      ct == encrypt(ek, m, coins(m, h))
  IN  /\ ek # None /\ (sent = None \/ got # None)
      /\ sent' = [m |-> m, ct |-> ct, ss |-> kdf(ct, k_bar(m, h))]
      /\ got' = None
      /\ UNCHANGED <<ek, dk>>

(* Mutant: only the first part is compared.                                *)
SameHead(c, c_prime) == c.u = c_prime.u
SameBytes(c, c_prime) == c = c_prime

Secret(c) ==
  LET m_prime  == decrypt(c, dk.s)
      ct_prime == encrypt(dk.ek, m_prime, coins(m_prime, dk.h))
  IN  IF SameBytes(c, ct_prime) THEN kdf(c, k_bar(m_prime, dk.h)) ELSE kdf(c, dk.z)

decaps(c) ==
  /\ sent # None /\ got = None
  /\ got' = [ct |-> c, ss |-> Secret(c)]
  /\ UNCHANGED <<ek, dk, sent>>

(* How a ciphertext may arrive: as it was sent, or with one field changed  *)
(* to a neighbour or to its opposite.                                      *)
Changed(f, d) ==
  {[f EXCEPT ![i] = (@ + by) % (2 ^ d)] : i \in Index, by \in {1, 2 ^ (d - 1)}}
Arrivals(c) ==
  {c} \cup {[c EXCEPT !.v = f] : f \in Changed(c.v, DV)}
      \cup UNION {{[c EXCEPT !.u[i] = f] : f \in Changed(c.u[i], DU)} : i \in Dim}

Next ==
  \/ \E d \in Seeds, z \in Zs : keygen(d, z)
  \/ \E m \in Messages : encaps(m)
  \/ \E c \in IF sent = None THEN {} ELSE Arrivals(sent.ct) : decaps(c)

Spec == Init /\ [][Next]_vars

-----------------------------------------------------------------------------
(* What decrypt finds beside the bits of m, modulo Q, when m is encrypted  *)
(* for the keys made of d: e * r + e2, less s * e1, and what rounding has  *)
(* changed.                                                                *)
Noise(d, m) ==
  LET pair == keypair(d)
      e    == OnVec(sample_noise([sigma |-> d], K, ETA1), ntt)
      x    == Drawn(coins(m, hash_h(pair.ek)))
      c    == Unrounded(pair.ek, m, x)
      f    == Decompressed(encrypt(pair.ek, m, coins(m, hash_h(pair.ek))))
      off  == Entries(Dim, LAMBDA i : reduce(PolyAdd(x.e1[i], PolySub(f.u[i], c.u[i]))))
      er   == invntt(pointwise_acc(OnVec(e, poly_tobytes), x.r))
      su   == invntt(pointwise_acc(pair.s, OnVec(off, ntt)))
  IN  Coeffs(LAMBDA i : (er[i] + x.e2[i] + (f.v[i] - c.v[i]) - su[i]) % Q)

(* The XOF fills the buffers, and the PRF gives the bits that are asked    *)
(* for, to whoever has the keys made of a d, or encrypts for them.         *)
Fills(stream) ==
  /\ stream \in Seq(Nat)
  /\ \A w \in DOMAIN WINDOWS : Filled(w - 1) \in 0 .. Filled(w) /\ Filled(w) \in 0 .. Len(stream)
Draws(bits) ==
  bits \in Seq({0, 1}) /\ \A eta \in {ETA1, ETA2} : 2 * eta * DEGREE <= Len(bits)
StreamsAssumption ==
  \A d \in Seeds :
    /\ \A i, j \in 0 .. K - 1 : Fills(Stream([rho |-> d], i, j))
    /\ \A nonce \in 0 .. 2 * K : Draws(Bits([sigma |-> d], nonce))
    /\ \A m \in Messages, nonce \in 0 .. 2 * K :
         Draws(Bits(coins(m, hash_h(keypair(d).ek)), nonce))

(* The noise is less than a quarter of Q, and a word holds the sums of two *)
(* coefficients of the products that encrypt transforms back.              *)
Fits(d, m) ==
  LET pair == keypair(d)
      n    == Noise(d, m)
      ar   == Products(pair.ek.rho, Drawn(coins(m, hash_h(pair.ek))).r)
  IN  /\ \A i \in Index : 4 * n[i] < Q - 1 \/ 4 * (Q - n[i]) < Q - 1
      /\ \A j \in Dim, i \in Index : -WORD < 4 * ar[j][i] /\ 4 * ar[j][i] < WORD

(* Both ends of an exchange have one secret: the noise, the rounding and   *)
(* the sums that are not reduced never exceed what decrypt can tell apart  *)
(* (kem.rs: encaps and decaps).                                            *)
DecapsAgrees ==
  got # None /\ got.ct = sent.ct => got.ss = sent.ss

(* Implicit rejection: a ciphertext changed in any field, one that         *)
(* decrypts to the same message included, gives the secret made of z and   *)
(* of itself, and no error (kem.rs: decaps).                               *)
RejectsChanged ==
  got # None /\ got.ct # sent.ct => got.ss = kdf(got.ct, dk.z)
=============================================================================
