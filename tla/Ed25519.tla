------------------------------ MODULE Ed25519 -------------------------------
(***************************************************************************)
(* Ed25519 (ed25519/src): keys, signatures and their verification, over    *)
(* points in extended coordinates (X : Y : Z : T), with x = X / Z,         *)
(* y = Y / Z and x y = T / Z.  Scalars and compressed points are the       *)
(* numbers of their bytes; SHA-512 is an ideal function of its inputs'     *)
(* parts.                                                                  *)
(*                                                                         *)
(* Scalars are reduced as Scalar25519 shows they are: a residue from 2^252 *)
(* on comes out as itself minus L, below zero, in the bytes.               *)
(***************************************************************************)
EXTENDS PrimeField

CONSTANTS
  D, SQRT_M1,       \* of the curve -x^2 + y^2 = 1 + D x^2 y^2; root of -1
  BASE_X, BASE_Y, L,    \* the base point and its order
  YBITS, SBITS,     \* bits of a y (255); the bit below L's highest (252)
  SCALAR,           \* bits of a scalar's bytes (256)
  SHA512(_), Lower(_),  \* the numbers of a digest's bytes; of its lower half
  Seeds, Messages,
  OtherKeys, OtherSigs  \* bytes that no key or signature here was made of

Ed25519Assumption ==
  /\ {D, SQRT_M1, BASE_X, BASE_Y} \subseteq Field /\ p < 2 ^ YBITS
  /\ mul(SQRT_M1, SQRT_M1) = p - 1 /\ p % 8 = 5
  /\ 2 ^ SBITS < L /\ L < 2 ^ (SBITS + 1) /\ SBITS + 2 <= SCALAR

VARIABLES
  signed,       \* history: a seed and a message, and the signature made
  verified      \* history: a verification and its outcome

eddsa == <<signed, verified>>

Nothing == [outcome |-> "none"]

-----------------------------------------------------------------------------
(* scalar.rs, as Scalar25519 has it                                        *)
Reduced(n) ==
  LET r == n % L IN IF r < 2 ^ SBITS THEN r ELSE (r - L) % (2 ^ SCALAR)
from_bytes_mod_order_wide(n) == Reduced(n)
sc_muladd(a, b, c) == Reduced(((a % L) * (b % L)) + c)
is_canonical0(s) == TRUE            \* mutant: s is not looked at
is_canonical(s)  == s < L

-----------------------------------------------------------------------------
(* field.rs: a root of x, its power (p + 3) / 8 or this times the root of  *)
(* -1, if one of them is; <<>> for none.                                   *)
sqrt(x) ==
  LET u1 == power(x, (p + 3) \div 8)
      u2 == mul(u1, SQRT_M1)
  IN  IF square(u1) = x THEN <<u1>> ELSE IF square(u2) = x THEN <<u2>> ELSE <<>>

-----------------------------------------------------------------------------
(* point.rs                                                                *)
Point(x, y) == [x |-> x, y |-> y, z |-> 1, t |-> mul(x, y)]
identity  == Point(0, 1)
basepoint == Point(BASE_X, BASE_Y)

FromEFGH(e, f, g, h) ==
  [x |-> mul(e, f), y |-> mul(g, h), z |-> mul(f, g), t |-> mul(e, h)]

add_internal(P, Q) ==
  LET a == mul(P.x, Q.x)
      b == mul(P.y, Q.y)
      c == mul(mul(P.t, D), Q.t)
      d == mul(P.z, Q.z)
  IN  FromEFGH(sub(sub(mul(add(P.x, P.y), add(Q.x, Q.y)), a), b),
               sub(d, c), add(d, c), add(b, a))

double_internal(P) ==
  LET a == square(P.x)
      b == square(P.y)
      d == neg(a)
      g == add(d, b)
  IN  FromEFGH(sub(sub(square(add(P.x, P.y)), a), b),
               sub(g, double(square(P.z))), g, sub(d, b))

(* Over every bit of the scalar's bytes, those above L's too.              *)
scalar_mul(P, s) ==
  FoldLeft(LAMBDA R, bit : LET R2 == double_internal(R)
                           IN  IF bit = 1 THEN add_internal(R2, P) ELSE R2,
           identity, BitsDown(s, SCALAR))
basepoint_mul(s) == scalar_mul(basepoint, s)

negate(P)   == [P EXCEPT !.x = neg(@), !.t = neg(@)]
minus(P, Q) == add_internal(P, negate(Q))
ct_eq(P, Q) == mul(P.x, Q.z) = mul(Q.x, P.z) /\ mul(P.y, Q.z) = mul(Q.y, P.z)

to_bytes(P) ==
  LET x == mul(P.x, invert(P.z))
      y == mul(P.y, invert(P.z))
  IN  y + (IF is_negative(x) THEN 2 ^ YBITS ELSE 0)

(* A y that is not below p is taken modulo p; <<>> when there is no x, and *)
(* for an x of 0 with a sign.                                              *)
from_bytes(n) ==
  LET sign == n \div (2 ^ YBITS) = 1
      y    == (n % (2 ^ YBITS)) % p
      y2   == square(y)
      root == sqrt(mul(sub(y2, 1), invert(add(mul(D, y2), 1))))
      x    == IF is_negative(root[1]) # sign THEN neg(root[1]) ELSE root[1]
  IN  IF root = <<>> \/ (x = 0 /\ sign) THEN <<>> ELSE <<Point(x, y)>>

-----------------------------------------------------------------------------
(* lib.rs: of a seed's digest one half is clamped, and not reduced; the    *)
(* other one is the secret prefix that r is made of.                       *)
expand(seed) ==
  LET k == Lower(seed)
      c == (k - (k % 8)) % (2 ^ (SCALAR - 2))
  IN  [scalar |-> c + 2 ^ (SCALAR - 2), nonce |-> <<"prefix", seed>>]

public(seed) == to_bytes(basepoint_mul(expand(seed).scalar))

sign(message, seed) ==
  LET a == expand(seed)
      r == from_bytes_mod_order_wide(SHA512(<<a.nonce, message>>))
      R == to_bytes(basepoint_mul(r))
      k == from_bytes_mod_order_wide(SHA512(<<R, public(seed), message>>))
  IN  [R |-> R, s |-> sc_muladd(k, a.scalar, r)]

verify(message, sig, pk) ==
  LET r_point == from_bytes(sig.R)
      a_point == from_bytes(pk)
      k  == from_bytes_mod_order_wide(SHA512(<<sig.R, pk, message>>))
      ka == scalar_mul(a_point[1], k)
  IN  IF r_point = <<>> THEN "MalformedSignature"
      ELSE IF ~ is_canonical(sig.s) THEN "NonCanonicalScalar"
      ELSE IF a_point = <<>> THEN "InvalidPublicKey"
      ELSE IF ct_eq(minus(basepoint_mul(sig.s), ka), r_point[1]) THEN "Ok"
      ELSE "InvalidSignature"

-----------------------------------------------------------------------------
EddsaInit == signed = Nothing /\ verified = Nothing

(* Keypair::sign                                                           *)
Sign ==
  /\ signed = Nothing
  /\ \E seed \in Seeds, m \in Messages :
       signed' = [outcome |-> "signed", seed |-> seed, message |-> m,
                  public |-> public(seed), sig |-> sign(m, seed)]
  /\ UNCHANGED verified

(* The same signature with another message, key, R or s, and an s that is  *)
(* the same modulo L.                                                      *)
Requests ==
  LET sig  == signed.sig
      with(m, g, pk) == [message |-> m, sig |-> g, public |-> pk]
  IN  {with(m, sig, signed.public) : m \in Messages}
      \cup {with(signed.message, g, signed.public) :
              g \in OtherSigs \cup {[sig EXCEPT !.s = @ + i] : i \in {1, L, 2 * L}}
                              \cup {[sig EXCEPT !.R = R] : R \in OtherKeys}}
      \cup {with(signed.message, g, pk) : g \in {sig} \cup OtherSigs, pk \in OtherKeys}

Verify ==
  /\ signed # Nothing /\ verified = Nothing
  /\ \E q \in Requests :
       verified' = [message |-> q.message, sig |-> q.sig, public |-> q.public,
                    outcome |-> verify(q.message, q.sig, q.public)]
  /\ UNCHANGED signed

EddsaNext == Sign \/ Verify

-----------------------------------------------------------------------------
Curve == [a |-> p - 1, d |-> D]
Base  == Affine(BASE_X, BASE_Y)

(* The point of the bytes, in RFC 8032 (5.1.3) none for a y that is not    *)
(* below p; and that of the y modulo p.                                    *)
InRange(n)  == n % (2 ^ YBITS) < p
ModuloP(n)  == PointsOf(Curve, (n % (2 ^ YBITS)) % p, n >= 2 ^ YBITS)
Decoded(n)  == IF InRange(n) THEN ModuloP(n) ELSE {}

(* The residues scalar.rs reduces to themselves.                           *)
Usual(n) == n % L < 2 ^ SBITS

(* Outside the residues that scalar.rs does not reduce: a signature is     *)
(* what RFC 8032 says, computed with points of the curve, and verifies.    *)
SignsAsSpecified ==
  signed # Nothing =>
    LET g == signed.sig
        a == expand(signed.seed)
        r == SHA512(<<a.nonce, signed.message>>)
        k == SHA512(<<g.R, signed.public, signed.message>>)
        s == ((k % L) * (a.scalar % L)) + (r % L)
    IN  Usual(r) /\ Usual(k) /\ Usual(s) =>
          /\ Decoded(g.R) = {Multiple(Curve, r % L, Base)}
          /\ Decoded(signed.public) = {Multiple(Curve, a.scalar, Base)}
          /\ g.s = s % L
          /\ verify(signed.message, g, signed.public) = "Ok"

(* s is below L, and s B = R + k A for points R and A that the bytes of R  *)
(* and of the key are decoded to.                                          *)
Holds(q, k, decoded(_)) ==
  /\ q.sig.s < L
  /\ \E R \in decoded(q.sig.R), A \in decoded(q.public) :
       Multiple(Curve, q.sig.s, Base) = Sum(Curve, R, Multiple(Curve, k % L, A))

KOf(q) == SHA512(<<q.sig.R, q.public, q.message>>)

(* Outside those residues: when the y of R and of the key are below p,     *)
(* verify accepts exactly what RFC 8032 does, points of small order as     *)
(* well.  When one is not, which the RFC refuses, verify goes by the       *)
(* points of the y modulo p, with k of the bytes as they are.              *)
VerifiesExactly ==
  verified # Nothing /\ Usual(KOf(verified)) =>
    LET accepted == verified.outcome = "Ok"
        inRange  == InRange(verified.sig.R) /\ InRange(verified.public)
    IN  /\ inRange   => (accepted <=> Holds(verified, KOf(verified), Decoded))
        /\ ~ inRange => (accepted <=> Holds(verified, KOf(verified), ModuloP))

(* Outside those residues: verify accepts exactly what RFC 8032 does, as   *)
(* the crate says (lib.rs:3, point.rs:91).                                 *)
VerifiesAsSpecified ==
  verified # Nothing /\ Usual(KOf(verified)) =>
    (verified.outcome = "Ok" <=> Holds(verified, KOf(verified), Decoded))
=============================================================================
