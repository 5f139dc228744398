------------------------------- MODULE Ed448 --------------------------------
(***************************************************************************)
(* Ed448 (ed448/src): as Ed25519, with signatures bound to a context,      *)
(* scalars that are reduced by bytes, a clamped scalar that is reduced at  *)
(* once, and compressed points that have one more byte, of which but the   *)
(* sign's bit no bit may be set.                                           *)
(***************************************************************************)
EXTENDS PrimeField

CONSTANTS
  D, BASE_Y, L,     \* of the curve x^2 + y^2 = 1 + D x^2 y^2; base point
  YBITS,            \* bits of a y, and of a scalar's first bytes (448)
  OCTET,            \* values of a byte (256)
  SHAKE256(_),      \* the number of 114 bytes of output
  Lower(_),         \* that of the first 57 of them, of a seed
  Seeds, Messages, Contexts,
  OtherKeys, OtherSigs  \* bytes that no key or signature here was made of

Ed448Assumption ==
  /\ {D, BASE_Y} \subseteq Field /\ p < 2 ^ YBITS /\ p % 4 = 3
  /\ OCTET \in Nat \ {0, 1} /\ L < 2 ^ (YBITS - 2)
  /\ \A c \in Contexts : Len(c) < OCTET

VARIABLES
  signed,       \* history: seed, message and context, and the signature made
  verified      \* history: a verification and its outcome

eddsa == <<signed, verified>>

Nothing == [outcome |-> "none"]

-----------------------------------------------------------------------------
(* scalar.rs: three times the bytes from 56 on are multiplied by what      *)
(* 2^448 is modulo L, then L is subtracted as long as it can be.           *)
R_448 == (2 ^ YBITS) % L
FoldBytes(n) == (n % (2 ^ YBITS)) + ((n \div (2 ^ YBITS)) * R_448)
SubtractL(n) == n - L * (n \div L)
sc_reduce_wide(n) == SubtractL(FoldBytes(FoldBytes(FoldBytes(n))))

from_bytes_mod_order_wide(n) == sc_reduce_wide(n)

(* Eight limbs of seven bytes: byte 56 is left out.                        *)
Limbs56(n) == n % (2 ^ YBITS)
sc_muladd(a, b, c) == sc_reduce_wide((Limbs56(a) * Limbs56(b)) + Limbs56(c))
is_canonical(s) == s < L

-----------------------------------------------------------------------------
(* field.rs: x to (p + 1) / 4, when it is a root of x; <<>> for none.      *)
sqrt(x) == LET u1 == power(x, (p + 1) \div 4)
           IN  IF square(u1) = x THEN <<u1>> ELSE <<>>

-----------------------------------------------------------------------------
(* point.rs                                                                *)
Point(x, y) == [x |-> x, y |-> y, z |-> 1, t |-> mul(x, y)]
identity == Point(0, 1)

(* The x of a y that has this sign: the root, or what is negative of it.   *)
XOf(y, sign) ==
  LET y2   == square(y)
      root == sqrt(mul(sub(y2, 1), invert(sub(mul(D, y2), 1))))
  IN  IF root = <<>> THEN <<>>
      ELSE IF is_negative(root[1]) # sign THEN <<neg(root[1])>> ELSE root

basepoint == Point(XOf(BASE_Y, FALSE)[1], BASE_Y)

FromEFGH(e, f, g, h) ==
  [x |-> mul(e, f), y |-> mul(g, h), z |-> mul(f, g), t |-> mul(e, h)]

(* Mutant: a sum with Ed25519's sign of a.                                 *)
H0(a, b) == add(b, a)
H(a, b)  == sub(b, a)

add_internal(P, Q) ==
  LET a == mul(P.x, Q.x)
      b == mul(P.y, Q.y)
      c == mul(mul(P.t, D), Q.t)
      d == mul(P.z, Q.z)
  IN  FromEFGH(sub(sub(mul(add(P.x, P.y), add(Q.x, Q.y)), a), b),
               sub(d, c), add(d, c), H(a, b))

double_internal(P) ==
  LET a == square(P.x)
      b == square(P.y)
      g == add(a, b)
  IN  FromEFGH(sub(sub(square(add(P.x, P.y)), a), b),
               sub(g, double(square(P.z))), g, sub(a, b))

scalar_mul(P, s) ==
  FoldLeft(LAMBDA R, bit : LET R2 == double_internal(R)
                           IN  IF bit = 1 THEN add_internal(R2, P) ELSE R2,
           identity, BitsDown(s, YBITS))
basepoint_mul(s) == scalar_mul(basepoint, s)

negate(P)   == [P EXCEPT !.x = neg(@), !.t = neg(@)]
minus(P, Q) == add_internal(P, negate(Q))
ct_eq(P, Q) == mul(P.x, Q.z) = mul(Q.x, P.z) /\ mul(P.y, Q.z) = mul(Q.y, P.z)

to_bytes(P) ==
  LET x == mul(P.x, invert(P.z))
      y == mul(P.y, invert(P.z))
  IN  [y |-> y, last |-> IF is_negative(x) THEN OCTET \div 2 ELSE 0]

from_bytes(b) ==
  LET sign == b.last >= OCTET \div 2
      y    == b.y % p
      x    == XOf(y, sign)
  IN  IF b.last % (OCTET \div 2) # 0 \/ x = <<>> THEN <<>>
      ELSE IF x = <<0>> /\ sign THEN <<>> ELSE <<Point(x[1], y)>>

-----------------------------------------------------------------------------
(* lib.rs                                                                  *)
expand(seed) ==
  LET k == Lower(seed) % (2 ^ (YBITS - 1))
  IN  [scalar |-> sc_muladd(1, k - (k % 4) + 2 ^ (YBITS - 1), 0),
       nonce  |-> <<"prefix", seed>>]

public(seed) == to_bytes(basepoint_mul(expand(seed).scalar))

(* The context's length is one byte.                                       *)
dom4(context) == <<"SigEd448", 0, Len(context) % OCTET>>

sign_with_context(message, seed, context) ==
  LET a == expand(seed)
      r == from_bytes_mod_order_wide(
             SHAKE256(dom4(context) \o context \o <<a.nonce>> \o message))
      R == to_bytes(basepoint_mul(r))
      k == from_bytes_mod_order_wide(
             SHAKE256(dom4(context) \o context \o <<R, public(seed)>> \o message))
  IN  [R |-> R, s |-> sc_muladd(k, a.scalar, r)]

verify_with_context(message, sig, pk, context) ==
  LET r_point == from_bytes(sig.R)
      a_point == from_bytes(pk)
      k  == from_bytes_mod_order_wide(
              SHAKE256(dom4(context) \o context \o <<sig.R, pk>> \o message))
      ka == scalar_mul(a_point[1], k)
  IN  IF r_point = <<>> THEN "MalformedSignature"
      ELSE IF ~ is_canonical(sig.s) THEN "NonCanonicalScalar"
      ELSE IF a_point = <<>> THEN "InvalidPublicKey"
      ELSE IF ct_eq(minus(basepoint_mul(sig.s), ka), r_point[1]) THEN "Ok"
      ELSE "InvalidSignature"

-----------------------------------------------------------------------------
EddsaInit == signed = Nothing /\ verified = Nothing

(* Keypair::sign and, with a context, Keypair::sign_with_context.          *)
Sign ==
  /\ signed = Nothing
  /\ \E seed \in Seeds, m \in Messages, ctx \in {<<>>} \cup Contexts :
       signed' = [outcome |-> "signed", seed |-> seed, message |-> m,
                  context |-> ctx, public |-> public(seed),
                  sig |-> sign_with_context(m, seed, ctx)]
  /\ UNCHANGED verified

Requests ==
  LET sig  == signed.sig
      with(m, ctx, g, pk) == [message |-> m, context |-> ctx, sig |-> g, public |-> pk]
      own(g, pk) == with(signed.message, signed.context, g, pk)
  IN  {with(m, ctx, sig, signed.public) : m \in Messages, ctx \in Contexts}
      \cup {own(g, signed.public) :
              g \in OtherSigs \cup {[sig EXCEPT !.s = @ + i] : i \in {1, L, 2 ^ YBITS}}
                              \cup {[sig EXCEPT !.R = R] : R \in OtherKeys}}
      \cup {own(g, pk) : g \in {sig} \cup OtherSigs, pk \in OtherKeys}

Verify ==
  /\ signed # Nothing /\ verified = Nothing
  /\ \E q \in Requests :
       verified' = [message |-> q.message, context |-> q.context, sig |-> q.sig,
                    public |-> q.public,
                    outcome |-> verify_with_context(q.message, q.sig, q.public, q.context)]
  /\ UNCHANGED signed

EddsaNext == Sign \/ Verify

-----------------------------------------------------------------------------
Curve == [a |-> 1, d |-> D]
Base  == CHOOSE P \in PointsOf(Curve, BASE_Y, FALSE) : TRUE

(* The point of the bytes, in RFC 8032 (5.2.3) none for a y that is not    *)
(* below p; and that of the y modulo p.                                    *)
InRange(b) == b.y < p
ModuloP(b) == IF b.last \in {0, OCTET \div 2}
              THEN PointsOf(Curve, b.y % p, b.last # 0) ELSE {}
Decoded(b) == IF InRange(b) THEN ModuloP(b) ELSE {}
Domain(context) == <<"SigEd448", 0, Len(context)>> \o context

(* A signature is what RFC 8032 says, computed with points of the curve,   *)
(* and verifies under its context.                                         *)
SignsAsSpecified ==
  signed # Nothing =>
    LET g == signed.sig
        a == expand(signed.seed)
        in(parts) == SHAKE256(Domain(signed.context) \o parts \o signed.message)
        r == in(<<a.nonce>>)
        k == in(<<g.R, signed.public>>)
    IN  /\ Decoded(g.R) = {Multiple(Curve, r % L, Base)}
        /\ Decoded(signed.public) = {Multiple(Curve, a.scalar, Base)}
        /\ g.s = (((k % L) * a.scalar) + (r % L)) % L
        /\ verify_with_context(signed.message, g, signed.public, signed.context) = "Ok"

(* s is below L, and s B = R + k A for points R and A that the bytes of R  *)
(* and of the key are decoded to, where k is of the context as well.       *)
Holds(q, decoded(_)) ==
  LET k == SHAKE256(Domain(q.context) \o <<q.sig.R, q.public>> \o q.message)
  IN  /\ q.sig.s < L
      /\ \E R \in decoded(q.sig.R), A \in decoded(q.public) :
           Multiple(Curve, q.sig.s, Base) = Sum(Curve, R, Multiple(Curve, k % L, A))

(* When the y of R and of the key are below p, verify accepts exactly what *)
(* RFC 8032 does.  When one is not, which the RFC refuses, verify goes by  *)
(* the points of the y modulo p, with k of the bytes as they are.          *)
VerifiesExactly ==
  verified # Nothing =>
    LET accepted == verified.outcome = "Ok"
        inRange  == InRange(verified.sig.R) /\ InRange(verified.public)
    IN  /\ inRange   => (accepted <=> Holds(verified, Decoded))
        /\ ~ inRange => (accepted <=> Holds(verified, ModuloP))
=============================================================================
