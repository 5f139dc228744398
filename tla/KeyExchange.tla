---------------------------- MODULE KeyExchange -----------------------------
(***************************************************************************)
(* X25519 and X448 (x25519/src/lib.rs, x448/src/lib.rs): a ladder over the *)
(* bits of a clamped key, that multiplies whatever u the bytes of a public *)
(* key give: a point of the curve, of its twist, of small order, or one    *)
(* whose bytes are not below the prime.                                    *)
(*                                                                         *)
(* Keys, and public keys, are the numbers of their bytes.                  *)
(***************************************************************************)
EXTENDS PrimeField

CONSTANTS
  SCHEME,         \* "x25519" or "x448": which clamp_scalar
  BITS,           \* bits the ladder walks through (255; 448)
  SPARE,          \* bits of the bytes above them (1; 0)
  A24, BASEPOINT_U,
  Keys, Publics   \* bytes of secret keys, of public keys of nobody known

Bytes == 0 .. 2 ^ (BITS + SPARE) - 1
KeyExchangeAssumption ==
  /\ SCHEME \in {"x25519", "x448"}
  /\ BITS \in Nat /\ SPARE \in {0, 1} /\ p < 2 ^ BITS
  /\ Keys \subseteq Bytes /\ Publics \subseteq Bytes

VARIABLES
  secrets,      \* what the keypairs that were generated have for a secret
  shared        \* history: a diffie_hellman

exchange == <<secrets, shared>>

NotYet == [outcome |-> "none"]

-----------------------------------------------------------------------------
(* A bit of the bytes is set, low ones are cleared.                        *)
Cleared(k, n) == k - (k % (2 ^ n))
Set(k, i)     == IF (k \div (2 ^ i)) % 2 = 1 THEN k ELSE k + 2 ^ i

clamp_x25519(k) == Set(Cleared(k, 3) % (2 ^ BITS), BITS - 1)
clamp_x448(k)   == Set(Cleared(k, 2), BITS - 1)

(* Both fields take a value that is not below p for what it is modulo p.   *)
from_bytes(u) == (u % (2 ^ BITS)) % p

Swapped(s, choice) ==
  IF choice = 1
  THEN [s EXCEPT !.x2 = s.x3, !.z2 = s.z3, !.x3 = s.x2, !.z3 = s.z2]
  ELSE s

(* Mutant: the next bit alone, without the swap that is due of the last.   *)
Due0(swap, k_t) == k_t
Due(swap, k_t)  == (swap + k_t) % 2

(* A swap that is undone by the next one is not made in between.           *)
LadderStep(x1, s, k_t) ==
  LET t   == Swapped(s, Due(s.swap, k_t))
      a   == add(t.x2, t.z2)
      b   == sub(t.x2, t.z2)
      aa  == square(a)
      bb  == square(b)
      e   == sub(aa, bb)
      da  == mul(sub(t.x3, t.z3), a)
      cb  == mul(add(t.x3, t.z3), b)
  IN  [x3 |-> square(add(da, cb)), z3 |-> mul(x1, square(sub(da, cb))),
       x2 |-> mul(aa, bb), z2 |-> mul(e, add(aa, mul(A24, e))), swap |-> k_t]

montgomery_ladder(k, u) ==
  LET x1    == from_bytes(u)
      start == [x2 |-> 1, z2 |-> 0, x3 |-> x1, z3 |-> 1, swap |-> 0]
      s     == FoldLeft(LAMBDA r, k_t : LadderStep(x1, r, k_t), start, BitsDown(k, BITS))
      t     == Swapped(s, s.swap)
  IN  mul(t.x2, invert(t.z2))

x25519(k, u) == montgomery_ladder(clamp_x25519(k), u)
x448(k, u)   == montgomery_ladder(clamp_x448(k), u)
Scheme(k, u) == IF SCHEME = "x25519" THEN x25519(k, u) ELSE x448(k, u)
Clamped(k)   == IF SCHEME = "x25519" THEN clamp_x25519(k) ELSE clamp_x448(k)

public_key(k) == Scheme(k, BASEPOINT_U)

is_contributory(out) == out # 0

-----------------------------------------------------------------------------
ExchangeInit == secrets = <<>> /\ shared = NotYet

(* generate_keypair: rng fills the secret's bytes.                         *)
generate_keypair ==
  /\ Len(secrets) < 2
  /\ \E k \in Keys : secrets' = Append(secrets, k)
  /\ UNCHANGED shared

(* One party's side, with the other's public key or with any bytes; it     *)
(* leaves nothing behind that a second one could see.                      *)
diffie_hellman ==
  /\ Len(secrets) = 2 /\ shared = NotYet
  /\ \E i \in 1 .. 2 :
     \E u \in {public_key(secrets[3 - i])} \cup Publics :
       LET out == Scheme(secrets[i], u)
       IN  shared' = [outcome |-> "shared", by |-> i, u |-> u, out |-> out,
                      contributory |-> is_contributory(out)]
  /\ UNCHANGED secrets

ExchangeNext == generate_keypair \/ diffie_hellman

-----------------------------------------------------------------------------
(* The curve v^2 = u^3 + A u^2 + u and, where that is no square, its twist *)
(* c v^2 = ..: points, with the group law of textbooks.                    *)
CurveA == add(mul(4, A24), 2)
Cubic(u) == mul(u, add(square(u), add(mul(CurveA, u), 1)))
RootsOf(x) == {v \in Field : square(v) = x}
NonSquare == CHOOSE c \in Field : c # 0 /\ RootsOf(c) = {}
Twisted(u) == IF RootsOf(Cubic(u)) # {} THEN 1 ELSE NonSquare

Infinity == <<>>
MontgomerySum(c, P, Q) ==
  LET slope == IF P[1] = Q[1]
               THEN mul(add(add(mul(3, square(P[1])), mul(2, mul(CurveA, P[1]))), 1),
                        invert(mul(c, mul(2, P[2]))))
               ELSE mul(sub(Q[2], P[2]), invert(sub(Q[1], P[1])))
      u == sub(sub(sub(mul(c, square(slope)), CurveA), P[1]), Q[1])
  IN  IF P = Infinity THEN Q
      ELSE IF Q = Infinity THEN P
      ELSE IF P[1] = Q[1] /\ P[2] = neg(Q[2]) THEN Infinity
      ELSE <<u, sub(mul(slope, sub(P[1], u)), P[2])>>
MontgomeryMultiple(c, n, P) ==
  FoldLeft(LAMBDA R, b : LET R2 == MontgomerySum(c, R, R)
                         IN  IF b = 1 THEN MontgomerySum(c, R2, P) ELSE R2,
           Infinity, BitsDown(n, BITS))

(* The u of n times a point that has u; of none of it, and of infinity, 0. *)
TimesU(n, u) ==
  LET c == Twisted(u)
      v == CHOOSE w \in Field : mul(c, square(w)) = Cubic(u)
      R == MontgomeryMultiple(c, n, <<u, v>>)
  IN  IF R = Infinity THEN 0 ELSE R[1]

(* diffie_hellman gives the u of the clamped key times the point, for      *)
(* every public key's bytes, is contributory unless this is 0, and the     *)
(* parties' own public keys give both of them one secret.                  *)
SharedAgrees ==
  shared.outcome = "shared" =>
    LET k == secrets[shared.by]
        l == secrets[3 - shared.by]
        u == TimesU(Clamped(k), (shared.u % (2 ^ BITS)) % p)
    IN  /\ shared.out = u
        /\ shared.contributory <=> u # 0
        /\ shared.u = public_key(l) => shared.out = Scheme(l, public_key(k))
=============================================================================
