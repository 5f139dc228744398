----------------------------- MODULE PrimeField -----------------------------
(***************************************************************************)
(* The field of the curve crates, by value (ed25519/src/field.rs): what    *)
(* its limbs do, and which powers its chains raise to, is in Field25519    *)
(* and Field448.                                                           *)
(***************************************************************************)
EXTENDS Integers, SequencesExt

CONSTANT p

Field == 0 .. p - 1

add(a, b) == (a + b) % p
sub(a, b) == (a - b) % p
mul(a, b) == (a * b) % p
neg(a)    == (-a) % p
square(a) == mul(a, a)
double(a) == add(a, a)

(* Bits of a number, from the highest of n on.                             *)
BitsDown(x, n) == [i \in 1 .. n |-> (x \div (2 ^ (n - i))) % 2]
power(x, e) ==
  FoldLeft(LAMBDA r, b : IF b = 1 THEN mul(square(r), x) ELSE square(r), 1,
           BitsDown(e, 10))
invert(x) == power(x, p - 2)            \* of 0 it is 0

is_negative(x) == x % 2 = 1

-----------------------------------------------------------------------------
(* What Ed25519 and Ed448 are to agree with: points of the curve           *)
(* c.a x^2 + y^2 = 1 + c.d x^2 y^2 by their affine coordinates, with the   *)
(* group law of the textbooks.                                             *)
Affine(x, y) == [x |-> x, y |-> y]

Sum(c, P, Q) ==
  LET t == mul(c.d, mul(mul(P.x, Q.x), mul(P.y, Q.y)))
  IN  Affine(mul(add(mul(P.x, Q.y), mul(P.y, Q.x)), invert(add(1, t))),
             mul(sub(mul(P.y, Q.y), mul(c.a, mul(P.x, Q.x))), invert(sub(1, t))))

Multiple(c, n, P) ==
  FoldLeft(LAMBDA R, b : LET R2 == Sum(c, R, R) IN IF b = 1 THEN Sum(c, R2, P) ELSE R2,
           Affine(0, 1), BitsDown(n, 10))

(* The point of the curve with this y whose x has this sign, if any.       *)
PointsOf(c, y, sign) ==
  LET w == mul(sub(1, square(y)), invert(sub(c.a, mul(c.d, square(y)))))
  IN  {Affine(x, y) : x \in {r \in Field : (r * r) % p = w /\ (r % 2 = 1) = sign}}
=============================================================================
