----------------------------- MODULE Field25519 -----------------------------
(***************************************************************************)
(* FieldElement of x25519/src/field.rs (and, word for word, of ed25519):   *)
(* numbers modulo 2^255 - 19 in five limbs of 51 bits, of which every      *)
(* operation leaves limb 1 with a carry still in it.  Only reduce, that    *)
(* to_bytes and the comparisons begin with, makes the limbs unique.        *)
(***************************************************************************)
EXTENDS Limbs

CONSTANTS
  FOLD, A24,      \* 2^255 modulo p (19); (A - 2) / 4 of the curve
  WORD            \* values of a limb's word (2^64)

MODULUS == BASE ^ LIMBS - FOLD
Top     == LIMBS - 1
P       == LimbsOf(LAMBDA i : IF i = 0 THEN BASE - FOLD ELSE BASE - 1)

(* The last bit of the bytes is not looked at.                             *)
from_bytes(n) == LimbsOf(LAMBDA i : (n \div (BASE ^ i)) % BASE)

carry_propagate(v) == CarryOn(Move(CarryUp(v), Top, 0, FOLD), 0)

reduce(v) ==
  LET t == carry_propagate(v)
      s == CarryUp(LimbsOf(LAMBDA i : t[i] - P[i]))
  IN  IF s[Top] < 0 THEN t ELSE s

(* The limbs are put side by side with OR, and not added.                  *)
Together(t) == Number(UNION {{b + WIDTH * i : b \in Bits(t[i])} : i \in Limb})
to_bytes(v) == Together(reduce(v))

add(a, b) == carry_propagate(LimbsOf(LAMBDA i : a[i] + b[i]))

(* 2p is added first, so that no limb goes below zero, where the word of a *)
(* release build wraps.                                                    *)
Bias0(i)  == P[i]                       \* mutant: p is enough
Bias(i)   == 2 * P[i]
sub(a, b) ==
  carry_propagate(LimbsOf(LAMBDA i : ((a[i] + Bias(i)) - b[i]) % WORD))
neg(a)    == sub(LimbsOf(LAMBDA i : 0), a)

(* Columns behind the last one come back to the first with FOLD.           *)
Column(a, b, k) ==
  FoldLeft(LAMBDA c, i : c + a[i - 1] * (IF i - 1 <= k THEN b[k - i + 1]
                                         ELSE FOLD * b[LIMBS + k - i + 1]),
           0, [i \in 1 .. LIMBS |-> i])
mul_inner(a, b) == carry_propagate(LimbsOf(LAMBDA k : Column(a, b, k)))

(* The last carry comes back to limb 0, and stays there.                   *)
mul_by_a24(e) == Move(CarryUp(LimbsOf(LAMBDA i : A24 * e[i])), Top, 0, FOLD)

is_zero(v) == reduce(v) = LimbsOf(LAMBDA i : 0)
eq(a, b)   == reduce(a) = reduce(b)

-----------------------------------------------------------------------------
(* To 2^250 - 1, from 2^5 - 1, as in both of the chains.                   *)
Doubled(a, n)  == Times(Squares(a, n), a)
Ones250(ones5) ==
  LET ones10  == Doubled(ones5, 5)
      ones20  == Doubled(ones10, 10)
      ones40  == Doubled(ones20, 20)
      ones50  == Times(Squares(ones40, 10), ones10)
      ones100 == Doubled(ones50, 50)
      ones200 == Doubled(ones100, 100)
  IN  Times(Squares(ones200, 50), ones50)

invert ==
  LET z2  == Squares(ToOne, 1)
      z9  == Times(Squares(z2, 2), ToOne)
      z11 == Times(z9, z2)
  IN  Times(Squares(Ones250(Times(Squares(z11, 1), z9)), 5), z11)

pow_p_plus_3_div_8 ==
  LET x2  == Squares(ToOne, 1)
      x3  == Times(x2, ToOne)
      x7  == Times(Squares(x3, 1), ToOne)
      x31 == Times(Squares(x7, 2), x3)
  IN  Times(Squares(Ones250(x31), 2), x2)

(* What inverts and takes roots modulo p = 2^255 - 19: p - 2, which is     *)
(* 2^255 - 1 without 20, and (p + 3) / 8 = 2^252 - 2.                      *)
PowersRight == invert = (0 .. 254) \ {2, 4} /\ pow_p_plus_3_div_8 = 1 .. 251
=============================================================================
