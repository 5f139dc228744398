------------------------------ MODULE Field448 ------------------------------
(***************************************************************************)
(* FieldElement of x448/src/field.rs (and of ed448): numbers modulo        *)
(* 2^448 - 2^224 - 1 in eight limbs of 56 bits.  A carry out of the last   *)
(* limb comes back to the first and to the middle one.                     *)
(***************************************************************************)
EXTENDS Limbs

CONSTANTS A24      \* (A - 2) / 4 of the curve

HALF    == LIMBS \div 2
Top     == LIMBS - 1
MODULUS == BASE ^ LIMBS - BASE ^ HALF - 1
P       == LimbsOf(LAMBDA i : IF i = HALF THEN BASE - 2 ELSE BASE - 1)

from_bytes(n) == LimbsOf(LAMBDA i : (n \div (BASE ^ i)) % BASE)

(* What is above the last limb is worth as much in limbs 0 and HALF.       *)
WrapTop(v) ==
  LET carry == v[Top] \div BASE
  IN  [v EXCEPT ![Top] = @ % BASE, ![0] = @ + carry, ![HALF] = @ + carry]

weak_reduce(v) == CarryOn(CarryOn(WrapTop(CarryUp(v)), 0), HALF)

(* A difference of limbs: a borrow of one from the next limb when a limb   *)
(* is below zero, and whether there was one from behind the last.          *)
BorrowOn(v, i) == [v EXCEPT ![i] = @ % BASE,
                            ![i + 1] = @ - (IF v[i] < 0 THEN 1 ELSE 0)]
Difference(a, b) ==
  LET s == FoldLeft(BorrowOn, LimbsOf(LAMBDA i : a[i] - b[i]), Lower)
  IN  [below |-> s[Top] < 0, limbs |-> [s EXCEPT ![Top] = @ % BASE]]

SubtractP(t) == LET s == Difference(t, P) IN IF s.below THEN t ELSE s.limbs

reduce(v) ==
  SubtractP(SubtractP(SubtractP(weak_reduce(weak_reduce(weak_reduce(v))))))

(* Seven bytes of every limb.                                              *)
to_bytes(v) == Total([i \in Limb |-> reduce(v)[i] % BASE])

add(a, b) == weak_reduce(LimbsOf(LAMBDA i : a[i] + b[i]))

(* After a last borrow p is added back.                                    *)
AddP(v) == LET s == CarryUp(LimbsOf(LAMBDA i : v[i] + P[i]))
           IN  [s EXCEPT ![Top] = @ % BASE]
sub(a, b) == LET d == Difference(reduce(a), reduce(b))
             IN  IF d.below THEN AddP(d.limbs) ELSE d.limbs

(* ed448 takes the reduced limbs from p's, and so has p for zero; x448     *)
(* subtracts from zero.                                                    *)
neg(a) == Difference(P, reduce(a)).limbs

(* The columns of a product; those from LIMBS on are folded in from the    *)
(* last one downwards, so that what a fold leaves behind the last limb is  *)
(* folded after it.                                                        *)
Columns(a, b) ==
  [k \in 0 .. 2 * LIMBS - 1 |->
     FoldSet(LAMBDA i, c : c + a[i] * b[k - i], 0, {i \in Limb : k - i \in Limb})]
FoldColumn(c, k) ==
  LET hi == c[k]
      z  == [c EXCEPT ![k] = 0]
  IN  [z EXCEPT ![k - LIMBS] = @ + hi, ![k - HALF] = @ + hi]
Downwards(from, to) == [i \in 1 .. from - to + 1 |-> from - i + 1]

mul_inner(a, b) ==
  LET c == FoldLeft(FoldColumn, Columns(a, b),
                    Downwards(2 * LIMBS - 2, LIMBS)
                      \o Downwards(LIMBS + HALF - 1, LIMBS))
  IN  weak_reduce(WrapTop(CarryUp(LimbsOf(LAMBDA i : c[i]))))

mul_by_a24(e) == WrapTop(CarryUp(LimbsOf(LAMBDA i : A24 * e[i])))

is_zero(v) == reduce(v) = LimbsOf(LAMBDA i : 0)
eq(a, b)   == reduce(a) = reduce(b)

-----------------------------------------------------------------------------
(* A base is squared for every bit in turn, and multiplied in for some:    *)
(* the product of what bits from .. to give.                               *)
RECURSIVE BitByBit(_, _, _)
BitByBit(from, to, skipped) ==
  LET middle == (from + to) \div 2
  IN  IF from = to THEN IF from \in skipped THEN ToZero ELSE Squares(ToOne, from)
      ELSE Times(BitByBit(from, middle, skipped), BitByBit(middle + 1, to, skipped))

Skipped == {1, 224}
invert  == BitByBit(0, 447, Skipped)
pow_p_plus_1_div_4 == Squares(BitByBit(0, 223, {}), 222)

(* What inverts and takes roots modulo p = 2^448 - 2^224 - 1: p - 2, which *)
(* is 2^448 - 1 without 2^224 and 2, and (p + 1) / 4 = 2^446 - 2^222.      *)
PowersRight ==
  invert = (0 .. 447) \ {1, 224} /\ pow_p_plus_1_div_4 = 222 .. 445
=============================================================================
