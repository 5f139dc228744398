------------------------------- MODULE Limbs --------------------------------
(***************************************************************************)
(* Numbers in limbs, as every field and scalar type of the curve crates    *)
(* has them: limb i stands for BASE^i times its value, may hold more than  *)
(* BASE - 1 until its carry is moved on, and may be negative where the     *)
(* code's words are signed.  A shift right rounds down and a mask takes    *)
(* what is left, of negative words too.                                    *)
(***************************************************************************)
EXTENDS Integers, SequencesExt

CONSTANTS WIDTH, LIMBS      \* bits of a limb and limbs of a number

BASE  == 2 ^ WIDTH
Limb  == 0 .. LIMBS - 1
Lower == [i \in 1 .. LIMBS - 1 |-> i - 1]       \* every limb but the last

(* The carry of limb i moves into limb j, multiplied by what BASE^(i - j)  *)
(* is modulo the number computed with.                                     *)
Move(v, i, j, factor) ==
  LET carry == v[i] \div BASE
  IN  [v EXCEPT ![i] = @ % BASE, ![j] = @ + carry * factor]

CarryOn(v, i) == Move(v, i, i + 1, 1)
CarryUp(v)    == FoldLeft(CarryOn, v, Lower)

(* Sums are cheap to write out once: TLC evaluates @@ at once.             *)
LimbsOf(Op(_)) == [i \in Limb |-> Op(i)] @@ <<>>

Total(v) == FoldLeft(LAMBDA n, i : n * BASE + v[LIMBS - i], 0, [i \in 1 .. LIMBS |-> i])

(* The chains of squares and products are at their real size: a power of   *)
(* an element is the set of its exponent's bits, so that a product of      *)
(* powers is the exponents' sum.                                           *)
RECURSIVE Times(_, _)
Times(a, b) ==            \* bits in both are carried
  IF a \cap b = {} THEN a \cup b
  ELSE Times((a \cup b) \ (a \cap b), {i + 1 : i \in a \cap b})

Squares(a, n) == {i + n : i \in a}

ToZero == {}
ToOne  == {0}

(* The bits of x, and what has these bits.                                 *)
Bits(x)    == {b \in 0 .. 29 : x >= 2 ^ b /\ (x \div 2 ^ b) % 2 = 1}
Number(bs) == FoldSet(LAMBDA b, n : n + 2 ^ b, 0, bs)
=============================================================================
