---------------------------- MODULE Scalar25519 -----------------------------
(***************************************************************************)
(* The scalars of ed25519/src/scalar.rs: numbers modulo                    *)
(* L = 2^252 + c in twelve limbs of 21 bits, reduced from twenty-four      *)
(* signed ones by folding what stands for 2^252 and more into the limbs    *)
(* twelve below it, times -c.                                              *)
(***************************************************************************)
EXTENDS Limbs

CONSTANTS
  C,            \* -c in signed limbs (L0 .. L5), a function from 0 on
  BYTES,        \* values of a scalar's bytes (2^256)
  WORD          \* values of an i64 (2^64)

HALF == Cardinality(DOMAIN C)           \* half as many as a number has
L    == BASE ^ LIMBS
          - FoldSet(LAMBDA i, n : n + C[i] * BASE ^ i, 0, DOMAIN C)

Scalar25519Assumption ==
  /\ DOMAIN C = 0 .. HALF - 1 /\ LIMBS = 2 * HALF /\ HALF % 2 = 0
  /\ BASE ^ LIMBS < L /\ 2 * L < BYTES
  /\ \A i \in DOMAIN C : -BASE <= 2 * C[i] /\ 2 * C[i] <= BASE

(* The bytes' limbs, the last of which has what bits there still are.      *)
Wide == 0 .. 2 * LIMBS - 1
load(n, last) ==
  [i \in Wide |-> IF i < last THEN (n \div (BASE ^ i)) % BASE
                  ELSE IF i = last THEN n \div (BASE ^ i) ELSE 0] @@ <<>>
load_12_from_32(n) == load(n, LIMBS - 1)
load_24_from_64(n) == load(n, 2 * LIMBS - 1)

(* Bytes are OR-ed of limbs; a last limb below zero is all ones from there.*)
pack_12_to_32(s) ==
  FoldSet(LAMBDA i, n : n + s[i] * BASE ^ i, 0, Limb) % BYTES

I64(x) == ((x + WORD \div 2) % WORD) - (WORD \div 2)

fold(s, k) ==
  [i \in Wide |-> IF i = k THEN 0
                  ELSE IF i - (k - LIMBS) \in DOMAIN C
                    THEN I64(s[i] + s[k] * C[i - (k - LIMBS)]) ELSE s[i]] @@ <<>>

(* A carry to the nearest, that leaves a limb of either sign, or downwards.*)
Rounded(s, i) ==
  LET carry == (s[i] + BASE \div 2) \div BASE
  IN  [s EXCEPT ![i] = @ - carry * BASE, ![i + 1] = I64(@ + carry)]

(* Limbs from .. to, each second or each one, upwards or downwards.        *)
Every(step, from, to) == [j \in 1 .. (to - from) \div step + 1 |-> from + step * (j - 1)]
Down(from, to)        == [j \in 1 .. from - to + 1 |-> from - j + 1]

Folds(s, from, to) == FoldLeft(fold, s, Down(from, to))
RoundedCarries(s, first, last) ==
  FoldLeft(Rounded, s, Every(2, first, last - 1) \o Every(2, first + 1, last))
Carries(s, last) == FoldLeft(CarryOn, s, Every(1, 0, last))

(* Mutant: the product's columns are folded as they are.                   *)
first_carry_pass_24_none(s) == s

first_carry_pass_24(s) ==
  FoldLeft(Rounded, s, Every(2, 0, 2 * LIMBS - 2) \o Every(2, 1, 2 * LIMBS - 3))

(* Two rounds of folds, the second of which leaves no limb above the last  *)
(* but for a carry; then twice the carry out of the last limb is folded,   *)
(* and a third time what that one gave.                                    *)
sc_reduce_24(s) ==
  LET a == Folds(s, 2 * LIMBS - 1, LIMBS + HALF)
      b == FoldLeft(Rounded, a, Every(2, HALF, LIMBS + HALF - 2)
                                  \o Every(2, HALF + 1, LIMBS + HALF - 3))
      c == Folds(b, LIMBS + HALF - 1, LIMBS)
      d == fold(RoundedCarries(c, 0, LIMBS - 1), LIMBS)
      e == fold(Carries(d, LIMBS - 1), LIMBS)
      f == fold(Carries(e, LIMBS - 1), LIMBS)
  IN  Carries(f, LIMBS - 2)

from_bytes_mod_order_wide(n) == pack_12_to_32(sc_reduce_24(load_24_from_64(n)))

sc_muladd(a, b, c) ==
  LET x == load_12_from_32(a)
      y == load_12_from_32(b)
      z == load_12_from_32(c)
      s == [k \in Wide |->
              I64(FoldSet(LAMBDA i, n : n + x[i] * y[k - i], z[k],
                          {i \in Limb : k - i \in Limb}))] @@ <<>>
  IN  pack_12_to_32(sc_reduce_24(first_carry_pass_24(s)))

is_canonical(n) == n < L
=============================================================================
