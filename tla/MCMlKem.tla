------------------------------ MODULE MCMlKem -------------------------------
(***************************************************************************)
(* ML-KEM for TLC: polynomials of eight coefficients modulo 193, so that   *)
(* the transform has two layers and stops at pairs, and words twenty times *)
(* the modulus, as in the code; the first buffer of a sampled polynomial   *)
(* is too short for some.  The noise of every exchange fits.               *)
(***************************************************************************)
EXTENDS MlKem

(* A seed is mixed into the number its streams are made of.                *)
KemNumber(seed) ==
  IF "coins" \in DOMAIN seed
  THEN 17 * FoldLeft(LAMBDA s, i : (5 * s + seed.coins[i - 1]) % 1009, 7,
                     [i \in 1 .. 8 |-> i]) + seed.h.hash_h.rho.rho
  ELSE IF "sigma" \in DOMAIN seed THEN 400 + 3 * seed.sigma ELSE seed.rho
Mix(a, i) ==
  LET x == (a * 37 + i * 61 + 11) % 10007 IN ((x * x + 3 * x) \div 7) % 256
MCStream(rho, i, j) ==
  LET a == KemNumber(rho) * 31 + 5 * i + 9 * j + 1
  IN  [k \in 1 .. 16 |-> Mix(a, k * k)] @@ <<>>
MCPrf(seed, nonce) ==
  LET a == KemNumber(seed) + 97 * nonce
  IN  [k \in 1 .. 48 |-> (Mix(a, 3 * k) \div 8) % 2] @@ <<>>
MCZetas   == (0 :> 43) @@ (1 :> -9) @@ (2 :> -81) @@ (3 :> -1)
MCWindows == <<8, 4, 4>>
MCMessages ==
  {[i \in Index |-> IF i \in S THEN 1 ELSE 0] :
     S \in {{}, Index, {0}, {1, 3, 6}, {2, 4, 5, 7}}}
MCSeeds == {1, 2}
MCZs    == {[z |-> 1]}

ASSUME MlKemHolds ==
  /\ MlKemAssumption /\ StreamsAssumption
  /\ \A d \in Seeds, m \in Messages : Fits(d, m)
=============================================================================
