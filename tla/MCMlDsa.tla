------------------------------ MODULE MCMlDsa -------------------------------
(***************************************************************************)
(* ML-DSA for TLC: polynomials of four coefficients modulo 193, two rows   *)
(* and two columns.  The parameters are chosen as FIPS 204's are: ct0 may  *)
(* exceed GAMMA2, and z and the low bits their bounds, so that attempts    *)
(* are thrown away for each reason; a hint of eight places may have two    *)
(* ones; the place bytes of a hint go up to one more than OMEGA.           *)
(***************************************************************************)
EXTENDS MlDsa

Poly(a, b, c, d) == [i \in Index |-> CASE i = 0 -> a [] i = 1 -> b
                                       [] i = 2 -> c [] i = 3 -> d]
Signed(f) == [i \in Index |-> signed_to_fq(f[i])]

MCExpandA(rho) ==
  IF rho = 1
  THEN <<<<Poly(17, 101, 3, 188), Poly(55, 0, 192, 74)>>,
         <<Poly(140, 9, 96, 31), Poly(7, 160, 121, 66)>>>>
  ELSE <<<<Poly(190, 44, 87, 12), Poly(1, 133, 58, 169)>>,
         <<Poly(63, 77, 5, 150), Poly(99, 20, 181, 38)>>>>

MCSecrets ==
  {[s1 |-> <<Signed(Poly(1, 0, -1, 1)), Signed(Poly(a, 1, 0, -1))>>,
    s2 |-> <<Signed(Poly(-1, b, 1, 0)), Signed(Poly(0, -1, -1, 1))>>] :
     a \in {-1, 1}, b \in {0}}

(* Fields of GAMMA1 - 1 + y: masks near zero, and some at the range's ends.*)
MCMaskPolys ==
  {Poly(a, b, c, d) : a \in {4, 7, 9}, b \in {6, 11}, c \in {5}, d \in {7}}
    \cup {Poly(0, 15, 7, 7), Poly(7, 2, 13, 7)}

(* A digest is mixed into one of sixteen streams, two of which are too     *)
(* short.                                                                  *)
MCBallStream(ct) ==
  LET fields(v) == FoldLeft(LAMBDA s, f : 5 * s + f[0] + 3 * f[1] + 7 * f[2] + 11 * f[3],
                            0, v)
      mix == (fields(ct.w1) + 3 * fields(ct.mu.tr.t1) + 5 * Len(ct.mu.m_prime)
                + ct.mu.tr.rho) % 16
  IN  [bytes |-> IF mix % 8 = 7 THEN <<3>>
                 ELSE <<3, mix % 4, (mix \div 2) % 4, 1>>,
       signs |-> <<mix % 2, (mix \div 4) % 2, 0>>]

MCRequests ==
  {[ctx |-> <<>>, message |-> <<>>], [ctx |-> <<1>>, message |-> <<>>],
   [ctx |-> <<>>, message |-> <<1>>], [ctx |-> <<1, 1>>, message |-> <<>>],
   [ctx |-> <<1>>, message |-> <<1, 1>>]}

ASSUME MlDsaHolds == MlDsaRingAssumption /\ MlDsaAssumption
=============================================================================
