---------------------------- MODULE MCHashDRBG ----------------------------
(***************************************************************************)
(* The entropy source and Hash_DRBG for TLC: a caller fills buffers of its *)
(* own, or has a DRBG that fills its seeds; which one is chosen at the     *)
(* start.  Digests of 2 bytes, seeds of 4 and nonces of 2, requests on     *)
(* both sides of the boundary of a digest and of the limit of 4 bytes;     *)
(* buffers on both sides of a chunk and of the longest one.  Bytes of the  *)
(* system are positive, those of callers not.                              *)
(***************************************************************************)
EXTENDS HashDRBG

MCErrnos   == {EINTR, 14}

(* too short; long enough                                                  *)
MCSeeds    == {<<>>, <<-1, -2>>}
(* fine; too long                                                          *)
MCExtras   == {<<-8>>, <<-1, -2, -3, -4, -5, -6, -7>>}
MCRequests == {3, 5}

VARIABLE part

(* What filling a buffer of one's own leaves alone.                        *)
rest == <<drbg, call, extra, entropy, result, hist>>

RngInit  == part \in {"fill", "drbg"} /\ DrbgInit
Filling  == part = "fill" /\ EntropyNext /\ UNCHANGED <<part, rest>>
Drawing  == part = "drbg" /\ DrbgNext /\ UNCHANGED part
RngNext  == Filling \/ Drawing

(* A fill and a call run on, and the system does not interrupt them for    *)
(* ever: a system call interrupted again changes nothing, so that fairness *)
(* asks for another return value in the end.  Which one, a failure or a    *)
(* delivery, is open.                                                      *)
RngSpec ==
  /\ RngInit
  /\ [][RngNext]_<<part, vars>>
  /\ WF_<<part, vars>>(part = "fill" /\ FillStep /\ UNCHANGED <<part, rest>>)
  /\ WF_<<part, vars>>(part = "drbg" /\ Proceed /\ UNCHANGED part)
===========================================================================
