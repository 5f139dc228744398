------------------------------ MODULE OsEntropy ------------------------------
(***************************************************************************)
(* The operating-system entropy source (rng/src/os_entropy.rs): the loop   *)
(* that fills a buffer from a system call which may deliver fewer bytes    *)
(* than it was asked for, be interrupted, or fail.                         *)
(*                                                                         *)
(* The bytes the system produces are numbered 1, 2, 3, ... in the order of *)
(* production, so that a byte used twice, or one that was never filled in  *)
(* (0, the initial content of the buffer), can be told apart.              *)
(***************************************************************************)
EXTENDS Integers, Sequences

CONSTANTS
  Platforms,   \* which of the `sys` modules the build may contain
  Lengths,     \* the buffer lengths callers ask for
  Errnos,      \* the error numbers a system call may fail with, EINTR too
  CHUNK,       \* the bytes one getentropy call may be asked for (256)
  MaxSecure,   \* MAX_SECURE_BUFFER_LEN (128)
  MaxDrawn     \* bound on the bytes the system produces in a behaviour

EINTR == 4

ASSUME EntropyAssumption ==
  /\ Platforms \subseteq {"getrandom", "getrandom_carry", "getentropy",
                          "rtlgenrandom", "none"}
  /\ Lengths \subseteq Nat /\ Errnos \subseteq Nat \ {0}
  /\ CHUNK \in Nat \ {0} /\ MaxSecure \in Nat /\ MaxDrawn \in Nat

VARIABLES
  sys,       \* the platform built for
  dest,      \* the buffer being filled, <<>> when there is none
  offset,    \* how much of it the loop takes to be filled
  status,    \* "idle", "filling", "ok" or "failed"
  drawn,     \* number of bytes the system has produced
  last       \* what its last call for this buffer returned, 0 before it

evars == <<sys, dest, offset, status, drawn, last>>

(* What the system call may return for a buffer of len bytes, and how many *)
(* it has then written.  "getrandom" is Linux, where an error is a         *)
(* negative return value; "getrandom_carry" is FreeBSD, whose kernel sets  *)
(* the carry flag and returns the positive error number.                   *)
Delivered(len) == {[ret |-> n, wrote |-> n] : n \in 1 .. len}

KernelReturns(len) ==
  CASE sys = "getrandom" ->
         Delivered(len) \cup {[ret |-> -e, wrote |-> 0] : e \in Errnos}
    [] sys = "getrandom_carry" ->
         Delivered(len) \cup {[ret |-> e, wrote |-> 0] : e \in Errnos}
    [] sys = "getentropy" ->
         {[ret |-> 0, wrote |-> len], [ret |-> -1, wrote |-> 0]}
    [] sys = "rtlgenrandom" ->
         {[ret |-> 1, wrote |-> len], [ret |-> 0, wrote |-> 0]}
    [] OTHER -> {}

(* How many bytes the loop asks for in one call.                           *)
Asked == LET left == Len(dest) - offset
         IN IF sys = "getentropy" /\ left > CHUNK THEN CHUNK ELSE left

(* Mutant: every failure is taken for an interruption.                     *)
AfterCallRetryAll(ret, len) ==
  IF sys = "getentropy"        THEN [ok |-> ret = 0, by |-> len]
  ELSE IF sys = "rtlgenrandom" THEN [ok |-> ret # 0, by |-> len]
  ELSE [ok |-> TRUE, by |-> IF ret > 0 THEN ret ELSE 0]

(* Mutant: an interrupted call counts as a full one.                       *)
AfterCallEintrDone(ret, len) ==
  IF sys = "getentropy"        THEN [ok |-> ret = 0, by |-> len]
  ELSE IF sys = "rtlgenrandom" THEN [ok |-> ret # 0, by |-> len]
  ELSE [ok |-> ret > 0 \/ ret = -EINTR, by |-> IF ret > 0 THEN ret ELSE len]

(* What fill_bytes_impl makes of the return value: an error, or by how     *)
(* much it advances the offset.                                            *)
AfterCall(ret, len) ==
  IF sys = "getentropy"        THEN [ok |-> ret = 0, by |-> len]
  ELSE IF sys = "rtlgenrandom" THEN [ok |-> ret # 0, by |-> len]
  ELSE [ok |-> ret > 0 \/ ret = -EINTR, by |-> IF ret > 0 THEN ret ELSE 0]

EntropyInit ==
  /\ sys \in Platforms
  /\ dest = <<>> /\ offset = 0 /\ status = "idle" /\ drawn = 0 /\ last = 0

(* extract_os_entropy(len) is called: a zeroed SecureBuffer, if it is not  *)
(* too long, then fill_bytes.                                              *)
StartFill(len) ==
  /\ dest' = [i \in 1 .. len |-> 0]
  /\ offset' = 0 /\ last' = 0
  /\ status' = IF len > MaxSecure THEN "failed"
               ELSE IF len = 0     THEN "ok"
               ELSE IF sys = "none" THEN "failed"
               ELSE "filling"
  /\ UNCHANGED <<sys, drawn>>

(* One turn of the loop.                                                   *)
SystemCall(k) ==
  LET len == Asked
      a   == AfterCall(k.ret, len)
  IN /\ status = "filling"
     /\ drawn' = drawn + k.wrote /\ last' = k.ret
     /\ dest' = [i \in 1 .. Len(dest) |->
                   IF i \in offset + 1 .. offset + k.wrote
                     THEN drawn + (i - offset) ELSE dest[i]]
     /\ offset' = IF a.ok THEN offset + a.by ELSE offset
     /\ status' = IF ~a.ok                     THEN "failed"
                  ELSE IF offset' >= Len(dest) THEN "ok"
                  ELSE "filling"
     /\ UNCHANGED sys

FillStep == status = "filling" /\ \E k \in KernelReturns(Asked) : SystemCall(k)

(* The caller has used the buffer, or gives it up: SecureBuffer::drop.     *)
DropDest ==
  /\ dest' = <<>> /\ offset' = 0 /\ status' = "idle" /\ last' = 0
  /\ UNCHANGED <<sys, drawn>>

Extract(len) == status = "idle" /\ drawn + len <= MaxDrawn /\ StartFill(len)
Release      == status \in {"ok", "failed"} /\ DropDest

EntropyNext == (\E len \in Lengths : Extract(len)) \/ FillStep \/ Release

EntropySpec == EntropyInit /\ [][EntropyNext]_evars

-----------------------------------------------------------------------------
(* While the loop runs exactly the bytes below the offset are filled, so   *)
(* that the next call neither skips nor overwrites one.                    *)
FilledPrefix ==
  status = "filling" =>
    /\ offset < Len(dest)
    /\ \A i \in 1 .. Len(dest) : dest[i] # 0 <=> i <= offset

(* fill_bytes: Ok(()) means the buffer was filled, every byte of it by the *)
(* system, and no produced byte stands in it twice.                        *)
OkMeansFilled ==
  status = "ok" =>
    /\ offset = Len(dest)
    /\ \A i \in 1 .. Len(dest) : dest[i] \in 1 .. drawn
    /\ \A i, j \in 1 .. Len(dest) : i < j => dest[i] < dest[j]

(* fill_bytes returns, if the system does not interrupt it for ever.       *)
FillEnds == status = "filling" ~> status # "filling"
=============================================================================
