---------------------------- MODULE Blake2bLong ----------------------------
(***************************************************************************)
(* blake2b_long (blake/src/lib.rs), the variable-length hash H' of RFC     *)
(* 9106: a chain of BLAKE2b hashes A_1, A_2, ..., each over the one        *)
(* before, of which all but the last give out their first half.            *)
(*                                                                         *)
(* A digest is [chain, len]: its number in the chain and its hash_len,     *)
(* which BLAKE2b hashes along.  What is hashed for it is kept in "inputs". *)
(***************************************************************************)
EXTENDS Integers, Sequences

CONSTANTS
  HALF,         \* 32: a digest of 2 * HALF bytes gives out HALF of them
  MAXOUT,       \* MAX_OUTPUT_LEN of SecureBuffer (1024)
  OutLens       \* out_len arguments of blake2b_long

ASSUME Blake2bLongAssumption ==
  /\ HALF \in Nat \ {0} /\ MAXOUT \in Nat /\ 2 * HALF <= MAXOUT
  /\ OutLens \subseteq Nat

FULL == 2 * HALF

VARIABLES
  pc,           \* "none", "chain", "done", "error", "panic"
  out_len, r, last_len,
  out, written, \* the bytes given out: [chain, byte], and how many
  prev,         \* the last digest
  inputs        \* history: what each digest of the chain is the hash of

vars == <<pc, out_len, r, last_len, out, written, prev, inputs>>

-----------------------------------------------------------------------------
Byte(c, b) == [chain |-> c, byte |-> b]
NoByte     == Byte(0, 0)
Digest(c, len) == [chain |-> c, len |-> len]

(* LE32(out_len) || input: where the chain starts.                         *)
Seed(n) == [chain |-> 0, len |-> n]

Ceil(n) == (n + HALF - 1) \div HALF

(* saturating_sub                                                          *)
Rounds(n) == IF Ceil(n) >= 2 THEN Ceil(n) - 2 ELSE 0

Init ==
  /\ pc = "none" /\ out_len = 0 /\ r = 0 /\ last_len = 0
  /\ out = <<>> /\ written = 0 /\ prev = Digest(0, 0) /\ inputs = <<>>

(* An output that one digest holds.                                        *)
Short(n) ==
  /\ pc # "chain" /\ n \in 1 .. FULL
  /\ pc' = "done" /\ out_len' = n
  /\ prev' = Digest(1, n) /\ inputs' = <<Seed(n)>>
  /\ out' = [i \in 1 .. n |-> Byte(1, i)] /\ written' = n
  /\ r' = 0 /\ last_len' = 0

(* A longer one, up to its first half digest.                              *)
Long(n) ==
  /\ pc # "chain" /\ n > FULL /\ n <= MAXOUT
  /\ pc' = "chain" /\ out_len' = n
  /\ r' = Rounds(n) /\ last_len' = n - HALF * r'
  /\ prev' = Digest(1, FULL) /\ inputs' = <<Seed(n)>>
  /\ out' = [i \in 1 .. n |-> IF i <= HALF THEN Byte(1, i) ELSE NoByte]
  /\ written' = HALF

(* InvalidOutputLength, AllocationFailed                                   *)
Refuse(n) ==
  /\ pc # "chain" /\ (n = 0 \/ n > MAXOUT)
  /\ pc' = "error"
  /\ UNCHANGED <<out_len, r, last_len, out, written, prev, inputs>>

(* The number of the next digest.                                          *)
Following == Len(inputs) + 1

(* Mutant: the chain goes on with the half digest.                         *)
HalfDigestChained ==
  /\ pc = "chain" /\ Len(inputs) < r
  /\ prev' = Digest(Following, HALF) /\ inputs' = Append(inputs, prev)
  /\ out' = [i \in 1 .. out_len |->
               IF i \in written + 1 .. written + HALF
                 THEN Byte(Following, i - written) ELSE out[i]]
  /\ written' = written + HALF
  /\ UNCHANGED <<pc, out_len, r, last_len>>

(* An iteration: a digest of which the first half is given out.            *)
HalfDigest ==
  /\ pc = "chain" /\ Len(inputs) < r
  /\ prev' = Digest(Following, FULL) /\ inputs' = Append(inputs, prev)
  /\ out' = [i \in 1 .. out_len |->
               IF i \in written + 1 .. written + HALF
                 THEN Byte(Following, i - written) ELSE out[i]]
  /\ written' = written + HALF
  /\ UNCHANGED <<pc, out_len, r, last_len>>

(* It panics, in copy_from_slice, if the lengths differ, and in            *)
(* Blake2b::new if there is no such digest.                                *)
LastDigest ==
  /\ pc = "chain" /\ Len(inputs) >= r
  /\ prev' = Digest(Following, last_len) /\ inputs' = Append(inputs, prev)
  /\ IF last_len \in 1 .. FULL /\ last_len = out_len - written
       THEN /\ pc' = "done" /\ written' = out_len
            /\ out' = [i \in 1 .. out_len |->
                         IF i > written THEN Byte(Following, i - written) ELSE out[i]]
       ELSE pc' = "panic" /\ UNCHANGED <<out, written>>
  /\ UNCHANGED <<out_len, r, last_len>>

Next == \/ \E n \in OutLens : Short(n) \/ Long(n) \/ Refuse(n)
        \/ HalfDigest \/ LastDigest

Spec == Init /\ [][Next]_vars

(* A call runs on.                                                         *)
FairSpec == Spec /\ WF_vars(HalfDigest \/ LastDigest)

-----------------------------------------------------------------------------
LongTypeOK ==
  /\ pc \in {"none", "chain", "done", "error", "panic"}
  /\ out_len \in Nat /\ r \in Nat /\ last_len \in 0 .. FULL
  /\ written \in 0 .. out_len
  /\ out \in [1 .. out_len -> [chain : Nat, byte : Nat]]
  /\ prev \in [chain : Nat, len : Nat]
  /\ inputs \in Seq([chain : Nat, len : Nat])

(* What is given out is RFC 9106's H': a chain of digests of full length,  *)
(* each the hash of the whole one before and the first of the length and   *)
(* the input; of each the first half, and of the last one, which is longer *)
(* than a half, everything.                                                *)
OutputIsChain ==
  pc = "done" /\ out_len > FULL =>
    LET last == Len(inputs)
        start == HALF * (last - 1)
    IN /\ start + HALF < out_len /\ out_len <= start + FULL
       /\ prev = Digest(last, out_len - start)
       /\ inputs[1] = Seed(out_len)
       /\ \A k \in 2 .. last : inputs[k] = Digest(k - 1, FULL)
       /\ \A i \in 1 .. start :
            out[i] = Byte(((i - 1) \div HALF) + 1, ((i - 1) % HALF) + 1)
       /\ \A i \in start + 1 .. out_len : out[i] = Byte(last, i - start)

(* No length makes the indices or the last digest's length invalid.        *)
LongNeverPanics == pc # "panic"

(* The chain ends.                                                         *)
LongReturns == pc = "chain" ~> pc = "done"
=============================================================================
