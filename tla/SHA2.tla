-------------------------------- MODULE SHA2 --------------------------------
(***************************************************************************)
(* The streaming interface of SHA-2 (sha2/src/sha2_256.rs, sha2_512.rs):   *)
(* update collects its input in a buffer of one block, finalize pads it.   *)
(* The two files differ in the constants below only.                       *)
(*                                                                         *)
(* The compression function is taken to be injective: the chaining value   *)
(* is the string of all bytes compressed so far.  The bytes of a message   *)
(* are numbered, from 256 on, so that none is taken for another one or for *)
(* a byte of padding; the code never looks at their values.                *)
(***************************************************************************)
EXTENDS Integers, Sequences

CONSTANTS
  BLOCK,        \* bytes of a block (64, 128)
  LENFIELD,     \* bytes of the padding's length field (8, 16)
  LENBYTES,     \* bytes of total_len, a u64 (8)
  ChunkLens,    \* lengths of the slices update is called with
  MaxMessage    \* bound on the bytes of a message

ASSUME SHA2Assumption ==
  /\ BLOCK \in Nat /\ LENFIELD \in Nat /\ LENBYTES \in Nat
  /\ 0 < LENBYTES /\ LENBYTES <= LENFIELD /\ LENFIELD < BLOCK
  /\ ChunkLens \subseteq Nat /\ MaxMessage \in Nat

(* Arithmetic, stated because the provers do not interpret powers.         *)
ASSUME PowersPositive == \A k \in 0 .. LENBYTES : 256 ^ k \in Nat \ {0}

VARIABLES
  pc,           \* "none", "open", "updating" (in the loop of update), "done"
  state,        \* the bytes compressed so far
  buffer, buffer_len,
  total_len,    \* in bits
  rest,         \* data.len() - i: how much of update's slice is not copied
  given,        \* history: number of bytes of the message so far
  digest        \* what finalize returned: the bytes compressed for it

vars == <<pc, state, buffer, buffer_len, total_len, rest, given, digest>>

-----------------------------------------------------------------------------
MessageByte(i) == 255 + i

ZeroBlock == [i \in 1 .. BLOCK |-> 0]

(* u64: wrapping_add, and to_be_bytes.                                     *)
Wrap(n)    == n % 256 ^ LENBYTES
BeByte(n, j) == (n \div 256 ^ (LENBYTES - j)) % 256

(* The length field: total_len, behind zero bytes where it is longer.      *)
LengthByte(n, j) ==
  LET skip == LENFIELD - LENBYTES IN IF j <= skip THEN 0 ELSE BeByte(n, j - skip)

WithLength(block, n) ==
  [i \in 1 .. BLOCK |->
     IF i > BLOCK - LENFIELD THEN LengthByte(n, i - (BLOCK - LENFIELD))
                             ELSE block[i]]

ProcessBlock(s, block) == s \o block

-----------------------------------------------------------------------------
Init ==
  /\ pc = "none"
  /\ state = <<>> /\ buffer = ZeroBlock /\ buffer_len = 0 /\ total_len = 0
  /\ rest = 0 /\ given = 0 /\ digest = <<>>

New ==
  /\ pc \in {"none", "done"} /\ pc' = "open"
  /\ state' = <<>> /\ buffer' = ZeroBlock /\ buffer_len' = 0 /\ total_len' = 0
  /\ rest' = 0 /\ given' = 0 /\ digest' = <<>>

(* update(data), up to its loop.                                           *)
Update(n) ==
  /\ pc = "open" /\ given + n <= MaxMessage
  /\ total_len' = Wrap(total_len + Wrap(8 * n))
  /\ rest' = n /\ given' = given + n
  /\ pc' = "updating"
  /\ UNCHANGED <<state, buffer, buffer_len, digest>>

(* The chunk of an iteration: min(remain, fill).                           *)
ChunkLen == LET fill == BLOCK - buffer_len IN IF rest >= fill THEN fill ELSE rest

Copied == [i \in 1 .. BLOCK |->
             IF i \in buffer_len + 1 .. buffer_len + ChunkLen
               THEN MessageByte(given - rest + (i - buffer_len))
               ELSE buffer[i]]

(* One iteration of the loop.                                              *)
CopyChunk ==
  /\ pc = "updating" /\ rest > 0
  /\ rest' = rest - ChunkLen
  /\ IF buffer_len + ChunkLen = BLOCK
       THEN /\ state' = ProcessBlock(state, Copied)
            /\ buffer' = ZeroBlock /\ buffer_len' = 0
       ELSE /\ buffer' = Copied /\ buffer_len' = buffer_len + ChunkLen
            /\ UNCHANGED state
  /\ UNCHANGED <<pc, total_len, given, digest>>

UpdateReturn ==
  /\ pc = "updating" /\ rest = 0 /\ pc' = "open"
  /\ UNCHANGED <<state, buffer, buffer_len, total_len, rest, given, digest>>

(* Mutant: the length field is taken not to fit when it just does.         *)
NeedsExtraEarly(len) == len >= BLOCK - LENFIELD

(* Whether the length goes into a second block; len counts the 0x80 byte.  *)
NeedsExtra(len) == len > BLOCK - LENFIELD

(* finalize: both blocks are always processed, and the state after the one *)
(* that is needed is selected.                                             *)
Finalize ==
  LET marked == [buffer EXCEPT ![buffer_len + 1] = 128]
      extra  == NeedsExtra(buffer_len + 1)
      block1 == IF extra THEN marked ELSE WithLength(marked, total_len)
      after1 == ProcessBlock(state, block1)
      after2 == ProcessBlock(after1, WithLength(ZeroBlock, total_len))
  IN /\ pc = "open" /\ pc' = "done"
     /\ digest' = IF extra THEN after2 ELSE after1
     /\ state' = <<>> /\ buffer' = ZeroBlock        \* the fields' Drop
     /\ buffer_len' = 0 /\ total_len' = 0
     /\ UNCHANGED <<rest, given>>

Next == \/ New \/ (\E n \in ChunkLens : Update(n))
        \/ CopyChunk \/ UpdateReturn \/ Finalize

Spec == Init /\ [][Next]_vars

-----------------------------------------------------------------------------
SHA2TypeOK ==
  /\ pc \in {"none", "open", "updating", "done"}
  /\ state \in Seq(Nat) /\ digest \in Seq(Nat)
  /\ buffer \in [1 .. BLOCK -> Nat] /\ buffer_len \in 0 .. BLOCK - 1
  /\ total_len \in Nat /\ given \in Nat /\ rest \in 0 .. given

(* Between any two iterations of update the bytes taken from the message   *)
(* so far are, in order, those compressed and then those in the buffer,    *)
(* whole blocks the former; the rest of the buffer is zero, as finalize    *)
(* relies on; and total_len is the length of the message.                  *)
NoByteLost ==
  pc \in {"open", "updating"} =>
    /\ given - rest = Len(state) + buffer_len
    /\ \E q \in 0 .. given : Len(state) = q * BLOCK
    /\ \A i \in 1 .. Len(state) : state[i] = MessageByte(i)
    /\ \A i \in 1 .. BLOCK :
         buffer[i] = IF i <= buffer_len THEN MessageByte(Len(state) + i) ELSE 0
    /\ total_len = Wrap(8 * given)

(* FIPS 180-4, 5.1: s is the message of n bytes padded: 0x80, as few zero  *)
(* bytes as make whole blocks, and the length in bits.                     *)
IsPadded(s, n) ==
  /\ \E q \in 0 .. Len(s) : Len(s) = q * BLOCK
  /\ Len(s) >= n + 1 + LENFIELD /\ Len(s) < n + 1 + LENFIELD + BLOCK
  /\ \A i \in 1 .. Len(s) :
       s[i] = IF i <= n                         THEN MessageByte(i)
              ELSE IF i = n + 1                 THEN 128
              ELSE IF i <= Len(s) - LENFIELD    THEN 0
              ELSE LengthByte(8 * n, i - (Len(s) - LENFIELD))

(* However the message is cut into calls of update, the digest is that of  *)
(* the padded message, if its length in bits fits a u64.                   *)
DigestOfMessage ==
  pc = "done" /\ 8 * given < 256 ^ LENBYTES => IsPadded(digest, given)
=============================================================================
