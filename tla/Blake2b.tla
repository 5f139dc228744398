------------------------------ MODULE Blake2b ------------------------------
(***************************************************************************)
(* BLAKE2b (blake/src/blake2b.rs): a buffer of one block, compressed only  *)
(* when it is full and more input is there, so that the last block, which  *)
(* carries the final flag, is never compressed too early.                  *)
(*                                                                         *)
(* The compression function is taken to be injective: the chaining value   *)
(* is the parameter block and the list of compressions, each the block,    *)
(* the two counter words and the final flag.  Message bytes are numbered   *)
(* from 256 on; the key's are numbered from 1 on, below 256.               *)
(***************************************************************************)
EXTENDS Integers, Sequences

CONSTANTS
  BLOCK,        \* bytes of a block (128)
  MAXHASH,      \* the largest hash_len, and key length (64)
  WORD,         \* 2^64: the modulus of a counter word
  HashLens,     \* hash_len arguments of the constructors
  KeyLens,      \* lengths of the keys new_keyed is called with
  ChunkLens,    \* lengths of the slices update is called with
  MaxMessage    \* bound on the bytes of a message

Blake2bAssumption ==
  /\ MAXHASH \in Nat /\ 0 < MAXHASH /\ MAXHASH <= BLOCK /\ MAXHASH < 256
  /\ BLOCK \in Nat /\ WORD \in Nat /\ BLOCK < WORD
  /\ HashLens \subseteq Nat /\ KeyLens \subseteq Nat /\ ChunkLens \subseteq Nat
  /\ MaxMessage \in Nat

VARIABLES
  pc,           \* "none", "open", "updating", "done", "wiped",
                \* "panic"
  params,       \* [hash, key]: the lengths mixed into h[0]
  h,            \* the compressions so far
  t,            \* <<t0, t1>>
  buf, buf_len,
  rest,         \* input.len() in the loop of update
  given,        \* history: number of bytes of the message so far
  digest        \* what finalize returned: [params, h]

vars == <<pc, params, h, t, buf, buf_len, rest, given, digest>>

-----------------------------------------------------------------------------
MessageByte(i) == 255 + i
ZeroBlock == [i \in 1 .. BLOCK |-> 0]
KeyBlock(k) == [i \in 1 .. BLOCK |-> IF i <= k THEN i ELSE 0]

Compress(s, block, ctr, final) ==
  Append(s, [block |-> block, t |-> ctr, final |-> final])

(* The two words as one counter: overflowing_add, and its carry.           *)
AddToCounter(ctr, n) ==
  <<(ctr[1] + n) % WORD,
    (ctr[2] + (IF ctr[1] + n >= WORD THEN 1 ELSE 0)) % WORD>>

Unset == [hash |-> 0, key |-> 0]
(* No state is alive: a new one can be made.                               *)
Closed == {"none", "done", "panic"}

NoDigest == [params |-> Unset, h |-> <<>>]

-----------------------------------------------------------------------------
Init ==
  /\ pc = "none" /\ params = Unset
  /\ h = <<>> /\ t = <<0, 0>> /\ buf = ZeroBlock /\ buf_len = 0
  /\ rest = 0 /\ given = 0 /\ digest = NoDigest

(* init, with the key's block, if any, in the buffer.                      *)
Fresh(hash_len, key_len) ==
  /\ pc' = "open" /\ params' = [hash |-> hash_len, key |-> key_len]
  /\ h' = <<>> /\ t' = <<0, 0>>
  /\ buf' = KeyBlock(key_len)
  /\ buf_len' = IF key_len = 0 THEN 0 ELSE BLOCK
  /\ rest' = 0 /\ given' = 0 /\ digest' = NoDigest

New(hash_len) ==
  /\ pc \in Closed /\ hash_len \in 1 .. MAXHASH
  /\ Fresh(hash_len, 0)

NewKeyed(hash_len, key_len) ==
  /\ pc \in Closed /\ hash_len \in 1 .. MAXHASH
  /\ key_len \in 1 .. MAXHASH
  /\ Fresh(hash_len, key_len)

(* The assertions of both constructors; new's caller has no key.           *)
NewPanics(hash_len, key_len) ==
  /\ pc \in Closed
  /\ hash_len \notin 1 .. MAXHASH \/ key_len \notin 1 .. MAXHASH
  /\ pc' = "panic"
  /\ UNCHANGED <<params, h, t, buf, buf_len, rest, given, digest>>

Update(n) ==
  /\ pc = "open" /\ given + n <= MaxMessage
  /\ pc' = "updating" /\ rest' = n /\ given' = given + n
  /\ UNCHANGED <<params, h, t, buf, buf_len, digest>>

(* A full block is compressed only if it is not the last one.              *)
MustCompress == buf_len = BLOCK /\ rest > 0

(* The first half of an iteration.                                         *)
CompressFull ==
  /\ pc = "updating" /\ MustCompress
  /\ t' = AddToCounter(t, BLOCK)
  /\ h' = Compress(h, buf, t', FALSE)
  /\ buf' = ZeroBlock /\ buf_len' = 0
  /\ UNCHANGED <<pc, params, rest, given, digest>>

Take == IF BLOCK - buf_len <= rest THEN BLOCK - buf_len ELSE rest

(* Its second half.                                                        *)
CopyChunk ==
  /\ pc = "updating" /\ ~ MustCompress /\ rest > 0
  /\ buf' = [i \in 1 .. BLOCK |->
               IF i \in buf_len + 1 .. buf_len + Take
                 THEN MessageByte(given - rest + (i - buf_len)) ELSE buf[i]]
  /\ buf_len' = buf_len + Take
  /\ rest' = rest - Take
  /\ UNCHANGED <<pc, params, h, t, given, digest>>

UpdateReturn ==
  /\ pc = "updating" /\ ~ MustCompress /\ rest = 0
  /\ pc' = "open"
  /\ UNCHANGED <<params, h, t, buf, buf_len, rest, given, digest>>

(* Mutant: the whole block counts, its padding too.                        *)
FinalCountBlock == BLOCK

FinalCount == buf_len

(* finalize; self is dropped, and wiped, at its end.                       *)
Finalize ==
  LET padded == [i \in 1 .. BLOCK |-> IF i <= buf_len THEN buf[i] ELSE 0]
  IN /\ pc = "open" /\ pc' = "done"
     /\ digest' = [params |-> params,
                   h |-> Compress(h, padded, AddToCounter(t, FinalCount), TRUE)]
     /\ h' = <<>> /\ t' = <<0, 0>> /\ buf' = ZeroBlock /\ buf_len' = 0
     /\ params' = Unset
     /\ UNCHANGED <<rest, given>>

(* zeroize, by which the buffer also loses its length ...                  *)
Wipe ==
  /\ pc = "open" /\ pc' = "wiped"
  /\ params' = Unset
  /\ h' = <<>> /\ t' = <<0, 0>> /\ buf' = ZeroBlock /\ buf_len' = 0
  /\ UNCHANGED <<rest, given, digest>>

(* ... so that finalize, and update with input, index out of range.        *)
UseWipedPanics ==
  /\ pc = "wiped" /\ pc' = "panic"
  /\ UNCHANGED <<params, h, t, buf, buf_len, rest, given, digest>>

Next ==
  \/ \E n \in HashLens :
       New(n) \/ \E k \in KeyLens : NewKeyed(n, k) \/ NewPanics(n, k)
  \/ \E n \in ChunkLens : Update(n)
  \/ CompressFull \/ CopyChunk \/ UpdateReturn \/ Finalize
  \/ Wipe \/ UseWipedPanics

Spec == Init /\ [][Next]_vars

(* A call of update runs on.                                               *)
Running == CompressFull \/ CopyChunk \/ UpdateReturn
FairSpec == Spec /\ WF_vars(Running)

-----------------------------------------------------------------------------
(* RFC 7693, 3.3: the input is the key's block, if there is a key, and     *)
(* then the message.                                                       *)
KeyBytes(p)     == IF p.key > 0 THEN BLOCK ELSE 0
InputByte(p, i) == IF i > KeyBytes(p) THEN MessageByte(i - KeyBytes(p))
                   ELSE IF i <= p.key THEN i ELSE 0
InputBlock(p, start, n) ==
  [j \in 1 .. BLOCK |-> IF start + j <= n THEN InputByte(p, start + j) ELSE 0]

(* The 128-bit offset counter.                                             *)
Words(n) == <<n % WORD, (n \div WORD) % WORD>>

Blake2bTypeOK ==
  /\ pc \in {"none", "open", "updating", "done", "wiped", "panic"}
  /\ params \in [hash : 0 .. MAXHASH, key : 0 .. MAXHASH]
  /\ t \in (0 .. WORD - 1) \X (0 .. WORD - 1)
  /\ buf \in [1 .. BLOCK -> Nat] /\ buf_len \in 0 .. BLOCK
  /\ given \in Nat /\ rest \in 0 .. given
  /\ h \in Seq([block : [1 .. BLOCK -> Nat], t : Nat \X Nat, final : BOOLEAN])

(* Between any two steps of update the bytes taken so far are, in order,   *)
(* those compressed, in blocks that are not final and count the bytes up   *)
(* to their end, and those in the buffer; the rest of it is zero; and once *)
(* there is input, update never leaves the buffer empty: the last block is *)
(* there for finalize to mark.                                             *)
NoByteLost ==
  pc \in {"open", "updating"} =>
    LET taken == KeyBytes(params) + given - rest
    IN /\ taken = Len(h) * BLOCK + buf_len
       /\ \A i \in 1 .. Len(h) :
            h[i] = [block |-> InputBlock(params, (i - 1) * BLOCK, taken),
                    t |-> Words(i * BLOCK), final |-> FALSE]
       /\ buf = InputBlock(params, Len(h) * BLOCK, taken)
       /\ t = Words(Len(h) * BLOCK)
       /\ pc = "open" /\ taken > 0 => buf_len > 0

(* However the message is cut into calls of update, the digest is that of  *)
(* RFC 7693, 3.3: the parameters are those asked for, the input is cut     *)
(* into as few blocks as hold it, and one if it is empty; the last one,    *)
(* and no other, is final; each counts the input up to its end, without    *)
(* padding.                                                                *)
DigestOfMessage ==
  pc = "done" =>
    LET p == digest.params
        n == KeyBytes(p) + given
        last == Len(digest.h)
    IN /\ p.hash > 0
       /\ (last - 1) * BLOCK < n \/ last = 1
       /\ n <= last * BLOCK
       /\ \A i \in 1 .. last :
            digest.h[i] =
              [block |-> InputBlock(p, (i - 1) * BLOCK, n),
               t     |-> Words(IF i = last THEN n ELSE i * BLOCK),
               final |-> i = last]

(* update returns.                                                         *)
UpdateReturns == pc = "updating" ~> pc = "open"
=============================================================================
