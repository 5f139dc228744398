-------------------------------- MODULE SHA3 --------------------------------
(***************************************************************************)
(* The sponge of SHA-3 and SHAKE (sha3/src/keccak.rs): update, the padding *)
(* and the two ways of squeezing, for one rate.                            *)
(*                                                                         *)
(* The permutation is taken to be injective.  A state of the sponge is the *)
(* string of all bytes absorbed and the number of permutations since; byte *)
(* j of a state's lanes after p of them is <<p, j>>.  The bytes of a       *)
(* message are numbered from 256 on, as in SHA2.                           *)
(***************************************************************************)
EXTENDS Integers, Sequences

CONSTANTS
  RATE,         \* rate_bytes
  WORD,         \* bytes of a lane (8)
  DOMAINS,      \* domain suffixes: {0x06, 0x1f}
  FixedLens,    \* output lengths of finalize_fixed
  XofLens,      \* lengths of the buffers given to finalize_xof
  ChunkLens,    \* lengths of the slices update is called with
  MaxMessage    \* bound on the bytes of a message

SHA3Assumption ==
  /\ RATE \in Nat \ {0} /\ WORD \in Nat \ {0}
  /\ \E w \in 1 .. RATE : RATE = w * WORD
  /\ DOMAINS \subseteq 1 .. 127 /\ DOMAINS # {}
  /\ FixedLens \subseteq 0 .. RATE /\ XofLens \subseteq Nat
  /\ ChunkLens \subseteq Nat /\ MaxMessage \in Nat

VARIABLES
  pc,           \* "none", "open", "updating", "squeezing" (in the loops of
                \*   update and squeeze_into) or "done"
  domain,
  absorbed,     \* the state: the bytes absorbed,
  perms,        \*   and the permutations since then
  buffer, buffer_len,
  rest,         \* data.len() - i: how much of update's slice is not copied
  given,        \* history: number of bytes of the message so far
  word_idx,     \* the next lane squeeze_into takes
  output_len,   \* how long the output is to be
  out           \* the output

vars == <<pc, domain, absorbed, perms, buffer, buffer_len, rest, given,
          word_idx, output_len, out>>

input == <<absorbed, buffer, buffer_len, rest, given>>

-----------------------------------------------------------------------------
MessageByte(i) == 255 + i

ZeroBuffer == [i \in 1 .. RATE |-> 0]

RateWords == CHOOSE w \in 1 .. RATE : RATE = w * WORD

AbsorbBlock(s, block) == s \o block

-----------------------------------------------------------------------------
Init ==
  /\ pc = "none" /\ domain = (CHOOSE d \in DOMAINS : TRUE)
  /\ absorbed = <<>> /\ perms = 0 /\ buffer = ZeroBuffer /\ buffer_len = 0
  /\ rest = 0 /\ given = 0 /\ word_idx = 0 /\ output_len = 0 /\ out = <<>>

New ==
  /\ pc \in {"none", "done"} /\ pc' = "open"
  /\ domain' \in DOMAINS
  /\ absorbed' = <<>> /\ perms' = 0 /\ buffer' = ZeroBuffer /\ buffer_len' = 0
  /\ rest' = 0 /\ given' = 0 /\ word_idx' = 0 /\ output_len' = 0 /\ out' = <<>>

Update(n) ==
  /\ pc = "open" /\ given + n <= MaxMessage
  /\ rest' = n /\ given' = given + n
  /\ pc' = "updating"
  /\ UNCHANGED <<domain, absorbed, perms, buffer, buffer_len, word_idx,
                 output_len, out>>

(* The chunk of an iteration: min(remain, fill).                           *)
ChunkLen == LET fill == RATE - buffer_len IN IF rest >= fill THEN fill ELSE rest

Copied == [i \in 1 .. RATE |->
             IF i \in buffer_len + 1 .. buffer_len + ChunkLen
               THEN MessageByte(given - rest + (i - buffer_len))
               ELSE buffer[i]]

(* One iteration of update's loop.  A full block is absorbed at once; its  *)
(* bytes stay in the buffer.                                               *)
CopyChunk ==
  /\ pc = "updating" /\ rest > 0
  /\ rest' = rest - ChunkLen
  /\ buffer' = Copied
  /\ IF buffer_len + ChunkLen = RATE
       THEN absorbed' = AbsorbBlock(absorbed, Copied) /\ buffer_len' = 0
       ELSE buffer_len' = buffer_len + ChunkLen /\ UNCHANGED absorbed
  /\ UNCHANGED <<pc, domain, perms, given, word_idx, output_len, out>>

UpdateReturn ==
  /\ pc = "updating" /\ rest = 0 /\ pc' = "open"
  /\ UNCHANGED <<domain, perms, input, word_idx, output_len, out>>

Xor80(b) == IF b < 128 THEN b + 128 ELSE b - 128

(* The block pad() makes: a fresh one, whose last byte takes the end bit.  *)
PaddedBlock ==
  [i \in 1 .. RATE |->
     LET b == IF i <= buffer_len          THEN buffer[i]
              ELSE IF i = buffer_len + 1  THEN domain
              ELSE 0
     IN IF i = RATE THEN Xor80(b) ELSE b]

Pad == absorbed' = AbsorbBlock(absorbed, PaddedBlock) /\ buffer_len' = 0

Drop == buffer' = ZeroBuffer       \* the state goes out of scope

(* finalize_fixed: one state is enough for the output.                     *)
FinalizeFixed(n) ==
  /\ pc = "open" /\ pc' = "done"
  /\ Pad /\ Drop
  /\ output_len' = n
  /\ out' = [i \in 1 .. n |-> <<0, i - 1>>]
  /\ UNCHANGED <<domain, perms, rest, given, word_idx>>

(* finalize_xof, up to the loop of squeeze_into.                           *)
FinalizeXof(n) ==
  /\ pc = "open" /\ pc' = "squeezing"
  /\ Pad
  /\ output_len' = n /\ word_idx' = 0 /\ out' = <<>>
  /\ UNCHANGED <<domain, perms, buffer, rest, given>>

(* The body of its inner loop: min(remain, 8) bytes of the next lane.      *)
SqueezeWord ==
  LET remain == output_len - Len(out)
      take   == IF remain >= WORD THEN WORD ELSE remain
  IN /\ pc = "squeezing" /\ remain > 0 /\ word_idx < RateWords
     /\ out' = out \o [j \in 1 .. take |-> <<perms, word_idx * WORD + j - 1>>]
     /\ word_idx' = word_idx + 1
     /\ UNCHANGED <<pc, domain, perms, input, output_len>>

(* The lanes of the rate are used up and output is missing.                *)
SqueezeNext ==
  /\ pc = "squeezing" /\ Len(out) < output_len /\ word_idx = RateWords
  /\ perms' = perms + 1 /\ word_idx' = 0
  /\ UNCHANGED <<pc, domain, input, output_len, out>>

SqueezeReturn ==
  /\ pc = "squeezing" /\ Len(out) >= output_len /\ pc' = "done"
  /\ Drop
  /\ UNCHANGED <<domain, absorbed, perms, buffer_len, rest, given, word_idx,
                 output_len, out>>

Running == CopyChunk \/ UpdateReturn \/ SqueezeWord \/ SqueezeNext \/ SqueezeReturn

Next == \/ New \/ (\E n \in ChunkLens : Update(n))
        \/ (\E n \in FixedLens : FinalizeFixed(n))
        \/ (\E n \in XofLens : FinalizeXof(n))
        \/ Running

Spec == Init /\ [][Next]_vars

(* A call runs on.                                                         *)
FairSpec == Spec /\ WF_vars(Running)

-----------------------------------------------------------------------------
SHA3TypeOK ==
  /\ pc \in {"none", "open", "updating", "squeezing", "done"}
  /\ domain \in DOMAINS /\ absorbed \in Seq(Nat) /\ perms \in Nat
  /\ buffer \in [1 .. RATE -> Nat] /\ buffer_len \in 0 .. RATE - 1
  /\ given \in Nat /\ rest \in 0 .. given
  /\ word_idx \in 0 .. RateWords /\ output_len \in Nat
  /\ out \in Seq(Nat \X Nat)

(* Between any two iterations of update the bytes taken from the message   *)
(* so far are, in order, those absorbed, whole blocks, and then the        *)
(* buffer's first buffer_len.  What follows those in the buffer is stale.  *)
NoByteLost ==
  pc \in {"open", "updating"} =>
    /\ given - rest = Len(absorbed) + buffer_len
    /\ \E q \in 0 .. given : Len(absorbed) = q * RATE
    /\ \A i \in 1 .. Len(absorbed) : absorbed[i] = MessageByte(i)
    /\ \A i \in 1 .. buffer_len : buffer[i] = MessageByte(Len(absorbed) + i)
    /\ perms = 0

(* FIPS 202, 5.1 and B.2: s is the message of n bytes, the domain suffix,  *)
(* as few zero bytes as make whole blocks, and the end bit, which shares   *)
(* the suffix' byte if that is the last of a block.                        *)
IsPadded(s, n, d) ==
  /\ \E q \in 0 .. Len(s) : Len(s) = q * RATE
  /\ Len(s) >= n + 1 /\ Len(s) < n + 1 + RATE
  /\ \A i \in 1 .. Len(s) :
       s[i] = IF i <= n THEN MessageByte(i)
              ELSE (IF i = n + 1 THEN d ELSE 0) + (IF i = Len(s) THEN 128 ELSE 0)

(* However the message is cut into calls of update, what is squeezed is    *)
(* the state of the padded message under the function's own suffix.        *)
AbsorbsMessage ==
  pc \in {"squeezing", "done"} => IsPadded(absorbed, given, domain)

(* The output is the rate part of the state, then that of the state after  *)
(* a permutation, and so on: no byte twice, none left out, none of the     *)
(* capacity, and as long as asked for.                                     *)
SqueezesRate ==
  /\ \A i \in 1 .. Len(out) :
       out[i][2] \in 0 .. RATE - 1 /\ i - 1 = out[i][1] * RATE + out[i][2]
  /\ pc = "done" => Len(out) = output_len

(* update and squeeze_into return.                                         *)
CallsReturn == pc \in {"updating", "squeezing"} ~> pc \in {"open", "done"}
=============================================================================
