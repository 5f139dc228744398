------------------------------ MODULE AesModes ------------------------------
(***************************************************************************)
(* AES256CTR and AES256CBC (aes/src/ctr.rs, cbc.rs): calls on buffers of   *)
(* any length.  The debug_asserts on the lengths are not in a release      *)
(* build, so that what becomes of a text that is not whole blocks, or of   *)
(* an output that is too short, is up to the loops: chunks of input and    *)
(* output are zipped, and the shorter one of the two ends the loop.  An    *)
(* iteration of CBC's loops is a step.                                     *)
(*                                                                         *)
(* A block under the cipher is a block of unknown bytes of its own, which  *)
(* only the inverse takes back.                                            *)
(***************************************************************************)
EXTENDS AeadData

CONSTANTS
  BLOCK,        \* bytes of a block (16)
  COUNTERS,     \* values of the last four bytes of a counter block (2^32)
  Nonces, Counters,     \* of CTR's initial counter blocks
  Texts, Rooms  \* plaintexts; lengths of output buffers

AesModesAssumption ==
  /\ BLOCK \in Nat \ {0} /\ COUNTERS \in Nat \ {0, 1}
  /\ Counters \subseteq 0 .. COUNTERS - 1 /\ Rooms \subseteq Nat
  /\ \A s \in Texts : s \in Seq({s[i] : i \in 1 .. Len(s)})

VARIABLES
  made,         \* the last encryption: its arguments, outcome and output
  read,         \* the decryption of what it wrote
  chunk, prev       \* of CBC's loops: the chunk, and the block before it

modes == <<made, read, chunk, prev>>

NoMode == [mode |-> "none", outcome |-> "none"]

-----------------------------------------------------------------------------
(* lib.rs: the block cipher.                                               *)
EncryptBlock(b) == [i \in 1 .. BLOCK |-> {<<"encrypt", b, 0, i>>}]
DecryptBlock(c) ==
  LET unknown == [i \in 1 .. BLOCK |-> {<<"decrypt", c, 0, i>>}]
      atom    == CHOOSE a \in c[1] : TRUE
  IN  IF c[1] # {} /\ atom[1] = "encrypt" /\ c = EncryptBlock(atom[2])
      THEN atom[2] ELSE unknown

XorBlock(a, b) == [i \in 1 .. BLOCK |-> Xor(a[i], b[i])]

(* ctr.rs: byte after byte, until the text ends or an index is behind the  *)
(* buffer; apply starts from counter 1.                                    *)
Outcome(input, output) == IF Len(output) < Len(input) THEN "panic" ELSE "returned"
apply_iv(iv, input, output) ==
  Overwrite(output, ApplyKeystream(iv.nonce, iv.counter, BLOCK, COUNTERS, input))
apply_start(nonce) == [nonce |-> nonce, counter |-> 1]

-----------------------------------------------------------------------------
(* cbc.rs: chunk k of a buffer, the last of which may be short.            *)
NumChunks(n) == (n + BLOCK - 1) \div BLOCK
Chunk(s, k)  ==
  SubSeq(s, BLOCK * (k - 1) + 1,
         IF BLOCK * k <= Len(s) THEN BLOCK * k ELSE Len(s))
Put(s, k, data) ==
  [i \in DOMAIN s |-> IF i - BLOCK * (k - 1) \in DOMAIN data
                      THEN data[i - BLOCK * (k - 1)] ELSE s[i]]

Least(a, b) == IF a < b THEN a ELSE b
Zipped(input, output) == Least(NumChunks(Len(input)), NumChunks(Len(output)))

Ivs == {[i \in 1 .. BLOCK |-> Letter(l)] : l \in {"iv", "iv2"}}
CounterBlocks == [nonce : Nonces, counter : Counters]

ModesInit == made = NoMode /\ read = NoMode /\ chunk = 0 /\ prev = <<>>

-----------------------------------------------------------------------------
Made(mode, iv, pt, outcome, after) ==
  /\ made = NoMode /\ UNCHANGED read
  /\ made' = [mode |-> mode, iv |-> iv, pt |-> pt, outcome |-> outcome,
              after |-> after]

CtrEncrypt(iv, pt, room) ==
  /\ Made("ctr", iv, pt, Outcome(pt, Stale(room)), apply_iv(iv, pt, Stale(room)))
  /\ UNCHANGED <<chunk, prev>>
CtrApply(nonce, pt, room) == CtrEncrypt(apply_start(nonce), pt, room)

CbcEncrypt(iv, pt, room) ==
  Made("cbc", iv, pt, "running", Stale(room)) /\ chunk' = 1 /\ prev' = iv

Ended == chunk' = 0 /\ prev' = <<>>

(* An iteration ends in a panic when the input's chunk is short, or, before*)
(* anything is written to it, the output's.                                *)
EncryptChunk ==
  LET pt == Chunk(made.pt, chunk)
      ct == EncryptBlock(XorBlock(pt, prev))
  IN  /\ made.mode = "cbc" /\ made.outcome = "running"
      /\ chunk <= Zipped(made.pt, made.after) /\ UNCHANGED read
      /\ \/ /\ Len(pt) = BLOCK /\ Len(Chunk(made.after, chunk)) = BLOCK
            /\ made' = [made EXCEPT !.after = Put(@, chunk, ct)]
            /\ chunk' = chunk + 1 /\ prev' = ct
         \/ /\ Len(pt) < BLOCK \/ Len(Chunk(made.after, chunk)) < BLOCK
            /\ made' = [made EXCEPT !.outcome = "panic"] /\ Ended

EncryptReturn ==
  /\ made.mode = "cbc" /\ made.outcome = "running"
  /\ chunk > Zipped(made.pt, made.after)
  /\ made' = [made EXCEPT !.outcome = "returned"] /\ Ended /\ UNCHANGED read

-----------------------------------------------------------------------------
(* The first n bytes of the buffer are decrypted.                          *)
Written(n) == SubSeq(made.after, 1, n)
Read(iv, n, outcome, after) ==
  /\ made.outcome \in {"returned", "panic"} /\ read = NoMode /\ UNCHANGED made
  /\ read' = [mode |-> made.mode, iv |-> iv, input |-> Written(n),
              outcome |-> outcome, after |-> after]

CtrDecrypt(iv, n, room) ==
  /\ made.mode = "ctr"
  /\ Read(iv, n, Outcome(Written(n), Stale(room)),
          apply_iv(iv, Written(n), Stale(room)))
  /\ UNCHANGED <<chunk, prev>>

CbcDecrypt(iv, n, room) ==
  /\ made.mode = "cbc"
  /\ Read(iv, n, "running", Stale(room)) /\ chunk' = 1 /\ prev' = iv

(* Mutant: the chain goes on from what was decrypted.                      *)
NextPrev0(ct, pt) == pt
NextPrev(ct, pt)  == ct

(* A short chunk of the output is written, up to its end.                  *)
DecryptChunk ==
  LET ct == Chunk(read.input, chunk)
      pt == XorBlock(DecryptBlock(ct), prev)
  IN  /\ read.mode = "cbc" /\ read.outcome = "running"
      /\ chunk <= Zipped(read.input, read.after) /\ UNCHANGED made
      /\ \/ /\ Len(ct) = BLOCK /\ Len(Chunk(read.after, chunk)) = BLOCK
            /\ read' = [read EXCEPT !.after = Put(@, chunk, pt)]
            /\ chunk' = chunk + 1 /\ prev' = NextPrev(ct, pt)
         \/ /\ Len(ct) = BLOCK /\ Len(Chunk(read.after, chunk)) < BLOCK
            /\ read' = [read EXCEPT !.after = Put(@, chunk, pt), !.outcome = "panic"]
            /\ Ended
         \/ /\ Len(ct) < BLOCK
            /\ read' = [read EXCEPT !.outcome = "panic"] /\ Ended

DecryptReturn ==
  /\ read.mode = "cbc" /\ read.outcome = "running"
  /\ chunk > Zipped(read.input, read.after)
  /\ read' = [read EXCEPT !.outcome = "returned"] /\ Ended /\ UNCHANGED made

(* The caller takes the result.                                            *)
TakeMade ==
  /\ made.outcome \in {"returned", "panic"} /\ read.outcome # "running"
  /\ made' = NoMode /\ read' = NoMode /\ UNCHANGED <<chunk, prev>>

ModesNext ==
  \/ \E pt \in Texts, room \in Rooms :
       \/ \E iv \in CounterBlocks : CtrEncrypt(iv, pt, room)
       \/ \E nonce \in Nonces : CtrApply(nonce, pt, room)
       \/ \E iv \in Ivs : CbcEncrypt(iv, pt, room)
  \/ EncryptChunk \/ EncryptReturn
  \/ made # NoMode /\ \E n \in 0 .. Len(made.after), room \in Rooms :
       \/ \E iv \in CounterBlocks : CtrDecrypt(iv, n, room)
       \/ \E iv \in Ivs : CbcDecrypt(iv, n, room)
  \/ DecryptChunk \/ DecryptReturn
  \/ TakeMade

ModesSpec == ModesInit /\ [][ModesNext]_modes

-----------------------------------------------------------------------------
(* What an encryption that returns has written: all of the text, or as     *)
(* many whole blocks as the buffer has room for, without an error (CBC);   *)
(* what is behind it is as it was before.  CBC's blocks are those of       *)
(* SP 800-38A.                                                             *)
Done == IF made.mode = "ctr" THEN Len(made.pt)
        ELSE BLOCK * Least(NumChunks(Len(made.pt)), Len(made.after) \div BLOCK)
BlockBefore(j) == IF j = 1 THEN made.iv ELSE Chunk(made.after, j - 1)
WritesPrefix ==
  made.outcome = "returned" =>
    /\ \A i \in Done + 1 .. Len(made.after) : made.after[i] = Letter("stale")
    /\ made.mode = "cbc" =>
         \A j \in 1 .. Done \div BLOCK :
           Chunk(made.after, j) =
             EncryptBlock(XorBlock(Chunk(made.pt, j), BlockBefore(j)))

(* What is read with the same initial block is the text, as far as it was  *)
(* written and read; with another one CBC loses the first block and no     *)
(* more, and CTR every byte.                                               *)
ReadsBack ==
  read.outcome = "returned" /\ made.outcome = "returned" =>
    \A i \in 1 .. Least(Least(Len(read.input), Done), Len(read.after)) :
      IF read.iv = made.iv \/ (made.mode = "cbc" /\ i > BLOCK)
      THEN read.after[i] = made.pt[i] ELSE read.after[i] # made.pt[i]

(* No byte of one text has another one's key stream, as long as the text   *)
(* has no more blocks than the counter values.                             *)
StreamOnce ==
  made.mode = "ctr" /\ Len(made.pt) <= BLOCK * COUNTERS =>
    LET Mask(i) == Xor(made.after[i], made.pt[i])
    IN  \A i, j \in 1 .. Least(Len(made.pt), Len(made.after)) :
          i # j => Mask(i) \cap Mask(j) = {}
=============================================================================
