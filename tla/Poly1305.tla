------------------------------ MODULE Poly1305 ------------------------------
(***************************************************************************)
(* The streaming interface of Poly1305 (chacha20/src/poly1305.rs): update  *)
(* tops up its buffer of one block, takes whole blocks straight from its   *)
(* input, and keeps what is left; finalize marks the end of a partial      *)
(* block.                                                                  *)
(*                                                                         *)
(* The accumulator is taken to be injective: it is the list of the blocks, *)
(* each with its bit 2^128.  Message bytes are numbered, from 256 on.      *)
(***************************************************************************)
EXTENDS Integers, Sequences

CONSTANTS
  BLOCK,        \* bytes of a block (16)
  ChunkLens,    \* lengths of the slices update is called with
  MaxMessage    \* bound on the bytes of a message

Poly1305Assumption ==
  /\ BLOCK \in Nat /\ BLOCK > 1
  /\ ChunkLens \subseteq Nat /\ MaxMessage \in Nat

VARIABLES
  pc,           \* "none", "open", "topping", "blocks" (two phases of update),
                \* "done"
  h,            \* the blocks accumulated so far
  buffer, buffer_len,
  length, offset,       \* data.len() and offset of update
  given,        \* history: number of bytes of the message so far
  tag           \* what finalize returned: the blocks accumulated for it

vars == <<pc, h, buffer, buffer_len, length, offset, given, tag>>

-----------------------------------------------------------------------------
MessageByte(i) == 255 + i
ZeroBlock == [i \in 1 .. BLOCK |-> 0]
LesserOf(a, b) == IF a <= b THEN a ELSE b

(* data[offset + i], for i from 1.                                         *)
DataByte(i) == MessageByte(given - length + offset + i)

AddBlock(acc, m, hibit) == Append(acc, [block |-> m, hibit |-> hibit])

Init ==
  /\ pc = "none" /\ h = <<>> /\ buffer = ZeroBlock /\ buffer_len = 0
  /\ length = 0 /\ offset = 0 /\ given = 0 /\ tag = <<>>

New ==
  /\ pc \in {"none", "done"} /\ pc' = "open"
  /\ h' = <<>> /\ buffer' = ZeroBlock /\ buffer_len' = 0
  /\ length' = 0 /\ offset' = 0 /\ given' = 0 /\ tag' = <<>>

Update(n) ==
  /\ pc = "open" /\ given + n <= MaxMessage
  /\ pc' = "topping" /\ length' = n /\ offset' = 0 /\ given' = given + n
  /\ UNCHANGED <<h, buffer, buffer_len, tag>>

Have == LesserOf(BLOCK - buffer_len, length)

(* The offset after that.                                                  *)
ToppedUp == Have

(* The first phase, for a buffer that is not empty.                        *)
TopUp ==
  LET filled == [i \in 1 .. BLOCK |->
                   IF i \in buffer_len + 1 .. buffer_len + Have
                     THEN DataByte(i - buffer_len) ELSE buffer[i]]
  IN /\ pc = "topping" /\ pc' = "blocks"
     /\ IF buffer_len = 0
          THEN UNCHANGED <<h, buffer, buffer_len, offset>>
          ELSE /\ buffer' = filled /\ offset' = ToppedUp
               /\ IF buffer_len + Have = BLOCK
                    THEN h' = AddBlock(h, filled, TRUE) /\ buffer_len' = 0
                    ELSE buffer_len' = buffer_len + Have /\ UNCHANGED h
     /\ UNCHANGED <<length, given, tag>>

WholeBlockLeft == offset + BLOCK <= length

(* An iteration of the second phase.                                       *)
TakeBlock ==
  /\ pc = "blocks" /\ WholeBlockLeft
  /\ h' = AddBlock(h, [i \in 1 .. BLOCK |-> DataByte(i)], TRUE)
  /\ offset' = offset + BLOCK
  /\ UNCHANGED <<pc, buffer, buffer_len, length, given, tag>>

(* The third phase.                                                        *)
KeepRest ==
  /\ pc = "blocks" /\ ~ WholeBlockLeft /\ pc' = "open"
  /\ IF offset < length
       THEN /\ buffer' = [i \in 1 .. BLOCK |->
                            IF i <= length - offset THEN DataByte(i) ELSE buffer[i]]
            /\ buffer_len' = length - offset
       ELSE UNCHANGED <<buffer, buffer_len>>
  /\ length' = 0 /\ offset' = 0
  /\ UNCHANGED <<h, given, tag>>

(* Mutant: the bytes behind the mark are left as they are.                 *)
MarkedNoClear == [buffer EXCEPT ![buffer_len + 1] = 1]

(* The mark and zero bytes behind a partial block.                         *)
Marked == [i \in 1 .. BLOCK |-> IF i <= buffer_len THEN buffer[i]
                                ELSE IF i = buffer_len + 1 THEN 1 ELSE 0]

(* finalize wipes the state.                                               *)
Finalize ==
  /\ pc = "open" /\ pc' = "done"
  /\ tag' = IF buffer_len > 0 THEN AddBlock(h, Marked, FALSE) ELSE h
  /\ h' = <<>> /\ buffer' = ZeroBlock /\ buffer_len' = 0
  /\ UNCHANGED <<length, offset, given>>

Next == \/ New \/ (\E n \in ChunkLens : Update(n))
        \/ TopUp \/ TakeBlock \/ KeepRest \/ Finalize

Spec == Init /\ [][Next]_vars

-----------------------------------------------------------------------------
Poly1305TypeOK ==
  /\ pc \in {"none", "open", "topping", "blocks", "done"}
  /\ h \in Seq([block : [1 .. BLOCK -> Nat], hibit : BOOLEAN])
  /\ tag \in Seq([block : [1 .. BLOCK -> Nat], hibit : BOOLEAN])
  /\ buffer \in [1 .. BLOCK -> Nat] /\ buffer_len \in 0 .. BLOCK - 1
  /\ given \in Nat /\ length \in 0 .. given /\ offset \in 0 .. length

WholeBlock(k) ==
  [block |-> [i \in 1 .. BLOCK |-> MessageByte((k - 1) * BLOCK + i)],
   hibit |-> TRUE]

(* Between any two phases of update the bytes taken so far are, in order,  *)
(* those accumulated, in whole blocks, and those in the buffer.            *)
NoByteLost ==
  pc \in {"open", "topping", "blocks"} =>
    /\ given - length + offset = Len(h) * BLOCK + buffer_len
    /\ \A k \in 1 .. Len(h) : h[k] = WholeBlock(k)
    /\ \A i \in 1 .. buffer_len : buffer[i] = MessageByte(Len(h) * BLOCK + i)
    /\ pc = "open" => offset = length
    /\ pc = "blocks" /\ buffer_len > 0 => offset = length

(* RFC 8439, 2.5: however the message is cut into calls of update, the tag *)
(* is over its whole blocks, each with the bit 2^128, and then, if a part  *)
(* of a block is left, that part, marked by a byte 1 and without the bit.  *)
TagOfMessage ==
  pc = "done" =>
    LET whole == given \div BLOCK
        left  == given % BLOCK
    IN /\ Len(tag) = (IF left = 0 THEN whole ELSE whole + 1)
       /\ \A k \in 1 .. whole : tag[k] = WholeBlock(k)
       /\ left > 0 =>
            tag[whole + 1] =
              [block |-> [i \in 1 .. BLOCK |->
                            IF i <= left THEN MessageByte(whole * BLOCK + i)
                            ELSE IF i = left + 1 THEN 1 ELSE 0],
               hibit |-> FALSE]
=============================================================================
