----------------------------- MODULE SHA2Proofs -----------------------------
(***************************************************************************)
(* However a message is cut into calls of update, SHA-2's digest is that   *)
(* of the padded message: for every block length, length field and slices. *)
(***************************************************************************)
EXTENDS SHA2, TLAPS

(* The state between two steps: the bytes of the message are where         *)
(* NoByteLost says, and nothing is left to copy when update has returned.  *)
IInv == /\ SHA2TypeOK /\ NoByteLost /\ DigestOfMessage
        /\ pc = "open" => rest = 0

-----------------------------------------------------------------------------
(* Lemmas on arithmetic.                                                   *)

LEMMA Remainder ==
  ASSUME NEW x \in Nat, NEW m \in Nat \ {0}
  PROVE  /\ x % m \in 0 .. m - 1
         /\ x = m * (x \div m) + (x % m)
         /\ x \div m \in Nat
<1>1. x % m \in 0 .. m - 1
  BY SMT
<1>2. x = m * (x \div m) + (x % m)
  BY SMT
<1>3. x \div m \in Nat
  BY SMT
<1> QED BY <1>1, <1>2, <1>3

LEMMA RemainderUnique ==
  ASSUME NEW m \in Nat \ {0}, NEW q \in Nat, NEW p \in Nat,
         NEW r \in 0 .. m - 1, NEW s \in 0 .. m - 1, m * q + r = m * p + s
  PROVE  r = s
<1>1. CASE q = p
  BY <1>1, SMT
<1>2. CASE q < p
  <2>1. PICK d \in Nat : p = q + 1 + d
    BY <1>2, SMT
  <2>2. m * p = m * q + m + m * d /\ m * d \in Nat
    BY <2>1, SMT
  <2> QED BY <2>2, SMT
<1>3. CASE p < q
  <2>1. PICK d \in Nat : q = p + 1 + d
    BY <1>3, SMT
  <2>2. m * q = m * p + m + m * d /\ m * d \in Nat
    BY <2>1, SMT
  <2> QED BY <2>2, SMT
<1> QED BY <1>1, <1>2, <1>3, SMT

LEMMA SumOfMultiples ==
  ASSUME NEW m \in Nat, NEW u \in Nat, NEW v \in Nat, NEW w \in Nat
  PROVE  m * (u + v + w) = m * u + m * v + m * w
         /\ m * u \in Nat /\ m * v \in Nat /\ m * w \in Nat
  BY SMT

(* Reducing the summands first changes nothing: wrapping_add counts right. *)
LEMMA ModAdd ==
  ASSUME NEW a \in Nat, NEW b \in Nat, NEW m \in Nat \ {0}
  PROVE  ((a % m) + (b % m)) % m = (a + b) % m
<1>1. PICK u \in Nat, ra \in 0 .. m - 1 : a = m * u + ra /\ ra = a % m
  BY Remainder
<1>2. PICK v \in Nat, rb \in 0 .. m - 1 : b = m * v + rb /\ rb = b % m
  BY Remainder
<1>3. ra + rb \in Nat /\ a + b \in Nat
  BY SMT
<1>4. PICK w \in Nat, rt \in 0 .. m - 1 :
        ra + rb = m * w + rt /\ rt = (ra + rb) % m
  BY <1>3, Remainder
<1>5. PICK z \in Nat, rz \in 0 .. m - 1 :
        a + b = m * z + rz /\ rz = (a + b) % m
  BY <1>3, Remainder
<1>6. m * (u + v + w) = m * u + m * v + m * w
      /\ m * u \in Nat /\ m * v \in Nat /\ m * w \in Nat
  BY SumOfMultiples
<1>7. m * (u + v + w) + rt = m * z + rz /\ u + v + w \in Nat
  <2>1. PICK mu \in Nat, mv \in Nat, mw \in Nat :
          mu = m * u /\ mv = m * v /\ mw = m * w
    BY <1>6
  <2>2. a + b = mu + mv + mw + rt
    <3>1. a = mu + ra /\ b = mv + rb /\ ra + rb = mw + rt
      BY <1>1, <1>2, <1>4, <2>1
    <3> QED BY <3>1, SMT
  <2> QED BY <1>5, <1>6, <2>1, <2>2
<1>8. rt = rz
  BY <1>7, RemainderUnique
<1> QED BY <1>1, <1>2, <1>4, <1>5, <1>8

LEMMA ModSmall ==
  ASSUME NEW a \in Nat, NEW m \in Nat \ {0}, a < m
  PROVE  a % m = a
  BY SMT

LEMMA MultipleBound ==
  ASSUME NEW q \in Nat, NEW b \in Nat \ {0}
  PROVE  q <= q * b /\ q * b \in Nat /\ (q + 1) * b = q * b + b
  BY SMT

(* Lemmas on sequences of bytes.                                           *)

LEMMA Concat ==
  ASSUME NEW s \in Seq(Nat), NEW n \in Nat, NEW f \in [1 .. n -> Nat]
  PROVE  /\ s \o f \in Seq(Nat) /\ Len(s \o f) = Len(s) + n
         /\ \A i \in 1 .. Len(s) : (s \o f)[i] = s[i]
         /\ \A i \in Len(s) + 1 .. Len(s) + n : (s \o f)[i] = f[i - Len(s)]
<1>1. f \in Seq(Nat) /\ Len(f) = n
  BY SMT
<1>2. s \o f \in Seq(Nat) /\ Len(s \o f) = Len(s) + n
  BY <1>1, SMT
<1>3. \A i \in 1 .. Len(s) : (s \o f)[i] = s[i]
  BY <1>1, SMT
<1>4. \A i \in Len(s) + 1 .. Len(s) + n : (s \o f)[i] = f[i - Len(s)]
  BY <1>1, SMT
<1> QED BY <1>2, <1>3, <1>4

LEMMA LengthByteType ==
  ASSUME NEW n \in Nat, NEW j \in 1 .. LENFIELD
  PROVE  LengthByte(n, j) \in Nat
<1> DEFINE k == j - (LENFIELD - LENBYTES)
<1>1. CASE j <= LENFIELD - LENBYTES
  BY <1>1, SHA2Assumption, SMT DEF LengthByte
<1>2. CASE ~(j <= LENFIELD - LENBYTES)
  <2>1. LENBYTES - k \in 0 .. LENBYTES
    BY <1>2, SHA2Assumption, SMT
  <2>2. PICK d \in Nat \ {0} : d = 256 ^ (LENBYTES - k)
    BY <2>1, PowersPositive
  <2>3. (n \div d) % 256 \in Nat
    BY SMT
  <2>4. LengthByte(n, j) = (n \div d) % 256
    BY <1>2, <2>2, SHA2Assumption DEF LengthByte, BeByte
  <2> QED BY <2>3, <2>4
<1> QED BY <1>1, <1>2

LEMMA WithLengthType ==
  ASSUME NEW n \in Nat, NEW blk \in [1 .. BLOCK -> Nat]
  PROVE  WithLength(blk, n) \in [1 .. BLOCK -> Nat]
<1>1. ASSUME NEW i \in 1 .. BLOCK, i > BLOCK - LENFIELD
      PROVE  i - (BLOCK - LENFIELD) \in 1 .. LENFIELD
  BY <1>1, SHA2Assumption, SMT
<1>2. ASSUME NEW i \in 1 .. BLOCK, i > BLOCK - LENFIELD
      PROVE  LengthByte(n, i - (BLOCK - LENFIELD)) \in Nat
  BY <1>1, <1>2, LengthByteType
<1> QED BY <1>2 DEF WithLength

LEMMA WrapType == ASSUME NEW n \in Nat PROVE Wrap(n) \in Nat
<1>1. PICK m \in Nat \ {0} : m = 256 ^ LENBYTES
  BY PowersPositive, SHA2Assumption, SMT
<1> QED BY <1>1, SMT DEF Wrap

LEMMA WrapAdd ==
  ASSUME NEW a \in Nat, NEW b \in Nat
  PROVE  Wrap(Wrap(a) + Wrap(b)) = Wrap(a + b)
<1>1. PICK m \in Nat \ {0} : m = 256 ^ LENBYTES
  BY PowersPositive, SHA2Assumption, SMT
<1>2. ((a % m) + (b % m)) % m = (a + b) % m
  BY ModAdd
<1> QED BY <1>1, <1>2 DEF Wrap

LEMMA WrapSmall ==
  ASSUME NEW a \in Nat, a < 256 ^ LENBYTES
  PROVE  Wrap(a) = a
<1>1. PICK m \in Nat \ {0} : m = 256 ^ LENBYTES
  BY PowersPositive, SHA2Assumption, SMT
<1> QED BY <1>1, ModSmall DEF Wrap

-----------------------------------------------------------------------------
(* The steps.                                                              *)

LEMMA InitIInv == Init => IInv
<1> SUFFICES ASSUME Init PROVE IInv
  OBVIOUS
<1>1. ZeroBlock \in [1 .. BLOCK -> Nat]
  BY DEF ZeroBlock
<1>2. 0 \in 0 .. BLOCK - 1
  BY SHA2Assumption, SMT
<1>3. SHA2TypeOK
  BY <1>1, <1>2, SMT DEF Init, SHA2TypeOK
<1> QED BY <1>3 DEF Init, IInv, NoByteLost, DigestOfMessage

LEMMA NewIInv == IInv /\ New => IInv'
<1> SUFFICES ASSUME New PROVE IInv'
  OBVIOUS
<1>1. ZeroBlock \in [1 .. BLOCK -> Nat] /\ \A i \in 1 .. BLOCK : ZeroBlock[i] = 0
  BY DEF ZeroBlock
<1>2. 0 \in 0 .. BLOCK - 1
  BY SHA2Assumption, SMT
<1>3. SHA2TypeOK'
  BY <1>1, <1>2, SMT DEF New, SHA2TypeOK
<1>4. Wrap(8 * 0) = 0
  <2>1. PICK m \in Nat \ {0} : m = 256 ^ LENBYTES
    BY PowersPositive, SHA2Assumption, SMT
  <2>2. 0 % m = 0
    BY SMT
  <2> QED BY <2>1, <2>2, SMT DEF Wrap
<1>5. Len(state') = 0 /\ 0 = 0 * BLOCK /\ 0 \in 0 .. given'
  BY SHA2Assumption, SMT DEF New
<1>6. \A i \in 1 .. BLOCK : ~(i <= 0)
  BY SHA2Assumption, SMT
<1>7. NoByteLost'
  <2>1. (given - rest = Len(state) + buffer_len)'
    BY <1>5, SMT DEF New
  <2>2. (\E q \in 0 .. given : Len(state) = q * BLOCK)'
    BY <1>5
  <2>3. (\A i \in 1 .. Len(state) : state[i] = MessageByte(i))'
    BY <1>5, SMT
  <2>4. (\A i \in 1 .. BLOCK :
           buffer[i] = IF i <= buffer_len THEN MessageByte(Len(state) + i) ELSE 0)'
    BY <1>1, <1>6 DEF New
  <2>5. (total_len = Wrap(8 * given))'
    BY <1>4 DEF New
  <2> QED BY <2>1, <2>2, <2>3, <2>4, <2>5 DEF NoByteLost
<1> QED BY <1>3, <1>7 DEF New, IInv, DigestOfMessage

LEMMA UpdateIInv == ASSUME NEW n \in ChunkLens PROVE IInv /\ Update(n) => IInv'
<1> SUFFICES ASSUME IInv, Update(n) PROVE IInv'
  OBVIOUS
<1>1. n \in Nat /\ given \in Nat /\ rest = 0 /\ pc = "open" /\ total_len \in Nat
  BY SHA2Assumption DEF IInv, Update, SHA2TypeOK
<1>2. total_len' = Wrap(8 * given')
  <2>1. Wrap(Wrap(8 * given) + Wrap(8 * n)) = Wrap(8 * given + 8 * n)
    BY <1>1, WrapAdd, 8 * given \in Nat, 8 * n \in Nat
  <2>2. 8 * given + 8 * n = 8 * (given + n)
    BY <1>1, SMT
  <2> QED BY <1>1, <2>1, <2>2 DEF Update, IInv, NoByteLost
<1>3. total_len' \in Nat
  BY <1>1, <1>2, WrapType, 8 * (given + n) \in Nat DEF Update
<1>4. given' \in Nat /\ rest' \in 0 .. given' /\ given' - rest' = given - rest
  BY <1>1, SMT DEF Update
<1>5. SHA2TypeOK'
  BY <1>3, <1>4 DEF IInv, Update, SHA2TypeOK
<1>6. NoByteLost'
  <2>1. PICK q \in 0 .. given : Len(state) = q * BLOCK
    BY <1>1 DEF IInv, NoByteLost
  <2>2. q \in 0 .. given'
    BY <1>1, <2>1, SMT DEF Update
  <2>3. UNCHANGED <<state, buffer, buffer_len>>
    BY DEF Update
  <2> QED BY <1>1, <1>2, <1>4, <2>1, <2>2, <2>3 DEF IInv, NoByteLost
<1> QED BY <1>5, <1>6 DEF Update, IInv, DigestOfMessage

(* What an iteration copies: the bytes of the message that follow those in *)
(* the buffer, up to its end or that of the slice.                         *)
LEMMA CopiedBytes ==
  ASSUME SHA2TypeOK, NoByteLost, pc = "updating", rest > 0
  PROVE  /\ ChunkLen \in 1 .. rest /\ buffer_len + ChunkLen \in 1 .. BLOCK
         /\ Copied \in [1 .. BLOCK -> Nat]
         /\ \A i \in 1 .. BLOCK :
              Copied[i] = IF i <= buffer_len + ChunkLen
                            THEN MessageByte(Len(state) + i) ELSE 0
<1>1. /\ BLOCK \in Nat /\ rest \in Nat /\ given \in Nat /\ rest <= given
      /\ buffer_len \in 0 .. BLOCK - 1 /\ Len(state) \in Nat
      /\ buffer \in [1 .. BLOCK -> Nat]
  BY SHA2Assumption, SMT DEF SHA2TypeOK
<1>2. ChunkLen \in 1 .. rest /\ buffer_len + ChunkLen \in 1 .. BLOCK
  BY <1>1, SMT DEF ChunkLen
<1> DEFINE c == ChunkLen
<1> HIDE DEF c
<1>3. c \in 1 .. rest /\ buffer_len + c \in 1 .. BLOCK
  BY <1>2 DEF c
<1>4. Copied = [i \in 1 .. BLOCK |->
                  IF i \in buffer_len + 1 .. buffer_len + c
                    THEN MessageByte(given - rest + (i - buffer_len))
                    ELSE buffer[i]]
  BY DEF Copied, c
<1>5. given - rest = Len(state) + buffer_len
  BY DEF NoByteLost
<1>6. ASSUME NEW i \in 1 .. BLOCK
      PROVE  /\ Copied[i] = IF i <= buffer_len + c
                              THEN MessageByte(Len(state) + i) ELSE 0
             /\ Copied[i] \in Nat
  <2>1. buffer[i] = IF i <= buffer_len THEN MessageByte(Len(state) + i) ELSE 0
    BY DEF NoByteLost
  <2>2. MessageByte(Len(state) + i) \in Nat
    BY <1>1, SMT DEF MessageByte
  <2>3. CASE i \in buffer_len + 1 .. buffer_len + c
    <3>1. given - rest + (i - buffer_len) = Len(state) + i /\ i <= buffer_len + c
      BY <1>1, <1>3, <1>5, <2>3, SMT
    <3> QED BY <1>4, <2>2, <2>3, <3>1
  <2>4. CASE i \notin buffer_len + 1 .. buffer_len + c
    <3>1. i <= buffer_len <=> i <= buffer_len + c
      BY <1>1, <1>3, <2>4, SMT
    <3>2. Copied[i] = buffer[i]
      BY <1>4, <2>4
    <3> QED BY <2>1, <2>2, <3>1, <3>2
  <2> QED BY <2>3, <2>4
<1>7. Copied \in [1 .. BLOCK -> Nat]
  BY <1>4, <1>6
<1> QED BY <1>2, <1>6, <1>7 DEF c

LEMMA CopyChunkIInv == IInv /\ CopyChunk => IInv'
<1> SUFFICES ASSUME IInv, CopyChunk PROVE IInv'
  OBVIOUS
<1>1. /\ BLOCK \in Nat /\ BLOCK > 0 /\ rest \in Nat /\ given \in Nat /\ rest <= given
      /\ buffer_len \in 0 .. BLOCK - 1 /\ state \in Seq(Nat) /\ Len(state) \in Nat
      /\ pc = "updating" /\ rest > 0
  BY SHA2Assumption, SMT DEF IInv, SHA2TypeOK, CopyChunk
<1> DEFINE c == ChunkLen
<1>2. /\ c \in 1 .. rest /\ buffer_len + c \in 1 .. BLOCK
      /\ Copied \in [1 .. BLOCK -> Nat]
      /\ \A i \in 1 .. BLOCK :
           Copied[i] = IF i <= buffer_len + c
                         THEN MessageByte(Len(state) + i) ELSE 0
  BY <1>1, CopiedBytes DEF IInv
<1>3. /\ given - rest = Len(state) + buffer_len
      /\ \A i \in 1 .. Len(state) : state[i] = MessageByte(i)
      /\ total_len = Wrap(8 * given)
  BY <1>1 DEF IInv, NoByteLost
<1>4. PICK q \in 0 .. given : Len(state) = q * BLOCK
  BY <1>1 DEF IInv, NoByteLost
<1>5. pc' = "updating" /\ rest' = rest - c /\ UNCHANGED <<total_len, given, digest>>
  BY <1>1 DEF CopyChunk
<1> HIDE DEF c
<1>6. rest' \in 0 .. given'
  BY <1>1, <1>2, <1>5, SMT
<1>7. CASE buffer_len + c = BLOCK
  <2>1. state' = state \o Copied /\ buffer' = ZeroBlock /\ buffer_len' = 0
    BY <1>7 DEF CopyChunk, ProcessBlock, c
  <2>2. /\ state' \in Seq(Nat) /\ Len(state') = Len(state) + BLOCK
        /\ \A i \in 1 .. Len(state) : state'[i] = state[i]
        /\ \A i \in Len(state) + 1 .. Len(state) + BLOCK :
             state'[i] = Copied[i - Len(state)]
    BY <1>1, <1>2, <2>1, Concat
  <2>3. buffer' \in [1 .. BLOCK -> Nat] /\ \A i \in 1 .. BLOCK : buffer'[i] = 0
    BY <2>1 DEF ZeroBlock
  <2>4. given' - rest' = Len(state') + buffer_len'
    <3>1. given - (rest - c) = Len(state) + BLOCK + 0
      <4>1. c \in Int /\ rest \in Int /\ given \in Int /\ buffer_len \in Int
            /\ Len(state) \in Int
        BY <1>1, <1>2, SMT
      <4>2. given - rest = Len(state) + buffer_len /\ buffer_len + c = BLOCK
        BY <1>3, <1>7
      <4> QED BY <4>1, <4>2, SMT
    <3> QED BY <1>5, <2>1, <2>2, <3>1
  <2>5. \E p \in 0 .. given' : Len(state') = p * BLOCK
    <3>1. q + 1 <= (q + 1) * BLOCK /\ (q + 1) * BLOCK = Len(state')
      <4>1. q + 1 <= (q + 1) * BLOCK /\ (q + 1) * BLOCK = q * BLOCK + BLOCK
        BY <1>1, MultipleBound, q + 1 \in Nat
      <4> QED BY <1>4, <2>2, <4>1
    <3>2. Len(state') <= given'
      BY <1>1, <1>2, <1>3, <1>5, <1>7, <2>2, SMT
    <3>3. q + 1 \in 0 .. given'
      BY <1>1, <1>5, <2>2, <3>1, <3>2, SMT
    <3> QED BY <3>1, <3>3
  <2>6. ASSUME NEW i \in 1 .. Len(state') PROVE state'[i] = MessageByte(i)
    <3>1. CASE i <= Len(state)
      <4>1. i \in 1 .. Len(state)
        BY <1>1, <2>2, <3>1, SMT
      <4> QED BY <1>3, <2>2, <4>1
    <3>2. CASE ~(i <= Len(state))
      <4>1. /\ i \in Len(state) + 1 .. Len(state) + BLOCK
            /\ i - Len(state) \in 1 .. BLOCK /\ i - Len(state) <= buffer_len + c
            /\ Len(state) + (i - Len(state)) = i
        BY <1>1, <1>7, <2>2, <3>2, SMT
      <4> QED BY <1>2, <2>2, <4>1
    <3> QED BY <3>1, <3>2
  <2>7. \A i \in 1 .. BLOCK : ~(i <= buffer_len')
    BY <1>1, <2>1, SMT
  <2>8. NoByteLost'
    BY <1>3, <1>5, <2>3, <2>4, <2>5, <2>6, <2>7 DEF NoByteLost
  <2>9. 0 \in 0 .. BLOCK - 1
    BY <1>1, SMT
  <2>10. SHA2TypeOK'
    BY <1>5, <1>6, <2>1, <2>2, <2>3, <2>9 DEF IInv, SHA2TypeOK
  <2> QED BY <1>5, <2>8, <2>10 DEF IInv, DigestOfMessage
<1>8. CASE buffer_len + c # BLOCK
  <2>1. state' = state /\ buffer' = Copied /\ buffer_len' = buffer_len + c
    BY <1>8 DEF CopyChunk, c
  <2>2. given' - rest' = Len(state') + buffer_len' /\ buffer_len' \in 0 .. BLOCK - 1
    BY <1>1, <1>2, <1>3, <1>5, <1>8, <2>1, SMT
  <2>3. NoByteLost'
    BY <1>2, <1>3, <1>4, <1>5, <2>1, <2>2 DEF NoByteLost
  <2>4. SHA2TypeOK'
    BY <1>2, <1>5, <1>6, <2>1, <2>2 DEF IInv, SHA2TypeOK
  <2> QED BY <1>5, <2>3, <2>4 DEF IInv, DigestOfMessage
<1> QED BY <1>7, <1>8

(* finalize: the selected blocks are the padding, whether or not the       *)
(* length still fits the block that holds the end of the message.          *)
LEMMA FinalizeIInv == IInv /\ Finalize => IInv'
<1> SUFFICES ASSUME IInv, Finalize PROVE IInv'
  OBVIOUS
<1>1. /\ BLOCK \in Nat /\ BLOCK > 0 /\ LENFIELD \in Nat /\ LENFIELD < BLOCK
      /\ given \in Nat /\ rest = 0 /\ total_len \in Nat
      /\ buffer_len \in 0 .. BLOCK - 1 /\ state \in Seq(Nat) /\ Len(state) \in Nat
      /\ buffer \in [1 .. BLOCK -> Nat] /\ pc = "open"
  BY SHA2Assumption, SMT DEF IInv, SHA2TypeOK, Finalize
<1>2. /\ given = Len(state) + buffer_len
      /\ \A i \in 1 .. Len(state) : state[i] = MessageByte(i)
      /\ \A i \in 1 .. BLOCK :
           buffer[i] = IF i <= buffer_len THEN MessageByte(Len(state) + i) ELSE 0
      /\ total_len = Wrap(8 * given)
  BY <1>1, SMT DEF IInv, NoByteLost
<1>3. PICK q \in 0 .. given : Len(state) = q * BLOCK
  BY <1>1 DEF IInv, NoByteLost
<1> DEFINE marked == [buffer EXCEPT ![buffer_len + 1] = 128]
           extra  == NeedsExtra(buffer_len + 1)
           last   == WithLength(ZeroBlock, total_len)
           block1 == IF extra THEN marked ELSE WithLength(marked, total_len)
           after1 == state \o block1
           after2 == after1 \o last
<1>4. digest' = IF extra THEN after2 ELSE after1
  BY DEF Finalize, ProcessBlock
<1>5. /\ marked \in [1 .. BLOCK -> Nat]
      /\ \A i \in 1 .. BLOCK :
           marked[i] = IF i <= buffer_len THEN MessageByte(Len(state) + i)
                       ELSE IF i = buffer_len + 1 THEN 128 ELSE 0
  BY <1>1, <1>2, SMT
<1>6. /\ last \in [1 .. BLOCK -> Nat]
      /\ \A i \in 1 .. BLOCK :
           last[i] = IF i > BLOCK - LENFIELD
                       THEN LengthByte(total_len, i - (BLOCK - LENFIELD)) ELSE 0
  <2>1. ZeroBlock \in [1 .. BLOCK -> Nat] /\ \A i \in 1 .. BLOCK : ZeroBlock[i] = 0
    BY DEF ZeroBlock
  <2>2. last \in [1 .. BLOCK -> Nat]
    BY <1>1, <2>1, WithLengthType
  <2> QED BY <2>1, <2>2 DEF WithLength
<1>7. ~extra =>
        /\ block1 \in [1 .. BLOCK -> Nat]
        /\ \A i \in 1 .. BLOCK :
             block1[i] = IF i > BLOCK - LENFIELD
                           THEN LengthByte(total_len, i - (BLOCK - LENFIELD))
                           ELSE marked[i]
  <2>1. WithLength(marked, total_len) \in [1 .. BLOCK -> Nat]
    BY <1>1, <1>5, WithLengthType
  <2> QED BY <2>1 DEF WithLength
<1>8. block1 \in [1 .. BLOCK -> Nat]
  BY <1>5, <1>7
<1> HIDE DEF marked, last, block1
<1>9. /\ after1 \in Seq(Nat) /\ Len(after1) = Len(state) + BLOCK
      /\ \A i \in 1 .. Len(state) : after1[i] = state[i]
      /\ \A i \in Len(state) + 1 .. Len(state) + BLOCK :
           after1[i] = block1[i - Len(state)]
  BY <1>1, <1>8, Concat
<1> HIDE DEF after1
<1>10. /\ after2 \in Seq(Nat) /\ Len(after2) = Len(after1) + BLOCK
       /\ \A i \in 1 .. Len(after1) : after2[i] = after1[i]
       /\ \A i \in Len(after1) + 1 .. Len(after1) + BLOCK :
            after2[i] = last[i - Len(after1)]
  BY <1>1, <1>6, <1>9, Concat
<1> HIDE DEF after2
<1>11. digest' \in Seq(Nat)
  BY <1>4, <1>9, <1>10
<1>12. SHA2TypeOK'
  <2>1. ZeroBlock \in [1 .. BLOCK -> Nat] /\ 0 \in 0 .. BLOCK - 1
    BY <1>1, SMT DEF ZeroBlock
  <2>2. <<>> \in Seq(Nat) /\ 0 \in 0 .. given
    BY <1>1, SMT
  <2> QED BY <1>1, <1>11, <2>1, <2>2 DEF Finalize, SHA2TypeOK
<1>13. ASSUME 8 * given < 256 ^ LENBYTES PROVE IsPadded(digest', given)
  <2>1. total_len = 8 * given
    BY <1>1, <1>2, <1>13, WrapSmall, 8 * given \in Nat
  <2>2. (q + 1) * BLOCK = q * BLOCK + BLOCK
        /\ (q + 1 + 1) * BLOCK = (q + 1) * BLOCK + BLOCK
        /\ q + 1 <= (q + 1) * BLOCK /\ q + 1 + 1 <= (q + 1 + 1) * BLOCK
    BY <1>1, MultipleBound, q + 1 \in Nat, q + 1 + 1 \in Nat
  <2>3. CASE ~extra
    <3>1. digest' = after1 /\ Len(digest') = Len(state) + BLOCK
      BY <1>4, <1>9, <2>3
    <3>2. buffer_len + 1 <= BLOCK - LENFIELD
      BY <1>1, <2>3, SMT DEF NeedsExtra
    <3>3. \E p \in 0 .. Len(digest') : Len(digest') = p * BLOCK
      <4>1. Len(digest') = (q + 1) * BLOCK
        BY <1>3, <2>2, <3>1
      <4>2. q + 1 \in 0 .. Len(digest')
        BY <1>1, <2>2, <3>1, <4>1, SMT
      <4> QED BY <4>1, <4>2
    <3>4. Len(digest') >= given + 1 + LENFIELD
          /\ Len(digest') < given + 1 + LENFIELD + BLOCK
      BY <1>1, <1>2, <3>1, <3>2, SMT
    <3>5. ASSUME NEW i \in 1 .. Len(digest')
          PROVE  digest'[i] =
                   IF i <= given                            THEN MessageByte(i)
                   ELSE IF i = given + 1                    THEN 128
                   ELSE IF i <= Len(digest') - LENFIELD     THEN 0
                   ELSE LengthByte(8 * given, i - (Len(digest') - LENFIELD))
      <4>1. CASE i <= Len(state)
        <5>1. i \in 1 .. Len(state) /\ i <= given
          BY <1>1, <1>2, <3>1, <4>1, SMT
        <5> QED BY <1>2, <1>9, <3>1, <5>1
      <4>2. CASE ~(i <= Len(state))
        <5> DEFINE k == i - Len(state)
        <5>1. /\ i \in Len(state) + 1 .. Len(state) + BLOCK
              /\ k \in 1 .. BLOCK /\ Len(state) + k = i
              /\ (k <= buffer_len <=> i <= given)
              /\ (k = buffer_len + 1 <=> i = given + 1)
              /\ (k > BLOCK - LENFIELD <=> ~(i <= Len(digest') - LENFIELD))
              /\ (k > BLOCK - LENFIELD => ~(i <= given) /\ i # given + 1)
              /\ k - (BLOCK - LENFIELD) = i - (Len(digest') - LENFIELD)
          BY <1>1, <1>2, <3>1, <3>2, <4>2, SMT
        <5>2. digest'[i] = block1[k]
          BY <1>9, <3>1, <5>1
        <5> HIDE DEF k
        <5>3. block1[k] = IF k > BLOCK - LENFIELD
                            THEN LengthByte(total_len, k - (BLOCK - LENFIELD))
                            ELSE marked[k]
          BY <1>7, <2>3, <5>1
        <5>4. marked[k] = IF k <= buffer_len THEN MessageByte(Len(state) + k)
                          ELSE IF k = buffer_len + 1 THEN 128 ELSE 0
          BY <1>5, <5>1
        <5> QED BY <2>1, <5>1, <5>2, <5>3, <5>4
      <4> QED BY <4>1, <4>2
    <3> QED BY <3>3, <3>4, <3>5 DEF IsPadded
  <2>4. CASE extra
    <3>0. given = Len(state) + buffer_len /\ Len(after1) = Len(state) + BLOCK
      BY <1>2, <1>9
    <3>1. digest' = after2 /\ Len(digest') = Len(state) + BLOCK + BLOCK
      BY <1>4, <1>9, <1>10, <2>4
    <3>2. buffer_len + 1 > BLOCK - LENFIELD
      BY <2>4 DEF NeedsExtra
    <3>3. \E p \in 0 .. Len(digest') : Len(digest') = p * BLOCK
      <4>1. Len(digest') = (q + 1 + 1) * BLOCK
        BY <1>3, <2>2, <3>1
      <4>2. q + 1 + 1 \in 0 .. Len(digest')
        BY <1>1, <2>2, <3>1, <4>1, SMT
      <4> QED BY <4>1, <4>2
    <3>4. Len(digest') >= given + 1 + LENFIELD
          /\ Len(digest') < given + 1 + LENFIELD + BLOCK
      BY <1>1, <1>2, <3>1, <3>2, SMT
    <3>5. ASSUME NEW i \in 1 .. Len(digest')
          PROVE  digest'[i] =
                   IF i <= given                            THEN MessageByte(i)
                   ELSE IF i = given + 1                    THEN 128
                   ELSE IF i <= Len(digest') - LENFIELD     THEN 0
                   ELSE LengthByte(8 * given, i - (Len(digest') - LENFIELD))
      <4>1. CASE i <= Len(state)
        <5>1. i \in 1 .. Len(state) /\ i <= given /\ i \in 1 .. Len(after1)
          BY <1>1, <3>0, <3>1, <4>1, SMT
        <5> QED BY <1>2, <1>9, <1>10, <3>1, <5>1
      <4>2. CASE ~(i <= Len(state)) /\ i <= Len(state) + BLOCK
        <5> DEFINE k == i - Len(state)
        <5>1. /\ i \in Len(state) + 1 .. Len(state) + BLOCK
              /\ i \in 1 .. Len(after1)
              /\ k \in 1 .. BLOCK /\ Len(state) + k = i
              /\ (k <= buffer_len <=> i <= given)
              /\ (k = buffer_len + 1 <=> i = given + 1)
              /\ i <= Len(digest') - LENFIELD
          BY <1>1, <3>0, <3>1, <3>2, <4>2, SMT
        <5>2. digest'[i] = block1[k]
          BY <1>9, <1>10, <3>1, <5>1
        <5> HIDE DEF k
        <5>3. block1[k] = marked[k]
          BY <2>4 DEF block1
        <5>4. marked[k] = IF k <= buffer_len THEN MessageByte(Len(state) + k)
                          ELSE IF k = buffer_len + 1 THEN 128 ELSE 0
          BY <1>5, <5>1
        <5> QED BY <5>1, <5>2, <5>3, <5>4
      <4>3. CASE ~(i <= Len(state) + BLOCK)
        <5> DEFINE k == i - Len(after1)
        <5>1. /\ i \in Len(after1) + 1 .. Len(after1) + BLOCK
              /\ k \in 1 .. BLOCK
              /\ ~(i <= given) /\ i # given + 1
              /\ (k > BLOCK - LENFIELD <=> ~(i <= Len(digest') - LENFIELD))
              /\ k - (BLOCK - LENFIELD) = i - (Len(digest') - LENFIELD)
          BY <1>1, <3>0, <3>1, <4>3, SMT
        <5>2. digest'[i] = last[k]
          BY <1>10, <3>1, <5>1
        <5> HIDE DEF k
        <5>3. last[k] = IF k > BLOCK - LENFIELD
                          THEN LengthByte(total_len, k - (BLOCK - LENFIELD)) ELSE 0
          BY <1>6, <5>1
        <5> QED BY <2>1, <5>1, <5>2, <5>3
      <4> QED BY <4>1, <4>2, <4>3
    <3> QED BY <3>3, <3>4, <3>5 DEF IsPadded
  <2> QED BY <2>3, <2>4
<1>14. given' = given /\ pc' = "done"
  BY DEF Finalize
<1>15. DigestOfMessage'
  BY <1>13, <1>14 DEF DigestOfMessage
<1> QED BY <1>12, <1>14, <1>15 DEF IInv, NoByteLost

LEMMA NextIInv == IInv /\ [Next]_vars => IInv'
<1> SUFFICES ASSUME IInv, [Next]_vars PROVE IInv'
  OBVIOUS
<1>1. CASE New
  BY <1>1, NewIInv
<1>2. ASSUME NEW n \in ChunkLens, Update(n) PROVE IInv'
  BY <1>2, UpdateIInv
<1>3. CASE CopyChunk
  BY <1>3, CopyChunkIInv
<1>4. CASE UpdateReturn
  BY <1>4 DEF UpdateReturn, IInv, SHA2TypeOK, NoByteLost, DigestOfMessage
<1>5. CASE Finalize
  BY <1>5, FinalizeIInv
<1>6. CASE UNCHANGED vars
  BY <1>6 DEF vars, IInv, SHA2TypeOK, NoByteLost, DigestOfMessage
<1> QED BY <1>1, <1>2, <1>3, <1>4, <1>5, <1>6 DEF Next

(* SHA-2 computes the digest of the padded message (sha2_256.rs:154,       *)
(* sha2_512.rs finalize), however it was given, for all block lengths.     *)
THEOREM DigestIsOfMessage == Spec => []DigestOfMessage
<1>1. IInv => DigestOfMessage
  BY DEF IInv
<1> QED BY <1>1, InitIInv, NextIInv, PTL DEF Spec

(* No byte is lost, repeated or misplaced between two calls or two         *)
(* iterations (sha2_256.rs:119, update).                                   *)
THEOREM StreamIsComplete == Spec => [](SHA2TypeOK /\ NoByteLost)
<1>1. IInv => SHA2TypeOK /\ NoByteLost
  BY DEF IInv
<1> QED BY <1>1, InitIInv, NextIInv, PTL DEF Spec
=============================================================================
