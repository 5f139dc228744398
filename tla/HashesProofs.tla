---------------------------- MODULE HashesProofs ----------------------------
(***************************************************************************)
(* Objects that take a message in slices or give out a stream in parts:    *)
(* BLAKE2b (blake/src/blake2b.rs), the sponge of SHA-3 and SHAKE           *)
(* (sha3/src/keccak.rs), the tree and the output of BLAKE3                 *)
(* (blake/src/blake3.rs), and blake2b_long (blake/src/lib.rs).  However    *)
(* the message is cut into calls of update, what comes out is that of the  *)
(* whole message, for every block length, counter width, rate, size of a   *)
(* chunk, depth of the stack, and slice.                                   *)
(***************************************************************************)
EXTENDS Hashes, TLAPS, WellFoundedInduction

-----------------------------------------------------------------------------
(* Arithmetic and sequences.                                               *)

LEMMA Division ==
  ASSUME NEW x \in Nat, NEW m \in Nat \ {0}
  PROVE  /\ x = m * (x \div m) + (x % m)
         /\ x % m \in 0 .. m - 1 /\ x \div m \in Nat
<1>1. x = m * (x \div m) + (x % m)
  BY SMT
<1>2. x % m \in 0 .. m - 1
  BY SMT
<1>3. x \div m \in Nat
  BY SMT
<1> QED BY <1>1, <1>2, <1>3

LEMMA MultipleGrows ==
  ASSUME NEW m \in Nat, NEW p \in Nat, NEW q \in Nat, p < q
  PROVE  m * q \in Nat /\ m * p \in Nat /\ m * p + m <= m * q
<1>1. PICK d \in Nat : q = p + 1 + d
  BY SMT
<1>2. m * q = m * p + m + m * d /\ m * d \in Nat /\ m * p \in Nat
  BY <1>1, SMT
<1> QED BY <1>2, SMT

LEMMA NextMultiple ==
  ASSUME NEW q \in Nat, NEW m \in Nat
  PROVE  q * m \in Nat /\ (q + 1) * m = q * m + m /\ q * m = m * q
  BY SMT

LEMMA DivisionUnique ==
  ASSUME NEW m \in Nat \ {0}, NEW q \in Nat, NEW j \in 0 .. m - 1
  PROVE  (q * m + j) \div m = q /\ (q * m + j) % m = j
<1> DEFINE x == m * q + j
           d == x \div m
           s == x % m
<1>0. q * m + j = x
  BY NextMultiple
<1>1. x \in Nat
  BY SMT
<1>2. x = m * d + s /\ s \in 0 .. m - 1 /\ d \in Nat
  BY <1>1, Division
<1>3. m * q + j = m * d + s
  BY <1>2
<1>4. m * q \in Nat /\ m * d \in Nat
  BY <1>2, SMT
<1> HIDE DEF d, s
<1>5. ~ (q < d)
  <2>1. q < d => m * q + m <= m * d
    BY <1>2, MultipleGrows
  <2> QED BY <2>1, <1>2, <1>3, <1>4, SMT
<1>6. ~ (d < q)
  <2>1. d < q => m * d + m <= m * q
    BY <1>2, MultipleGrows
  <2> QED BY <2>1, <1>2, <1>3, <1>4, SMT
<1>7. d = q
  BY <1>2, <1>5, <1>6, SMT
<1>8. s = j
  BY <1>2, <1>3, <1>4, <1>7, SMT
<1> QED BY <1>0, <1>7, <1>8 DEF d, s, x

LEMMA QuotientUnique ==
  ASSUME NEW m \in Nat \ {0}, NEW q \in Nat, NEW j \in 0 .. m - 1
  PROVE  (m * q + j) \div m = q /\ (m * q + j) % m = j
<1>1. m * q = q * m
  BY NextMultiple
<1>2. (q * m + j) \div m = q /\ (q * m + j) % m = j
  BY DivisionUnique
<1> QED BY <1>1, <1>2

LEMMA Appended ==
  ASSUME NEW T, NEW s \in Seq(T), NEW e \in T
  PROVE  /\ Append(s, e) \in Seq(T) /\ Len(Append(s, e)) = Len(s) + 1
         /\ Len(s) \in Nat
         /\ \A i \in 1 .. Len(s) : Append(s, e)[i] = s[i]
         /\ Append(s, e)[Len(s) + 1] = e
  BY SMT

(* The blocks of a sequence end within it.                                 *)
LEMMA EarlierBlock ==
  ASSUME NEW len \in Nat, NEW i \in 1 .. len, NEW m \in Nat
  PROVE  /\ (i - 1) * m \in Nat /\ i * m \in Nat /\ len * m \in Nat
         /\ (i - 1) * m + m = i * m /\ i * m <= len * m
<1>1. i - 1 \in Nat /\ i \in Nat /\ i - 1 + 1 = i
  BY SMT
<1>2. (i - 1) * m \in Nat /\ (i - 1 + 1) * m = (i - 1) * m + m
  BY <1>1, NextMultiple
<1>3. i * m \in Nat /\ len * m \in Nat /\ i * m = m * i /\ len * m = m * len
  BY <1>1, NextMultiple
<1>4. i * m <= len * m
  <2>1. CASE i = len
    BY <1>3, <2>1
  <2>2. CASE i < len
    <3>1. m * i + m <= m * len
      BY <1>1, <2>2, MultipleGrows
    <3> QED
      BY <1>3, <3>1
  <2> QED
    BY <2>1, <2>2
<1> QED
  BY <1>1, <1>2, <1>3, <1>4

LEMMA Joined ==
  ASSUME NEW T, NEW s \in Seq(T), NEW n \in Nat, NEW f \in [1 .. n -> T]
  PROVE  /\ s \o f \in Seq(T) /\ Len(s \o f) = Len(s) + n /\ Len(s) \in Nat
         /\ \A i \in 1 .. Len(s) : (s \o f)[i] = s[i]
         /\ \A i \in Len(s) + 1 .. Len(s) + n : (s \o f)[i] = f[i - Len(s)]
<1>1. f \in Seq(T) /\ Len(f) = n
  BY SMT
<1>2. s \o f \in Seq(T) /\ Len(s \o f) = Len(s) + n /\ Len(s) \in Nat
  BY <1>1, SMT
<1>3. \A i \in 1 .. Len(s) : (s \o f)[i] = s[i]
  BY <1>1, SMT
<1>4. \A i \in Len(s) + 1 .. Len(s) + n : (s \o f)[i] = f[i - Len(s)]
  BY <1>1, SMT
<1> QED BY <1>2, <1>3, <1>4

-----------------------------------------------------------------------------
(* BLAKE2b.                                                                *)

(* The next count: the carry into the second word is the one of the sum.   *)
LEMMA CountOneMore ==
  ASSUME NEW q \in Nat, NEW m \in Nat, m > 1
  PROVE  ((q % m) + 1) % m = (q + 1) % m
<1>1. PICK p \in Nat, s \in 0 .. m - 1 : q = p * m + s /\ s = q % m
  <2>1. /\ q = m * (q \div m) + (q % m) /\ q % m \in 0 .. m - 1 /\ q \div m \in Nat
    BY Division, m \in Nat \ {0}
  <2>2. m * (q \div m) = (q \div m) * m
    BY <2>1, NextMultiple
  <2> QED
    BY <2>1, <2>2
<1>2. p * m \in Nat /\ (p + 1) * m = p * m + m /\ 0 \in 0 .. m - 1 /\ m \in Nat \ {0}
  BY NextMultiple
<1>3. CASE s + 1 < m
  <2>1. q + 1 = p * m + (s + 1) /\ s + 1 \in 0 .. m - 1
    BY <1>1, <1>2, <1>3
  <2>2. (p * m + (s + 1)) % m = s + 1 /\ (0 * m + (s + 1)) % m = s + 1
    BY <1>2, <2>1, 0 \in Nat, DivisionUnique
  <2>3. s + 1 = 0 * m + (s + 1)
    BY <2>1
  <2> QED
    BY <1>1, <2>1, <2>2, <2>3
<1>4. CASE ~(s + 1 < m)
  <2>1. s + 1 = m /\ q + 1 = (p + 1) * m + 0 /\ p + 1 \in Nat
    BY <1>1, <1>2, <1>4
  <2>2. ((p + 1) * m + 0) % m = 0 /\ (1 * m + 0) % m = 0
    BY <1>2, <2>1, 1 \in Nat, DivisionUnique
  <2>3. m = 1 * m + 0
    BY SMT
  <2> QED
    BY <1>1, <2>1, <2>2, <2>3
<1> QED
  BY <1>3, <1>4

LEMMA CounterAdds ==
  ASSUME NEW n \in Nat, NEW k \in Nat, COUNT \in Nat, COUNT > 1, k < COUNT
  PROVE  Blake2!AddToCounter(Blake2!Words(n), k) = Blake2!Words(n + k)
<1>1. PICK q \in Nat, rem \in 0 .. COUNT - 1 :
        n = q * COUNT + rem /\ rem = n % COUNT /\ q = n \div COUNT
  <2>1. /\ n = COUNT * (n \div COUNT) + (n % COUNT)
        /\ n % COUNT \in 0 .. COUNT - 1 /\ n \div COUNT \in Nat
    BY Division, COUNT \in Nat \ {0}
  <2>2. COUNT * (n \div COUNT) = (n \div COUNT) * COUNT
    BY <2>1, NextMultiple
  <2> QED
    BY <2>1, <2>2
<1>2. q * COUNT \in Nat /\ (q + 1) * COUNT = q * COUNT + COUNT /\ COUNT \in Nat \ {0}
  BY NextMultiple
<1>3. Blake2!Words(n) = <<rem, q % COUNT>>
  BY <1>1 DEF Blake2!Words
<1>4. Blake2!AddToCounter(<<rem, q % COUNT>>, k)
        = <<(rem + k) % COUNT, ((q % COUNT) + (IF rem + k >= COUNT THEN 1 ELSE 0)) % COUNT>>
  BY DEF Blake2!AddToCounter
<1>5. CASE rem + k < COUNT
  <2>1. n + k = q * COUNT + (rem + k) /\ rem + k \in 0 .. COUNT - 1
    BY <1>1, <1>2, <1>5
  <2>2. /\ (q * COUNT + (rem + k)) \div COUNT = q
        /\ (q * COUNT + (rem + k)) % COUNT = rem + k
        /\ (0 * COUNT + (rem + k)) % COUNT = rem + k
    BY <1>2, <2>1, 0 \in Nat, DivisionUnique
  <2>3. q % COUNT \in 0 .. COUNT - 1
    BY <1>2, Division
  <2>4. (0 * COUNT + (q % COUNT)) % COUNT = q % COUNT
    BY <1>2, <2>3, 0 \in Nat, DivisionUnique
  <2>5. rem + k = 0 * COUNT + (rem + k) /\ (q % COUNT) + 0 = 0 * COUNT + (q % COUNT)
        /\ ~(rem + k >= COUNT)
    BY <1>5, <2>1, <2>3
  <2> QED
    BY <1>3, <1>4, <2>1, <2>2, <2>4, <2>5 DEF Blake2!Words
<1>6. CASE ~(rem + k < COUNT)
  <2> DEFINE j == rem + k - COUNT
  <2>1. n + k = (q + 1) * COUNT + j /\ j \in 0 .. COUNT - 1 /\ q + 1 \in Nat
    BY <1>1, <1>2, <1>6
  <2> HIDE DEF j
  <2>2. /\ ((q + 1) * COUNT + j) \div COUNT = q + 1
        /\ ((q + 1) * COUNT + j) % COUNT = j /\ (1 * COUNT + j) % COUNT = j
    BY <1>2, <2>1, 1 \in Nat, DivisionUnique
  <2>3. rem + k = 1 * COUNT + j /\ rem + k >= COUNT
    BY <1>6 DEF j
  <2>4. ((q % COUNT) + 1) % COUNT = (q + 1) % COUNT
    BY CountOneMore
  <2> QED
    BY <1>3, <1>4, <2>1, <2>2, <2>3, <2>4 DEF Blake2!Words
<1> QED
  BY <1>5, <1>6

(* NoByteLost, of an input of n bytes under parameters p.                  *)
Streamed(p, n, hh, tt, b, bl) ==
  /\ n = Len(hh) * BLOCK + bl
  /\ \A i \in 1 .. Len(hh) :
       hh[i] = [block |-> Blake2!InputBlock(p, (i - 1) * BLOCK, n),
                t |-> Blake2!Words(i * BLOCK), final |-> FALSE]
  /\ b = Blake2!InputBlock(p, Len(hh) * BLOCK, n)
  /\ tt = Blake2!Words(Len(hh) * BLOCK)

B2Params == [hash : 0 .. MAXHASH, key : 0 .. MAXHASH]
B2Blocks == [block : [1 .. BLOCK -> Nat], t : Nat \X Nat, final : BOOLEAN]

LEMMA B2Sizes ==
  ASSUME Blake2!Blake2bAssumption
  PROVE  /\ BLOCK \in Nat /\ BLOCK > 0 /\ COUNT \in Nat /\ COUNT > 1 /\ BLOCK < COUNT
         /\ MAXHASH \in Nat /\ 0 < MAXHASH /\ MAXHASH <= BLOCK
  BY SMT DEF Blake2!Blake2bAssumption

LEMMA WordsType ==
  ASSUME Blake2!Blake2bAssumption, NEW n \in Nat
  PROVE  /\ Blake2!Words(n) \in (0 .. COUNT - 1) \X (0 .. COUNT - 1)
         /\ Blake2!Words(n) \in Nat \X Nat
<1>1. COUNT \in Nat \ {0}
  BY B2Sizes
<1>2. n % COUNT \in 0 .. COUNT - 1 /\ n \div COUNT \in Nat
  BY <1>1, Division
<1>3. (n \div COUNT) % COUNT \in 0 .. COUNT - 1
  BY <1>1, <1>2, Division
<1>4. 0 .. COUNT - 1 \subseteq Nat
  BY <1>1
<1> QED
  BY <1>2, <1>3, <1>4 DEF Blake2!Words

(* The input, and its blocks, hold bytes; a block that is complete does    *)
(* not change when input is added.                                         *)
LEMMA InputType ==
  ASSUME Blake2!Blake2bAssumption, NEW p \in B2Params, NEW start \in Nat, NEW n \in Nat
  PROVE  Blake2!InputBlock(p, start, n) \in [1 .. BLOCK -> Nat]
<1>1. ASSUME NEW i \in Nat PROVE Blake2!InputByte(p, i) \in Nat
  <2>1. p.key \in Nat /\ Blake2!KeyBytes(p) \in Nat
    BY B2Sizes DEF B2Params, Blake2!KeyBytes
  <2>2. i > Blake2!KeyBytes(p) => 255 + (i - Blake2!KeyBytes(p)) \in Nat
    BY <2>1
  <2> QED
    BY <2>2 DEF Blake2!InputByte, Blake2!MessageByte
<1>2. \A j \in 1 .. BLOCK : start + j \in Nat
  BY B2Sizes
<1> QED
  BY <1>1, <1>2 DEF Blake2!InputBlock

LEMMA CompleteBlock ==
  ASSUME Blake2!Blake2bAssumption, NEW p, NEW start \in Nat, NEW n \in Nat, NEW m \in Nat,
         start + BLOCK <= n, start + BLOCK <= m
  PROVE  Blake2!InputBlock(p, start, n) = Blake2!InputBlock(p, start, m)
<1>1. \A j \in 1 .. BLOCK : start + j <= n /\ start + j <= m
  BY B2Sizes
<1> QED
  BY <1>1 DEF Blake2!InputBlock

LEMMA StreamStarts ==
  ASSUME Blake2!Blake2bAssumption, NEW hash \in 0 .. MAXHASH, NEW key \in 0 .. MAXHASH
  PROVE  LET p == [hash |-> hash, key |-> key]
         IN  /\ Streamed(p, Blake2!KeyBytes(p), <<>>, <<0, 0>>, Blake2!KeyBlock(key),
                         IF key = 0 THEN 0 ELSE BLOCK)
             /\ Blake2!KeyBlock(key) \in [1 .. BLOCK -> Nat]
<1> DEFINE p == [hash |-> hash, key |-> key]
           n == Blake2!KeyBytes(p)
<1>1. p.key = key /\ n = IF key = 0 THEN 0 ELSE BLOCK
  BY B2Sizes DEF Blake2!KeyBytes
<1>2. Len(<<>>) * BLOCK = 0 /\ 1 .. Len(<<>>) = {}
  BY B2Sizes
<1>3. Blake2!KeyBlock(key) = Blake2!InputBlock(p, 0, n)
  <2>1. ASSUME NEW j \in 1 .. BLOCK
        PROVE  (IF j <= key THEN j ELSE 0)
                 = IF 0 + j <= n THEN Blake2!InputByte(p, 0 + j) ELSE 0
    <3>1. j \in Nat /\ j > 0 /\ j <= BLOCK /\ 0 + j = j
      BY B2Sizes
    <3>2. CASE key = 0
      BY <1>1, <3>1, <3>2
    <3>3. CASE key # 0
      <4>1. j <= n /\ ~(j > n)
        BY <1>1, <3>1, <3>3, B2Sizes
      <4> QED
        BY <1>1, <3>1, <4>1 DEF Blake2!InputByte
    <3> QED
      BY <3>2, <3>3
  <2> QED
    BY <2>1 DEF Blake2!KeyBlock, Blake2!InputBlock
<1>4. Blake2!Words(0) = <<0, 0>>
  <2>1. COUNT \in Nat \ {0} /\ 0 \in 0 .. COUNT - 1 /\ 0 = 0 * COUNT + 0
    BY B2Sizes
  <2>2. 0 % COUNT = 0 /\ 0 \div COUNT = 0
    BY <2>1, DivisionUnique
  <2> QED
    BY <2>2 DEF Blake2!Words
<1>5. Blake2!KeyBlock(key) \in [1 .. BLOCK -> Nat]
  BY B2Sizes DEF Blake2!KeyBlock
<1>6. n = 0 + n
  BY <1>1, B2Sizes
<1> QED
  BY <1>1, <1>2, <1>3, <1>4, <1>5, <1>6 DEF Streamed

LEMMA StreamCompresses ==
  ASSUME Blake2!Blake2bAssumption, NEW p \in B2Params, NEW n \in Nat,
         NEW hh \in Seq(B2Blocks), NEW tt, NEW b, Streamed(p, n, hh, tt, b, BLOCK)
  PROVE  LET u == Blake2!AddToCounter(tt, BLOCK)
             g == Blake2!Compress(hh, b, u, FALSE)
         IN  /\ Streamed(p, n, g, u, Blake2!ZeroBlock, 0)
             /\ g \in Seq(B2Blocks) /\ u \in (0 .. COUNT - 1) \X (0 .. COUNT - 1)
<1> DEFINE l == Len(hh)
           u == Blake2!AddToCounter(tt, BLOCK)
           e == [block |-> b, t |-> u, final |-> FALSE]
           g == Append(hh, e)
<1>1. /\ l \in Nat /\ l + 1 \in Nat /\ l * BLOCK \in Nat
      /\ (l + 1) * BLOCK = l * BLOCK + BLOCK
  BY NextMultiple, B2Sizes
<1>2. /\ n = l * BLOCK + BLOCK /\ b = Blake2!InputBlock(p, l * BLOCK, n)
      /\ tt = Blake2!Words(l * BLOCK)
      /\ \A i \in 1 .. l :
           hh[i] = [block |-> Blake2!InputBlock(p, (i - 1) * BLOCK, n),
                    t |-> Blake2!Words(i * BLOCK), final |-> FALSE]
  BY DEF Streamed
<1>3. u = Blake2!Words((l + 1) * BLOCK)
  BY <1>1, <1>2, CounterAdds, B2Sizes
<1>4. /\ u \in (0 .. COUNT - 1) \X (0 .. COUNT - 1) /\ u \in Nat \X Nat
      /\ b \in [1 .. BLOCK -> Nat]
  BY <1>1, <1>2, <1>3, WordsType, InputType, B2Sizes
<1>5. e \in B2Blocks
  BY <1>4 DEF B2Blocks
<1> HIDE DEF e, u, l
<1>6. /\ g \in Seq(B2Blocks) /\ Len(g) = l + 1
      /\ \A i \in 1 .. l : g[i] = hh[i]
      /\ g[l + 1] = e
  BY <1>5, Appended DEF l
<1> HIDE DEF g
<1>7. ASSUME NEW i \in 1 .. Len(g)
      PROVE  g[i] = [block |-> Blake2!InputBlock(p, (i - 1) * BLOCK, n),
                     t |-> Blake2!Words(i * BLOCK), final |-> FALSE]
  <2>1. i \in 1 .. l \/ i = l + 1
    BY <1>1, <1>6
  <2>2. CASE i \in 1 .. l
    BY <1>2, <1>6, <2>2
  <2>3. CASE i = l + 1
    <3>1. i - 1 = l
      BY <1>1, <2>3
    <3> QED
      BY <1>2, <1>3, <1>6, <2>3, <3>1 DEF e
  <2> QED
    BY <2>1, <2>2, <2>3
<1>8. Blake2!ZeroBlock = Blake2!InputBlock(p, Len(g) * BLOCK, n)
  <2>1. Len(g) * BLOCK = n
    BY <1>1, <1>2, <1>6
  <2>2. \A j \in 1 .. BLOCK : ~(n + j <= n)
    BY B2Sizes
  <2> QED
    BY <2>1, <2>2 DEF Blake2!ZeroBlock, Blake2!InputBlock
<1>9. n = Len(g) * BLOCK + 0
  BY <1>1, <1>2, <1>6
<1> QED
  BY <1>3, <1>4, <1>6, <1>7, <1>8, <1>9 DEF Streamed, Blake2!Compress, e, u, g

LEMMA StreamCopies ==
  ASSUME Blake2!Blake2bAssumption, NEW p \in B2Params, NEW n \in Nat,
         n >= Blake2!KeyBytes(p),
         NEW hh \in Seq(B2Blocks), NEW tt, NEW b,
         NEW bl \in 0 .. BLOCK, Streamed(p, n, hh, tt, b, bl),
         NEW take \in 0 .. BLOCK - bl
  PROVE  LET c == [i \in 1 .. BLOCK |->
                     IF i \in bl + 1 .. bl + take
                       THEN Blake2!MessageByte(n - Blake2!KeyBytes(p) + (i - bl))
                       ELSE b[i]]
         IN  Streamed(p, n + take, hh, tt, c, bl + take)
<1> DEFINE l == Len(hh)
           k == Blake2!KeyBytes(p)
           s == l * BLOCK
           m == n + take
           c == [i \in 1 .. BLOCK |->
                   IF i \in bl + 1 .. bl + take
                     THEN Blake2!MessageByte(n - k + (i - bl)) ELSE b[i]]
<1>1. /\ l \in Nat /\ s \in Nat /\ k \in Nat /\ BLOCK \in Nat /\ m \in Nat
      /\ take \in Nat /\ bl \in Nat /\ bl <= BLOCK /\ bl + take <= BLOCK
  BY NextMultiple, B2Sizes DEF Blake2!KeyBytes
<1>2. /\ n = s + bl /\ b = Blake2!InputBlock(p, s, n)
      /\ tt = Blake2!Words(s)
      /\ \A i \in 1 .. l :
           hh[i] = [block |-> Blake2!InputBlock(p, (i - 1) * BLOCK, n),
                    t |-> Blake2!Words(i * BLOCK), final |-> FALSE]
  BY DEF Streamed
<1>3. m = s + (bl + take)
  BY <1>1, <1>2
<1> HIDE DEF k, s, l
<1>4. ASSUME NEW i \in 1 .. l
      PROVE  hh[i] = [block |-> Blake2!InputBlock(p, (i - 1) * BLOCK, m),
                      t |-> Blake2!Words(i * BLOCK), final |-> FALSE]
  <2>1. (i - 1) * BLOCK \in Nat /\ (i - 1) * BLOCK + BLOCK <= s
    BY <1>1, EarlierBlock DEF s
  <2>2. (i - 1) * BLOCK + BLOCK <= n /\ (i - 1) * BLOCK + BLOCK <= m
    BY <1>1, <1>2, <1>3, <2>1
  <2>3. Blake2!InputBlock(p, (i - 1) * BLOCK, n) = Blake2!InputBlock(p, (i - 1) * BLOCK, m)
    BY <1>1, <2>1, <2>2, CompleteBlock
  <2> QED
    BY <1>2, <2>3
<1>5. ASSUME NEW i \in 1 .. BLOCK
      PROVE  c[i] = IF s + i <= m THEN Blake2!InputByte(p, s + i) ELSE 0
  <2>1. b[i] = IF s + i <= n THEN Blake2!InputByte(p, s + i) ELSE 0
    BY <1>2 DEF Blake2!InputBlock
  <2>2. CASE i \in bl + 1 .. bl + take
    <3>1. /\ s + i <= m /\ s + i > k
          /\ s + i - k = n - k + (i - bl)
      BY <1>1, <1>2, <1>3, <2>2 DEF k
    <3>2. Blake2!InputByte(p, s + i) = Blake2!MessageByte(s + i - k)
      BY <1>1, <3>1, SMT DEF Blake2!InputByte, k
    <3> QED
      BY <2>2, <3>1, <3>2
  <2>3. CASE i \notin bl + 1 .. bl + take
    <3>1. s + i <= m <=> s + i <= n
      BY <1>1, <1>2, <1>3, <2>3
    <3>2. c[i] = b[i]
      BY <2>3
    <3> QED
      BY <2>1, <3>1, <3>2
  <2> QED
    BY <2>2, <2>3
<1>6. c = Blake2!InputBlock(p, s, m)
  BY <1>5 DEF Blake2!InputBlock
<1> QED
  BY <1>2, <1>3, <1>4, <1>6 DEF Streamed, s, l, k

(* What finalize hands out for an input of n bytes is what RFC 7693 says.  *)
Complete(p, n, g) ==
  /\ (Len(g) - 1) * BLOCK < n \/ Len(g) = 1
  /\ n <= Len(g) * BLOCK
  /\ \A i \in 1 .. Len(g) :
       g[i] = [block |-> Blake2!InputBlock(p, (i - 1) * BLOCK, n),
               t |-> Blake2!Words(IF i = Len(g) THEN n ELSE i * BLOCK),
               final |-> i = Len(g)]

LEMMA StreamEnds ==
  ASSUME Blake2!Blake2bAssumption, NEW p \in B2Params, NEW n \in Nat,
         NEW hh \in Seq(B2Blocks), NEW tt, NEW b,
         NEW bl \in 0 .. BLOCK, Streamed(p, n, hh, tt, b, bl), n > 0 => bl > 0
  PROVE  Complete(p, n,
           Blake2!Compress(hh, [i \in 1 .. BLOCK |-> IF i <= bl THEN b[i] ELSE 0],
                           Blake2!AddToCounter(tt, bl), TRUE))
<1> DEFINE l == Len(hh)
           s == l * BLOCK
           padded == [i \in 1 .. BLOCK |-> IF i <= bl THEN b[i] ELSE 0]
           u == Blake2!AddToCounter(tt, bl)
           e == [block |-> padded, t |-> u, final |-> TRUE]
           g == Append(hh, e)
<1>1. /\ l \in Nat /\ s \in Nat /\ BLOCK \in Nat /\ bl \in Nat /\ bl <= BLOCK
      /\ (l + 1) * BLOCK = s + BLOCK
  BY NextMultiple, B2Sizes
<1>2. /\ n = s + bl /\ b = Blake2!InputBlock(p, s, n)
      /\ tt = Blake2!Words(s)
      /\ \A i \in 1 .. l :
           hh[i] = [block |-> Blake2!InputBlock(p, (i - 1) * BLOCK, n),
                    t |-> Blake2!Words(i * BLOCK), final |-> FALSE]
  BY DEF Streamed
<1>3. padded = b
  <2>1. \A i \in 1 .. BLOCK : b[i] = IF s + i <= n THEN Blake2!InputByte(p, s + i) ELSE 0
    BY <1>2 DEF Blake2!InputBlock
  <2>2. \A i \in 1 .. BLOCK : s + i <= n <=> i <= bl
    BY <1>1, <1>2
  <2>3. b = [i \in 1 .. BLOCK |-> b[i]]
    BY <1>2 DEF Blake2!InputBlock
  <2> HIDE DEF s
  <2>4. \A i \in 1 .. BLOCK : padded[i] = b[i]
    BY <2>1, <2>2
  <2> QED
    BY <2>3, <2>4
<1> HIDE DEF padded
<1>4. u = Blake2!Words(n)
  <2>1. bl < COUNT
    BY <1>1, B2Sizes
  <2>2. Blake2!AddToCounter(Blake2!Words(s), bl) = Blake2!Words(s + bl)
    BY <1>1, <2>1, CounterAdds, B2Sizes
  <2> QED
    BY <1>2, <2>2
<1>5. e \in B2Blocks
  <2>1. u \in Nat \X Nat
    BY <1>4, WordsType
  <2>2. b \in [1 .. BLOCK -> Nat]
    BY <1>1, <1>2, InputType
  <2> QED
    BY <1>3, <2>1, <2>2 DEF B2Blocks
<1> HIDE DEF e, u, l
<1>6. /\ Len(g) = l + 1 /\ g[l + 1] = e
      /\ \A i \in 1 .. l : g[i] = hh[i]
  BY <1>5, Appended DEF l
<1> HIDE DEF g
<1>7. (Len(g) - 1) * BLOCK < n \/ Len(g) = 1
  <2>1. CASE bl > 0
    BY <1>1, <1>2, <1>6, <2>1
  <2>2. CASE ~(bl > 0)
    <3>1. l * BLOCK = 0
      BY <1>1, <1>2, <2>2
    <3>2. ~(0 < l)
      <4>1. 0 < l => BLOCK * 0 + BLOCK <= BLOCK * l
        BY <1>1, MultipleGrows
      <4>2. BLOCK * l = l * BLOCK /\ BLOCK * 0 = 0
        BY <1>1, NextMultiple
      <4> QED
        BY <3>1, <4>1, <4>2, B2Sizes
    <3>3. l = 0
      BY <1>1, <3>2
    <3> QED
      BY <1>6, <3>3
  <2> QED
    BY <2>1, <2>2
<1>8. n <= Len(g) * BLOCK
  BY <1>1, <1>2, <1>6
<1>9. ASSUME NEW i \in 1 .. Len(g)
      PROVE  g[i] = [block |-> Blake2!InputBlock(p, (i - 1) * BLOCK, n),
                     t |-> Blake2!Words(IF i = Len(g) THEN n ELSE i * BLOCK),
                     final |-> i = Len(g)]
  <2>1. CASE i = l + 1
    <3>1. i - 1 = l
      BY <1>1, <2>1
    <3> QED
      BY <1>2, <1>3, <1>4, <1>6, <2>1, <3>1 DEF e
  <2>2. CASE i # l + 1
    <3>1. i \in 1 .. l
      BY <1>1, <1>6, <2>2
    <3> QED
      BY <1>2, <1>6, <2>2, <3>1
  <2> QED
    BY <2>1, <2>2
<1> QED
  BY <1>7, <1>8, <1>9 DEF Complete, Blake2!Compress, g, e, u, padded

(* Between two steps: once there is input, the buffer is empty only where  *)
(* update is about to put more into it.                                    *)
Taken == Blake2!KeyBytes(b_params) + b_given - b_rest

B2Inv ==
  /\ Blake2!Blake2bTypeOK /\ Blake2!NoByteLost /\ Blake2!DigestOfMessage
  /\ b_pc = "open" => b_rest = 0
  /\ b_pc \in {"open", "updating"} =>
       b_params.hash > 0 /\ (b_rest = 0 /\ Taken > 0 => b_buf_len > 0)

LEMMA B2Facts ==
  ASSUME Blake2!Blake2bAssumption, B2Inv
  PROVE  /\ b_params \in B2Params /\ b_h \in Seq(B2Blocks)
         /\ b_t \in (0 .. COUNT - 1) \X (0 .. COUNT - 1)
         /\ b_buf \in [1 .. BLOCK -> Nat] /\ b_buf_len \in 0 .. BLOCK
         /\ b_given \in Nat /\ b_rest \in Nat /\ b_rest <= b_given
         /\ Blake2!KeyBytes(b_params) \in Nat
         /\ Taken \in Nat /\ Taken >= Blake2!KeyBytes(b_params)
         /\ b_pc \in {"open", "updating"} => Streamed(b_params, Taken, b_h, b_t, b_buf, b_buf_len)
<1>1. /\ b_params \in B2Params /\ b_h \in Seq(B2Blocks)
      /\ b_t \in (0 .. COUNT - 1) \X (0 .. COUNT - 1)
      /\ b_buf \in [1 .. BLOCK -> Nat] /\ b_buf_len \in 0 .. BLOCK
  BY DEF B2Inv, Blake2!Blake2bTypeOK, B2Params, B2Blocks
<1>2. b_given \in Nat /\ b_rest \in Nat /\ b_rest <= b_given
  BY SMT DEF B2Inv, Blake2!Blake2bTypeOK
<1>3. Blake2!KeyBytes(b_params) \in Nat
  BY B2Sizes DEF Blake2!KeyBytes
<1>4. Taken \in Nat /\ Taken >= Blake2!KeyBytes(b_params)
  BY <1>2, <1>3 DEF Taken
<1>5. b_pc \in {"open", "updating"} => Streamed(b_params, Taken, b_h, b_t, b_buf, b_buf_len)
  BY DEF B2Inv, Blake2!NoByteLost, Streamed, Taken
<1> QED
  BY <1>1, <1>2, <1>3, <1>4, <1>5

(* What a step that leaves the state in use has to establish.              *)
LEMMA B2Next ==
  ASSUME Streamed(b_params', Taken', b_h', b_t', b_buf', b_buf_len'),
         b_pc' \in {"open", "updating"},
         b_pc' = "open" => b_rest' = 0 /\ (Taken' > 0 => b_buf_len' > 0)
  PROVE  Blake2!NoByteLost' /\ Blake2!DigestOfMessage'
<1>1. Blake2!NoByteLost'
  BY DEF Blake2!NoByteLost, Streamed, Taken
<1>2. b_pc' # "done"
  OBVIOUS
<1>3. Blake2!DigestOfMessage'
  BY <1>2 DEF Blake2!DigestOfMessage
<1> QED
  BY <1>1, <1>3

LEMMA B2Init == Blake2!Blake2bAssumption /\ Blake2!Init => B2Inv
<1> SUFFICES ASSUME Blake2!Blake2bAssumption, Blake2!Init PROVE B2Inv
  OBVIOUS
<1>1. Blake2!Unset \in B2Params /\ Blake2!ZeroBlock \in [1 .. BLOCK -> Nat]
      /\ 0 \in 0 .. COUNT - 1 /\ 0 \in 0 .. BLOCK /\ 0 \in 0 .. 0 /\ 0 \in Nat
  BY B2Sizes DEF Blake2!Unset, Blake2!ZeroBlock, B2Params
<1>2. Blake2!Blake2bTypeOK
  BY <1>1 DEF Blake2!Blake2bTypeOK, Blake2!Init, B2Params
<1> QED
  BY <1>2 DEF Blake2!Init, B2Inv, Blake2!NoByteLost, Blake2!DigestOfMessage

LEMMA B2Fresh ==
  ASSUME Blake2!Blake2bAssumption,
         NEW hash \in 1 .. MAXHASH, NEW key \in 0 .. MAXHASH, Blake2!Fresh(hash, key)
  PROVE  B2Inv'
<1> DEFINE p == [hash |-> hash, key |-> key]
           bl == IF key = 0 THEN 0 ELSE BLOCK
<1>1. /\ b_pc' = "open" /\ b_params' = p /\ b_h' = <<>> /\ b_t' = <<0, 0>>
      /\ b_buf' = Blake2!KeyBlock(key) /\ b_buf_len' = bl
      /\ b_rest' = 0 /\ b_given' = 0 /\ b_digest' = Blake2!NoDigest
  BY DEF Blake2!Fresh
<1>2. /\ Streamed(p, Blake2!KeyBytes(p), <<>>, <<0, 0>>, Blake2!KeyBlock(key), bl)
      /\ Blake2!KeyBlock(key) \in [1 .. BLOCK -> Nat]
  BY StreamStarts, B2Sizes
<1>3. /\ p \in B2Params /\ p.key = key /\ p.hash > 0
      /\ Blake2!KeyBytes(p) = bl /\ bl \in 0 .. BLOCK
  BY B2Sizes DEF B2Params, Blake2!KeyBytes
<1> HIDE DEF p, bl
<1>4. Taken' = bl
  <2>1. Taken' = Blake2!KeyBytes(b_params') + b_given' - b_rest'
    BY DEF Taken
  <2>2. Taken' = bl + 0 - 0
    BY <1>1, <1>3, <2>1
  <2> QED
    BY <1>3, <2>2, B2Sizes
<1>5. Blake2!NoByteLost' /\ Blake2!DigestOfMessage'
  BY <1>1, <1>2, <1>3, <1>4, B2Next
<1>6. Blake2!Blake2bTypeOK'
  <2>1. 0 \in 0 .. COUNT - 1 /\ 0 \in 0 .. 0 /\ 0 \in Nat
    BY B2Sizes
  <2> QED
    BY <1>1, <1>2, <1>3, <2>1 DEF Blake2!Blake2bTypeOK, B2Params
<1> QED
  BY <1>1, <1>3, <1>4, <1>5, <1>6 DEF B2Inv

LEMMA B2Update ==
  ASSUME Blake2!Blake2bAssumption, B2Inv, NEW n \in Blake2Lens, Blake2!Update(n)
  PROVE  B2Inv'
<1>1. /\ b_pc = "open" /\ b_pc' = "updating" /\ b_rest' = n /\ b_given' = b_given + n /\ b_rest = 0
      /\ UNCHANGED <<b_params, b_h, b_t, b_buf, b_buf_len, b_digest>>
  BY DEF Blake2!Update, B2Inv
<1>2. n \in Nat
  BY DEF Blake2!Blake2bAssumption
<1>3. /\ b_given \in Nat /\ Blake2!KeyBytes(b_params) \in Nat
      /\ Streamed(b_params, Taken, b_h, b_t, b_buf, b_buf_len)
  BY <1>1, B2Facts
<1>4. Taken' = Taken
  <2>1. Taken' = Blake2!KeyBytes(b_params) + (b_given + n) - n
    BY <1>1 DEF Taken
  <2>2. Taken = Blake2!KeyBytes(b_params) + b_given - 0
    BY <1>1 DEF Taken
  <2> QED
    BY <1>2, <1>3, <2>1, <2>2
<1>5. Blake2!NoByteLost' /\ Blake2!DigestOfMessage'
  BY <1>1, <1>3, <1>4, B2Next
<1>6. b_given + n \in Nat /\ n \in 0 .. b_given + n
  BY <1>2, <1>3
<1>7. Blake2!Blake2bTypeOK'
  BY <1>1, <1>6 DEF B2Inv, Blake2!Blake2bTypeOK
<1> QED
  BY <1>1, <1>4, <1>5, <1>7 DEF B2Inv

LEMMA B2CompressFull ==
  ASSUME Blake2!Blake2bAssumption, B2Inv, Blake2!CompressFull
  PROVE  B2Inv'
<1>1. /\ b_pc = "updating" /\ b_pc' = "updating" /\ b_buf_len = BLOCK /\ b_rest > 0
      /\ b_t' = Blake2!AddToCounter(b_t, BLOCK)
      /\ b_h' = Blake2!Compress(b_h, b_buf, b_t', FALSE)
      /\ b_buf' = Blake2!ZeroBlock /\ b_buf_len' = 0
      /\ UNCHANGED <<b_params, b_rest, b_given, b_digest>>
  BY DEF Blake2!CompressFull, Blake2!MustCompress
<1>2. /\ b_params \in B2Params /\ b_h \in Seq(B2Blocks) /\ Taken \in Nat
      /\ b_rest \in Nat
      /\ Streamed(b_params, Taken, b_h, b_t, b_buf, BLOCK)
  BY <1>1, B2Facts
<1>3. /\ Streamed(b_params, Taken, b_h', b_t', b_buf', 0)
      /\ b_h' \in Seq(B2Blocks) /\ b_t' \in (0 .. COUNT - 1) \X (0 .. COUNT - 1)
  BY <1>1, <1>2, StreamCompresses
<1>4. Taken' = Taken
  BY <1>1 DEF Taken
<1>5. Blake2!NoByteLost' /\ Blake2!DigestOfMessage'
  BY <1>1, <1>3, <1>4, B2Next
<1>6. Blake2!Blake2bTypeOK'
  <2>1. Blake2!ZeroBlock \in [1 .. BLOCK -> Nat] /\ 0 \in 0 .. BLOCK
    BY B2Sizes DEF Blake2!ZeroBlock
  <2> QED
    BY <1>1, <1>3, <2>1 DEF B2Inv, Blake2!Blake2bTypeOK, B2Blocks
<1>7. b_rest # 0
  BY <1>1, <1>2
<1> QED
  BY <1>1, <1>5, <1>6, <1>7 DEF B2Inv

LEMMA B2CopyChunk ==
  ASSUME Blake2!Blake2bAssumption, B2Inv, Blake2!CopyChunk
  PROVE  B2Inv'
<1> DEFINE k == Blake2!KeyBytes(b_params)
           take == Blake2!Take
<1>1. /\ b_pc = "updating" /\ b_pc' = "updating" /\ b_rest > 0 /\ ~(b_buf_len = BLOCK)
      /\ b_buf' = [i \in 1 .. BLOCK |->
                   IF i \in b_buf_len + 1 .. b_buf_len + take
                     THEN Blake2!MessageByte(b_given - b_rest + (i - b_buf_len)) ELSE b_buf[i]]
      /\ b_buf_len' = b_buf_len + take /\ b_rest' = b_rest - take
      /\ UNCHANGED <<b_params, b_h, b_t, b_given, b_digest>>
  BY DEF Blake2!CopyChunk, Blake2!MustCompress
<1>2. /\ b_params \in B2Params /\ b_h \in Seq(B2Blocks) /\ Taken \in Nat /\ Taken >= k
      /\ b_given \in Nat /\ b_rest \in Nat /\ b_rest <= b_given /\ k \in Nat
      /\ b_buf_len \in 0 .. BLOCK /\ b_buf \in [1 .. BLOCK -> Nat]
      /\ Streamed(b_params, Taken, b_h, b_t, b_buf, b_buf_len)
  BY <1>1, B2Facts
<1>3. take \in 1 .. BLOCK - b_buf_len /\ take <= b_rest
  BY <1>1, <1>2, B2Sizes DEF Blake2!Take
<1> HIDE DEF take, k
<1>4. Taken - k = b_given - b_rest
  BY <1>2 DEF Taken, k
<1>5. b_buf' = [i \in 1 .. BLOCK |->
                IF i \in b_buf_len + 1 .. b_buf_len + take
                  THEN Blake2!MessageByte(Taken - k + (i - b_buf_len)) ELSE b_buf[i]]
  BY <1>1, <1>4
<1>6. Streamed(b_params, Taken + take, b_h, b_t, b_buf', b_buf_len + take)
  <2>1. take \in 0 .. BLOCK - b_buf_len
    BY <1>2, <1>3, B2Sizes
  <2> QED
    BY <1>2, <1>5, <2>1, StreamCopies DEF k
<1>7. Taken' = Taken + take
  <2>1. Taken' = k + b_given - (b_rest - take) /\ Taken = k + b_given - b_rest
    BY <1>1 DEF Taken, k
  <2> QED
    BY <1>2, <1>3, <2>1
<1>8. Blake2!NoByteLost' /\ Blake2!DigestOfMessage'
  BY <1>1, <1>6, <1>7, B2Next
<1>9. /\ b_buf_len + take \in 0 .. BLOCK /\ b_buf_len + take > 0
      /\ b_rest - take \in 0 .. b_given
  BY <1>2, <1>3, B2Sizes
<1>10. b_buf' \in [1 .. BLOCK -> Nat]
  <2>1. ASSUME NEW i \in 1 .. BLOCK, i \in b_buf_len + 1 .. b_buf_len + take
        PROVE  Blake2!MessageByte(b_given - b_rest + (i - b_buf_len)) \in Nat
    BY <1>2, <2>1 DEF Blake2!MessageByte
  <2> QED
    BY <1>1, <1>2, <2>1
<1>11. Blake2!Blake2bTypeOK'
  BY <1>1, <1>9, <1>10 DEF B2Inv, Blake2!Blake2bTypeOK
<1> QED
  BY <1>1, <1>8, <1>9, <1>11 DEF B2Inv

LEMMA B2Finalize ==
  ASSUME Blake2!Blake2bAssumption, B2Inv, Blake2!Finalize
  PROVE  B2Inv'
<1> DEFINE padded == [i \in 1 .. BLOCK |-> IF i <= b_buf_len THEN b_buf[i] ELSE 0]
           g == Blake2!Compress(b_h, padded, Blake2!AddToCounter(b_t, b_buf_len), TRUE)
<1>1. /\ b_pc = "open" /\ b_pc' = "done"
      /\ b_digest' = [params |-> b_params, h |-> g]
      /\ b_h' = <<>> /\ b_t' = <<0, 0>> /\ b_buf' = Blake2!ZeroBlock /\ b_buf_len' = 0
      /\ b_params' = Blake2!Unset /\ UNCHANGED <<b_rest, b_given>>
  BY DEF Blake2!Finalize, Blake2!FinalCount
<1>2. /\ b_params \in B2Params /\ b_h \in Seq(B2Blocks) /\ Taken \in Nat
      /\ b_given \in Nat /\ Blake2!KeyBytes(b_params) \in Nat /\ b_rest = 0
      /\ b_buf_len \in 0 .. BLOCK /\ b_params.hash > 0 /\ (Taken > 0 => b_buf_len > 0)
      /\ Streamed(b_params, Taken, b_h, b_t, b_buf, b_buf_len)
  BY <1>1, B2Facts DEF B2Inv
<1>3. Taken = Blake2!KeyBytes(b_params) + b_given
  BY <1>2 DEF Taken
<1> HIDE DEF g
<1>4. Complete(b_params, Taken, g)
  <2>1. g = Blake2!Compress(b_h, padded, Blake2!AddToCounter(b_t, b_buf_len), TRUE)
    BY DEF g
  <2> QED
    BY <1>2, <2>1, StreamEnds
<1>5. Blake2!DigestOfMessage'
  BY <1>1, <1>2, <1>3, <1>4 DEF Blake2!DigestOfMessage, Complete
<1>6. Blake2!Blake2bTypeOK'
  <2>1. Blake2!Unset \in B2Params /\ Blake2!ZeroBlock \in [1 .. BLOCK -> Nat]
        /\ 0 \in 0 .. COUNT - 1 /\ 0 \in 0 .. BLOCK
    BY B2Sizes DEF Blake2!Unset, Blake2!ZeroBlock, B2Params
  <2> QED
    BY <1>1, <2>1 DEF B2Inv, Blake2!Blake2bTypeOK, B2Params
<1> QED
  BY <1>1, <1>5, <1>6 DEF B2Inv, Blake2!NoByteLost

LEMMA B2Step ==
  Blake2!Blake2bAssumption /\ B2Inv /\ [Blake2!Next]_(Blake2!vars) => B2Inv'
<1> SUFFICES ASSUME Blake2!Blake2bAssumption, B2Inv, [Blake2!Next]_(Blake2!vars)
             PROVE  B2Inv'
  OBVIOUS
<1>1. ASSUME NEW n \in HashLens, Blake2!New(n) PROVE B2Inv'
  <2>1. n \in 1 .. MAXHASH /\ 0 \in 0 .. MAXHASH /\ Blake2!Fresh(n, 0)
    BY <1>1, B2Sizes DEF Blake2!New
  <2> QED
    BY <2>1, B2Fresh
<1>2. ASSUME NEW n \in HashLens, NEW k \in KeyLens, Blake2!NewKeyed(n, k) PROVE B2Inv'
  <2>1. n \in 1 .. MAXHASH /\ k \in 0 .. MAXHASH /\ Blake2!Fresh(n, k)
    BY <1>2, B2Sizes DEF Blake2!NewKeyed
  <2> QED
    BY <2>1, B2Fresh
<1>3. ASSUME NEW n \in HashLens, NEW k \in KeyLens, Blake2!NewPanics(n, k) PROVE B2Inv'
  BY <1>3 DEF Blake2!NewPanics, B2Inv, Blake2!Blake2bTypeOK, Blake2!NoByteLost,
              Blake2!DigestOfMessage
<1>4. ASSUME NEW n \in Blake2Lens, Blake2!Update(n) PROVE B2Inv'
  BY <1>4, B2Update
<1>5. CASE Blake2!CompressFull
  BY <1>5, B2CompressFull
<1>6. CASE Blake2!CopyChunk
  BY <1>6, B2CopyChunk
<1>7. CASE Blake2!UpdateReturn
  <2>1. /\ b_pc = "updating" /\ b_pc' = "open" /\ b_rest = 0
        /\ UNCHANGED <<b_params, b_h, b_t, b_buf, b_buf_len, b_rest, b_given, b_digest>>
    BY <1>7 DEF Blake2!UpdateReturn
  <2>2. Streamed(b_params, Taken, b_h, b_t, b_buf, b_buf_len) /\ Taken' = Taken
    BY <2>1, B2Facts DEF Taken
  <2>3. Blake2!NoByteLost' /\ Blake2!DigestOfMessage'
    BY <2>1, <2>2, B2Next DEF B2Inv
  <2> QED
    BY <2>1, <2>2, <2>3 DEF B2Inv, Blake2!Blake2bTypeOK
<1>8. CASE Blake2!Finalize
  BY <1>8, B2Finalize
<1>9. CASE Blake2!Wipe
  <2>1. Blake2!Unset \in B2Params /\ Blake2!ZeroBlock \in [1 .. BLOCK -> Nat]
        /\ 0 \in 0 .. COUNT - 1 /\ 0 \in 0 .. BLOCK
    BY B2Sizes DEF Blake2!Unset, Blake2!ZeroBlock, B2Params
  <2>2. Blake2!Blake2bTypeOK'
    BY <1>9, <2>1 DEF Blake2!Wipe, B2Inv, Blake2!Blake2bTypeOK, B2Params
  <2> QED
    BY <1>9, <2>2 DEF Blake2!Wipe, B2Inv, Blake2!NoByteLost, Blake2!DigestOfMessage
<1>10. CASE Blake2!UseWipedPanics
  BY <1>10 DEF Blake2!UseWipedPanics, B2Inv, Blake2!Blake2bTypeOK, Blake2!NoByteLost,
               Blake2!DigestOfMessage
<1>11. CASE UNCHANGED Blake2!vars
  BY <1>11 DEF Blake2!vars, B2Inv, Taken, Blake2!Blake2bTypeOK, Blake2!NoByteLost,
               Blake2!DigestOfMessage
<1> QED
  BY <1>1, <1>2, <1>3, <1>4, <1>5, <1>6, <1>7, <1>8, <1>9, <1>10, <1>11
     DEF Blake2!Next

-----------------------------------------------------------------------------
(* SHA-3 and SHAKE.                                                        *)

LEMMA RateIsLanes ==
  ASSUME Sponge!SHA3Assumption
  PROVE  /\ RATE \in Nat /\ RATE > 0 /\ LANE \in Nat /\ LANE > 0
         /\ Sponge!RateWords \in 1 .. RATE
         /\ RATE = Sponge!RateWords * LANE
<1>1. \E w \in 1 .. RATE : RATE = w * LANE
  BY DEF Sponge!SHA3Assumption
<1>2. Sponge!RateWords \in 1 .. RATE /\ RATE = Sponge!RateWords * LANE
  BY <1>1 DEF Sponge!RateWords
<1> QED
  BY <1>2 DEF Sponge!SHA3Assumption

(* Output of the rate only, in order, so far.                              *)
InOrder(o) ==
  \A i \in 1 .. Len(o) :
    o[i][2] \in 0 .. RATE - 1 /\ i - 1 = o[i][1] * RATE + o[i][2]

(* Between two steps of squeeze_into: while output is missing, it is the   *)
(* lanes taken from the states so far that are all there.                  *)
SpongeInv ==
  /\ Sponge!SHA3TypeOK /\ Sponge!NoByteLost /\ Sponge!AbsorbsMessage
  /\ Sponge!SqueezesRate
  /\ s_pc = "open" => s_rest = 0
  /\ s_pc = "squeezing" =>
       /\ Len(s_out) <= s_output_len
       /\ Len(s_out) < s_output_len => Len(s_out) = s_perms * RATE + s_word_idx * LANE

LEMMA SpongeFacts ==
  ASSUME Sponge!SHA3Assumption, SpongeInv
  PROVE  /\ s_domain \in DOMAINS /\ s_absorbed \in Seq(Nat) /\ s_perms \in Nat
         /\ Len(s_absorbed) \in Nat
         /\ s_buffer \in [1 .. RATE -> Nat] /\ s_buffer_len \in Nat /\ s_buffer_len < RATE
         /\ s_given \in Nat /\ s_rest \in Nat /\ s_rest <= s_given
         /\ s_word_idx \in 0 .. Sponge!RateWords /\ s_output_len \in Nat
         /\ s_out \in Seq(Nat \X Nat) /\ Len(s_out) \in Nat
<1>1. /\ s_domain \in DOMAINS /\ s_absorbed \in Seq(Nat) /\ s_perms \in Nat
      /\ s_buffer \in [1 .. RATE -> Nat] /\ s_buffer_len \in 0 .. RATE - 1
      /\ s_given \in Nat /\ s_rest \in 0 .. s_given
      /\ s_word_idx \in 0 .. Sponge!RateWords /\ s_output_len \in Nat
      /\ s_out \in Seq(Nat \X Nat)
  BY DEF SpongeInv, Sponge!SHA3TypeOK
<1>2. Len(s_absorbed) \in Nat /\ Len(s_out) \in Nat
  BY <1>1
<1>3. s_buffer_len \in Nat /\ s_buffer_len < RATE /\ s_rest \in Nat /\ s_rest <= s_given
  BY <1>1, RateIsLanes
<1> QED
  BY <1>1, <1>2, <1>3

LEMMA SpongeInit == Sponge!SHA3Assumption /\ Sponge!Init => SpongeInv
<1> SUFFICES ASSUME Sponge!SHA3Assumption, Sponge!Init PROVE SpongeInv
  OBVIOUS
<1>1. s_domain \in DOMAINS
  BY DEF Sponge!SHA3Assumption, Sponge!Init
<1>2. /\ Sponge!ZeroBuffer \in [1 .. RATE -> Nat] /\ 0 \in 0 .. RATE - 1
      /\ 0 \in 0 .. Sponge!RateWords /\ 0 \in 0 .. 0 /\ 0 \in Nat
  BY RateIsLanes DEF Sponge!ZeroBuffer
<1>3. Sponge!SHA3TypeOK
  BY <1>1, <1>2 DEF Sponge!SHA3TypeOK, Sponge!Init
<1>4. 1 .. Len(<<>>) = {}
  BY SMT
<1>5. Sponge!SqueezesRate
  BY <1>4 DEF Sponge!SqueezesRate, Sponge!Init
<1> QED
  BY <1>3, <1>5 DEF SpongeInv, Sponge!NoByteLost, Sponge!AbsorbsMessage, Sponge!Init

LEMMA SpongeNew == Sponge!SHA3Assumption /\ SpongeInv /\ Sponge!New => SpongeInv'
<1> SUFFICES ASSUME Sponge!SHA3Assumption, SpongeInv, Sponge!New PROVE SpongeInv'
  OBVIOUS
<1>1. /\ s_pc' = "open" /\ s_domain' \in DOMAINS /\ s_absorbed' = <<>> /\ s_perms' = 0
      /\ s_buffer' = Sponge!ZeroBuffer /\ s_buffer_len' = 0 /\ s_rest' = 0 /\ s_given' = 0
      /\ s_word_idx' = 0 /\ s_output_len' = 0 /\ s_out' = <<>>
  BY DEF Sponge!New
<1>2. /\ Sponge!ZeroBuffer \in [1 .. RATE -> Nat] /\ 0 \in 0 .. RATE - 1
      /\ 0 \in 0 .. Sponge!RateWords /\ 0 \in 0 .. 0 /\ 0 \in Nat
  BY RateIsLanes DEF Sponge!ZeroBuffer
<1>3. Sponge!SHA3TypeOK'
  BY <1>1, <1>2 DEF Sponge!SHA3TypeOK
<1>4. /\ Len(<<>>) = 0 /\ 1 .. 0 = {} /\ 0 - 0 = 0 + 0 /\ 0 = 0 * RATE
  BY RateIsLanes
<1>5. Sponge!SqueezesRate' /\ Sponge!AbsorbsMessage'
  BY <1>1, <1>4 DEF Sponge!SqueezesRate, Sponge!AbsorbsMessage
<1>6. Sponge!NoByteLost'
  <2>1. s_given' - s_rest' = Len(s_absorbed') + s_buffer_len'
    BY <1>1, <1>4
  <2>2. \E q \in 0 .. s_given' : Len(s_absorbed') = q * RATE
    BY <1>1, <1>2, <1>4
  <2>3. 1 .. Len(s_absorbed') = {} /\ 1 .. s_buffer_len' = {}
    BY <1>1, <1>4
  <2> QED
    BY <1>1, <2>1, <2>2, <2>3 DEF Sponge!NoByteLost
<1> QED
  BY <1>1, <1>3, <1>5, <1>6 DEF SpongeInv

LEMMA SpongeUpdate ==
  ASSUME Sponge!SHA3Assumption, SpongeInv, NEW n \in SpongeLens, Sponge!Update(n)
  PROVE  SpongeInv'
<1>1. /\ s_pc = "open" /\ s_pc' = "updating" /\ s_rest' = n /\ s_given' = s_given + n /\ s_rest = 0
      /\ UNCHANGED <<s_domain, s_absorbed, s_perms, s_buffer, s_buffer_len, s_word_idx,
                     s_output_len, s_out>>
  BY DEF Sponge!Update, SpongeInv
<1>2. n \in Nat /\ s_given \in Nat
  BY SpongeFacts DEF Sponge!SHA3Assumption
<1>3. /\ s_given + n \in Nat /\ n \in 0 .. s_given + n /\ s_given + n - n = s_given - 0
      /\ \A q \in 0 .. s_given : q \in 0 .. s_given + n
  BY <1>2
<1>4. Sponge!SHA3TypeOK'
  BY <1>1, <1>3 DEF SpongeInv, Sponge!SHA3TypeOK
<1>5. Sponge!NoByteLost'
  <2>1. s_given - 0 = Len(s_absorbed) + s_buffer_len
    BY <1>1 DEF SpongeInv, Sponge!NoByteLost
  <2>2. s_given' - s_rest' = Len(s_absorbed') + s_buffer_len'
    <3>1. s_given' - s_rest' = s_given + n - n
      BY <1>1, <1>2
    <3> QED
      BY <1>1, <1>3, <2>1, <3>1
  <2>3. \E q \in 0 .. s_given' : Len(s_absorbed') = q * RATE
    BY <1>1, <1>3 DEF SpongeInv, Sponge!NoByteLost
  <2> QED
    BY <1>1, <2>2, <2>3 DEF SpongeInv, Sponge!NoByteLost
<1> QED
  BY <1>1, <1>4, <1>5 DEF SpongeInv, Sponge!AbsorbsMessage, Sponge!SqueezesRate

LEMMA SpongeCopyChunk ==
  ASSUME Sponge!SHA3Assumption, SpongeInv, Sponge!CopyChunk
  PROVE  SpongeInv'
<1> DEFINE c == Sponge!ChunkLen
           copied == Sponge!Copied
           a == Len(s_absorbed)
<1>1. /\ s_pc = "updating" /\ s_pc' = "updating" /\ s_rest > 0 /\ s_rest' = s_rest - c
      /\ s_buffer' = copied
      /\ IF s_buffer_len + c = RATE
           THEN s_absorbed' = s_absorbed \o copied /\ s_buffer_len' = 0
           ELSE s_buffer_len' = s_buffer_len + c /\ UNCHANGED s_absorbed
      /\ UNCHANGED <<s_domain, s_perms, s_given, s_word_idx, s_output_len, s_out>>
  BY DEF Sponge!CopyChunk, Sponge!AbsorbBlock
<1>2. /\ s_absorbed \in Seq(Nat) /\ a \in Nat
      /\ s_buffer \in [1 .. RATE -> Nat] /\ s_buffer_len \in Nat /\ s_buffer_len < RATE
      /\ s_given \in Nat /\ s_rest \in Nat /\ s_rest <= s_given /\ RATE \in Nat /\ RATE > 0
  BY SpongeFacts, RateIsLanes
<1>3. /\ s_given - s_rest = a + s_buffer_len
      /\ \A i \in 1 .. a : s_absorbed[i] = Sponge!MessageByte(i)
      /\ \A i \in 1 .. s_buffer_len : s_buffer[i] = Sponge!MessageByte(a + i)
      /\ s_perms = 0
  BY <1>1 DEF SpongeInv, Sponge!NoByteLost
<1>4. PICK q \in 0 .. s_given : a = q * RATE
  BY <1>1 DEF SpongeInv, Sponge!NoByteLost
<1>5. c \in 1 .. s_rest /\ s_buffer_len + c <= RATE
  BY <1>1, <1>2 DEF Sponge!ChunkLen
<1>6. copied = [i \in 1 .. RATE |->
                  IF i \in s_buffer_len + 1 .. s_buffer_len + c
                    THEN Sponge!MessageByte(s_given - s_rest + (i - s_buffer_len))
                    ELSE s_buffer[i]]
  BY DEF Sponge!Copied
<1> HIDE DEF c, copied, a
<1>7. ASSUME NEW i \in 1 .. RATE
      PROVE  /\ copied[i] \in Nat
             /\ i <= s_buffer_len + c => copied[i] = Sponge!MessageByte(a + i)
  <2>1. CASE i \in s_buffer_len + 1 .. s_buffer_len + c
    <3>1. s_given - s_rest + (i - s_buffer_len) = a + i
      BY <1>2, <1>3, <2>1
    <3>2. copied[i] = Sponge!MessageByte(a + i)
      BY <1>6, <2>1, <3>1
    <3>3. Sponge!MessageByte(a + i) \in Nat
      BY <1>2 DEF Sponge!MessageByte
    <3> QED
      BY <3>2, <3>3
  <2>2. CASE i \notin s_buffer_len + 1 .. s_buffer_len + c
    <3>1. copied[i] = s_buffer[i] /\ s_buffer[i] \in Nat
      BY <1>2, <1>6, <2>2
    <3>2. i <= s_buffer_len + c => i \in 1 .. s_buffer_len
      BY <1>2, <1>5, <2>2
    <3> QED
      BY <1>3, <3>1, <3>2
  <2> QED
    BY <2>1, <2>2
<1>8. copied \in [1 .. RATE -> Nat]
  BY <1>6, <1>7
<1>9. s_rest - c \in 0 .. s_given /\ s_given - (s_rest - c) = a + (s_buffer_len + c)
  BY <1>2, <1>3, <1>5
<1>10. CASE s_buffer_len + c = RATE
  <2>1. s_absorbed' = s_absorbed \o copied /\ s_buffer_len' = 0
    BY <1>1, <1>10
  <2>2. /\ s_absorbed' \in Seq(Nat) /\ Len(s_absorbed') = a + RATE
        /\ \A i \in 1 .. a : s_absorbed'[i] = s_absorbed[i]
        /\ \A i \in a + 1 .. a + RATE : s_absorbed'[i] = copied[i - a]
    BY <1>2, <1>8, <2>1, Joined DEF a
  <2>3. s_given' - s_rest' = Len(s_absorbed') + s_buffer_len'
    <3>1. s_given - (s_rest - c) = a + RATE + 0
      BY <1>2, <1>9, <1>10
    <3> QED
      BY <1>1, <2>1, <2>2, <3>1
  <2>4. \E p \in 0 .. s_given' : Len(s_absorbed') = p * RATE
    <3>1. /\ q \in Nat /\ q * RATE \in Nat /\ (q + 1) * RATE = q * RATE + RATE
      BY <1>2, <1>4, NextMultiple
    <3>2. q + 1 <= s_given
      <4>1. q <= q * RATE
        <5>1. CASE q = 0
          BY <3>1, <5>1
        <5>2. CASE q # 0
          <6>1. 1 \in 1 .. RATE /\ RATE * q = q * RATE
            BY <1>2, <3>1, NextMultiple
          <6>2. 1 * q <= RATE * q
            BY <1>2, <3>1, <6>1, EarlierBlock
          <6> QED
            BY <3>1, <6>1, <6>2
        <5> QED
          BY <5>1, <5>2
      <4>2. s_given - (s_rest - c) = a + RATE /\ s_rest - c >= 0
        BY <1>2, <1>5, <1>9, <1>10
      <4> QED
        BY <1>2, <1>4, <1>5, <3>1, <4>1, <4>2
    <3> QED
      BY <1>1, <1>4, <2>2, <3>1, <3>2
  <2>5. ASSUME NEW i \in 1 .. Len(s_absorbed') PROVE s_absorbed'[i] = Sponge!MessageByte(i)
    <3>1. CASE i \in 1 .. a
      BY <1>3, <2>2, <3>1 DEF a
    <3>2. CASE i \notin 1 .. a
      <4>1. /\ i \in a + 1 .. a + RATE /\ i - a \in 1 .. RATE
            /\ i - a <= s_buffer_len + c /\ a + (i - a) = i
        BY <1>2, <1>10, <2>2, <3>2
      <4> QED
        BY <1>7, <2>2, <4>1
    <3> QED
      BY <3>1, <3>2
  <2>6. 1 .. 0 = {} /\ 0 \in 0 .. RATE - 1
    BY <1>2
  <2>7. Sponge!NoByteLost'
    BY <1>1, <1>3, <2>1, <2>3, <2>4, <2>5, <2>6 DEF Sponge!NoByteLost
  <2>8. Sponge!SHA3TypeOK'
    BY <1>1, <1>8, <1>9, <2>1, <2>2, <2>6 DEF SpongeInv, Sponge!SHA3TypeOK
  <2> QED
    BY <1>1, <2>7, <2>8 DEF SpongeInv, Sponge!AbsorbsMessage, Sponge!SqueezesRate
<1>11. CASE s_buffer_len + c # RATE
  <2>1. s_absorbed' = s_absorbed /\ s_buffer_len' = s_buffer_len + c
    BY <1>1, <1>11
  <2>2. s_buffer_len + c \in 0 .. RATE - 1
    BY <1>2, <1>5, <1>11
  <2>3. \A i \in 1 .. s_buffer_len + c : copied[i] = Sponge!MessageByte(a + i)
    <3>1. \A i \in 1 .. s_buffer_len + c : i \in 1 .. RATE /\ i <= s_buffer_len + c
      BY <1>2, <1>5
    <3> QED
      BY <1>7, <3>1
  <2>4. Sponge!NoByteLost'
    BY <1>1, <1>3, <1>4, <1>9, <2>1, <2>3 DEF Sponge!NoByteLost, a
  <2>5. Sponge!SHA3TypeOK'
    BY <1>1, <1>8, <1>9, <2>1, <2>2 DEF SpongeInv, Sponge!SHA3TypeOK
  <2> QED
    BY <1>1, <2>4, <2>5 DEF SpongeInv, Sponge!AbsorbsMessage, Sponge!SqueezesRate
<1> QED
  BY <1>10, <1>11

LEMMA SpongeUpdateReturn ==
  ASSUME Sponge!SHA3Assumption, SpongeInv, Sponge!UpdateReturn
  PROVE  SpongeInv'
<1>1. /\ s_pc = "updating" /\ s_pc' = "open" /\ s_rest = 0
      /\ UNCHANGED <<s_domain, s_absorbed, s_perms, s_buffer, s_buffer_len, s_rest, s_given,
                     s_word_idx, s_output_len, s_out>>
  BY DEF Sponge!UpdateReturn, Sponge!input
<1> QED
  BY <1>1 DEF SpongeInv, Sponge!SHA3TypeOK, Sponge!NoByteLost, Sponge!AbsorbsMessage,
              Sponge!SqueezesRate

(* The padding completes the last block, and the message.                  *)
LEMMA SpongePads ==
  ASSUME Sponge!SHA3Assumption, SpongeInv, s_pc = "open", Sponge!Pad,
         UNCHANGED <<s_given, s_domain>>
  PROVE  s_absorbed' \in Seq(Nat) /\ Sponge!IsPadded(s_absorbed', s_given', s_domain')
<1> DEFINE b == Sponge!PaddedBlock
           a == Len(s_absorbed)
<1>1. s_absorbed' = s_absorbed \o b /\ s_given' = s_given /\ s_domain' = s_domain
  BY DEF Sponge!Pad, Sponge!AbsorbBlock
<1>2. /\ s_absorbed \in Seq(Nat) /\ a \in Nat
      /\ s_buffer \in [1 .. RATE -> Nat] /\ s_buffer_len \in Nat /\ s_buffer_len < RATE
      /\ s_given \in Nat /\ s_rest = 0 /\ RATE \in Nat /\ RATE > 0
      /\ s_domain \in Nat /\ s_domain < 128
  <2>1. s_domain \in 1 .. 127
    BY SpongeFacts DEF Sponge!SHA3Assumption
  <2> QED
    BY <2>1, SpongeFacts, RateIsLanes DEF SpongeInv
<1>3. /\ s_given - s_rest = a + s_buffer_len
      /\ \A i \in 1 .. a : s_absorbed[i] = Sponge!MessageByte(i)
      /\ \A i \in 1 .. s_buffer_len : s_buffer[i] = Sponge!MessageByte(a + i)
  BY DEF SpongeInv, Sponge!NoByteLost
<1>4. PICK q \in 0 .. s_given : a = q * RATE
  BY DEF SpongeInv, Sponge!NoByteLost
<1>5. s_given = a + s_buffer_len
  BY <1>2, <1>3
<1>6. b = [i \in 1 .. RATE |->
             LET x == IF i <= s_buffer_len THEN s_buffer[i]
                      ELSE IF i = s_buffer_len + 1 THEN s_domain ELSE 0
             IN IF i = RATE THEN Sponge!Xor80(x) ELSE x]
  BY DEF Sponge!PaddedBlock
<1> HIDE DEF b, a
<1>7. ASSUME NEW i \in 1 .. RATE
      PROVE  /\ b[i] \in Nat
             /\ b[i] = IF a + i <= s_given THEN Sponge!MessageByte(a + i)
                       ELSE (IF a + i = s_given + 1 THEN s_domain ELSE 0)
                            + (IF a + i = a + RATE THEN 128 ELSE 0)
  <2>1. CASE i <= s_buffer_len
    <3>1. b[i] = s_buffer[i] /\ i \in 1 .. s_buffer_len /\ i # RATE /\ a + i <= s_given
      BY <1>2, <1>5, <1>6, <2>1
    <3> QED
      BY <1>2, <1>3, <3>1
  <2>2. CASE ~(i <= s_buffer_len)
    <3> DEFINE x == IF i = s_buffer_len + 1 THEN s_domain ELSE 0
    <3>1. /\ ~(a + i <= s_given) /\ (a + i = s_given + 1 <=> i = s_buffer_len + 1)
          /\ (a + i = a + RATE <=> i = RATE)
      BY <1>2, <1>5, <2>2
    <3>2. x \in Nat /\ x < 128
      BY <1>2
    <3>3. b[i] = IF i = RATE THEN Sponge!Xor80(x) ELSE x
      BY <1>6, <2>2
    <3> HIDE DEF x
    <3>4. Sponge!Xor80(x) = x + 128
      BY <3>2 DEF Sponge!Xor80
    <3>5. b[i] = x + (IF i = RATE THEN 128 ELSE 0)
      BY <3>2, <3>3, <3>4
    <3>6. b[i] \in Nat
      BY <3>2, <3>5
    <3>7. b[i] = x + (IF a + i = a + RATE THEN 128 ELSE 0)
      BY <3>1, <3>5
    <3>8. x = IF a + i = s_given + 1 THEN s_domain ELSE 0
      BY <3>1 DEF x
    <3> QED
      BY <3>1, <3>6, <3>7, <3>8
  <2> QED
    BY <2>1, <2>2
<1>8. b \in [1 .. RATE -> Nat]
  BY <1>6, <1>7
<1>9. /\ s_absorbed' \in Seq(Nat) /\ Len(s_absorbed') = a + RATE
      /\ \A i \in 1 .. a : s_absorbed'[i] = s_absorbed[i]
      /\ \A i \in a + 1 .. a + RATE : s_absorbed'[i] = b[i - a]
  BY <1>1, <1>2, <1>8, Joined DEF a
<1>10. \E p \in 0 .. Len(s_absorbed') : Len(s_absorbed') = p * RATE
  <2>1. q \in Nat /\ q * RATE \in Nat /\ (q + 1) * RATE = q * RATE + RATE
    BY <1>2, <1>4, NextMultiple
  <2>2. q + 1 <= (q + 1) * RATE
    <3>1. 1 \in 1 .. RATE /\ RATE * (q + 1) = (q + 1) * RATE /\ q + 1 \in Nat \ {0}
      BY <1>2, <2>1, NextMultiple
    <3>2. 1 * (q + 1) <= RATE * (q + 1)
      BY <1>2, <3>1, EarlierBlock
    <3> QED
      BY <3>1, <3>2
  <2> QED
    BY <1>4, <1>9, <2>1, <2>2
<1>11. Len(s_absorbed') >= s_given + 1 /\ Len(s_absorbed') < s_given + 1 + RATE
  BY <1>2, <1>5, <1>9
<1>12. ASSUME NEW i \in 1 .. Len(s_absorbed')
       PROVE  s_absorbed'[i] = IF i <= s_given THEN Sponge!MessageByte(i)
                             ELSE (IF i = s_given + 1 THEN s_domain ELSE 0)
                                  + (IF i = Len(s_absorbed') THEN 128 ELSE 0)
  <2>1. CASE i \in 1 .. a
    <3>1. i <= s_given
      BY <1>2, <1>5, <2>1
    <3> QED
      BY <1>3, <1>9, <2>1, <3>1
  <2>2. CASE i \notin 1 .. a
    <3>1. i \in a + 1 .. a + RATE /\ i - a \in 1 .. RATE /\ a + (i - a) = i
      BY <1>2, <1>9, <2>2
    <3> QED
      BY <1>7, <1>9, <3>1
  <2> QED
    BY <2>1, <2>2
<1> QED
  BY <1>1, <1>9, <1>10, <1>11, <1>12 DEF Sponge!IsPadded

LEMMA SpongeFinalizeFixed ==
  ASSUME Sponge!SHA3Assumption, SpongeInv, NEW n \in FixedLens, Sponge!FinalizeFixed(n)
  PROVE  SpongeInv'
<1>1. /\ s_pc = "open" /\ s_pc' = "done" /\ Sponge!Pad /\ s_buffer_len' = 0
      /\ s_buffer' = Sponge!ZeroBuffer /\ s_output_len' = n
      /\ s_out' = [i \in 1 .. n |-> <<0, i - 1>>]
      /\ UNCHANGED <<s_domain, s_perms, s_rest, s_given, s_word_idx>>
  BY DEF Sponge!FinalizeFixed, Sponge!Pad, Sponge!Drop
<1>2. s_absorbed' \in Seq(Nat) /\ Sponge!IsPadded(s_absorbed', s_given', s_domain')
  BY <1>1, SpongePads
<1>3. n \in Nat /\ n <= RATE
  BY RateIsLanes DEF Sponge!SHA3Assumption
<1>4. s_out' \in [1 .. n -> Nat \X Nat]
  <2>1. ASSUME NEW i \in 1 .. n PROVE <<0, i - 1>> \in Nat \X Nat
    BY <1>3
  <2> QED
    BY <1>1, <2>1
<1>5. s_out' \in Seq(Nat \X Nat) /\ Len(s_out') = n
  BY <1>3, <1>4, SMT
<1>6. ASSUME NEW i \in 1 .. Len(s_out')
      PROVE  s_out'[i][2] \in 0 .. RATE - 1 /\ i - 1 = s_out'[i][1] * RATE + s_out'[i][2]
  <2>1. i \in 1 .. n /\ s_out'[i] = <<0, i - 1>>
    BY <1>1, <1>5
  <2>2. i - 1 \in 0 .. RATE - 1 /\ i - 1 = 0 * RATE + (i - 1)
    BY <1>3, <2>1, RateIsLanes
  <2> QED
    BY <2>1, <2>2
<1>7. Sponge!SHA3TypeOK'
  <2>1. Sponge!ZeroBuffer \in [1 .. RATE -> Nat] /\ 0 \in 0 .. RATE - 1
    BY RateIsLanes DEF Sponge!ZeroBuffer
  <2> QED
    BY <1>1, <1>2, <1>3, <1>5, <2>1 DEF SpongeInv, Sponge!SHA3TypeOK
<1>8. Sponge!SqueezesRate' /\ Sponge!AbsorbsMessage'
  BY <1>1, <1>2, <1>5, <1>6 DEF Sponge!SqueezesRate, Sponge!AbsorbsMessage
<1> QED
  BY <1>1, <1>7, <1>8 DEF SpongeInv, Sponge!NoByteLost

LEMMA SpongeFinalizeXof ==
  ASSUME Sponge!SHA3Assumption, SpongeInv, NEW n \in XofLens, Sponge!FinalizeXof(n)
  PROVE  SpongeInv'
<1>1. /\ s_pc = "open" /\ s_pc' = "squeezing" /\ Sponge!Pad /\ s_buffer_len' = 0
      /\ s_output_len' = n /\ s_word_idx' = 0 /\ s_out' = <<>>
      /\ UNCHANGED <<s_domain, s_perms, s_buffer, s_rest, s_given>>
  BY DEF Sponge!FinalizeXof, Sponge!Pad
<1>2. s_absorbed' \in Seq(Nat) /\ Sponge!IsPadded(s_absorbed', s_given', s_domain')
  BY <1>1, SpongePads
<1>3. n \in Nat /\ s_perms = 0
  BY <1>1 DEF Sponge!SHA3Assumption, SpongeInv, Sponge!NoByteLost
<1>4. /\ Len(<<>>) = 0 /\ 1 .. 0 = {} /\ 0 <= n /\ 0 = 0 * RATE + 0 * LANE
      /\ 0 \in 0 .. RATE - 1 /\ 0 \in 0 .. Sponge!RateWords
  BY <1>3, RateIsLanes
<1>5. Len(s_out') <= s_output_len' /\ Len(s_out') = s_perms' * RATE + s_word_idx' * LANE
  BY <1>1, <1>3, <1>4
<1>6. Sponge!SHA3TypeOK'
  BY <1>1, <1>2, <1>3, <1>4 DEF SpongeInv, Sponge!SHA3TypeOK
<1>7. Sponge!SqueezesRate' /\ Sponge!AbsorbsMessage'
  BY <1>1, <1>2, <1>4 DEF Sponge!SqueezesRate, Sponge!AbsorbsMessage
<1> QED
  BY <1>1, <1>5, <1>6, <1>7 DEF SpongeInv, Sponge!NoByteLost

LEMMA SpongeSqueezeWord ==
  ASSUME Sponge!SHA3Assumption, SpongeInv, Sponge!SqueezeWord
  PROVE  SpongeInv'
<1> DEFINE remain == s_output_len - Len(s_out)
           take == IF remain >= LANE THEN LANE ELSE remain
           l == Len(s_out)
           piece == [j \in 1 .. take |-> <<s_perms, s_word_idx * LANE + j - 1>>]
<1>1. /\ s_pc = "squeezing" /\ remain > 0 /\ s_word_idx < Sponge!RateWords
      /\ s_out' = s_out \o piece /\ s_word_idx' = s_word_idx + 1
      /\ UNCHANGED <<s_pc, s_domain, s_perms, s_output_len>>
      /\ UNCHANGED <<s_absorbed, s_buffer, s_buffer_len, s_rest, s_given>>
  BY DEF Sponge!SqueezeWord, Sponge!input
<1>2. /\ s_perms \in Nat /\ s_word_idx \in Nat /\ s_output_len \in Nat
      /\ s_out \in Seq(Nat \X Nat) /\ l \in Nat
      /\ RATE \in Nat /\ RATE > 0 /\ LANE \in Nat /\ LANE > 0
      /\ Sponge!RateWords \in Nat /\ RATE = Sponge!RateWords * LANE
  BY SpongeFacts, RateIsLanes
<1>3. l < s_output_len /\ l = s_perms * RATE + s_word_idx * LANE
  BY <1>1, <1>2 DEF SpongeInv
<1>4. /\ take \in 1 .. LANE /\ l + take <= s_output_len
      /\ l + take < s_output_len => take = LANE
  BY <1>2, <1>3
<1>5. /\ s_word_idx * LANE \in Nat /\ s_word_idx * LANE + LANE <= RATE
      /\ (s_word_idx + 1) * LANE = s_word_idx * LANE + LANE
  <2>1. s_word_idx + 1 \in 1 .. Sponge!RateWords /\ s_word_idx + 1 - 1 = s_word_idx
    BY <1>1, <1>2
  <2> QED
    BY <1>2, <2>1, EarlierBlock
<1>6. s_perms * RATE \in Nat
  BY <1>2, NextMultiple
<1> HIDE DEF take, l
<1>7. piece \in [1 .. take -> Nat \X Nat]
  <2>1. ASSUME NEW j \in 1 .. take
        PROVE  <<s_perms, s_word_idx * LANE + j - 1>> \in Nat \X Nat
    <3>1. PICK w \in Nat : w = s_word_idx * LANE
      BY <1>5
    <3>2. w + j - 1 \in Nat
      BY <1>2, <1>4, <3>1
    <3> QED
      BY <1>2, <3>1, <3>2
  <2> QED
    BY <2>1
<1> HIDE DEF piece
<1>8. /\ s_out' \in Seq(Nat \X Nat) /\ Len(s_out') = l + take
      /\ \A i \in 1 .. l : s_out'[i] = s_out[i]
      /\ \A i \in l + 1 .. l + take : s_out'[i] = piece[i - l]
  <2>1. take \in Nat
    BY <1>2, <1>4
  <2>2. /\ s_out \o piece \in Seq(Nat \X Nat) /\ Len(s_out \o piece) = l + take
        /\ \A i \in 1 .. l : (s_out \o piece)[i] = s_out[i]
        /\ \A i \in l + 1 .. l + take : (s_out \o piece)[i] = piece[i - l]
    BY <1>2, <1>7, <2>1, Joined DEF l
  <2> QED
    BY <1>1, <2>2
<1>9. ASSUME NEW i \in 1 .. Len(s_out')
      PROVE  s_out'[i][2] \in 0 .. RATE - 1 /\ i - 1 = s_out'[i][1] * RATE + s_out'[i][2]
  <2>1. CASE i \in 1 .. l
    BY <1>8, <2>1 DEF l, SpongeInv, Sponge!SqueezesRate
  <2>2. CASE i \notin 1 .. l
    <3>1. i \in l + 1 .. l + take /\ i - l \in 1 .. take
      BY <1>2, <1>4, <1>8, <2>2
    <3>2. s_out'[i] = <<s_perms, s_word_idx * LANE + (i - l) - 1>>
      BY <1>8, <3>1 DEF piece
    <3>3. PICK w \in Nat, p \in Nat : w = s_word_idx * LANE /\ p = s_perms * RATE
      BY <1>5, <1>6
    <3>4. l = p + w /\ w + LANE <= RATE
      BY <1>3, <1>5, <3>3
    <3>5. PICK j \in 1 .. take : j = i - l
      BY <3>1
    <3>6. w + j - 1 \in 0 .. RATE - 1
      <4>1. j \in Nat /\ j > 0 /\ j <= LANE
        BY <1>2, <1>4
      <4>2. w \in Nat /\ w + LANE <= RATE /\ LANE \in Nat /\ RATE \in Nat
        BY <1>2, <3>3, <3>4
      <4>3. w + j - 1 \in Nat /\ w + j - 1 <= RATE - 1 /\ RATE - 1 \in Int
        BY <4>1, <4>2
      <4> QED
        BY <4>3
    <3>7. i - 1 = p + (w + j - 1)
      BY <1>2, <1>4, <3>1, <3>3, <3>4, <3>5
    <3> QED
      BY <3>2, <3>3, <3>5, <3>6, <3>7
  <2> QED
    BY <2>1, <2>2
<1>10. Sponge!SHA3TypeOK'
  <2>1. s_word_idx + 1 \in 0 .. Sponge!RateWords
    BY <1>1, <1>2
  <2> QED
    BY <1>1, <1>8, <2>1 DEF SpongeInv, Sponge!SHA3TypeOK
<1>11. /\ Len(s_out') <= s_output_len'
       /\ Len(s_out') < s_output_len' => Len(s_out') = s_perms' * RATE + s_word_idx' * LANE
  <2>1. l + take <= s_output_len
    BY <1>4
  <2>2. ASSUME l + take < s_output_len
        PROVE  l + take = s_perms * RATE + (s_word_idx + 1) * LANE
    BY <1>2, <1>3, <1>4, <1>5, <1>6, <2>2
  <2> QED
    BY <1>1, <1>8, <2>1, <2>2
<1>12. Sponge!SqueezesRate' /\ Sponge!AbsorbsMessage'
  BY <1>1, <1>9 DEF SpongeInv, Sponge!SqueezesRate, Sponge!AbsorbsMessage
<1> QED
  BY <1>1, <1>10, <1>11, <1>12 DEF SpongeInv, Sponge!NoByteLost

LEMMA SpongeSqueezeNext ==
  ASSUME Sponge!SHA3Assumption, SpongeInv, Sponge!SqueezeNext
  PROVE  SpongeInv'
<1>1. /\ s_pc = "squeezing" /\ Len(s_out) < s_output_len /\ s_word_idx = Sponge!RateWords
      /\ s_perms' = s_perms + 1 /\ s_word_idx' = 0
      /\ UNCHANGED <<s_pc, s_domain, s_output_len, s_out>>
      /\ UNCHANGED <<s_absorbed, s_buffer, s_buffer_len, s_rest, s_given>>
  BY DEF Sponge!SqueezeNext, Sponge!input
<1>2. /\ s_perms \in Nat /\ RATE \in Nat /\ LANE \in Nat /\ Sponge!RateWords \in Nat
      /\ RATE = Sponge!RateWords * LANE
  BY SpongeFacts, RateIsLanes
<1>3. Len(s_out) <= s_output_len /\ Len(s_out) = s_perms * RATE + Sponge!RateWords * LANE
  BY <1>1 DEF SpongeInv
<1>4. Len(s_out) = (s_perms + 1) * RATE + 0 * LANE
  <2>1. (s_perms + 1) * RATE = s_perms * RATE + RATE /\ s_perms * RATE \in Nat
    BY <1>2, NextMultiple
  <2>2. 0 * LANE = 0
    BY <1>2
  <2>3. Len(s_out) = s_perms * RATE + RATE
    BY <1>2, <1>3
  <2> QED
    BY <1>2, <2>1, <2>2, <2>3
<1>5. Sponge!SHA3TypeOK'
  <2>1. s_perms + 1 \in Nat /\ 0 \in 0 .. Sponge!RateWords
    BY <1>2
  <2> QED
    BY <1>1, <2>1 DEF SpongeInv, Sponge!SHA3TypeOK
<1>6. Sponge!SqueezesRate' /\ Sponge!AbsorbsMessage'
  BY <1>1 DEF SpongeInv, Sponge!SqueezesRate, Sponge!AbsorbsMessage
<1> QED
  BY <1>1, <1>3, <1>4, <1>5, <1>6 DEF SpongeInv, Sponge!NoByteLost

LEMMA SpongeSqueezeReturn ==
  ASSUME Sponge!SHA3Assumption, SpongeInv, Sponge!SqueezeReturn
  PROVE  SpongeInv'
<1>1. /\ s_pc = "squeezing" /\ Len(s_out) >= s_output_len /\ s_pc' = "done"
      /\ s_buffer' = Sponge!ZeroBuffer
      /\ UNCHANGED <<s_domain, s_absorbed, s_perms, s_buffer_len, s_rest, s_given, s_word_idx,
                     s_output_len, s_out>>
  BY DEF Sponge!SqueezeReturn, Sponge!Drop
<1>2. Len(s_out) = s_output_len
  BY <1>1, SpongeFacts DEF SpongeInv
<1>3. Sponge!ZeroBuffer \in [1 .. RATE -> Nat]
  BY DEF Sponge!ZeroBuffer
<1>4. Sponge!SHA3TypeOK'
  BY <1>1, <1>3 DEF SpongeInv, Sponge!SHA3TypeOK
<1>5. Sponge!SqueezesRate' /\ Sponge!AbsorbsMessage'
  BY <1>1, <1>2 DEF SpongeInv, Sponge!SqueezesRate, Sponge!AbsorbsMessage
<1> QED
  BY <1>1, <1>4, <1>5 DEF SpongeInv, Sponge!NoByteLost

LEMMA SpongeStep ==
  Sponge!SHA3Assumption /\ SpongeInv /\ [Sponge!Next]_(Sponge!vars) => SpongeInv'
<1> SUFFICES ASSUME Sponge!SHA3Assumption, SpongeInv, [Sponge!Next]_(Sponge!vars)
             PROVE  SpongeInv'
  OBVIOUS
<1>1. CASE Sponge!New
  BY <1>1, SpongeNew
<1>2. ASSUME NEW n \in SpongeLens, Sponge!Update(n) PROVE SpongeInv'
  BY <1>2, SpongeUpdate
<1>3. ASSUME NEW n \in FixedLens, Sponge!FinalizeFixed(n) PROVE SpongeInv'
  BY <1>3, SpongeFinalizeFixed
<1>4. ASSUME NEW n \in XofLens, Sponge!FinalizeXof(n) PROVE SpongeInv'
  BY <1>4, SpongeFinalizeXof
<1>5. CASE Sponge!Running
  BY <1>5, SpongeCopyChunk, SpongeUpdateReturn, SpongeSqueezeWord, SpongeSqueezeNext,
     SpongeSqueezeReturn DEF Sponge!Running
<1>6. CASE UNCHANGED Sponge!vars
  BY <1>6 DEF Sponge!vars, SpongeInv, Sponge!SHA3TypeOK, Sponge!NoByteLost,
              Sponge!AbsorbsMessage, Sponge!SqueezesRate
<1> QED
  BY <1>1, <1>2, <1>3, <1>4, <1>5, <1>6 DEF Sponge!Next

-----------------------------------------------------------------------------
(* BLAKE3, the output.                                                     *)

OutBytes == [counter : Nat, byte : Nat]

(* Byte i of the output.                                                   *)
RootByte(i) == [counter |-> (i - 1) \div BLOCK_LEN,
                byte    |-> ((i - 1) % BLOCK_LEN) + 1]

(* There is none before the root is known; while some of it is missing it  *)
(* is whole blocks.                                                        *)
TreeInv ==
  /\ c_out_len \in Nat /\ c_out \in Seq(OutBytes)
  /\ \A i \in 1 .. Len(c_out) : c_out[i] = RootByte(i)
  /\ c_pc \in {"open", "updating", "merging", "chunk", "folding"} => c_out = <<>>
  /\ c_pc = "xof" => /\ Len(c_out) <= c_out_len
                     /\ Len(c_out) < c_out_len => \E k \in Nat : Len(c_out) = k * BLOCK_LEN
  /\ c_pc = "done" => Len(c_out) = c_out_len

LEMMA TreeNoOutput ==
  ASSUME c_out' = <<>>, c_out_len' \in Nat, c_pc' \notin {"xof", "done"}
  PROVE  TreeInv'
<1>1. <<>> \in Seq(OutBytes) /\ Len(<<>>) = 0 /\ 1 .. 0 = {}
  OBVIOUS
<1> QED
  BY <1>1 DEF TreeInv

LEMMA TreeInit == Tree!Init => TreeInv
<1> SUFFICES ASSUME Tree!Init PROVE TreeInv
  OBVIOUS
<1>1. <<>> \in Seq(OutBytes) /\ Len(<<>>) = 0 /\ 1 .. 0 = {} /\ 0 \in Nat
  OBVIOUS
<1> QED
  BY <1>1 DEF Tree!Init, TreeInv

(* What the steps before the output is written have in common.             *)
LEMMA TreeBefore ==
  ASSUME TreeInv, c_pc \in {"open", "updating", "merging", "chunk", "folding"},
         UNCHANGED c_out, c_out_len' \in Nat, c_pc' \notin {"xof", "done"}
  PROVE  TreeInv'
<1>1. c_out' = <<>>
  BY DEF TreeInv
<1> QED
  BY <1>1, TreeNoOutput

LEMMA TreeOutputBlock ==
  ASSUME Tree!Blake3Assumption, TreeInv, Tree!OutputBlock
  PROVE  TreeInv'
<1> DEFINE l == Len(c_out)
           take == Tree!LesserOf(BLOCK_LEN, c_out_len - l)
           block == [j \in 1 .. take |-> [counter |-> Tree!BlockCounter, byte |-> j]]
<1>1. /\ c_pc = "xof" /\ c_pc' = "xof" /\ l < c_out_len /\ c_out_len' = c_out_len
      /\ c_out' = c_out \o block
  BY DEF Tree!OutputBlock
<1>2. BLOCK_LEN \in Nat /\ BLOCK_LEN > 0
  BY DEF Tree!Blake3Assumption
<1>3. c_out_len \in Nat /\ c_out \in Seq(OutBytes) /\ l \in Nat
  BY DEF TreeInv
<1>4. PICK k \in Nat : l = k * BLOCK_LEN
  BY <1>1 DEF TreeInv
<1>5. /\ take \in 1 .. BLOCK_LEN /\ l + take <= c_out_len
      /\ l + take < c_out_len => take = BLOCK_LEN
  BY <1>1, <1>2, <1>3 DEF Tree!LesserOf
<1>6. Tree!BlockCounter = k
  <2>1. PICK m \in Nat \ {0} : m = BLOCK_LEN
    BY <1>2
  <2>2. m - 1 \in 0 .. m - 1 /\ (k * m + (m - 1)) \div m = k
    BY DivisionUnique
  <2>3. PICK n \in Nat : n = l
    BY <1>3
  <2>4. n + m - 1 = k * m + (m - 1)
    BY <1>4, <2>1, <2>3
  <2> QED
    BY <2>1, <2>2, <2>3, <2>4 DEF Tree!BlockCounter, Tree!CeilDiv
<1> HIDE DEF l, take
<1>7. block \in [1 .. take -> OutBytes]
  <2>1. ASSUME NEW j \in 1 .. take
        PROVE  [counter |-> Tree!BlockCounter, byte |-> j] \in OutBytes
    BY <1>2, <1>5, <1>6 DEF OutBytes
  <2> QED
    BY <2>1
<1> HIDE DEF block
<1>8. take \in Nat /\ take > 0 /\ take <= BLOCK_LEN
  BY <1>2, <1>5
<1>9. /\ c_out \o block \in Seq(OutBytes) /\ Len(c_out \o block) = l + take
      /\ \A i \in 1 .. l : (c_out \o block)[i] = c_out[i]
      /\ \A i \in l + 1 .. l + take : (c_out \o block)[i] = block[i - l]
  BY <1>3, <1>7, <1>8, Joined DEF l
<1>10. ASSUME NEW i \in 1 .. l + take PROVE (c_out \o block)[i] = RootByte(i)
  <2>1. CASE i \in 1 .. l
    BY <1>9, <2>1 DEF TreeInv, l
  <2>2. CASE i \notin 1 .. l
    <3>1. i \in l + 1 .. l + take
      BY <1>3, <1>8, <2>2
    <3>2. PICK j \in 1 .. take : j = i - l
      BY <1>3, <1>8, <3>1
    <3>3. (c_out \o block)[i] = [counter |-> k, byte |-> j]
      BY <1>6, <1>9, <3>1, <3>2 DEF block
    <3>4. PICK m \in Nat \ {0} : m = BLOCK_LEN
      BY <1>2
    <3>5. j \in Nat /\ j - 1 \in 0 .. m - 1
      BY <1>8, <3>4
    <3>6. (k * m + (j - 1)) \div m = k /\ (k * m + (j - 1)) % m = j - 1
      BY <3>5, DivisionUnique
    <3>7. i - 1 = k * m + (j - 1)
      <4>1. PICK n \in Nat : n = l
        BY <1>3
      <4>2. i \in Int /\ i - 1 = n + (j - 1)
        BY <1>8, <3>2, <3>5, <4>1
      <4> QED
        BY <1>4, <3>4, <4>1, <4>2 DEF l
    <3>8. (i - 1) \div BLOCK_LEN = k /\ (i - 1) % BLOCK_LEN = j - 1
      BY <3>4, <3>6, <3>7
    <3>9. ((i - 1) % BLOCK_LEN) + 1 = j
      BY <3>5, <3>8
    <3> QED
      BY <3>3, <3>8, <3>9 DEF RootByte
  <2> QED
    BY <2>1, <2>2
<1>11. ASSUME l + take < c_out_len PROVE \E n \in Nat : l + take = n * BLOCK_LEN
  <2>1. k + 1 \in Nat /\ (k + 1) * BLOCK_LEN = k * BLOCK_LEN + BLOCK_LEN
    BY <1>2, NextMultiple
  <2> QED
    BY <1>4, <1>5, <1>11, <2>1 DEF l
<1> QED
  BY <1>1, <1>3, <1>5, <1>9, <1>10, <1>11 DEF TreeInv

LEMMA TreeStep ==
  Tree!Blake3Assumption /\ TreeInv /\ [Tree!Next]_(Tree!vars) => TreeInv'
<1> SUFFICES ASSUME Tree!Blake3Assumption, TreeInv, [Tree!Next]_(Tree!vars)
             PROVE  TreeInv'
  OBVIOUS
<1>0. c_out_len \in Nat
  BY DEF TreeInv
<1>1. ASSUME NEW key, NEW fl, Tree!New(key, fl) PROVE TreeInv'
  BY <1>1, TreeNoOutput DEF Tree!New
<1>2. CASE Tree!Wipe
  BY <1>0, <1>2, TreeBefore DEF Tree!Wipe, Tree!final
<1>3. ASSUME NEW n \in TreeLens, Tree!Update(n) PROVE TreeInv'
  BY <1>0, <1>3, TreeBefore DEF Tree!Update, Tree!final
<1>4. CASE Tree!PushChunk
  BY <1>0, <1>4, TreeBefore DEF Tree!PushChunk, Tree!final
<1>5. CASE Tree!Merge
  BY <1>0, <1>5, TreeBefore DEF Tree!Merge, Tree!final
<1>6. CASE Tree!NextChunk
  BY <1>0, <1>6, TreeBefore DEF Tree!NextChunk, Tree!final
<1>7. CASE Tree!FeedChunk
  BY <1>0, <1>7, TreeBefore DEF Tree!FeedChunk, Tree!final
<1>8. CASE Tree!CompressBlock
  BY <1>0, <1>8, TreeBefore DEF Tree!CompressBlock, Tree!final
<1>9. CASE Tree!CopyBytes
  BY <1>0, <1>9, TreeBefore DEF Tree!CopyBytes, Tree!final
<1>10. CASE Tree!ChunkReturn
  BY <1>0, <1>10, TreeBefore DEF Tree!ChunkReturn, Tree!final
<1>11. CASE Tree!UpdateReturn
  BY <1>0, <1>11, TreeBefore DEF Tree!UpdateReturn, Tree!final
<1>12. ASSUME NEW n \in TreeOutLens, Tree!Finalize(n) PROVE TreeInv'
  <2>1. n \in Nat
    BY DEF Tree!Blake3Assumption
  <2> QED
    BY <1>12, <2>1, TreeBefore DEF Tree!Finalize
<1>13. CASE Tree!FoldParent
  BY <1>0, <1>13, TreeBefore DEF Tree!FoldParent
<1>14. CASE Tree!AllocateOutput
  <2>1. c_pc = "folding" /\ UNCHANGED <<c_out, c_out_len>> /\ c_pc' \in {"error", "xof"}
    BY <1>14 DEF Tree!AllocateOutput, Tree!final
  <2>2. c_out = <<>>
    BY <2>1 DEF TreeInv
  <2>3. Len(c_out) = 0 /\ 0 = 0 * BLOCK_LEN /\ 0 \in Nat /\ 0 <= c_out_len
    BY <1>0, <2>2 DEF Tree!Blake3Assumption
  <2> QED
    BY <2>1, <2>2, <2>3 DEF TreeInv
<1>15. CASE Tree!OutputBlock
  BY <1>15, TreeOutputBlock
<1>16. CASE Tree!FinalizeReturn
  <2>1. c_pc = "xof" /\ Len(c_out) >= c_out_len /\ c_pc' = "done" /\ UNCHANGED <<c_out, c_out_len>>
    BY <1>16 DEF Tree!FinalizeReturn, Tree!final
  <2>2. Len(c_out) \in Nat /\ Len(c_out) <= c_out_len
    BY <2>1 DEF TreeInv
  <2>3. Len(c_out) = c_out_len
    BY <1>0, <2>1, <2>2
  <2> QED
    BY <2>1, <2>3 DEF TreeInv
<1>17. CASE UNCHANGED Tree!vars
  BY <1>17 DEF Tree!vars, Tree!final, TreeInv
<1> QED
  BY <1>1, <1>2, <1>3, <1>4, <1>5, <1>6, <1>7, <1>8, <1>9, <1>10, <1>11, <1>12,
     <1>13, <1>14, <1>15, <1>16, <1>17 DEF Tree!Next

-----------------------------------------------------------------------------
(* BLAKE3, the tree.  Induction: of a set of numbers the least element     *)
(* (WellFoundedInduction).  The recursive definitions of the tree have a   *)
(* function each, put together of those that satisfy them up to a bound.   *)

LEMMA LeastNat ==
  ASSUME NEW T, T \subseteq Nat, T # {}
  PROVE  \E m \in T : \A n \in T : m <= n
<1> DEFINE R == OpToRel(<, Nat)
<1>1. IsWellFoundedOn(R, Nat)
  BY NatLessThanWellFounded, Zenon
<1>2. \A x, y \in Nat : x < y => <<x, y>> \in R
  BY DEF OpToRel
<1> HIDE DEF R
<1>3. \E x \in T : \A y \in T : ~ (<<y, x>> \in R)
  BY <1>1, WFMin
<1>4. \A x, y \in Nat : ~ (y < x) => x <= y
  BY SMT
<1> QED
  BY <1>2, <1>3, <1>4

(* A set that has every number below which it has all of them.             *)
LEMMA SetInduction ==
  ASSUME NEW S, \A n \in Nat : (\A k \in Nat : k < n => k \in S) => n \in S
  PROVE  \A n \in Nat : n \in S
<1> DEFINE T == Nat \ S
<1> SUFFICES ASSUME T # {} PROVE FALSE
  OBVIOUS
<1>1. PICK m \in T : \A n \in T : m <= n
  <2>1. T \subseteq Nat
    OBVIOUS
  <2> HIDE DEF T
  <2> QED
    BY <2>1, LeastNat
<1>2. \A k \in Nat : k < m => k \in S
  BY <1>1, SMT
<1> QED
  BY <1>1, <1>2

(* count_ones.                                                             *)
OnesTo(g, m) ==
  \A n \in 0 .. m : g[n] = IF n = 0 THEN 0 ELSE (n % 2) + g[n \div 2]

LEMMA HalfSmaller ==
  ASSUME NEW n \in Nat, n # 0
  PROVE  n \div 2 \in Nat /\ n \div 2 < n
  BY SMT

LEMMA OnesAgree ==
  ASSUME NEW g, NEW h, NEW m \in Nat, NEW k \in Nat, OnesTo(g, m), OnesTo(h, k)
  PROVE  \A n \in Nat : n <= m /\ n <= k => g[n] = h[n]
<1> DEFINE S == {n \in Nat : n <= m /\ n <= k => g[n] = h[n]}
<1>1. ASSUME NEW n \in Nat, \A i \in Nat : i < n => i \in S PROVE n \in S
  <2> SUFFICES ASSUME n <= m, n <= k PROVE g[n] = h[n]
    OBVIOUS
  <2>1. CASE n = 0
    BY <2>1 DEF OnesTo
  <2>2. CASE n # 0
    <3>1. g[n \div 2] = h[n \div 2]
      BY <1>1, <2>2, HalfSmaller
    <3>2. g[n] = (n % 2) + g[n \div 2] /\ h[n] = (n % 2) + h[n \div 2]
      BY <2>2 DEF OnesTo
    <3> QED
      BY <3>1, <3>2
  <2> QED
    BY <2>1, <2>2
<1>2. \A n \in Nat : n \in S
  <2> HIDE DEF S
  <2> QED
    BY <1>1, SetInduction
<1> QED
  BY <1>2

LEMMA OnesExist ==
  ASSUME NEW m \in Nat
  PROVE  \E g : OnesTo(g, m)
<1> DEFINE S == {k \in Nat : \E g : OnesTo(g, k)}
<1>1. ASSUME NEW n \in Nat, \A i \in Nat : i < n => i \in S PROVE n \in S
  <2>1. CASE n = 0
    <3>1. OnesTo([i \in Nat |-> 0], 0)
      BY DEF OnesTo
    <3> QED
      BY <2>1, <3>1
  <2>2. CASE n # 0
    <3>1. n - 1 \in Nat /\ n - 1 < n
      BY <2>2
    <3>2. PICK g : OnesTo(g, n - 1)
      BY <1>1, <3>1
    <3> DEFINE h == [i \in Nat |-> IF i < n THEN g[i] ELSE (n % 2) + g[n \div 2]]
    <3>3. ASSUME NEW i \in 0 .. n
          PROVE  h[i] = IF i = 0 THEN 0 ELSE (i % 2) + h[i \div 2]
      <4>1. CASE i = n
        <5>1. h[n] = (n % 2) + g[n \div 2] /\ h[n \div 2] = g[n \div 2]
          BY <2>2, HalfSmaller
        <5> QED
          BY <2>2, <4>1, <5>1
      <4>2. CASE i # n
        <5>1. i \in 0 .. n - 1 /\ h[i] = g[i]
          BY <4>2
        <5>2. i # 0 => h[i \div 2] = g[i \div 2]
          <6>1. i # 0 => i \div 2 \in Nat /\ i \div 2 < i /\ i < n
            BY <4>2, HalfSmaller
          <6> QED
            BY <6>1
        <5> HIDE DEF h
        <5> QED
          BY <3>2, <5>1, <5>2 DEF OnesTo
      <4> QED
        BY <4>1, <4>2
    <3> HIDE DEF h
    <3>4. OnesTo(h, n)
      BY <3>3 DEF OnesTo
    <3> QED
      BY <3>4
  <2> QED
    BY <2>1, <2>2
<1>2. \A n \in Nat : n \in S
  <2> HIDE DEF S
  <2> QED
    BY <1>1, SetInduction
<1> QED
  BY <1>2

LEMMA CountOnes ==
  /\ Tree!count_ones[0] = 0
  /\ \A n \in Nat : n # 0 => Tree!count_ones[n] = (n % 2) + Tree!count_ones[n \div 2]
<1> DEFINE Upto(n) == CHOOSE g : OnesTo(g, n)
           f == [n \in Nat |-> Upto(n)[n]]
<1>1. \A n \in Nat : OnesTo(Upto(n), n)
  BY OnesExist
<1> HIDE DEF Upto
<1>2. ASSUME NEW n \in Nat
      PROVE  f[n] = IF n = 0 THEN 0 ELSE (n % 2) + f[n \div 2]
  <2>1. f[n] = IF n = 0 THEN 0 ELSE (n % 2) + Upto(n)[n \div 2]
    <3>1. f[n] = Upto(n)[n] /\ n \in 0 .. n
      OBVIOUS
    <3> QED
      BY <1>1, <3>1 DEF OnesTo
  <2>2. n # 0 => Upto(n)[n \div 2] = f[n \div 2]
    <3>1. ASSUME n # 0
          PROVE  Upto(n)[n \div 2] = Upto(n \div 2)[n \div 2]
      <4>1. n \div 2 \in Nat /\ n \div 2 <= n
        BY <3>1, HalfSmaller
      <4>2. OnesTo(Upto(n), n) /\ OnesTo(Upto(n \div 2), n \div 2)
        BY <1>1, <4>1
      <4> QED
        BY <4>1, <4>2, OnesAgree
    <3>2. n # 0 => n \div 2 \in Nat
      BY HalfSmaller
    <3> QED
      BY <3>1, <3>2
  <2> HIDE DEF f
  <2> QED
    BY <2>1, <2>2
<1>3. f = [n \in Nat |-> IF n = 0 THEN 0 ELSE (n % 2) + f[n \div 2]]
  <2>1. f = [n \in Nat |-> f[n]]
    OBVIOUS
  <2> HIDE DEF f
  <2> QED
    BY <1>2, <2>1
<1> HIDE DEF f
<1>4. Tree!count_ones
        = [n \in Nat |-> IF n = 0 THEN 0 ELSE (n % 2) + Tree!count_ones[n \div 2]]
  BY <1>3 DEF Tree!count_ones
<1> QED
  BY <1>4

Ones(n)  == Tree!count_ones[n]
Power(p) == p \in Nat /\ Ones(p) = 1

LEMMA Parity ==
  ASSUME NEW n \in Nat
  PROVE  \E m \in Nat : /\ n = 2 * m \/ n = 2 * m + 1
                        /\ n # 0 => m < n
<1>1. n \div 2 \in Nat /\ (n # 0 => n \div 2 < n)
  BY SMT
<1>2. n = 2 * (n \div 2) \/ n = 2 * (n \div 2) + 1
  BY SMT
<1> QED
  BY <1>1, <1>2

LEMMA OnesHalved ==
  ASSUME NEW m \in Nat
  PROVE  Ones(2 * m) = 0 + Ones(m) /\ Ones(2 * m + 1) = 1 + Ones(m)
<1>1. /\ 2 * m \in Nat /\ (2 * m) % 2 = 0 /\ (2 * m) \div 2 = m
      /\ 2 * m + 1 \in Nat /\ 2 * m + 1 # 0 /\ (2 * m + 1) % 2 = 1
      /\ (2 * m + 1) \div 2 = m
  BY SMT
<1>2. Ones(2 * m + 1) = 1 + Ones(m)
  BY <1>1, CountOnes DEF Ones
<1>3. CASE m = 0
  <2>1. Ones(0) = 0 /\ 2 * m = 0
    BY <1>3, CountOnes DEF Ones
  <2> QED
    BY <1>2, <1>3, <2>1
<1>4. CASE m # 0
  <2>1. 2 * m # 0
    BY <1>4
  <2> QED
    BY <1>1, <1>2, <2>1, CountOnes DEF Ones
<1> QED
  BY <1>3, <1>4

LEMMA OnesPositive ==
  \A n \in Nat : Ones(n) \in Nat /\ (n # 0 => Ones(n) > 0)
<1> DEFINE S == {n \in Nat : Ones(n) \in Nat /\ (n # 0 => Ones(n) > 0)}
<1>1. ASSUME NEW n \in Nat, \A i \in Nat : i < n => i \in S PROVE n \in S
  <2>1. CASE n = 0
    BY <2>1, CountOnes DEF Ones
  <2>2. CASE n # 0
    <3>1. PICK m \in Nat : (n = 2 * m \/ n = 2 * m + 1) /\ m < n
      BY <2>2, Parity
    <3>2. Ones(m) \in Nat /\ (m # 0 => Ones(m) > 0)
      BY <1>1, <3>1
    <3>3. CASE n = 2 * m
      <4>1. Ones(n) = 0 + Ones(m) /\ m # 0
        BY <2>2, <3>3, OnesHalved
      <4> QED
        BY <3>2, <4>1
    <3>4. CASE n = 2 * m + 1
      <4>1. Ones(n) = 1 + Ones(m)
        BY <3>4, OnesHalved
      <4> QED
        BY <3>2, <4>1
    <3> QED
      BY <3>1, <3>3, <3>4
  <2> QED
    BY <2>1, <2>2
<1>2. \A n \in Nat : n \in S
  <2> HIDE DEF S
  <2> QED
    BY <1>1, SetInduction
<1> QED
  BY <1>2

LEMMA OnesTwice ==
  ASSUME NEW m \in Nat
  PROVE  /\ Ones(m) \in Nat /\ Ones(2 * m) = Ones(m) /\ Ones(2 * m + 1) = Ones(m) + 1
         /\ m # 0 => Ones(m) > 0
  BY OnesHalved, OnesPositive

LEMMA PowerOne == Power(1)
<1>1. Ones(0) = 0
  BY CountOnes DEF Ones
<1>2. Ones(2 * 0 + 1) = Ones(0) + 1
  BY OnesTwice
<1>3. 2 * 0 + 1 = 1
  OBVIOUS
<1> QED
  BY <1>1, <1>2, <1>3 DEF Power

LEMMA PowerDouble ==
  ASSUME NEW p, Power(p)
  PROVE  Power(2 * p)
  BY OnesTwice DEF Power

(* A power of two is 1, or twice another.                                  *)
LEMMA PowerHalf ==
  ASSUME NEW p, Power(p)
  PROVE  /\ p \in Nat \ {0}
         /\ p # 1 => \E q \in Nat : Power(q) /\ p = 2 * q /\ q < p
<1>0. p \in Nat /\ Ones(p) = 1 /\ Ones(0) = 0
  BY CountOnes DEF Power, Ones
<1>1. p # 0
  BY <1>0
<1>2. ASSUME p # 1 PROVE \E q \in Nat : Power(q) /\ p = 2 * q /\ q < p
  <2>1. PICK q \in Nat : (p = 2 * q \/ p = 2 * q + 1) /\ q < p
    BY <1>0, <1>1, Parity
  <2>2. p # 2 * q + 1
    <3>1. ASSUME p = 2 * q + 1 PROVE FALSE
      <4>1. q # 0
        BY <1>2, <3>1
      <4>2. Ones(2 * q + 1) = Ones(q) + 1 /\ Ones(q) \in Nat /\ Ones(q) > 0
        BY <4>1, OnesTwice
      <4> QED
        BY <1>0, <3>1, <4>2
    <3> QED
      BY <3>1
  <2>3. Power(q)
    BY <1>0, <2>1, <2>2, OnesTwice DEF Power
  <2> QED
    BY <2>1, <2>2, <2>3
<1> QED
  BY <1>0, <1>1, <1>2

(* Between a power of two and its double there is no other.                *)
LEMMA PowersApart ==
  ASSUME NEW p, NEW q, Power(p), Power(q), p < q
  PROVE  2 * p <= q
<1> DEFINE S == {n \in Nat : \A x \in Nat : Power(n) /\ Power(x) /\ x < n => 2 * x <= n}
<1>1. ASSUME NEW n \in Nat, \A i \in Nat : i < n => i \in S PROVE n \in S
  <2> SUFFICES ASSUME NEW x \in Nat, Power(n), Power(x), x < n PROVE 2 * x <= n
    OBVIOUS
  <2>1. x > 0 /\ n # 1
    BY PowerHalf
  <2>2. PICK m \in Nat : Power(m) /\ n = 2 * m /\ m < n
    BY <2>1, PowerHalf
  <2>3. CASE x = 1
    BY <2>3, <2>1, <2>2
  <2>4. CASE x # 1
    <3>1. PICK y \in Nat : Power(y) /\ x = 2 * y /\ y < x
      BY <2>4, PowerHalf
    <3>2. y < m
      BY <2>2, <3>1
    <3>3. 2 * y <= m
      BY <1>1, <2>2, <3>1, <3>2
    <3> QED
      BY <2>2, <3>1, <3>3
  <2> QED
    BY <2>3, <2>4
<1>2. \A n \in Nat : n \in S
  <2> HIDE DEF S
  <2> QED
    BY <1>1, SetInduction
<1>3. p \in Nat /\ q \in Nat
  BY DEF Power
<1> QED
  BY <1>2, <1>3

(* Adding a power of two to a smaller number, and to any number.           *)
LEMMA OnesAbove ==
  ASSUME NEW p, NEW x \in Nat, Power(p), x < p
  PROVE  Ones(p + x) = Ones(x) + 1
<1> DEFINE S == {n \in Nat : \A y \in Nat :
                               Power(n) /\ y < n => Ones(n + y) = Ones(y) + 1}
<1>1. ASSUME NEW n \in Nat, \A i \in Nat : i < n => i \in S PROVE n \in S
  <2> SUFFICES ASSUME NEW y \in Nat, Power(n), y < n PROVE Ones(n + y) = Ones(y) + 1
    OBVIOUS
  <2>1. CASE n = 1
    <3>1. y = 0 /\ n + y = 1 /\ Ones(0) = 0 /\ Ones(1) = 1
      BY <2>1, CountOnes, PowerOne DEF Ones, Power
    <3> QED
      BY <3>1
  <2>2. CASE n # 1
    <3>1. PICK m \in Nat : Power(m) /\ n = 2 * m /\ m < n
      BY <2>2, PowerHalf
    <3>2. PICK z \in Nat : y = 2 * z \/ y = 2 * z + 1
      BY Parity
    <3>3. z < m
      BY <3>1, <3>2
    <3>4. Ones(m + z) = Ones(z) + 1 /\ m + z \in Nat
      BY <1>1, <3>1, <3>3
    <3>5. CASE y = 2 * z
      <4>1. n + y = 2 * (m + z)
        BY <3>1, <3>5
      <4>2. Ones(n + y) = Ones(m + z) /\ Ones(y) = Ones(z)
        BY <3>4, <3>5, <4>1, OnesTwice
      <4> QED
        BY <3>4, <4>2
    <3>6. CASE y = 2 * z + 1
      <4>1. n + y = 2 * (m + z) + 1
        BY <3>1, <3>6
      <4>2. Ones(n + y) = Ones(m + z) + 1 /\ Ones(y) = Ones(z) + 1
        BY <3>4, <3>6, <4>1, OnesTwice
      <4> QED
        BY <3>4, <4>2
    <3> QED
      BY <3>2, <3>5, <3>6
  <2> QED
    BY <2>1, <2>2
<1>2. \A n \in Nat : n \in S
  <2> HIDE DEF S
  <2> QED
    BY <1>1, SetInduction
<1> QED
  BY <1>2 DEF Power

LEMMA OnesSum ==
  ASSUME NEW x \in Nat, NEW p, Power(p)
  PROVE  Ones(x + p) <= Ones(x) + 1
<1> DEFINE S == {n \in Nat : \A q \in Nat : Power(q) => Ones(n + q) <= Ones(n) + 1}
<1>1. ASSUME NEW n \in Nat, \A i \in Nat : i < n => i \in S PROVE n \in S
  <2> SUFFICES ASSUME NEW q \in Nat, Power(q) PROVE Ones(n + q) <= Ones(n) + 1
    OBVIOUS
  <2>1. CASE n = 0
    <3>1. n + q = q /\ Ones(q) = 1 /\ Ones(0) = 0
      BY <2>1, CountOnes DEF Power, Ones
    <3> QED
      BY <2>1, <3>1
  <2>2. CASE n # 0
    <3>1. PICK m \in Nat : (n = 2 * m \/ n = 2 * m + 1) /\ m < n
      BY <2>2, Parity
    <3>2. \A h \in Nat : Power(h) => Ones(m + h) <= Ones(m) + 1
      BY <1>1, <3>1
    <3>3. Ones(m) \in Nat /\ Ones(2 * m) = Ones(m) /\ Ones(2 * m + 1) = Ones(m) + 1
      BY OnesTwice
    <3>4. CASE q = 1
      <4>1. CASE n = 2 * m
        <5>1. n + q = 2 * m + 1
          BY <3>4, <4>1
        <5> QED
          BY <3>3, <4>1, <5>1
      <4>2. CASE n = 2 * m + 1
        <5>1. n + q = 2 * (m + 1) /\ m + 1 \in Nat
          BY <3>4, <4>2
        <5>2. Ones(n + q) = Ones(m + 1) /\ Ones(m + 1) \in Nat
          BY <5>1, OnesTwice
        <5>3. Ones(m + 1) <= Ones(m) + 1
          BY <3>2, <3>4
        <5> QED
          BY <3>3, <4>2, <5>2, <5>3
      <4> QED
        BY <3>1, <4>1, <4>2
    <3>5. CASE q # 1
      <4>1. PICK h \in Nat : Power(h) /\ q = 2 * h /\ h < q
        BY <3>5, PowerHalf
      <4>2. Ones(m + h) <= Ones(m) + 1 /\ m + h \in Nat
        BY <3>2, <4>1
      <4>3. /\ Ones(m + h) \in Nat /\ Ones(2 * (m + h)) = Ones(m + h)
            /\ Ones(2 * (m + h) + 1) = Ones(m + h) + 1
        BY <4>2, OnesTwice
      <4>4. CASE n = 2 * m
        <5>1. n + q = 2 * (m + h)
          BY <4>1, <4>4
        <5> QED
          BY <3>3, <4>2, <4>3, <4>4, <5>1
      <4>5. CASE n = 2 * m + 1
        <5>1. n + q = 2 * (m + h) + 1
          BY <4>1, <4>5
        <5> QED
          BY <3>3, <4>2, <4>3, <4>5, <5>1
      <4> QED
        BY <3>1, <4>4, <4>5
    <3> QED
      BY <3>4, <3>5
  <2> QED
    BY <2>1, <2>2
<1>2. \A n \in Nat : n \in S
  <2> HIDE DEF S
  <2> QED
    BY <1>1, SetInduction
<1> QED
  BY <1>2 DEF Power

(* The left side of a subtree.                                             *)
LEMMA PowerBelow ==
  ASSUME NEW n \in Nat, n > 1
  PROVE  \E p \in Nat : Power(p) /\ p < n /\ n <= 2 * p
<1> DEFINE S == {k \in Nat : k > 1 => \E p \in Nat : Power(p) /\ p < k /\ k <= 2 * p}
<1>1. ASSUME NEW k \in Nat, \A i \in Nat : i < k => i \in S PROVE k \in S
  <2> SUFFICES ASSUME k > 1 PROVE \E p \in Nat : Power(p) /\ p < k /\ k <= 2 * p
    OBVIOUS
  <2>1. CASE k = 2
    <3>1. 1 < k /\ k <= 2 * 1
      BY <2>1
    <3> QED
      BY <3>1, PowerOne
  <2>2. CASE k # 2
    <3>1. PICK m \in Nat : k + 1 = 2 * m \/ k + 1 = 2 * m + 1
      <4>1. PICK i \in Nat : i = k + 1
        OBVIOUS
      <4>2. \E m \in Nat : i = 2 * m \/ i = 2 * m + 1
        BY Parity
      <4> QED
        BY <4>1, <4>2
    <3>2. m < k /\ m > 1
      BY <2>2, <3>1
    <3>3. PICK p \in Nat : Power(p) /\ p < m /\ m <= 2 * p
      BY <1>1, <3>2
    <3>4. Power(2 * p) /\ 2 * p < k /\ k <= 2 * (2 * p) /\ 2 * p \in Nat
      BY <3>1, <3>3, PowerDouble
    <3> QED
      BY <3>4
  <2> QED
    BY <2>1, <2>2
<1>2. \A k \in Nat : k \in S
  <2> HIDE DEF S
  <2> QED
    BY <1>1, SetInduction
<1> QED
  BY <1>2

LEMMA LeftSizeIs ==
  ASSUME NEW size \in Nat, size > 1
  PROVE  LET p == Tree!LeftSize(size)
         IN  p \in 1 .. size - 1 /\ Power(p) /\ p < size /\ size <= 2 * p
<1>1. PICK q \in Nat : Power(q) /\ q < size /\ size <= 2 * q
  BY PowerBelow
<1>2. q \in 1 .. size - 1 /\ Tree!count_ones[q] = 1
  BY <1>1, PowerHalf DEF Power, Ones
<1> QED
  BY <1>1, <1>2 DEF Tree!LeftSize, Power, Ones

LEMMA LeftSizeOf ==
  ASSUME NEW p, NEW x \in Nat, Power(p), 0 < x, x <= p
  PROVE  Tree!LeftSize(p + x) = p
<1>1. p \in Nat \ {0}
  BY PowerHalf
<1>2. PICK q : q = Tree!LeftSize(p + x)
  OBVIOUS
<1>3. p + x \in Nat /\ p + x > 1
  BY <1>1
<1>4. q \in 1 .. (p + x) - 1 /\ Power(q) /\ q < p + x /\ p + x <= 2 * q
  BY <1>2, <1>3, LeftSizeIs
<1>5. q \in Nat
  BY <1>4 DEF Power
<1>6. q < p => 2 * q <= p
  BY <1>4, PowersApart
<1>7. p < q => 2 * p <= q
  BY <1>4, PowersApart
<1> QED
  BY <1>1, <1>2, <1>4, <1>5, <1>6, <1>7

(* TreeNode.                                                               *)
NodeOf(g, key, fl, n, lo, size) ==
  IF size = 1 THEN Tree!ChunkNode(key, fl, lo, n)
  ELSE Tree!ParentOutput(Tree!ChainingValue(g[Tree!LeftSize(size)][lo]),
                         Tree!ChainingValue(g[size - Tree!LeftSize(size)]
                                             [lo + Tree!LeftSize(size)]), key, fl)
NodesTo(g, key, fl, n, m) ==
  \A lo \in Nat, size \in Nat : 0 < size /\ size <= m =>
    g[size][lo] = NodeOf(g, key, fl, n, lo, size)

(* A node depends on smaller ones only.                                    *)
LEMMA NodeLocal ==
  ASSUME NEW g, NEW h, NEW key, NEW fl, NEW n, NEW lo \in Nat, NEW size \in Nat,
         size > 0,
         \A l \in Nat, s \in Nat : 0 < s /\ s < size => g[s][l] = h[s][l]
  PROVE  NodeOf(g, key, fl, n, lo, size) = NodeOf(h, key, fl, n, lo, size)
<1>1. CASE size = 1
  BY <1>1 DEF NodeOf
<1>2. CASE size # 1
  <2>1. PICK p : p = Tree!LeftSize(size)
    OBVIOUS
  <2>2. p \in 1 .. size - 1
    <3>1. size > 1
      BY <1>2
    <3> QED
      BY <2>1, <3>1, LeftSizeIs
  <2>3. /\ p \in Nat /\ 0 < p /\ p < size /\ lo + p \in Nat
        /\ size - p \in Nat /\ 0 < size - p /\ size - p < size
    BY <2>2
  <2>4. g[p][lo] = h[p][lo] /\ g[size - p][lo + p] = h[size - p][lo + p]
    BY <2>3
  <2> QED
    BY <1>2, <2>1, <2>4 DEF NodeOf
<1> QED
  BY <1>1, <1>2

LEMMA NodesAgree ==
  ASSUME NEW g, NEW h, NEW key, NEW fl, NEW n, NEW m \in Nat, NEW k \in Nat,
         NodesTo(g, key, fl, n, m), NodesTo(h, key, fl, n, k)
  PROVE  \A size \in Nat : 0 < size /\ size <= m /\ size <= k =>
           \A lo \in Nat : g[size][lo] = h[size][lo]
<1> DEFINE S == {s \in Nat : 0 < s /\ s <= m /\ s <= k =>
                               \A lo \in Nat : g[s][lo] = h[s][lo]}
<1>1. ASSUME NEW s \in Nat, \A i \in Nat : i < s => i \in S PROVE s \in S
  <2> SUFFICES ASSUME 0 < s, s <= m, s <= k, NEW lo \in Nat PROVE g[s][lo] = h[s][lo]
    OBVIOUS
  <2>1. \A l \in Nat, i \in Nat : 0 < i /\ i < s => g[i][l] = h[i][l]
    BY <1>1
  <2>2. NodeOf(g, key, fl, n, lo, s) = NodeOf(h, key, fl, n, lo, s)
    BY <2>1, NodeLocal
  <2> QED
    BY <2>2 DEF NodesTo
<1>2. \A s \in Nat : s \in S
  <2> HIDE DEF S
  <2> QED
    BY <1>1, SetInduction
<1> QED
  BY <1>2

LEMMA NodesExist ==
  ASSUME NEW key, NEW fl, NEW n, NEW m \in Nat
  PROVE  \E g : NodesTo(g, key, fl, n, m)
<1> DEFINE S == {k \in Nat : \E g : NodesTo(g, key, fl, n, k)}
<1>1. ASSUME NEW s \in Nat, \A i \in Nat : i < s => i \in S PROVE s \in S
  <2>1. CASE s = 0
    <3>1. NodesTo(<<>>, key, fl, n, s)
      BY <2>1 DEF NodesTo
    <3> QED
      BY <3>1
  <2>2. CASE s # 0
    <3>1. s - 1 \in Nat /\ s - 1 < s
      BY <2>2
    <3>2. PICK g : NodesTo(g, key, fl, n, s - 1)
      BY <1>1, <3>1
    <3> DEFINE h == [i \in Nat |-> [l \in Nat |->
                       IF i < s THEN g[i][l] ELSE NodeOf(g, key, fl, n, l, s)]]
    <3>3. /\ \A l \in Nat, i \in Nat : i < s => g[i][l] = h[i][l]
          /\ \A l \in Nat : h[s][l] = NodeOf(g, key, fl, n, l, s)
      OBVIOUS
    <3> HIDE DEF h
    <3>4. ASSUME NEW lo \in Nat, NEW i \in Nat, 0 < i, i <= s
          PROVE  h[i][lo] = NodeOf(h, key, fl, n, lo, i)
      <4>1. \A l \in Nat, j \in Nat : 0 < j /\ j < i => g[j][l] = h[j][l]
        BY <3>3, <3>4
      <4>2. NodeOf(g, key, fl, n, lo, i) = NodeOf(h, key, fl, n, lo, i)
        BY <3>4, <4>1, NodeLocal
      <4>3. CASE i = s
        BY <3>3, <4>2, <4>3
      <4>4. CASE i # s
        <5>1. i < s /\ i <= s - 1
          BY <3>4, <4>4
        <5>2. g[i][lo] = NodeOf(g, key, fl, n, lo, i)
          BY <3>2, <3>4, <5>1 DEF NodesTo
        <5> QED
          BY <3>3, <4>2, <5>1, <5>2
      <4> QED
        BY <4>3, <4>4
    <3>5. NodesTo(h, key, fl, n, s)
      BY <3>4 DEF NodesTo
    <3> QED
      BY <3>5
  <2> QED
    BY <2>1, <2>2
<1>2. \A s \in Nat : s \in S
  <2> HIDE DEF S
  <2> QED
    BY <1>1, SetInduction
<1> QED
  BY <1>2

LEMMA TreeNodeIs ==
  ASSUME NEW key, NEW fl, NEW n
  PROVE  \E g : /\ \A lo \in Nat, size \in Nat :
                     size > 0 => g[size][lo] = NodeOf(g, key, fl, n, lo, size)
                /\ \A lo, size : Tree!TreeNode(key, fl, lo, size, n) = g[size][lo]
<1> DEFINE Upto(m) == CHOOSE g : NodesTo(g, key, fl, n, m)
           f == [size \in Nat \ {0} |-> [lo \in Nat |-> Upto(size)[size][lo]]]
           IsFixed(g) == g = [size \in Nat \ {0} |-> [lo \in Nat |->
                                NodeOf(g, key, fl, n, lo, size)]]
           F == CHOOSE g : IsFixed(g)
<1>1. \A m \in Nat : NodesTo(Upto(m), key, fl, n, m)
  BY NodesExist
<1> HIDE DEF Upto
<1>2. \A lo \in Nat, size \in Nat : 0 < size => f[size][lo] = Upto(size)[size][lo]
  OBVIOUS
<1>3. ASSUME NEW lo \in Nat, NEW size \in Nat \ {0}
      PROVE  f[size][lo] = NodeOf(f, key, fl, n, lo, size)
  <2> HIDE DEF f
  <2>1. ASSUME NEW l \in Nat, NEW s \in Nat, 0 < s, s < size
        PROVE  Upto(size)[s][l] = f[s][l]
    <3>1. NodesTo(Upto(size), key, fl, n, size) /\ NodesTo(Upto(s), key, fl, n, s)
      BY <1>1
    <3>2. Upto(size)[s][l] = Upto(s)[s][l]
      BY <2>1, <3>1, NodesAgree
    <3> QED
      BY <1>2, <2>1, <3>2
  <2>2. NodeOf(Upto(size), key, fl, n, lo, size) = NodeOf(f, key, fl, n, lo, size)
    BY <2>1, NodeLocal
  <2>3. Upto(size)[size][lo] = NodeOf(Upto(size), key, fl, n, lo, size)
    BY <1>1 DEF NodesTo
  <2> QED
    BY <1>2, <2>2, <2>3
<1>4. IsFixed(f)
  BY <1>3
<1>5. IsFixed(F)
  BY <1>4
<1>6. ASSUME NEW lo, NEW size
      PROVE  Tree!TreeNode(key, fl, lo, size, n) = F[size][lo]
  BY DEF Tree!TreeNode, NodeOf
<1> HIDE DEF F
<1>7. \A lo \in Nat, size \in Nat :
        size > 0 => F[size][lo] = NodeOf(F, key, fl, n, lo, size)
  BY <1>5
<1> QED
  BY <1>6, <1>7

LEMMA TreeOfOne ==
  ASSUME NEW key, NEW fl, NEW n, NEW lo \in Nat
  PROVE  Tree!TreeNode(key, fl, lo, 1, n) = Tree!ChunkNode(key, fl, lo, n)
<1>1. PICK g : /\ \A l \in Nat, size \in Nat :
                    size > 0 => g[size][l] = NodeOf(g, key, fl, n, l, size)
               /\ \A l, size : Tree!TreeNode(key, fl, l, size, n) = g[size][l]
  BY TreeNodeIs
<1>2. g[1][lo] = NodeOf(g, key, fl, n, lo, 1)
  BY <1>1
<1> QED
  BY <1>1, <1>2 DEF NodeOf

(* A subtree of p chunks and its sibling, which is not larger.             *)
LEMMA TreeOfTwo ==
  ASSUME NEW key, NEW fl, NEW n, NEW lo \in Nat, NEW p, Power(p),
         NEW x \in Nat, 0 < x, x <= p
  PROVE  Tree!TreeNode(key, fl, lo, p + x, n)
           = Tree!ParentOutput(
               Tree!ChainingValue(Tree!TreeNode(key, fl, lo, p, n)),
               Tree!ChainingValue(Tree!TreeNode(key, fl, lo + p, x, n)), key, fl)
<1>1. PICK g : /\ \A l \in Nat, size \in Nat :
                    size > 0 => g[size][l] = NodeOf(g, key, fl, n, l, size)
               /\ \A l, size : Tree!TreeNode(key, fl, l, size, n) = g[size][l]
  BY TreeNodeIs
<1>2. p \in Nat \ {0} /\ Tree!LeftSize(p + x) = p
  BY PowerHalf, LeftSizeOf
<1>3. p + x \in Nat /\ p + x > 0 /\ p + x # 1 /\ (p + x) - p = x
  BY <1>2
<1>4. g[p + x][lo] = NodeOf(g, key, fl, n, lo, p + x)
  BY <1>1, <1>3
<1> QED
  BY <1>1, <1>2, <1>3, <1>4 DEF NodeOf

LEMMA TreeOfParts ==
  ASSUME NEW key, NEW fl, NEW n, NEW lo \in Nat, NEW p, Power(p),
         NEW x \in Nat, 0 < x, x <= p, NEW mid, mid = lo + p, NEW size, size = p + x
  PROVE  Tree!TreeNode(key, fl, lo, size, n)
           = Tree!ParentOutput(
               Tree!ChainingValue(Tree!TreeNode(key, fl, lo, p, n)),
               Tree!ChainingValue(Tree!TreeNode(key, fl, mid, x, n)), key, fl)
<1>1. Tree!TreeNode(key, fl, lo, p + x, n)
        = Tree!ParentOutput(
            Tree!ChainingValue(Tree!TreeNode(key, fl, lo, p, n)),
            Tree!ChainingValue(Tree!TreeNode(key, fl, lo + p, x, n)), key, fl)
  BY TreeOfTwo
<1> QED
  BY <1>1

(* ChunkPrefix.                                                            *)
BlockBytes(chunk, i) ==
  [j \in 1 .. BLOCK_LEN |->
     Tree!MessageByte(chunk * Tree!CHUNK_LEN + (i - 1) * BLOCK_LEN + j)]
PrefixOf(g, key, fl, chunk, i) ==
  IF i = 0 THEN key
  ELSE Tree!Compress(g[i - 1], BlockBytes(chunk, i), chunk, BLOCK_LEN,
                     fl \cup (IF i = 1 THEN {"CHUNK_START"} ELSE {}))
PrefixTo(g, key, fl, chunk, m) ==
  \A i \in Nat : i <= m => g[i] = PrefixOf(g, key, fl, chunk, i)

LEMMA PrefixAgree ==
  ASSUME NEW g, NEW h, NEW key, NEW fl, NEW chunk, NEW m \in Nat, NEW k \in Nat,
         PrefixTo(g, key, fl, chunk, m), PrefixTo(h, key, fl, chunk, k)
  PROVE  \A i \in Nat : i <= m /\ i <= k => g[i] = h[i]
<1> DEFINE S == {i \in Nat : i <= m /\ i <= k => g[i] = h[i]}
<1>1. ASSUME NEW s \in Nat, \A i \in Nat : i < s => i \in S PROVE s \in S
  <2> SUFFICES ASSUME s <= m, s <= k PROVE g[s] = h[s]
    OBVIOUS
  <2>1. s # 0 => g[s - 1] = h[s - 1]
    <3>1. s # 0 => s - 1 \in Nat /\ s - 1 < s /\ s - 1 <= m /\ s - 1 <= k
      OBVIOUS
    <3> QED
      BY <1>1, <3>1
  <2>2. g[s] = PrefixOf(g, key, fl, chunk, s) /\ h[s] = PrefixOf(h, key, fl, chunk, s)
    BY DEF PrefixTo
  <2> QED
    BY <2>1, <2>2 DEF PrefixOf
<1>2. \A s \in Nat : s \in S
  <2> HIDE DEF S
  <2> QED
    BY <1>1, SetInduction
<1> QED
  BY <1>2

LEMMA PrefixExist ==
  ASSUME NEW key, NEW fl, NEW chunk, NEW m \in Nat
  PROVE  \E g : PrefixTo(g, key, fl, chunk, m)
<1> DEFINE S == {k \in Nat : \E g : PrefixTo(g, key, fl, chunk, k)}
<1>1. ASSUME NEW s \in Nat, \A i \in Nat : i < s => i \in S PROVE s \in S
  <2>1. PICK g : s # 0 => PrefixTo(g, key, fl, chunk, s - 1)
    <3>1. s # 0 => s - 1 \in Nat /\ s - 1 < s
      OBVIOUS
    <3> QED
      BY <1>1, <3>1
  <2> DEFINE h == [i \in Nat |-> IF i < s THEN g[i] ELSE PrefixOf(g, key, fl, chunk, s)]
  <2>2. (\A i \in Nat : i < s => h[i] = g[i]) /\ h[s] = PrefixOf(g, key, fl, chunk, s)
    OBVIOUS
  <2> HIDE DEF h
  <2>3. ASSUME NEW i \in Nat, i <= s PROVE h[i] = PrefixOf(h, key, fl, chunk, i)
    <3>1. i # 0 => h[i - 1] = g[i - 1]
      <4>1. i # 0 => i - 1 \in Nat /\ i - 1 < s
        BY <2>3
      <4> QED
        BY <2>2, <4>1
    <3>2. PrefixOf(h, key, fl, chunk, i) = PrefixOf(g, key, fl, chunk, i)
      BY <3>1 DEF PrefixOf
    <3>3. CASE i = s
      BY <2>2, <3>2, <3>3
    <3>4. CASE i # s
      <4>1. i < s /\ i <= s - 1 /\ s # 0
        BY <2>3, <3>4
      <4>2. g[i] = PrefixOf(g, key, fl, chunk, i)
        BY <2>1, <4>1 DEF PrefixTo
      <4> QED
        BY <2>2, <3>2, <4>1, <4>2
    <3> QED
      BY <3>3, <3>4
  <2>4. PrefixTo(h, key, fl, chunk, s)
    BY <2>3 DEF PrefixTo
  <2> QED
    BY <2>4
<1>2. \A s \in Nat : s \in S
  <2> HIDE DEF S
  <2> QED
    BY <1>1, SetInduction
<1> QED
  BY <1>2

LEMMA ChunkPrefixIs ==
  ASSUME NEW key, NEW fl, NEW chunk
  PROVE  \E g : /\ \A i \in Nat : g[i] = PrefixOf(g, key, fl, chunk, i)
                /\ \A i : Tree!ChunkPrefix(key, fl, chunk, i) = g[i]
<1> DEFINE Upto(m) == CHOOSE g : PrefixTo(g, key, fl, chunk, m)
           f == [i \in Nat |-> Upto(i)[i]]
           IsFixed(g) == g = [i \in Nat |-> PrefixOf(g, key, fl, chunk, i)]
           F == CHOOSE g : IsFixed(g)
<1>1. \A m \in Nat : PrefixTo(Upto(m), key, fl, chunk, m)
  BY PrefixExist
<1> HIDE DEF Upto
<1>2. \A i \in Nat : f[i] = Upto(i)[i]
  OBVIOUS
<1>3. ASSUME NEW s \in Nat PROVE f[s] = PrefixOf(f, key, fl, chunk, s)
  <2> HIDE DEF f
  <2>1. s # 0 => Upto(s)[s - 1] = f[s - 1]
    <3>1. ASSUME s # 0 PROVE Upto(s)[s - 1] = Upto(s - 1)[s - 1] /\ s - 1 \in Nat
      <4>1. s - 1 \in Nat /\ s - 1 <= s
        BY <3>1
      <4>2. /\ PrefixTo(Upto(s), key, fl, chunk, s)
            /\ PrefixTo(Upto(s - 1), key, fl, chunk, s - 1)
        BY <1>1, <4>1
      <4> QED
        BY <4>1, <4>2, PrefixAgree
    <3> QED
      BY <1>2, <3>1
  <2>2. Upto(s)[s] = PrefixOf(Upto(s), key, fl, chunk, s)
    BY <1>1 DEF PrefixTo
  <2>3. PrefixOf(Upto(s), key, fl, chunk, s) = PrefixOf(f, key, fl, chunk, s)
    BY <2>1 DEF PrefixOf
  <2> QED
    BY <1>2, <2>2, <2>3
<1>4. IsFixed(f)
  BY <1>3
<1>5. IsFixed(F)
  BY <1>4
<1>6. ASSUME NEW i PROVE Tree!ChunkPrefix(key, fl, chunk, i) = F[i]
  BY DEF Tree!ChunkPrefix, PrefixOf, BlockBytes
<1> HIDE DEF F
<1>7. \A i \in Nat : F[i] = PrefixOf(F, key, fl, chunk, i)
  BY <1>5
<1> QED
  BY <1>6, <1>7

LEMMA ChunkPrefixStart ==
  ASSUME NEW key, NEW fl, NEW chunk
  PROVE  Tree!ChunkPrefix(key, fl, chunk, 0) = key
<1>1. PICK g : /\ \A i \in Nat : g[i] = PrefixOf(g, key, fl, chunk, i)
               /\ \A i : Tree!ChunkPrefix(key, fl, chunk, i) = g[i]
  BY ChunkPrefixIs
<1> QED
  BY <1>1 DEF PrefixOf

LEMMA ChunkPrefixNext ==
  ASSUME NEW key, NEW fl, NEW chunk, NEW i \in Nat, NEW next, next = i + 1
  PROVE  Tree!ChunkPrefix(key, fl, chunk, next)
           = Tree!Compress(Tree!ChunkPrefix(key, fl, chunk, i), BlockBytes(chunk, next),
                           chunk, BLOCK_LEN,
                           fl \cup (IF i = 0 THEN {"CHUNK_START"} ELSE {}))
<1>1. PICK g : /\ \A k \in Nat : g[k] = PrefixOf(g, key, fl, chunk, k)
               /\ \A k : Tree!ChunkPrefix(key, fl, chunk, k) = g[k]
  BY ChunkPrefixIs
<1>2. next \in Nat /\ next # 0 /\ next - 1 = i /\ (next = 1 <=> i = 0)
  OBVIOUS
<1>3. g[next] = PrefixOf(g, key, fl, chunk, next)
  BY <1>1, <1>2
<1>4. g[next] = Tree!Compress(g[i], BlockBytes(chunk, next), chunk, BLOCK_LEN,
                              fl \cup (IF i = 0 THEN {"CHUNK_START"} ELSE {}))
  BY <1>2, <1>3 DEF PrefixOf
<1> QED
  BY <1>1, <1>4

(* The subtrees on the stack, by the chunks before their ends.  Sizes      *)
(* fall; Weakly, but for the last two, which may be alike.                 *)
Size(b, i) == b[i] - b[i - 1]
Ends(b, l, n) ==
  /\ b \in [0 .. l -> Nat] /\ b[0] = 0 /\ b[l] = n
  /\ \A i \in 1 .. l : Power(Size(b, i))
Falls(b, l) == \A i \in 1 .. l : i + 1 <= l => Size(b, i + 1) < Size(b, i)
FallsWeakly(b, l) ==
  \A i \in 1 .. l : i + 1 <= l => /\ Size(b, i + 1) <= Size(b, i)
                                  /\ i + 1 < l => Size(b, i + 1) < Size(b, i)

LEMMA SizesAre ==
  ASSUME NEW b, NEW l \in Nat, NEW n, Ends(b, l, n)
  PROVE  /\ n \in Nat
         /\ \A i \in 0 .. l : b[i] \in Nat
         /\ \A i \in 1 .. l : /\ Size(b, i) \in Nat \ {0} /\ b[i - 1] \in Nat
                              /\ b[i] = b[i - 1] + Size(b, i)
<1>1. n \in Nat /\ \A i \in 0 .. l : b[i] \in Nat
  BY DEF Ends
<1>2. ASSUME NEW i \in 1 .. l
      PROVE  /\ Size(b, i) \in Nat \ {0} /\ b[i - 1] \in Nat
             /\ b[i] = b[i - 1] + Size(b, i)
  <2>1. Power(Size(b, i))
    BY DEF Ends
  <2>2. Size(b, i) \in Nat \ {0}
    BY <2>1, PowerHalf
  <2>3. i \in 0 .. l /\ i - 1 \in 0 .. l
    OBVIOUS
  <2>4. b[i] \in Nat /\ b[i - 1] \in Nat
    BY <1>1, <2>3
  <2> QED
    BY <2>2, <2>4 DEF Size
<1> QED
  BY <1>1, <1>2

(* What is behind a subtree is smaller than it.                            *)
LEMMA TailSmall ==
  ASSUME NEW b, NEW l \in Nat, NEW n, Ends(b, l, n), Falls(b, l)
  PROVE  \A k \in 1 .. l : n - b[k] \in Nat /\ n - b[k] < Size(b, k)
<1> DEFINE Is(k) == n - b[k] \in Nat /\ n - b[k] < Size(b, k)
           S == {i \in Nat : i < l => Is(l - i)}
<1>1. ASSUME NEW i \in Nat, \A j \in Nat : j < i => j \in S PROVE i \in S
  <2> SUFFICES ASSUME i < l PROVE Is(l - i)
    OBVIOUS
  <2>1. PICK k \in 1 .. l : k = l - i
    OBVIOUS
  <2>2. Size(b, k) \in Nat \ {0} /\ b[k] \in Nat /\ n \in Nat
    BY SizesAre
  <2>3. CASE i = 0
    <3>1. k = l /\ b[l] = n
      BY <2>1, <2>3 DEF Ends
    <3> QED
      BY <2>1, <2>2, <3>1
  <2>4. CASE i # 0
    <3>1. /\ i - 1 \in Nat /\ i - 1 < i /\ i - 1 < l /\ l - (i - 1) = k + 1
          /\ k + 1 \in 1 .. l /\ (k + 1) - 1 = k
      BY <2>1, <2>4
    <3>2. Is(k + 1)
      BY <1>1, <3>1
    <3>3. /\ b[k + 1] = b[k] + Size(b, k + 1) /\ Size(b, k + 1) \in Nat \ {0}
          /\ b[k + 1] \in Nat
      BY <3>1, SizesAre
    <3>4. Size(b, k + 1) < Size(b, k)
      BY <2>1, <3>1 DEF Falls
    <3>5. Power(Size(b, k)) /\ Power(Size(b, k + 1))
      BY <3>1 DEF Ends
    <3>6. 2 * Size(b, k + 1) <= Size(b, k)
      BY <3>4, <3>5, PowersApart
    <3> QED
      BY <2>1, <2>2, <3>2, <3>3, <3>6
  <2> QED
    BY <2>3, <2>4
<1>2. \A i \in Nat : i \in S
  <2> HIDE DEF S
  <2> QED
    BY <1>1, SetInduction
<1>3. ASSUME NEW k \in 1 .. l PROVE Is(k)
  <2>1. l - k \in Nat /\ l - k < l /\ l - (l - k) = k
    OBVIOUS
  <2>2. l - k \in S
    BY <1>2, <2>1
  <2> QED
    BY <2>1, <2>2
<1> QED
  BY <1>3

(* As many subtrees as one bits.                                           *)
LEMMA OnesOfFalling ==
  ASSUME NEW b, NEW l \in Nat, NEW n, Ends(b, l, n), Falls(b, l)
  PROVE  Ones(n) = l
<1> DEFINE S == {i \in Nat : i <= l => Ones(n - b[l - i]) = i}
<1>1. ASSUME NEW i \in Nat, \A j \in Nat : j < i => j \in S PROVE i \in S
  <2> SUFFICES ASSUME i <= l PROVE Ones(n - b[l - i]) = i
    OBVIOUS
  <2>1. CASE i = 0
    <3>1. l - i = l /\ b[l] = n /\ n \in Nat
      BY <2>1, SizesAre DEF Ends
    <3>2. n - b[l - i] = 0 /\ Ones(0) = 0
      BY <3>1, CountOnes DEF Ones
    <3> QED
      BY <2>1, <3>2
  <2>2. CASE i # 0
    <3>1. PICK k \in 1 .. l : k = l - (i - 1) /\ k - 1 = l - i
      BY <2>2
    <3>2. i - 1 \in Nat /\ i - 1 < i /\ i - 1 <= l
      BY <2>2
    <3>3. Ones(n - b[k]) = i - 1
      BY <1>1, <3>1, <3>2
    <3>4. n - b[k] \in Nat /\ n - b[k] < Size(b, k) /\ Power(Size(b, k))
      BY TailSmall DEF Ends
    <3>5. /\ b[k] = b[k - 1] + Size(b, k) /\ Size(b, k) \in Nat /\ b[k - 1] \in Nat
          /\ b[k] \in Nat /\ n \in Nat
      BY SizesAre
    <3>6. n - b[k - 1] = Size(b, k) + (n - b[k])
      BY <3>5
    <3>7. Ones(Size(b, k) + (n - b[k])) = Ones(n - b[k]) + 1
      BY <3>4, OnesAbove
    <3> QED
      BY <3>1, <3>2, <3>3, <3>6, <3>7
  <2> QED
    BY <2>1, <2>2
<1>2. \A i \in Nat : i \in S
  <2> HIDE DEF S
  <2> QED
    BY <1>1, SetInduction
<1>3. l \in S /\ l - l = 0 /\ b[0] = 0 /\ n \in Nat /\ n - 0 = n
  BY <1>2, SizesAre DEF Ends
<1> QED
  BY <1>3

LEMMA OnesOfEnds ==
  ASSUME NEW b, NEW l \in Nat, NEW n, Ends(b, l, n)
  PROVE  \A i \in 0 .. l : Ones(b[i]) <= i
<1> DEFINE S == {i \in Nat : i <= l => Ones(b[i]) <= i}
<1>1. ASSUME NEW i \in Nat, \A j \in Nat : j < i => j \in S PROVE i \in S
  <2> SUFFICES ASSUME i <= l PROVE Ones(b[i]) <= i
    OBVIOUS
  <2>1. CASE i = 0
    BY <2>1, CountOnes DEF Ends, Ones
  <2>2. CASE i # 0
    <3>1. i - 1 \in Nat /\ i - 1 < i /\ i - 1 <= l /\ i \in 1 .. l
      BY <2>2
    <3>2. Ones(b[i - 1]) <= i - 1
      BY <1>1, <3>1
    <3>3. /\ b[i] = b[i - 1] + Size(b, i) /\ b[i - 1] \in Nat /\ b[i] \in Nat
          /\ Power(Size(b, i))
      BY <3>1, SizesAre DEF Ends
    <3>4. Ones(b[i]) <= Ones(b[i - 1]) + 1
      BY <3>3, OnesSum
    <3>5. Ones(b[i]) \in Nat /\ Ones(b[i - 1]) \in Nat
      BY <3>3, OnesPositive
    <3> QED
      BY <3>2, <3>4, <3>5
  <2> QED
    BY <2>1, <2>2
<1>2. \A i \in Nat : i \in S
  <2> HIDE DEF S
  <2> QED
    BY <1>1, SetInduction
<1> QED
  BY <1>2

(* merge_cv_stack goes on as long as the last two are alike.               *)
LEMMA MergesAlike ==
  ASSUME NEW b, NEW l \in Nat, NEW n, Ends(b, l, n), FallsWeakly(b, l)
  PROVE  /\ l <= Ones(n) => Falls(b, l)
         /\ l > Ones(n) => l >= 2 /\ Size(b, l) = Size(b, l - 1)
<1>0. n \in Nat /\ Ones(n) \in Nat
  BY SizesAre, OnesPositive
<1>1. CASE Falls(b, l)
  BY <1>0, <1>1, OnesOfFalling
<1>2. CASE ~ Falls(b, l)
  <2>1. PICK i \in 1 .. l : i + 1 <= l /\ ~ (Size(b, i + 1) < Size(b, i))
    BY <1>2 DEF Falls
  <2>2. Size(b, i + 1) <= Size(b, i) /\ ~ (i + 1 < l)
    BY <2>1 DEF FallsWeakly
  <2>3. i = l - 1 /\ i + 1 = l /\ i \in Nat /\ l >= 2 /\ l \in 1 .. l /\ l - 1 \in 1 .. l
    BY <2>1, <2>2
  <2>4. Size(b, l) \in Nat /\ Size(b, l - 1) \in Nat
    BY <2>3, SizesAre
  <2>5. Size(b, l) = Size(b, l - 1)
    BY <2>1, <2>2, <2>3, <2>4
  <2>6. Ones(n) <= l - 1
    <3>1. l - 2 \in 0 .. l /\ (l - 1) - 1 = l - 2
      BY <2>3
    <3>2. /\ b[l] = b[l - 1] + Size(b, l) /\ b[l - 1] = b[l - 2] + Size(b, l - 1)
          /\ b[l - 2] \in Nat /\ b[l - 1] \in Nat /\ b[l] = n
      BY <2>3, <3>1, SizesAre DEF Ends
    <3>3. n = b[l - 2] + 2 * Size(b, l - 1)
      BY <2>4, <2>5, <3>2
    <3>4. Power(2 * Size(b, l - 1))
      BY <2>3, PowerDouble DEF Ends
    <3>5. Ones(n) <= Ones(b[l - 2]) + 1
      BY <3>2, <3>3, <3>4, OnesSum
    <3>6. Ones(b[l - 2]) <= l - 2 /\ Ones(b[l - 2]) \in Nat
      BY <3>1, <3>2, OnesOfEnds, OnesPositive
    <3> QED
      BY <1>0, <3>5, <3>6
  <2> QED
    BY <1>0, <2>3, <2>5, <2>6
<1> QED
  BY <1>1, <1>2

(* One chunk more; and two subtrees that become one.                       *)
LEMMA EndsPushed ==
  ASSUME NEW b, NEW l \in Nat, NEW n, Ends(b, l, n), Falls(b, l),
         NEW d, d = [i \in 0 .. l + 1 |-> IF i <= l THEN b[i] ELSE n + 1]
  PROVE  /\ Ends(d, l + 1, n + 1) /\ FallsWeakly(d, l + 1)
         /\ \A i \in 0 .. l : d[i] = b[i]
         /\ d[l + 1] = n + 1
<1>1. (\A i \in 0 .. l : d[i] = b[i]) /\ d[l + 1] = n + 1 /\ n \in Nat
  BY SizesAre
<1>2. \A i \in 1 .. l : Size(d, i) = Size(b, i)
  <2>1. \A i \in 1 .. l : i \in 0 .. l /\ i - 1 \in 0 .. l
    OBVIOUS
  <2> QED
    BY <1>1, <2>1 DEF Size
<1>3. Size(d, l + 1) = 1
  <2>1. (l + 1) - 1 = l /\ l \in 0 .. l /\ b[l] = n
    BY DEF Ends
  <2> QED
    BY <1>1, <2>1 DEF Size
<1>4. Ends(d, l + 1, n + 1)
  <2>1. d \in [0 .. l + 1 -> Nat]
    <3>1. \A i \in 0 .. l + 1 : (IF i <= l THEN b[i] ELSE n + 1) \in Nat
      BY <1>1, SizesAre
    <3> QED
      BY <3>1
  <2>2. ASSUME NEW i \in 1 .. l + 1 PROVE Power(Size(d, i))
    <3>1. i \in 1 .. l \/ i = l + 1
      OBVIOUS
    <3> QED
      BY <1>2, <1>3, <3>1, PowerOne DEF Ends
  <2>3. d[0] = 0
    BY <1>1 DEF Ends
  <2> QED
    BY <1>1, <2>1, <2>2, <2>3 DEF Ends
<1>5. FallsWeakly(d, l + 1)
  <2>1. ASSUME NEW i \in 1 .. l + 1, i + 1 <= l + 1
        PROVE  /\ Size(d, i + 1) <= Size(d, i)
               /\ i + 1 < l + 1 => Size(d, i + 1) < Size(d, i)
    <3>1. i \in 1 .. l /\ Size(d, i) = Size(b, i) /\ Size(b, i) \in Nat \ {0}
      BY <1>2, <2>1, SizesAre
    <3>2. CASE i + 1 = l + 1
      BY <1>3, <3>1, <3>2
    <3>3. CASE i + 1 # l + 1
      <4>1. i + 1 \in 1 .. l /\ i + 1 <= l
        BY <2>1, <3>3
      <4>2. Size(d, i + 1) = Size(b, i + 1) /\ Size(b, i + 1) \in Nat \ {0}
        BY <1>2, <4>1, SizesAre
      <4>3. Size(b, i + 1) < Size(b, i)
        BY <3>1, <4>1 DEF Falls
      <4> QED
        BY <3>1, <4>2, <4>3
    <3> QED
      BY <3>2, <3>3
  <2> QED
    BY <2>1 DEF FallsWeakly
<1> QED
  BY <1>1, <1>4, <1>5

LEMMA EndsMerged ==
  ASSUME NEW b, NEW l \in Nat, NEW n, Ends(b, l, n), FallsWeakly(b, l),
         l >= 2, Size(b, l) = Size(b, l - 1),
         NEW d, d = [i \in 0 .. l - 1 |-> IF i = l - 1 THEN n ELSE b[i]]
  PROVE  /\ Ends(d, l - 1, n) /\ FallsWeakly(d, l - 1)
         /\ \A i \in 0 .. l - 2 : d[i] = b[i]
         /\ d[l - 1] = n /\ Size(d, l - 1) = 2 * Size(b, l)
<1>1. (\A i \in 0 .. l - 2 : d[i] = b[i]) /\ d[l - 1] = n /\ n \in Nat
  <2>1. \A i \in 0 .. l - 2 : i \in 0 .. l - 1 /\ i # l - 1
    OBVIOUS
  <2> QED
    BY <2>1, SizesAre
<1>2. \A i \in 1 .. l - 2 : Size(d, i) = Size(b, i)
  <2>1. \A i \in 1 .. l - 2 : i \in 0 .. l - 2 /\ i - 1 \in 0 .. l - 2
    OBVIOUS
  <2> QED
    BY <1>1, <2>1 DEF Size
<1>3. Size(d, l - 1) = 2 * Size(b, l)
  <2>1. (l - 1) - 1 = l - 2 /\ l - 2 \in 0 .. l - 2 /\ l \in 1 .. l /\ l - 1 \in 1 .. l
    OBVIOUS
  <2>2. /\ b[l] = b[l - 1] + Size(b, l) /\ b[l - 1] = b[l - 2] + Size(b, l - 1)
        /\ b[l - 2] \in Nat /\ b[l - 1] \in Nat /\ b[l] = n
        /\ Size(b, l) \in Nat
    BY <2>1, SizesAre DEF Ends
  <2>3. Size(d, l - 1) = n - b[l - 2]
    BY <1>1, <2>1 DEF Size
  <2> QED
    BY <2>2, <2>3
<1>4. Ends(d, l - 1, n)
  <2>1. d \in [0 .. l - 1 -> Nat]
    <3>1. \A i \in 0 .. l - 1 : (IF i = l - 1 THEN n ELSE b[i]) \in Nat
      BY <1>1, SizesAre
    <3> QED
      BY <3>1
  <2>2. ASSUME NEW i \in 1 .. l - 1 PROVE Power(Size(d, i))
    <3>1. CASE i = l - 1
      <4>1. Power(Size(b, l))
        BY DEF Ends
      <4> QED
        BY <1>3, <3>1, <4>1, PowerDouble
    <3>2. CASE i # l - 1
      <4>1. i \in 1 .. l - 2 /\ i \in 1 .. l
        BY <3>2
      <4> QED
        BY <1>2, <4>1 DEF Ends
    <3> QED
      BY <3>1, <3>2
  <2>3. d[0] = 0
    <3>1. 0 \in 0 .. l - 2
      OBVIOUS
    <3> QED
      BY <1>1, <3>1 DEF Ends
  <2>4. l - 1 \in Nat
    OBVIOUS
  <2> QED
    BY <1>1, <2>1, <2>2, <2>3 DEF Ends
<1>5. FallsWeakly(d, l - 1)
  <2>1. ASSUME NEW i \in 1 .. l - 1, i + 1 <= l - 1
        PROVE  /\ Size(d, i + 1) <= Size(d, i)
               /\ i + 1 < l - 1 => Size(d, i + 1) < Size(d, i)
    <3>1. i \in 1 .. l - 2 /\ i \in 1 .. l /\ i + 1 \in 1 .. l /\ i + 1 < l
      BY <2>1
    <3>2. Size(d, i) = Size(b, i) /\ Size(b, i) \in Nat \ {0} /\ Size(b, i + 1) \in Nat \ {0}
      BY <1>2, <3>1, SizesAre
    <3>3. Size(b, i + 1) < Size(b, i)
      BY <3>1 DEF FallsWeakly
    <3>4. CASE i + 1 = l - 1
      <4>1. Power(Size(b, i)) /\ Power(Size(b, i + 1))
        BY <3>1 DEF Ends
      <4>2. 2 * Size(b, i + 1) <= Size(b, i)
        BY <3>3, <4>1, PowersApart
      <4>3. Size(d, i + 1) = 2 * Size(b, i + 1)
        BY <1>3, <3>4
      <4> QED
        BY <3>2, <3>4, <4>2, <4>3
    <3>5. CASE i + 1 # l - 1
      <4>1. i + 1 \in 1 .. l - 2
        BY <2>1, <3>5
      <4>2. Size(d, i + 1) = Size(b, i + 1)
        BY <1>2, <4>1
      <4> QED
        BY <3>2, <3>3, <4>2
    <3> QED
      BY <3>4, <3>5
  <2> QED
    BY <2>1 DEF FallsWeakly
<1> QED
  BY <1>1, <1>3, <1>4, <1>5

-----------------------------------------------------------------------------
(* BLAKE3, the state: what is in the present chunk.                        *)

CL == Tree!CHUNK_LEN

LEMMA ChunkSizes ==
  ASSUME Tree!Blake3Assumption
  PROVE  /\ BLOCK_LEN \in Nat \ {0} /\ WORD \in Nat \ {0} /\ BLOCKS \in Nat \ {0}
         /\ CL \in Nat \ {0} /\ BLOCK_LEN <= CL /\ DEPTH \in Nat \ {0}
         /\ \A k \in Nat : /\ BLOCK_LEN * k \in Nat /\ BLOCK_LEN * k = k * BLOCK_LEN
                           /\ BLOCK_LEN * (k + 1) = BLOCK_LEN * k + BLOCK_LEN
                           /\ k < BLOCKS => BLOCK_LEN * k + BLOCK_LEN <= CL
                           /\ k + 1 = BLOCKS => BLOCK_LEN * k + BLOCK_LEN = CL
                           /\ k + 1 < BLOCKS => BLOCK_LEN * k + BLOCK_LEN + BLOCK_LEN <= CL
         /\ \A k \in Nat : k * CL \in Nat /\ (k + 1) * CL = k * CL + CL
<1>1. BLOCK_LEN \in Nat \ {0} /\ WORD \in Nat \ {0} /\ BLOCKS \in Nat \ {0} /\ DEPTH \in Nat \ {0}
  BY DEF Tree!Blake3Assumption
<1>2. CL = BLOCKS * BLOCK_LEN /\ CL = BLOCK_LEN * BLOCKS /\ CL \in Nat
  BY <1>1, NextMultiple DEF CL, Tree!CHUNK_LEN
<1>3. ASSUME NEW k \in Nat
      PROVE  /\ BLOCK_LEN * k \in Nat /\ BLOCK_LEN * k = k * BLOCK_LEN
             /\ BLOCK_LEN * (k + 1) = BLOCK_LEN * k + BLOCK_LEN
  <2>1. /\ k * BLOCK_LEN \in Nat /\ (k + 1) * BLOCK_LEN = k * BLOCK_LEN + BLOCK_LEN
        /\ k * BLOCK_LEN = BLOCK_LEN * k
    BY <1>1, NextMultiple
  <2>2. (k + 1) * BLOCK_LEN = BLOCK_LEN * (k + 1)
    BY <1>1, k + 1 \in Nat, NextMultiple
  <2> QED
    BY <2>1, <2>2
<1>4. ASSUME NEW k \in Nat, k < BLOCKS PROVE BLOCK_LEN * k + BLOCK_LEN <= CL
  BY <1>1, <1>2, <1>4, MultipleGrows
<1>5. ASSUME NEW k \in Nat, k + 1 = BLOCKS PROVE BLOCK_LEN * k + BLOCK_LEN = CL
  BY <1>2, <1>3, <1>5
<1>6. ASSUME NEW k \in Nat, k + 1 < BLOCKS
      PROVE  BLOCK_LEN * k + BLOCK_LEN + BLOCK_LEN <= CL
  <2>1. k + 1 \in Nat /\ BLOCK_LEN * (k + 1) + BLOCK_LEN <= CL
    BY <1>4, <1>6
  <2> QED
    BY <1>3, <2>1
<1>7. BLOCK_LEN <= CL
  <2>1. BLOCK_LEN * 0 + BLOCK_LEN <= CL
    BY <1>1, <1>4
  <2> QED
    BY <1>1, <2>1
<1>8. CL \in Nat \ {0}
  BY <1>1, <1>2, <1>7
<1>9. \A k \in Nat : k * CL \in Nat /\ (k + 1) * CL = k * CL + CL
  BY <1>2, NextMultiple
<1> QED
  BY <1>1, <1>3, <1>4, <1>5, <1>6, <1>7, <1>8, <1>9

(* The bytes of the chunk so far.                                          *)
Filled == Tree!ChunkLength

(* The bytes of a message before number n are in the chunks before this    *)
(* one and in this one, whose blocks are compressed but for the last.      *)
InChunk ==
  /\ c_given - c_rest = c_chunk_counter * CL + Filled
  /\ c_buf = [j \in 1 .. BLOCK_LEN |->
                IF j <= c_buf_len
                THEN Tree!MessageByte(c_chunk_counter * CL
                                        + BLOCK_LEN * c_blocks_compressed + j)
                ELSE 0]
  /\ c_chaining_value = Tree!ChunkPrefix(c_key_words, c_flags, c_chunk_counter,
                                         c_blocks_compressed)
(* The last block of a chunk is kept back, and so is the last chunk.       *)
Whole == /\ c_blocks_compressed > 0 => c_buf_len > 0
         /\ c_chunk_counter > 0 => Filled > 0

LEMMA FilledIs ==
  ASSUME Tree!Blake3Assumption, c_buf_len \in 0 .. BLOCK_LEN,
         c_blocks_compressed \in 0 .. BLOCKS - 1
  PROVE  /\ Filled = BLOCK_LEN * c_blocks_compressed + c_buf_len
         /\ BLOCK_LEN * c_blocks_compressed \in Nat
         /\ Filled \in 0 .. CL
         /\ Filled = CL => c_buf_len = BLOCK_LEN /\ c_blocks_compressed = BLOCKS - 1
<1>1. c_blocks_compressed \in Nat /\ c_blocks_compressed < BLOCKS
  BY ChunkSizes
<1>2. PICK n \in Nat : n = BLOCK_LEN * c_blocks_compressed
  BY <1>1, ChunkSizes
<1>3. Filled = n + c_buf_len /\ n + BLOCK_LEN <= CL
  BY <1>1, <1>2, ChunkSizes DEF Filled, Tree!ChunkLength
<1>4. c_blocks_compressed + 1 < BLOCKS => n + BLOCK_LEN + BLOCK_LEN <= CL
  BY <1>1, <1>2, ChunkSizes
<1>5. BLOCK_LEN \in Nat \ {0} /\ CL \in Nat /\ BLOCKS \in Nat
  BY ChunkSizes
<1>6. Filled \in 0 .. CL
  BY <1>3, <1>5
<1>7. ASSUME Filled = CL
      PROVE  c_buf_len = BLOCK_LEN /\ c_blocks_compressed = BLOCKS - 1
  <2>1. c_buf_len = BLOCK_LEN /\ ~ (c_blocks_compressed + 1 < BLOCKS)
    BY <1>3, <1>4, <1>5, <1>7
  <2> QED
    BY <1>1, <1>5, <2>1
<1> QED
  BY <1>2, <1>3, <1>6, <1>7

(* The output of a chunk is that of the reference's chunk.                 *)
LEMMA ChunkIsNode ==
  ASSUME Tree!Blake3Assumption, c_buf_len \in 0 .. BLOCK_LEN,
         c_blocks_compressed \in 0 .. BLOCKS - 1, c_chunk_counter \in Nat, InChunk,
         c_blocks_compressed > 0 => c_buf_len > 0,
         NEW n \in Nat,
         Tree!LesserOf(CL, n - c_chunk_counter * CL) = Filled
  PROVE  Tree!ChunkOutput = Tree!ChunkNode(c_key_words, c_flags, c_chunk_counter, n)
<1> DEFINE start == c_chunk_counter * CL
           done  == BLOCK_LEN * c_blocks_compressed
           last  == IF Filled = 0 THEN 0 ELSE (Filled - 1) \div BLOCK_LEN
           padded == Tree!CeilDiv(c_buf_len, WORD) * WORD
<1>1. /\ BLOCK_LEN \in Nat \ {0} /\ WORD \in Nat \ {0} /\ start \in Nat /\ done \in Nat
      /\ done = c_blocks_compressed * BLOCK_LEN
      /\ Filled = done + c_buf_len
      /\ c_blocks_compressed \in Nat
  BY FilledIs, ChunkSizes
<1>2. last = c_blocks_compressed
  <2>1. CASE c_buf_len = 0
    <3>1. c_blocks_compressed = 0 /\ BLOCK_LEN * 0 = 0
      BY <1>1, <2>1
    <3> QED
      BY <1>1, <2>1, <3>1
  <2>2. CASE c_buf_len # 0
    <3>m. PICK m \in Nat \ {0} : m = BLOCK_LEN
      BY <1>1
    <3>1. PICK q \in Nat, j \in 0 .. m - 1 :
            m = BLOCK_LEN /\ q = c_blocks_compressed /\ j = c_buf_len - 1
      BY <1>1, <2>2, <3>m
    <3>2. (m * q + j) \div m = q
      BY QuotientUnique
    <3>3. Filled # 0 /\ Filled - 1 = m * q + j
      <4>1. PICK d \in Nat : d = done
        BY <1>1
      <4>2. Filled # 0 /\ Filled - 1 = d + j
        BY <1>1, <2>2, <3>1, <4>1
      <4> QED
        BY <3>1, <4>1, <4>2
    <3> QED
      BY <3>1, <3>2, <3>3
  <2> QED
    BY <2>1, <2>2
<1>3. last * BLOCK_LEN = done /\ Filled - last * BLOCK_LEN = c_buf_len
  <2>1. last * BLOCK_LEN = done
    BY <1>1, <1>2
  <2> HIDE DEF done, last
  <2> QED
    BY <1>1, <2>1
<1>4. padded \in Nat /\ padded >= c_buf_len
  <2>1. PICK m \in Nat \ {0} : m = WORD
    BY <1>1
  <2>2. PICK x \in Nat : x = c_buf_len + m - 1
    <3>1. c_buf_len + m - 1 = c_buf_len + (m - 1) /\ m - 1 \in Nat
      OBVIOUS
    <3> QED
      BY <3>1
  <2>3. x = m * (x \div m) + (x % m) /\ x % m \in 0 .. m - 1 /\ x \div m \in Nat
    BY Division
  <2>4. PICK y \in Nat : y = m * (x \div m)
    BY <2>3
  <2>5. y >= c_buf_len
    <3>1. c_buf_len + (m - 1) = y + (x % m)
      BY <2>2, <2>3, <2>4
    <3> QED
      BY <2>3, <3>1
  <2>6. padded = (x \div m) * m
    BY <2>1, <2>2 DEF Tree!CeilDiv
  <2>7. (x \div m) * m = m * (x \div m)
    BY <2>3, NextMultiple
  <2> QED
    BY <2>4, <2>5, <2>6, <2>7
<1> DEFINE mine   == [j \in 1 .. BLOCK_LEN |-> IF j <= padded THEN c_buf[j] ELSE 0]
           theirs == [j \in 1 .. BLOCK_LEN |->
                        IF j <= c_buf_len THEN Tree!MessageByte(start + done + j) ELSE 0]
<1>5. mine = theirs
  <2> HIDE DEF padded, start, done
  <2>1. \A j \in 1 .. BLOCK_LEN :
          c_buf[j] = IF j <= c_buf_len THEN Tree!MessageByte(start + done + j) ELSE 0
    BY DEF InChunk, start, done
  <2>2. \A j \in 1 .. BLOCK_LEN : j <= c_buf_len => j <= padded
    BY <1>1, <1>4
  <2> QED
    BY <2>1, <2>2
<1>6. Tree!ChunkOutput
        = Tree!Node(c_chaining_value, mine, c_chunk_counter, c_buf_len,
                    c_flags \cup Tree!StartFlag \cup {"CHUNK_END"})
  BY DEF Tree!ChunkOutput
<1>7. Tree!ChunkNode(c_key_words, c_flags, c_chunk_counter, n)
        = Tree!Node(Tree!ChunkPrefix(c_key_words, c_flags, c_chunk_counter, last),
                    [j \in 1 .. BLOCK_LEN |->
                       IF j <= Filled - last * BLOCK_LEN
                       THEN Tree!MessageByte(start + last * BLOCK_LEN + j) ELSE 0],
                    c_chunk_counter, Filled - last * BLOCK_LEN,
                    c_flags \cup {"CHUNK_END"}
                      \cup (IF last = 0 THEN {"CHUNK_START"} ELSE {}))
  BY DEF Tree!ChunkNode, CL
<1>8. c_flags \cup Tree!StartFlag \cup {"CHUNK_END"}
        = c_flags \cup {"CHUNK_END"} \cup (IF last = 0 THEN {"CHUNK_START"} ELSE {})
  <2> HIDE DEF last
  <2> QED
    BY <1>2 DEF Tree!StartFlag
<1>9. c_chaining_value = Tree!ChunkPrefix(c_key_words, c_flags, c_chunk_counter, last)
  <2> HIDE DEF last
  <2> QED
    BY <1>2 DEF InChunk
<1>10. [j \in 1 .. BLOCK_LEN |->
                       IF j <= Filled - last * BLOCK_LEN
                       THEN Tree!MessageByte(start + last * BLOCK_LEN + j) ELSE 0]
         = theirs
  <2> HIDE DEF last, done, start
  <2> QED
    BY <1>3
<1> HIDE DEF mine, theirs, last, done, start
<1> QED
  BY <1>3, <1>5, <1>6, <1>7, <1>8, <1>9, <1>10

(* How many chunks a message has.                                          *)
LEMMA ChunksAre ==
  ASSUME Tree!Blake3Assumption, NEW k \in Nat, NEW x \in 0 .. CL, k > 0 => x > 0
  PROVE  Tree!Chunks(k * CL + x) = k + 1
<1>1. PICK m \in Nat \ {0} : m = CL
  BY ChunkSizes
<1>2. CASE x = 0
  <2>1. k = 0 /\ k * CL + x = 0
    BY <1>1, <1>2
  <2> QED
    BY <2>1 DEF Tree!Chunks
<1>3. CASE x # 0
  <2>1. x - 1 \in 0 .. m - 1 /\ k + 1 \in Nat
    BY <1>1, <1>3
  <2>2. ((k + 1) * m + (x - 1)) \div m = k + 1
    BY <2>1, DivisionUnique
  <2>3. PICK d \in Nat : d = k * m
    BY NextMultiple
  <2>4. (k + 1) * m = d + m
    BY <2>3, NextMultiple
  <2>5. d + x # 0 /\ (d + x) + m - 1 = (d + m) + (x - 1)
    BY <1>1, <1>3
  <2>6. Tree!CeilDiv(d + x, m) = k + 1
    <3>1. Tree!CeilDiv(d + x, m) = ((d + x) + m - 1) \div m
      BY DEF Tree!CeilDiv
    <3> QED
      BY <2>2, <2>4, <2>5, <3>1
  <2> QED
    BY <1>1, <2>3, <2>5, <2>6 DEF Tree!Chunks, CL
<1> QED
  BY <1>2, <1>3

LEMMA ChunksAbove ==
  ASSUME Tree!Blake3Assumption, NEW k \in Nat, NEW n \in Nat, n > k * CL
  PROVE  Tree!Chunks(n) > k
<1>1. PICK m \in Nat \ {0} : m = CL
  BY ChunkSizes
<1>2. PICK d \in Nat : d = k * m
  BY NextMultiple
<1>3. n > d /\ n # 0
  BY <1>1, <1>2
<1>4. PICK x \in Nat : x = n + m - 1
  <2>1. n + m - 1 = n + (m - 1) /\ m - 1 \in Nat
    OBVIOUS
  <2> QED
    BY <2>1
<1>5. x = m * (x \div m) + (x % m) /\ x % m \in 0 .. m - 1 /\ x \div m \in Nat
  BY Division
<1>6. PICK q \in Nat : q = x \div m
  BY <1>5
<1>7. ASSUME q <= k PROVE FALSE
  <2>1. PICK e \in Nat : e = m * q
    BY <1>6
  <2>2. e <= d
    <3>1. CASE q = k
      <4>1. k * m = m * k
        BY NextMultiple
      <4> QED
        BY <1>2, <2>1, <3>1, <4>1
    <3>2. CASE q # k
      <4>1. q < k
        BY <1>7, <3>2
      <4>2. m * q + m <= m * k /\ m * k \in Nat /\ k * m = m * k
        BY <4>1, MultipleGrows, NextMultiple
      <4> QED
        BY <1>2, <2>1, <4>2
    <3> QED
      BY <3>1, <3>2
  <2>3. n + (m - 1) = e + (x % m)
    BY <1>4, <1>5, <1>6, <2>1
  <2> QED
    BY <1>3, <1>5, <2>2, <2>3
<1>8. Tree!Chunks(n) = q
  <2>1. Tree!Chunks(n) = (n + m - 1) \div m
    BY <1>1, <1>3 DEF Tree!Chunks, Tree!CeilDiv, CL
  <2> QED
    BY <1>4, <1>6, <2>1
<1> QED
  BY <1>7, <1>8

(* A stack of l subtrees has at least 2 ^ l - 1 chunks.                    *)
LEMMA PowersCount ==
  ASSUME Tree!Blake3Assumption, NEW b, NEW n, Ends(b, DEPTH, n), Falls(b, DEPTH)
  PROVE  2 ^ DEPTH \in Nat /\ 2 ^ DEPTH <= n + 1
<1>d. DEPTH \in Nat \ {0} /\ 2 ^ 0 = 1
  BY ChunkSizes
<1> DEFINE S == {i \in Nat : i <= DEPTH => /\ 2 ^ i \in Nat
                                           /\ 2 ^ i <= (n - b[DEPTH - i]) + 1}
<1>1. ASSUME NEW i \in Nat, \A j \in Nat : j < i => j \in S PROVE i \in S
  <2> SUFFICES ASSUME i <= DEPTH
               PROVE  2 ^ i \in Nat /\ 2 ^ i <= (n - b[DEPTH - i]) + 1
    OBVIOUS
  <2>1. CASE i = 0
    <3>1. DEPTH - i = DEPTH /\ b[DEPTH] = n /\ n \in Nat
      BY <1>d, <2>1, SizesAre DEF Ends
    <3> QED
      BY <1>d, <2>1, <3>1
  <2>2. CASE i # 0
    <3>1. PICK k \in 1 .. DEPTH : k = DEPTH - (i - 1) /\ k - 1 = DEPTH - i
      BY <1>d, <2>2
    <3>2. i - 1 \in Nat /\ i - 1 < i /\ i - 1 <= DEPTH /\ i \in 1 .. DEPTH
      BY <1>d, <2>2
    <3>3. PICK w \in Nat : w = 2 ^ (i - 1) /\ w <= (n - b[k]) + 1
      BY <1>1, <3>1, <3>2
    <3>4. 2 ^ i = 2 * w
      BY <3>2, <3>3 DEF Tree!Blake3Assumption
    <3>5. n - b[k] \in Nat /\ n - b[k] < Size(b, k)
      BY <1>d, TailSmall
    <3>6. /\ b[k] = b[k - 1] + Size(b, k) /\ Size(b, k) \in Nat /\ b[k - 1] \in Nat
          /\ n \in Nat
      BY <1>d, SizesAre
    <3>7. 2 * w <= (n - b[k - 1]) + 1
      BY <3>3, <3>5, <3>6
    <3> QED
      BY <3>1, <3>4, <3>7
  <2> QED
    BY <2>1, <2>2
<1>2. \A i \in Nat : i \in S
  <2> HIDE DEF S
  <2> QED
    BY <1>1, SetInduction
<1>3. DEPTH \in S /\ DEPTH - DEPTH = 0 /\ b[0] = 0 /\ n \in Nat /\ n - 0 = n
  BY <1>d, <1>2, SizesAre DEF Ends
<1> QED
  BY <1>3

-----------------------------------------------------------------------------
(* BLAKE3, the stack.                                                      *)

IsStack(s) == \E T : s \in Seq(T)

(* An entry is the root of the chunks that it covers, of every message     *)
(* that has these chunks and maybe more.                                   *)
Covers(b, s, key, fl) ==
  \A i \in 1 .. Len(s) : \A m \in Nat :
    m >= b[i] * CL =>
      s[i] = Tree!ChainingValue(Tree!TreeNode(key, fl, b[i - 1], Size(b, i), m))

(* The stack s covers n chunks: between two chunks, while subtrees are     *)
(* being merged, and while the stack above entry k is folded into a node.  *)
Grown(n, s, key, fl) ==
  \E b : Ends(b, Len(s), n) /\ Falls(b, Len(s)) /\ Covers(b, s, key, fl)
Growing(n, s, key, fl) ==
  \E b : Ends(b, Len(s), n) /\ FallsWeakly(b, Len(s)) /\ Covers(b, s, key, fl)
Folded(n, s, key, fl, node, k, given) ==
  \E b : /\ Ends(b, Len(s), n) /\ Falls(b, Len(s)) /\ Covers(b, s, key, fl)
         /\ node = Tree!TreeNode(key, fl, b[k], (n + 1) - b[k], given)

LEMMA StackAppend ==
  ASSUME NEW q, IsStack(q), NEW e
  PROVE  /\ IsStack(Append(q, e)) /\ Len(q) \in Nat
         /\ Len(Append(q, e)) = Len(q) + 1
         /\ \A i \in 1 .. Len(q) : Append(q, e)[i] = q[i]
         /\ Append(q, e)[Len(q) + 1] = e
<1>1. PICK T : q \in Seq(T)
  BY DEF IsStack
<1>2. q \in Seq(T \cup {e}) /\ e \in T \cup {e}
  BY <1>1
<1>3. Append(q, e) \in Seq(T \cup {e})
  BY <1>2
<1> QED
  BY <1>2, <1>3 DEF IsStack

LEMMA StackCut ==
  ASSUME NEW q, IsStack(q), NEW k \in 0 .. Len(q)
  PROVE  /\ IsStack(SubSeq(q, 1, k)) /\ Len(SubSeq(q, 1, k)) = k
         /\ \A i \in 1 .. k : SubSeq(q, 1, k)[i] = q[i]
<1>1. PICK T : q \in Seq(T)
  BY DEF IsStack
<1>2. SubSeq(q, 1, k) \in Seq(T) /\ Len(SubSeq(q, 1, k)) = k
  BY <1>1
<1>3. \A i \in 1 .. k : SubSeq(q, 1, k)[i] = q[i]
  BY <1>1
<1> QED
  BY <1>2, <1>3 DEF IsStack

LEMMA StackEmpty ==
  ASSUME NEW key, NEW fl
  PROVE  IsStack(<<>>) /\ Len(<<>>) = 0 /\ Grown(0, <<>>, key, fl)
<1>1. <<>> \in Seq({}) /\ Len(<<>>) = 0 /\ 1 .. 0 = {}
  OBVIOUS
<1> DEFINE b == [i \in 0 .. 0 |-> 0]
<1>2. b \in [0 .. 0 -> Nat] /\ b[0] = 0
  OBVIOUS
<1> HIDE DEF b
<1>3. Ends(b, 0, 0) /\ Falls(b, 0) /\ Covers(b, <<>>, key, fl)
  BY <1>1, <1>2 DEF Ends, Falls, Covers
<1> QED
  BY <1>1, <1>3 DEF IsStack, Grown

LEMMA StackPushed ==
  ASSUME Tree!Blake3Assumption, NEW n \in Nat, NEW s, IsStack(s), NEW key, NEW fl,
         Grown(n, s, key, fl), NEW e,
         \A m \in Nat : m >= (n + 1) * CL =>
           e = Tree!ChainingValue(Tree!TreeNode(key, fl, n, 1, m))
  PROVE  Growing(n + 1, Append(s, e), key, fl)
<1>1. PICK b : Ends(b, Len(s), n) /\ Falls(b, Len(s)) /\ Covers(b, s, key, fl)
  BY DEF Grown
<1> DEFINE l == Len(s)
           d == [i \in 0 .. l + 1 |-> IF i <= l THEN b[i] ELSE n + 1]
           t == Append(s, e)
<1>2. /\ l \in Nat /\ Len(t) = l + 1 /\ \A i \in 1 .. l : t[i] = s[i]
      /\ t[l + 1] = e
  BY StackAppend
<1>3. /\ Ends(d, l + 1, n + 1) /\ FallsWeakly(d, l + 1)
      /\ \A i \in 0 .. l : d[i] = b[i]
      /\ d[l + 1] = n + 1
  <2> HIDE DEF d
  <2>1. d = [i \in 0 .. l + 1 |-> IF i <= l THEN b[i] ELSE n + 1]
    BY DEF d
  <2> HIDE DEF l
  <2> QED
    BY <1>1, <1>2, <2>1, EndsPushed DEF l
<1> HIDE DEF l, d, t
<1>4. ASSUME NEW i \in 1 .. l + 1, NEW m \in Nat, m >= d[i] * CL
      PROVE  t[i] = Tree!ChainingValue(Tree!TreeNode(key, fl, d[i - 1], Size(d, i), m))
  <2>1. CASE i = l + 1
    <3>1. i - 1 = l /\ l \in 0 .. l /\ b[l] = n
      BY <1>1, <1>2, <2>1 DEF Ends, l
    <3>2. d[i - 1] = n /\ d[i] = n + 1
      BY <1>3, <2>1, <3>1
    <3>3. Size(d, i) = 1
      BY <3>2 DEF Size
    <3> QED
      BY <1>2, <1>4, <2>1, <3>2, <3>3
  <2>2. CASE i # l + 1
    <3>1. i \in 1 .. l /\ i \in 0 .. l /\ i - 1 \in 0 .. l
      BY <1>2, <2>2
    <3>2. d[i] = b[i] /\ d[i - 1] = b[i - 1] /\ Size(d, i) = Size(b, i)
      BY <1>3, <3>1 DEF Size
    <3> QED
      BY <1>1, <1>2, <1>4, <3>1, <3>2 DEF Covers, l
  <2> QED
    BY <2>1, <2>2
<1>5. Covers(d, t, key, fl)
  BY <1>2, <1>4 DEF Covers
<1> QED
  BY <1>2, <1>3, <1>5 DEF Growing, t

LEMMA StackMerged ==
  ASSUME Tree!Blake3Assumption, NEW n \in Nat, NEW s, IsStack(s), NEW key, NEW fl,
         Growing(n, s, key, fl), Len(s) > Ones(n), NEW e,
         e = Tree!ChainingValue(Tree!ParentOutput(s[Len(s) - 1], s[Len(s)], key, fl))
  PROVE  /\ Len(s) >= 2
         /\ Growing(n, Append(SubSeq(s, 1, Len(s) - 2), e), key, fl)
<1>1. PICK b : Ends(b, Len(s), n) /\ FallsWeakly(b, Len(s)) /\ Covers(b, s, key, fl)
  BY DEF Growing
<1>2. PICK l \in Nat : l = Len(s)
  <2>1. Len(s) \in Nat
    BY DEF IsStack
  <2> QED
    BY <2>1
<1>3. l >= 2 /\ Size(b, l) = Size(b, l - 1)
  BY <1>1, <1>2, MergesAlike
<1> DEFINE d == [i \in 0 .. l - 1 |-> IF i = l - 1 THEN n ELSE b[i]]
           u == SubSeq(s, 1, l - 2)
           t == Append(u, e)
<1>4. /\ Ends(d, l - 1, n) /\ FallsWeakly(d, l - 1)
      /\ \A i \in 0 .. l - 2 : d[i] = b[i]
      /\ d[l - 1] = n /\ Size(d, l - 1) = 2 * Size(b, l)
  <2> HIDE DEF d
  <2>1. d = [i \in 0 .. l - 1 |-> IF i = l - 1 THEN n ELSE b[i]]
    BY DEF d
  <2> QED
    BY <1>1, <1>2, <1>3, <2>1, EndsMerged
<1>5. IsStack(u) /\ Len(u) = l - 2 /\ \A i \in 1 .. l - 2 : u[i] = s[i]
  <2>1. l - 2 \in 0 .. Len(s)
    BY <1>2, <1>3
  <2> QED
    BY <2>1, StackCut
<1> HIDE DEF d, u
<1>6. Len(t) = l - 1 /\ (\A i \in 1 .. l - 2 : t[i] = s[i]) /\ t[l - 1] = e
  <2>1. /\ Len(t) = Len(u) + 1 /\ (\A i \in 1 .. Len(u) : t[i] = u[i])
        /\ t[Len(u) + 1] = e
    BY <1>5, StackAppend
  <2>2. Len(u) + 1 = l - 1
    BY <1>3, <1>5
  <2> HIDE DEF t
  <2> QED
    BY <1>5, <2>1, <2>2
<1> HIDE DEF t
<1>7. ASSUME NEW i \in 1 .. l - 1, NEW m \in Nat, m >= d[i] * CL
      PROVE  t[i] = Tree!ChainingValue(Tree!TreeNode(key, fl, d[i - 1], Size(d, i), m))
  <2>1. CASE i = l - 1
    <3>1. /\ l \in 1 .. l /\ l - 1 \in 1 .. l /\ (l - 1) - 1 = l - 2
          /\ l - 2 \in 0 .. l - 2
      BY <1>3
    <3>2. PICK p, lo \in Nat : p = Size(b, l) /\ lo = b[l - 2] /\ p \in Nat \ {0}
      <4>1. Size(b, l) \in Nat \ {0} /\ b[l - 2] \in Nat
        BY <1>1, <1>2, <3>1, SizesAre
      <4> QED
        BY <4>1
    <3>3. /\ b[l - 1] = lo + p /\ n = (lo + p) + p /\ b[l] = n
      <4>1. b[l] = n
        BY <1>1, <1>2 DEF Ends
      <4>2. b[l] = b[l - 1] + Size(b, l)
        BY <1>1, <1>2, <3>1, SizesAre
      <4>3. b[l - 1] = b[(l - 1) - 1] + Size(b, l - 1)
        BY <1>1, <1>2, <3>1, SizesAre
      <4>4. b[l - 1] = lo + p
        BY <1>3, <3>1, <3>2, <4>3
      <4> QED
        BY <3>2, <4>1, <4>2, <4>4
    <3>4. m >= b[l] * CL /\ m >= b[l - 1] * CL
      <4>1. d[i] = n
        BY <1>4, <2>1
      <4>2. lo + p \in Nat /\ lo + p < n
        BY <3>2, <3>3
      <4>3. PICK c \in Nat : c = CL
        BY ChunkSizes
      <4>4. c * (lo + p) + c <= c * n /\ c * n \in Nat /\ c * (lo + p) \in Nat
        BY <4>2, <4>3, MultipleGrows
      <4>5. c * n = n * c /\ c * (lo + p) = (lo + p) * c
        BY <4>2, <4>3, NextMultiple
      <4>6. m >= n * c
        BY <1>7, <4>1, <4>3
      <4>7. m >= (lo + p) * c
        BY <4>3, <4>4, <4>5, <4>6
      <4> QED
        BY <3>3, <4>3, <4>6, <4>7
    <3>5. /\ s[l] = Tree!ChainingValue(Tree!TreeNode(key, fl, lo + p, p, m))
          /\ s[l - 1] = Tree!ChainingValue(Tree!TreeNode(key, fl, lo, p, m))
      <4>1. s[l] = Tree!ChainingValue(Tree!TreeNode(key, fl, b[l - 1], Size(b, l), m))
        BY <1>1, <1>2, <3>1, <3>4 DEF Covers
      <4>2. s[l - 1]
              = Tree!ChainingValue(Tree!TreeNode(key, fl, b[l - 2], Size(b, l - 1), m))
        BY <1>1, <1>2, <3>1, <3>4 DEF Covers
      <4> QED
        BY <1>3, <3>2, <3>3, <4>1, <4>2
    <3>6. Tree!TreeNode(key, fl, lo, p + p, m)
            = Tree!ParentOutput(s[l - 1], s[l], key, fl)
      <4>1. Power(p)
        BY <1>1, <1>2, <3>1, <3>2 DEF Ends
      <4>2. 0 < p /\ p <= p
        BY <3>2
      <4> QED
        BY <3>2, <3>5, <4>1, <4>2, TreeOfTwo
    <3>7. d[i - 1] = lo /\ Size(d, i) = p + p
      <4>1. 2 * Size(b, l) = p + p
        BY <3>2
      <4> QED
        BY <1>4, <2>1, <3>1, <3>2, <4>1
    <3> QED
      BY <1>2, <1>6, <2>1, <3>6, <3>7
  <2>2. CASE i # l - 1
    <3>1. /\ i \in 1 .. l - 2 /\ i \in 0 .. l - 2 /\ i - 1 \in 0 .. l - 2
          /\ i \in 1 .. l
      BY <1>3, <2>2
    <3>2. d[i] = b[i] /\ d[i - 1] = b[i - 1] /\ Size(d, i) = Size(b, i)
      BY <1>4, <3>1 DEF Size
    <3> QED
      BY <1>1, <1>2, <1>6, <1>7, <3>1, <3>2 DEF Covers
  <2> QED
    BY <2>1, <2>2
<1>8. Covers(d, t, key, fl)
  BY <1>6, <1>7 DEF Covers
<1>9. Growing(n, t, key, fl)
  BY <1>4, <1>6, <1>8 DEF Growing
<1> QED
  BY <1>2, <1>3, <1>9 DEF t, u

LEMMA StackDone ==
  ASSUME NEW n \in Nat, NEW s, IsStack(s), NEW key, NEW fl,
         Growing(n, s, key, fl), Len(s) <= Ones(n)
  PROVE  Grown(n, s, key, fl)
<1>1. PICK b : Ends(b, Len(s), n) /\ FallsWeakly(b, Len(s)) /\ Covers(b, s, key, fl)
  BY DEF Growing
<1>2. Len(s) \in Nat
  BY DEF IsStack
<1>3. Falls(b, Len(s))
  BY <1>1, <1>2, MergesAlike
<1> QED
  BY <1>1, <1>3 DEF Grown

LEMMA StackFolded ==
  ASSUME Tree!Blake3Assumption, NEW n \in Nat, NEW s, IsStack(s), NEW key, NEW fl,
         NEW node, NEW given \in Nat, given >= n * CL, NEW k \in 1 .. Len(s),
         Folded(n, s, key, fl, node, k, given)
  PROVE  Folded(n, s, key, fl,
                Tree!ParentOutput(s[k], Tree!ChainingValue(node), key, fl),
                k - 1, given)
<1>1. PICK b : /\ Ends(b, Len(s), n) /\ Falls(b, Len(s)) /\ Covers(b, s, key, fl)
               /\ node = Tree!TreeNode(key, fl, b[k], (n + 1) - b[k], given)
  BY DEF Folded
<1>2. Len(s) \in Nat
  BY DEF IsStack
<1>3. PICK p, lo \in Nat : p = Size(b, k) /\ lo = b[k - 1] /\ p \in Nat \ {0}
  <2>1. Size(b, k) \in Nat \ {0} /\ b[k - 1] \in Nat
    BY <1>1, <1>2, SizesAre
  <2> QED
    BY <2>1
<1>4. b[k] = lo + p
  BY <1>1, <1>2, <1>3, SizesAre
<1>5. PICK y, z \in Nat : y = lo + p /\ n = y + z /\ z < p
  <2>1. lo + p \in Nat
    BY <1>3
  <2>2. n - (lo + p) \in Nat /\ n - (lo + p) < p
    BY <1>1, <1>2, <1>3, <1>4, TailSmall
  <2>3. n = (lo + p) + (n - (lo + p))
    BY <2>1
  <2> QED
    BY <2>1, <2>2, <2>3
<1>6. given >= b[k] * CL
  <2>1. PICK c \in Nat : c = CL
    BY ChunkSizes
  <2>2. CASE lo + p = n
    BY <1>4, <2>2
  <2>3. CASE lo + p # n
    <3>1. lo + p \in Nat /\ lo + p < n
      BY <1>5, <2>3
    <3>2. c * (lo + p) + c <= c * n /\ c * n \in Nat /\ c * (lo + p) \in Nat
      BY <3>1, MultipleGrows
    <3>3. c * n = n * c /\ c * (lo + p) = (lo + p) * c
      BY <3>1, NextMultiple
    <3>4. given >= n * c
      BY <2>1
    <3>5. given >= (lo + p) * c
      BY <3>2, <3>3, <3>4
    <3> QED
      BY <1>4, <2>1, <3>5
  <2> QED
    BY <2>2, <2>3
<1>7. s[k] = Tree!ChainingValue(Tree!TreeNode(key, fl, lo, p, given))
  BY <1>1, <1>3, <1>6 DEF Covers
<1>8. PICK x \in Nat : x = (n + 1) - (lo + p) /\ 0 < x /\ x <= p /\ x = z + 1
  <2>1. (n + 1) - y = z + 1
    BY <1>5
  <2>2. z + 1 \in Nat /\ 0 < z + 1 /\ z + 1 <= p
    BY <1>3, <1>5
  <2>3. (n + 1) - (lo + p) = z + 1
    BY <1>5, <2>1
  <2> QED
    BY <2>2, <2>3
<1>9. PICK size : size = p + x
  OBVIOUS
<1>10. Tree!TreeNode(key, fl, lo, size, given)
         = Tree!ParentOutput(s[k], Tree!ChainingValue(node), key, fl)
  <2>1. Power(p)
    BY <1>1, <1>3 DEF Ends
  <2>2. node = Tree!TreeNode(key, fl, y, x, given)
    BY <1>1, <1>4, <1>5, <1>8
  <2>3. Tree!TreeNode(key, fl, lo, size, given)
          = Tree!ParentOutput(
              Tree!ChainingValue(Tree!TreeNode(key, fl, lo, p, given)),
              Tree!ChainingValue(Tree!TreeNode(key, fl, y, x, given)), key, fl)
    BY <1>3, <1>5, <1>8, <1>9, <2>1, TreeOfParts
  <2> QED
    BY <1>7, <2>2, <2>3
<1>11. (n + 1) - lo = size
  <2>1. n = (lo + p) + z
    BY <1>5
  <2>2. (n + 1) - lo = p + (z + 1)
    BY <2>1
  <2> QED
    BY <1>8, <1>9, <2>2
<1> QED
  BY <1>1, <1>3, <1>10, <1>11 DEF Folded

-----------------------------------------------------------------------------
(* BLAKE3, the invariant.                                                  *)

Kinds ==
  /\ Tree!Blake3TypeOK /\ IsStack(c_cv_stack)
  /\ c_pc # "folding" => c_parent_nodes = 0
  /\ c_pc # "chunk" => c_part = 0

(* The chunk holds the bytes since its start, and no chunk is closed that  *)
(* may be the last one.                                                    *)
Chunking ==
  /\ c_pc \in {"open", "updating", "merging", "chunk", "folding"} => InChunk
  /\ c_pc \in {"open", "folding"} => c_rest = 0 /\ Whole
  /\ c_pc = "updating" => (c_rest = 0 => Whole)
  /\ c_pc = "merging" => c_rest > 0 /\ Filled = CL
  /\ c_pc = "chunk" => c_part + Filled <= CL /\ (c_part = 0 => c_buf_len > 0)

(* The stack holds the chunks before the present one; while it is merged,  *)
(* this one as well.                                                       *)
Stacked ==
  /\ c_pc \in {"open", "updating", "chunk"} =>
       Grown(c_chunk_counter, c_cv_stack, c_key_words, c_flags)
  /\ c_pc = "merging" =>
       Growing(c_chunk_counter + 1, c_cv_stack, c_key_words, c_flags)
  /\ c_pc = "folding" =>
       Folded(c_chunk_counter, c_cv_stack, c_key_words, c_flags, c_output,
              c_parent_nodes, c_given)

RootInv ==
  TreeInv /\ Kinds /\ Chunking /\ Stacked /\ Tree!RootIsTree /\ Tree!DepthSuffices

LEMMA RootFacts ==
  ASSUME Tree!Blake3Assumption, RootInv
  PROVE  /\ c_given \in Nat /\ c_rest \in Nat /\ c_rest <= c_given
         /\ c_part \in Nat /\ c_part <= c_rest /\ c_chunk_counter \in Nat
         /\ c_buf_len \in Nat /\ c_buf_len <= BLOCK_LEN /\ c_buf_len \in 0 .. BLOCK_LEN
         /\ c_blocks_compressed \in 0 .. BLOCKS - 1 /\ c_blocks_compressed \in Nat
         /\ Filled \in Nat /\ Filled <= CL /\ CL \in Nat \ {0}
         /\ Filled = BLOCK_LEN * c_blocks_compressed + c_buf_len
         /\ BLOCK_LEN * c_blocks_compressed \in Nat
         /\ Filled = CL => c_buf_len = BLOCK_LEN /\ c_blocks_compressed = BLOCKS - 1
         /\ Len(c_cv_stack) \in Nat /\ IsStack(c_cv_stack)
         /\ c_chunk_counter * CL \in Nat
         /\ (c_chunk_counter + 1) * CL = c_chunk_counter * CL + CL
<1>1. BLOCK_LEN \in Nat \ {0} /\ BLOCKS \in Nat \ {0} /\ CL \in Nat \ {0}
  BY ChunkSizes
<1>2. /\ c_given \in Nat /\ c_rest \in 0 .. c_given /\ c_part \in 0 .. c_rest
      /\ c_chunk_counter \in Nat /\ c_buf_len \in 0 .. BLOCK_LEN
      /\ c_blocks_compressed \in 0 .. BLOCKS - 1 /\ IsStack(c_cv_stack)
  BY DEF RootInv, Kinds, Tree!Blake3TypeOK
<1>3. Filled \in 0 .. CL
  BY <1>2, FilledIs
<1>4. /\ Filled = BLOCK_LEN * c_blocks_compressed + c_buf_len
      /\ BLOCK_LEN * c_blocks_compressed \in Nat
      /\ Filled = CL => c_buf_len = BLOCK_LEN /\ c_blocks_compressed = BLOCKS - 1
  BY <1>2, FilledIs
<1>5. Len(c_cv_stack) \in Nat
  BY <1>2 DEF IsStack
<1>6. c_chunk_counter * CL \in Nat
      /\ (c_chunk_counter + 1) * CL = c_chunk_counter * CL + CL
  BY <1>2, ChunkSizes
<1> HIDE DEF Filled
<1>7. /\ c_rest \in Nat /\ c_rest <= c_given /\ c_part \in Nat /\ c_part <= c_rest
      /\ c_buf_len \in Nat /\ c_buf_len <= BLOCK_LEN /\ c_blocks_compressed \in Nat
      /\ Filled \in Nat /\ Filled <= CL
  BY <1>1, <1>2, <1>3
<1> QED
  BY <1>1, <1>2, <1>4, <1>5, <1>6, <1>7

(* The chunk stands still.                                                 *)
LEMMA ChunkStands ==
  ASSUME UNCHANGED <<c_key_words, c_flags, c_chaining_value, c_chunk_counter, c_buf,
                     c_buf_len, c_blocks_compressed>>
  PROVE  /\ Filled' = Filled /\ (Whole <=> Whole')
         /\ c_given' - c_rest' = c_given - c_rest /\ InChunk => InChunk'
<1>1. Filled' = Filled
  BY DEF Filled, Tree!ChunkLength
<1>2. Whole <=> Whole'
  BY <1>1 DEF Whole
<1>3. c_given' - c_rest' = c_given - c_rest /\ InChunk => InChunk'
  BY <1>1 DEF InChunk
<1> QED
  BY <1>1, <1>2, <1>3

(* A new chunk.                                                            *)
LEMMA ChunkStarts ==
  ASSUME Tree!Blake3Assumption, NEW n \in Nat, NEW key, Tree!FreshChunk(n, key),
         c_key_words' = key
  PROVE  /\ Filled' = 0 /\ c_buf_len' = 0 /\ c_blocks_compressed' = 0
         /\ c_chunk_counter' = n /\ c_buf' \in [1 .. BLOCK_LEN -> Nat]
         /\ c_given' - c_rest' = n * CL => InChunk'
<1>1. /\ c_buf_len' = 0 /\ c_blocks_compressed' = 0 /\ c_chunk_counter' = n
      /\ c_buf' = [j \in 1 .. BLOCK_LEN |-> 0] /\ c_chaining_value' = key
  BY DEF Tree!FreshChunk, Tree!ZeroBlock
<1>2. BLOCK_LEN \in Nat /\ BLOCK_LEN * 0 = 0 /\ n * CL \in Nat
  BY ChunkSizes
<1>3. Filled' = 0
  BY <1>1, <1>2 DEF Filled, Tree!ChunkLength
<1>4. c_buf' \in [1 .. BLOCK_LEN -> Nat]
  BY <1>1
<1>5. ASSUME c_given' - c_rest' = n * CL PROVE InChunk'
  <2>1. c_given' - c_rest' = c_chunk_counter' * CL + Filled'
    BY <1>1, <1>2, <1>3, <1>5
  <2>2. \A j \in 1 .. BLOCK_LEN : ~ (j <= 0)
    OBVIOUS
  <2>3. c_buf' = [j \in 1 .. BLOCK_LEN |->
                    IF j <= c_buf_len'
                    THEN Tree!MessageByte(c_chunk_counter' * CL
                                          + BLOCK_LEN * c_blocks_compressed' + j)
                    ELSE 0]
    BY <1>1, <2>2
  <2>4. c_chaining_value' = Tree!ChunkPrefix(c_key_words', c_flags', c_chunk_counter',
                                             c_blocks_compressed')
    BY <1>1, ChunkPrefixStart
  <2> QED
    BY <2>1, <2>3, <2>4 DEF InChunk
<1> QED
  BY <1>1, <1>3, <1>4, <1>5

LEMMA RootFresh ==
  ASSUME Tree!Blake3Assumption, TreeInv',
         c_key_words' \in {Tree!IV, Tree!Key, Tree!ZeroWords},
         c_flags' \subseteq {"KEYED_HASH"},
         Tree!FreshChunk(0, c_key_words'),
         c_pc' = "open", c_cv_stack' = <<>>, c_rest' = 0, c_part' = 0, c_given' = 0,
         c_parent_nodes' = 0
  PROVE  RootInv'
<1>1. /\ IsStack(<<>>) /\ Len(<<>>) = 0
      /\ \A key, fl : Grown(0, <<>>, key, fl)
  BY StackEmpty
<1>2. 0 * CL = 0 /\ BLOCK_LEN \in Nat /\ BLOCKS \in Nat \ {0} /\ DEPTH \in Nat
  BY ChunkSizes
<1>3. /\ Filled' = 0 /\ c_buf_len' = 0 /\ c_blocks_compressed' = 0
      /\ c_chunk_counter' = 0 /\ c_buf' \in [1 .. BLOCK_LEN -> Nat] /\ InChunk'
  BY <1>2, ChunkStarts
<1>4. c_out' = <<>> /\ c_out_len' \in Nat
  BY DEF TreeInv
<1>5. Kinds'
  BY <1>1, <1>2, <1>3, <1>4 DEF Kinds, Tree!Blake3TypeOK
<1>6. Chunking'
  BY <1>3 DEF Chunking, Whole
<1>7. Stacked'
  BY <1>1, <1>3 DEF Stacked
<1> QED
  BY <1>5, <1>6, <1>7 DEF RootInv, Tree!RootIsTree, Tree!DepthSuffices

(* The object is wiped at its end.                                         *)
LEMMA RootWiped ==
  ASSUME Tree!Blake3Assumption, RootInv, TreeInv', Tree!Zeroed,
         c_pc' \in {"done", "error"},
         UNCHANGED <<c_rest, c_part, c_out, c_out_len, c_parent_nodes, c_given>>,
         c_parent_nodes = 0, c_part = 0
  PROVE  RootInv'
<1>1. IsStack(<<>>) /\ Len(<<>>) = 0
  BY StackEmpty
<1>2. BLOCK_LEN \in Nat /\ BLOCKS \in Nat \ {0} /\ DEPTH \in Nat
  BY ChunkSizes
<1>3. /\ c_buf_len' = 0 /\ c_blocks_compressed' = 0
      /\ c_chunk_counter' = 0 /\ c_buf' \in [1 .. BLOCK_LEN -> Nat]
  BY ChunkStarts DEF Tree!Zeroed
<1>4. Kinds'
  BY <1>1, <1>2, <1>3 DEF RootInv, Kinds, Tree!Blake3TypeOK, Tree!Zeroed
<1> QED
  BY <1>4 DEF RootInv, Chunking, Stacked, Tree!RootIsTree, Tree!DepthSuffices

LEMMA RootInit == Tree!Blake3Assumption /\ Tree!Init => RootInv
<1> SUFFICES ASSUME Tree!Blake3Assumption, Tree!Init PROVE RootInv
  OBVIOUS
<1>1. TreeInv
  BY TreeInit
<1>2. IsStack(<<>>) /\ Len(<<>>) = 0
  BY StackEmpty
<1>3. BLOCK_LEN \in Nat /\ BLOCKS \in Nat \ {0} /\ DEPTH \in Nat
  BY ChunkSizes
<1>4. c_buf \in [1 .. BLOCK_LEN -> Nat]
  BY DEF Tree!Init, Tree!ZeroBlock
<1>5. Kinds
  BY <1>2, <1>3, <1>4 DEF Kinds, Tree!Blake3TypeOK, Tree!Init
<1> QED
  BY <1>1, <1>5
  DEF RootInv, Chunking, Stacked, Tree!RootIsTree, Tree!DepthSuffices, Tree!Init

LEMMA RootNew ==
  ASSUME Tree!Blake3Assumption, TreeInv', NEW key \in {Tree!IV, Tree!Key},
         NEW fl \in SUBSET {"KEYED_HASH"}, Tree!New(key, fl)
  PROVE  RootInv'
<1>1. /\ c_pc' = "open" /\ c_key_words' = key /\ c_flags' = fl /\ c_cv_stack' = <<>>
      /\ Tree!FreshChunk(0, key) /\ c_rest' = 0 /\ c_part' = 0 /\ c_given' = 0
      /\ c_parent_nodes' = 0
  BY DEF Tree!New
<1>2. Tree!FreshChunk(0, c_key_words')
  BY <1>1
<1>3. /\ c_key_words' \in {Tree!IV, Tree!Key, Tree!ZeroWords}
      /\ c_flags' \subseteq {"KEYED_HASH"}
  BY <1>1
<1> QED
  BY <1>1, <1>2, <1>3, RootFresh

LEMMA RootWipe ==
  ASSUME Tree!Blake3Assumption, RootInv, TreeInv', Tree!Wipe
  PROVE  RootInv'
<1>1. c_pc = "open" /\ c_rest = 0 /\ c_part = 0 /\ c_parent_nodes = 0
  BY DEF Tree!Wipe, RootInv, Chunking, Kinds
<1>2. /\ c_pc' = "open" /\ c_key_words' = Tree!ZeroWords /\ c_flags' = {}
      /\ c_cv_stack' = <<>> /\ Tree!FreshChunk(0, Tree!ZeroWords)
      /\ c_rest' = 0 /\ c_part' = 0 /\ c_given' = 0 /\ c_parent_nodes' = 0
  BY <1>1 DEF Tree!Wipe, Tree!Zeroed, Tree!final
<1>3. Tree!FreshChunk(0, c_key_words')
  BY <1>2
<1>4. /\ c_key_words' \in {Tree!IV, Tree!Key, Tree!ZeroWords}
      /\ c_flags' \subseteq {"KEYED_HASH"}
  BY <1>2
<1> QED
  BY <1>2, <1>3, <1>4, RootFresh

LEMMA RootUpdate ==
  ASSUME Tree!Blake3Assumption, RootInv, TreeInv', NEW n \in TreeLens, Tree!Update(n)
  PROVE  RootInv'
<1>1. n \in Nat
  BY DEF Tree!Blake3Assumption
<1>2. c_pc = "open" /\ c_rest = 0 /\ c_part = 0 /\ InChunk /\ Whole /\ c_given \in Nat
  BY RootFacts DEF Tree!Update, RootInv, Chunking, Kinds
<1>3. c_given' - c_rest' = c_given - c_rest
  BY <1>1, <1>2 DEF Tree!Update
<1>4. InChunk' /\ Whole'
  BY <1>2, <1>3, ChunkStands DEF Tree!Update, Tree!keys, Tree!chunk_state
<1>5. Kinds'
  BY <1>1, <1>2
  DEF RootInv, Kinds, Tree!Blake3TypeOK, Tree!Update, Tree!keys, Tree!chunk_state,
      Tree!final
<1>6. Chunking'
  BY <1>4 DEF Chunking, Tree!Update
<1>7. Stacked'
  BY DEF RootInv, Stacked, Tree!Update, Tree!keys, Tree!chunk_state
<1> QED
  BY <1>5, <1>6, <1>7 DEF RootInv, Tree!RootIsTree, Tree!DepthSuffices, Tree!Update

(* The chunk is full, and it is not the last one.                          *)
LEMMA RootPushChunk ==
  ASSUME Tree!Blake3Assumption, RootInv, TreeInv', Tree!PushChunk
  PROVE  RootInv'
<1>1. /\ c_pc = "updating" /\ Filled = CL /\ c_rest > 0 /\ InChunk /\ c_part = 0
      /\ Grown(c_chunk_counter, c_cv_stack, c_key_words, c_flags)
      /\ UNCHANGED <<c_key_words, c_flags, c_chaining_value, c_chunk_counter, c_buf,
                     c_buf_len, c_blocks_compressed, c_given, c_rest, c_part, c_output,
                     c_parent_nodes, c_out_len, c_out>>
  BY DEF Tree!PushChunk, RootInv, Chunking, Kinds, Stacked, Tree!MustPush, Filled, CL,
         Tree!keys, Tree!chunk_state, Tree!final
<1>2. Len(c_cv_stack) \in 0 .. DEPTH /\ c_parent_nodes = 0
  BY <1>1 DEF RootInv, Kinds, Tree!Blake3TypeOK
<1>3. InChunk' /\ Filled' = Filled
  BY <1>1, ChunkStands
<1>4. CASE Len(c_cv_stack) < DEPTH
  <2>1. /\ c_cv_stack' = Append(c_cv_stack, Tree!ChainingValue(Tree!ChunkOutput))
        /\ c_pc' = "merging"
    BY <1>4 DEF Tree!PushChunk
  <2>2. ASSUME NEW m \in Nat, m >= (c_chunk_counter + 1) * CL
        PROVE  Tree!ChunkOutput
                 = Tree!TreeNode(c_key_words, c_flags, c_chunk_counter, 1, m)
    <3>1. PICK a \in Nat, c \in Nat : a = c_chunk_counter * CL /\ c = CL /\ m >= a + c
      BY <2>2, RootFacts
    <3>2. Tree!LesserOf(c, m - a) = c
      BY <3>1 DEF Tree!LesserOf
    <3>3. c_blocks_compressed > 0 => c_buf_len > 0
      BY <1>1, RootFacts, ChunkSizes
    <3>4. Tree!ChunkOutput = Tree!ChunkNode(c_key_words, c_flags, c_chunk_counter, m)
      BY <1>1, <3>1, <3>2, <3>3, RootFacts, ChunkIsNode
    <3> QED
      BY <3>4, RootFacts, TreeOfOne
  <2>3. Growing(c_chunk_counter + 1, c_cv_stack', c_key_words, c_flags)
    BY <1>1, <2>1, <2>2, RootFacts, StackPushed
  <2>4. IsStack(c_cv_stack') /\ Len(c_cv_stack') = Len(c_cv_stack) + 1
    BY <2>1, RootFacts, StackAppend
  <2>5. Kinds'
    <3>1. Len(c_cv_stack') \in 0 .. DEPTH
      <4>1. PICK l \in Nat : l = Len(c_cv_stack)
        BY RootFacts
      <4>2. l + 1 \in 0 .. DEPTH
        <5>1. PICK d \in Nat : d = DEPTH
          BY ChunkSizes
        <5> QED
          BY <1>4, <4>1, <5>1
      <4> QED
        BY <2>4, <4>1, <4>2
    <3> QED
      BY <1>1, <1>2, <2>1, <2>4, <3>1 DEF RootInv, Kinds, Tree!Blake3TypeOK
  <2>6. Chunking'
    BY <1>1, <1>3, <2>1 DEF Chunking
  <2>7. Stacked'
    BY <1>1, <2>1, <2>3 DEF Stacked
  <2> QED
    BY <2>1, <2>5, <2>6, <2>7 DEF RootInv, Tree!RootIsTree, Tree!DepthSuffices
<1>5. CASE ~ (Len(c_cv_stack) < DEPTH)
  <2>1. UNCHANGED c_cv_stack /\ c_pc' = "panic"
    BY <1>5 DEF Tree!PushChunk
  <2>2. Len(c_cv_stack) = DEPTH
    BY <1>2, <1>5, ChunkSizes
  <2>3. PICK b : Ends(b, DEPTH, c_chunk_counter) /\ Falls(b, DEPTH)
    BY <1>1, <2>2 DEF Grown
  <2>4. 2 ^ DEPTH \in Nat /\ 2 ^ DEPTH <= c_chunk_counter + 1
    BY <2>3, PowersCount
  <2>5. Tree!Chunks(c_given) > c_chunk_counter + 1
    <3>1. PICK a \in Nat, c \in Nat :
            a = c_chunk_counter * CL /\ c = CL /\ (c_chunk_counter + 1) * CL = a + c
      BY RootFacts
    <3>2. c_given - c_rest = a + c
      BY <1>1, <3>1 DEF InChunk
    <3>3. c_given > a + c
      BY <1>1, <3>2, RootFacts
    <3>4. c_given > (c_chunk_counter + 1) * CL
      BY <3>1, <3>3
    <3>5. c_chunk_counter + 1 \in Nat /\ c_given \in Nat
      BY RootFacts
    <3> QED
      BY <3>4, <3>5, ChunksAbove
  <2>6. Tree!Chunks(c_given) > 2 ^ DEPTH
    <3>1. PICK q : q = Tree!Chunks(c_given)
      OBVIOUS
    <3>2. q \in Int
      <4>1. CASE c_given = 0
        BY <3>1, <4>1 DEF Tree!Chunks
      <4>2. CASE c_given # 0
        <5>1. PICK c \in Nat \ {0} : c = CL
          BY RootFacts
        <5>2. PICK x \in Nat : x = c_given + c - 1
          BY RootFacts
        <5>3. x \div c \in Nat
          BY Division
        <5>4. q = x \div c
          BY <3>1, <4>2, <5>1, <5>2 DEF Tree!Chunks, Tree!CeilDiv, CL
        <5> QED
          BY <5>3, <5>4
      <4> QED
        BY <4>1, <4>2
    <3>3. q > c_chunk_counter + 1
      BY <2>5, <3>1
    <3>4. PICK w \in Nat : w = 2 ^ DEPTH /\ w <= c_chunk_counter + 1
      BY <2>4
    <3>5. q > w
      <4>1. PICK k \in Nat : k = c_chunk_counter
        BY RootFacts
      <4> QED
        BY <3>2, <3>3, <3>4, <4>1
    <3> QED
      BY <3>1, <3>4, <3>5
  <2>7. Kinds'
    BY <1>1, <1>2, <2>1 DEF RootInv, Kinds, Tree!Blake3TypeOK
  <2>8. Tree!DepthSuffices'
    BY <1>1, <2>6 DEF Tree!DepthSuffices, Tree!Chunks, Tree!CHUNK_LEN
  <2> QED
    BY <2>1, <2>7, <2>8 DEF RootInv, Chunking, Stacked, Tree!RootIsTree
<1> QED
  BY <1>4, <1>5

(* An iteration of merge_cv_stack.                                         *)
LEMMA RootMerge ==
  ASSUME Tree!Blake3Assumption, RootInv, TreeInv', Tree!Merge
  PROVE  RootInv'
<1>1. /\ c_pc = "merging" /\ c_pc' = "merging" /\ c_rest > 0 /\ Filled = CL
      /\ InChunk /\ c_part = 0 /\ c_parent_nodes = 0
      /\ Growing(c_chunk_counter + 1, c_cv_stack, c_key_words, c_flags)
      /\ UNCHANGED <<c_key_words, c_flags, c_chaining_value, c_chunk_counter, c_buf,
                     c_buf_len, c_blocks_compressed, c_given, c_rest, c_part, c_output,
                     c_parent_nodes, c_out_len, c_out>>
  BY DEF Tree!Merge, RootInv, Chunking, Kinds, Stacked, Tree!keys, Tree!chunk_state,
         Tree!final
<1>2. PICK l \in Nat : l = Len(c_cv_stack) /\ l > Ones(c_chunk_counter + 1) /\ l <= DEPTH
  <2>1. Len(c_cv_stack) \in Nat
    BY RootFacts
  <2>2. Len(c_cv_stack) > Ones(c_chunk_counter + 1)
    BY DEF Tree!Merge, Tree!PostMergeLen, Ones
  <2>3. Len(c_cv_stack) <= DEPTH
    BY ChunkSizes DEF RootInv, Kinds, Tree!Blake3TypeOK
  <2> QED
    BY <2>1, <2>2, <2>3
<1>3. PICK e : e = Tree!ChainingValue(Tree!ParentOutput(c_cv_stack[l - 1], c_cv_stack[l],
                                                         c_key_words, c_flags))
  OBVIOUS
<1>4. c_cv_stack' = Append(SubSeq(c_cv_stack, 1, l - 2), e)
  BY <1>2, <1>3 DEF Tree!Merge
<1>5. /\ l >= 2
      /\ Growing(c_chunk_counter + 1, c_cv_stack', c_key_words, c_flags)
  <2>1. c_chunk_counter + 1 \in Nat /\ IsStack(c_cv_stack)
    BY RootFacts
  <2> QED
    BY <1>1, <1>2, <1>3, <1>4, <2>1, StackMerged
<1>6. IsStack(c_cv_stack') /\ Len(c_cv_stack') = l - 1
  <2>1. PICK u : u = SubSeq(c_cv_stack, 1, l - 2)
    OBVIOUS
  <2>2. l - 2 \in 0 .. Len(c_cv_stack)
    BY <1>2, <1>5
  <2>3. IsStack(u) /\ Len(u) = l - 2
    BY <2>1, <2>2, RootFacts, StackCut
  <2>4. IsStack(Append(u, e)) /\ Len(Append(u, e)) = Len(u) + 1
    BY <2>3, StackAppend
  <2> QED
    BY <1>2, <1>4, <2>1, <2>3, <2>4
<1>7. Kinds'
  <2>1. Len(c_cv_stack') \in 0 .. DEPTH
    <3>1. PICK d \in Nat : d = DEPTH
      BY ChunkSizes
    <3> QED
      BY <1>2, <1>5, <1>6, <3>1
  <2> QED
    BY <1>1, <1>5, <1>6, <2>1 DEF RootInv, Kinds, Tree!Blake3TypeOK
<1>8. Chunking'
  <2>1. InChunk' /\ Filled' = Filled
    BY <1>1, ChunkStands
  <2> QED
    BY <1>1, <2>1 DEF Chunking
<1>9. Stacked'
  BY <1>1, <1>5 DEF Stacked
<1> QED
  BY <1>1, <1>7, <1>8, <1>9 DEF RootInv, Tree!RootIsTree, Tree!DepthSuffices

(* No two subtrees are alike any more: the stack is complete.              *)
LEMMA RootNextChunk ==
  ASSUME Tree!Blake3Assumption, RootInv, TreeInv', Tree!NextChunk
  PROVE  RootInv'
<1>1. /\ c_pc = "merging" /\ c_pc' = "updating" /\ c_rest > 0 /\ Filled = CL
      /\ InChunk /\ c_part = 0 /\ c_parent_nodes = 0
      /\ Growing(c_chunk_counter + 1, c_cv_stack, c_key_words, c_flags)
      /\ Tree!FreshChunk(c_chunk_counter + 1, c_key_words)
      /\ Len(c_cv_stack) <= Ones(c_chunk_counter + 1)
      /\ UNCHANGED <<c_key_words, c_flags, c_cv_stack, c_given, c_rest, c_part, c_output,
                     c_parent_nodes, c_out_len, c_out>>
  BY DEF Tree!NextChunk, RootInv, Chunking, Kinds, Stacked, Tree!keys, Tree!final,
         Tree!PostMergeLen, Ones
<1>2. PICK n \in Nat : n = c_chunk_counter + 1
  BY RootFacts
<1>3. Grown(n, c_cv_stack, c_key_words, c_flags)
  <2>1. IsStack(c_cv_stack)
    BY RootFacts
  <2> QED
    BY <1>1, <1>2, <2>1, StackDone
<1>4. /\ Filled' = 0 /\ c_buf_len' = 0 /\ c_blocks_compressed' = 0
      /\ c_chunk_counter' = n /\ c_buf' \in [1 .. BLOCK_LEN -> Nat]
      /\ c_given' - c_rest' = n * CL => InChunk'
  <2>1. Tree!FreshChunk(n, c_key_words) /\ c_key_words' = c_key_words
    BY <1>1, <1>2
  <2> QED
    BY <2>1, ChunkStarts
<1>5. InChunk'
  <2>1. c_given - c_rest = c_chunk_counter * CL + CL
    BY <1>1 DEF InChunk
  <2>2. n * CL = c_chunk_counter * CL + CL
    BY <1>2, RootFacts
  <2> QED
    BY <1>1, <1>4, <2>1, <2>2
<1>6. Kinds'
  <2>1. 0 \in 0 .. BLOCK_LEN /\ 0 \in 0 .. BLOCKS - 1
    BY ChunkSizes
  <2> QED
    BY <1>1, <1>2, <1>4, <2>1 DEF RootInv, Kinds, Tree!Blake3TypeOK
<1>7. Chunking'
  <2>1. c_rest' > 0 /\ c_rest' # 0
    <3>1. c_rest \in Nat
      BY RootFacts
    <3> QED
      BY <1>1, <3>1
  <2> QED
    BY <1>1, <1>5, <2>1 DEF Chunking
<1>8. Stacked'
  BY <1>1, <1>3, <1>4 DEF Stacked
<1> QED
  BY <1>1, <1>6, <1>7, <1>8 DEF RootInv, Tree!RootIsTree, Tree!DepthSuffices

LEMMA RootFeedChunk ==
  ASSUME Tree!Blake3Assumption, RootInv, TreeInv', Tree!FeedChunk
  PROVE  RootInv'
<1>1. /\ c_pc = "updating" /\ c_pc' = "chunk" /\ c_rest > 0 /\ Filled # CL
      /\ InChunk /\ c_parent_nodes = 0 /\ c_part' = Tree!LesserOf(CL - Filled, c_rest)
      /\ Grown(c_chunk_counter, c_cv_stack, c_key_words, c_flags)
      /\ UNCHANGED <<c_key_words, c_flags, c_cv_stack, c_chaining_value,
                     c_chunk_counter, c_buf, c_buf_len, c_blocks_compressed, c_given,
                     c_rest, c_output, c_parent_nodes, c_out_len, c_out>>
  BY DEF Tree!FeedChunk, RootInv, Chunking, Kinds, Stacked, Tree!keys, Tree!final,
         Tree!chunk_state, Tree!MustPush, Tree!Part, Filled, CL
<1>2. PICK f, c, x \in Nat : f = Filled /\ c = CL /\ x = c_rest /\ f < c /\ x > 0
  BY <1>1, RootFacts
<1>3. c_part' = Tree!LesserOf(c - f, x)
  BY <1>1, <1>2
<1>4. c_part' \in 0 .. x /\ c_part' + f <= c /\ c_part' # 0
  BY <1>2, <1>3 DEF Tree!LesserOf
<1>5. InChunk' /\ Filled' = Filled
  BY <1>1, ChunkStands
<1>6. Kinds'
  BY <1>1, <1>2, <1>4 DEF RootInv, Kinds, Tree!Blake3TypeOK
<1>7. Chunking'
  BY <1>1, <1>2, <1>4, <1>5 DEF Chunking
<1>8. Stacked'
  BY <1>1 DEF Stacked
<1> QED
  BY <1>1, <1>6, <1>7, <1>8 DEF RootInv, Tree!RootIsTree, Tree!DepthSuffices

(* ChunkState::update: a full block is compressed when there is more.      *)
LEMMA RootCompressBlock ==
  ASSUME Tree!Blake3Assumption, RootInv, TreeInv', Tree!CompressBlock
  PROVE  RootInv'
<1>1. /\ c_pc = "chunk" /\ c_pc' = "chunk" /\ c_part > 0 /\ c_buf_len = BLOCK_LEN
      /\ c_part + Filled <= CL /\ InChunk /\ c_parent_nodes = 0
      /\ Grown(c_chunk_counter, c_cv_stack, c_key_words, c_flags)
      /\ c_chaining_value' = Tree!Compress(c_chaining_value, c_buf, c_chunk_counter,
                                           BLOCK_LEN, c_flags \cup Tree!StartFlag)
      /\ c_blocks_compressed' = c_blocks_compressed + 1
      /\ c_buf' = [j \in 1 .. BLOCK_LEN |-> 0] /\ c_buf_len' = 0
      /\ UNCHANGED <<c_key_words, c_flags, c_cv_stack, c_chunk_counter, c_given, c_part,
                     c_rest, c_output, c_parent_nodes, c_out_len, c_out>>
  BY DEF Tree!CompressBlock, RootInv, Chunking, Kinds, Stacked, Tree!keys, Tree!final,
         Tree!ZeroBlock
<1>2. PICK k, m, d \in Nat :
        /\ k = c_blocks_compressed /\ m = BLOCK_LEN /\ d = BLOCK_LEN * k /\ m > 0
        /\ Filled = d + m
  <2>1. c_blocks_compressed \in Nat /\ BLOCK_LEN \in Nat /\ BLOCK_LEN > 0
    <3>1. BLOCK_LEN \in Nat \ {0}
      BY ChunkSizes
    <3>2. c_blocks_compressed \in Nat
      BY RootFacts
    <3> QED
      BY <3>1, <3>2
  <2>2. /\ Filled = BLOCK_LEN * c_blocks_compressed + BLOCK_LEN
        /\ BLOCK_LEN * c_blocks_compressed \in Nat
    BY <1>1, RootFacts
  <2> QED
    BY <2>1, <2>2
<1>3. k + 1 < BLOCKS /\ BLOCK_LEN * (k + 1) = d + m
  <2>1. BLOCK_LEN * (k + 1) = d + m
    BY <1>2, ChunkSizes
  <2>2. k + 1 = BLOCKS => d + m = CL
    BY <1>2, ChunkSizes
  <2>3. c_part \in Nat /\ CL \in Nat
    BY RootFacts
  <2>4. d + m < CL
    BY <1>1, <1>2, <2>3
  <2>5. PICK n \in Nat : n = BLOCKS /\ k <= n - 1
    <3>1. BLOCKS \in Nat
      BY ChunkSizes
    <3>2. k \in 0 .. BLOCKS - 1
      BY <1>2, RootFacts
    <3> QED
      BY <3>1, <3>2
  <2> QED
    BY <2>1, <2>2, <2>4, <2>5
<1>4. Filled' = Filled
  <2>1. Filled' = BLOCK_LEN * (k + 1) + 0
    BY <1>1, <1>2 DEF Filled, Tree!ChunkLength
  <2> QED
    BY <1>2, <1>3, <2>1
<1>5. c_buf = BlockBytes(c_chunk_counter, k + 1)
  <2>1. PICK start \in Nat : start = c_chunk_counter * CL
    BY RootFacts
  <2>2. c_buf = [j \in 1 .. BLOCK_LEN |->
                   IF j <= m THEN Tree!MessageByte(start + d + j) ELSE 0]
    BY <1>1, <1>2, <2>1 DEF InChunk
  <2>3. ((k + 1) - 1) * BLOCK_LEN = d
    <3>1. (k + 1) - 1 = k /\ k * BLOCK_LEN = BLOCK_LEN * k
      BY ChunkSizes
    <3> QED
      BY <1>2, <3>1
  <2>4. BlockBytes(c_chunk_counter, k + 1)
          = [j \in 1 .. BLOCK_LEN |-> Tree!MessageByte(start + d + j)]
    BY <2>1, <2>3 DEF BlockBytes, CL
  <2>5. \A j \in 1 .. BLOCK_LEN : j <= m
    BY <1>2
  <2> QED
    BY <2>2, <2>4, <2>5
<1>6. c_chaining_value'
        = Tree!ChunkPrefix(c_key_words, c_flags, c_chunk_counter, k + 1)
  <2>1. c_chaining_value = Tree!ChunkPrefix(c_key_words, c_flags, c_chunk_counter, k)
    BY <1>1, <1>2 DEF InChunk
  <2>2. Tree!StartFlag = IF k = 0 THEN {"CHUNK_START"} ELSE {}
    BY <1>2 DEF Tree!StartFlag
  <2>3. PICK next : next = k + 1
    OBVIOUS
  <2>4. Tree!ChunkPrefix(c_key_words, c_flags, c_chunk_counter, next)
          = Tree!Compress(
              Tree!ChunkPrefix(c_key_words, c_flags, c_chunk_counter, k),
              BlockBytes(c_chunk_counter, next), c_chunk_counter, BLOCK_LEN,
              c_flags \cup (IF k = 0 THEN {"CHUNK_START"} ELSE {}))
    BY <2>3, ChunkPrefixNext
  <2> QED
    BY <1>1, <1>5, <2>1, <2>2, <2>3, <2>4
<1>7. InChunk'
  <2>1. c_given' - c_rest' = c_chunk_counter' * CL + Filled'
    BY <1>1, <1>4 DEF InChunk
  <2>2. \A j \in 1 .. BLOCK_LEN : ~ (j <= 0)
    OBVIOUS
  <2>3. c_buf' = [j \in 1 .. BLOCK_LEN |->
                    IF j <= c_buf_len'
                    THEN Tree!MessageByte(c_chunk_counter' * CL
                                          + BLOCK_LEN * c_blocks_compressed' + j)
                    ELSE 0]
    BY <1>1, <2>2
  <2> QED
    BY <1>1, <1>2, <1>6, <2>1, <2>3 DEF InChunk
<1>8. Kinds'
  <2>1. c_blocks_compressed' \in 0 .. BLOCKS - 1 /\ c_buf_len' \in 0 .. BLOCK_LEN
    <3>1. BLOCKS \in Nat /\ BLOCK_LEN \in Nat
      BY ChunkSizes
    <3> QED
      BY <1>1, <1>2, <1>3, <3>1
  <2>2. c_buf' \in [1 .. BLOCK_LEN -> Nat]
    BY <1>1
  <2> QED
    BY <1>1, <2>1, <2>2 DEF RootInv, Kinds, Tree!Blake3TypeOK
<1>9. Chunking'
  <2>1. c_part' # 0
    BY <1>1, RootFacts
  <2> QED
    BY <1>1, <1>4, <1>7, <2>1 DEF Chunking
<1>10. Stacked'
  BY <1>1 DEF Stacked
<1> QED
  BY <1>1, <1>8, <1>9, <1>10 DEF RootInv, Tree!RootIsTree, Tree!DepthSuffices

(* ChunkState::update: bytes are copied behind the block.                  *)
LEMMA RootCopyBytes ==
  ASSUME Tree!Blake3Assumption, RootInv, TreeInv', Tree!CopyBytes
  PROVE  RootInv'
<1> DEFINE take == Tree!LesserOf(BLOCK_LEN - c_buf_len, c_part)
<1>1. /\ c_pc = "chunk" /\ c_pc' = "chunk" /\ c_part > 0 /\ c_buf_len < BLOCK_LEN
      /\ c_part + Filled <= CL /\ InChunk /\ c_parent_nodes = 0
      /\ Grown(c_chunk_counter, c_cv_stack, c_key_words, c_flags)
      /\ c_buf' = [j \in 1 .. BLOCK_LEN |->
                     IF j \in c_buf_len + 1 .. c_buf_len + take
                     THEN Tree!MessageByte(c_given - c_rest + (j - c_buf_len))
                     ELSE c_buf[j]]
      /\ c_buf_len' = c_buf_len + take
      /\ c_part' = c_part - take /\ c_rest' = c_rest - take
      /\ UNCHANGED <<c_key_words, c_flags, c_cv_stack, c_chaining_value,
                     c_chunk_counter, c_blocks_compressed, c_given, c_output,
                     c_parent_nodes, c_out_len, c_out>>
  BY DEF Tree!CopyBytes, RootInv, Chunking, Kinds, Stacked, Tree!keys, Tree!final
<1>2. PICK m, l, p, w, g \in Nat :
        /\ m = BLOCK_LEN /\ l = c_buf_len /\ p = c_part /\ w = c_rest /\ g = c_given
        /\ p > 0 /\ l < m /\ p <= w /\ w <= g
  <2>1. BLOCK_LEN \in Nat
    BY ChunkSizes
  <2>2. c_buf_len \in Nat /\ c_part \in Nat /\ c_rest \in Nat /\ c_given \in Nat
    BY RootFacts
  <2>3. c_part <= c_rest /\ c_rest <= c_given
    BY RootFacts
  <2> QED
    BY <1>1, <2>1, <2>2, <2>3
<1>3. PICK t \in Nat : t = take /\ t > 0 /\ t <= p /\ l + t <= m
  BY <1>2 DEF Tree!LesserOf
<1> HIDE DEF take
<1>4. PICK d, f, c, start \in Nat :
        /\ d = BLOCK_LEN * c_blocks_compressed /\ f = Filled /\ c = CL
        /\ start = c_chunk_counter * CL /\ f = d + l /\ p + f <= c
        /\ g - w = start + f
  <2>1. BLOCK_LEN * c_blocks_compressed \in Nat /\ c_chunk_counter * CL \in Nat
    BY RootFacts
  <2>2. Filled \in Nat /\ CL \in Nat
    BY RootFacts
  <2>3. Filled = BLOCK_LEN * c_blocks_compressed + l
    BY <1>2, RootFacts
  <2>4. g - w = c_chunk_counter * CL + Filled
    BY <1>1, <1>2 DEF InChunk
  <2> QED
    BY <1>1, <1>2, <2>1, <2>2, <2>3, <2>4
<1>5. Filled' = f + t
  <2>1. Filled' = d + (l + t)
    BY <1>1, <1>2, <1>3, <1>4 DEF Filled, Tree!ChunkLength
  <2> QED
    BY <1>2, <1>3, <1>4, <2>1
<1>6. c_buf' = [j \in 1 .. BLOCK_LEN |->
                  IF j <= c_buf_len'
                  THEN Tree!MessageByte(c_chunk_counter' * CL
                                        + BLOCK_LEN * c_blocks_compressed' + j)
                  ELSE 0]
  <2>1. c_buf = [j \in 1 .. m |->
                   IF j <= l THEN Tree!MessageByte(start + d + j) ELSE 0]
    BY <1>1, <1>2, <1>4 DEF InChunk
  <2>2. c_buf' = [j \in 1 .. m |->
                    IF j \in l + 1 .. l + t THEN Tree!MessageByte(g - w + (j - l))
                    ELSE c_buf[j]]
    BY <1>1, <1>2, <1>3
  <2>3. ASSUME NEW j \in 1 .. m
        PROVE  (IF j \in l + 1 .. l + t THEN Tree!MessageByte(g - w + (j - l))
                ELSE c_buf[j])
                 = IF j <= l + t THEN Tree!MessageByte(start + d + j) ELSE 0
    <3>1. CASE j \in l + 1 .. l + t
      <4>1. g - w + (j - l) = start + d + j
        BY <1>2, <1>4, <2>3
      <4>2. j <= l + t
        BY <1>2, <1>3, <3>1
      <4> QED
        BY <3>1, <4>1, <4>2
    <3>2. CASE j \notin l + 1 .. l + t
      <4>1. j <= l + t <=> j <= l
        BY <1>2, <1>3, <2>3, <3>2
      <4>2. c_buf[j] = IF j <= l THEN Tree!MessageByte(start + d + j) ELSE 0
        BY <2>1, <2>3
      <4> QED
        BY <3>2, <4>1, <4>2
    <3> QED
      BY <3>1, <3>2
  <2>4. c_buf' = [j \in 1 .. m |->
                    IF j <= l + t THEN Tree!MessageByte(start + d + j) ELSE 0]
    BY <2>2, <2>3
  <2>5. /\ c_buf_len' = l + t /\ c_chunk_counter' * CL = start
        /\ BLOCK_LEN * c_blocks_compressed' = d
    BY <1>1, <1>2, <1>3, <1>4
  <2> QED
    BY <1>2, <2>4, <2>5
<1>7. InChunk'
  <2>1. c_given' - c_rest' = c_chunk_counter' * CL + Filled'
    <3>1. g - (w - t) = start + (f + t)
      BY <1>2, <1>3, <1>4
    <3>2. c_given' = g /\ c_rest' = w - t /\ c_chunk_counter' * CL = start
      BY <1>1, <1>2, <1>3, <1>4
    <3> QED
      BY <1>5, <3>1, <3>2
  <2>2. c_chaining_value' = Tree!ChunkPrefix(c_key_words', c_flags', c_chunk_counter',
                                             c_blocks_compressed')
    BY <1>1 DEF InChunk
  <2> QED
    BY <1>6, <2>1, <2>2 DEF InChunk
<1>8. /\ c_buf_len' \in 0 .. BLOCK_LEN /\ c_rest' \in 0 .. c_given'
      /\ c_part' \in 0 .. c_rest' /\ c_buf_len' > 0
      /\ c_part' + Filled' <= CL
  <2>1. /\ c_buf_len' = l + t /\ c_rest' = w - t /\ c_part' = p - t /\ c_given' = g
        /\ Filled' = f + t
    BY <1>1, <1>2, <1>3, <1>5
  <2>2. /\ l + t \in 0 .. m /\ w - t \in 0 .. g /\ p - t \in 0 .. w - t
        /\ l + t > 0 /\ (p - t) + (f + t) <= c
    BY <1>2, <1>3, <1>4
  <2> QED
    BY <1>2, <1>4, <2>1, <2>2
<1>9. Kinds'
  <2>1. c_buf' \in [1 .. BLOCK_LEN -> Nat]
    <3>1. c_buf \in [1 .. BLOCK_LEN -> Nat]
      BY DEF RootInv, Kinds, Tree!Blake3TypeOK
    <3>2. ASSUME NEW j \in 1 .. BLOCK_LEN, j \in l + 1 .. l + t
          PROVE  Tree!MessageByte(c_given - c_rest + (j - l)) \in Nat
      <4>1. 255 + (g - w + (j - l)) \in Nat
        BY <1>2, <1>3, <3>2
      <4> QED
        BY <1>2, <4>1 DEF Tree!MessageByte
    <3>3. ASSUME NEW j \in 1 .. BLOCK_LEN
          PROVE  (IF j \in l + 1 .. l + t
                  THEN Tree!MessageByte(c_given - c_rest + (j - l)) ELSE c_buf[j])
                   \in Nat
      BY <3>1, <3>2
    <3> QED
      BY <1>1, <1>2, <1>3, <3>3
  <2> QED
    BY <1>1, <1>8, <2>1 DEF RootInv, Kinds, Tree!Blake3TypeOK
<1>10. Chunking'
  BY <1>1, <1>7, <1>8 DEF Chunking
<1>11. Stacked'
  BY <1>1 DEF Stacked
<1> QED
  BY <1>1, <1>9, <1>10, <1>11 DEF RootInv, Tree!RootIsTree, Tree!DepthSuffices

LEMMA RootReturns ==
  ASSUME Tree!Blake3Assumption, RootInv, TreeInv', Tree!ChunkReturn \/ Tree!UpdateReturn
  PROVE  RootInv'
<1>1. UNCHANGED <<c_key_words, c_flags, c_cv_stack, c_chaining_value, c_chunk_counter,
                  c_buf, c_buf_len, c_blocks_compressed, c_given, c_rest, c_part,
                  c_output, c_parent_nodes, c_out_len, c_out>>
  BY DEF Tree!ChunkReturn, Tree!UpdateReturn, Tree!keys, Tree!chunk_state, Tree!final
<1>2. /\ c_pc \in {"chunk", "updating"} /\ c_pc' \in {"updating", "open"}
      /\ c_part = 0 /\ InChunk /\ c_parent_nodes = 0
      /\ Grown(c_chunk_counter, c_cv_stack, c_key_words, c_flags)
      /\ c_pc' = "open" => c_rest = 0
  BY DEF Tree!ChunkReturn, Tree!UpdateReturn, RootInv, Chunking, Kinds, Stacked
<1>3. Whole \/ c_rest # 0
  <2>1. CASE c_pc = "updating"
    BY <2>1 DEF RootInv, Chunking
  <2>2. CASE c_pc = "chunk"
    <3>1. c_buf_len > 0
      BY <1>2, <2>2 DEF RootInv, Chunking
    <3>2. PICK d, l \in Nat : l = c_buf_len /\ d = BLOCK_LEN * c_blocks_compressed
                              /\ Filled = d + l
      <4>1. c_buf_len \in Nat /\ BLOCK_LEN * c_blocks_compressed \in Nat
        BY RootFacts
      <4>2. Filled = BLOCK_LEN * c_blocks_compressed + c_buf_len
        BY RootFacts
      <4> QED
        BY <4>1, <4>2
    <3>3. Filled > 0
      BY <3>1, <3>2
    <3> QED
      BY <3>1, <3>3 DEF Whole
  <2> QED
    BY <1>2, <2>1, <2>2
<1>4. InChunk' /\ (Whole <=> Whole')
  BY <1>1, <1>2, ChunkStands
<1>5. Kinds'
  BY <1>1, <1>2 DEF RootInv, Kinds, Tree!Blake3TypeOK
<1>6. Chunking'
  BY <1>1, <1>2, <1>3, <1>4 DEF Chunking
<1>7. Stacked'
  BY <1>1, <1>2 DEF Stacked
<1> QED
  BY <1>2, <1>5, <1>6, <1>7 DEF RootInv, Tree!RootIsTree, Tree!DepthSuffices

(* finalize_xof: the last chunk is the node above all of the stack.        *)
LEMMA RootFinalize ==
  ASSUME Tree!Blake3Assumption, RootInv, TreeInv', NEW n \in TreeOutLens,
         Tree!Finalize(n)
  PROVE  RootInv'
<1>1. /\ c_pc = "open" /\ c_pc' = "folding" /\ c_rest = 0 /\ c_part = 0
      /\ InChunk /\ Whole
      /\ Grown(c_chunk_counter, c_cv_stack, c_key_words, c_flags)
      /\ c_output' = Tree!ChunkOutput /\ c_parent_nodes' = Len(c_cv_stack)
      /\ c_out_len' = n
      /\ UNCHANGED <<c_key_words, c_flags, c_cv_stack, c_chaining_value,
                     c_chunk_counter, c_buf, c_buf_len, c_blocks_compressed, c_given,
                     c_rest, c_part, c_out>>
  BY DEF Tree!Finalize, RootInv, Chunking, Kinds, Stacked, Tree!keys, Tree!chunk_state
<1>2. n \in Nat /\ c_out = <<>> /\ Len(<<>>) = 0
  BY <1>1, StackEmpty DEF Tree!Blake3Assumption, RootInv, TreeInv
<1>3. Tree!ChunkOutput
        = Tree!TreeNode(c_key_words, c_flags, c_chunk_counter, 1, c_given)
  <2>1. PICK g, c, f, start \in Nat :
          g = c_given /\ c = CL /\ f = Filled /\ start = c_chunk_counter * CL
    BY RootFacts
  <2>2. f <= c
    BY <2>1, RootFacts
  <2>3. g - 0 = start + f
    BY <1>1, <2>1 DEF InChunk
  <2>4. Tree!LesserOf(c, g - start) = f
    BY <2>1, <2>2, <2>3 DEF Tree!LesserOf
  <2>5. c_blocks_compressed > 0 => c_buf_len > 0
    BY <1>1 DEF Whole
  <2>6. c_given \in Nat /\ c_chunk_counter \in Nat
    BY RootFacts
  <2>7. c_buf_len \in 0 .. BLOCK_LEN /\ c_blocks_compressed \in 0 .. BLOCKS - 1
    BY RootFacts
  <2>8. Tree!LesserOf(CL, c_given - c_chunk_counter * CL) = Filled
    BY <2>1, <2>4
  <2>9. Tree!ChunkOutput = Tree!ChunkNode(c_key_words, c_flags, c_chunk_counter, c_given)
    BY <1>1, <2>5, <2>6, <2>7, <2>8, ChunkIsNode
  <2> QED
    BY <2>6, <2>9, TreeOfOne
<1>4. Folded(c_chunk_counter, c_cv_stack, c_key_words, c_flags, Tree!ChunkOutput,
             Len(c_cv_stack), c_given)
  <2>1. PICK b : /\ Ends(b, Len(c_cv_stack), c_chunk_counter)
                 /\ Falls(b, Len(c_cv_stack))
                 /\ Covers(b, c_cv_stack, c_key_words, c_flags)
    BY <1>1 DEF Grown
  <2>2. b[Len(c_cv_stack)] = c_chunk_counter
    BY <2>1 DEF Ends
  <2>3. (c_chunk_counter + 1) - c_chunk_counter = 1
    <3>1. c_chunk_counter \in Nat
      BY RootFacts
    <3> QED
      BY <3>1
  <2> QED
    BY <1>3, <2>1, <2>2, <2>3 DEF Folded
<1>5. InChunk' /\ Whole'
  BY <1>1, ChunkStands
<1>6. Kinds'
  <2>1. Len(c_cv_stack) \in 0 .. Len(c_cv_stack)
    <3>1. Len(c_cv_stack) \in Nat
      BY RootFacts
    <3> QED
      BY <3>1
  <2>2. Len(c_out') \in 0 .. c_out_len'
    BY <1>1, <1>2
  <2> QED
    BY <1>1, <2>1, <2>2 DEF RootInv, Kinds, Tree!Blake3TypeOK
<1>7. Chunking'
  BY <1>1, <1>5 DEF Chunking
<1>8. Stacked'
  BY <1>1, <1>4 DEF Stacked
<1> QED
  BY <1>1, <1>6, <1>7, <1>8 DEF RootInv, Tree!RootIsTree, Tree!DepthSuffices

LEMMA RootFoldParent ==
  ASSUME Tree!Blake3Assumption, RootInv, TreeInv', Tree!FoldParent
  PROVE  RootInv'
<1>1. /\ c_pc = "folding" /\ c_pc' = "folding" /\ c_parent_nodes > 0
      /\ c_rest = 0 /\ c_part = 0 /\ InChunk /\ Whole
      /\ Folded(c_chunk_counter, c_cv_stack, c_key_words, c_flags, c_output,
                c_parent_nodes, c_given)
      /\ c_parent_nodes' = c_parent_nodes - 1
      /\ c_output' = Tree!ParentOutput(c_cv_stack[c_parent_nodes],
                                       Tree!ChainingValue(c_output), c_key_words, c_flags)
      /\ UNCHANGED <<c_key_words, c_flags, c_cv_stack, c_chaining_value,
                     c_chunk_counter, c_buf, c_buf_len, c_blocks_compressed, c_given,
                     c_rest, c_part, c_out_len, c_out>>
  BY DEF Tree!FoldParent, RootInv, Chunking, Kinds, Stacked, Tree!keys, Tree!chunk_state
<1>2. c_parent_nodes \in 0 .. Len(c_cv_stack) /\ Len(c_cv_stack) \in Nat
  BY RootFacts DEF RootInv, Kinds, Tree!Blake3TypeOK
<1>3. c_parent_nodes \in 1 .. Len(c_cv_stack)
  BY <1>1, <1>2
<1>4. c_given >= c_chunk_counter * CL
  <2>1. PICK g, f, start \in Nat :
          g = c_given /\ f = Filled /\ start = c_chunk_counter * CL
    BY RootFacts
  <2>2. g - 0 = start + f
    BY <1>1, <2>1 DEF InChunk
  <2>3. g >= start
    BY <2>1, <2>2
  <2> QED
    BY <2>1, <2>3
<1>5. Folded(c_chunk_counter, c_cv_stack, c_key_words, c_flags, c_output',
             c_parent_nodes - 1, c_given)
  <2>1. c_chunk_counter \in Nat /\ IsStack(c_cv_stack) /\ c_given \in Nat
    BY RootFacts
  <2> QED
    BY <1>1, <1>3, <1>4, <2>1, StackFolded
<1>6. InChunk' /\ Whole'
  BY <1>1, ChunkStands
<1>7. Kinds'
  <2>1. c_parent_nodes - 1 \in 0 .. Len(c_cv_stack)
    BY <1>2, <1>3
  <2> QED
    BY <1>1, <2>1 DEF RootInv, Kinds, Tree!Blake3TypeOK
<1>8. Chunking'
  BY <1>1, <1>6 DEF Chunking
<1>9. Stacked'
  BY <1>1, <1>5 DEF Stacked
<1> QED
  BY <1>1, <1>7, <1>8, <1>9 DEF RootInv, Tree!RootIsTree, Tree!DepthSuffices

LEMMA RootAllocateOutput ==
  ASSUME Tree!Blake3Assumption, RootInv, TreeInv', Tree!AllocateOutput
  PROVE  RootInv'
<1>1. /\ c_pc = "folding" /\ c_parent_nodes = 0 /\ c_rest = 0 /\ c_part = 0
      /\ InChunk /\ Whole
      /\ Folded(c_chunk_counter, c_cv_stack, c_key_words, c_flags, c_output, 0, c_given)
      /\ UNCHANGED <<c_given, c_rest, c_part, c_output, c_parent_nodes, c_out_len, c_out>>
  BY DEF Tree!AllocateOutput, RootInv, Chunking, Kinds, Stacked, Tree!final
<1>2. CASE c_out_len > TREE_MAXOUT
  <2>1. c_pc' = "error" /\ Tree!Zeroed
    BY <1>2 DEF Tree!AllocateOutput
  <2> QED
    BY <1>1, <2>1, RootWiped
<1>3. CASE ~ (c_out_len > TREE_MAXOUT)
  <2>1. /\ c_pc' = "xof"
        /\ UNCHANGED <<c_key_words, c_flags, c_cv_stack, c_chaining_value,
                       c_chunk_counter, c_buf, c_buf_len, c_blocks_compressed>>
    BY <1>3 DEF Tree!AllocateOutput, Tree!keys, Tree!chunk_state
  <2>2. PICK b : /\ b[0] = 0
                 /\ c_output = Tree!TreeNode(c_key_words, c_flags, b[0],
                                             (c_chunk_counter + 1) - b[0], c_given)
    BY <1>1 DEF Folded, Ends
  <2>3. Tree!Chunks(c_given) = c_chunk_counter + 1
    <3>1. PICK k \in Nat, x \in 0 .. CL : k = c_chunk_counter /\ x = Filled
      <4>1. c_chunk_counter \in Nat /\ Filled \in Nat /\ Filled <= CL /\ CL \in Nat
        BY RootFacts
      <4> QED
        BY <4>1
    <3>2. k > 0 => x > 0
      BY <1>1, <3>1 DEF Whole
    <3>3. Tree!Chunks(k * CL + x) = k + 1
      BY <3>2, ChunksAre
    <3>4. c_given = k * CL + x
      <4>1. c_given \in Nat
        BY RootFacts
      <4>2. c_given - 0 = k * CL + x
        BY <1>1, <3>1 DEF InChunk
      <4> QED
        BY <4>1, <4>2
    <3> QED
      BY <3>1, <3>3, <3>4
  <2>4. (c_chunk_counter + 1) - 0 = c_chunk_counter + 1
    <3>1. c_chunk_counter \in Nat
      BY RootFacts
    <3> QED
      BY <3>1
  <2>5. c_output = Tree!TreeNode(c_key_words, c_flags, 0, Tree!Chunks(c_given), c_given)
    BY <2>2, <2>3, <2>4
  <2>6. Tree!RootIsTree'
  <3>1. c_output' = Tree!TreeNode(c_key_words', c_flags', 0, Tree!Chunks(c_given'), c_given')
      BY <1>1, <2>1, <2>5
    <3> QED
      BY <3>1 DEF Tree!RootIsTree
  <2>7. Kinds'
    BY <1>1, <2>1 DEF RootInv, Kinds, Tree!Blake3TypeOK
  <2> QED
    BY <2>1, <2>6, <2>7 DEF RootInv, Chunking, Stacked, Tree!DepthSuffices
<1> QED
  BY <1>2, <1>3

LEMMA RootOutputBlock ==
  ASSUME Tree!Blake3Assumption, RootInv, TreeInv', Tree!OutputBlock
  PROVE  RootInv'
<1>1. /\ c_pc = "xof" /\ c_pc' = "xof" /\ Tree!RootIsTree
      /\ UNCHANGED <<c_key_words, c_flags, c_cv_stack, c_chaining_value,
                     c_chunk_counter, c_buf, c_buf_len, c_blocks_compressed, c_given,
                     c_rest, c_part, c_output, c_parent_nodes, c_out_len>>
  BY DEF Tree!OutputBlock, RootInv, Tree!keys, Tree!chunk_state
<1>2. c_out' \in Seq(OutBytes) /\ Len(c_out') <= c_out_len' /\ c_out_len' \in Nat
  BY <1>1 DEF TreeInv
<1>3. Len(c_out') \in 0 .. c_out_len'
  BY <1>2
<1>4. Kinds'
  BY <1>1, <1>3 DEF RootInv, Kinds, Tree!Blake3TypeOK
<1>5. Tree!RootIsTree'
  BY <1>1 DEF Tree!RootIsTree
<1> QED
  BY <1>1, <1>4, <1>5 DEF RootInv, Chunking, Stacked, Tree!DepthSuffices

LEMMA RootFinalizeReturn ==
  ASSUME Tree!Blake3Assumption, RootInv, TreeInv', Tree!FinalizeReturn
  PROVE  RootInv'
<1>1. /\ c_pc = "xof" /\ c_pc' = "done" /\ Tree!Zeroed
      /\ c_parent_nodes = 0 /\ c_part = 0
      /\ UNCHANGED <<c_rest, c_part, c_out, c_out_len, c_parent_nodes, c_given>>
  BY DEF Tree!FinalizeReturn, RootInv, Kinds, Tree!final
<1> QED
  BY <1>1, RootWiped

LEMMA RootStutters ==
  ASSUME RootInv, TreeInv', UNCHANGED Tree!vars
  PROVE  RootInv'
<1>1. /\ UNCHANGED <<c_pc, c_key_words, c_flags, c_cv_stack, c_chaining_value,
                     c_chunk_counter, c_buf, c_buf_len, c_blocks_compressed, c_given,
                     c_rest, c_part, c_output, c_parent_nodes, c_out_len, c_out>>
  BY DEF Tree!vars, Tree!keys, Tree!chunk_state, Tree!final
<1>2. Kinds'
  BY <1>1 DEF RootInv, Kinds, Tree!Blake3TypeOK
<1>3. InChunk => InChunk'
  BY <1>1, ChunkStands
<1>4. Filled' = Filled /\ (Whole <=> Whole')
  BY <1>1, ChunkStands
<1>5. Chunking'
  BY <1>1, <1>3, <1>4 DEF RootInv, Chunking
<1>6. Stacked'
  BY <1>1 DEF RootInv, Stacked
<1>7. Tree!RootIsTree' /\ Tree!DepthSuffices'
  BY <1>1 DEF RootInv, Tree!RootIsTree, Tree!DepthSuffices, Tree!Chunks,
              Tree!CHUNK_LEN, Tree!CeilDiv
<1> QED
  BY <1>2, <1>5, <1>6, <1>7 DEF RootInv

LEMMA RootStep ==
  Tree!Blake3Assumption /\ RootInv /\ [Tree!Next]_(Tree!vars) => RootInv'
<1> SUFFICES ASSUME Tree!Blake3Assumption, RootInv, [Tree!Next]_(Tree!vars)
             PROVE  RootInv'
  OBVIOUS
<1>0. TreeInv'
  BY TreeStep DEF RootInv
<1>1. CASE Tree!New(Tree!IV, {})
  BY <1>0, <1>1, RootNew
<1>2. CASE Tree!New(Tree!Key, {"KEYED_HASH"})
  BY <1>0, <1>2, RootNew
<1>3. CASE Tree!Wipe
  BY <1>0, <1>3, RootWipe
<1>4. ASSUME NEW n \in TreeLens, Tree!Update(n) PROVE RootInv'
  BY <1>0, <1>4, RootUpdate
<1>5. CASE Tree!PushChunk
  BY <1>0, <1>5, RootPushChunk
<1>6. CASE Tree!Merge
  BY <1>0, <1>6, RootMerge
<1>7. CASE Tree!NextChunk
  BY <1>0, <1>7, RootNextChunk
<1>8. CASE Tree!FeedChunk
  BY <1>0, <1>8, RootFeedChunk
<1>9. CASE Tree!CompressBlock
  BY <1>0, <1>9, RootCompressBlock
<1>10. CASE Tree!CopyBytes
  BY <1>0, <1>10, RootCopyBytes
<1>11. CASE Tree!ChunkReturn \/ Tree!UpdateReturn
  BY <1>0, <1>11, RootReturns
<1>12. ASSUME NEW n \in TreeOutLens, Tree!Finalize(n) PROVE RootInv'
  BY <1>0, <1>12, RootFinalize
<1>13. CASE Tree!FoldParent
  BY <1>0, <1>13, RootFoldParent
<1>14. CASE Tree!AllocateOutput
  BY <1>0, <1>14, RootAllocateOutput
<1>15. CASE Tree!OutputBlock
  BY <1>0, <1>15, RootOutputBlock
<1>16. CASE Tree!FinalizeReturn
  BY <1>0, <1>16, RootFinalizeReturn
<1>17. CASE UNCHANGED Tree!vars
  BY <1>0, <1>17, RootStutters
<1> QED
  BY <1>1, <1>2, <1>3, <1>4, <1>5, <1>6, <1>7, <1>8, <1>9, <1>10, <1>11, <1>12,
     <1>13, <1>14, <1>15, <1>16, <1>17 DEF Tree!Next

-----------------------------------------------------------------------------
(* BLAKE3, the stack as a binary expansion.                                *)

LEMMA SizesFall ==
  ASSUME NEW b, NEW l \in Nat, NEW n, Ends(b, l, n), Falls(b, l)
  PROVE  \A i, j \in 1 .. l : i < j => Size(b, j) < Size(b, i)
<1> DEFINE S == {j \in Nat : \A i \in 1 .. l :
                               j <= l /\ i < j => Size(b, j) < Size(b, i)}
<1>1. ASSUME NEW j \in Nat, \A k \in Nat : k < j => k \in S PROVE j \in S
  <2> SUFFICES ASSUME NEW i \in 1 .. l, j <= l, i < j PROVE Size(b, j) < Size(b, i)
    OBVIOUS
  <2>1. PICK k \in 1 .. l : k = j - 1 /\ k + 1 = j /\ k + 1 <= l
    OBVIOUS
  <2>2. Size(b, k + 1) < Size(b, k)
    BY <2>1 DEF Falls
  <2>3. CASE i = k
    BY <2>1, <2>2, <2>3
  <2>4. CASE i # k
    <3>1. k \in Nat /\ k < j /\ k <= l /\ i < k
      BY <2>1, <2>4
    <3>2. Size(b, k) < Size(b, i)
      BY <1>1, <3>1
    <3>3. j \in 1 .. l
      BY <2>1
    <3>4. Size(b, j) \in Nat /\ Size(b, k) \in Nat /\ Size(b, i) \in Nat
      BY <2>1, <3>3, SizesAre
    <3> QED
      BY <2>1, <2>2, <3>2, <3>4
  <2> QED
    BY <2>3, <2>4
<1>2. \A j \in Nat : j \in S
  <2> HIDE DEF S
  <2> QED
    BY <1>1, SetInduction
<1> QED
  BY <1>2

(* What the ends are a sum of.                                             *)
LEMMA EndsAreSums ==
  ASSUME NEW b, NEW l \in Nat, NEW n, Ends(b, l, n), NEW sizes,
         \A i \in 1 .. l : sizes[i] = Size(b, i), NEW f,
         f = [i \in 0 .. l |-> IF i = 0 THEN 0 ELSE f[i - 1] + sizes[i]]
  PROVE  \A i \in 0 .. l : f[i] = b[i]
<1> DEFINE S == {i \in Nat : i <= l => f[i] = b[i]}
<1>1. ASSUME NEW i \in Nat, \A k \in Nat : k < i => k \in S PROVE i \in S
  <2> SUFFICES ASSUME i <= l PROVE f[i] = b[i]
    OBVIOUS
  <2>1. i \in 0 .. l
    OBVIOUS
  <2>2. f[i] = IF i = 0 THEN 0 ELSE f[i - 1] + sizes[i]
    BY <2>1
  <2>3. CASE i = 0
    BY <2>2, <2>3 DEF Ends
  <2>4. CASE i # 0
    <3>1. i - 1 \in Nat /\ i - 1 < i /\ i - 1 <= l /\ i \in 1 .. l
      BY <2>4
    <3>2. f[i - 1] = b[i - 1]
      BY <1>1, <3>1
    <3>3. b[i] = b[i - 1] + Size(b, i)
      BY <3>1, SizesAre
    <3> QED
      BY <2>2, <2>4, <3>1, <3>2, <3>3
  <2> QED
    BY <2>3, <2>4
<1>2. \A i \in Nat : i \in S
  <2> HIDE DEF S
  <2> QED
    BY <1>1, SetInduction
<1> QED
  BY <1>2

LEMMA EndsFixed ==
  ASSUME NEW b, NEW l \in Nat, NEW n, Ends(b, l, n), NEW sizes,
         \A i \in 1 .. l : sizes[i] = Size(b, i)
  PROVE  b = [i \in 0 .. l |-> IF i = 0 THEN 0 ELSE b[i - 1] + sizes[i]]
<1>1. b \in [0 .. l -> Nat] /\ b[0] = 0
  BY DEF Ends
<1>2. ASSUME NEW i \in 0 .. l
      PROVE  b[i] = IF i = 0 THEN 0 ELSE b[i - 1] + sizes[i]
  <2>1. CASE i = 0
    BY <1>1, <2>1
  <2>2. CASE i # 0
    <3>1. i \in 1 .. l
      BY <2>2
    <3>2. b[i] = b[i - 1] + Size(b, i)
      BY <3>1, SizesAre
    <3> QED
      BY <2>2, <3>1, <3>2
  <2> QED
    BY <2>1, <2>2
<1> QED
  BY <1>1, <1>2

LEMMA RootForest ==
  ASSUME Tree!Blake3Assumption, RootInv
  PROVE  Tree!StackIsForest
<1> SUFFICES ASSUME c_pc \in {"open", "updating", "chunk", "folding"}
             PROVE  \E sizes \in [1 .. Len(c_cv_stack) ->
                                   {s \in 1 .. c_chunk_counter : Tree!count_ones[s] = 1}] :
                      LET before[i \in 0 .. Len(c_cv_stack)] ==
                            IF i = 0 THEN 0 ELSE before[i - 1] + sizes[i]
                      IN /\ \A i, j \in 1 .. Len(c_cv_stack) : i < j => sizes[i] > sizes[j]
                         /\ before[Len(c_cv_stack)] = c_chunk_counter
                         /\ \A i \in 1 .. Len(c_cv_stack) :
                              c_cv_stack[i] = Tree!ChainingValue(
                                Tree!TreeNode(c_key_words, c_flags, before[i - 1], sizes[i],
                                              c_given - c_rest))
  BY DEF Tree!StackIsForest
<1>1. PICK l, n \in Nat : l = Len(c_cv_stack) /\ n = c_chunk_counter
  BY RootFacts
<1>2. PICK b : Ends(b, l, n) /\ Falls(b, l) /\ Covers(b, c_cv_stack, c_key_words, c_flags)
  BY <1>1 DEF RootInv, Stacked, Grown, Folded
<1>3. PICK m \in Nat : m = c_given - c_rest /\ \A i \in 1 .. l : m >= b[i] * CL
  <2>1. PICK start, f, c \in Nat : start = n * CL /\ f = Filled /\ c = CL
    BY <1>1, RootFacts
  <2>2. c_given - c_rest = start + f
    BY <1>1, <2>1 DEF RootInv, Chunking, InChunk
  <2>3. start + f \in Nat
    OBVIOUS
  <2>4. ASSUME NEW i \in 1 .. l PROVE start + f >= b[i] * CL
    <3>1. PICK y \in Nat : y = b[i] /\ n - y \in Nat
      BY <1>2, SizesAre, TailSmall
    <3>2. CASE y = n
      <4>1. start + f >= start
        OBVIOUS
      <4> QED
        BY <2>1, <3>1, <3>2, <4>1
    <3>3. CASE y # n
      <4>1. y < n
        BY <3>1, <3>3
      <4>2. c * y + c <= c * n /\ c * n \in Nat /\ c * y \in Nat
        BY <4>1, MultipleGrows
      <4>3. c * n = n * c /\ c * y = y * c
        BY NextMultiple
      <4>4. start = n * c
        BY <2>1
      <4>5. start + f >= y * c
        BY <4>2, <4>3, <4>4
      <4> QED
        BY <2>1, <3>1, <4>5
    <3> QED
      BY <3>2, <3>3
  <2> QED
    BY <2>2, <2>3, <2>4
<1>4. PICK sizes : sizes = [i \in 1 .. l |-> Size(b, i)]
  OBVIOUS
<1>5. sizes \in [1 .. l -> {s \in 1 .. n : Tree!count_ones[s] = 1}]
  <2>1. ASSUME NEW i \in 1 .. l
        PROVE  Size(b, i) \in {s \in 1 .. n : Tree!count_ones[s] = 1}
    <3>1. /\ Size(b, i) \in Nat \ {0} /\ b[i - 1] \in Nat
          /\ b[i] = b[i - 1] + Size(b, i)
      BY <1>2, SizesAre
    <3>2. n - b[i] \in Nat
      BY <1>2, TailSmall
    <3>3. Size(b, i) \in 1 .. n
      BY <3>1, <3>2
    <3>4. Tree!count_ones[Size(b, i)] = 1
      BY <1>2 DEF Ends, Power, Ones
    <3> QED
      BY <3>3, <3>4
  <2> QED
    BY <1>4, <2>1
<1>6. \A i, j \in 1 .. l : i < j => sizes[i] > sizes[j]
  <2>1. ASSUME NEW i \in 1 .. l, NEW j \in 1 .. l, i < j PROVE sizes[i] > sizes[j]
    <3>1. Size(b, j) < Size(b, i)
      BY <1>2, <2>1, SizesFall
    <3>2. Size(b, j) \in Nat /\ Size(b, i) \in Nat
      BY <1>2, SizesAre
    <3> QED
      BY <1>4, <3>1, <3>2
  <2> QED
    BY <2>1
<1> DEFINE IsFixed(g) == g = [i \in 0 .. Len(c_cv_stack) |->
                                IF i = 0 THEN 0 ELSE g[i - 1] + sizes[i]]
           F == CHOOSE g : IsFixed(g)
<1>7. \A i \in 0 .. l : F[i] = b[i]
  <2>1. \A i \in 1 .. l : sizes[i] = Size(b, i)
    BY <1>4
  <2>2. IsFixed(b)
    BY <1>1, <1>2, <2>1, EndsFixed
  <2>3. IsFixed(F)
    BY <2>2
  <2>4. F = [i \in 0 .. l |-> IF i = 0 THEN 0 ELSE F[i - 1] + sizes[i]]
    BY <1>1, <2>3
  <2> HIDE DEF F, IsFixed
  <2> QED
    BY <1>2, <2>1, <2>4, EndsAreSums
<1>8. F[l] = n
  BY <1>2, <1>7 DEF Ends
<1>9. ASSUME NEW i \in 1 .. l
      PROVE  c_cv_stack[i] = Tree!ChainingValue(
                               Tree!TreeNode(c_key_words, c_flags, F[i - 1], sizes[i], m))
  <2> HIDE DEF F
  <2>1. i - 1 \in 0 .. l /\ F[i - 1] = b[i - 1] /\ sizes[i] = Size(b, i)
    BY <1>4, <1>7
  <2>2. m >= b[i] * CL
    BY <1>3
  <2>3. c_cv_stack[i] = Tree!ChainingValue(
          Tree!TreeNode(c_key_words, c_flags, b[i - 1], Size(b, i), m))
    BY <1>1, <1>2, <2>2 DEF Covers
  <2> QED
    BY <2>1, <2>3
<1>10. sizes \in [1 .. Len(c_cv_stack) ->
                   {s \in 1 .. c_chunk_counter : Tree!count_ones[s] = 1}]
  BY <1>1, <1>5
<1> WITNESS sizes \in [1 .. Len(c_cv_stack) ->
                        {s \in 1 .. c_chunk_counter : Tree!count_ones[s] = 1}]
<1>11. /\ \A i, j \in 1 .. Len(c_cv_stack) : i < j => sizes[i] > sizes[j]
       /\ F[Len(c_cv_stack)] = c_chunk_counter
       /\ \A i \in 1 .. Len(c_cv_stack) :
            c_cv_stack[i] = Tree!ChainingValue(
              Tree!TreeNode(c_key_words, c_flags, F[i - 1], sizes[i], c_given - c_rest))
  <2> HIDE DEF F
  <2> QED
    BY <1>1, <1>3, <1>6, <1>8, <1>9
<1> QED
  BY <1>11

-----------------------------------------------------------------------------
(* blake2b_long.                                                           *)

(* While the chain is built, r leaves the last digest between a half and a *)
(* full one, and the digests so far are a chain that filled "written".     *)
Building ==
  pc = "chain" =>
    /\ HALF * r + HALF < out_len /\ out_len <= HALF * r + FULL
    /\ last_len = out_len - HALF * r
    /\ Len(inputs) \in 1 .. r /\ written = HALF * Len(inputs)
    /\ prev = Digest(Len(inputs), FULL)
    /\ inputs[1] = Seed(out_len)
    /\ \A k \in 2 .. Len(inputs) : inputs[k] = Digest(k - 1, FULL)
    /\ \A i \in 1 .. written :
         out[i] = Byte(((i - 1) \div HALF) + 1, ((i - 1) % HALF) + 1)

IInv == LongTypeOK /\ OutputIsChain /\ LongNeverPanics /\ Building

(* The comment "always 33..=64", for any half.                             *)
LEMMA RoundsFit ==
  ASSUME NEW n \in Nat, FULL < n
  PROVE  /\ Rounds(n) \in Nat \ {0} /\ HALF * Rounds(n) \in Nat
         /\ HALF * Rounds(n) + HALF < n /\ n <= HALF * Rounds(n) + FULL
<1> DEFINE x == n + HALF - 1
           c == x \div HALF
           s == x % HALF
<1>h. HALF \in Nat \ {0} /\ FULL = HALF + HALF /\ FULL \in Nat
  BY Blake2bLongAssumption, SMT DEF FULL
<1>1. x \in Nat
  BY <1>h, SMT
<1>2. x = HALF * c + s /\ s \in 0 .. HALF - 1 /\ c \in Nat
  BY <1>1, <1>h, Division
<1>x. x = n + HALF - 1
  OBVIOUS
<1> HIDE DEF x, c, s
<1>3. 2 < c
  <2>1. c < 3 => HALF * c + HALF <= HALF * 3
    BY <1>h, <1>2, MultipleGrows
  <2>2. HALF * 3 = HALF + HALF + HALF
    BY <1>h, SMT
  <2>3. HALF * c \in Nat
    BY <1>h, <1>2, SMT
  <2> QED BY <2>1, <2>2, <2>3, <1>h, <1>2, <1>x, SMT
<1>4. PICK k \in Nat \ {0} : c = k + 2
  BY <1>3, <1>2, SMT
<1>5. Rounds(n) = k
  BY <1>4, <1>h, SMT DEF Rounds, Ceil, c, x
<1>6. HALF * c = HALF * k + HALF + HALF /\ HALF * k \in Nat
  BY <1>4, <1>h, SMT
<1> QED BY <1>1, <1>2, <1>x, <1>h, <1>5, <1>6, SMT

-----------------------------------------------------------------------------
LEMMA InitIInv == Init => IInv
BY Blake2bLongAssumption
DEF Init, IInv, LongTypeOK, OutputIsChain, LongNeverPanics, Building, Digest, FULL

(* The first half digest of a long output.                                 *)
LEMMA LongStarts ==
  ASSUME LongTypeOK, NEW n \in Nat, Long(n)
  PROVE  IInv'
<1>h. HALF \in Nat \ {0} /\ FULL = HALF + HALF /\ FULL \in Nat
  BY Blake2bLongAssumption, SMT DEF FULL
<1>n. pc' = "chain" /\ out_len' = n /\ r' = Rounds(n) /\ FULL < n
      /\ last_len' = n - HALF * r' /\ written' = HALF
      /\ prev' = Digest(1, FULL) /\ inputs' = <<Seed(n)>>
  BY <1>h, SMT DEF Long
<1>o. out' = [i \in 1 .. n |-> IF i <= HALF THEN Byte(1, i) ELSE NoByte]
  BY DEF Long
<1>1. /\ r' \in Nat \ {0} /\ HALF * r' \in Nat
      /\ HALF * r' + HALF < n /\ n <= HALF * r' + FULL
  BY <1>n, RoundsFit
<1>2. last_len' \in 0 .. FULL /\ written' \in 0 .. n
  BY <1>h, <1>n, <1>1, SMT
<1>3. out' \in [1 .. n -> [chain : Nat, byte : Nat]]
  <2>1. \A i \in 1 .. n : Byte(1, i) \in [chain : Nat, byte : Nat]
    BY SMT DEF Byte
  <2>2. NoByte \in [chain : Nat, byte : Nat]
    BY SMT DEF NoByte, Byte
  <2> QED BY <1>o, <2>1, <2>2
<1>4. prev' \in [chain : Nat, len : Nat]
      /\ inputs' \in Seq([chain : Nat, len : Nat])
      /\ Len(inputs') = 1 /\ inputs'[1] = Seed(n)
  BY <1>h, <1>n, SMT DEF Digest, Seed
<1>5. LongTypeOK'
  <2>1. pc' \in {"none", "chain", "done", "error", "panic"}
    BY <1>n
  <2> QED BY <2>1, <1>n, <1>1, <1>2, <1>3, <1>4 DEF LongTypeOK
<1>6. \A i \in 1 .. HALF :
        out'[i] = Byte(((i - 1) \div HALF) + 1, ((i - 1) % HALF) + 1)
  <2> TAKE i \in 1 .. HALF
  <2>1. i - 1 \in 0 .. HALF - 1 /\ 0 \in Nat /\ HALF * 0 + (i - 1) = i - 1
    BY <1>h, SMT
  <2>2. (i - 1) \div HALF = 0 /\ (i - 1) % HALF = i - 1
    BY <2>1, <1>h, QuotientUnique
  <2>3. out'[i] = Byte(1, i)
    BY <1>o, <1>n, <1>h, SMT
  <2>4. ((i - 1) \div HALF) + 1 = 1 /\ ((i - 1) % HALF) + 1 = i
    BY <2>2, <1>h, SMT
  <2> QED BY <2>3, <2>4
<1>7. 1 \in 1 .. r' /\ HALF * 1 = HALF /\ 2 .. 1 = {}
  BY <1>h, <1>1, SMT
<1>8. Building'
  BY <1>n, <1>1, <1>4, <1>6, <1>7 DEF Building
<1> QED BY <1>n, <1>5, <1>8 DEF IInv, OutputIsChain, LongNeverPanics

(* One more half digest.                                                   *)
LEMMA ChainGrows ==
  ASSUME IInv, HalfDigest
  PROVE  IInv'
<1> DEFINE m == Len(inputs)
<1>h. HALF \in Nat \ {0} /\ FULL = HALF + HALF /\ FULL \in Nat
  BY Blake2bLongAssumption, SMT DEF FULL
<1>t. LongTypeOK
  BY DEF IInv
<1>b. /\ HALF * r + HALF < out_len /\ out_len <= HALF * r + FULL
      /\ last_len = out_len - HALF * r
      /\ m \in 1 .. r /\ written = HALF * m
      /\ prev = Digest(m, FULL) /\ inputs[1] = Seed(out_len)
  BY DEF IInv, Building, HalfDigest
<1>c. \A k \in 2 .. m : inputs[k] = Digest(k - 1, FULL)
  BY DEF IInv, Building, HalfDigest
<1>d. \A i \in 1 .. written :
        out[i] = Byte(((i - 1) \div HALF) + 1, ((i - 1) % HALF) + 1)
  BY DEF IInv, Building, HalfDigest
<1>n. /\ pc = "chain" /\ m < r /\ pc' = pc
      /\ out_len' = out_len /\ r' = r /\ last_len' = last_len
      /\ prev' = Digest(m + 1, FULL) /\ inputs' = Append(inputs, prev)
      /\ written' = written + HALF
      /\ out' = [i \in 1 .. out_len |->
                   IF i \in written + 1 .. written + HALF
                     THEN Byte(m + 1, i - written) ELSE out[i]]
  BY DEF HalfDigest, Following
<1>s. inputs \in Seq([chain : Nat, len : Nat]) /\ r \in Nat /\ out_len \in Nat
      /\ out \in [1 .. out_len -> [chain : Nat, byte : Nat]]
      /\ written \in Nat /\ prev \in [chain : Nat, len : Nat] /\ m \in Nat
  BY <1>t DEF LongTypeOK
<1> HIDE DEF m
<1>1. HALF * (m + 1) = HALF * m + HALF /\ HALF * m \in Nat /\ HALF * r \in Nat
  BY <1>h, <1>s, SMT
<1>2. HALF * m + HALF <= HALF * r
  BY <1>h, <1>s, <1>n, MultipleGrows
<1>3. written' = HALF * (m + 1) /\ written' \in 0 .. out_len
  <2>1. written' = HALF * (m + 1)
    BY <1>1, <1>n, <1>b
  <2>2. written' = written + HALF /\ written + HALF <= HALF * r
        /\ HALF * r + HALF < out_len /\ written \in Nat
    BY <1>2, <1>n, <1>b, <1>s
  <2>3. written' \in 0 .. out_len
    BY <2>2, <1>h, <1>1, <1>s, SMT
  <2> QED BY <2>1, <2>3
<1>4. Len(inputs') = m + 1 /\ inputs' \in Seq([chain : Nat, len : Nat])
      /\ inputs'[m + 1] = prev /\ \A k \in 1 .. m : inputs'[k] = inputs[k]
  BY <1>n, <1>s, SMT DEF m
<1>5. prev' \in [chain : Nat, len : Nat]
  BY <1>n, <1>h, <1>s, SMT DEF Digest
<1>6. out' \in [1 .. out_len -> [chain : Nat, byte : Nat]]
  <2>1. \A i \in written + 1 .. written + HALF :
          Byte(m + 1, i - written) \in [chain : Nat, byte : Nat]
    BY <1>s, SMT DEF Byte
  <2>2. \A i \in 1 .. out_len : out[i] \in [chain : Nat, byte : Nat]
    BY <1>s
  <2> QED BY <1>n, <2>1, <2>2
<1>7. LongTypeOK'
  <2>1. pc' \in {"none", "chain", "done", "error", "panic"}
    BY <1>n
  <2>2. last_len' \in 0 .. FULL /\ r' \in Nat /\ out_len' \in Nat
    BY <1>n, <1>t DEF LongTypeOK
  <2> QED BY <2>1, <2>2, <1>3, <1>4, <1>5, <1>6, <1>n DEF LongTypeOK
<1>8. \A i \in 1 .. written' :
        out'[i] = Byte(((i - 1) \div HALF) + 1, ((i - 1) % HALF) + 1)
  <2> SUFFICES ASSUME NEW i \in 1 .. written'
               PROVE  out'[i] = Byte(((i - 1) \div HALF) + 1,
                                     ((i - 1) % HALF) + 1)
    OBVIOUS
  <2>i. i \in 1 .. out_len /\ i \in 1 .. written + HALF
    BY <1>3, <1>n, <1>s, <1>h, SMT
  <2>1. CASE i <= written
    <3>1. i \in 1 .. written /\ i \notin written + 1 .. written + HALF
      BY <2>1, <2>i, <1>s, <1>h, SMT
    <3> QED BY <3>1, <1>d, <2>i, <1>n
  <2>2. CASE ~ (i <= written)
    <3> DEFINE j == i - 1 - HALF * m
    <3>1. i \in written + 1 .. written + HALF
      BY <2>2, <2>i, <1>s, <1>h, SMT
    <3>2. out'[i] = Byte(m + 1, i - written)
      BY <3>1, <2>i, <1>n
    <3>3. j \in 0 .. HALF - 1 /\ HALF * m + j = i - 1
          /\ j + 1 = i - written
      BY <3>1, <1>1, <1>b, <1>h, <1>s, SMT
    <3> HIDE DEF j
    <3>4. (i - 1) \div HALF = m /\ (i - 1) % HALF = j
      <4>1. (HALF * m + j) \div HALF = m /\ (HALF * m + j) % HALF = j
        BY <3>3, <1>h, <1>s, QuotientUnique
      <4> QED BY <4>1, <3>3
    <3>5. ((i - 1) \div HALF) + 1 = m + 1 /\ ((i - 1) % HALF) + 1 = i - written
      BY <3>3, <3>4
    <3> QED BY <3>2, <3>5
  <2> QED BY <2>1, <2>2
<1>9. \A k \in 2 .. m + 1 : inputs'[k] = Digest(k - 1, FULL)
  <2> SUFFICES ASSUME NEW k \in 2 .. m + 1
               PROVE  inputs'[k] = Digest(k - 1, FULL)
    OBVIOUS
  <2>1. CASE k = m + 1
    <3>1. k - 1 = m
      BY <2>1, <1>s, SMT
    <3> QED BY <3>1, <2>1, <1>4, <1>b
  <2>2. CASE k # m + 1
    <3>1. k \in 2 .. m /\ k \in 1 .. m
      BY <2>2, <1>s, SMT
    <3> QED BY <3>1, <1>4, <1>c
  <2> QED BY <2>1, <2>2
<1>10. m + 1 \in 1 .. r /\ 1 \in 1 .. m
  BY <1>n, <1>b, <1>s, SMT
<1>11. inputs'[1] = Seed(out_len)
  BY <1>10, <1>4, <1>b
<1>12. Building'
  BY <1>n, <1>b, <1>3, <1>4, <1>8, <1>9, <1>10, <1>11 DEF Building
<1> QED BY <1>n, <1>7, <1>12 DEF IInv, OutputIsChain, LongNeverPanics

(* The last digest.                                                        *)
LEMMA ChainEnds ==
  ASSUME IInv, LastDigest
  PROVE  IInv'
<1> DEFINE m == Len(inputs)
<1>h. HALF \in Nat \ {0} /\ FULL = HALF + HALF /\ FULL \in Nat
  BY Blake2bLongAssumption, SMT DEF FULL
<1>t. LongTypeOK
  BY DEF IInv
<1>b. /\ HALF * r + HALF < out_len /\ out_len <= HALF * r + FULL
      /\ last_len = out_len - HALF * r
      /\ m \in 1 .. r /\ written = HALF * m
      /\ prev = Digest(m, FULL) /\ inputs[1] = Seed(out_len)
  BY DEF IInv, Building, LastDigest
<1>c. \A k \in 2 .. m : inputs[k] = Digest(k - 1, FULL)
  BY DEF IInv, Building, LastDigest
<1>d. \A i \in 1 .. written :
        out[i] = Byte(((i - 1) \div HALF) + 1, ((i - 1) % HALF) + 1)
  BY DEF IInv, Building, LastDigest
<1>s. inputs \in Seq([chain : Nat, len : Nat]) /\ r \in Nat /\ out_len \in Nat
      /\ out \in [1 .. out_len -> [chain : Nat, byte : Nat]]
      /\ written \in Nat /\ prev \in [chain : Nat, len : Nat] /\ m \in Nat
  BY <1>t DEF LongTypeOK
<1>g. m >= r /\ out_len' = out_len /\ r' = r /\ last_len' = last_len
      /\ prev' = Digest(m + 1, last_len) /\ inputs' = Append(inputs, prev)
  BY DEF LastDigest, Following
<1> HIDE DEF m
<1>1. m = r /\ HALF * r \in Nat /\ HALF * m = HALF * r
  BY <1>b, <1>g, <1>s, <1>h, SMT
<1>2. last_len \in 1 .. FULL /\ last_len = out_len - written
  BY <1>1, <1>b, <1>h, <1>s, SMT
<1>n. /\ pc' = "done" /\ written' = out_len
      /\ out' = [i \in 1 .. out_len |->
                   IF i > written THEN Byte(m + 1, i - written) ELSE out[i]]
  BY <1>2 DEF LastDigest, Following, m
<1>4. Len(inputs') = m + 1 /\ inputs' \in Seq([chain : Nat, len : Nat])
      /\ inputs'[m + 1] = prev /\ \A k \in 1 .. m : inputs'[k] = inputs[k]
  BY <1>g, <1>s, SMT DEF m
<1>5. prev' \in [chain : Nat, len : Nat]
  BY <1>g, <1>2, <1>h, <1>s, SMT DEF Digest
<1>6. out' \in [1 .. out_len -> [chain : Nat, byte : Nat]]
  <2>1. \A i \in 1 .. out_len : i > written =>
          Byte(m + 1, i - written) \in [chain : Nat, byte : Nat]
    BY <1>s, SMT DEF Byte
  <2>2. \A i \in 1 .. out_len : out[i] \in [chain : Nat, byte : Nat]
    BY <1>s
  <2> QED BY <1>n, <2>1, <2>2
<1>7. LongTypeOK'
  <2>1. pc' \in {"none", "chain", "done", "error", "panic"}
    BY <1>n
  <2>2. last_len' \in 0 .. FULL /\ r' \in Nat /\ out_len' \in Nat
    BY <1>g, <1>t DEF LongTypeOK
  <2>3. written' \in 0 .. out_len'
    BY <1>n, <1>g, <1>s, SMT
  <2> QED BY <2>1, <2>2, <2>3, <1>4, <1>5, <1>6, <1>g DEF LongTypeOK
<1>8. OutputIsChain'
  <2>1. Len(inputs') - 1 = m /\ HALF * (Len(inputs') - 1) = written
    <3>1. Len(inputs') - 1 = m
      BY <1>4, <1>s, SMT
    <3> QED BY <3>1, <1>b
  <2>2. written + HALF < out_len /\ out_len <= written + FULL
    BY <1>b, <1>1
  <2>3. prev' = Digest(m + 1, out_len - written)
    BY <1>g, <1>2
  <2>4. inputs'[1] = Seed(out_len)
    <3>1. 1 \in 1 .. m
      BY <1>b, <1>s, SMT
    <3> QED BY <3>1, <1>4, <1>b
  <2>5. \A k \in 2 .. m + 1 : inputs'[k] = Digest(k - 1, FULL)
    <3> SUFFICES ASSUME NEW k \in 2 .. m + 1
                 PROVE  inputs'[k] = Digest(k - 1, FULL)
      OBVIOUS
    <3>1. CASE k = m + 1
      <4>1. k - 1 = m
        BY <3>1, <1>s, SMT
      <4> QED BY <4>1, <3>1, <1>4, <1>b
    <3>2. CASE k # m + 1
      <4>1. k \in 2 .. m /\ k \in 1 .. m
        BY <3>2, <1>s, SMT
      <4> QED BY <4>1, <1>4, <1>c
    <3> QED BY <3>1, <3>2
  <2>6. \A i \in 1 .. written :
          out'[i] = Byte(((i - 1) \div HALF) + 1, ((i - 1) % HALF) + 1)
    <3> SUFFICES ASSUME NEW i \in 1 .. written
                 PROVE  out'[i] = Byte(((i - 1) \div HALF) + 1,
                                       ((i - 1) % HALF) + 1)
      OBVIOUS
    <3>1. i \in 1 .. out_len /\ ~ (i > written)
      BY <2>2, <1>s, <1>h, SMT
    <3>2. out'[i] = out[i]
      BY <3>1, <1>n
    <3> QED BY <3>2, <1>d
  <2>7. \A i \in written + 1 .. out_len : out'[i] = Byte(m + 1, i - written)
    <3> SUFFICES ASSUME NEW i \in written + 1 .. out_len
                 PROVE  out'[i] = Byte(m + 1, i - written)
      OBVIOUS
    <3>1. i \in 1 .. out_len /\ i > written
      BY <1>s, SMT
    <3> QED BY <3>1, <1>n
  <2> QED BY <2>1, <2>2, <2>3, <2>4, <2>5, <2>6, <2>7, <1>4, <1>g
          DEF OutputIsChain
<1> QED BY <1>n, <1>7, <1>8 DEF IInv, LongNeverPanics, Building

-----------------------------------------------------------------------------
LEMMA StepIInv == IInv /\ [Next]_vars => IInv'
<1> SUFFICES ASSUME IInv, [Next]_vars PROVE IInv'
  OBVIOUS
<1>h. HALF \in Nat \ {0} /\ FULL = HALF + HALF /\ FULL \in Nat
      /\ OutLens \subseteq Nat
  BY Blake2bLongAssumption, SMT DEF FULL
<1>t. LongTypeOK
  BY DEF IInv
<1>1. ASSUME NEW n \in OutLens, Short(n)
      PROVE  IInv'
  <2>1. n \in 1 .. FULL /\ n \in Nat
    BY <1>1, <1>h DEF Short
  <2>2. pc' = "done" /\ out_len' = n /\ r' = 0 /\ last_len' = 0
        /\ written' = n /\ prev' = Digest(1, n) /\ inputs' = <<Seed(n)>>
        /\ out' = [i \in 1 .. n |-> Byte(1, i)]
    BY <1>1 DEF Short
  <2>3. out' \in [1 .. n -> [chain : Nat, byte : Nat]]
    <3>1. \A i \in 1 .. n : Byte(1, i) \in [chain : Nat, byte : Nat]
      BY SMT DEF Byte
    <3> QED BY <2>2, <3>1
  <2>4. prev' \in [chain : Nat, len : Nat]
        /\ inputs' \in Seq([chain : Nat, len : Nat])
    BY <2>1, <2>2, SMT DEF Digest, Seed
  <2>5. last_len' \in 0 .. FULL /\ written' \in 0 .. n /\ ~ (n > FULL)
        /\ r' \in Nat
    BY <2>1, <2>2, <1>h, SMT
  <2>6. LongTypeOK'
    BY <2>1, <2>2, <2>3, <2>4, <2>5 DEF LongTypeOK
  <2> QED BY <2>2, <2>5, <2>6
          DEF IInv, OutputIsChain, LongNeverPanics, Building
<1>2. ASSUME NEW n \in OutLens, Long(n)
      PROVE  IInv'
  BY <1>2, <1>t, <1>h, LongStarts
<1>3. ASSUME NEW n \in OutLens, Refuse(n)
      PROVE  IInv'
  BY <1>3, <1>t
  DEF Refuse, IInv, LongTypeOK, OutputIsChain, LongNeverPanics, Building
<1>4. CASE HalfDigest
  BY <1>4, ChainGrows
<1>5. CASE LastDigest
  BY <1>5, ChainEnds
<1>6. CASE UNCHANGED vars
  BY <1>6
  DEF vars, IInv, LongTypeOK, OutputIsChain, LongNeverPanics, Building
<1> QED BY <1>1, <1>2, <1>3, <1>4, <1>5, <1>6 DEF Next

(* For every half, limit and output length, blake2b_long gives out the     *)
(* chain of RFC 9106: each byte of the output is written once, from the    *)
(* digest and the place it belongs to.                                     *)
THEOREM LongIsChain == Spec => []OutputIsChain
<1>1. Init => IInv
  BY InitIInv
<1>2. IInv /\ [Next]_vars => IInv'
  BY StepIInv
<1>3. IInv => OutputIsChain
  BY DEF IInv
<1> QED BY <1>1, <1>2, <1>3, PTL DEF Spec

(* No output length makes blake2b_long panic: last_len is always a length  *)
(* that Blake2b::new accepts, and the room that is left.                   *)
THEOREM LongDoesNotPanic == Spec => []LongNeverPanics
<1>1. Init => IInv
  BY InitIInv
<1>2. IInv /\ [Next]_vars => IInv'
  BY StepIInv
<1>3. IInv => LongNeverPanics
  BY DEF IInv
<1> QED BY <1>1, <1>2, <1>3, PTL DEF Spec

-----------------------------------------------------------------------------
(* The hash functions side by side: what holds of each by itself holds     *)
(* while any of them is used.                                              *)

LEMMA OneAtATime ==
  ASSUME [HashesNext]_allVars
  PROVE  /\ [Sponge!Next]_(Sponge!vars) /\ [Blake2!Next]_(Blake2!vars)
         /\ [Tree!Next]_(Tree!vars)
<1>1. [Sponge!Next]_(Sponge!vars)
  BY DEF HashesNext, allVars, sponge, Sponge!vars
<1>2. [Blake2!Next]_(Blake2!vars)
  BY DEF HashesNext, allVars, blake2, Blake2!vars
<1>3. [Tree!Next]_(Tree!vars)
  BY DEF HashesNext, allVars, tree, Tree!vars, Tree!keys, Tree!chunk_state,
         Tree!final
<1> QED
  BY <1>1, <1>2, <1>3

LEMMA HashesBegin ==
  HashesInit => B2Inv /\ SpongeInv /\ RootInv
  BY HashesAssumption, B2Init, SpongeInit, RootInit DEF HashesInit

LEMMA HashesGoOn ==
  B2Inv /\ SpongeInv /\ RootInv /\ [HashesNext]_allVars
    => B2Inv' /\ SpongeInv' /\ RootInv'
<1> SUFFICES ASSUME B2Inv, SpongeInv, RootInv, [HashesNext]_allVars
             PROVE  B2Inv' /\ SpongeInv' /\ RootInv'
  OBVIOUS
<1>1. /\ [Sponge!Next]_(Sponge!vars) /\ [Blake2!Next]_(Blake2!vars)
      /\ [Tree!Next]_(Tree!vars)
  BY OneAtATime
<1> QED
  BY <1>1, HashesAssumption, B2Step, SpongeStep, RootStep

(* BLAKE2b's digest is of key block and message, the last block compressed *)
(* as the last and under the count of all bytes, as RFC 7693 has it: a     *)
(* full buffer waits until there is more, and the carry into the second    *)
(* word of the counter comes when the first one wraps.                     *)
THEOREM BlakeDigestIsOfMessage == HashesSpec => []DigestOfMessage
<1>1. B2Inv /\ SpongeInv /\ RootInv => DigestOfMessage
  BY DEF B2Inv, DigestOfMessage
<1> QED
  BY <1>1, HashesBegin, HashesGoOn, PTL DEF HashesSpec

(* What SHA-3 and SHAKE squeeze is the state of the padded message, and    *)
(* the output is the rate of one state after the other: the stale bytes of *)
(* the buffer never reach a block, and no lane is left out or taken twice. *)
(* The output of BLAKE3 is the stream of the root's blocks, each under its *)
(* own counter, and as long as asked for.                                  *)
THEOREM OutputsAreStreams == HashesSpec => []OutputIsStream
<1>1. B2Inv /\ SpongeInv /\ RootInv => OutputIsStream
  BY DEF SpongeInv, RootInv, TreeInv, Tree!OutputIsStream, RootByte, OutputIsStream
<1> QED
  BY <1>1, HashesBegin, HashesGoOn, PTL DEF HashesSpec

(* However a message is cut into calls of update, the root of BLAKE3 is    *)
(* that of the tree over the whole message: between merges the stack is    *)
(* the binary expansion of the number of chunks, one complete subtree for  *)
(* each one bit, which is what counting the one bits in merge_cv_stack     *)
(* comes to; and only a message of more than 2 ^ DEPTH chunks overflows    *)
(* the stack.                                                              *)
THEOREM RootsAreTrees == HashesSpec => []RootIsTree
<1>1. B2Inv /\ SpongeInv /\ RootInv => RootIsTree
  BY HashesAssumption, RootForest DEF RootInv, Kinds, RootIsTree
<1> QED
  BY <1>1, HashesBegin, HashesGoOn, PTL DEF HashesSpec
=============================================================================
