--------------------------- MODULE CiphersProofs ----------------------------
(***************************************************************************)
(* What holds of the symmetric ciphers while any of them is used, for      *)
(* every size of blocks and counters and every set of nonces, texts and    *)
(* buffers.                                                                *)
(*                                                                         *)
(* The two authenticated ciphers, ChaCha20Poly1305 (chacha20/src/aead.rs)  *)
(* and AES256GCM (aes/src/gcm.rs), implement IdealAead, keep the caller's  *)
(* buffer, and use no key stream twice within a packet.  Why only what was *)
(* sealed opens: the input of the authenticator is padded data, padded     *)
(* ciphertext and a block with their lengths, which can be read in one way *)
(* only (PartsOnce), so that equal tags are those of equal packets; and    *)
(* key stream over key stream is the plaintext (KeystreamUndone).  The     *)
(* invariant of both is that every packet in a_sent is the one encryption  *)
(* makes of its plaintext.                                                 *)
(*                                                                         *)
(* The key stream object (chacha20/src/chacha20.rs) gives no block out     *)
(* twice and masks with its blocks in order; Poly1305                      *)
(* (chacha20/src/poly1305.rs) authenticates the whole message; and CTR and *)
(* CBC (aes/src/ctr.rs, cbc.rs) chain as they should, and read back what   *)
(* was written.                                                            *)
(***************************************************************************)
EXTENDS Ciphers, TLAPS


-----------------------------------------------------------------------------
(* Arithmetic.                                                             *)

LEMMA Division ==
  ASSUME NEW x \in Nat, NEW m \in Nat \ {0}
  PROVE  /\ x = m * (x \div m) + (x % m)
         /\ x % m \in 0 .. m - 1 /\ x \div m \in Nat
<1>1. x = m * (x \div m) + (x % m)
  BY SMT
<1>2. x % m \in 0 .. m - 1
  BY SMT
<1>3. x \div m \in Nat
  BY SMT
<1> QED BY <1>1, <1>2, <1>3

LEMMA MultipleGrows ==
  ASSUME NEW m \in Nat, NEW p \in Nat, NEW q \in Nat, p < q
  PROVE  m * q \in Nat /\ m * p \in Nat /\ m * p + m <= m * q
<1>1. PICK d \in Nat : q = p + 1 + d
  BY SMT
<1>2. m * q = m * p + m + m * d /\ m * d \in Nat /\ m * p \in Nat
  BY <1>1, SMT
<1> QED BY <1>2, SMT

(* The blocks of the first m * limit bytes are numbered from 0 on.         *)
LEMMA BlockNumber ==
  ASSUME NEW m \in Nat \ {0}, NEW limit \in Nat, NEW i \in Nat \ {0},
         i <= m * limit
  PROVE  (i - 1) \div m \in 0 .. limit - 1 /\ (i - 1) % m \in 0 .. m - 1
<1> DEFINE q == (i - 1) \div m
           r == (i - 1) % m
<1>1. /\ i - 1 = m * q + r /\ q \in Nat
      /\ r \in Nat /\ r < m
  <2>1. i - 1 \in Nat
    OBVIOUS
  <2> QED
    BY <2>1, Division
<1> HIDE DEF q, r
<1>2. CASE q < limit
  BY <1>1, <1>2 DEF q, r
<1>3. CASE q = limit
  BY <1>1, <1>3
<1>4. CASE q > limit
  <2>1. m * limit + m <= m * q /\ m * limit \in Nat /\ m * q \in Nat
    BY <1>1, <1>4, MultipleGrows
  <2> QED
    BY <1>1, <2>1
<1> QED
  BY <1>1, <1>2, <1>3, <1>4

(* A block's number and the place in it say which byte it is.              *)
LEMMA OtherByte ==
  ASSUME NEW m \in Nat \ {0}, NEW i \in Nat \ {0}, NEW j \in Nat \ {0},
         (i - 1) \div m = (j - 1) \div m, (i - 1) % m = (j - 1) % m
  PROVE  i = j
<1>1. i - 1 \in Nat /\ j - 1 \in Nat
  OBVIOUS
<1>2. i - 1 = m * ((i - 1) \div m) + ((i - 1) % m)
  BY <1>1, Division
<1>3. j - 1 = m * ((j - 1) \div m) + ((j - 1) % m)
  BY <1>1, Division
<1>4. i - 1 = j - 1
  BY <1>2, <1>3
<1> QED
  BY <1>1, <1>4

-----------------------------------------------------------------------------
(* Texts: sequences of whatever bytes.                                     *)

Text(s) == \E S : s \in Seq(S)

LEMMA TextIs ==
  ASSUME NEW s, Text(s)
  PROVE  /\ Len(s) \in Nat /\ DOMAIN s = 1 .. Len(s)
         /\ s = [i \in 1 .. Len(s) |-> s[i]]
<1>1. PICK S : s \in Seq(S)
  BY DEF Text
<1> QED
  BY <1>1, SMT

LEMMA SameText ==
  ASSUME NEW s, NEW u, Text(s), Text(u), Len(s) = Len(u),
         \A i \in 1 .. Len(s) : s[i] = u[i]
  PROVE  s = u
<1>1. s = [i \in 1 .. Len(s) |-> s[i]] /\ u = [i \in 1 .. Len(u) |-> u[i]]
  BY TextIs
<1> QED
  BY <1>1

LEMMA TextMade ==
  ASSUME NEW n \in Nat, NEW s, s = [i \in 1 .. n |-> s[i]]
  PROVE  Text(s) /\ Len(s) = n
<1> DEFINE S == {s[i] : i \in 1 .. n}
<1>1. s \in [1 .. n -> S]
  OBVIOUS
<1> HIDE DEF S
<1>2. s \in Seq(S) /\ Len(s) = n
  BY <1>1, SMT
<1> QED
  BY <1>2 DEF Text

LEMMA TextJoined ==
  ASSUME NEW s, NEW u, Text(s), Text(u)
  PROVE  /\ Text(s \o u) /\ Len(s \o u) = Len(s) + Len(u)
         /\ \A i \in 1 .. Len(s) : (s \o u)[i] = s[i]
         /\ \A i \in 1 .. Len(u) : (s \o u)[Len(s) + i] = u[i]
<1>1. PICK S : s \in Seq(S)
  BY DEF Text
<1>2. PICK U : u \in Seq(U)
  BY DEF Text
<1>3. s \in Seq(S \cup U) /\ u \in Seq(S \cup U)
  BY <1>1, <1>2, SMT
<1> DEFINE T == S \cup U
<1> HIDE DEF T
<1>4. s \in Seq(T) /\ u \in Seq(T)
  BY <1>3 DEF T
<1>5. s \o u \in Seq(T) /\ Len(s \o u) = Len(s) + Len(u)
  BY <1>4, SMT
<1>6. \A i \in 1 .. Len(s) : (s \o u)[i] = s[i]
  BY <1>4, SMT
<1>7. \A i \in 1 .. Len(u) : (s \o u)[Len(s) + i] = u[i]
  BY <1>4, SMT
<1> QED
  BY <1>5, <1>6, <1>7 DEF Text

Join(s, u) == s \o u

LEMMA JoinedOnce ==
  ASSUME NEW s, NEW u, NEW v, NEW w, Text(s), Text(u), Text(v), Text(w),
         Join(s, u) = Join(v, w), Len(u) = Len(w)
  PROVE  s = v /\ u = w
<1>1. Len(s) \in Nat /\ Len(u) \in Nat /\ Len(v) \in Nat
  BY TextIs
<1>0. s \o u = v \o w
  BY DEF Join
<1>2. Len(s) + Len(u) = Len(v) + Len(w)
  BY <1>0, TextJoined
<1>3. Len(s) = Len(v)
  BY <1>1, <1>2
<1>4. \A i \in 1 .. Len(s) : s[i] = v[i]
  <2>1. \A i \in 1 .. Len(s) : (s \o u)[i] = s[i]
    BY TextJoined
  <2>2. \A i \in 1 .. Len(v) : (v \o w)[i] = v[i]
    BY TextJoined
  <2> QED
    BY <1>0, <1>3, <2>1, <2>2
<1>5. \A i \in 1 .. Len(u) : u[i] = w[i]
  <2>1. \A i \in 1 .. Len(u) : (s \o u)[Len(s) + i] = u[i]
    BY TextJoined
  <2>2. \A i \in 1 .. Len(w) : (v \o w)[Len(v) + i] = w[i]
    BY TextJoined
  <2> QED
    BY <1>0, <1>3, <2>1, <2>2
<1> QED
  BY <1>3, <1>4, <1>5, SameText

-----------------------------------------------------------------------------
(* Bytes and the key stream.                                               *)

LEMMA XorTwice ==
  ASSUME NEW x, NEW y
  PROVE  Xor(Xor(x, y), y) = x /\ Xor(Xor(x, y), x) = y
  BY DEF Xor

(* The atom of the key stream that masks byte i.                           *)
MaskAtom(nonce, c0, block, modulus, i) ==
  KeystreamAtom(nonce, (c0 + (i - 1) \div block) % modulus, ((i - 1) % block) + 1)

(* ct is data under the key stream from block c0 on.                       *)
Masked(ct, nonce, c0, block, modulus, data) ==
  /\ Text(ct) /\ Len(ct) = Len(data)
  /\ \A i \in 1 .. Len(data) :
       /\ ct[i] = Xor(data[i], {MaskAtom(nonce, c0, block, modulus, i)})
       /\ Xor(ct[i], data[i]) = {MaskAtom(nonce, c0, block, modulus, i)}

LEMMA KeystreamMasks ==
  ASSUME NEW nonce, NEW c0, NEW block, NEW modulus, NEW data, Text(data)
  PROVE  Masked(ApplyKeystream(nonce, c0, block, modulus, data),
                nonce, c0, block, modulus, data)
<1> DEFINE ct == ApplyKeystream(nonce, c0, block, modulus, data)
           n == Len(data)
<1>1. n \in Nat
  BY TextIs
<1>2. ct = [i \in 1 .. n |->
              Xor(data[i], {MaskAtom(nonce, c0, block, modulus, i)})]
  BY DEF ApplyKeystream, MaskAtom
<1> HIDE DEF ct, n
<1>3. ct = [i \in 1 .. n |-> ct[i]]
  BY <1>2
<1>4. Text(ct) /\ Len(ct) = n
  BY <1>1, <1>3, TextMade
<1>5. \A i \in 1 .. n :
        /\ ct[i] = Xor(data[i], {MaskAtom(nonce, c0, block, modulus, i)})
        /\ Xor(ct[i], data[i]) = {MaskAtom(nonce, c0, block, modulus, i)}
  BY <1>2, XorTwice
<1> QED
  BY <1>4, <1>5 DEF ct, n, Masked

LEMMA KeystreamUndone ==
  ASSUME NEW nonce, NEW c0, NEW block, NEW modulus, NEW data, Text(data)
  PROVE  ApplyKeystream(nonce, c0, block, modulus,
                        ApplyKeystream(nonce, c0, block, modulus, data)) = data
<1> DEFINE ct == ApplyKeystream(nonce, c0, block, modulus, data)
           pt == ApplyKeystream(nonce, c0, block, modulus, ct)
<1>1. Masked(ct, nonce, c0, block, modulus, data)
  BY KeystreamMasks
<1> HIDE DEF ct
<1>2. Text(ct)
  BY <1>1 DEF Masked
<1>3. Masked(pt, nonce, c0, block, modulus, ct)
  BY <1>2, KeystreamMasks
<1> HIDE DEF pt
<1>4. Text(pt) /\ Len(pt) = Len(data)
  BY <1>1, <1>3 DEF Masked
<1>5. ASSUME NEW i \in 1 .. Len(pt) PROVE pt[i] = data[i]
  <2> DEFINE a == {MaskAtom(nonce, c0, block, modulus, i)}
  <2>1. i \in 1 .. Len(data) /\ i \in 1 .. Len(ct)
    BY <1>1, <1>4 DEF Masked
  <2>2. ct[i] = Xor(data[i], a) /\ pt[i] = Xor(ct[i], a)
    BY <1>1, <1>3, <2>1 DEF Masked
  <2> HIDE DEF a
  <2> QED
    BY <2>2, XorTwice
<1>6. pt = data
  BY <1>4, <1>5, SameText
<1> QED
  BY <1>6 DEF pt, ct

(* As long as the counter does not wrap every byte has an atom of its own, *)
(* and none of a block before the first.                                   *)
LEMMA MasksApart ==
  ASSUME NEW nonce, NEW c0 \in Nat, NEW block \in Nat \ {0}, NEW modulus \in Nat,
         c0 < modulus,
         NEW i \in Nat \ {0}, i <= block * (modulus - c0)
  PROVE  /\ \E c \in c0 .. modulus - 1, b \in 1 .. block :
              MaskAtom(nonce, c0, block, modulus, i) = KeystreamAtom(nonce, c, b)
         /\ \A j \in 1 .. i - 1 :
              MaskAtom(nonce, c0, block, modulus, i)
                # MaskAtom(nonce, c0, block, modulus, j)
<1>1. modulus - c0 \in Nat /\ modulus \in Nat \ {0}
  OBVIOUS
<1>2. ASSUME NEW k \in Nat \ {0}, k <= i
      PROVE  /\ (k - 1) \div block \in Nat /\ (k - 1) % block \in 0 .. block - 1
             /\ (k - 1) \div block < modulus - c0
             /\ c0 + (k - 1) \div block \in c0 .. modulus - 1
             /\ (c0 + (k - 1) \div block) % modulus = c0 + (k - 1) \div block
  <2>1. block * (modulus - c0) \in Nat
    BY <1>1, SMT
  <2>2. k <= block * (modulus - c0)
    BY <1>2, <2>1
  <2>3. /\ (k - 1) \div block \in 0 .. modulus - c0 - 1
        /\ (k - 1) % block \in 0 .. block - 1
    BY <1>1, <2>2, BlockNumber
  <2> DEFINE q == (k - 1) \div block
  <2>4. q \in 0 .. modulus - c0 - 1
    BY <2>3
  <2> HIDE DEF q
  <2>5. q \in Nat /\ q < modulus - c0 /\ c0 + q \in c0 .. modulus - 1 /\ c0 + q \in Nat
        /\ c0 + q < modulus
    BY <1>1, <2>4
  <2>6. (c0 + q) % modulus = c0 + q
    BY <1>1, <2>5, SMT
  <2> QED
    BY <2>3, <2>5, <2>6 DEF q
<1>3. \E c \in c0 .. modulus - 1, b \in 1 .. block :
        MaskAtom(nonce, c0, block, modulus, i) = KeystreamAtom(nonce, c, b)
  <2>1. /\ c0 + (i - 1) \div block \in c0 .. modulus - 1
        /\ (c0 + (i - 1) \div block) % modulus = c0 + (i - 1) \div block
        /\ (i - 1) % block \in 0 .. block - 1
    BY <1>2
  <2>2. ((i - 1) % block) + 1 \in 1 .. block
    BY <2>1
  <2>3. MaskAtom(nonce, c0, block, modulus, i) =
          KeystreamAtom(nonce, c0 + (i - 1) \div block, ((i - 1) % block) + 1)
    BY <2>1 DEF MaskAtom
  <2> QED
    BY <2>1, <2>2, <2>3
<1>4. ASSUME NEW j \in 1 .. i - 1,
             MaskAtom(nonce, c0, block, modulus, i)
               = MaskAtom(nonce, c0, block, modulus, j)
      PROVE  FALSE
  <2>1. j \in Nat \ {0} /\ j <= i /\ j # i /\ i <= i
    OBVIOUS
  <2>2. /\ (c0 + (i - 1) \div block) % modulus = (c0 + (j - 1) \div block) % modulus
        /\ ((i - 1) % block) + 1 = ((j - 1) % block) + 1
    BY <1>4 DEF MaskAtom, KeystreamAtom
  <2>3. /\ (i - 1) \div block \in Nat /\ (i - 1) % block \in 0 .. block - 1
        /\ (c0 + (i - 1) \div block) % modulus = c0 + (i - 1) \div block
    BY <1>2, <2>1
  <2>4. /\ (j - 1) \div block \in Nat /\ (j - 1) % block \in 0 .. block - 1
        /\ (c0 + (j - 1) \div block) % modulus = c0 + (j - 1) \div block
    BY <1>2, <2>1
  <2>5. (i - 1) \div block = (j - 1) \div block
    BY <2>2, <2>3, <2>4
  <2>6. (i - 1) % block = (j - 1) % block
    BY <2>2, <2>3, <2>4
  <2> QED
    BY <2>1, <2>5, <2>6, OtherByte
<1> QED
  BY <1>3, <1>4

-----------------------------------------------------------------------------
(* What is authenticated: no two pairs of texts give the same input.       *)

LEMMA PaddedIs ==
  ASSUME NEW s, Text(s), NEW m \in Nat \ {0}
  PROVE  LET n == (m - (Len(s) % m)) % m
         IN  /\ n \in Nat /\ Text(Padded(s, m)) /\ Len(Padded(s, m)) = Len(s) + n
             /\ \A i \in 1 .. Len(s) : Padded(s, m)[i] = s[i]
<1> DEFINE n == (m - (Len(s) % m)) % m
           z == [i \in 1 .. n |-> Zero]
<1>1. Len(s) \in Nat
  BY TextIs
<1>2. n \in Nat
  <2>1. Len(s) % m \in 0 .. m - 1
    BY <1>1, Division
  <2>2. m - (Len(s) % m) \in Nat
    BY <2>1
  <2>3. (m - (Len(s) % m)) % m \in 0 .. m - 1
    BY <2>2, Division
  <2> QED
    BY <2>3
<1>3. z = [i \in 1 .. n |-> z[i]]
  OBVIOUS
<1>4. Padded(s, m) = s \o z
  BY DEF Padded
<1> HIDE DEF n, z
<1>5. Text(z) /\ Len(z) = n
  BY <1>2, <1>3, TextMade
<1>6. /\ Text(s \o z) /\ Len(s \o z) = Len(s) + Len(z)
      /\ \A i \in 1 .. Len(s) : (s \o z)[i] = s[i]
  BY <1>5, TextJoined
<1>7. Text(Padded(s, m)) /\ Len(Padded(s, m)) = Len(s) + n
      /\ \A i \in 1 .. Len(s) : Padded(s, m)[i] = s[i]
  BY <1>4, <1>5, <1>6
<1> QED
  BY <1>2, <1>7 DEF n

LEMMA PaddedOnce ==
  ASSUME NEW s, NEW u, Text(s), Text(u), NEW m \in Nat \ {0}, Len(s) = Len(u),
         Padded(s, m) = Padded(u, m)
  PROVE  s = u
<1>1. \A i \in 1 .. Len(s) : Padded(s, m)[i] = s[i]
  BY PaddedIs
<1>2. \A i \in 1 .. Len(u) : Padded(u, m)[i] = u[i]
  BY PaddedIs
<1>3. \A i \in 1 .. Len(s) : s[i] = u[i]
  BY <1>1, <1>2
<1> QED
  BY <1>3, SameText

LEMMA LengthFieldIs ==
  ASSUME NEW n, NEW m \in Nat, m > 1
  PROVE  /\ Text(LengthField(n, m)) /\ Len(LengthField(n, m)) = m \div 2
         /\ LengthField(n, m)[1] = {<<"length", n, 0, 0>>}
<1> DEFINE f == LengthField(n, m)
<1>1. m \div 2 \in Nat /\ 1 \in 1 .. m \div 2
  BY SMT
<1>2. f = [i \in 1 .. m \div 2 |-> f[i]]
  BY DEF LengthField
<1>3. f[1] = {<<"length", n, 0, 0>>}
  BY <1>1 DEF LengthField
<1> HIDE DEF f
<1>4. Text(f) /\ Len(f) = m \div 2
  BY <1>1, <1>2, TextMade
<1> QED
  BY <1>3, <1>4 DEF f

LEMMA LengthFieldOnce ==
  ASSUME NEW n, NEW k, NEW m \in Nat, m > 1, LengthField(n, m) = LengthField(k, m)
  PROVE  n = k
<1>1. {<<"length", n, 0, 0>>} = {<<"length", k, 0, 0>>}
  BY LengthFieldIs
<1>2. <<"length", n, 0, 0>> = <<"length", k, 0, 0>>
  BY <1>1
<1> QED
  BY <1>2

(* The four parts of the input, with what the length fields say.           *)
Parts(a, c, la, lc, m) ==
  Padded(a, m) \o Padded(c, m) \o LengthField(la, m) \o LengthField(lc, m)

LEMMA PartsOnce ==
  ASSUME NEW m \in Nat, m > 1,
         NEW a, NEW c, NEW b, NEW d, Text(a), Text(c), Text(b), Text(d),
         NEW la, NEW lc, NEW lb, NEW ld,
         Parts(a, c, la, lc, m) = Parts(b, d, lb, ld, m),
         la = lb => Len(a) = Len(b),
         lc = ld => Len(c) = Len(d)
  PROVE  a = b /\ c = d
<1> DEFINE za == Padded(a, m)
           zc == Padded(c, m)
           zb == Padded(b, m)
           zd == Padded(d, m)
           fa == LengthField(la, m)
           fc == LengthField(lc, m)
           fb == LengthField(lb, m)
           fd == LengthField(ld, m)
<1>0. m \in Nat \ {0}
  OBVIOUS
<1>1. Text(za) /\ Text(zc) /\ Text(zb) /\ Text(zd)
  BY <1>0, PaddedIs
<1>2. /\ Text(fa) /\ Text(fc) /\ Text(fb) /\ Text(fd)
      /\ Len(fa) = m \div 2 /\ Len(fc) = m \div 2 /\ Len(fb) = m \div 2 /\ Len(fd) = m \div 2
  BY LengthFieldIs
<1>3. fa = fb => la = lb
  BY LengthFieldOnce
<1>4. fc = fd => lc = ld
  BY LengthFieldOnce
<1>5. ((za \o zc) \o fa) \o fc = ((zb \o zd) \o fb) \o fd
  BY DEF Parts
<1>6. Len(c) = Len(d) => Len(zc) = Len(zd)
  <2>1. Len(zc) = Len(c) + ((m - (Len(c) % m)) % m)
    BY <1>0, PaddedIs
  <2>2. Len(zd) = Len(d) + ((m - (Len(d) % m)) % m)
    BY <1>0, PaddedIs
  <2> QED
    BY <2>1, <2>2
<1>7. (Len(a) = Len(b) /\ za = zb => a = b) /\ (Len(c) = Len(d) /\ zc = zd => c = d)
  BY <1>0, PaddedOnce
<1> HIDE DEF za, zc, zb, zd, fa, fc, fb, fd
<1> DEFINE ab == Join(za, zc)
           bb == Join(zb, zd)
           ac == Join(ab, fa)
           bc == Join(bb, fb)
<1>8. Text(ab) /\ Text(bb)
  BY <1>1, TextJoined DEF Join
<1>10. ab = bb /\ Len(zc) = Len(zd) => za = zb /\ zc = zd
  BY <1>1, JoinedOnce
<1> HIDE DEF ab, bb
<1>11. Text(ac) /\ Text(bc)
  BY <1>2, <1>8, TextJoined DEF Join
<1>12. ac = bc => ab = bb /\ fa = fb
  BY <1>2, <1>8, JoinedOnce
<1>13. Join(ac, fc) = Join(bc, fd)
  BY <1>5 DEF ab, bb, Join
<1> HIDE DEF ac, bc
<1>14. ac = bc /\ fc = fd
  BY <1>2, <1>11, <1>13, JoinedOnce
<1>15. Len(a) = Len(b) /\ Len(c) = Len(d)
  BY <1>3, <1>4, <1>12, <1>14
<1>16. za = zb /\ zc = zd
  BY <1>6, <1>10, <1>12, <1>14, <1>15
<1> QED
  BY <1>7, <1>15, <1>16

-----------------------------------------------------------------------------
(* Packets and buffers.                                                    *)

LEMMA OverwriteIs ==
  ASSUME NEW buffer, Text(buffer), NEW data, Text(data)
  PROVE  /\ Text(Overwrite(buffer, data)) /\ Len(Overwrite(buffer, data)) = Len(buffer)
         /\ \A i \in Len(data) + 1 .. Len(buffer) :
              Overwrite(buffer, data)[i] = buffer[i]
         /\ Len(data) <= Len(buffer) =>
              SubSeq(Overwrite(buffer, data), 1, Len(data)) = data
<1> DEFINE o == Overwrite(buffer, data)
           n == Len(buffer)
           l == Len(data)
<1>1. n \in Nat /\ l \in Nat
  BY TextIs
<1>2. o = [i \in 1 .. n |-> IF i <= l THEN data[i] ELSE buffer[i]]
  BY DEF Overwrite
<1> HIDE DEF o, n, l
<1>3. o = [i \in 1 .. n |-> o[i]]
  BY <1>2
<1>4. Text(o) /\ Len(o) = n
  BY <1>1, <1>3, TextMade
<1>5. \A i \in l + 1 .. n : o[i] = buffer[i]
  <2>1. \A i \in l + 1 .. n : i \in 1 .. n /\ ~(i <= l)
    BY <1>1
  <2> QED
    BY <1>2, <2>1
<1>6. ASSUME l <= n PROVE SubSeq(o, 1, l) = data
  <2>1. PICK S : o \in Seq(S)
    BY <1>4 DEF Text
  <2> DEFINE u == SubSeq(o, 1, l)
  <2>2. u \in Seq(S) /\ Len(u) = l
    BY <1>1, <1>4, <1>6, <2>1, SMT
  <2>3. \A i \in 1 .. l : u[i] = o[i]
    BY <1>1, <1>4, <1>6, <2>1, SMT
  <2>4. \A i \in 1 .. l : o[i] = data[i]
    BY <1>1, <1>2, <1>6
  <2> HIDE DEF u
  <2>5. Text(u) /\ Len(u) = Len(data) /\ \A i \in 1 .. Len(u) : u[i] = data[i]
    BY <2>2, <2>3, <2>4 DEF Text, l
  <2>6. u = data
    BY <2>5, SameText
  <2> QED
    BY <2>6 DEF u
<1> QED
  BY <1>4, <1>5, <1>6 DEF o, n, l

LEMMA StaleIs ==
  ASSUME NEW n \in Nat
  PROVE  Text(Stale(n)) /\ Len(Stale(n)) = n
<1>1. Stale(n) = [i \in 1 .. n |-> Stale(n)[i]]
  BY DEF Stale
<1> QED
  BY <1>1, TextMade

(* A packet that arrives is one, and its tag is one that was there.        *)
IsPacket(p) == p = Packet(p.nonce, p.aad, p.ct, p.tag) /\ Text(p.aad) /\ Text(p.ct)

LEMMA TextsCut ==
  ASSUME NEW s, Text(s), NEW e
  PROVE  /\ Text(Append(s, e))
         /\ Text(<<e>> \o s) /\ Text([s EXCEPT ![1] = e])
         /\ Len(s) # 0 => Text(SubSeq(s, 1, Len(s) - 1)) /\ Text(Tail(s))
<1>1. PICK S : s \in Seq(S)
  BY DEF Text
<1> DEFINE T == S \cup {e}
<1>2. s \in Seq(T) /\ e \in T
  BY <1>1, SMT
<1> HIDE DEF T
<1>3. Append(s, e) \in Seq(T)
  BY <1>2, SMT
<1>4. ASSUME Len(s) # 0
      PROVE  SubSeq(s, 1, Len(s) - 1) \in Seq(T) /\ Tail(s) \in Seq(T)
  BY <1>2, <1>4, SMT
<1>5. <<e>> \o s \in Seq(T)
  BY <1>2, SMT
<1>6. Text([s EXCEPT ![1] = e])
  <2> DEFINE u == [s EXCEPT ![1] = e]
  <2>1. DOMAIN s = 1 .. Len(s) /\ Len(s) \in Nat
    BY TextIs
  <2>2. u = [i \in 1 .. Len(s) |-> u[i]]
    BY <2>1
  <2> HIDE DEF u
  <2>3. Text(u)
    BY <2>1, <2>2, TextMade
  <2> QED
    BY <2>3 DEF u
<1> QED
  BY <1>3, <1>4, <1>5, <1>6 DEF Text

LEMMA PacketIs ==
  ASSUME NEW n, NEW a, NEW c, NEW t, Text(a), Text(c), NEW tags, t \in tags
  PROVE  IsPacket(Packet(n, a, c, t)) /\ Packet(n, a, c, t).tag \in tags
  BY DEF IsPacket, Packet

LEMMA ArrivalsAre ==
  ASSUME NEW n, NEW a, NEW c, NEW t, Text(a), Text(c), NEW nonces, NEW tags, t \in tags,
         NEW p \in Arrivals(Packet(n, a, c, t), nonces, tags)
  PROVE  IsPacket(p) /\ p.tag \in tags
<1> DEFINE q == Packet(n, a, c, t)
           Front(s) == SubSeq(s, 1, Len(s) - 1)
           changed == [c EXCEPT ![1] = Xor(@, Letter("a"))]
<1>1. q.nonce = n /\ q.aad = a /\ q.ct = c /\ q.tag = t
  BY DEF Packet
<1>2. \/ p = q
      \/ \E k \in nonces : p = [q EXCEPT !.nonce = k]
      \/ \E u \in tags : p = [q EXCEPT !.tag = u]
      \/ p = Packet(n, Append(a, Zero), c, t)
      \/ p = Packet(n, a, Append(c, Zero), t)
      \/ Len(c) # 0 /\ p = Packet(n, a, Front(c), t)
      \/ Len(c) # 0 /\ p = Packet(n, Append(a, c[1]), Tail(c), t)
      \/ Len(c) # 0 /\ p = Packet(n, a, changed, t)
      \/ Len(a) # 0 /\ p = Packet(n, Front(a), c, t)
      \/ Len(a) # 0 /\ p = Packet(n, Front(a), <<a[Len(a)]>> \o c, t)
  BY <1>1 DEF Arrivals
<1>3. CASE \E k \in nonces : p = [q EXCEPT !.nonce = k]
  <2>1. PICK k \in nonces : p = Packet(k, a, c, t)
    BY <1>3 DEF Packet
  <2> QED
    BY <2>1, PacketIs
<1>4. CASE \E u \in tags : p = [q EXCEPT !.tag = u]
  <2>1. PICK u \in tags : p = Packet(n, a, c, u)
    BY <1>4 DEF Packet
  <2> QED
    BY <2>1, PacketIs
<1> HIDE DEF q
<1>5. Text(Append(a, Zero)) /\ Text(Append(c, Zero)) /\ Text(Append(a, c[1]))
  BY TextsCut
<1>6. Len(c) # 0 => Text(Front(c)) /\ Text(Tail(c)) /\ Text(changed)
  <2>1. changed = [c EXCEPT ![1] = Xor(c[1], Letter("a"))]
    OBVIOUS
  <2> QED
    BY <2>1, TextsCut
<1>7. Len(a) # 0 => Text(Front(a))
  BY TextsCut
<1>8. Text(<<a[Len(a)]>> \o c)
  BY TextsCut
<1> HIDE DEF Front, changed
<1>9. CASE p = q
  BY <1>9, PacketIs DEF q
<1>10. CASE \/ p = Packet(n, Append(a, Zero), c, t)
            \/ p = Packet(n, a, Append(c, Zero), t)
  BY <1>5, <1>10, PacketIs
<1>11. CASE \/ Len(c) # 0 /\ p = Packet(n, a, Front(c), t)
            \/ Len(c) # 0 /\ p = Packet(n, Append(a, c[1]), Tail(c), t)
            \/ Len(c) # 0 /\ p = Packet(n, a, changed, t)
  BY <1>5, <1>6, <1>11, PacketIs
<1>12. CASE \/ Len(a) # 0 /\ p = Packet(n, Front(a), c, t)
            \/ Len(a) # 0 /\ p = Packet(n, Front(a), <<a[Len(a)]>> \o c, t)
  BY <1>7, <1>8, <1>12, PacketIs
<1> QED
  BY <1>2, <1>3, <1>4, <1>9, <1>10, <1>11, <1>12

-----------------------------------------------------------------------------
(* The steps of IdealAead.                                                 *)

LEMMA IdealFails ==
  ASSUME a_sent' = a_sent, ~ Answered(a_last')
  PROVE  Ideal!Next
<1>1. Ideal!Fail
  BY DEF Ideal!Fail, SealedMessages, RequestOf, AnswerOf, Answered
<1> QED
  BY <1>1 DEF Ideal!Next

LEMMA IdealSeals ==
  ASSUME NEW p, a_sent' = a_sent \cup {p}, Plain(p) \in Messages, ~ Answered(a_last')
  PROVE  Ideal!Next
<1>1. SealedMessages(a_sent') = SealedMessages(a_sent) \cup {Plain(p)}
  BY DEF SealedMessages
<1>2. RequestOf(a_sent', a_last') = None /\ AnswerOf(a_last') = None
  BY DEF RequestOf, AnswerOf, Answered
<1>3. Ideal!Seal(Plain(p))
  BY <1>1, <1>2 DEF Ideal!Seal
<1> QED
  BY <1>3 DEF Ideal!Next

LEMMA IdealRefuses ==
  ASSUME a_sent' = a_sent, a_last'.outcome = "refused",
         \A p \in a_sent : Wire(p) # a_last'.packet
  PROVE  Ideal!Next
<1>1. Answered(a_last') /\ a_last'.outcome # "opened"
  BY DEF Answered
<1>2. RequestOf(a_sent', a_last') = Forged /\ AnswerOf(a_last') = Refused
  BY <1>1 DEF RequestOf, AnswerOf
<1>3. Ideal!Refuse
  BY <1>2 DEF Ideal!Refuse
<1> QED
  BY <1>3 DEF Ideal!Next

LEMMA IdealOpens ==
  ASSUME a_sent' = a_sent, a_last'.outcome = "opened",
         \E p \in a_sent : Wire(p) = a_last'.packet,
         \A p \in a_sent : Wire(p) = a_last'.packet =>
           Plain(p) \in Messages /\ Plain(p) = AnswerOf(a_last')
  PROVE  Ideal!Next
<1>1. Answered(a_last')
  BY DEF Answered
<1> DEFINE p == CHOOSE q \in a_sent : Wire(q) = a_last'.packet
<1>2. p \in a_sent /\ Wire(p) = a_last'.packet
  OBVIOUS
<1>3. RequestOf(a_sent', a_last') = Plain(p)
  BY <1>1, <1>2 DEF RequestOf
<1> HIDE DEF p
<1>4. Plain(p) \in SealedMessages(a_sent)
  BY <1>2 DEF SealedMessages
<1>5. Ideal!Open(Plain(p))
  BY <1>2, <1>3, <1>4 DEF Ideal!Open
<1> QED
  BY <1>2, <1>5 DEF Ideal!Next

-----------------------------------------------------------------------------
(* ChaCha20Poly1305.                                                       *)

LEMMA ChaSizes ==
  ASSUME ChaCha!ChaChaPolyAssumption
  PROVE  /\ STREAM \in Nat /\ STREAM > 1 /\ STREAM \in Nat \ {0}
         /\ COUNTERS \in Nat /\ 1 < COUNTERS
         /\ MACBLOCK \in Nat /\ MACBLOCK > 1
         /\ \A s \in Aads \cup Plaintexts : Text(s)
         /\ Rooms \subseteq Nat /\ Nonces \subseteq Nat
<1>1. \A s \in Aads \cup Plaintexts : Text(s)
  BY DEF ChaCha!ChaChaPolyAssumption, Text
<1> QED
  BY <1>1, SMT DEF ChaCha!ChaChaPolyAssumption

LEMMA ChaCipher ==
  ASSUME NEW n, NEW d
  PROVE  ChaCha!Cipher(n, d) = ApplyKeystream(n, 1, STREAM, COUNTERS, d)
  BY DEF ChaCha!Cipher, ChaCha!FirstCounter, ChaCha!ApplyKeystream, ApplyKeystream,
         ChaCha!Xor, Xor, ChaCha!KeystreamAtom, KeystreamAtom

LEMMA ChaMacInput ==
  ASSUME NEW a, NEW c
  PROVE  ChaCha!MacInput(a, c) = Parts(a, c, Len(a), Len(c), MACBLOCK)
  BY DEF ChaCha!MacInput, Parts, ChaCha!Padded, Padded, ChaCha!LengthField,
         LengthField, ChaCha!Zero, Zero

LEMMA ChaTagOnce ==
  ASSUME ChaCha!ChaChaPolyAssumption,
         NEW n, NEW k, NEW a, NEW b, NEW c, NEW d, Text(a), Text(b), Text(c), Text(d),
         ChaCha!Tag(n, a, c) = ChaCha!Tag(k, b, d)
  PROVE  n = k /\ a = b /\ c = d
<1>1. /\ ChaCha!PolyKey(n) = ChaCha!PolyKey(k)
      /\ ChaCha!MacInput(a, c) = ChaCha!MacInput(b, d)
  BY DEF ChaCha!Tag
<1>2. n = k
  <2>1. 1 \in 1 .. STREAM \div 2
    BY ChaSizes, SMT
  <2>2. <<"keystream", n, 0, 1>> \in ChaCha!PolyKey(n)
    BY <2>1 DEF ChaCha!PolyKey, ChaCha!KeystreamAtom
  <2>3. PICK i \in 1 .. STREAM \div 2 : <<"keystream", n, 0, 1>> = <<"keystream", k, 0, i>>
    BY <1>1, <2>2 DEF ChaCha!PolyKey, ChaCha!KeystreamAtom
  <2> QED
    BY <2>3
<1>3. Parts(a, c, Len(a), Len(c), MACBLOCK) = Parts(b, d, Len(b), Len(d), MACBLOCK)
  BY <1>1, ChaMacInput
<1>4. a = b /\ c = d
  BY <1>3, ChaSizes, PartsOnce
<1> QED
  BY <1>2, <1>4

(* Nothing is authenticated by no tag.                                     *)
LEMMA ChaNoTag ==
  ASSUME ChaCha!ChaChaPolyAssumption, NEW n, NEW a, NEW c
  PROVE  ChaCha!NoTag # ChaCha!Tag(n, a, c)
<1>1. 1 \in 1 .. STREAM \div 2
  BY ChaSizes, SMT
<1>2. ChaCha!PolyKey(n) # {}
  BY <1>1 DEF ChaCha!PolyKey
<1> QED
  BY <1>2 DEF ChaCha!NoTag, ChaCha!Tag

(* The packet that seal makes, with its plaintext.                         *)
ChaSealed(n, a, pt) ==
  [nonce |-> n, aad |-> a, ct |-> ChaCha!Cipher(n, pt),
   tag |-> ChaCha!Tag(n, a, ChaCha!Cipher(n, pt)), pt |-> pt]

ChaInv ==
  /\ \A p \in a_sent : \E n \in Nonces, a \in Aads, pt \in Plaintexts : p = ChaSealed(n, a, pt)
  /\ ChaCha!BuffersKept

LEMMA ChaMasks ==
  ASSUME ChaCha!ChaChaPolyAssumption, ChaInv
  PROVE  ChaCha!KeystreamOnce
<1> SUFFICES ASSUME NEW p \in a_sent, Len(p.ct) <= STREAM * (COUNTERS - 1),
                    NEW i \in 1 .. Len(p.ct)
             PROVE  LET Mask(j) == ChaCha!Xor(p.ct[j], p.pt[j])
                    IN  /\ Mask(i) # {} /\ Mask(i) \cap ChaCha!PolyKey(p.nonce) = {}
                        /\ \A j \in 1 .. i - 1 : Mask(i) \cap Mask(j) = {}
  BY DEF ChaCha!KeystreamOnce
<1>1. PICK n \in Nonces, a \in Aads, pt \in Plaintexts : p = ChaSealed(n, a, pt)
  BY DEF ChaInv
<1>2. p.nonce = n /\ p.ct = ApplyKeystream(n, 1, STREAM, COUNTERS, pt) /\ p.pt = pt
  BY <1>1, ChaCipher DEF ChaSealed
<1> DEFINE Atom(j) == MaskAtom(n, 1, STREAM, COUNTERS, j)
<1>3. Masked(p.ct, n, 1, STREAM, COUNTERS, pt) /\ Len(p.ct) \in Nat
  <2>1. Text(pt)
    BY ChaSizes
  <2>2. Masked(p.ct, n, 1, STREAM, COUNTERS, pt)
    BY <1>2, <2>1, KeystreamMasks
  <2> QED
    BY <2>2, TextIs DEF Masked
<1>4. \A j \in 1 .. Len(p.ct) : ChaCha!Xor(p.ct[j], p.pt[j]) = {Atom(j)}
  BY <1>2, <1>3 DEF Masked, ChaCha!Xor, Xor
<1>5. i \in Nat \ {0} /\ i <= STREAM * (COUNTERS - 1)
  <2>1. STREAM * (COUNTERS - 1) \in Nat
    BY ChaSizes, SMT
  <2> QED
    BY <1>3, <2>1
<1>6. /\ \E c \in 1 .. COUNTERS - 1, b \in 1 .. STREAM : Atom(i) = KeystreamAtom(n, c, b)
      /\ \A j \in 1 .. i - 1 : Atom(i) # Atom(j)
  BY <1>5, ChaSizes, MasksApart
<1> HIDE DEF Atom
<1>7. Atom(i) \notin ChaCha!PolyKey(p.nonce)
  <2>1. PICK c \in 1 .. COUNTERS - 1, b \in 1 .. STREAM : Atom(i) = <<"keystream", n, c, b>>
    BY <1>6 DEF KeystreamAtom
  <2>2. c # 0
    OBVIOUS
  <2> QED
    BY <1>2, <2>1, <2>2 DEF ChaCha!PolyKey, ChaCha!KeystreamAtom
<1>8. \A j \in 1 .. i - 1 : j \in 1 .. Len(p.ct)
  BY <1>3, <1>5
<1>9. ChaCha!Xor(p.ct[i], p.pt[i]) = {Atom(i)}
  BY <1>4
<1>10. \A j \in 1 .. i - 1 : ChaCha!Xor(p.ct[j], p.pt[j]) = {Atom(j)}
  BY <1>4, <1>8
<1> QED
  BY <1>6, <1>7, <1>9, <1>10

(* What is left in the buffer of a call.                                   *)
LEMMA ChaWrites ==
  ASSUME NEW op, NEW p, NEW outcome, NEW before, NEW data, Text(before), Text(data),
         outcome \in {"sealed", "opened"}, Len(data) = Len(p.ct),
         a_last' = ChaCha!Call(op, p, outcome, before, ChaCha!Overwrite(before, data))
  PROVE  ChaCha!BuffersKept'
<1> DEFINE after == Overwrite(before, data)
<1>1. ChaCha!Overwrite(before, data) = after
  BY DEF ChaCha!Overwrite, Overwrite
<1>2. /\ Len(after) = Len(before)
      /\ \A i \in Len(data) + 1 .. Len(before) : after[i] = before[i]
  BY OverwriteIs
<1> HIDE DEF after
<1>3. /\ a_last'.outcome = outcome /\ a_last'.before = before /\ a_last'.after = after
      /\ a_last'.packet = p
  BY <1>1 DEF ChaCha!Call
<1> QED
  BY <1>2, <1>3 DEF ChaCha!BuffersKept

LEMMA ChaLeaves ==
  ASSUME NEW op, NEW p, NEW outcome, NEW before,
         outcome \notin {"sealed", "opened"},
         a_last' = ChaCha!Call(op, p, outcome, before, before)
  PROVE  ChaCha!BuffersKept'
  BY DEF ChaCha!BuffersKept, ChaCha!Call

LEMMA ChaSeals ==
  ASSUME ChaCha!ChaChaPolyAssumption, ChaInv,
         NEW n \in Nonces, NEW a \in Aads, NEW pt \in Plaintexts,
         NEW op, NEW buffer, Text(buffer), ChaCha!Seal(op, n, a, pt, buffer)
  PROVE  ChaInv' /\ Ideal!Next
<1> DEFINE ct == ChaCha!Cipher(n, pt)
           packet == ChaCha!Packet(n, a, ct, ChaCha!Tag(n, a, ct))
           new == ChaSealed(n, a, pt)
<1>1. CASE Len(buffer) < Len(pt)
  <2>1. /\ a_last' = ChaCha!Call(op, ChaCha!NoPacket, "BufferTooSmall", buffer, buffer)
        /\ a_sent' = a_sent
    BY <1>1 DEF ChaCha!Seal
  <2>2. ~ Answered(a_last')
    BY <2>1 DEF Answered, ChaCha!Call
  <2>3. ChaCha!BuffersKept'
    BY <2>1, ChaLeaves
  <2> QED
    BY <2>1, <2>2, <2>3, IdealFails DEF ChaInv
<1>2. CASE ~(Len(buffer) < Len(pt))
  <2>1. /\ a_sent' = a_sent \cup {new}
        /\ a_last' = ChaCha!Call(op, packet, "sealed", buffer, ChaCha!Overwrite(buffer, ct))
    BY <1>2 DEF ChaCha!Seal, ChaCha!Sealed, ChaCha!Packet, ChaSealed
  <2>2. ~ Answered(a_last')
    BY <2>1 DEF Answered, ChaCha!Call
  <2>3. Plain(new) \in Messages
    BY DEF Plain, ChaSealed, Messages
  <2>4. Text(ct)
    <3>1. Text(pt)
      BY ChaSizes
    <3>2. Masked(ApplyKeystream(n, 1, STREAM, COUNTERS, pt), n, 1, STREAM, COUNTERS, pt)
      BY <3>1, KeystreamMasks
    <3> QED
      BY <3>2, ChaCipher DEF Masked
  <2>5. packet.ct = ct
    BY DEF ChaCha!Packet
  <2> HIDE DEF ct, packet
  <2>6. ChaCha!BuffersKept'
    BY <2>1, <2>4, <2>5, ChaWrites
  <2>7. \A p \in a_sent' : \E k \in Nonces, b \in Aads, d \in Plaintexts :
          p = ChaSealed(k, b, d)
    BY <2>1 DEF ChaInv
  <2> HIDE DEF new
  <2>8. Ideal!Next
    BY <2>1, <2>2, <2>3, IdealSeals
  <2> QED
    BY <2>6, <2>7, <2>8 DEF ChaInv
<1> QED
  BY <1>1, <1>2

LEMMA ChaArriving ==
  ASSUME ChaCha!ChaChaPolyAssumption, ChaInv, NEW p \in ChaCha!Arriving
  PROVE  IsPacket(p) /\ p.tag \in {r.tag : r \in a_sent} \cup {ChaCha!NoTag}
<1> DEFINE tags == {r.tag : r \in a_sent} \cup {ChaCha!NoTag}
<1>1. PICK q \in a_sent : p \in ChaCha!Arrivals(ChaCha!Wire(q), Nonces, tags)
  BY DEF ChaCha!Arriving
<1>2. PICK n \in Nonces, a \in Aads, pt \in Plaintexts : q = ChaSealed(n, a, pt)
  BY DEF ChaInv
<1> DEFINE ct == ChaCha!Cipher(n, pt)
           t == ChaCha!Tag(n, a, ct)
<1>3. ChaCha!Wire(q) = Packet(n, a, ct, t) /\ q.tag = t
  BY <1>2 DEF ChaCha!Wire, ChaCha!Packet, Packet, ChaSealed
<1>4. \A r : ChaCha!Arrivals(r, Nonces, tags) = Arrivals(r, Nonces, tags)
  BY DEF ChaCha!Arrivals, Arrivals, ChaCha!Packet, Packet, ChaCha!Zero, Zero,
         ChaCha!Xor, Xor, ChaCha!Letter, Letter
<1>5. Text(a) /\ Text(ct)
  <2>1. Text(pt) /\ Text(a)
    BY ChaSizes
  <2>2. Masked(ApplyKeystream(n, 1, STREAM, COUNTERS, pt), n, 1, STREAM, COUNTERS, pt)
    BY <2>1, KeystreamMasks
  <2> QED
    BY <2>1, <2>2, ChaCipher DEF Masked
<1>6. t \in tags
  BY <1>3
<1> HIDE DEF ct, t, tags
<1>7. p \in Arrivals(Packet(n, a, ct, t), Nonces, tags)
  BY <1>1, <1>3, <1>4
<1>8. IsPacket(p) /\ p.tag \in tags
  BY <1>5, <1>6, <1>7, ArrivalsAre
<1> QED
  BY <1>8 DEF tags

(* A packet that opens is one that was sealed, and opens to its plaintext. *)
LEMMA ChaOpens ==
  ASSUME ChaCha!ChaChaPolyAssumption, ChaInv, NEW p \in ChaCha!Arriving,
         NEW op, NEW buffer, Text(buffer), ChaCha!Open(op, p, buffer)
  PROVE  ChaInv' /\ Ideal!Next
<1>1. IsPacket(p) /\ p.tag \in {r.tag : r \in a_sent} \cup {ChaCha!NoTag} /\ a_sent' = a_sent
  BY ChaArriving DEF ChaCha!Open
<1>2. CASE Len(buffer) < Len(p.ct)
  <2>1. a_last' = ChaCha!Call(op, p, "BufferTooSmall", buffer, buffer)
    BY <1>2 DEF ChaCha!Open
  <2>2. ~ Answered(a_last')
    BY <2>1 DEF Answered, ChaCha!Call
  <2>3. ChaCha!BuffersKept'
    BY <2>1, ChaLeaves
  <2> QED
    BY <1>1, <2>2, <2>3, IdealFails DEF ChaInv
<1>3. CASE ~(Len(buffer) < Len(p.ct)) /\ p.tag # ChaCha!Tag(p.nonce, p.aad, p.ct)
  <2>1. a_last' = ChaCha!Call(op, p, "refused", buffer, buffer)
    BY <1>3 DEF ChaCha!Open
  <2>2. a_last'.outcome = "refused" /\ a_last'.packet = p
    BY <2>1 DEF ChaCha!Call
  <2>3. ASSUME NEW r \in a_sent PROVE Wire(r) # p
    <3>1. PICK n \in Nonces, a \in Aads, pt \in Plaintexts : r = ChaSealed(n, a, pt)
      BY DEF ChaInv
    <3>2. Wire(r).tag = ChaCha!Tag(Wire(r).nonce, Wire(r).aad, Wire(r).ct)
      BY <3>1 DEF Wire, Packet, ChaSealed
    <3> QED
      BY <1>3, <3>2
  <2>4. Ideal!Next
    BY <1>1, <2>2, <2>3, IdealRefuses
  <2>5. ChaCha!BuffersKept'
    BY <2>1, ChaLeaves
  <2> QED
    BY <1>1, <2>4, <2>5 DEF ChaInv
<1>4. CASE ~(Len(buffer) < Len(p.ct)) /\ p.tag = ChaCha!Tag(p.nonce, p.aad, p.ct)
  <2> DEFINE data == ChaCha!Cipher(p.nonce, p.ct)
             after == Overwrite(buffer, data)
  <2>1. a_last' = ChaCha!Call(op, p, "opened", buffer, ChaCha!Overwrite(buffer, data))
    BY <1>4 DEF ChaCha!Open
  <2>2. /\ a_last'.outcome = "opened" /\ a_last'.packet = p /\ a_last'.after = after
    BY <2>1 DEF ChaCha!Call, ChaCha!Overwrite, Overwrite
  <2>3. Text(p.aad) /\ Text(p.ct) /\ p = Packet(p.nonce, p.aad, p.ct, p.tag)
    BY <1>1 DEF IsPacket
  <2>4. Text(data) /\ Len(data) = Len(p.ct)
    <3>1. Masked(ApplyKeystream(p.nonce, 1, STREAM, COUNTERS, p.ct),
                 p.nonce, 1, STREAM, COUNTERS, p.ct)
      BY <2>3, KeystreamMasks
    <3> QED
      BY <3>1, ChaCipher DEF Masked
  <2>5. SubSeq(after, 1, Len(p.ct)) = data
    <3>1. Len(data) <= Len(buffer)
      BY <1>4, <2>3, <2>4, TextIs
    <3> QED
      BY <2>4, <3>1, OverwriteIs
  <2> HIDE DEF data, after
  <2>6. ChaCha!BuffersKept'
    BY <2>1, <2>4, ChaWrites
  <2>7. AnswerOf(a_last') = [nonce |-> p.nonce, aad |-> p.aad, pt |-> data]
    BY <2>2, <2>5 DEF AnswerOf, Answered
  <2>8. \E r \in a_sent : Wire(r) = p
    <3>1. PICK r \in a_sent : p.tag = r.tag
      BY <1>1, <1>4, ChaNoTag
    <3>2. PICK n \in Nonces, a \in Aads, pt \in Plaintexts : r = ChaSealed(n, a, pt)
      BY DEF ChaInv
    <3> DEFINE ct == ChaCha!Cipher(n, pt)
    <3>3. /\ ChaCha!Tag(n, a, ct) = ChaCha!Tag(p.nonce, p.aad, p.ct)
          /\ Wire(r) = Packet(n, a, ct, p.tag)
      BY <1>4, <3>1, <3>2 DEF ChaSealed, Wire
    <3>4. Text(a) /\ Text(ct)
      <4>1. Text(pt) /\ Text(a)
        BY ChaSizes
      <4>2. Masked(ApplyKeystream(n, 1, STREAM, COUNTERS, pt), n, 1, STREAM, COUNTERS, pt)
        BY <4>1, KeystreamMasks
      <4> QED
        BY <4>1, <4>2, ChaCipher DEF Masked
    <3> HIDE DEF ct
    <3>5. n = p.nonce /\ a = p.aad /\ ct = p.ct
      BY <2>3, <3>3, <3>4, ChaTagOnce
    <3>6. Wire(r) = p
      BY <2>3, <3>3, <3>5
    <3> QED
      BY <3>6
  <2>9. ASSUME NEW r \in a_sent, Wire(r) = p
        PROVE  Plain(r) \in Messages /\ Plain(r) = AnswerOf(a_last')
    <3>1. PICK n \in Nonces, a \in Aads, pt \in Plaintexts : r = ChaSealed(n, a, pt)
      BY DEF ChaInv
    <3>2. p.nonce = n /\ p.aad = a /\ p.ct = ChaCha!Cipher(n, pt)
      BY <2>9, <3>1 DEF Wire, Packet, ChaSealed
    <3>3. Plain(r) = [nonce |-> n, aad |-> a, pt |-> pt]
      BY <3>1 DEF Plain, ChaSealed
    <3>4. data = pt
      <4>1. Text(pt)
        BY ChaSizes
      <4>2. ApplyKeystream(n, 1, STREAM, COUNTERS,
                           ApplyKeystream(n, 1, STREAM, COUNTERS, pt)) = pt
        BY <4>1, KeystreamUndone
      <4> QED
        BY <3>2, <4>2, ChaCipher DEF data
    <3> QED
      BY <2>7, <3>2, <3>3, <3>4 DEF Messages
  <2>10. Ideal!Next
    BY <1>1, <2>2, <2>8, <2>9, IdealOpens
  <2> QED
    BY <1>1, <2>6, <2>10 DEF ChaInv
<1> QED
  BY <1>2, <1>3, <1>4

LEMMA ChaFilled ==
  ASSUME NEW data, NEW room \in Nat
  PROVE  Text(ChaCha!Filled(data, room)) /\ Text(ChaCha!Stale(room))
<1>1. ChaCha!Filled(data, room) = [i \in 1 .. room |-> ChaCha!Filled(data, room)[i]]
  BY DEF ChaCha!Filled
<1>2. ChaCha!Stale(room) = [i \in 1 .. room |-> ChaCha!Stale(room)[i]]
  BY DEF ChaCha!Stale
<1> QED
  BY <1>1, <1>2, TextMade

LEMMA ChaInit == ChaCha!Init => ChaInv /\ Ideal!Init
<1> SUFFICES ASSUME ChaCha!Init PROVE ChaInv /\ Ideal!Init
  OBVIOUS
<1>1. /\ a_sent = {} /\ a_last.outcome = "none" /\ a_last.after = a_last.before
  BY DEF ChaCha!Init, ChaCha!NoCall, ChaCha!Call
<1>2. RequestOf(a_sent, a_last) = None /\ AnswerOf(a_last) = None
  BY <1>1 DEF RequestOf, AnswerOf, Answered
<1>3. SealedMessages(a_sent) = {}
  BY <1>1 DEF SealedMessages
<1> QED
  BY <1>1, <1>2, <1>3 DEF ChaInv, ChaCha!BuffersKept, Ideal!Init

LEMMA ChaStep ==
  ASSUME ChaCha!ChaChaPolyAssumption, ChaInv, ChaCha!Next
  PROVE  ChaInv' /\ Ideal!Next
<1>1. ASSUME NEW n \in Nonces, NEW a \in Aads, NEW pt \in Plaintexts, NEW room \in Rooms,
             ChaCha!Encrypt(n, a, pt, room) \/ ChaCha!EncryptInPlace(n, a, pt, room)
      PROVE  ChaInv' /\ Ideal!Next
  <2>1. Text(ChaCha!Filled(pt, room)) /\ Text(ChaCha!Stale(room))
    BY ChaFilled, ChaSizes
  <2> QED
    BY <1>1, <2>1, ChaSeals DEF ChaCha!Encrypt, ChaCha!EncryptInPlace
<1>2. ASSUME NEW p \in ChaCha!Arriving, NEW room \in Rooms,
             ChaCha!Decrypt(p, room) \/ ChaCha!DecryptInPlace(p, room)
      PROVE  ChaInv' /\ Ideal!Next
  <2>1. Text(ChaCha!Filled(p.ct, room)) /\ Text(ChaCha!Stale(room))
    BY ChaFilled, ChaSizes
  <2> QED
    BY <1>2, <2>1, ChaOpens DEF ChaCha!Decrypt, ChaCha!DecryptInPlace
<1>3. CASE ChaCha!Return
  <2>1. a_sent' = a_sent /\ a_last'.outcome = "none" /\ a_last'.after = a_last'.before
    BY <1>3 DEF ChaCha!Return, ChaCha!NoCall, ChaCha!Call
  <2>2. Ideal!Next
    BY <2>1, IdealFails DEF Answered
  <2> QED
    BY <2>1, <2>2 DEF ChaInv, ChaCha!BuffersKept
<1> QED
  BY <1>1, <1>2, <1>3 DEF ChaCha!Next

LEMMA IdealStutters ==
  ASSUME UNCHANGED <<a_sent, a_last>>
  PROVE  UNCHANGED <<SealedMessages(a_sent), RequestOf(a_sent, a_last), AnswerOf(a_last)>>
  OBVIOUS

(* ChaCha20Poly1305: a packet that is refused leaves the caller's buffer   *)
(* as it was, a call that succeeds leaves what is behind its output, and   *)
(* no byte of a packet shares its key stream with another one or with the  *)
(* authenticator's key.                                                    *)
THEOREM ChaChaKeeps ==
  ASSUME ChaCha!ChaChaPolyAssumption
  PROVE  ChaCha!Spec => [](ChaCha!BuffersKept /\ ChaCha!KeystreamOnce)
<1>1. ChaCha!Init => ChaInv
  BY ChaInit
<1>2. ChaInv /\ [ChaCha!Next]_(ChaCha!vars) => ChaInv'
  <2>1. ChaInv /\ ChaCha!Next => ChaInv'
    BY ChaStep
  <2>2. ChaInv /\ UNCHANGED ChaCha!vars => ChaInv'
    BY DEF ChaCha!vars, ChaInv, ChaCha!BuffersKept
  <2> QED
    BY <2>1, <2>2
<1>3. ChaInv => ChaCha!BuffersKept /\ ChaCha!KeystreamOnce
  BY ChaMasks DEF ChaInv
<1> QED
  BY <1>1, <1>2, <1>3, PTL DEF ChaCha!Spec

(* ChaCha20Poly1305: however packets are changed on their way, one opens   *)
(* if and only if it is one that was sealed, and to what was sealed.       *)
THEOREM ChaChaImplementsIdeal ==
  ASSUME ChaCha!ChaChaPolyAssumption
  PROVE  ChaCha!Spec => ImplementsIdeal
<1>1. ChaCha!Init => ChaInv /\ Ideal!Init
  BY ChaInit
<1>2. ChaInv /\ [ChaCha!Next]_(ChaCha!vars)
        => /\ ChaInv'
           /\ [Ideal!Next]_<<SealedMessages(a_sent), RequestOf(a_sent, a_last), AnswerOf(a_last)>>
  <2>1. ChaInv /\ ChaCha!Next => ChaInv' /\ Ideal!Next
    BY ChaStep
  <2>2. ChaInv /\ UNCHANGED ChaCha!vars
          => /\ ChaInv'
             /\ UNCHANGED <<SealedMessages(a_sent), RequestOf(a_sent, a_last), AnswerOf(a_last)>>
    BY IdealStutters DEF ChaCha!vars, ChaInv, ChaCha!BuffersKept
  <2> QED
    BY <2>1, <2>2
<1> QED
  BY <1>1, <1>2, PTL DEF ChaCha!Spec, Ideal!Spec, ImplementsIdeal

-----------------------------------------------------------------------------
(* AES256GCM.                                                              *)

LEMMA GcmSizes ==
  ASSUME Aes!AesGcmAssumption
  PROVE  /\ BLOCK \in Nat /\ BLOCK > 1 /\ BLOCK \in Nat \ {0}
         /\ GCM_COUNTERS \in Nat /\ 2 < GCM_COUNTERS
         /\ \A s \in Aads \cup Plaintexts : Text(s)
         /\ Rooms \subseteq Nat /\ Nonces \subseteq Nat
<1>1. \A s \in Aads \cup Plaintexts : Text(s)
  BY DEF Aes!AesGcmAssumption, Text
<1> QED
  BY <1>1, SMT DEF Aes!AesGcmAssumption

LEMMA GcmCipher ==
  ASSUME Aes!AesGcmAssumption, NEW n, NEW d
  PROVE  Aes!gctr(n, d) = ApplyKeystream(n, 2, BLOCK, GCM_COUNTERS, d)
<1>1. Aes!FirstCounter(n) = 2
  <2>1. (1 + 1) % GCM_COUNTERS = 2
    BY GcmSizes, SMT
  <2> QED
    BY <2>1 DEF Aes!FirstCounter, Aes!inc32, Aes!compute_j0, Aes!Block
<1> QED
  BY <1>1 DEF Aes!gctr, Aes!ApplyKeystream, ApplyKeystream, Aes!Xor, Xor,
              Aes!KeystreamAtom, KeystreamAtom

LEMMA GcmHashInput ==
  ASSUME NEW a, NEW c
  PROVE  Aes!HashInput(a, c) = Parts(a, c, 8 * Len(a), 8 * Len(c), BLOCK)
  BY DEF Aes!HashInput, Parts, Aes!Padded, Padded, Aes!LengthField,
         LengthField, Aes!Zero, Zero

LEMMA GcmTagOnce ==
  ASSUME Aes!AesGcmAssumption,
         NEW n, NEW k, NEW a, NEW b, NEW c, NEW d, Text(a), Text(b), Text(c), Text(d),
         Aes!compute_tag(n, a, c) = Aes!compute_tag(k, b, d)
  PROVE  n = k /\ a = b /\ c = d
<1>1. /\ Aes!compute_j0(n) = Aes!compute_j0(k)
      /\ Aes!HashInput(a, c) = Aes!HashInput(b, d)
  BY DEF Aes!compute_tag
<1>2. n = k
  BY <1>1 DEF Aes!compute_j0, Aes!Block
<1>3. Parts(a, c, 8 * Len(a), 8 * Len(c), BLOCK) = Parts(b, d, 8 * Len(b), 8 * Len(d), BLOCK)
  BY <1>1, GcmHashInput
<1>4. Len(a) \in Nat /\ Len(b) \in Nat /\ Len(c) \in Nat /\ Len(d) \in Nat
  BY TextIs
<1>5. /\ 8 * Len(a) = 8 * Len(b) => Len(a) = Len(b)
      /\ 8 * Len(c) = 8 * Len(d) => Len(c) = Len(d)
  BY <1>4
<1>6. a = b /\ c = d
  BY <1>3, <1>5, GcmSizes, PartsOnce
<1> QED
  BY <1>2, <1>6

LEMMA GcmNoTag ==
  ASSUME NEW n, NEW a, NEW c
  PROVE  Aes!NoTag # Aes!compute_tag(n, a, c)
  BY DEF Aes!NoTag, Aes!compute_tag, Aes!compute_j0, Aes!Block

(* The packet that encrypt makes, with its plaintext.                      *)
GcmSealed(n, a, pt) ==
  [nonce |-> n, aad |-> a, ct |-> Aes!gctr(n, pt),
   tag |-> Aes!compute_tag(n, a, Aes!gctr(n, pt)), pt |-> pt]

GcmInv ==
  /\ \A p \in a_sent : \E n \in Nonces, a \in Aads, pt \in Plaintexts : p = GcmSealed(n, a, pt)
  /\ Aes!BuffersKept

LEMMA GcmText ==
  ASSUME Aes!AesGcmAssumption, NEW n, NEW d, Text(d)
  PROVE  /\ Masked(Aes!gctr(n, d), n, 2, BLOCK, GCM_COUNTERS, d)
         /\ Text(Aes!gctr(n, d)) /\ Len(Aes!gctr(n, d)) = Len(d)
<1>1. Masked(ApplyKeystream(n, 2, BLOCK, GCM_COUNTERS, d), n, 2, BLOCK, GCM_COUNTERS, d)
  BY KeystreamMasks
<1> QED
  BY <1>1, GcmCipher DEF Masked

LEMMA GcmMasks ==
  ASSUME Aes!AesGcmAssumption, GcmInv
  PROVE  Aes!KeystreamOnce
<1> SUFFICES ASSUME NEW p \in a_sent, Len(p.ct) <= BLOCK * (GCM_COUNTERS - 2),
                    NEW i \in 1 .. Len(p.ct)
             PROVE  LET Mask(j) == Aes!Xor(p.ct[j], p.pt[j])
                    IN  /\ Mask(i) # {} /\ Mask(i) \cap Aes!TagKeystream(p) = {}
                        /\ \A j \in 1 .. i - 1 : Mask(i) \cap Mask(j) = {}
  BY DEF Aes!KeystreamOnce
<1>1. PICK n \in Nonces, a \in Aads, pt \in Plaintexts : p = GcmSealed(n, a, pt)
  BY DEF GcmInv
<1>2. p.nonce = n /\ p.ct = Aes!gctr(n, pt) /\ p.pt = pt /\ p.tag.mask = Aes!compute_j0(n)
  BY <1>1 DEF GcmSealed, Aes!compute_tag
<1> DEFINE Atom(j) == MaskAtom(n, 2, BLOCK, GCM_COUNTERS, j)
<1>3. Masked(p.ct, n, 2, BLOCK, GCM_COUNTERS, pt) /\ Len(p.ct) \in Nat
  <2>1. Text(pt)
    BY GcmSizes
  <2>2. Masked(p.ct, n, 2, BLOCK, GCM_COUNTERS, pt)
    BY <1>2, <2>1, GcmText
  <2> QED
    BY <2>2, TextIs DEF Masked
<1>4. \A j \in 1 .. Len(p.ct) : Aes!Xor(p.ct[j], p.pt[j]) = {Atom(j)}
  BY <1>2, <1>3 DEF Masked, Aes!Xor, Xor
<1>5. i \in Nat \ {0} /\ i <= BLOCK * (GCM_COUNTERS - 2)
  <2>1. BLOCK * (GCM_COUNTERS - 2) \in Nat
    BY GcmSizes, SMT
  <2> QED
    BY <1>3, <2>1
<1>6. /\ \E c \in 2 .. GCM_COUNTERS - 1, b \in 1 .. BLOCK : Atom(i) = KeystreamAtom(n, c, b)
      /\ \A j \in 1 .. i - 1 : Atom(i) # Atom(j)
  BY <1>5, GcmSizes, MasksApart
<1> HIDE DEF Atom
<1>7. Atom(i) \notin Aes!TagKeystream(p)
  <2>1. PICK c \in 2 .. GCM_COUNTERS - 1, b \in 1 .. BLOCK : Atom(i) = <<"keystream", n, c, b>>
    BY <1>6 DEF KeystreamAtom
  <2>2. c # 0 /\ c # 1
    OBVIOUS
  <2>3. ASSUME NEW x \in {p.tag.mask, Aes!HashKey}, NEW j \in 1 .. BLOCK
        PROVE  Atom(i) # Aes!KeystreamAtom(x.nonce, x.counter, j)
    <3>1. x.counter = 0 \/ x.counter = 1
      BY <1>2 DEF Aes!HashKey, Aes!compute_j0, Aes!Block
    <3> QED
      BY <2>1, <2>2, <3>1 DEF Aes!KeystreamAtom
  <2> QED
    BY <2>3 DEF Aes!TagKeystream
<1>8. \A j \in 1 .. i - 1 : j \in 1 .. Len(p.ct)
  BY <1>3, <1>5
<1>9. Aes!Xor(p.ct[i], p.pt[i]) = {Atom(i)}
  BY <1>4
<1>10. \A j \in 1 .. i - 1 : Aes!Xor(p.ct[j], p.pt[j]) = {Atom(j)}
  BY <1>4, <1>8
<1> QED
  BY <1>6, <1>7, <1>9, <1>10

LEMMA GcmWrites ==
  ASSUME NEW op, NEW p, NEW outcome, NEW before, NEW data, Text(before), Text(data),
         outcome \in {"sealed", "opened", "panic"}, Len(data) = Len(p.ct),
         a_last' = Aes!Call(op, p, outcome, before, Aes!Overwrite(before, data))
  PROVE  Aes!BuffersKept'
<1> DEFINE after == Overwrite(before, data)
<1>1. Aes!Overwrite(before, data) = after
  BY DEF Aes!Overwrite, Overwrite
<1>2. /\ Len(after) = Len(before)
      /\ \A i \in Len(data) + 1 .. Len(before) : after[i] = before[i]
  BY OverwriteIs
<1> HIDE DEF after
<1>3. /\ a_last'.outcome = outcome /\ a_last'.before = before /\ a_last'.after = after
      /\ a_last'.packet = p
  BY <1>1 DEF Aes!Call
<1> QED
  BY <1>2, <1>3 DEF Aes!BuffersKept

LEMMA GcmStale ==
  ASSUME Aes!AesGcmAssumption, NEW room \in Rooms
  PROVE  Text(Aes!Stale(room)) /\ Len(Aes!Stale(room)) = room /\ room \in Nat
<1>1. Aes!Stale(room) = [i \in 1 .. room |-> Aes!Stale(room)[i]]
  BY DEF Aes!Stale
<1>2. room \in Nat
  BY GcmSizes
<1> QED
  BY <1>1, <1>2, TextMade

LEMMA GcmSeals ==
  ASSUME Aes!AesGcmAssumption, GcmInv,
         NEW n \in Nonces, NEW a \in Aads, NEW pt \in Plaintexts, NEW room \in Rooms,
         Aes!Encrypt(n, a, pt, room)
  PROVE  GcmInv' /\ Ideal!Next
<1> DEFINE ct == Aes!gctr(n, pt)
           packet == Aes!Packet(n, a, ct, Aes!compute_tag(n, a, ct))
           new == GcmSealed(n, a, pt)
           before == Aes!Stale(room)
<1>1. Text(before)
  BY GcmStale
<1>2. Text(ct)
  BY GcmSizes, GcmText
<1>3. packet.ct = ct
  BY DEF Aes!Packet
<1>4. Plain(new) \in Messages
  BY DEF Plain, GcmSealed, Messages
<1>5. \/ /\ a_last' = Aes!Call("encrypt", packet, "panic", before, Aes!Overwrite(before, ct))
         /\ a_sent' = a_sent
      \/ /\ a_last' = Aes!Call("encrypt", packet, "sealed", before, Aes!Overwrite(before, ct))
         /\ a_sent' = a_sent \cup {new}
  BY DEF Aes!Encrypt, Aes!Sealed, Aes!Packet, GcmSealed
<1>6. ~ Answered(a_last')
  BY <1>5 DEF Answered, Aes!Call
<1>7. \A p \in a_sent \cup {new} : \E k \in Nonces, b \in Aads, d \in Plaintexts :
        p = GcmSealed(k, b, d)
  BY DEF GcmInv
<1> HIDE DEF ct, packet, before, new
<1>8. Aes!BuffersKept'
  BY <1>1, <1>2, <1>3, <1>5, GcmWrites
<1>9. Ideal!Next
  BY <1>4, <1>5, <1>6, IdealFails, IdealSeals
<1> QED
  BY <1>5, <1>7, <1>8, <1>9 DEF GcmInv

LEMMA GcmArriving ==
  ASSUME Aes!AesGcmAssumption, GcmInv, NEW p \in Aes!Arriving
  PROVE  IsPacket(p) /\ p.tag \in {r.tag : r \in a_sent} \cup {Aes!NoTag}
<1> DEFINE tags == {r.tag : r \in a_sent} \cup {Aes!NoTag}
<1>1. PICK q \in a_sent : p \in Aes!Arrivals(Aes!Wire(q), Nonces, tags)
  BY DEF Aes!Arriving
<1>2. PICK n \in Nonces, a \in Aads, pt \in Plaintexts : q = GcmSealed(n, a, pt)
  BY DEF GcmInv
<1> DEFINE ct == Aes!gctr(n, pt)
           t == Aes!compute_tag(n, a, ct)
<1>3. Aes!Wire(q) = Packet(n, a, ct, t) /\ q.tag = t
  BY <1>2 DEF Aes!Wire, Aes!Packet, Packet, GcmSealed
<1>4. \A r : Aes!Arrivals(r, Nonces, tags) = Arrivals(r, Nonces, tags)
  BY DEF Aes!Arrivals, Arrivals, Aes!Packet, Packet, Aes!Zero, Zero,
         Aes!Xor, Xor, Aes!Letter, Letter
<1>5. Text(a) /\ Text(ct)
  BY GcmSizes, GcmText
<1>6. t \in tags
  BY <1>3
<1> HIDE DEF ct, t, tags
<1>7. p \in Arrivals(Packet(n, a, ct, t), Nonces, tags)
  BY <1>1, <1>3, <1>4
<1>8. IsPacket(p) /\ p.tag \in tags
  BY <1>5, <1>6, <1>7, ArrivalsAre
<1> QED
  BY <1>8 DEF tags

(* A packet that opens is one that was sealed, and opens to its plaintext. *)
LEMMA GcmOpens ==
  ASSUME Aes!AesGcmAssumption, GcmInv, NEW p \in Aes!Arriving, NEW room \in Rooms,
         Aes!Decrypt(p, room)
  PROVE  GcmInv' /\ Ideal!Next
<1> DEFINE data == Aes!gctr(p.nonce, p.ct)
           before == Aes!Stale(room)
           after == Overwrite(before, data)
<1>1. IsPacket(p) /\ p.tag \in {r.tag : r \in a_sent} \cup {Aes!NoTag} /\ a_sent' = a_sent
  BY GcmArriving DEF Aes!Decrypt
<1>2. Text(p.aad) /\ Text(p.ct) /\ p = Packet(p.nonce, p.aad, p.ct, p.tag)
  BY <1>1 DEF IsPacket
<1>3. Text(data) /\ Len(data) = Len(p.ct)
  BY <1>2, GcmText
<1>4. Text(before) /\ Len(before) = room
  BY GcmStale
<1>5. CASE p.tag # Aes!compute_tag(p.nonce, p.aad, p.ct)
  <2>1. a_last' = Aes!Call("decrypt", p, "refused", before, before)
    BY <1>5 DEF Aes!Decrypt
  <2>2. /\ a_last'.outcome = "refused" /\ a_last'.packet = p /\ a_last'.after = a_last'.before
    BY <2>1 DEF Aes!Call
  <2>3. ASSUME NEW r \in a_sent PROVE Wire(r) # p
    <3>1. PICK n \in Nonces, a \in Aads, pt \in Plaintexts : r = GcmSealed(n, a, pt)
      BY DEF GcmInv
    <3>2. Wire(r).tag = Aes!compute_tag(Wire(r).nonce, Wire(r).aad, Wire(r).ct)
      BY <3>1 DEF Wire, Packet, GcmSealed
    <3> QED
      BY <1>5, <3>2
  <2>4. Ideal!Next
    BY <1>1, <2>2, <2>3, IdealRefuses
  <2>5. Aes!BuffersKept'
    BY <2>2 DEF Aes!BuffersKept
  <2> QED
    BY <1>1, <2>4, <2>5 DEF GcmInv
<1>6. CASE p.tag = Aes!compute_tag(p.nonce, p.aad, p.ct) /\ room < Len(p.ct)
  <2>1. a_last' = Aes!Call("decrypt", p, "panic", before, Aes!Overwrite(before, data))
    BY <1>6 DEF Aes!Decrypt
  <2>2. ~ Answered(a_last')
    BY <2>1 DEF Answered, Aes!Call
  <2> HIDE DEF data, before
  <2>3. Aes!BuffersKept'
    BY <1>3, <1>4, <2>1, GcmWrites
  <2> QED
    BY <1>1, <2>2, <2>3, IdealFails DEF GcmInv
<1>7. CASE p.tag = Aes!compute_tag(p.nonce, p.aad, p.ct) /\ ~(room < Len(p.ct))
  <2>1. a_last' = Aes!Call("decrypt", p, "opened", before, Aes!Overwrite(before, data))
    BY <1>7 DEF Aes!Decrypt
  <2>2. /\ a_last'.outcome = "opened" /\ a_last'.packet = p /\ a_last'.after = after
    BY <2>1 DEF Aes!Call, Aes!Overwrite, Overwrite
  <2> HIDE DEF data, before, after
  <2>3. SubSeq(after, 1, Len(p.ct)) = data
    <3>1. Len(data) <= Len(before)
      BY <1>2, <1>3, <1>4, <1>7, TextIs, GcmStale
    <3> QED
      BY <1>3, <1>4, <3>1, OverwriteIs DEF after
  <2>4. Aes!BuffersKept'
    BY <1>3, <1>4, <2>1, GcmWrites
  <2>5. AnswerOf(a_last') = [nonce |-> p.nonce, aad |-> p.aad, pt |-> data]
    BY <2>2, <2>3 DEF AnswerOf, Answered
  <2>6. \E r \in a_sent : Wire(r) = p
    <3>1. PICK r \in a_sent : p.tag = r.tag
      BY <1>1, <1>7, GcmNoTag
    <3>2. PICK n \in Nonces, a \in Aads, pt \in Plaintexts : r = GcmSealed(n, a, pt)
      BY DEF GcmInv
    <3> DEFINE ct == Aes!gctr(n, pt)
    <3>3. /\ Aes!compute_tag(n, a, ct) = Aes!compute_tag(p.nonce, p.aad, p.ct)
          /\ Wire(r) = Packet(n, a, ct, p.tag)
      BY <1>7, <3>1, <3>2 DEF GcmSealed, Wire
    <3>4. Text(a) /\ Text(ct)
      BY GcmSizes, GcmText
    <3> HIDE DEF ct
    <3>5. n = p.nonce /\ a = p.aad /\ ct = p.ct
      BY <1>2, <3>3, <3>4, GcmTagOnce
    <3>6. Wire(r) = p
      BY <1>2, <3>3, <3>5
    <3> QED
      BY <3>6
  <2>7. ASSUME NEW r \in a_sent, Wire(r) = p
        PROVE  Plain(r) \in Messages /\ Plain(r) = AnswerOf(a_last')
    <3>1. PICK n \in Nonces, a \in Aads, pt \in Plaintexts : r = GcmSealed(n, a, pt)
      BY DEF GcmInv
    <3>2. p.nonce = n /\ p.aad = a /\ p.ct = Aes!gctr(n, pt)
      BY <2>7, <3>1 DEF Wire, Packet, GcmSealed
    <3>3. Plain(r) = [nonce |-> n, aad |-> a, pt |-> pt]
      BY <3>1 DEF Plain, GcmSealed
    <3>4. data = pt
      <4>1. Text(pt)
        BY GcmSizes
      <4>2. ApplyKeystream(n, 2, BLOCK, GCM_COUNTERS,
                           ApplyKeystream(n, 2, BLOCK, GCM_COUNTERS, pt)) = pt
        BY <4>1, KeystreamUndone
      <4> QED
        BY <3>2, <4>2, GcmCipher DEF data
    <3> QED
      BY <2>5, <3>2, <3>3, <3>4 DEF Messages
  <2>8. Ideal!Next
    BY <1>1, <2>2, <2>6, <2>7, IdealOpens
  <2> QED
    BY <1>1, <2>4, <2>8 DEF GcmInv
<1> QED
  BY <1>5, <1>6, <1>7

LEMMA GcmInit == Aes!Init => GcmInv /\ Ideal!Init
<1> SUFFICES ASSUME Aes!Init PROVE GcmInv /\ Ideal!Init
  OBVIOUS
<1>1. /\ a_sent = {} /\ a_last.outcome = "none" /\ a_last.after = a_last.before
  BY DEF Aes!Init, Aes!NoCall, Aes!Call
<1>2. RequestOf(a_sent, a_last) = None /\ AnswerOf(a_last) = None
  BY <1>1 DEF RequestOf, AnswerOf, Answered
<1>3. SealedMessages(a_sent) = {}
  BY <1>1 DEF SealedMessages
<1> QED
  BY <1>1, <1>2, <1>3 DEF GcmInv, Aes!BuffersKept, Ideal!Init

LEMMA GcmStep ==
  ASSUME Aes!AesGcmAssumption, GcmInv, Aes!Next
  PROVE  GcmInv' /\ Ideal!Next
<1>1. ASSUME NEW n \in Nonces, NEW a \in Aads, NEW pt \in Plaintexts, NEW room \in Rooms,
             Aes!Encrypt(n, a, pt, room)
      PROVE  GcmInv' /\ Ideal!Next
  BY <1>1, GcmSeals
<1>2. ASSUME NEW p \in Aes!Arriving, NEW room \in Rooms, Aes!Decrypt(p, room)
      PROVE  GcmInv' /\ Ideal!Next
  BY <1>2, GcmOpens
<1>3. CASE Aes!Return
  <2>1. a_sent' = a_sent /\ a_last'.outcome = "none" /\ a_last'.after = a_last'.before
    BY <1>3 DEF Aes!Return, Aes!NoCall, Aes!Call
  <2>2. Ideal!Next
    BY <2>1, IdealFails DEF Answered
  <2> QED
    BY <2>1, <2>2 DEF GcmInv, Aes!BuffersKept
<1> QED
  BY <1>1, <1>2, <1>3 DEF Aes!Next

(* AES256GCM: the same of the caller's buffer, of a call that does not     *)
(* panic; and no byte of a packet of at most GCM_COUNTERS - 2 blocks shares    *)
(* its key stream with another one, with the tag or with the hash key.     *)
THEOREM GcmKeeps ==
  ASSUME Aes!AesGcmAssumption
  PROVE  Aes!Spec => [](Aes!BuffersKept /\ Aes!KeystreamOnce)
<1>1. Aes!Init => GcmInv
  BY GcmInit
<1>2. GcmInv /\ [Aes!Next]_(Aes!vars) => GcmInv'
  <2>1. GcmInv /\ Aes!Next => GcmInv'
    BY GcmStep
  <2>2. GcmInv /\ UNCHANGED Aes!vars => GcmInv'
    BY DEF Aes!vars, GcmInv, Aes!BuffersKept
  <2> QED
    BY <2>1, <2>2
<1>3. GcmInv => Aes!BuffersKept /\ Aes!KeystreamOnce
  BY GcmMasks DEF GcmInv
<1> QED
  BY <1>1, <1>2, <1>3, PTL DEF Aes!Spec

(* AES256GCM: a packet opens if and only if it is one that was sealed, and *)
(* to what was sealed; a call that panics answers nothing.                 *)
THEOREM GcmImplementsIdeal ==
  ASSUME Aes!AesGcmAssumption
  PROVE  Aes!Spec => ImplementsIdeal
<1>1. Aes!Init => GcmInv /\ Ideal!Init
  BY GcmInit
<1>2. GcmInv /\ [Aes!Next]_(Aes!vars)
        => /\ GcmInv'
           /\ [Ideal!Next]_<<SealedMessages(a_sent), RequestOf(a_sent, a_last), AnswerOf(a_last)>>
  <2>1. GcmInv /\ Aes!Next => GcmInv' /\ Ideal!Next
    BY GcmStep
  <2>2. GcmInv /\ UNCHANGED Aes!vars
          => /\ GcmInv'
             /\ UNCHANGED <<SealedMessages(a_sent), RequestOf(a_sent, a_last), AnswerOf(a_last)>>
    BY IdealStutters DEF Aes!vars, GcmInv, Aes!BuffersKept
  <2> QED
    BY <2>1, <2>2
<1> QED
  BY <1>1, <1>2, PTL DEF Aes!Spec, Ideal!Spec, ImplementsIdeal


-----------------------------------------------------------------------------
(* Arithmetic and sequences.                                               *)

LEMMA NextMultiple ==
  ASSUME NEW q \in Nat, NEW m \in Nat
  PROVE  q * m \in Nat /\ (q + 1) * m = q * m + m /\ q * m = m * q
  BY SMT

LEMMA DivisionUnique ==
  ASSUME NEW m \in Nat \ {0}, NEW q \in Nat, NEW j \in 0 .. m - 1
  PROVE  (q * m + j) \div m = q /\ (q * m + j) % m = j
<1> DEFINE x == m * q + j
           d == x \div m
           s == x % m
<1>0. q * m + j = x
  BY NextMultiple
<1>1. x \in Nat
  BY SMT
<1>2. x = m * d + s /\ s \in 0 .. m - 1 /\ d \in Nat
  BY <1>1, Division
<1>3. m * q + j = m * d + s
  BY <1>2
<1>4. m * q \in Nat /\ m * d \in Nat
  BY <1>2, SMT
<1> HIDE DEF d, s
<1>5. ~ (q < d)
  <2>1. q < d => m * q + m <= m * d
    BY <1>2, MultipleGrows
  <2> QED BY <2>1, <1>2, <1>3, <1>4, SMT
<1>6. ~ (d < q)
  <2>1. d < q => m * d + m <= m * q
    BY <1>2, MultipleGrows
  <2> QED BY <2>1, <1>2, <1>3, <1>4, SMT
<1>7. d = q
  BY <1>2, <1>5, <1>6, SMT
<1>8. s = j
  BY <1>2, <1>3, <1>4, <1>7, SMT
<1> QED BY <1>0, <1>7, <1>8 DEF d, s, x

LEMMA QuotientUnique ==
  ASSUME NEW m \in Nat \ {0}, NEW q \in Nat, NEW j \in 0 .. m - 1
  PROVE  (m * q + j) \div m = q /\ (m * q + j) % m = j
<1>1. m * q = q * m
  BY NextMultiple
<1>2. (q * m + j) \div m = q /\ (q * m + j) % m = j
  BY DivisionUnique
<1> QED BY <1>1, <1>2

LEMMA Appended ==
  ASSUME NEW T, NEW s \in Seq(T), NEW e \in T
  PROVE  /\ Append(s, e) \in Seq(T) /\ Len(Append(s, e)) = Len(s) + 1
         /\ Len(s) \in Nat
         /\ \A i \in 1 .. Len(s) : Append(s, e)[i] = s[i]
         /\ Append(s, e)[Len(s) + 1] = e
  BY SMT

(* The blocks of a sequence end within it.                                 *)
LEMMA EarlierBlock ==
  ASSUME NEW len \in Nat, NEW i \in 1 .. len, NEW m \in Nat
  PROVE  /\ (i - 1) * m \in Nat /\ i * m \in Nat /\ len * m \in Nat
         /\ (i - 1) * m + m = i * m /\ i * m <= len * m
<1>1. i - 1 \in Nat /\ i \in Nat /\ i - 1 + 1 = i
  BY SMT
<1>2. (i - 1) * m \in Nat /\ (i - 1 + 1) * m = (i - 1) * m + m
  BY <1>1, NextMultiple
<1>3. i * m \in Nat /\ len * m \in Nat /\ i * m = m * i /\ len * m = m * len
  BY <1>1, NextMultiple
<1>4. i * m <= len * m
  <2>1. CASE i = len
    BY <1>3, <2>1
  <2>2. CASE i < len
    <3>1. m * i + m <= m * len
      BY <1>1, <2>2, MultipleGrows
    <3> QED
      BY <1>3, <3>1
  <2> QED
    BY <2>1, <2>2
<1> QED
  BY <1>1, <1>2, <1>3, <1>4

LEMMA Joined ==
  ASSUME NEW T, NEW s \in Seq(T), NEW n \in Nat, NEW f \in [1 .. n -> T]
  PROVE  /\ s \o f \in Seq(T) /\ Len(s \o f) = Len(s) + n /\ Len(s) \in Nat
         /\ \A i \in 1 .. Len(s) : (s \o f)[i] = s[i]
         /\ \A i \in Len(s) + 1 .. Len(s) + n : (s \o f)[i] = f[i - Len(s)]
<1>1. f \in Seq(T) /\ Len(f) = n
  BY SMT
<1>2. s \o f \in Seq(T) /\ Len(s \o f) = Len(s) + n /\ Len(s) \in Nat
  BY <1>1, SMT
<1>3. \A i \in 1 .. Len(s) : (s \o f)[i] = s[i]
  BY <1>1, SMT
<1>4. \A i \in Len(s) + 1 .. Len(s) + n : (s \o f)[i] = f[i - Len(s)]
  BY <1>1, SMT
<1> QED BY <1>2, <1>3, <1>4

(* Two numbers that leave the same remainder are a multiple apart.         *)
LEMMA SameRemainder ==
  ASSUME NEW m \in Nat \ {0}, NEW x \in Nat, NEW y \in Nat,
         x < y, y < x + m
  PROVE  x % m # y % m
<1> DEFINE p == x \div m
           q == y \div m
           r == x % m
           s == y % m
<1>1. x = m * p + r /\ r \in 0 .. m - 1 /\ p \in Nat
  BY Division
<1>2. y = m * q + s /\ s \in 0 .. m - 1 /\ q \in Nat
  BY Division
<1> SUFFICES r # s
  BY DEF r, s
<1> HIDE DEF p, q, r, s
<1>3. ASSUME r = s PROVE FALSE
  <2>1. m * p \in Nat /\ m * q \in Nat
    BY <1>1, <1>2, SMT
  <2>2. CASE p < q
    <3>1. m * p + m <= m * q
      BY <1>1, <1>2, <2>2, MultipleGrows
    <3> QED BY <3>1, <1>1, <1>2, <1>3, <2>1, SMT
  <2>3. CASE q < p
    <3>1. m * q + m <= m * p
      BY <1>1, <1>2, <2>3, MultipleGrows
    <3> QED BY <3>1, <1>1, <1>2, <1>3, <2>1, SMT
  <2>4. CASE p = q
    BY <2>4, <1>1, <1>2, <1>3, <2>1, SMT
  <2> QED BY <2>2, <2>3, <2>4, <1>1, <1>2, SMT
<1> QED BY <1>3

(* Counting modulo m.                                                      *)
LEMMA CountOn ==
  ASSUME NEW m \in Nat \ {0}, m > 1, NEW x \in Nat
  PROVE  ((x % m) + 1) % m = (x + 1) % m
<1> DEFINE p == x \div m
           r == x % m
<1>1. x = m * p + r /\ r \in 0 .. m - 1 /\ p \in Nat
  BY Division
<1> SUFFICES (r + 1) % m = (x + 1) % m
  BY DEF r
<1> HIDE DEF p, r
<1>2. m * p \in Nat
  BY <1>1, SMT
<1> DEFINE u == (x + 1) \div m
           s == (x + 1) % m
           v == (r + 1) \div m
           t == (r + 1) % m
<1>3. x + 1 = m * u + s /\ s \in 0 .. m - 1 /\ u \in Nat
  <2>1. x + 1 \in Nat
    BY SMT
  <2> QED BY <2>1, Division
<1>4. r + 1 = m * v + t /\ t \in 0 .. m - 1 /\ v \in Nat
  <2>1. r + 1 \in Nat
    BY <1>1, SMT
  <2> QED BY <2>1, Division
<1> SUFFICES s = t
  BY DEF s, t
<1> HIDE DEF u, s, v, t
<1>5. m * (p + v) = m * p + m * v /\ m * v \in Nat /\ m * u \in Nat
      /\ m * (p + v) \in Nat /\ p + v \in Nat
  BY <1>1, <1>3, <1>4, SMT
<1>6. m * u + s = m * (p + v) + t
  BY <1>1, <1>2, <1>3, <1>4, <1>5, SMT
<1>7. CASE u < p + v
  <2>1. m * u + m <= m * (p + v)
    BY <1>3, <1>5, <1>7, MultipleGrows
  <2> QED BY <2>1, <1>3, <1>4, <1>5, <1>6, SMT
<1>8. CASE p + v < u
  <2>1. m * (p + v) + m <= m * u
    BY <1>3, <1>5, <1>8, MultipleGrows
  <2> QED BY <2>1, <1>3, <1>4, <1>5, <1>6, SMT
<1>9. CASE u = p + v
  BY <1>9, <1>3, <1>4, <1>5, <1>6, SMT
<1> QED BY <1>7, <1>8, <1>9, <1>3, <1>5, SMT

-----------------------------------------------------------------------------
(* The key stream object.                                                  *)

TypeInv ==
  /\ counter \in 0 .. COUNTERS - 1 /\ used \in Seq(0 .. COUNTERS - 1)
  /\ rewound \in BOOLEAN

(* Unless the object was set back, the blocks taken are consecutive ones,  *)
(* and the counter is the next.                                            *)
Consecutive ==
  ~ rewound =>
    \E first \in Nat :
      /\ counter = (first + Len(used)) % COUNTERS
      /\ \A i \in 1 .. Len(used) : used[i] = (first + i - 1) % COUNTERS

IInv == TypeInv /\ Consecutive

(* Taking the next block keeps the blocks consecutive.                     *)
LEMMA TakingABlock ==
  ASSUME IInv, used' = Append(used, counter), counter' = Succ(counter),
         rewound' = rewound
  PROVE  IInv'
<1>c. COUNTERS \in Nat \ {0} /\ COUNTERS > 1
  BY ChaCha20Assumption, SMT
<1>t. counter \in 0 .. COUNTERS - 1 /\ used \in Seq(0 .. COUNTERS - 1)
      /\ rewound \in BOOLEAN /\ Len(used) \in Nat
  BY DEF IInv, TypeInv
<1>1. counter' \in 0 .. COUNTERS - 1
  <2>1. counter + 1 \in Nat
    BY <1>t, <1>c, SMT
  <2> QED BY <2>1, <1>c, Division DEF Succ
<1>2. used' \in Seq(0 .. COUNTERS - 1) /\ Len(used') = Len(used) + 1
      /\ used'[Len(used) + 1] = counter
      /\ \A i \in 1 .. Len(used) : used'[i] = used[i]
  BY <1>t, SMT
<1>3. ASSUME ~ rewound' PROVE
        \E first \in Nat :
          /\ counter' = (first + Len(used')) % COUNTERS
          /\ \A i \in 1 .. Len(used') : used'[i] = (first + i - 1) % COUNTERS
  <2>1. PICK first \in Nat :
          /\ counter = (first + Len(used)) % COUNTERS
          /\ \A i \in 1 .. Len(used) : used[i] = (first + i - 1) % COUNTERS
    BY <1>3 DEF IInv, Consecutive
  <2>2. counter' = (first + Len(used')) % COUNTERS
    <3>1. first + Len(used) \in Nat
          /\ first + Len(used') = first + Len(used) + 1
      BY <1>2, <1>t, SMT
    <3>2. (((first + Len(used)) % COUNTERS) + 1) % COUNTERS
            = (first + Len(used) + 1) % COUNTERS
      BY <3>1, <1>c, CountOn
    <3> QED BY <3>1, <3>2, <2>1 DEF Succ
  <2>3. ASSUME NEW i \in 1 .. Len(used')
        PROVE  used'[i] = (first + i - 1) % COUNTERS
    <3>1. CASE i = Len(used) + 1
      <4>1. first + i - 1 = first + Len(used)
        BY <3>1, <1>t, SMT
      <4> QED BY <4>1, <3>1, <1>2, <2>1
    <3>2. CASE i # Len(used) + 1
      <4>1. i \in 1 .. Len(used)
        BY <3>2, <1>2, <1>t, SMT
      <4> QED BY <4>1, <1>2, <2>1
    <3> QED BY <3>1, <3>2
  <2> QED BY <2>2, <2>3
<1> QED BY <1>t, <1>1, <1>2, <1>3 DEF IInv, TypeInv, Consecutive

LEMMA InitIInv == Init => IInv
<1> SUFFICES ASSUME Init PROVE IInv
  OBVIOUS
<1>c. COUNTERS \in Nat \ {0} /\ 0 \in 0 .. COUNTERS - 1
  BY ChaCha20Assumption, SMT
<1>1. counter = 0 /\ used = <<>> /\ rewound = FALSE /\ Len(used) = 0
  BY DEF Init
<1>2. 0 = (0 + Len(used)) % COUNTERS
  BY <1>1, <1>c, SMT
<1>3. \A i \in 1 .. Len(used) : used[i] = (0 + i - 1) % COUNTERS
  <2>1. \A i \in 1 .. 0 : FALSE
    BY SMT
  <2> QED BY <2>1, <1>1
<1>4. counter = (0 + Len(used)) % COUNTERS /\ 0 \in Nat
  BY <1>1, <1>2
<1>5. Consecutive
  BY <1>3, <1>4 DEF Consecutive
<1>6. <<>> \in Seq(0 .. COUNTERS - 1)
  OBVIOUS
<1>7. TypeInv
  BY <1>1, <1>6, <1>c DEF TypeInv
<1> QED BY <1>5, <1>7 DEF IInv

LEMMA StepIInv == IInv /\ [Next]_vars => IInv'
<1> SUFFICES ASSUME IInv, [Next]_vars PROVE IInv'
  OBVIOUS
<1>c. COUNTERS \in Nat \ {0} /\ COUNTERS > 1 /\ 0 \in 0 .. COUNTERS - 1
      /\ 1 \in 0 .. COUNTERS - 1 /\ Starts \subseteq 0 .. COUNTERS - 1
  BY ChaCha20Assumption, SMT
<1>t. counter \in 0 .. COUNTERS - 1 /\ used \in Seq(0 .. COUNTERS - 1)
      /\ rewound \in BOOLEAN
  BY DEF IInv, TypeInv
<1>1. ASSUME NEW start \in {0} \cup Starts, New(start)
      PROVE  IInv'
  <2>1. start \in 0 .. COUNTERS - 1 /\ start \in Nat
    BY <1>c
  <2>2. counter' = start /\ used' = <<>> /\ rewound' = FALSE /\ Len(used') = 0
    BY <1>1 DEF New
  <2>3. start = (start + Len(used')) % COUNTERS
    BY <2>1, <2>2, <1>c, SMT
  <2>4. \A i \in 1 .. Len(used') : used'[i] = (start + i - 1) % COUNTERS
    <3>1. \A i \in 1 .. 0 : FALSE
      BY SMT
    <3> QED BY <3>1, <2>2
  <2>5. counter' = (start + Len(used')) % COUNTERS
    BY <2>2, <2>3
  <2>6. Consecutive'
    BY <2>1, <2>4, <2>5 DEF Consecutive
  <2>7. <<>> \in Seq(0 .. COUNTERS - 1)
    OBVIOUS
  <2>8. TypeInv'
    BY <2>1, <2>2, <2>7 DEF TypeInv
  <2> QED BY <2>6, <2>8 DEF IInv
<1>2. CASE keystream_block
  BY <1>2, TakingABlock DEF keystream_block
<1>3. CASE ApplyBlock
  BY <1>3, TakingABlock DEF ApplyBlock
<1>4. CASE generate_poly1305_key
  <2>1. used' = Append(used, 0) /\ counter' = 1
        /\ rewound' = (rewound \/ used # <<>>)
    BY <1>4 DEF generate_poly1305_key
  <2>2. TypeInv'
    <3>1. used' \in Seq(0 .. COUNTERS - 1)
      BY <2>1, <1>t, <1>c
    <3> QED BY <3>1, <2>1, <1>c, <1>t DEF TypeInv
  <2>3. ASSUME ~ rewound' PROVE
          \E first \in Nat :
            /\ counter' = (first + Len(used')) % COUNTERS
            /\ \A i \in 1 .. Len(used') : used'[i] = (first + i - 1) % COUNTERS
    <3>1. used = <<>>
      BY <2>1, <2>3
    <3>2. used' = <<0>> /\ Len(used') = 1 /\ used'[1] = 0
      BY <2>1, <3>1
    <3>3. counter' = (0 + Len(used')) % COUNTERS
      BY <2>1, <3>2, <1>c, SMT
    <3>4. \A i \in 1 .. Len(used') : used'[i] = (0 + i - 1) % COUNTERS
      <4>1. \A i \in 1 .. 1 : i = 1
        BY SMT
      <4>2. 0 = (0 + 1 - 1) % COUNTERS
        BY <1>c, SMT
      <4> QED BY <4>1, <4>2, <3>2
    <3> QED BY <3>3, <3>4
  <2> QED BY <2>2, <2>3 DEF IInv, Consecutive
<1>5. CASE (\E n \in DataLens : apply_keystream(n)) \/ ApplyReturn
           \/ UNCHANGED vars
  BY <1>5 DEF apply_keystream, ApplyReturn, vars, IInv, TypeInv, Consecutive
<1> QED BY <1>1, <1>2, <1>3, <1>4, <1>5 DEF Next

(* While no more blocks were taken than there are counters, consecutive    *)
(* ones differ.                                                            *)
LEMMA ConsecutiveDiffer == IInv => NoBlockTwice
<1> SUFFICES ASSUME IInv, Len(used) <= COUNTERS, ~ rewound,
                    NEW i \in 1 .. Len(used), NEW j \in 1 .. Len(used), i # j
             PROVE  used[i] # used[j]
  BY DEF NoBlockTwice
<1>c. COUNTERS \in Nat \ {0}
  BY ChaCha20Assumption, SMT
<1>l. Len(used) \in Nat
  BY DEF IInv, TypeInv
<1>1. PICK first \in Nat :
        \A k \in 1 .. Len(used) : used[k] = (first + k - 1) % COUNTERS
  BY DEF IInv, Consecutive
<1> DEFINE x == first + i - 1
           y == first + j - 1
<1>2. x \in Nat /\ y \in Nat /\ x < y + COUNTERS /\ y < x + COUNTERS
      /\ (x < y \/ y < x)
  BY <1>l, <1>c, SMT
<1>3. used[i] = x % COUNTERS /\ used[j] = y % COUNTERS
  BY <1>1
<1> HIDE DEF x, y
<1>4. x % COUNTERS # y % COUNTERS
  BY <1>2, <1>c, SameRemainder
<1> QED BY <1>3, <1>4

(* No key stream object gives a block out twice before its counter has     *)
(* gone round, if the authenticator's key is the first thing it gives out. *)
THEOREM BlocksAreFresh == Spec => []NoBlockTwice
<1>1. Init => IInv
  BY InitIInv
<1>2. IInv /\ [Next]_vars => IInv'
  BY StepIInv
<1>3. IInv => NoBlockTwice
  BY ConsecutiveDiffer
<1> QED BY <1>1, <1>2, <1>3, PTL DEF Spec

(* The byte of the key stream that masks byte i, when the data's first     *)
(* block is number first + 1 of those taken.                               *)
MaskOf(taken, first, i) ==
  [counter |-> taken[first + ((i - 1) \div STREAM) + 1],
   byte    |-> ((i - 1) % STREAM) + 1]

(* apply_keystream has masked the first "offset" bytes with the blocks     *)
(* it has taken, and all of these but the last are used up.                *)
Masking ==
  /\ length \in Nat /\ offset \in 0 .. length
  /\ \E blocks \in Nat :
       /\ blocks <= Len(used)
       /\ offset < length => offset = STREAM * blocks
       /\ offset = length => blocks = (length + STREAM - 1) \div STREAM
       /\ masks = [i \in 1 .. offset |-> MaskOf(used, Len(used) - blocks, i)]

MaskInv == pc = "applying" => Masking

LEMMA MaskBegins ==
  ASSUME IInv, NEW n \in DataLens, apply_keystream(n)
  PROVE  Masking'
<1>1. STREAM \in Nat \ {0} /\ n \in Nat /\ Len(used) \in Nat
  BY ChaCha20Assumption DEF IInv, TypeInv
<1>2. length' = n /\ offset' = 0 /\ masks' = <<>> /\ used' = used
  BY DEF apply_keystream
<1>3. n = 0 => 0 = (n + STREAM - 1) \div STREAM
  <2>1. STREAM * 0 + (STREAM - 1) = STREAM - 1 /\ STREAM - 1 \in 0 .. STREAM - 1
    BY <1>1, SMT
  <2>2. (STREAM * 0 + (STREAM - 1)) \div STREAM = 0
    BY <1>1, <2>1, QuotientUnique
  <2> QED BY <2>1, <2>2, <1>1, SMT
<1>4. STREAM * 0 = 0 /\ 0 \in Nat /\ 0 <= Len(used) /\ 0 \in 0 .. n
  BY <1>1, SMT
<1>5. <<>> = [i \in 1 .. 0 |-> MaskOf(used, Len(used) - 0, i)]
  <2>1. 1 .. 0 = {}
    BY SMT
  <2> QED BY <2>1, SMT
<1> QED BY <1>1, <1>2, <1>3, <1>4, <1>5 DEF Masking

LEMMA MaskGoesOn ==
  ASSUME IInv, Masking, ApplyBlock
  PROVE  Masking'
<1>1. STREAM \in Nat /\ STREAM > 0 /\ STREAM \in Nat \ {0}
  BY ChaCha20Assumption, SMT
<1>2. PICK blocks \in Nat :
        /\ blocks <= Len(used) /\ offset = STREAM * blocks
        /\ masks = [i \in 1 .. offset |-> MaskOf(used, Len(used) - blocks, i)]
  BY DEF Masking, ApplyBlock
<1>3. length \in Nat /\ offset \in Nat /\ offset < length /\ Len(used) \in Nat
  BY DEF Masking, ApplyBlock, IInv, TypeInv
<1>4. used' = Append(used, counter) /\ length' = length /\ offset' = offset + ToProcess
      /\ masks' = masks \o [i \in 1 .. ToProcess |-> [counter |-> counter, byte |-> i]]
  BY DEF ApplyBlock
<1> DEFINE n == ToProcess
           first == Len(used) - blocks
<1>5. n \in 1 .. STREAM /\ n \in Nat /\ offset + n \in 0 .. length
      /\ (offset + n < length => n = STREAM)
  BY <1>1, <1>3, SMT DEF ToProcess
<1>6. /\ Len(used') = Len(used) + 1 /\ used'[Len(used) + 1] = counter
      /\ \A i \in 1 .. Len(used) : used'[i] = used[i]
  BY <1>4, SMT DEF IInv, TypeInv
<1>7. first \in Nat /\ Len(used') - (blocks + 1) = first /\ blocks + 1 <= Len(used')
      /\ blocks + 1 \in Nat
  BY <1>2, <1>3, <1>6, SMT
<1> DEFINE f == [i \in 1 .. n |-> [counter |-> counter, byte |-> i]]
           m == [i \in 1 .. offset |-> MaskOf(used, first, i)]
<1>8. masks = m /\ masks' = m \o f /\ offset' = offset + n
  BY <1>2, <1>4
<1> HIDE DEF n, first
<1>9. STREAM * (blocks + 1) = offset + STREAM
  BY <1>1, <1>2, SMT
<1>10. \A i \in 1 .. offset : MaskOf(used, first, i) = MaskOf(used', first, i)
  <2>1. ASSUME NEW i \in 1 .. offset
        PROVE  MaskOf(used, first, i) = MaskOf(used', first, i)
    <3>1. i - 1 \in Nat /\ i - 1 < STREAM * blocks
      BY <1>2, <1>3, SMT
    <3> DEFINE d == (i - 1) \div STREAM
               r == (i - 1) % STREAM
    <3>2. i - 1 = STREAM * d + r /\ r \in 0 .. STREAM - 1 /\ d \in Nat
      BY <3>1, <1>1, Division
    <3> HIDE DEF d, r
    <3>3. d < blocks
      <4>1. CASE blocks < d
        <5>1. STREAM * blocks + STREAM <= STREAM * d
          BY <4>1, <1>1, <3>2, MultipleGrows
        <5> QED BY <5>1, <3>1, <3>2, <1>1, <1>2, <1>3, SMT
      <4>2. CASE blocks = d
        BY <4>2, <3>1, <3>2, <1>2, <1>3, SMT
      <4> QED BY <4>1, <4>2, <3>2, SMT
    <3>4. first + d + 1 \in 1 .. Len(used)
      <4>1. first + blocks = Len(used)
        BY <1>2, <1>3, SMT DEF first
      <4> QED BY <4>1, <3>2, <3>3, <1>7, SMT
    <3> QED BY <3>4, <1>6 DEF MaskOf, d
  <2> QED BY <2>1
<1>11. \A i \in 1 .. n : f[i] = MaskOf(used', first, offset + i)
  <2>1. ASSUME NEW i \in 1 .. n
        PROVE  [counter |-> counter, byte |-> i] = MaskOf(used', first, offset + i)
    <3>1. i - 1 \in 0 .. STREAM - 1 /\ i \in Nat /\ (offset + i) - 1 = STREAM * blocks + (i - 1)
      BY <1>1, <1>2, <1>3, <1>5, SMT
    <3>2. (STREAM * blocks + (i - 1)) \div STREAM = blocks
          /\ (STREAM * blocks + (i - 1)) % STREAM = i - 1
      BY <3>1, <1>1, QuotientUnique
    <3>3. ((offset + i) - 1) \div STREAM = blocks /\ ((offset + i) - 1) % STREAM = i - 1
      BY <3>1, <3>2
    <3>4. first + blocks + 1 = Len(used) + 1 /\ i - 1 + 1 = i
      BY <1>2, <1>3, <3>1, SMT DEF first
    <3>5. used'[first + blocks + 1] = counter
      BY <3>4, <1>6
    <3>6. MaskOf(used', first, offset + i)
            = [counter |-> used'[first + blocks + 1], byte |-> i - 1 + 1]
      BY <3>3 DEF MaskOf
    <3> QED BY <3>4, <3>5, <3>6
  <2> QED BY <2>1
<1>12. masks' = [i \in 1 .. offset + n |-> MaskOf(used', first, i)]
  <2> DEFINE g == [i \in 1 .. offset + n |-> MaskOf(used', first, i)]
  <2>1. Text(m) /\ Len(m) = offset
    <3>1. m = [i \in 1 .. offset |-> m[i]]
      OBVIOUS
    <3> HIDE DEF m
    <3> QED BY <3>1, <1>3, TextMade
  <2>2. Text(f) /\ Len(f) = n
    <3>1. f = [i \in 1 .. n |-> f[i]]
      OBVIOUS
    <3> HIDE DEF f
    <3> QED BY <3>1, <1>5, TextMade
  <2>3. Text(g) /\ Len(g) = offset + n
    <3>1. g = [i \in 1 .. offset + n |-> g[i]] /\ offset + n \in Nat
      BY <1>3, <1>5
    <3> HIDE DEF g
    <3> QED BY <3>1, TextMade
  <2>4. \A i \in 1 .. offset : m[i] = MaskOf(used', first, i)
    BY <1>10
  <2>5. \A i \in 1 .. n : f[i] = MaskOf(used', first, offset + i)
    BY <1>11
  <2>6. \A i \in 1 .. offset + n : g[i] = MaskOf(used', first, i)
    OBVIOUS
  <2> HIDE DEF m, f, g
  <2>7. /\ Text(m \o f) /\ Len(m \o f) = offset + n
        /\ \A i \in 1 .. offset : (m \o f)[i] = m[i]
        /\ \A i \in 1 .. n : (m \o f)[offset + i] = f[i]
    BY <2>1, <2>2, TextJoined
  <2>8. \A i \in 1 .. offset + n : (m \o f)[i] = g[i]
    <3>1. ASSUME NEW i \in 1 .. offset + n PROVE (m \o f)[i] = g[i]
      <4>1. CASE i \in 1 .. offset
        BY <4>1, <2>4, <2>6, <2>7
      <4>2. CASE i \notin 1 .. offset
        <5>1. PICK j \in 1 .. n : i = offset + j
          <6>1. i - offset \in 1 .. n /\ i = offset + (i - offset)
            BY <4>2, <1>3, <1>5, SMT
          <6> QED BY <6>1
        <5> QED BY <5>1, <2>5, <2>6, <2>7
      <4> QED BY <4>1, <4>2
    <3> QED BY <3>1
  <2>9. m \o f = g
    BY <2>3, <2>7, <2>8, SameText
  <2> QED BY <2>9, <1>8 DEF g
<1>13. offset + n = length => blocks + 1 = (length + STREAM - 1) \div STREAM
  <2>1. ASSUME offset + n = length
        PROVE  blocks + 1 = (length + STREAM - 1) \div STREAM
    <3>1. length + STREAM - 1 = STREAM * (blocks + 1) + (n - 1) /\ n - 1 \in 0 .. STREAM - 1
      BY <2>1, <1>9, <1>1, <1>3, <1>5, SMT
    <3>2. (STREAM * (blocks + 1) + (n - 1)) \div STREAM = blocks + 1
      BY <3>1, <1>1, <1>7, QuotientUnique
    <3> QED BY <3>1, <3>2
  <2> QED BY <2>1
<1>14. offset + n < length => offset + n = STREAM * (blocks + 1)
  BY <1>5, <1>9
<1>15. /\ length' = length /\ offset' = offset + n /\ Len(used') - (blocks + 1) = first
       /\ masks' = [i \in 1 .. offset' |-> MaskOf(used', Len(used') - (blocks + 1), i)]
  BY <1>4, <1>7, <1>8, <1>12
<1> QED
  BY <1>3, <1>5, <1>7, <1>13, <1>14, <1>15 DEF Masking

LEMMA MaskStep == IInv /\ MaskInv /\ [Next]_vars => MaskInv'
<1> SUFFICES ASSUME IInv, MaskInv, [Next]_vars PROVE MaskInv'
  OBVIOUS
<1>1. ASSUME NEW start \in {0} \cup Starts, New(start) PROVE MaskInv'
  BY <1>1 DEF New, MaskInv
<1>2. CASE keystream_block
  BY <1>2 DEF keystream_block, MaskInv
<1>3. CASE generate_poly1305_key
  BY <1>3 DEF generate_poly1305_key, MaskInv
<1>4. ASSUME NEW n \in DataLens, apply_keystream(n) PROVE MaskInv'
  BY <1>4, MaskBegins DEF MaskInv
<1>5. CASE ApplyBlock
  BY <1>5, MaskGoesOn DEF ApplyBlock, MaskInv
<1>6. CASE ApplyReturn
  BY <1>6 DEF ApplyReturn, MaskInv
<1>7. CASE UNCHANGED vars
  BY <1>7 DEF vars, MaskInv, Masking
<1> QED
  BY <1>1, <1>2, <1>3, <1>4, <1>5, <1>6, <1>7 DEF Next

LEMMA MasksFollow == IInv /\ MaskInv => MasksInOrder
<1> SUFFICES ASSUME IInv, Masking, offset >= length
             PROVE  LET blocks == (length + STREAM - 1) \div STREAM
                    IN  /\ Len(masks) = length /\ blocks <= Len(used)
                        /\ \A i \in 1 .. length :
                             masks[i] =
                               [counter |-> used[Len(used) - blocks + ((i - 1) \div STREAM) + 1],
                                byte    |-> ((i - 1) % STREAM) + 1]
  BY DEF MaskInv, MasksInOrder
<1> DEFINE blocks == (length + STREAM - 1) \div STREAM
<1>1. length \in Nat /\ offset = length
  BY SMT DEF Masking
<1>2. /\ blocks <= Len(used)
      /\ masks = [i \in 1 .. length |-> MaskOf(used, Len(used) - blocks, i)]
  BY <1>1 DEF Masking
<1> HIDE DEF blocks
<1>3. Len(masks) = length
  BY <1>1, <1>2, SMT
<1>4. \A i \in 1 .. length : masks[i] = MaskOf(used, Len(used) - blocks, i)
  BY <1>2
<1> QED BY <1>2, <1>3, <1>4 DEF MaskOf, blocks

(* apply_keystream masks every byte once and with the successive bytes of  *)
(* blocks it takes itself, for every length of the data and every state    *)
(* the calls before left the object in.                                    *)
THEOREM MasksAreInOrder == Spec => []MasksInOrder
<1>1. Init => MaskInv
  BY DEF Init, MaskInv
<1> QED
  BY <1>1, InitIInv, StepIInv, MaskStep, MasksFollow, PTL DEF Spec

-----------------------------------------------------------------------------
(* Poly1305.                                                               *)

PolyBlocks == [block : [1 .. MACBLOCK -> Nat], hibit : BOOLEAN]

PolyInv == /\ Poly!Poly1305TypeOK /\ Poly!NoByteLost /\ Poly!TagOfMessage
           /\ p_pc = "topping" => p_offset = 0

LEMMA PolyZero == Poly!ZeroBlock \in [1 .. MACBLOCK -> Nat]
  BY DEF Poly!ZeroBlock

LEMMA PolyInit == Poly!Poly1305Assumption /\ Poly!Init => PolyInv
<1> SUFFICES ASSUME Poly!Poly1305Assumption, Poly!Init PROVE PolyInv
  OBVIOUS
<1>1. Poly!Poly1305TypeOK
  <2>1. 0 \in 0 .. MACBLOCK - 1
    BY SMT DEF Poly!Poly1305Assumption
  <2> QED
    BY <2>1, PolyZero, SMT DEF Poly!Poly1305TypeOK, Poly!Init
<1> QED
  BY <1>1 DEF PolyInv, Poly!NoByteLost, Poly!TagOfMessage, Poly!Init

LEMMA PolyNew == Poly!Poly1305Assumption /\ PolyInv /\ Poly!New => PolyInv'
<1> SUFFICES ASSUME Poly!Poly1305Assumption, PolyInv, Poly!New PROVE PolyInv'
  OBVIOUS
<1>1. Poly!Poly1305TypeOK'
  <2>1. 0 \in 0 .. MACBLOCK - 1
    BY SMT DEF Poly!Poly1305Assumption
  <2> QED
    BY <2>1, PolyZero, SMT DEF Poly!Poly1305TypeOK, Poly!New
<1>2. Poly!NoByteLost'
  <2>1. Len(<<>>) = 0 /\ 0 - 0 + 0 = 0 * MACBLOCK + 0
    BY SMT DEF Poly!Poly1305Assumption
  <2>2. 1 .. 0 = {} /\ ~(0 > 0)
    BY SMT
  <2> QED
    <3>1. p_given' - p_length' + p_offset' = Len(p_h') * MACBLOCK + p_buffer_len'
      BY <2>1 DEF Poly!New
    <3>2. \A k \in 1 .. Len(p_h') : p_h'[k] = Poly!WholeBlock(k)
      BY <2>1, <2>2 DEF Poly!New
    <3>3. /\ p_buffer_len' = 0 /\ p_offset' = p_length'
          /\ \A i \in 1 .. 0 : p_buffer'[i] = Poly!MessageByte(Len(p_h') * MACBLOCK + i)
      BY <2>2 DEF Poly!New
    <3> QED
      BY <2>2, <3>1, <3>2, <3>3 DEF Poly!NoByteLost
<1> QED
  BY <1>1, <1>2 DEF PolyInv, Poly!TagOfMessage, Poly!New

LEMMA PolyUpdate ==
  ASSUME NEW n \in SliceLens
  PROVE  Poly!Poly1305Assumption /\ PolyInv /\ Poly!Update(n) => PolyInv'
<1> SUFFICES ASSUME Poly!Poly1305Assumption, PolyInv, Poly!Update(n) PROVE PolyInv'
  OBVIOUS
<1>1. n \in Nat /\ p_given \in Nat /\ p_length \in Nat /\ p_offset \in Nat
  BY SMT DEF Poly!Poly1305Assumption, PolyInv, Poly!Poly1305TypeOK
<1>2. p_given + n \in Nat /\ n \in 0 .. p_given + n /\ 0 \in 0 .. n
      /\ p_given + n - n + 0 = p_given - p_length + p_length
  BY <1>1, SMT
<1>3. Poly!Poly1305TypeOK'
  BY <1>2 DEF Poly!Update, PolyInv, Poly!Poly1305TypeOK
<1>4. Poly!NoByteLost'
  <2>1. /\ p_pc = "open" /\ p_pc' = "topping" /\ UNCHANGED <<p_h, p_buffer, p_buffer_len>>
        /\ p_length' = n /\ p_offset' = 0 /\ p_given' = p_given + n
    BY DEF Poly!Update
  <2>2. p_offset = p_length
    BY <2>1 DEF PolyInv, Poly!NoByteLost
  <2>3. p_given' - p_length' + p_offset' = p_given - p_length + p_offset
    BY <1>1, <2>1, <2>2, SMT
  <2> QED
    BY <2>1, <2>3 DEF PolyInv, Poly!NoByteLost
<1> QED
  BY <1>3, <1>4 DEF PolyInv, Poly!TagOfMessage, Poly!Update

(* What every step starts from.                                            *)
LEMMA PolyFacts ==
  ASSUME Poly!Poly1305Assumption, PolyInv
  PROVE  /\ MACBLOCK \in Nat /\ MACBLOCK > 1 /\ Len(p_h) \in Nat
         /\ p_h \in Seq(PolyBlocks) /\ p_buffer \in [1 .. MACBLOCK -> Nat]
         /\ p_buffer_len \in Nat /\ p_buffer_len < MACBLOCK
         /\ p_given \in Nat /\ p_length \in Nat /\ p_length <= p_given
         /\ p_offset \in Nat /\ p_offset <= p_length
         /\ Len(p_h) * MACBLOCK \in Nat
         /\ (Len(p_h) + 1) * MACBLOCK = Len(p_h) * MACBLOCK + MACBLOCK
<1>1. /\ MACBLOCK \in Nat /\ MACBLOCK > 1 /\ Len(p_h) \in Nat
      /\ p_buffer_len \in Nat /\ p_buffer_len < MACBLOCK
      /\ p_given \in Nat /\ p_length \in Nat /\ p_length <= p_given
      /\ p_offset \in Nat /\ p_offset <= p_length
  BY SMT DEF Poly!Poly1305Assumption, PolyInv, Poly!Poly1305TypeOK
<1>2. p_h \in Seq(PolyBlocks) /\ p_buffer \in [1 .. MACBLOCK -> Nat]
  BY DEF PolyInv, Poly!Poly1305TypeOK, PolyBlocks
<1> QED
  BY <1>1, <1>2, NextMultiple

(* A whole block of message bytes keeps the first two conditions.          *)
LEMMA PolyAddBlock ==
  ASSUME Poly!Poly1305Assumption, PolyInv,
         p_pc \in {"topping", "blocks"},
         NEW m \in [1 .. MACBLOCK -> Nat],
         \A i \in 1 .. MACBLOCK : m[i] = Poly!MessageByte(Len(p_h) * MACBLOCK + i)
  PROVE  LET g == Poly!AddBlock(p_h, m, TRUE)
         IN  /\ g \in Seq(PolyBlocks) /\ Len(g) = Len(p_h) + 1
             /\ \A k \in 1 .. Len(g) : g[k] = Poly!WholeBlock(k)
<1> DEFINE e == [block |-> m, hibit |-> TRUE]
           g == Append(p_h, e)
<1>1. e \in PolyBlocks
  BY DEF PolyBlocks
<1> HIDE DEF e
<1>2. /\ g \in Seq(PolyBlocks) /\ Len(g) = Len(p_h) + 1 /\ Len(p_h) \in Nat
      /\ \A i \in 1 .. Len(p_h) : g[i] = p_h[i]
      /\ g[Len(p_h) + 1] = e
  BY <1>1, PolyFacts, Appended
<1>3. e = Poly!WholeBlock(Len(p_h) + 1)
  <2>1. Len(p_h) + 1 - 1 = Len(p_h)
    BY <1>2
  <2>2. m = [i \in 1 .. MACBLOCK |-> Poly!MessageByte((Len(p_h) + 1 - 1) * MACBLOCK + i)]
    BY <2>1
  <2> QED
    BY <2>2 DEF e, Poly!WholeBlock
<1>4. ASSUME NEW k \in 1 .. Len(g) PROVE g[k] = Poly!WholeBlock(k)
  <2>1. k \in 1 .. Len(p_h) \/ k = Len(p_h) + 1
    BY <1>2
  <2>2. \A i \in 1 .. Len(p_h) : p_h[i] = Poly!WholeBlock(i)
    BY DEF PolyInv, Poly!NoByteLost
  <2> QED
    BY <1>2, <1>3, <2>1, <2>2
<1> QED
  BY <1>2, <1>4 DEF e, Poly!AddBlock

LEMMA PolyTopUp == Poly!Poly1305Assumption /\ PolyInv /\ Poly!TopUp => PolyInv'
<1> SUFFICES ASSUME Poly!Poly1305Assumption, PolyInv, Poly!TopUp PROVE PolyInv'
  OBVIOUS
<1>1. /\ MACBLOCK \in Nat /\ MACBLOCK > 1 /\ Len(p_h) \in Nat
      /\ p_h \in Seq(PolyBlocks) /\ p_buffer \in [1 .. MACBLOCK -> Nat]
      /\ p_buffer_len \in Nat /\ p_buffer_len < MACBLOCK
      /\ p_given \in Nat /\ p_length \in Nat /\ p_length <= p_given
      /\ p_offset = 0 /\ Len(p_h) * MACBLOCK \in Nat
      /\ (Len(p_h) + 1) * MACBLOCK = Len(p_h) * MACBLOCK + MACBLOCK
      /\ p_given - p_length + 0 = Len(p_h) * MACBLOCK + p_buffer_len
  BY PolyFacts DEF PolyInv, Poly!TopUp, Poly!NoByteLost
<1>2. \A i \in 1 .. p_buffer_len : p_buffer[i] = Poly!MessageByte(Len(p_h) * MACBLOCK + i)
  BY DEF PolyInv, Poly!TopUp, Poly!NoByteLost
<1>3. p_pc = "topping" /\ p_pc' = "blocks" /\ UNCHANGED <<p_length, p_given, p_tag>>
  BY DEF Poly!TopUp
<1> DEFINE have == Poly!Have
           filled == [i \in 1 .. MACBLOCK |->
                        IF i \in p_buffer_len + 1 .. p_buffer_len + have
                          THEN Poly!DataByte(i - p_buffer_len) ELSE p_buffer[i]]
<1>4. /\ have \in Nat /\ have <= p_length /\ p_buffer_len + have <= MACBLOCK
      /\ p_buffer_len + have < MACBLOCK => have = p_length
  BY <1>1 DEF Poly!Have, Poly!LesserOf
<1>5. CASE p_buffer_len = 0
  <2>1. UNCHANGED <<p_h, p_buffer, p_buffer_len, p_offset>>
    BY <1>5 DEF Poly!TopUp
  <2> QED
    BY <1>1, <1>3, <1>5, <2>1
       DEF PolyInv, Poly!Poly1305TypeOK, Poly!NoByteLost, Poly!TagOfMessage
<1>6. CASE p_buffer_len # 0
  <2>1. /\ p_buffer' = filled /\ p_offset' = have
        /\ IF p_buffer_len + have = MACBLOCK
             THEN p_h' = Poly!AddBlock(p_h, filled, TRUE) /\ p_buffer_len' = 0
             ELSE p_buffer_len' = p_buffer_len + have /\ UNCHANGED p_h
    BY <1>6 DEF Poly!TopUp, Poly!ToppedUp
  <2>2. ASSUME NEW i \in 1 .. MACBLOCK
        PROVE  /\ filled[i] \in Nat
               /\ i <= p_buffer_len + have =>
                    filled[i] = Poly!MessageByte(Len(p_h) * MACBLOCK + i)
    <3>1. CASE i \in p_buffer_len + 1 .. p_buffer_len + have
      <4>1. p_given - p_length + 0 + (i - p_buffer_len) = Len(p_h) * MACBLOCK + i
        BY <1>1
      <4>2. filled[i] = Poly!MessageByte(p_given - p_length + p_offset + (i - p_buffer_len))
        BY <3>1 DEF Poly!DataByte
      <4>3. Poly!MessageByte(Len(p_h) * MACBLOCK + i) \in Nat
        <5>1. PICK n \in Nat : n = Len(p_h) * MACBLOCK
          BY <1>1
        <5>2. 255 + (n + i) \in Nat
          BY <1>1
        <5> QED
          BY <5>1, <5>2 DEF Poly!MessageByte
      <4> QED
        BY <1>1, <4>1, <4>2, <4>3
    <3>2. CASE i \notin p_buffer_len + 1 .. p_buffer_len + have
      <4>1. filled[i] = p_buffer[i] /\ p_buffer[i] \in Nat
        BY <1>1, <3>2
      <4>2. i <= p_buffer_len + have => i \in 1 .. p_buffer_len
        BY <1>1, <1>4, <3>2
      <4> QED
        BY <1>2, <4>1, <4>2
    <3> QED
      BY <3>1, <3>2
  <2>3. filled \in [1 .. MACBLOCK -> Nat]
    BY <2>2
  <2> HIDE DEF filled, have
  <2>4. CASE p_buffer_len + have = MACBLOCK
    <3>1. \A i \in 1 .. MACBLOCK : filled[i] = Poly!MessageByte(Len(p_h) * MACBLOCK + i)
      BY <2>2, <2>4
    <3>2. /\ p_h' \in Seq(PolyBlocks) /\ Len(p_h') = Len(p_h) + 1
          /\ \A k \in 1 .. Len(p_h') : p_h'[k] = Poly!WholeBlock(k)
      BY <1>3, <2>1, <2>3, <2>4, <3>1, PolyAddBlock
    <3>3. p_buffer_len' = 0 /\ p_buffer' = filled /\ p_offset' = have
      BY <2>1, <2>4
    <3>4. p_given - p_length + have = Len(p_h') * MACBLOCK + 0
      <4>1. Len(p_h') * MACBLOCK = Len(p_h) * MACBLOCK + MACBLOCK
        BY <1>1, <3>2
      <4>2. PICK lb \in Nat : lb = Len(p_h) * MACBLOCK
        BY <1>1
      <4>3. /\ p_given \in Nat /\ p_length \in Nat /\ have \in Nat /\ p_buffer_len \in Nat
            /\ p_given - p_length + 0 = lb + p_buffer_len /\ p_buffer_len + have = MACBLOCK
        BY <1>1, <1>4, <2>4, <4>2
      <4>4. p_given - p_length + have = lb + MACBLOCK + 0
        BY <4>3
      <4> QED
        BY <4>1, <4>2, <4>4
    <3>5. Poly!Poly1305TypeOK'
      <4>1. 0 \in 0 .. MACBLOCK - 1 /\ have \in 0 .. p_length
        BY <1>1, <1>4
      <4> QED
        BY <1>3, <2>3, <3>2, <3>3, <4>1 DEF PolyInv, Poly!Poly1305TypeOK, PolyBlocks
    <3>6. Poly!NoByteLost'
      <4>1. 1 .. 0 = {} /\ ~(0 > 0)
        BY SMT
      <4> QED
        BY <1>3, <3>2, <3>3, <3>4, <4>1 DEF Poly!NoByteLost
    <3> QED
      BY <1>3, <3>5, <3>6 DEF PolyInv, Poly!TagOfMessage
  <2>5. CASE p_buffer_len + have # MACBLOCK
    <3>1. p_h' = p_h /\ p_buffer_len' = p_buffer_len + have /\ p_buffer' = filled /\ p_offset' = have
      BY <2>1, <2>5
    <3>2. p_given - p_length + have = Len(p_h) * MACBLOCK + (p_buffer_len + have)
          /\ have = p_length /\ p_buffer_len + have \in 0 .. MACBLOCK - 1
      BY <1>1, <1>4, <2>5
    <3>3. \A i \in 1 .. p_buffer_len + have :
            filled[i] = Poly!MessageByte(Len(p_h) * MACBLOCK + i)
      <4>1. \A i \in 1 .. p_buffer_len + have : i \in 1 .. MACBLOCK /\ i <= p_buffer_len + have
        BY <1>1, <1>4
      <4> QED
        BY <2>2, <4>1
    <3>4. \A k \in 1 .. Len(p_h) : p_h[k] = Poly!WholeBlock(k)
      BY <1>3 DEF PolyInv, Poly!NoByteLost
    <3>5. Poly!Poly1305TypeOK'
      <4>1. have \in 0 .. p_length
        BY <1>1, <1>4
      <4> QED
        BY <1>3, <2>3, <3>1, <3>2, <4>1 DEF PolyInv, Poly!Poly1305TypeOK
    <3>6. Poly!NoByteLost'
      BY <1>3, <3>1, <3>2, <3>3, <3>4 DEF Poly!NoByteLost
    <3> QED
      BY <1>3, <3>5, <3>6 DEF PolyInv, Poly!TagOfMessage
  <2> QED
    BY <2>4, <2>5
<1> QED
  BY <1>5, <1>6

LEMMA PolyTakeBlock == Poly!Poly1305Assumption /\ PolyInv /\ Poly!TakeBlock => PolyInv'
<1> SUFFICES ASSUME Poly!Poly1305Assumption, PolyInv, Poly!TakeBlock PROVE PolyInv'
  OBVIOUS
<1>1. /\ MACBLOCK \in Nat /\ MACBLOCK > 1 /\ Len(p_h) \in Nat
      /\ p_given \in Nat /\ p_length \in Nat /\ p_length <= p_given
      /\ p_offset \in Nat /\ p_offset + MACBLOCK <= p_length
      /\ Len(p_h) * MACBLOCK \in Nat /\ p_buffer_len \in Nat
      /\ (Len(p_h) + 1) * MACBLOCK = Len(p_h) * MACBLOCK + MACBLOCK
      /\ p_given - p_length + p_offset = Len(p_h) * MACBLOCK + p_buffer_len
      /\ p_buffer_len > 0 => p_offset = p_length
  BY PolyFacts DEF PolyInv, Poly!TakeBlock, Poly!WholeBlockLeft, Poly!NoByteLost
<1>2. p_buffer_len = 0
  BY <1>1
<1>3. /\ p_pc = "blocks" /\ p_offset' = p_offset + MACBLOCK
      /\ UNCHANGED <<p_pc, p_buffer, p_buffer_len, p_length, p_given, p_tag>>
  BY DEF Poly!TakeBlock
<1> DEFINE m == [i \in 1 .. MACBLOCK |-> Poly!DataByte(i)]
<1>4. ASSUME NEW i \in 1 .. MACBLOCK
      PROVE  m[i] = Poly!MessageByte(Len(p_h) * MACBLOCK + i) /\ m[i] \in Nat
  <2>1. p_given - p_length + p_offset + i = Len(p_h) * MACBLOCK + i
    BY <1>1, <1>2
  <2>2. Poly!MessageByte(Len(p_h) * MACBLOCK + i) \in Nat
    BY <1>1 DEF Poly!MessageByte
  <2> QED
    BY <2>1, <2>2 DEF Poly!DataByte
<1>5. m \in [1 .. MACBLOCK -> Nat] /\ p_h' = Poly!AddBlock(p_h, m, TRUE)
  BY <1>4 DEF Poly!TakeBlock
<1> HIDE DEF m
<1>6. /\ p_h' \in Seq(PolyBlocks) /\ Len(p_h') = Len(p_h) + 1
      /\ \A k \in 1 .. Len(p_h') : p_h'[k] = Poly!WholeBlock(k)
  BY <1>3, <1>4, <1>5, PolyAddBlock
<1>7. Poly!Poly1305TypeOK'
  <2>1. p_offset + MACBLOCK \in 0 .. p_length
    BY <1>1
  <2> QED
    BY <1>3, <1>6, <2>1 DEF PolyInv, Poly!Poly1305TypeOK, PolyBlocks
<1>8. Poly!NoByteLost'
  <2>1. p_given - p_length + (p_offset + MACBLOCK) = Len(p_h') * MACBLOCK + 0
    BY <1>1, <1>2, <1>6
  <2>2. 1 .. 0 = {} /\ ~(0 > 0)
    BY SMT
  <2> QED
    BY <1>2, <1>3, <1>6, <2>1, <2>2 DEF Poly!NoByteLost
<1> QED
  BY <1>3, <1>7, <1>8 DEF PolyInv, Poly!TagOfMessage

LEMMA PolyKeepRest == Poly!Poly1305Assumption /\ PolyInv /\ Poly!KeepRest => PolyInv'
<1> SUFFICES ASSUME Poly!Poly1305Assumption, PolyInv, Poly!KeepRest PROVE PolyInv'
  OBVIOUS
<1>1. /\ MACBLOCK \in Nat /\ MACBLOCK > 1 /\ Len(p_h) \in Nat
      /\ p_buffer \in [1 .. MACBLOCK -> Nat]
      /\ p_given \in Nat /\ p_length \in Nat /\ p_length <= p_given
      /\ p_offset \in Nat /\ p_offset <= p_length /\ ~(p_offset + MACBLOCK <= p_length)
      /\ Len(p_h) * MACBLOCK \in Nat /\ p_buffer_len \in Nat
      /\ p_given - p_length + p_offset = Len(p_h) * MACBLOCK + p_buffer_len
      /\ p_buffer_len > 0 => p_offset = p_length
  BY PolyFacts DEF PolyInv, Poly!KeepRest, Poly!WholeBlockLeft, Poly!NoByteLost
<1>2. /\ \A k \in 1 .. Len(p_h) : p_h[k] = Poly!WholeBlock(k)
      /\ \A i \in 1 .. p_buffer_len : p_buffer[i] = Poly!MessageByte(Len(p_h) * MACBLOCK + i)
  BY DEF PolyInv, Poly!KeepRest, Poly!NoByteLost
<1>3. /\ p_pc = "blocks" /\ p_pc' = "open" /\ p_length' = 0 /\ p_offset' = 0
      /\ UNCHANGED <<p_h, p_given, p_tag>>
  BY DEF Poly!KeepRest
<1>4. 0 \in 0 .. p_given /\ 0 \in 0 .. 0
  BY <1>1
<1>5. CASE p_offset < p_length
  <2> DEFINE left == p_length - p_offset
             kept == [i \in 1 .. MACBLOCK |->
                        IF i <= left THEN Poly!DataByte(i) ELSE p_buffer[i]]
  <2>1. p_buffer' = kept /\ p_buffer_len' = left
    BY <1>5 DEF Poly!KeepRest
  <2>2. left \in 1 .. MACBLOCK - 1 /\ p_buffer_len = 0
    BY <1>1, <1>5
  <2>3. ASSUME NEW i \in 1 .. MACBLOCK
        PROVE  /\ kept[i] \in Nat
               /\ i <= left => kept[i] = Poly!MessageByte(Len(p_h) * MACBLOCK + i)
    <3>1. p_given - p_length + p_offset + i = Len(p_h) * MACBLOCK + i
      <4>1. p_given - p_length + p_offset = Len(p_h) * MACBLOCK + 0
        BY <1>1, <2>2
      <4> QED
        BY <1>1, <4>1
    <3>2. Poly!MessageByte(Len(p_h) * MACBLOCK + i) \in Nat /\ p_buffer[i] \in Nat
      BY <1>1 DEF Poly!MessageByte
    <3>3. kept[i] = IF i <= left THEN Poly!MessageByte(p_given - p_length + p_offset + i)
                                 ELSE p_buffer[i]
      BY DEF Poly!DataByte
    <3> QED
      BY <3>1, <3>2, <3>3
  <2> HIDE DEF kept
  <2>4. kept \in [1 .. MACBLOCK -> Nat]
    BY <2>3 DEF kept
  <2>5. p_given - 0 + 0 = Len(p_h) * MACBLOCK + left /\ left \in 0 .. MACBLOCK - 1
        /\ \A i \in 1 .. left : i \in 1 .. MACBLOCK /\ i <= left
    BY <1>1, <2>2
  <2>6. \A i \in 1 .. left : kept[i] = Poly!MessageByte(Len(p_h) * MACBLOCK + i)
    BY <2>3, <2>5
  <2> HIDE DEF left
  <2>7. Poly!Poly1305TypeOK'
    BY <1>3, <1>4, <2>1, <2>4, <2>5 DEF PolyInv, Poly!Poly1305TypeOK
  <2>8. Poly!NoByteLost'
    BY <1>2, <1>3, <2>1, <2>5, <2>6 DEF Poly!NoByteLost
  <2> QED
    BY <1>3, <2>7, <2>8 DEF PolyInv, Poly!TagOfMessage
<1>6. CASE ~(p_offset < p_length)
  <2>1. UNCHANGED <<p_buffer, p_buffer_len>>
    BY <1>6 DEF Poly!KeepRest
  <2>2. p_given - 0 + 0 = Len(p_h) * MACBLOCK + p_buffer_len
    BY <1>1, <1>6
  <2>3. Poly!Poly1305TypeOK'
    BY <1>3, <1>4, <2>1 DEF PolyInv, Poly!Poly1305TypeOK
  <2>4. Poly!NoByteLost'
    BY <1>2, <1>3, <2>1, <2>2 DEF Poly!NoByteLost
  <2> QED
    BY <1>3, <2>3, <2>4 DEF PolyInv, Poly!TagOfMessage
<1> QED
  BY <1>5, <1>6

LEMMA PolyFinalize == Poly!Poly1305Assumption /\ PolyInv /\ Poly!Finalize => PolyInv'
<1> SUFFICES ASSUME Poly!Poly1305Assumption, PolyInv, Poly!Finalize PROVE PolyInv'
  OBVIOUS
<1>1. /\ MACBLOCK \in Nat /\ MACBLOCK > 1 /\ Len(p_h) \in Nat /\ p_h \in Seq(PolyBlocks)
      /\ p_buffer \in [1 .. MACBLOCK -> Nat] /\ p_given \in Nat
      /\ p_length \in Nat /\ p_offset = p_length /\ p_length <= p_given
      /\ p_buffer_len \in Nat /\ p_buffer_len < MACBLOCK /\ Len(p_h) * MACBLOCK \in Nat
      /\ p_given - p_length + p_offset = Len(p_h) * MACBLOCK + p_buffer_len
  BY PolyFacts DEF PolyInv, Poly!Finalize, Poly!NoByteLost
<1>2. /\ \A k \in 1 .. Len(p_h) : p_h[k] = Poly!WholeBlock(k)
      /\ \A i \in 1 .. p_buffer_len : p_buffer[i] = Poly!MessageByte(Len(p_h) * MACBLOCK + i)
  BY DEF PolyInv, Poly!Finalize, Poly!NoByteLost
<1>3. /\ p_pc' = "done" /\ p_h' = <<>> /\ p_buffer' = Poly!ZeroBlock /\ p_buffer_len' = 0
      /\ p_tag' = IF p_buffer_len > 0 THEN Poly!AddBlock(p_h, Poly!Marked, FALSE) ELSE p_h
      /\ UNCHANGED <<p_length, p_offset, p_given>>
  BY DEF Poly!Finalize
<1> DEFINE e == [block |-> Poly!Marked, hibit |-> FALSE]
<1>4. e \in PolyBlocks
  BY <1>1 DEF Poly!Marked, PolyBlocks
<1> HIDE DEF e
<1>5. /\ Append(p_h, e) \in Seq(PolyBlocks) /\ Len(Append(p_h, e)) = Len(p_h) + 1
      /\ \A k \in 1 .. Len(p_h) : Append(p_h, e)[k] = p_h[k]
      /\ Append(p_h, e)[Len(p_h) + 1] = e
  BY <1>1, <1>4, Appended
<1>6. Poly!AddBlock(p_h, Poly!Marked, FALSE) = Append(p_h, e)
  BY DEF e, Poly!AddBlock
<1>7. p_given \div MACBLOCK = Len(p_h) /\ p_given % MACBLOCK = p_buffer_len
  <2>1. p_given = Len(p_h) * MACBLOCK + p_buffer_len /\ p_buffer_len \in 0 .. MACBLOCK - 1
        /\ MACBLOCK \in Nat \ {0}
    BY <1>1
  <2> QED
    BY <1>1, <2>1, DivisionUnique
<1>8. Poly!Poly1305TypeOK'
  <2>1. 0 \in 0 .. MACBLOCK - 1 /\ <<>> \in Seq(PolyBlocks)
    BY <1>1
  <2>2. p_tag' \in Seq(PolyBlocks)
    BY <1>1, <1>3, <1>5, <1>6
  <2> QED
    BY <1>3, <2>1, <2>2, PolyZero DEF PolyInv, Poly!Poly1305TypeOK, PolyBlocks
<1>9. Poly!TagOfMessage'
  <2>1. Poly!Marked = [i \in 1 .. MACBLOCK |->
                         IF i <= p_buffer_len THEN Poly!MessageByte(Len(p_h) * MACBLOCK + i)
                         ELSE IF i = p_buffer_len + 1 THEN 1 ELSE 0]
    <3>1. \A i \in 1 .. MACBLOCK : i <= p_buffer_len => i \in 1 .. p_buffer_len
      BY <1>1
    <3> QED
      BY <1>2, <3>1 DEF Poly!Marked
  <2>2. CASE p_buffer_len > 0
    <3>1. p_tag' = Append(p_h, e)
      BY <1>3, <1>6, <2>2
    <3>2. p_buffer_len # 0
      BY <1>1, <2>2
    <3> QED
      BY <1>2, <1>3, <1>5, <1>7, <2>1, <2>2, <3>1, <3>2 DEF Poly!TagOfMessage, e
  <2>3. CASE ~(p_buffer_len > 0)
    <3>1. p_tag' = p_h /\ p_buffer_len = 0
      BY <1>1, <1>3, <2>3
    <3> QED
      BY <1>2, <1>3, <1>7, <2>3, <3>1 DEF Poly!TagOfMessage
  <2> QED
    BY <2>2, <2>3
<1> QED
  BY <1>3, <1>8, <1>9 DEF PolyInv, Poly!NoByteLost

LEMMA PolyStep ==
  Poly!Poly1305Assumption /\ PolyInv /\ [Poly!Next]_(Poly!vars) => PolyInv'
<1> SUFFICES ASSUME Poly!Poly1305Assumption, PolyInv, [Poly!Next]_(Poly!vars)
             PROVE  PolyInv'
  OBVIOUS
<1>1. CASE Poly!New
  BY <1>1, PolyNew
<1>2. ASSUME NEW n \in SliceLens, Poly!Update(n) PROVE PolyInv'
  BY <1>2, PolyUpdate
<1>3. CASE Poly!TopUp
  BY <1>3, PolyTopUp
<1>4. CASE Poly!TakeBlock
  BY <1>4, PolyTakeBlock
<1>5. CASE Poly!KeepRest
  BY <1>5, PolyKeepRest
<1>6. CASE Poly!Finalize
  BY <1>6, PolyFinalize
<1>7. CASE UNCHANGED Poly!vars
  BY <1>7 DEF Poly!vars, PolyInv, Poly!Poly1305TypeOK, Poly!NoByteLost,
              Poly!TagOfMessage
<1> QED
  BY <1>1, <1>2, <1>3, <1>4, <1>5, <1>6, <1>7 DEF Poly!Next

-----------------------------------------------------------------------------
(* CTR and CBC.                                                            *)

LEMMA ModesSizes ==
  /\ BLOCK \in Nat /\ BLOCK > 0 /\ BLOCK \in Nat \ {0}
  /\ CTR_COUNTERS \in Nat /\ CTR_COUNTERS > 1 /\ CTR_COUNTERS \in Nat \ {0}
  /\ InitialCounters \subseteq 0 .. CTR_COUNTERS - 1 /\ ModeRooms \subseteq Nat
  /\ \A s \in ModeTexts : Text(s)
<1>1. Modes!AesModesAssumption
  BY CiphersAssumption
<1>2. \A s \in ModeTexts : Text(s)
  BY <1>1 DEF Modes!AesModesAssumption, Text
<1> QED
  BY <1>1, <1>2, SMT DEF Modes!AesModesAssumption

LEMMA CutIs ==
  ASSUME NEW s, Text(s), NEW m \in Nat, NEW n \in Nat, m + n <= Len(s)
  PROVE  /\ Text(SubSeq(s, m + 1, m + n)) /\ Len(SubSeq(s, m + 1, m + n)) = n
         /\ \A i \in 1 .. n : SubSeq(s, m + 1, m + n)[i] = s[m + i]
<1>1. PICK S : s \in Seq(S)
  BY DEF Text
<1> DEFINE u == SubSeq(s, m + 1, m + n)
<1>2. u \in Seq(S) /\ Len(u) = n
  BY <1>1, SMT
<1>3. \A i \in 1 .. n : u[i] = s[m + i]
  BY <1>1, SMT
<1> QED
  BY <1>2, <1>3 DEF Text

(* The first d blocks of a buffer.                                         *)
LEMMA BlocksBefore ==
  ASSUME NEW d \in Nat, NEW j \in 1 .. d
  PROVE  /\ j - 1 \in Nat /\ BLOCK * (j - 1) \in Nat /\ BLOCK * j \in Nat
         /\ BLOCK * d \in Nat
         /\ BLOCK * (j - 1) + BLOCK = BLOCK * j /\ BLOCK * j <= BLOCK * d
<1>1. /\ (j - 1) * BLOCK \in Nat /\ j * BLOCK \in Nat /\ d * BLOCK \in Nat
      /\ (j - 1) * BLOCK + BLOCK = j * BLOCK /\ j * BLOCK <= d * BLOCK
  BY ModesSizes, EarlierBlock
<1>2. j - 1 \in Nat /\ j \in Nat
  OBVIOUS
<1>3. /\ (j - 1) * BLOCK = BLOCK * (j - 1) /\ j * BLOCK = BLOCK * j
      /\ d * BLOCK = BLOCK * d
  BY <1>2, ModesSizes, NextMultiple
<1> QED
  BY <1>1, <1>2, <1>3

LEMMA ChunkIs ==
  ASSUME NEW s, Text(s), NEW j \in Nat \ {0}, BLOCK * j <= Len(s)
  PROVE  /\ Modes!Chunk(s, j) = [i \in 1 .. BLOCK |-> s[BLOCK * (j - 1) + i]]
         /\ Len(Modes!Chunk(s, j)) = BLOCK
         /\ \A i \in 1 .. BLOCK : BLOCK * (j - 1) + i \in 1 .. Len(s)
<1>1. /\ BLOCK * (j - 1) \in Nat /\ BLOCK * j \in Nat
      /\ BLOCK * (j - 1) + BLOCK = BLOCK * j
  BY j \in 1 .. j, BlocksBefore
<1>2. BLOCK \in Nat /\ Len(s) \in Nat
  BY ModesSizes, TextIs
<1> DEFINE u == Modes!Chunk(s, j)
<1>3. u = SubSeq(s, BLOCK * (j - 1) + 1, BLOCK * (j - 1) + BLOCK)
  BY <1>1 DEF Modes!Chunk
<1> HIDE DEF u
<1>4. /\ Text(u) /\ Len(u) = BLOCK
      /\ \A i \in 1 .. BLOCK : u[i] = s[BLOCK * (j - 1) + i]
  BY <1>1, <1>2, <1>3, CutIs
<1>5. u = [i \in 1 .. BLOCK |-> u[i]]
  BY <1>4, TextIs
<1>6. u = [i \in 1 .. BLOCK |-> s[BLOCK * (j - 1) + i]]
  BY <1>4, <1>5
<1>7. \A i \in 1 .. BLOCK : BLOCK * (j - 1) + i \in 1 .. Len(s)
  BY <1>1, <1>2
<1> QED
  BY <1>4, <1>6, <1>7 DEF u

LEMMA ChunkWhole ==
  ASSUME NEW s, Text(s), NEW d \in Nat, BLOCK * d <= Len(s),
         Len(Modes!Chunk(s, d + 1)) = BLOCK
  PROVE  BLOCK * (d + 1) <= Len(s)
<1>1. /\ (d + 1) - 1 = d /\ d + 1 \in 1 .. d + 1
  OBVIOUS
<1>2. /\ BLOCK * d \in Nat /\ BLOCK * (d + 1) \in Nat
      /\ BLOCK * d + BLOCK = BLOCK * (d + 1)
  BY <1>1, BlocksBefore
<1>3. BLOCK \in Nat /\ Len(s) \in Nat
  BY ModesSizes, TextIs
<1>4. ASSUME ~ (BLOCK * (d + 1) <= Len(s)) PROVE FALSE
  <2>1. Modes!Chunk(s, d + 1) = SubSeq(s, BLOCK * d + 1, Len(s))
    BY <1>1, <1>4 DEF Modes!Chunk
  <2>2. PICK n \in Nat : BLOCK * d + n = Len(s) /\ n < BLOCK
    <3>1. PICK p \in Nat : p = BLOCK * d
      BY <1>2
    <3>2. p <= Len(s) /\ Len(s) < p + BLOCK
      BY <1>2, <1>3, <1>4, <3>1
    <3>3. PICK n \in Nat : p + n = Len(s)
      BY <1>3, <3>1, <3>2
    <3>4. n < BLOCK
      BY <1>3, <3>1, <3>2, <3>3
    <3> QED
      BY <3>1, <3>3, <3>4
  <2>3. Len(SubSeq(s, BLOCK * d + 1, BLOCK * d + n)) = n
    BY <1>2, <1>3, <2>2, CutIs
  <2> QED
    BY <1>3, <2>1, <2>2, <2>3
<1> QED
  BY <1>4

(* u is s with the data of block d + 1.                                    *)
IsPut(u, s, d, data) ==
  /\ Text(u) /\ Len(u) = Len(s)
  /\ \A i \in 1 .. Len(s) :
       u[i] = IF i - BLOCK * d \in 1 .. BLOCK THEN data[i - BLOCK * d] ELSE s[i]

LEMMA PutIs ==
  ASSUME NEW s, Text(s), NEW d \in Nat, BLOCK * (d + 1) <= Len(s),
         NEW data, data = [i \in 1 .. BLOCK |-> data[i]],
         NEW u, u = Modes!Put(s, d + 1, data)
  PROVE  IsPut(u, s, d, data)
<1>1. (d + 1) - 1 = d
  OBVIOUS
<1>2. Len(s) \in Nat /\ DOMAIN s = 1 .. Len(s)
  BY TextIs
<1>3. DOMAIN data = 1 .. BLOCK
  OBVIOUS
<1>4. u = [i \in 1 .. Len(s) |-> IF i - BLOCK * d \in 1 .. BLOCK
                                   THEN data[i - BLOCK * d] ELSE s[i]]
  BY <1>1, <1>2, <1>3 DEF Modes!Put
<1>5. u = [i \in 1 .. Len(s) |-> u[i]]
  BY <1>4
<1>6. Text(u) /\ Len(u) = Len(s)
  BY <1>2, <1>5, TextMade
<1>7. \A i \in 1 .. Len(s) :
        u[i] = IF i - BLOCK * d \in 1 .. BLOCK
               THEN data[i - BLOCK * d] ELSE s[i]
  BY <1>4
<1> QED
  BY <1>6, <1>7 DEF IsPut

LEMMA PutKeeps ==
  ASSUME NEW s, Text(s), NEW d \in Nat, BLOCK * (d + 1) <= Len(s),
         NEW data, data = [i \in 1 .. BLOCK |-> data[i]],
         NEW u, IsPut(u, s, d, data)
  PROVE  /\ Modes!Chunk(u, d + 1) = data
         /\ \A j \in 1 .. d : Modes!Chunk(u, j) = Modes!Chunk(s, j)
         /\ \A i \in BLOCK * (d + 1) + 1 .. Len(s) : u[i] = s[i]
<1>1. /\ (d + 1) - 1 = d /\ d + 1 \in 1 .. d + 1 /\ d + 1 \in Nat \ {0}
  OBVIOUS
<1>2. /\ BLOCK * d \in Nat /\ BLOCK * (d + 1) \in Nat
      /\ BLOCK * d + BLOCK = BLOCK * (d + 1)
  BY <1>1, BlocksBefore
<1>3. BLOCK \in Nat /\ Len(s) \in Nat
  BY ModesSizes, TextIs
<1>5. \A i \in 1 .. Len(s) :
        u[i] = IF i - BLOCK * d \in 1 .. BLOCK
               THEN data[i - BLOCK * d] ELSE s[i]
  BY DEF IsPut
<1>7. Text(u) /\ Len(u) = Len(s)
  BY DEF IsPut
<1>8. Modes!Chunk(u, d + 1) = data
  <2>0. BLOCK * (d + 1) <= Len(u)
    BY <1>7
  <2>1. /\ Modes!Chunk(u, d + 1) =
             [i \in 1 .. BLOCK |-> u[BLOCK * ((d + 1) - 1) + i]]
        /\ \A i \in 1 .. BLOCK : BLOCK * ((d + 1) - 1) + i \in 1 .. Len(u)
    BY <1>1, <1>7, <2>0, ChunkIs
  <2>2. ASSUME NEW i \in 1 .. BLOCK PROVE u[BLOCK * d + i] = data[i]
    <3>1. (BLOCK * d + i) - BLOCK * d = i
      BY <1>2
    <3>2. BLOCK * d + i \in 1 .. Len(s)
      BY <1>1, <1>7, <2>1
    <3> QED
      BY <1>5, <3>1, <3>2
  <2>3. Modes!Chunk(u, d + 1) = [i \in 1 .. BLOCK |-> u[BLOCK * d + i]]
    BY <1>1, <2>1
  <2> QED
    BY <2>2, <2>3
<1>9. ASSUME NEW j \in 1 .. d PROVE Modes!Chunk(u, j) = Modes!Chunk(s, j)
  <2>1. j \in Nat \ {0}
    OBVIOUS
  <2>2. /\ BLOCK * (j - 1) \in Nat /\ BLOCK * j \in Nat
        /\ BLOCK * (j - 1) + BLOCK = BLOCK * j /\ BLOCK * j <= BLOCK * d
    BY BlocksBefore
  <2>3. BLOCK * j <= Len(s)
    BY <1>2, <1>3, <2>2
  <2>4. /\ Modes!Chunk(s, j) = [i \in 1 .. BLOCK |-> s[BLOCK * (j - 1) + i]]
        /\ \A i \in 1 .. BLOCK : BLOCK * (j - 1) + i \in 1 .. Len(s)
    BY <2>1, <2>3, ChunkIs
  <2>6. Modes!Chunk(u, j) = [i \in 1 .. BLOCK |-> u[BLOCK * (j - 1) + i]]
    <3>1. BLOCK * j <= Len(u)
      BY <1>7, <2>3
    <3> QED
      BY <1>7, <2>1, <3>1, ChunkIs
  <2>5. ASSUME NEW i \in 1 .. BLOCK
        PROVE  u[BLOCK * (j - 1) + i] = s[BLOCK * (j - 1) + i]
    <3>1. ~ ((BLOCK * (j - 1) + i) - BLOCK * d \in 1 .. BLOCK)
      <4>1. PICK a \in Nat, p \in Nat, q \in Nat :
              /\ a = BLOCK * (j - 1) /\ p = BLOCK * j /\ q = BLOCK * d
              /\ a + BLOCK = p /\ p <= q
        BY <1>2, <2>2
      <4>2. a \in Nat /\ p \in Nat /\ q \in Nat /\ a + BLOCK = p /\ p <= q
        BY <4>1
      <4>3. (a + i) - q <= 0
        BY <1>3, <4>2
      <4>4. ~ ((a + i) - q \in 1 .. BLOCK)
        BY <4>3, SMT
      <4> QED
        BY <4>1, <4>4
    <3> QED
      BY <1>5, <2>4, <3>1
  <2> QED
    BY <2>4, <2>5, <2>6
<1>10. ASSUME NEW i \in BLOCK * (d + 1) + 1 .. Len(s) PROVE u[i] = s[i]
  <2>1. i \in 1 .. Len(s) /\ ~ (i - BLOCK * d \in 1 .. BLOCK)
    BY <1>2, <1>3
  <2> QED
    BY <1>5, <2>1
<1> QED
  BY <1>8, <1>9, <1>10

(* The number of chunks of n bytes, whole ones and perhaps a short one.    *)
LEMMA NumChunksIs ==
  ASSUME NEW n \in Nat
  PROVE  /\ Modes!NumChunks(n) \in Nat /\ n <= BLOCK * Modes!NumChunks(n)
         /\ \A d \in Nat : BLOCK * d <= n => d <= Modes!NumChunks(n)
<1> DEFINE q == Modes!NumChunks(n)
<1>1. BLOCK \in Nat /\ BLOCK > 0 /\ BLOCK \in Nat \ {0}
  BY ModesSizes
<1>2. n + BLOCK - 1 \in Nat
  BY <1>1
<1>3. PICK z \in 0 .. BLOCK - 1 : n + BLOCK - 1 = BLOCK * q + z /\ q \in Nat
  BY <1>1, <1>2, Division DEF Modes!NumChunks
<1> HIDE DEF q
<1>4. BLOCK * q \in Nat
  BY <1>1, <1>3, NextMultiple
<1>5. n <= BLOCK * q
  BY <1>1, <1>3, <1>4
<1>6. ASSUME NEW d \in Nat, BLOCK * d <= n PROVE d <= q
  <2>1. q < d => BLOCK * q + BLOCK <= BLOCK * d
    BY <1>1, <1>3, MultipleGrows
  <2>2. BLOCK * d \in Nat
    BY <1>1, NextMultiple
  <2> QED
    BY <1>1, <1>3, <1>4, <1>6, <2>1, <2>2
<1> QED
  BY <1>3, <1>5, <1>6 DEF q

(* What a block under the cipher becomes, and what it is chained to.       *)
LEMMA BlocksAre ==
  ASSUME NEW b, NEW c
  PROVE  /\ Modes!EncryptBlock(b) = [i \in 1 .. BLOCK |-> Modes!EncryptBlock(b)[i]]
         /\ Modes!XorBlock(b, c) = [i \in 1 .. BLOCK |-> Modes!XorBlock(b, c)[i]]
  BY DEF Modes!EncryptBlock, Modes!XorBlock

LEMMA Decrypted ==
  ASSUME NEW b
  PROVE  Modes!DecryptBlock(Modes!EncryptBlock(b)) = b
<1> DEFINE c == Modes!EncryptBlock(b)
           a == <<"encrypt", b, 0, 1>>
<1>1. c[1] = {a}
  <2>1. 1 \in 1 .. BLOCK
    BY ModesSizes
  <2> QED
    BY <2>1 DEF Modes!EncryptBlock
<1>2. (CHOOSE x \in {a} : TRUE) = a
  OBVIOUS
<1>3. a[1] = "encrypt" /\ a[2] = b
  OBVIOUS
<1>4. c = Modes!EncryptBlock(a[2])
  BY <1>3
<1> HIDE DEF a, c
<1>5. Modes!DecryptBlock(c) = b
  BY <1>1, <1>2, <1>3, <1>4 DEF Modes!DecryptBlock
<1> QED
  BY <1>5 DEF c

LEMMA ModesXorTwice ==
  ASSUME NEW x, NEW y, NEW z
  PROVE  /\ Modes!Xor(Modes!Xor(x, y), y) = x
         /\ y # z => Modes!Xor(Modes!Xor(x, y), z) # x
  BY DEF Modes!Xor

Link(iv, ct, j) == IF j = 1 THEN iv ELSE Modes!Chunk(ct, j - 1)

(* The first d blocks of a buffer are the text's, each under the cipher    *)
(* with the one before it, and what is behind them is as it was.           *)
Chained(iv, pt, after, d) ==
  /\ Text(after) /\ d \in Nat /\ BLOCK * d <= Len(pt) /\ BLOCK * d <= Len(after)
  /\ \A j \in 1 .. d :
       Modes!Chunk(after, j) =
         Modes!EncryptBlock(Modes!XorBlock(Modes!Chunk(pt, j), Link(iv, after, j)))
  /\ \A i \in BLOCK * d + 1 .. Len(after) : after[i] = Modes!Letter("stale")

(* The first d blocks of a buffer are the ciphertext's, decrypted.         *)
Unchained(iv, ct, after, d) ==
  /\ Text(after) /\ d \in Nat /\ BLOCK * d <= Len(ct) /\ BLOCK * d <= Len(after)
  /\ \A j \in 1 .. d :
       Modes!Chunk(after, j) =
         Modes!XorBlock(Modes!DecryptBlock(Modes!Chunk(ct, j)), Link(iv, ct, j))

LEMMA ModesStaleIs ==
  ASSUME NEW n \in Nat
  PROVE  /\ Text(Modes!Stale(n)) /\ Len(Modes!Stale(n)) = n
         /\ \A i \in 1 .. n : Modes!Stale(n)[i] = Modes!Letter("stale")
<1>1. Modes!Stale(n) = [i \in 1 .. n |-> Modes!Stale(n)[i]]
  BY DEF Modes!Stale
<1>2. \A i \in 1 .. n : Modes!Stale(n)[i] = Modes!Letter("stale")
  BY DEF Modes!Stale
<1> QED
  BY <1>1, <1>2, TextMade

LEMMA ChainBegins ==
  ASSUME NEW iv, NEW s, Text(s), NEW n \in Nat
  PROVE  /\ Chained(iv, s, Modes!Stale(n), 0) /\ Unchained(iv, s, Modes!Stale(n), 0)
         /\ Link(iv, s, 1) = iv
<1> DEFINE u == Modes!Stale(n)
<1>1. /\ Text(u) /\ Len(u) = n
      /\ \A i \in 1 .. n : u[i] = Modes!Letter("stale")
  BY ModesStaleIs
<1> HIDE DEF u
<1>2. BLOCK * 0 = 0 /\ 0 <= Len(s) /\ 0 <= Len(u) /\ 1 .. 0 = {} /\ 0 + 1 = 1
  BY <1>1, ModesSizes, TextIs, SMT
<1>3. \A i \in BLOCK * 0 + 1 .. Len(u) : u[i] = Modes!Letter("stale")
  BY <1>1, <1>2
<1>4. Chained(iv, s, u, 0)
  BY <1>1, <1>2, <1>3 DEF Chained
<1>5. Unchained(iv, s, u, 0)
  BY <1>1, <1>2 DEF Unchained
<1> QED
  BY <1>4, <1>5 DEF u, Link

LEMMA ChainGrows ==
  ASSUME NEW iv, NEW pt, Text(pt), NEW s, NEW d, Chained(iv, pt, s, d),
         Len(Modes!Chunk(pt, d + 1)) = BLOCK, Len(Modes!Chunk(s, d + 1)) = BLOCK,
         NEW data,
         data = Modes!EncryptBlock(Modes!XorBlock(Modes!Chunk(pt, d + 1),
                                                  Link(iv, s, d + 1))),
         NEW u, u = Modes!Put(s, d + 1, data)
  PROVE  Chained(iv, pt, u, d + 1) /\ Link(iv, u, d + 2) = data
<1>1. Text(s) /\ d \in Nat /\ BLOCK * d <= Len(pt) /\ BLOCK * d <= Len(s)
  BY DEF Chained
<1>2. BLOCK * (d + 1) <= Len(pt) /\ BLOCK * (d + 1) <= Len(s)
  BY <1>1, ChunkWhole
<1>3. data = [i \in 1 .. BLOCK |-> data[i]]
  BY BlocksAre
<1>0. IsPut(u, s, d, data)
  BY <1>1, <1>2, <1>3, PutIs
<1>4. Text(u) /\ Len(u) = Len(s)
  BY <1>0 DEF IsPut
<1>5. /\ Modes!Chunk(u, d + 1) = data
      /\ \A j \in 1 .. d : Modes!Chunk(u, j) = Modes!Chunk(s, j)
      /\ \A i \in BLOCK * (d + 1) + 1 .. Len(s) : u[i] = s[i]
  BY <1>0, <1>1, <1>2, <1>3, PutKeeps
<1>6. \A j \in 1 .. d + 1 : Link(iv, u, j) = Link(iv, s, j)
  <2>1. ASSUME NEW j \in 1 .. d + 1, j # 1 PROVE j - 1 \in 1 .. d
    BY <1>1, <2>1
  <2> QED
    BY <1>5, <2>1 DEF Link
<1>7. ASSUME NEW j \in 1 .. d + 1
      PROVE  Modes!Chunk(u, j) =
               Modes!EncryptBlock(Modes!XorBlock(Modes!Chunk(pt, j), Link(iv, u, j)))
  <2>1. CASE j = d + 1
    BY <1>5, <1>6, <2>1
  <2>2. CASE j # d + 1
    <3>1. j \in 1 .. d
      BY <1>1, <2>2
    <3>2. Modes!Chunk(s, j) =
            Modes!EncryptBlock(Modes!XorBlock(Modes!Chunk(pt, j), Link(iv, s, j)))
      BY <3>1 DEF Chained
    <3> QED
      BY <1>5, <1>6, <3>1, <3>2
  <2> QED
    BY <2>1, <2>2
<1>8. ASSUME NEW i \in BLOCK * (d + 1) + 1 .. Len(u)
      PROVE  u[i] = Modes!Letter("stale")
  <2>1. BLOCK * d \in Nat /\ BLOCK * (d + 1) \in Nat /\ BLOCK * d <= BLOCK * (d + 1)
    <3>1. d \in Nat /\ d + 1 \in Nat /\ d < d + 1
      BY <1>1
    <3>2. BLOCK * (d + 1) \in Nat /\ BLOCK * d \in Nat
          /\ BLOCK * d + BLOCK <= BLOCK * (d + 1)
      BY <3>1, ModesSizes, MultipleGrows
    <3> QED
      BY <3>2, ModesSizes
  <2>2. Len(s) \in Nat
    BY <1>1, TextIs
  <2>3. i \in BLOCK * d + 1 .. Len(s) /\ i \in BLOCK * (d + 1) + 1 .. Len(s)
    BY <1>4, <2>1, <2>2
  <2>4. s[i] = Modes!Letter("stale")
    BY <2>3 DEF Chained
  <2> QED
    BY <1>5, <2>3, <2>4
<1>9. Chained(iv, pt, u, d + 1)
  <2>1. d + 1 \in Nat
    BY <1>1
  <2> QED
    BY <1>2, <1>4, <1>7, <1>8, <2>1 DEF Chained
<1>10. d + 2 # 1 /\ (d + 2) - 1 = d + 1
  BY <1>1
<1> QED
  BY <1>5, <1>9, <1>10 DEF Link

LEMMA UnchainGrows ==
  ASSUME NEW iv, NEW ct, Text(ct), NEW s, NEW d, Unchained(iv, ct, s, d),
         Len(Modes!Chunk(ct, d + 1)) = BLOCK, Len(Modes!Chunk(s, d + 1)) = BLOCK,
         NEW data,
         data = Modes!XorBlock(Modes!DecryptBlock(Modes!Chunk(ct, d + 1)),
                               Link(iv, ct, d + 1)),
         NEW u, u = Modes!Put(s, d + 1, data)
  PROVE  Unchained(iv, ct, u, d + 1) /\ Link(iv, ct, d + 2) = Modes!Chunk(ct, d + 1)
<1>1. Text(s) /\ d \in Nat /\ BLOCK * d <= Len(ct) /\ BLOCK * d <= Len(s)
  BY DEF Unchained
<1>2. BLOCK * (d + 1) <= Len(ct) /\ BLOCK * (d + 1) <= Len(s)
  BY <1>1, ChunkWhole
<1>3. data = [i \in 1 .. BLOCK |-> data[i]]
  BY BlocksAre
<1>0. IsPut(u, s, d, data)
  BY <1>1, <1>2, <1>3, PutIs
<1>4. Text(u) /\ Len(u) = Len(s)
  BY <1>0 DEF IsPut
<1>5. /\ Modes!Chunk(u, d + 1) = data
      /\ \A j \in 1 .. d : Modes!Chunk(u, j) = Modes!Chunk(s, j)
  BY <1>0, <1>1, <1>2, <1>3, PutKeeps
<1>7. ASSUME NEW j \in 1 .. d + 1
      PROVE  Modes!Chunk(u, j) =
               Modes!XorBlock(Modes!DecryptBlock(Modes!Chunk(ct, j)), Link(iv, ct, j))
  <2>1. CASE j = d + 1
    BY <1>5, <2>1
  <2>2. CASE j # d + 1
    <3>1. j \in 1 .. d
      BY <1>1, <2>2
    <3>2. Modes!Chunk(s, j) =
            Modes!XorBlock(Modes!DecryptBlock(Modes!Chunk(ct, j)), Link(iv, ct, j))
      BY <3>1 DEF Unchained
    <3> QED
      BY <1>5, <3>1, <3>2
  <2> QED
    BY <2>1, <2>2
<1>9. Unchained(iv, ct, u, d + 1)
  <2>1. d + 1 \in Nat
    BY <1>1
  <2> QED
    BY <1>2, <1>4, <1>7, <2>1 DEF Unchained
<1>10. d + 2 # 1 /\ (d + 2) - 1 = d + 1
  BY <1>1
<1> QED
  BY <1>9, <1>10 DEF Link

(* CBC: the loop that writes (or has ended) has encrypted d blocks.        *)
CbcWriting(iv, pt, outcome, after, d) ==
  /\ iv \in Modes!Ivs /\ pt \in ModeTexts
  /\ outcome \in {"running", "returned", "panic"}
  /\ m_made = [mode |-> "cbc", iv |-> iv, pt |-> pt, outcome |-> outcome,
               after |-> after]
  /\ Chained(iv, pt, after, d)
  /\ outcome = "running" => m_chunk = d + 1 /\ m_prev = Link(iv, after, d + 1)
  /\ outcome = "returned" => Modes!Zipped(pt, after) <= d

(* CBC: the loop that reads has decrypted d blocks of the first n bytes.   *)
CbcReading(iv, n, outcome, after, d) ==
  /\ iv \in Modes!Ivs /\ n \in 0 .. Len(m_made.after)
  /\ m_made.outcome \in {"returned", "panic"}
  /\ outcome \in {"running", "returned", "panic"}
  /\ m_read = [mode |-> "cbc", iv |-> iv, input |-> Modes!Written(n),
               outcome |-> outcome, after |-> after]
  /\ outcome # "panic" => Unchained(iv, Modes!Written(n), after, d)
  /\ outcome = "running" =>
       m_chunk = d + 1 /\ m_prev = Link(iv, Modes!Written(n), d + 1)
  /\ outcome = "returned" => Modes!Zipped(Modes!Written(n), after) <= d

Initial(nonce, c) == [nonce |-> nonce, counter |-> c]

CtrWriting(nonce, c, pt, room) ==
  /\ c \in 0 .. CTR_COUNTERS - 1 /\ pt \in ModeTexts /\ room \in Nat
  /\ m_made = [mode |-> "ctr", iv |-> Initial(nonce, c), pt |-> pt,
               outcome |-> Modes!Outcome(pt, Modes!Stale(room)),
               after |-> Modes!apply_iv(Initial(nonce, c), pt, Modes!Stale(room))]

CtrReading(nonce, c, n, room) ==
  /\ c \in 0 .. CTR_COUNTERS - 1 /\ n \in 0 .. Len(m_made.after) /\ room \in Nat
  /\ m_made.outcome \in {"returned", "panic"}
  /\ m_read = [mode |-> "ctr", iv |-> Initial(nonce, c), input |-> Modes!Written(n),
               outcome |-> Modes!Outcome(Modes!Written(n), Modes!Stale(room)),
               after |-> Modes!apply_iv(Initial(nonce, c), Modes!Written(n),
                                        Modes!Stale(room))]

MadeCbc == \E iv, pt, outcome, after, d : CbcWriting(iv, pt, outcome, after, d)
ReadCbc == \E iv, n, outcome, after, d : CbcReading(iv, n, outcome, after, d)
MadeCtr == \E nonce, c, pt, room : CtrWriting(nonce, c, pt, room)
ReadCtr == \E nonce, c, n, room : CtrReading(nonce, c, n, room)

ModesInv ==
  \/ m_made = Modes!NoMode /\ m_read = Modes!NoMode
  \/ MadeCtr /\ (m_read = Modes!NoMode \/ ReadCtr)
  \/ MadeCbc /\ (m_read = Modes!NoMode \/ ReadCbc)

(* What is known of a call from its record.                                *)
LEMMA ModesTell ==
  ASSUME ModesInv
  PROVE  /\ m_made = Modes!NoMode => m_read = Modes!NoMode
         /\ m_made.outcome = "running" => MadeCbc /\ m_read = Modes!NoMode
         /\ m_made.mode = "cbc" => MadeCbc /\ (m_read = Modes!NoMode \/ ReadCbc)
         /\ m_made.mode = "ctr" => MadeCtr /\ (m_read = Modes!NoMode \/ ReadCtr)
         /\ m_read.outcome = "running" => MadeCbc /\ ReadCbc
         /\ m_read.outcome = "returned" =>
              \/ m_made.mode = "ctr" /\ MadeCtr /\ ReadCtr
              \/ m_made.mode = "cbc" /\ MadeCbc /\ ReadCbc
<1>n. Modes!NoMode.mode = "none" /\ Modes!NoMode.outcome = "none"
  BY DEF Modes!NoMode
<1>1. ASSUME MadeCtr
      PROVE  m_made.mode = "ctr" /\ m_made.outcome \in {"returned", "panic"}
  BY <1>1 DEF MadeCtr, CtrWriting, Modes!Outcome
<1>2. MadeCbc => m_made.mode = "cbc"
  BY DEF MadeCbc, CbcWriting
<1>3. ReadCbc => m_made.outcome \in {"returned", "panic"}
  BY DEF ReadCbc, CbcReading
<1>4. ASSUME ReadCtr
      PROVE  m_read.outcome \in {"returned", "panic"}
  BY <1>4 DEF ReadCtr, CtrReading, Modes!Outcome
<1>a. CASE m_made = Modes!NoMode /\ m_read = Modes!NoMode
  BY <1>a, <1>n
<1>b. CASE MadeCtr /\ (m_read = Modes!NoMode \/ ReadCtr)
  <2>1. m_made.mode = "ctr" /\ m_made.outcome \in {"returned", "panic"}
    BY <1>b, <1>1
  <2>2. m_read.outcome # "running" /\ m_made # Modes!NoMode
    BY <1>b, <1>4, <1>n, <2>1
  <2>3. m_read.outcome = "returned" => ReadCtr
    BY <1>b, <1>n
  <2> QED
    BY <1>b, <2>1, <2>2, <2>3
<1>c. CASE MadeCbc /\ (m_read = Modes!NoMode \/ ReadCbc)
  <2>1. m_made.mode = "cbc" /\ m_made # Modes!NoMode
    BY <1>c, <1>2, <1>n
  <2>2. m_made.outcome = "running" => m_read = Modes!NoMode
    BY <1>c, <1>3
  <2>3. m_read.outcome \in {"running", "returned"} => ReadCbc
    BY <1>c, <1>n
  <2> QED
    BY <1>c, <2>1, <2>2, <2>3
<1> QED
  BY <1>a, <1>b, <1>c DEF ModesInv

LEMMA CtrMakes ==
  ASSUME ModesInv, NEW iv, NEW pt \in ModeTexts, NEW room \in ModeRooms,
         iv = Initial(iv.nonce, iv.counter), iv.counter \in 0 .. CTR_COUNTERS - 1,
         Modes!CtrEncrypt(iv, pt, room)
  PROVE  ModesInv'
<1>1. m_read' = Modes!NoMode
  BY ModesTell DEF Modes!CtrEncrypt, Modes!Made
<1>2. PICK nonce, c : iv = Initial(nonce, c) /\ c \in 0 .. CTR_COUNTERS - 1
  OBVIOUS
<1>3. room \in Nat
  BY ModesSizes
<1>4. CtrWriting(nonce, c, pt, room)'
  BY <1>2, <1>3 DEF Modes!CtrEncrypt, Modes!Made, CtrWriting
<1>5. MadeCtr'
  BY <1>4 DEF MadeCtr
<1> QED
  BY <1>1, <1>5 DEF ModesInv

LEMMA CbcMakes ==
  ASSUME ModesInv, NEW iv \in Modes!Ivs, NEW pt \in ModeTexts, NEW room \in ModeRooms,
         Modes!CbcEncrypt(iv, pt, room)
  PROVE  ModesInv'
<1>1. m_read' = Modes!NoMode
  BY ModesTell DEF Modes!CbcEncrypt, Modes!Made
<1>2. room \in Nat /\ Text(pt)
  BY ModesSizes
<1>3. Chained(iv, pt, Modes!Stale(room), 0)
  BY <1>2, ChainBegins
<1>4. Link(iv, Modes!Stale(room), 1) = iv
  BY DEF Link
<1>5. CbcWriting(iv, pt, "running", Modes!Stale(room), 0)'
  BY <1>3, <1>4 DEF Modes!CbcEncrypt, Modes!Made, CbcWriting
<1>6. MadeCbc'
  BY <1>5 DEF MadeCbc
<1> QED
  BY <1>1, <1>6 DEF ModesInv

LEMMA CbcWrites ==
  ASSUME ModesInv, Modes!EncryptChunk
  PROVE  ModesInv'
<1>1. m_made.outcome = "running" /\ MadeCbc /\ m_read' = Modes!NoMode
  BY ModesTell DEF Modes!EncryptChunk
<1>2. PICK iv, pt, outcome, s, d : CbcWriting(iv, pt, outcome, s, d)
  BY <1>1 DEF MadeCbc
<1>3. /\ m_made = [mode |-> "cbc", iv |-> iv, pt |-> pt, outcome |-> "running",
                   after |-> s]
      /\ m_chunk = d + 1 /\ m_prev = Link(iv, s, d + 1)
      /\ iv \in Modes!Ivs /\ pt \in ModeTexts /\ Chained(iv, pt, s, d)
  BY <1>1, <1>2 DEF CbcWriting
<1> DEFINE x == Modes!Chunk(pt, d + 1)
           data == Modes!EncryptBlock(Modes!XorBlock(x, Link(iv, s, d + 1)))
           u == Modes!Put(s, d + 1, data)
<1>4. CASE /\ Len(x) = BLOCK /\ Len(Modes!Chunk(s, d + 1)) = BLOCK
           /\ m_made' = [m_made EXCEPT !.after = Modes!Put(@, m_chunk, data)]
           /\ m_chunk' = m_chunk + 1 /\ m_prev' = data
  <2>1. Text(pt) /\ d \in Nat
    BY <1>3, ModesSizes DEF Chained
  <2>2. Chained(iv, pt, u, d + 1) /\ Link(iv, u, d + 2) = data
    BY <1>3, <1>4, <2>1, ChainGrows
  <2>3. m_chunk' = (d + 1) + 1 /\ (d + 1) + 1 = d + 2
    BY <1>3, <1>4, <2>1
  <2>4. m_made' = [mode |-> "cbc", iv |-> iv, pt |-> pt, outcome |-> "running",
                   after |-> u]
    BY <1>3, <1>4
  <2> HIDE DEF u, data
  <2>5. CbcWriting(iv, pt, "running", u, d + 1)'
    BY <1>3, <1>4, <2>2, <2>3, <2>4 DEF CbcWriting
  <2>6. MadeCbc'
    BY <2>5 DEF MadeCbc
  <2> QED
    BY <1>1, <2>6 DEF ModesInv
<1>5. CASE m_made' = [m_made EXCEPT !.outcome = "panic"]
  <2>1. m_made' = [mode |-> "cbc", iv |-> iv, pt |-> pt, outcome |-> "panic",
                   after |-> s]
    BY <1>3, <1>5
  <2>2. CbcWriting(iv, pt, "panic", s, d)'
    BY <1>3, <2>1 DEF CbcWriting
  <2>3. MadeCbc'
    BY <2>2 DEF MadeCbc
  <2> QED
    BY <1>1, <2>3 DEF ModesInv
<1>6. m_made.pt = pt /\ m_made.after = s
  BY <1>3
<1> QED
  BY <1>3, <1>4, <1>5, <1>6 DEF Modes!EncryptChunk

LEMMA ZippedIs ==
  ASSUME NEW s, NEW u, Text(s), Text(u)
  PROVE  /\ Modes!Zipped(s, u) \in Nat
         /\ Modes!Zipped(s, u) \in {Modes!NumChunks(Len(s)), Modes!NumChunks(Len(u))}
         /\ Modes!Zipped(s, u) <= Modes!NumChunks(Len(s))
         /\ Modes!Zipped(s, u) <= Modes!NumChunks(Len(u))
<1>1. Len(s) \in Nat /\ Len(u) \in Nat
  BY TextIs
<1>2. Modes!NumChunks(Len(s)) \in Nat /\ Modes!NumChunks(Len(u)) \in Nat
  BY <1>1, NumChunksIs
<1> QED
  BY <1>2 DEF Modes!Zipped, Modes!Least

LEMMA CbcWrote ==
  ASSUME ModesInv, Modes!EncryptReturn
  PROVE  ModesInv'
<1>1. m_made.outcome = "running" /\ MadeCbc /\ m_read' = Modes!NoMode
  BY ModesTell DEF Modes!EncryptReturn
<1>2. PICK iv, pt, outcome, s, d : CbcWriting(iv, pt, outcome, s, d)
  BY <1>1 DEF MadeCbc
<1>3. /\ m_made = [mode |-> "cbc", iv |-> iv, pt |-> pt, outcome |-> "running",
                   after |-> s]
      /\ m_chunk = d + 1 /\ d \in Nat
      /\ iv \in Modes!Ivs /\ pt \in ModeTexts /\ Chained(iv, pt, s, d)
  BY <1>1, <1>2 DEF CbcWriting, Chained
<1>4. m_made' = [mode |-> "cbc", iv |-> iv, pt |-> pt, outcome |-> "returned",
                 after |-> s]
  BY <1>3 DEF Modes!EncryptReturn
<1>5. Modes!Zipped(pt, s) <= d
  <2>1. m_chunk > Modes!Zipped(pt, s)
    BY <1>3 DEF Modes!EncryptReturn
  <2>2. Modes!Zipped(pt, s) \in Nat
    BY <1>3, ModesSizes, ZippedIs DEF Chained
  <2> QED
    BY <1>3, <2>1, <2>2
<1>6. CbcWriting(iv, pt, "returned", s, d)'
  BY <1>3, <1>4, <1>5 DEF CbcWriting
<1>7. MadeCbc'
  BY <1>6 DEF MadeCbc
<1> QED
  BY <1>1, <1>7 DEF ModesInv

(* What is read is a part of what was written.                             *)
LEMMA WrittenIs ==
  ASSUME Text(m_made.after), NEW n \in 0 .. Len(m_made.after)
  PROVE  /\ Text(Modes!Written(n)) /\ Len(Modes!Written(n)) = n /\ n \in Nat
         /\ \A i \in 1 .. n : Modes!Written(n)[i] = m_made.after[i]
<1>1. Len(m_made.after) \in Nat
  BY TextIs
<1>2. n \in Nat /\ 0 + n <= Len(m_made.after) /\ 0 \in Nat
  BY <1>1
<1> DEFINE u == SubSeq(m_made.after, 0 + 1, 0 + n)
<1>3. /\ Text(u) /\ Len(u) = n
      /\ \A i \in 1 .. n : u[i] = m_made.after[0 + i]
  BY <1>2, CutIs
<1>4. Modes!Written(n) = u
  BY <1>2 DEF Modes!Written
<1> HIDE DEF u
<1>5. \A i \in 1 .. n : 0 + i = i
  OBVIOUS
<1> QED
  BY <1>2, <1>3, <1>4, <1>5

LEMMA CtrReads ==
  ASSUME ModesInv, NEW iv, NEW n \in 0 .. Len(m_made.after), NEW room \in ModeRooms,
         iv = Initial(iv.nonce, iv.counter), iv.counter \in 0 .. CTR_COUNTERS - 1,
         Modes!CtrDecrypt(iv, n, room)
  PROVE  ModesInv'
<1>1. MadeCtr
  BY ModesTell DEF Modes!CtrDecrypt
<1>2. PICK nonce, c : iv = Initial(nonce, c) /\ c \in 0 .. CTR_COUNTERS - 1
  OBVIOUS
<1>3. room \in Nat
  BY ModesSizes
<1>4. m_made' = m_made /\ m_made.mode = "ctr" /\ Modes!Written(n)' = Modes!Written(n)
  BY DEF Modes!CtrDecrypt, Modes!Read, Modes!Written
<1>5. CtrReading(nonce, c, n, room)'
  BY <1>2, <1>3, <1>4 DEF Modes!CtrDecrypt, Modes!Read, CtrReading
<1>6. ReadCtr'
  BY <1>5 DEF ReadCtr
<1>7. MadeCtr'
  BY <1>1, <1>4 DEF MadeCtr, CtrWriting
<1> QED
  BY <1>6, <1>7 DEF ModesInv

(* A buffer that CBC has written to is a text.                             *)
LEMMA CbcText ==
  ASSUME MadeCbc
  PROVE  Text(m_made.after) /\ m_made.mode = "cbc"
  BY DEF MadeCbc, CbcWriting, Chained

(* While it is read nothing is written.                                    *)
LEMMA CbcStays ==
  ASSUME MadeCbc, m_made' = m_made, m_made.outcome # "running"
  PROVE  MadeCbc'
<1>1. PICK iv, pt, outcome, s, d : CbcWriting(iv, pt, outcome, s, d)
  BY DEF MadeCbc
<1>2. outcome # "running"
  BY <1>1 DEF CbcWriting
<1>3. CbcWriting(iv, pt, outcome, s, d)'
  BY <1>1, <1>2 DEF CbcWriting
<1> QED
  BY <1>3 DEF MadeCbc

LEMMA CbcReads ==
  ASSUME ModesInv, NEW iv \in Modes!Ivs, NEW n \in 0 .. Len(m_made.after),
         NEW room \in ModeRooms, Modes!CbcDecrypt(iv, n, room)
  PROVE  ModesInv'
<1>1. MadeCbc
  BY ModesTell DEF Modes!CbcDecrypt
<1>2. room \in Nat /\ Text(m_made.after)
  BY <1>1, ModesSizes, CbcText
<1>3. /\ m_made' = m_made /\ m_made.mode = "cbc"
      /\ m_made.outcome \in {"returned", "panic"}
      /\ Modes!Written(n)' = Modes!Written(n)
  BY DEF Modes!CbcDecrypt, Modes!Read, Modes!Written
<1>4. Text(Modes!Written(n))
  BY <1>2, WrittenIs
<1>5. /\ Unchained(iv, Modes!Written(n), Modes!Stale(room), 0)
      /\ Link(iv, Modes!Written(n), 1) = iv
  BY <1>2, <1>4, ChainBegins
<1>6. /\ m_read' = [mode |-> "cbc", iv |-> iv, input |-> Modes!Written(n),
                    outcome |-> "running", after |-> Modes!Stale(room)]
      /\ m_chunk' = 1 /\ m_prev' = iv
  BY <1>3 DEF Modes!CbcDecrypt, Modes!Read
<1>7. CbcReading(iv, n, "running", Modes!Stale(room), 0)'
  BY <1>3, <1>5, <1>6 DEF CbcReading
<1>8. ReadCbc'
  BY <1>7 DEF ReadCbc
<1>9. MadeCbc'
  BY <1>1, <1>3, CbcStays
<1> QED
  BY <1>8, <1>9 DEF ModesInv

LEMMA CbcGoesOnReading ==
  ASSUME ModesInv, Modes!DecryptChunk
  PROVE  ModesInv'
<1>1. m_read.outcome = "running" /\ MadeCbc /\ ReadCbc /\ m_made' = m_made
  BY ModesTell DEF Modes!DecryptChunk
<1>2. PICK iv, n, outcome, s, d : CbcReading(iv, n, outcome, s, d)
  BY <1>1 DEF ReadCbc
<1> DEFINE ct == Modes!Written(n)
           x == Modes!Chunk(ct, d + 1)
           data == Modes!XorBlock(Modes!DecryptBlock(x), Link(iv, ct, d + 1))
           u == Modes!Put(s, d + 1, data)
<1>3. /\ m_read = [mode |-> "cbc", iv |-> iv, input |-> ct, outcome |-> "running",
                   after |-> s]
      /\ m_chunk = d + 1 /\ m_prev = Link(iv, ct, d + 1)
      /\ iv \in Modes!Ivs /\ n \in 0 .. Len(m_made.after)
      /\ m_made.outcome \in {"returned", "panic"}
      /\ Unchained(iv, ct, s, d)
  BY <1>1, <1>2 DEF CbcReading
<1>4. Text(ct) /\ d \in Nat
  BY <1>1, <1>3, CbcText, WrittenIs DEF Unchained
<1>5. MadeCbc'
  BY <1>1, <1>3, CbcStays
<1>6. Modes!Written(n)' = ct
  BY <1>1 DEF Modes!Written
<1>7. CASE /\ Len(x) = BLOCK /\ Len(Modes!Chunk(s, d + 1)) = BLOCK
           /\ m_read' = [m_read EXCEPT !.after = Modes!Put(@, m_chunk, data)]
           /\ m_chunk' = m_chunk + 1 /\ m_prev' = x
  <2>2. Unchained(iv, ct, u, d + 1) /\ Link(iv, ct, d + 2) = x
    BY <1>3, <1>4, <1>7, UnchainGrows
  <2>3. m_chunk' = (d + 1) + 1 /\ (d + 1) + 1 = d + 2 /\ m_prev' = x
    BY <1>3, <1>4, <1>7
  <2>4. m_read' = [mode |-> "cbc", iv |-> iv, input |-> ct, outcome |-> "running",
                   after |-> u]
    BY <1>3, <1>7
  <2> HIDE DEF u, data, x, ct
  <2>0. PICK w : w = u
    OBVIOUS
  <2>5. CbcReading(iv, n, "running", w, d + 1)'
    <3>1. m_chunk' = (d + 1) + 1 /\ m_prev' = Link(iv, ct, (d + 1) + 1)
      BY <2>2, <2>3
    <3>2. iv \in Modes!Ivs /\ n \in 0 .. Len(m_made'.after)
          /\ m_made'.outcome \in {"returned", "panic"}
      BY <1>1, <1>3
    <3>3. Unchained(iv, ct, w, d + 1)
      BY <2>0, <2>2
    <3>4. m_read' = [mode |-> "cbc", iv |-> iv, input |-> ct,
                     outcome |-> "running", after |-> w]
      BY <2>0, <2>4
    <3> QED
      BY <1>6, <3>1, <3>2, <3>3, <3>4 DEF CbcReading
  <2>6. ReadCbc'
    BY <2>5 DEF ReadCbc
  <2> QED
    BY <1>5, <2>6 DEF ModesInv
<1>8. ASSUME NEW w,
             m_read' = [mode |-> "cbc", iv |-> iv, input |-> ct,
                        outcome |-> "panic", after |-> w]
      PROVE  ModesInv'
  <2> HIDE DEF ct
  <2>2. CbcReading(iv, n, "panic", w, d)'
    BY <1>1, <1>3, <1>6, <1>8 DEF CbcReading
  <2>3. ReadCbc'
    BY <2>2 DEF ReadCbc
  <2> QED
    BY <1>5, <2>3 DEF ModesInv
<1>9. CASE m_read' = [m_read EXCEPT !.outcome = "panic"]
  <2>1. m_read' = [mode |-> "cbc", iv |-> iv, input |-> ct, outcome |-> "panic",
                   after |-> s]
    BY <1>3, <1>9
  <2> QED
    BY <1>8, <2>1
<1>10. CASE m_read' = [m_read EXCEPT !.after = Modes!Put(@, m_chunk, data),
                                     !.outcome = "panic"]
  <2>1. m_read' = [mode |-> "cbc", iv |-> iv, input |-> ct, outcome |-> "panic",
                   after |-> u]
    BY <1>3, <1>10
  <2> QED
    BY <1>8, <2>1
<1>11. m_read.input = ct /\ m_read.after = s
  BY <1>3
<1> QED
  BY <1>3, <1>7, <1>9, <1>10, <1>11 DEF Modes!DecryptChunk, Modes!NextPrev

LEMMA CbcHasRead ==
  ASSUME ModesInv, Modes!DecryptReturn
  PROVE  ModesInv'
<1>1. m_read.outcome = "running" /\ MadeCbc /\ ReadCbc /\ m_made' = m_made
  BY ModesTell DEF Modes!DecryptReturn
<1>2. PICK iv, n, outcome, s, d : CbcReading(iv, n, outcome, s, d)
  BY <1>1 DEF ReadCbc
<1> DEFINE ct == Modes!Written(n)
<1>3. /\ m_read = [mode |-> "cbc", iv |-> iv, input |-> ct, outcome |-> "running",
                   after |-> s]
      /\ m_chunk = d + 1
      /\ iv \in Modes!Ivs /\ n \in 0 .. Len(m_made.after)
      /\ m_made.outcome \in {"returned", "panic"}
      /\ Unchained(iv, ct, s, d)
  BY <1>1, <1>2 DEF CbcReading
<1>4. Text(ct) /\ Text(s) /\ d \in Nat
  BY <1>1, <1>3, CbcText, WrittenIs DEF Unchained
<1>5. MadeCbc'
  BY <1>1, <1>3, CbcStays
<1>6. Modes!Written(n)' = ct
  BY <1>1 DEF Modes!Written
<1> HIDE DEF ct
<1>7. m_read' = [mode |-> "cbc", iv |-> iv, input |-> ct, outcome |-> "returned",
                 after |-> s]
  BY <1>3 DEF Modes!DecryptReturn
<1>8. Modes!Zipped(ct, s) <= d
  <2>1. m_chunk > Modes!Zipped(ct, s)
    BY <1>3 DEF Modes!DecryptReturn
  <2>2. Modes!Zipped(ct, s) \in Nat
    BY <1>4, ZippedIs
  <2> QED
    BY <1>3, <1>4, <2>1, <2>2
<1>9. CbcReading(iv, n, "returned", s, d)'
  BY <1>1, <1>3, <1>6, <1>7, <1>8 DEF CbcReading
<1>10. ReadCbc'
  BY <1>9 DEF ReadCbc
<1> QED
  BY <1>5, <1>10 DEF ModesInv

LEMMA ModesBegin == Modes!ModesInit => ModesInv
  BY DEF Modes!ModesInit, ModesInv

LEMMA ModesGoOn ==
  ASSUME ModesInv, Modes!ModesNext
  PROVE  ModesInv'
<1>i. ASSUME NEW iv \in Modes!CounterBlocks
      PROVE  iv = Initial(iv.nonce, iv.counter) /\ iv.counter \in 0 .. CTR_COUNTERS - 1
  BY ModesSizes DEF Modes!CounterBlocks, Initial
<1>1. ASSUME NEW pt \in ModeTexts, NEW room \in ModeRooms, NEW iv \in Modes!CounterBlocks,
             Modes!CtrEncrypt(iv, pt, room)
      PROVE  ModesInv'
  BY <1>i, <1>1, CtrMakes
<1>2. ASSUME NEW pt \in ModeTexts, NEW room \in ModeRooms, NEW nonce \in Nonces,
             Modes!CtrApply(nonce, pt, room)
      PROVE  ModesInv'
  <2> DEFINE iv == Modes!apply_start(nonce)
  <2>1. iv = Initial(iv.nonce, iv.counter) /\ iv.counter = 1
    BY DEF Modes!apply_start, Initial
  <2>2. 1 \in 0 .. CTR_COUNTERS - 1
    BY ModesSizes
  <2>3. Modes!CtrEncrypt(iv, pt, room)
    BY <1>2 DEF Modes!CtrApply
  <2> HIDE DEF iv
  <2> QED
    BY <2>1, <2>2, <2>3, CtrMakes
<1>3. ASSUME NEW pt \in ModeTexts, NEW room \in ModeRooms, NEW iv \in Modes!Ivs,
             Modes!CbcEncrypt(iv, pt, room)
      PROVE  ModesInv'
  BY <1>3, CbcMakes
<1>4. ASSUME NEW n \in 0 .. Len(m_made.after), NEW room \in ModeRooms,
             NEW iv \in Modes!CounterBlocks, Modes!CtrDecrypt(iv, n, room)
      PROVE  ModesInv'
  BY <1>i, <1>4, CtrReads
<1>5. ASSUME NEW n \in 0 .. Len(m_made.after), NEW room \in ModeRooms,
             NEW iv \in Modes!Ivs, Modes!CbcDecrypt(iv, n, room)
      PROVE  ModesInv'
  BY <1>5, CbcReads
<1>6. CASE Modes!EncryptChunk
  BY <1>6, CbcWrites
<1>7. CASE Modes!EncryptReturn
  BY <1>7, CbcWrote
<1>8. CASE Modes!DecryptChunk
  BY <1>8, CbcGoesOnReading
<1>9. CASE Modes!DecryptReturn
  BY <1>9, CbcHasRead
<1>10. CASE Modes!TakeMade
  BY <1>10 DEF Modes!TakeMade, ModesInv
<1> QED
  BY <1>1, <1>2, <1>3, <1>4, <1>5, <1>6, <1>7, <1>8, <1>9, <1>10 DEF Modes!ModesNext

(* CTR writes the text under the key stream, as far as there is room.      *)
Stream(nonce, c, i) == MaskAtom(nonce, c, BLOCK, CTR_COUNTERS, i)

Streamed(after, nonce, c, pt, room) ==
  /\ Text(after) /\ Len(after) = room
  /\ \A i \in 1 .. room :
       /\ i <= Len(pt) => after[i] = Modes!Xor(pt[i], {Stream(nonce, c, i)})
       /\ ~(i <= Len(pt)) => after[i] = Modes!Letter("stale")

LEMMA CtrIs ==
  ASSUME NEW nonce, NEW c, NEW pt, Text(pt), NEW room \in Nat
  PROVE  Streamed(Modes!apply_iv(Initial(nonce, c), pt, Modes!Stale(room)),
                  nonce, c, pt, room)
<1> DEFINE after == Modes!apply_iv(Initial(nonce, c), pt, Modes!Stale(room))
           data == Modes!ApplyKeystream(nonce, c, BLOCK, CTR_COUNTERS, pt)
           s == Modes!Stale(room)
           l == Len(pt)
<1>1. /\ Text(s) /\ Len(s) = room
      /\ \A i \in 1 .. room : s[i] = Modes!Letter("stale")
  BY ModesStaleIs
<1>2. l \in Nat
  BY TextIs
<1>3. data = [i \in 1 .. l |-> Modes!Xor(pt[i], {Stream(nonce, c, i)})]
  BY DEF Modes!ApplyKeystream, Modes!KeystreamAtom, Stream, MaskAtom, KeystreamAtom
<1>4. after = Modes!Overwrite(s, data)
  BY DEF Modes!apply_iv, Initial
<1> HIDE DEF after, data, s, l
<1>5. data = [i \in 1 .. l |-> data[i]]
  BY <1>3
<1>6. Len(data) = l
  BY <1>2, <1>5, TextMade
<1>7. after = [i \in 1 .. room |-> IF i <= l THEN data[i] ELSE s[i]]
  BY <1>1, <1>4, <1>6 DEF Modes!Overwrite
<1>8. after = [i \in 1 .. room |-> after[i]]
  BY <1>7
<1>9. Text(after) /\ Len(after) = room
  BY <1>8, TextMade
<1>10. ASSUME NEW i \in 1 .. room
       PROVE  /\ i <= l => after[i] = Modes!Xor(pt[i], {Stream(nonce, c, i)})
              /\ ~(i <= l) => after[i] = Modes!Letter("stale")
  <2>1. i <= l => i \in 1 .. l
    BY <1>2
  <2> QED
    BY <1>1, <1>3, <1>7, <2>1
<1> QED
  BY <1>9, <1>10 DEF l, after, Streamed

LEMMA CbcDone ==
  ASSUME NEW iv, NEW pt, NEW s, NEW d, CbcWriting(iv, pt, "returned", s, d)
  PROVE  /\ Modes!Done = BLOCK * d /\ Modes!Done \div BLOCK = d
         /\ d \in Nat /\ BLOCK * d \in Nat
<1>1. /\ m_made = [mode |-> "cbc", iv |-> iv, pt |-> pt, outcome |-> "returned",
                   after |-> s]
      /\ Text(s) /\ d \in Nat /\ BLOCK * d <= Len(pt) /\ BLOCK * d <= Len(s)
      /\ Modes!Zipped(pt, s) <= d
  BY DEF CbcWriting, Chained
<1>2. Text(pt)
  BY ModesSizes DEF CbcWriting
<1>3. Len(pt) \in Nat /\ Len(s) \in Nat /\ BLOCK \in Nat \ {0}
  BY <1>1, <1>2, TextIs, ModesSizes
<1> DEFINE e == Len(s) \div BLOCK
           p == Modes!NumChunks(Len(pt))
           q == Modes!NumChunks(Len(s))
<1>4. PICK z \in 0 .. BLOCK - 1 : Len(s) = BLOCK * e + z /\ e \in Nat
  BY <1>3, Division
<1> HIDE DEF e
<1>5. BLOCK * d \in Nat /\ BLOCK * e \in Nat
  BY <1>1, <1>3, <1>4, NextMultiple
<1>6. BLOCK * e <= Len(s)
  BY <1>4, <1>5
<1>7. p \in Nat /\ d <= p
  BY <1>1, <1>3, NumChunksIs
<1>8. q \in Nat /\ d <= q /\ e <= q
  BY <1>1, <1>3, <1>4, <1>6, NumChunksIs
<1>9. d <= e
  <2>1. e < d => BLOCK * e + BLOCK <= BLOCK * d
    BY <1>1, <1>3, <1>4, MultipleGrows
  <2>2. ~(BLOCK * e + BLOCK <= BLOCK * d)
    BY <1>1, <1>3, <1>4, <1>5
  <2> QED
    BY <1>1, <1>4, <2>1, <2>2
<1>10. Modes!Zipped(pt, s) = p \/ Modes!Zipped(pt, s) = q
  BY DEF Modes!Zipped, Modes!Least
<1> HIDE DEF p, q
<1>11. Modes!Least(p, e) = d
  <2>1. p <= d \/ q <= d
    BY <1>1, <1>10
  <2>2. CASE p <= d
    <3>1. p = d
      BY <1>1, <1>7, <2>2
    <3> QED
      BY <1>1, <1>4, <1>9, <3>1 DEF Modes!Least
  <2>3. CASE q <= d
    <3>1. e = d
      BY <1>1, <1>4, <1>8, <1>9, <2>3
    <3> QED
      BY <1>1, <1>7, <3>1 DEF Modes!Least
  <2> QED
    BY <2>1, <2>2, <2>3
<1>12. Modes!Done = BLOCK * d
  BY <1>1, <1>11 DEF Modes!Done, p, e
<1>13. BLOCK * d = BLOCK * d + 0 /\ 0 \in 0 .. BLOCK - 1
  BY <1>3, <1>5
<1>14. (BLOCK * d + 0) \div BLOCK = d
  BY <1>1, <1>3, <1>13, QuotientUnique
<1> QED
  BY <1>1, <1>5, <1>12, <1>13, <1>14

LEMMA ModesWritesPrefix == ModesInv => Modes!WritesPrefix
<1> SUFFICES ASSUME ModesInv, m_made.outcome = "returned"
             PROVE  Modes!WritesPrefix
  BY DEF Modes!WritesPrefix
<1>1. CASE MadeCtr
  <2>1. PICK nonce, c, pt, room : CtrWriting(nonce, c, pt, room)
    BY <1>1 DEF MadeCtr
  <2> DEFINE after == Modes!apply_iv(Initial(nonce, c), pt, Modes!Stale(room))
  <2>2. /\ m_made.mode = "ctr" /\ m_made.pt = pt /\ m_made.after = after
        /\ pt \in ModeTexts /\ room \in Nat
    BY <2>1 DEF CtrWriting
  <2>3. Text(pt) /\ Len(pt) \in Nat
    BY <2>2, ModesSizes, TextIs
  <2>0. Streamed(after, nonce, c, pt, room)
    BY <2>2, <2>3, CtrIs
  <2> HIDE DEF after
  <2>4. /\ Len(after) = room
        /\ \A i \in 1 .. room : ~(i <= Len(pt)) => after[i] = Modes!Letter("stale")
    BY <2>0 DEF Streamed
  <2>5. Modes!Done = Len(pt)
    BY <2>2 DEF Modes!Done
  <2>6. \A i \in Len(pt) + 1 .. room : i \in 1 .. room /\ ~(i <= Len(pt))
    BY <2>2, <2>3
  <2>7. \A i \in Modes!Done + 1 .. Len(m_made.after) :
          m_made.after[i] = Modes!Letter("stale")
    BY <2>2, <2>4, <2>5, <2>6
  <2> QED
    BY <2>2, <2>7 DEF Modes!WritesPrefix
<1>2. CASE MadeCbc
  <2>1. PICK iv, pt, outcome, s, d : CbcWriting(iv, pt, outcome, s, d)
    BY <1>2 DEF MadeCbc
  <2>2. m_made.outcome = outcome
    BY <2>1 DEF CbcWriting
  <2>3. CbcWriting(iv, pt, "returned", s, d)
    BY <2>1, <2>2
  <2>4. /\ Modes!Done = BLOCK * d /\ Modes!Done \div BLOCK = d
    BY <2>3, CbcDone
  <2>5. m_made.iv = iv /\ m_made.pt = pt /\ m_made.after = s /\ Chained(iv, pt, s, d)
    BY <2>3 DEF CbcWriting
  <2>6. \A j \in 1 .. d : Modes!BlockBefore(j) = Link(iv, s, j)
    BY <2>5 DEF Modes!BlockBefore, Link
  <2>7. \A i \in Modes!Done + 1 .. Len(m_made.after) :
          m_made.after[i] = Modes!Letter("stale")
    BY <2>4, <2>5 DEF Chained
  <2>8. \A j \in 1 .. Modes!Done \div BLOCK :
          Modes!Chunk(m_made.after, j) =
            Modes!EncryptBlock(Modes!XorBlock(Modes!Chunk(m_made.pt, j),
                                              Modes!BlockBefore(j)))
    BY <2>4, <2>5, <2>6 DEF Chained
  <2> QED
    BY <2>7, <2>8 DEF Modes!WritesPrefix
<1>3. m_made # Modes!NoMode
  BY DEF Modes!NoMode
<1> QED
  BY <1>1, <1>2, <1>3 DEF ModesInv

(* Another byte of the key stream: of another block of the counter's       *)
(* cycle, another place in its block, another initial block.               *)
LEMMA StreamApart ==
  ASSUME NEW nonce, NEW c \in 0 .. CTR_COUNTERS - 1,
         NEW i \in Nat \ {0}, NEW j \in Nat \ {0}, i # j,
         i <= BLOCK * CTR_COUNTERS, j <= BLOCK * CTR_COUNTERS
  PROVE  Stream(nonce, c, i) # Stream(nonce, c, j)
<1> DEFINE q(k) == (k - 1) \div BLOCK
           r(k) == (k - 1) % BLOCK
<1>1. BLOCK \in Nat \ {0} /\ CTR_COUNTERS \in Nat \ {0} /\ CTR_COUNTERS \in Nat
  BY ModesSizes
<1>2. /\ q(i) \in 0 .. CTR_COUNTERS - 1 /\ q(j) \in 0 .. CTR_COUNTERS - 1
      /\ r(i) \in 0 .. BLOCK - 1 /\ r(j) \in 0 .. BLOCK - 1
  BY <1>1, BlockNumber
<1>3. ~(q(i) = q(j) /\ r(i) = r(j))
  BY <1>1, OtherByte
<1>4. /\ Stream(nonce, c, i) = <<"keystream", nonce, (c + q(i)) % CTR_COUNTERS, r(i) + 1>>
      /\ Stream(nonce, c, j) = <<"keystream", nonce, (c + q(j)) % CTR_COUNTERS, r(j) + 1>>
  BY DEF Stream, MaskAtom, KeystreamAtom
<1> HIDE DEF q, r
<1>5. CASE r(i) # r(j)
  <2>1. r(i) + 1 # r(j) + 1
    BY <1>2, <1>5
  <2> QED
    BY <1>4, <2>1
<1>6. ASSUME NEW x \in 0 .. CTR_COUNTERS - 1, NEW y \in 0 .. CTR_COUNTERS - 1, x < y
      PROVE  (c + x) % CTR_COUNTERS # (c + y) % CTR_COUNTERS
  <2>1. c + x \in Nat /\ c + y \in Nat /\ c + x < c + y /\ c + y < (c + x) + CTR_COUNTERS
    BY <1>1, <1>6
  <2> QED
    BY <1>1, <2>1, SameRemainder
<1>7. CASE q(i) # q(j)
  <2>1. q(i) < q(j) \/ q(j) < q(i)
    BY <1>2, <1>7
  <2>2. (c + q(i)) % CTR_COUNTERS # (c + q(j)) % CTR_COUNTERS
    BY <1>2, <1>6, <2>1
  <2> QED
    BY <1>4, <2>2
<1> QED
  BY <1>3, <1>5, <1>7

LEMMA OtherStream ==
  ASSUME NEW nonce, NEW c \in 0 .. CTR_COUNTERS - 1, NEW other,
         NEW d \in 0 .. CTR_COUNTERS - 1, Initial(nonce, c) # Initial(other, d),
         NEW i \in Nat \ {0}
  PROVE  Stream(nonce, c, i) # Stream(other, d, i)
<1> DEFINE q == (i - 1) \div BLOCK
<1>1. BLOCK \in Nat \ {0} /\ CTR_COUNTERS \in Nat \ {0} /\ i - 1 \in Nat
  BY ModesSizes
<1>2. q \in Nat
  BY <1>1, Division
<1>3. /\ Stream(nonce, c, i)
           = <<"keystream", nonce, (c + q) % CTR_COUNTERS, ((i - 1) % BLOCK) + 1>>
      /\ Stream(other, d, i)
           = <<"keystream", other, (d + q) % CTR_COUNTERS, ((i - 1) % BLOCK) + 1>>
  BY DEF Stream, MaskAtom, KeystreamAtom
<1> HIDE DEF q
<1>4. nonce # other \/ c # d
  BY DEF Initial
<1>5. ASSUME NEW x \in 0 .. CTR_COUNTERS - 1, NEW y \in 0 .. CTR_COUNTERS - 1, x < y
      PROVE  (x + q) % CTR_COUNTERS # (y + q) % CTR_COUNTERS
  <2>1. x + q \in Nat /\ y + q \in Nat /\ x + q < y + q /\ y + q < (x + q) + CTR_COUNTERS
    BY <1>1, <1>2, <1>5
  <2> QED
    BY <1>1, <2>1, SameRemainder
<1>6. CASE c # d
  <2>1. c < d \/ d < c
    BY <1>1, <1>6
  <2>2. (c + q) % CTR_COUNTERS # (d + q) % CTR_COUNTERS
    BY <1>5, <2>1
  <2> QED
    BY <1>3, <2>2
<1>7. CASE nonce # other
  BY <1>3, <1>7
<1> QED
  BY <1>4, <1>6, <1>7

LEMMA ModesStreamOnce == ModesInv => Modes!StreamOnce
<1> SUFFICES ASSUME ModesInv, m_made.mode = "ctr",
                    Len(m_made.pt) <= BLOCK * CTR_COUNTERS,
                    NEW i \in 1 .. Modes!Least(Len(m_made.pt), Len(m_made.after)),
                    NEW j \in 1 .. Modes!Least(Len(m_made.pt), Len(m_made.after)), i # j
             PROVE  Modes!Xor(m_made.after[i], m_made.pt[i])
                      \cap Modes!Xor(m_made.after[j], m_made.pt[j]) = {}
  BY DEF Modes!StreamOnce
<1>1. MadeCtr
  BY ModesTell
<1>2. PICK nonce, c, pt, room : CtrWriting(nonce, c, pt, room)
  BY <1>1 DEF MadeCtr
<1> DEFINE after == Modes!apply_iv(Initial(nonce, c), pt, Modes!Stale(room))
<1>3. /\ m_made.pt = pt /\ m_made.after = after
      /\ pt \in ModeTexts /\ room \in Nat /\ c \in 0 .. CTR_COUNTERS - 1
  BY <1>2 DEF CtrWriting
<1>4. Text(pt) /\ Len(pt) \in Nat
  BY <1>3, ModesSizes, TextIs
<1>0. Streamed(after, nonce, c, pt, room)
  BY <1>3, <1>4, CtrIs
<1> HIDE DEF after
<1>5. /\ Len(after) = room
      /\ \A k \in 1 .. room :
           k <= Len(pt) => after[k] = Modes!Xor(pt[k], {Stream(nonce, c, k)})
  BY <1>0 DEF Streamed
<1>6. /\ i \in 1 .. room /\ i <= Len(pt) /\ j \in 1 .. room /\ j <= Len(pt)
  BY <1>3, <1>4, <1>5 DEF Modes!Least
<1>7. /\ Modes!Xor(after[i], pt[i]) = {Stream(nonce, c, i)}
      /\ Modes!Xor(after[j], pt[j]) = {Stream(nonce, c, j)}
  <2>1. /\ after[i] = Modes!Xor(pt[i], {Stream(nonce, c, i)})
        /\ after[j] = Modes!Xor(pt[j], {Stream(nonce, c, j)})
    BY <1>5, <1>6
  <2>2. \A x, y : Modes!Xor(Modes!Xor(x, y), x) = y
    BY DEF Modes!Xor
  <2> QED
    BY <2>1, <2>2
<1>8. Stream(nonce, c, i) # Stream(nonce, c, j)
  <2>1. i \in Nat \ {0} /\ j \in Nat \ {0}
    BY <1>6
  <2>2. BLOCK * CTR_COUNTERS \in Nat
    BY ModesSizes, NextMultiple
  <2>3. i <= BLOCK * CTR_COUNTERS /\ j <= BLOCK * CTR_COUNTERS
    BY <1>3, <1>4, <1>6, <2>1, <2>2
  <2> QED
    BY <1>3, <2>1, <2>3, StreamApart
<1> QED
  BY <1>3, <1>7, <1>8

(* A whole block of a prefix.                                              *)
Begins(ct, s) == Len(ct) <= Len(s) /\ \A i \in 1 .. Len(ct) : ct[i] = s[i]

LEMMA ChunkOfPrefix ==
  ASSUME NEW s, Text(s), NEW ct, Text(ct), Begins(ct, s),
         NEW j \in Nat \ {0}, BLOCK * j <= Len(ct)
  PROVE  Modes!Chunk(ct, j) = Modes!Chunk(s, j)
<1>1. BLOCK * j \in Nat /\ Len(s) \in Nat /\ Len(ct) \in Nat
  BY ModesSizes, NextMultiple, TextIs
<1>0. Len(ct) <= Len(s) /\ \A i \in 1 .. Len(ct) : ct[i] = s[i]
  BY DEF Begins
<1>2. BLOCK * j <= Len(s)
  BY <1>0, <1>1
<1>3. /\ Modes!Chunk(ct, j) = [i \in 1 .. BLOCK |-> ct[BLOCK * (j - 1) + i]]
      /\ \A i \in 1 .. BLOCK : BLOCK * (j - 1) + i \in 1 .. Len(ct)
  BY ChunkIs
<1>4. Modes!Chunk(s, j) = [i \in 1 .. BLOCK |-> s[BLOCK * (j - 1) + i]]
  BY <1>2, ChunkIs
<1>5. \A i \in 1 .. BLOCK : ct[BLOCK * (j - 1) + i] = s[BLOCK * (j - 1) + i]
  BY <1>0, <1>3
<1> QED
  BY <1>3, <1>4, <1>5

(* A byte that is read is the text's, with the blocks before it added      *)
(* that the two chains have.                                               *)
ByteRead(iv, pt, s, iv2, s2, j, k) ==
  s2[BLOCK * (j - 1) + k] =
    Modes!Xor(Modes!Xor(pt[BLOCK * (j - 1) + k], Link(iv, s, j)[k]),
              Link(iv2, s, j)[k])

LEMMA CbcByte ==
  ASSUME NEW iv, NEW pt, Text(pt), NEW s, NEW d, Chained(iv, pt, s, d),
         NEW iv2, NEW ct, Text(ct), NEW s2, NEW d2, Unchained(iv2, ct, s2, d2),
         Begins(ct, s),
         NEW j \in 1 .. d, j <= d2, NEW k \in 1 .. BLOCK
  PROVE  ByteRead(iv, pt, s, iv2, s2, j, k)
<1>1. /\ Text(s) /\ d \in Nat /\ BLOCK * d <= Len(pt) /\ BLOCK * d <= Len(s)
      /\ Text(s2) /\ d2 \in Nat /\ BLOCK * d2 <= Len(ct) /\ BLOCK * d2 <= Len(s2)
  BY DEF Chained, Unchained
<1>2. Len(s) \in Nat /\ Len(pt) \in Nat /\ Len(ct) \in Nat /\ Len(s2) \in Nat
  BY <1>1, TextIs
<1>3. j \in 1 .. d2 /\ j \in Nat \ {0}
  BY <1>1
<1>4. /\ BLOCK * j \in Nat /\ BLOCK * d \in Nat /\ BLOCK * j <= BLOCK * d
      /\ BLOCK * (j - 1) \in Nat /\ BLOCK * (j - 1) + BLOCK = BLOCK * j
  BY <1>1, BlocksBefore
<1>5. BLOCK * d2 \in Nat /\ BLOCK * j <= BLOCK * d2
  BY <1>1, <1>3, BlocksBefore
<1>6. /\ BLOCK * j <= Len(s) /\ BLOCK * j <= Len(pt) /\ BLOCK * j <= Len(ct)
      /\ BLOCK * j <= Len(s2)
  BY <1>1, <1>2, <1>4, <1>5
<1>7. Modes!Chunk(ct, j) = Modes!Chunk(s, j)
  BY <1>1, <1>3, <1>6, ChunkOfPrefix
<1>8. Link(iv2, ct, j) = Link(iv2, s, j)
  <2>1. CASE j = 1
    BY <2>1 DEF Link
  <2>2. CASE j # 1
    <3>1. j - 1 \in Nat \ {0}
      BY <1>3, <2>2
    <3>2. BLOCK * (j - 1) <= Len(ct)
      <4>1. PICK a \in Nat, p \in Nat : a = BLOCK * (j - 1) /\ p = BLOCK * j
        BY <1>4
      <4>2. a + BLOCK = p /\ p <= Len(ct) /\ a \in Nat /\ p \in Nat
        BY <1>4, <1>6, <4>1
      <4>3. a <= Len(ct)
        BY <1>2, <4>2, ModesSizes
      <4> QED
        BY <4>1, <4>3
    <3>3. Modes!Chunk(ct, j - 1) = Modes!Chunk(s, j - 1)
      BY <1>1, <3>1, <3>2, ChunkOfPrefix
    <3> QED
      BY <3>3 DEF Link
  <2> QED
    BY <2>1, <2>2
<1> DEFINE x == Modes!XorBlock(Modes!Chunk(pt, j), Link(iv, s, j))
<1>9. Modes!Chunk(s, j) = Modes!EncryptBlock(x)
  BY DEF Chained
<1>10. Modes!Chunk(s2, j) =
         Modes!XorBlock(Modes!DecryptBlock(Modes!Chunk(ct, j)), Link(iv2, ct, j))
  BY <1>3 DEF Unchained
<1>11. Modes!DecryptBlock(Modes!Chunk(ct, j)) = x
  BY <1>7, <1>9, Decrypted
<1>12. Modes!Chunk(s2, j)[k] = Modes!Xor(x[k], Link(iv2, s, j)[k])
  BY <1>8, <1>10, <1>11 DEF Modes!XorBlock
<1>13. x[k] = Modes!Xor(Modes!Chunk(pt, j)[k], Link(iv, s, j)[k])
  BY DEF Modes!XorBlock
<1> HIDE DEF x
<1>14. Modes!Chunk(s2, j) = [i \in 1 .. BLOCK |-> s2[BLOCK * (j - 1) + i]]
  BY <1>1, <1>3, <1>6, ChunkIs
<1>15. Modes!Chunk(pt, j) = [i \in 1 .. BLOCK |-> pt[BLOCK * (j - 1) + i]]
  BY <1>3, <1>6, ChunkIs
<1>16. /\ Modes!Chunk(s2, j)[k] = s2[BLOCK * (j - 1) + k]
       /\ Modes!Chunk(pt, j)[k] = pt[BLOCK * (j - 1) + k]
  BY <1>14, <1>15
<1> QED
  BY <1>12, <1>13, <1>16 DEF ByteRead

LEMMA IvsDiffer ==
  ASSUME NEW iv \in Modes!Ivs, NEW iv2 \in Modes!Ivs, iv # iv2, NEW k \in 1 .. BLOCK
  PROVE  iv[k] # iv2[k]
<1>1. PICK a \in {"iv", "iv2"} : iv = [i \in 1 .. BLOCK |-> Modes!Letter(a)]
  BY DEF Modes!Ivs
<1>2. PICK b \in {"iv", "iv2"} : iv2 = [i \in 1 .. BLOCK |-> Modes!Letter(b)]
  BY DEF Modes!Ivs
<1>3. a # b
  BY <1>1, <1>2
<1>4. Modes!Letter(a) # Modes!Letter(b)
  <2>1. <<a, 0, 0, 0>> # <<b, 0, 0, 0>>
    BY <1>3
  <2> QED
    BY <2>1 DEF Modes!Letter
<1>5. iv[k] = Modes!Letter(a) /\ iv2[k] = Modes!Letter(b)
  BY <1>1, <1>2
<1> QED
  BY <1>4, <1>5

LEMMA CtrReadsBack ==
  ASSUME MadeCtr, ReadCtr, m_read.outcome = "returned",
         NEW i \in 1 .. Modes!Least(Modes!Least(Len(m_read.input), Modes!Done),
                                    Len(m_read.after))
  PROVE  IF m_read.iv = m_made.iv
         THEN m_read.after[i] = m_made.pt[i] ELSE m_read.after[i] # m_made.pt[i]
<1>1. PICK nonce, c, pt, room : CtrWriting(nonce, c, pt, room)
  BY DEF MadeCtr
<1>2. PICK other, d, n, room2 : CtrReading(other, d, n, room2)
  BY DEF ReadCtr
<1> DEFINE after == Modes!apply_iv(Initial(nonce, c), pt, Modes!Stale(room))
           ct == Modes!Written(n)
           after2 == Modes!apply_iv(Initial(other, d), ct, Modes!Stale(room2))
<1>3. /\ m_made.mode = "ctr" /\ m_made.pt = pt /\ m_made.after = after
      /\ m_made.iv = Initial(nonce, c)
      /\ pt \in ModeTexts /\ room \in Nat /\ c \in 0 .. CTR_COUNTERS - 1
  BY <1>1 DEF CtrWriting
<1>4. /\ m_read.input = ct /\ m_read.after = after2 /\ m_read.iv = Initial(other, d)
      /\ room2 \in Nat /\ d \in 0 .. CTR_COUNTERS - 1
      /\ n \in 0 .. Len(m_made.after)
  BY <1>2 DEF CtrReading
<1>5. Text(pt) /\ Len(pt) \in Nat
  BY <1>3, ModesSizes, TextIs
<1>6. Streamed(after, nonce, c, pt, room)
  BY <1>3, <1>5, CtrIs
<1>7. Text(m_made.after) /\ Len(m_made.after) = room
  BY <1>3, <1>6 DEF Streamed
<1>8. /\ Text(ct) /\ Len(ct) = n /\ n \in Nat /\ n <= room
      /\ \A k \in 1 .. n : ct[k] = m_made.after[k]
  BY <1>3, <1>4, <1>7, WrittenIs
<1> HIDE DEF ct, after
<1>9. Streamed(after2, other, d, ct, room2)
  BY <1>4, <1>8, CtrIs
<1> HIDE DEF after2
<1>10. Modes!Done = Len(pt) /\ Len(after2) = room2
  BY <1>3, <1>9 DEF Modes!Done, Streamed
<1>11. i <= n /\ i <= Len(pt) /\ i <= room2 /\ i \in Nat \ {0}
  BY <1>4, <1>5, <1>8, <1>10 DEF Modes!Least
<1>12. i \in 1 .. n /\ i \in 1 .. room /\ i \in 1 .. room2
  BY <1>3, <1>4, <1>8, <1>11
<1>13. after[i] = Modes!Xor(pt[i], {Stream(nonce, c, i)})
  BY <1>6, <1>11, <1>12 DEF Streamed
<1>14. after2[i] = Modes!Xor(ct[i], {Stream(other, d, i)})
  BY <1>8, <1>9, <1>11, <1>12 DEF Streamed
<1>15. after2[i] = Modes!Xor(Modes!Xor(pt[i], {Stream(nonce, c, i)}),
                             {Stream(other, d, i)})
  BY <1>3, <1>8, <1>12, <1>13, <1>14
<1>16. CASE Initial(other, d) = Initial(nonce, c)
  <2>1. other = nonce /\ d = c
    BY <1>16 DEF Initial
  <2>2. after2[i] = pt[i]
    BY <1>15, <2>1, ModesXorTwice
  <2> QED
    BY <1>3, <1>4, <1>16, <2>2
<1>17. CASE Initial(other, d) # Initial(nonce, c)
  <2>1. Stream(nonce, c, i) # Stream(other, d, i)
    BY <1>3, <1>4, <1>11, <1>17, OtherStream
  <2>2. {Stream(nonce, c, i)} # {Stream(other, d, i)}
    BY <2>1
  <2>3. after2[i] # pt[i]
    BY <1>15, <2>2, ModesXorTwice
  <2> QED
    BY <1>3, <1>4, <1>17, <2>3
<1> QED
  BY <1>16, <1>17

LEMMA CbcReadsBack ==
  ASSUME MadeCbc, ReadCbc, m_read.outcome = "returned", m_made.outcome = "returned",
         NEW i \in 1 .. Modes!Least(Modes!Least(Len(m_read.input), Modes!Done),
                                    Len(m_read.after))
  PROVE  IF m_read.iv = m_made.iv \/ i > BLOCK
         THEN m_read.after[i] = m_made.pt[i] ELSE m_read.after[i] # m_made.pt[i]
<1>1. PICK iv, pt, o, s, d : CbcWriting(iv, pt, o, s, d)
  BY DEF MadeCbc
<1>2. PICK iv2, n, o2, s2, d2 : CbcReading(iv2, n, o2, s2, d2)
  BY DEF ReadCbc
<1>3. CbcWriting(iv, pt, "returned", s, d)
  <2>1. m_made.outcome = o
    BY <1>1 DEF CbcWriting
  <2> QED
    BY <1>1, <2>1
<1> DEFINE ct == Modes!Written(n)
<1>4. /\ m_made.pt = pt /\ m_made.after = s /\ m_made.iv = iv
      /\ iv \in Modes!Ivs /\ pt \in ModeTexts /\ Chained(iv, pt, s, d)
  BY <1>3 DEF CbcWriting
<1>5. o2 = "returned"
  BY <1>2 DEF CbcReading
<1>6. /\ m_read.input = ct /\ m_read.after = s2 /\ m_read.iv = iv2
      /\ iv2 \in Modes!Ivs /\ n \in 0 .. Len(s)
      /\ Unchained(iv2, ct, s2, d2) /\ Modes!Zipped(ct, s2) <= d2
  BY <1>2, <1>4, <1>5 DEF CbcReading
<1>7. Text(pt) /\ Text(s) /\ Text(s2) /\ d \in Nat /\ d2 \in Nat
  BY <1>4, <1>6, ModesSizes DEF Chained, Unchained
<1>8. /\ Text(ct) /\ Len(ct) = n /\ n \in Nat
      /\ \A k \in 1 .. n : ct[k] = s[k]
  BY <1>4, <1>6, <1>7, WrittenIs
<1> HIDE DEF ct
<1>9. Modes!Done = BLOCK * d /\ BLOCK * d \in Nat
  BY <1>3, CbcDone
<1>10. Len(s) \in Nat /\ Len(s2) \in Nat /\ BLOCK \in Nat \ {0}
  BY <1>7, TextIs, ModesSizes
<1>11. i <= n /\ i <= BLOCK * d /\ i <= Len(s2) /\ i \in Nat \ {0}
  BY <1>6, <1>8, <1>9, <1>10 DEF Modes!Least
<1> DEFINE q == (i - 1) \div BLOCK
           r == (i - 1) % BLOCK
<1>12. q \in 0 .. d - 1 /\ r \in 0 .. BLOCK - 1
  BY <1>7, <1>10, <1>11, BlockNumber
<1>13. i <= BLOCK * d2
  <2> DEFINE z == Modes!Zipped(ct, s2)
  <2>1. z \in Nat /\ z \in {Modes!NumChunks(Len(ct)), Modes!NumChunks(Len(s2))}
    BY <1>7, <1>8, ZippedIs
  <2>2. Len(ct) <= BLOCK * Modes!NumChunks(Len(ct))
    BY <1>8, NumChunksIs
  <2>3. Len(s2) <= BLOCK * Modes!NumChunks(Len(s2))
    BY <1>10, NumChunksIs
  <2> HIDE DEF z
  <2>4. BLOCK * z \in Nat /\ BLOCK * d2 \in Nat
    BY <1>7, <1>10, <2>1, NextMultiple
  <2>5. i <= BLOCK * z
    <3>1. CASE z = Modes!NumChunks(Len(ct))
      <4>1. n <= BLOCK * z
        BY <1>8, <2>2, <3>1
      <4> QED
        BY <1>8, <1>11, <2>4, <4>1
    <3>2. CASE z = Modes!NumChunks(Len(s2))
      <4>1. Len(s2) <= BLOCK * z
        BY <2>3, <3>2
      <4> QED
        BY <1>10, <1>11, <2>4, <4>1
    <3> QED
      BY <2>1, <3>1, <3>2
  <2>6. z <= d2
    BY <1>6 DEF z
  <2>7. BLOCK * z <= BLOCK * d2
    <3>1. z < d2 => BLOCK * z + BLOCK <= BLOCK * d2
      BY <1>7, <1>10, <2>1, MultipleGrows
    <3>2. z < d2 => BLOCK * z <= BLOCK * d2
      BY <1>10, <2>4, <3>1
    <3> QED
      BY <1>7, <2>1, <2>4, <2>6, <3>2
  <2> QED
    BY <1>11, <2>4, <2>5, <2>7
<1>14. q \in 0 .. d2 - 1
  BY <1>7, <1>10, <1>11, <1>13, BlockNumber
<1>15. i - 1 = BLOCK * q + r
  <2>1. i - 1 \in Nat
    BY <1>11
  <2> QED
    BY <1>10, <2>1, Division
<1> HIDE DEF q, r
<1> DEFINE j == q + 1
           k == r + 1
<1>16. /\ j \in 1 .. d /\ j <= d2 /\ k \in 1 .. BLOCK /\ j - 1 = q
  BY <1>7, <1>10, <1>12, <1>14
<1>17. BLOCK * q \in Nat /\ BLOCK * q + k = i
  <2>1. BLOCK * q \in Nat
    BY <1>10, <1>12, NextMultiple
  <2> QED
    BY <1>11, <1>12, <1>15, <2>1
<1> HIDE DEF j, k
<1>18. Begins(ct, s)
  BY <1>6, <1>8, <1>10 DEF Begins
<1>19. ByteRead(iv, pt, s, iv2, s2, j, k)
  BY <1>4, <1>6, <1>7, <1>8, <1>16, <1>18, CbcByte
<1>20. s2[i] = Modes!Xor(Modes!Xor(pt[i], Link(iv, s, j)[k]), Link(iv2, s, j)[k])
  BY <1>16, <1>17, <1>19 DEF ByteRead
<1>21. Link(iv, s, j) = Link(iv2, s, j) => s2[i] = pt[i]
  BY <1>20, ModesXorTwice
<1>22. i > BLOCK => j # 1
  <2>1. q = 0 => BLOCK * q = 0
    BY <1>10
  <2> QED
    BY <1>10, <1>12, <1>16, <1>17, <2>1 DEF j
<1>23. i <= BLOCK => j = 1
  <2>1. q # 0 => BLOCK * 0 + BLOCK <= BLOCK * q
    BY <1>10, <1>12, MultipleGrows
  <2>2. BLOCK * 0 = 0
    BY <1>10
  <2>3. k > 0 /\ k \in Nat
    BY <1>10, <1>16
  <2> QED
    BY <1>10, <1>11, <1>12, <1>17, <2>1, <2>2, <2>3 DEF j
<1>24. CASE m_read.iv = m_made.iv \/ i > BLOCK
  <2>1. Link(iv, s, j) = Link(iv2, s, j)
    BY <1>4, <1>6, <1>22, <1>24 DEF Link
  <2> QED
    BY <1>4, <1>6, <1>21, <1>24, <2>1
<1>25. CASE ~(m_read.iv = m_made.iv \/ i > BLOCK)
  <2>1. j = 1 /\ iv # iv2
    BY <1>4, <1>6, <1>10, <1>11, <1>23, <1>25
  <2>2. Link(iv, s, j)[k] # Link(iv2, s, j)[k]
    BY <1>4, <1>6, <1>16, <2>1, IvsDiffer DEF Link
  <2>3. s2[i] # pt[i]
    BY <1>20, <2>2, ModesXorTwice
  <2> QED
    BY <1>4, <1>6, <1>25, <2>3
<1> QED
  BY <1>24, <1>25

LEMMA ModesReadsBack == ModesInv => Modes!ReadsBack
<1> SUFFICES ASSUME ModesInv, m_read.outcome = "returned",
                    m_made.outcome = "returned",
                    NEW i \in 1 .. Modes!Least(Modes!Least(Len(m_read.input),
                                                           Modes!Done),
                                               Len(m_read.after))
             PROVE  IF m_read.iv = m_made.iv \/ (m_made.mode = "cbc" /\ i > BLOCK)
                    THEN m_read.after[i] = m_made.pt[i]
                    ELSE m_read.after[i] # m_made.pt[i]
  BY DEF Modes!ReadsBack
<1>1. CASE m_made.mode = "ctr" /\ MadeCtr /\ ReadCtr
  BY <1>1, CtrReadsBack
<1>2. CASE m_made.mode = "cbc" /\ MadeCbc /\ ReadCbc
  BY <1>2, CbcReadsBack
<1> QED
  BY <1>1, <1>2, ModesTell

-----------------------------------------------------------------------------
(* The ciphers side by side: what holds of each by itself holds while any  *)
(* of them is used.                                                        *)

CiphersInv ==
  /\ IInv /\ MaskInv /\ PolyInv /\ ModesInv
  /\ object = "chacha20poly1305" => ChaInv
  /\ object = "aes256gcm" => GcmInv

LEMMA CipherAtATime ==
  ASSUME [CiphersNext]_ciphers
  PROVE  /\ [Next]_vars /\ [Poly!Next]_(Poly!vars)
         /\ Modes!ModesNext \/ UNCHANGED modes
         /\ object' = object
         /\ object = "chacha20poly1305" => ChaCha!Next \/ UNCHANGED aead
         /\ object = "aes256gcm" => Aes!Next \/ UNCHANGED aead
         /\ object \notin {"chacha20poly1305", "aes256gcm"} => UNCHANGED aead
<1>1. [Next]_vars
  BY DEF CiphersNext, ciphers, chacha20
<1>2. [Poly!Next]_(Poly!vars)
  BY DEF CiphersNext, ciphers, poly1305, Poly!vars
<1>3. Modes!ModesNext \/ UNCHANGED modes
  BY DEF CiphersNext, ciphers
<1>4. object' = object
  BY DEF CiphersNext, ciphers
<1>5. object = "chacha20poly1305" => ChaCha!Next \/ UNCHANGED aead
  BY DEF CiphersNext, ciphers
<1>6. object = "aes256gcm" => Aes!Next \/ UNCHANGED aead
  BY DEF CiphersNext, ciphers
<1>7. object \notin {"chacha20poly1305", "aes256gcm"} => UNCHANGED aead
  BY DEF CiphersNext, ciphers
<1> QED
  BY <1>1, <1>2, <1>3, <1>4, <1>5, <1>6, <1>7

LEMMA ModesStay == ModesInv /\ UNCHANGED modes => ModesInv'
<1> SUFFICES ASSUME ModesInv, UNCHANGED modes PROVE ModesInv'
  OBVIOUS
<1>1. m_made' = m_made /\ m_read' = m_read /\ m_chunk' = m_chunk /\ m_prev' = m_prev
  BY DEF modes
<1>2. MadeCtr => MadeCtr'
  BY <1>1 DEF MadeCtr, CtrWriting
<1>3. ASSUME MadeCbc PROVE MadeCbc'
  <2>1. PICK iv, pt, outcome, s, d : CbcWriting(iv, pt, outcome, s, d)
    BY <1>3 DEF MadeCbc
  <2>2. CbcWriting(iv, pt, outcome, s, d)'
    BY <1>1, <2>1 DEF CbcWriting
  <2> QED
    BY <2>2 DEF MadeCbc
<1>4. ReadCtr => ReadCtr'
  BY <1>1 DEF ReadCtr, CtrReading, Modes!Written
<1>5. ASSUME ReadCbc PROVE ReadCbc'
  <2>1. PICK iv, n, outcome, s, d : CbcReading(iv, n, outcome, s, d)
    BY <1>5 DEF ReadCbc
  <2>2. Modes!Written(n)' = Modes!Written(n)
    BY <1>1 DEF Modes!Written
  <2>3. CbcReading(iv, n, outcome, s, d)'
    BY <1>1, <2>1, <2>2 DEF CbcReading
  <2> QED
    BY <2>3 DEF ReadCbc
<1> QED
  BY <1>1, <1>2, <1>3, <1>4, <1>5 DEF ModesInv

LEMMA AeadsGoOn ==
  ASSUME object = "chacha20poly1305" => ChaInv, object = "aes256gcm" => GcmInv,
         [CiphersNext]_ciphers
  PROVE  /\ object = "chacha20poly1305" => ChaInv'
         /\ object = "aes256gcm" => GcmInv'
         /\ [Ideal!Next]_<<SealedMessages(a_sent), RequestOf(a_sent, a_last),
                           AnswerOf(a_last)>>
<1>1. UNCHANGED aead
        => /\ ChaInv => ChaInv'
           /\ GcmInv => GcmInv'
           /\ UNCHANGED <<SealedMessages(a_sent), RequestOf(a_sent, a_last),
                          AnswerOf(a_last)>>
  BY IdealStutters DEF aead, ChaInv, ChaCha!BuffersKept, GcmInv, Aes!BuffersKept
<1>2. CASE object = "chacha20poly1305"
  <2>1. ChaCha!Next \/ UNCHANGED aead
    BY <1>2, CipherAtATime
  <2>2. ChaCha!Next => ChaInv' /\ Ideal!Next
    BY <1>2, CiphersAssumption, ChaStep
  <2> QED
    BY <1>1, <1>2, <2>1, <2>2
<1>3. CASE object = "aes256gcm"
  <2>1. Aes!Next \/ UNCHANGED aead
    BY <1>3, CipherAtATime
  <2>2. Aes!Next => GcmInv' /\ Ideal!Next
    BY <1>3, CiphersAssumption, GcmStep
  <2> QED
    BY <1>1, <1>3, <2>1, <2>2
<1>4. CASE object \notin {"chacha20poly1305", "aes256gcm"}
  <2>1. UNCHANGED aead
    BY <1>4, CipherAtATime
  <2> QED
    BY <1>1, <1>4, <2>1
<1> QED
  BY <1>2, <1>3, <1>4

LEMMA CiphersBegin == CiphersInit => CiphersInv /\ Ideal!Init
<1> SUFFICES ASSUME CiphersInit PROVE CiphersInv /\ Ideal!Init
  OBVIOUS
<1>1. IInv /\ MaskInv
  BY InitIInv DEF CiphersInit, Init, MaskInv
<1>2. PolyInv
  BY CiphersAssumption, PolyInit DEF CiphersInit
<1>3. ModesInv
  BY ModesBegin DEF CiphersInit
<1>4. CASE object # "aes256gcm" /\ ChaCha!Init
  BY <1>1, <1>2, <1>3, <1>4, ChaInit DEF CiphersInv
<1>5. CASE object = "aes256gcm" /\ Aes!Init
  BY <1>1, <1>2, <1>3, <1>5, GcmInit DEF CiphersInv
<1> QED
  BY <1>4, <1>5 DEF CiphersInit

LEMMA CiphersGoOn ==
  CiphersInv /\ [CiphersNext]_ciphers
    => /\ CiphersInv'
       /\ [Ideal!Next]_<<SealedMessages(a_sent), RequestOf(a_sent, a_last),
                         AnswerOf(a_last)>>
<1> SUFFICES ASSUME CiphersInv, [CiphersNext]_ciphers
             PROVE  /\ CiphersInv'
                    /\ [Ideal!Next]_<<SealedMessages(a_sent),
                                      RequestOf(a_sent, a_last), AnswerOf(a_last)>>
  OBVIOUS
<1>1. /\ [Next]_vars /\ [Poly!Next]_(Poly!vars)
      /\ Modes!ModesNext \/ UNCHANGED modes
      /\ object' = object
  BY CipherAtATime
<1>2. IInv /\ MaskInv /\ PolyInv /\ ModesInv
  BY DEF CiphersInv
<1>3. IInv' /\ MaskInv'
  BY <1>1, <1>2, StepIInv, MaskStep
<1>4. PolyInv'
  BY <1>1, <1>2, CiphersAssumption, PolyStep
<1>5. ModesInv'
  BY <1>1, <1>2, ModesGoOn, ModesStay
<1>6. /\ object = "chacha20poly1305" => ChaInv'
      /\ object = "aes256gcm" => GcmInv'
      /\ [Ideal!Next]_<<SealedMessages(a_sent), RequestOf(a_sent, a_last),
                        AnswerOf(a_last)>>
  BY AeadsGoOn DEF CiphersInv
<1> QED
  BY <1>1, <1>3, <1>4, <1>5, <1>6 DEF CiphersInv

(* Poly1305's tag is over the whole blocks of the message and the marked   *)
(* rest, however the message is cut into slices: no slice loses a byte.    *)
THEOREM TagIsOfMessage == CiphersSpec => []TagOfMessage
<1>1. CiphersInv => TagOfMessage
  BY DEF CiphersInv, PolyInv, TagOfMessage
<1> QED
  BY <1>1, CiphersBegin, CiphersGoOn, PTL DEF CiphersSpec

(* Of both AEADs a packet opens if and only if it is one that was sealed,  *)
(* whatever became of it on its way, and to what was sealed.               *)
THEOREM AeadsImplementIdeal == CiphersSpec => ImplementsIdeal
  BY CiphersBegin, CiphersGoOn, PTL DEF CiphersSpec, ImplementsIdeal, Ideal!Spec

(* A refused packet leaves the caller's buffer as it was, nothing behind   *)
(* an output changes, and CBC writes the whole blocks there is room for,   *)
(* each chained to the one before, for buffers and texts of any length.    *)
THEOREM CallersBuffersKept == CiphersSpec => []BuffersKept
<1>1. CiphersInv => BuffersKept
  BY ModesWritesPrefix DEF CiphersInv, BuffersKept, ChaInv, GcmInv
<1> QED
  BY <1>1, CiphersBegin, CiphersGoOn, PTL DEF CiphersSpec

(* No byte of the key stream is used twice within a packet or a text, for  *)
(* every initial counter, as long as the counter does not run through.     *)
THEOREM KeystreamsUsedOnce == CiphersSpec => []KeystreamOnce
<1>1. ASSUME CiphersInv PROVE KeystreamOnce
  <2>1. MasksInOrder
    BY <1>1, MasksFollow DEF CiphersInv
  <2>2. object = "chacha20poly1305" => ChaCha!KeystreamOnce
    BY <1>1, CiphersAssumption, ChaMasks DEF CiphersInv
  <2>3. object = "aes256gcm" => Aes!KeystreamOnce
    BY <1>1, CiphersAssumption, GcmMasks DEF CiphersInv
  <2>4. Modes!StreamOnce
    BY <1>1, ModesStreamOnce DEF CiphersInv
  <2> QED
    BY <2>1, <2>2, <2>3, <2>4 DEF KeystreamOnce
<1> QED
  BY <1>1, CiphersBegin, CiphersGoOn, PTL DEF CiphersSpec

(* CTR and CBC read back what they wrote, as far as it was written and     *)
(* read; with another initial block CTR gets every byte wrong, and CBC     *)
(* every byte of the first block and none of the others.                   *)
THEOREM ModesReadBack == CiphersSpec => []ReadsBack
<1>1. CiphersInv => ReadsBack
  BY ModesReadsBack DEF CiphersInv, ReadsBack
<1> QED
  BY <1>1, CiphersBegin, CiphersGoOn, PTL DEF CiphersSpec
=============================================================================
