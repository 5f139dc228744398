----------------------------- MODULE ChaChaPoly -----------------------------
(***************************************************************************)
(* ChaCha20Poly1305 (chacha20/src/lib.rs): one object, whose four calls    *)
(* seal packets and open what arrives of them.  Each call works on its own *)
(* key stream and authenticator and on the caller's buffer.                *)
(*                                                                         *)
(* A tag is the term of the one-time key and all that is authenticated:    *)
(* no two authenticators of different inputs agree.  A buffer's length is  *)
(* the caller's: "room" bytes.                                             *)
(***************************************************************************)
EXTENDS AeadData, FiniteSets

CONSTANTS
  STREAM,       \* bytes of a block of key stream (64)
  COUNTERS,     \* values of its counter, a u32 (2^32)
  MACBLOCK,     \* bytes of a block of Poly1305 (16)
  Nonces, Aads, Plaintexts, Rooms,      \* arguments of the calls
  MaxSent       \* bound on the packets

ChaChaPolyAssumption ==
  /\ STREAM \in Nat /\ STREAM > 1 /\ COUNTERS \in Nat /\ COUNTERS > 1
  /\ MACBLOCK \in Nat /\ MACBLOCK > 1
  /\ \A s \in Aads \cup Plaintexts : s \in Seq({s[i] : i \in 1 .. Len(s)})
  /\ Nonces \subseteq Nat /\ Rooms \subseteq Nat /\ MaxSent \in Nat

VARIABLES
  sent,         \* history: the packets sealed, each with its plaintext
  last          \* history: the last call, its outcome, and the buffer before
                \* and after it

vars == <<sent, last>>

-----------------------------------------------------------------------------
(* generate_poly1305_key takes block 0 and sets the counter to 1.          *)
FirstCounter == 1

PolyKey(nonce) == {KeystreamAtom(nonce, 0, i) : i \in 1 .. STREAM \div 2}

Cipher(nonce, data) == ApplyKeystream(nonce, FirstCounter, STREAM, COUNTERS, data)

(* Mutant: the lengths are not authenticated.                              *)
MacInputNoLengths(aad, ct) == Padded(aad, MACBLOCK) \o Padded(ct, MACBLOCK)

MacInput(aad, ct) ==
  Padded(aad, MACBLOCK) \o Padded(ct, MACBLOCK)
    \o LengthField(Len(aad), MACBLOCK) \o LengthField(Len(ct), MACBLOCK)

Tag(nonce, aad, ct) == [key |-> PolyKey(nonce), input |-> MacInput(aad, ct)]
NoTag == [key |-> {}, input |-> <<>>]

(* A buffer of "room" bytes with data at its beginning, or what fits of it.*)
Filled(data, room) ==
  [i \in 1 .. room |-> IF i <= Len(data) THEN data[i] ELSE Letter("stale")]

NoPacket == Packet(-1, <<>>, <<>>, NoTag)
NoCall   == Call("none", NoPacket, "none", <<>>, <<>>)

-----------------------------------------------------------------------------
Init == sent = {} /\ last = NoCall

(* encrypt, and, with the plaintext in the buffer, encrypt_in_place.       *)
Seal(op, nonce, aad, pt, buffer) ==
  LET ct     == Cipher(nonce, pt)
      packet == Packet(nonce, aad, ct, Tag(nonce, aad, ct))
  IN IF Len(buffer) < Len(pt)
       THEN /\ last' = Call(op, NoPacket, "BufferTooSmall", buffer, buffer)
            /\ UNCHANGED sent
       ELSE /\ sent' = sent \cup {Sealed(packet, pt)}
            /\ last' = Call(op, packet, "sealed", buffer, Overwrite(buffer, ct))

Encrypt(nonce, aad, pt, room) ==
  /\ Cardinality(sent) < MaxSent
  /\ Seal("encrypt", nonce, aad, pt, Stale(room))

EncryptInPlace(nonce, aad, pt, room) ==
  /\ Cardinality(sent) < MaxSent
  /\ Seal("encrypt_in_place", nonce, aad, pt, Filled(pt, room))

(* Mutant: the plaintext is there before the tag is looked at.             *)
OpenEarly(op, p, buffer) ==
  /\ last' = IF Len(buffer) < Len(p.ct)
               THEN Call(op, p, "BufferTooSmall", buffer, buffer)
             ELSE Call(op, p, IF p.tag # Tag(p.nonce, p.aad, p.ct)
                                THEN "refused" ELSE "opened",
                       buffer, Overwrite(buffer, Cipher(p.nonce, p.ct)))
  /\ UNCHANGED sent

(* decrypt, and, with the ciphertext in the buffer, decrypt_in_place.      *)
Open(op, p, buffer) ==
  /\ last' = IF Len(buffer) < Len(p.ct)
               THEN Call(op, p, "BufferTooSmall", buffer, buffer)
             ELSE IF p.tag # Tag(p.nonce, p.aad, p.ct)
               THEN Call(op, p, "refused", buffer, buffer)
             ELSE Call(op, p, "opened", buffer,
                       Overwrite(buffer, Cipher(p.nonce, p.ct)))
  /\ UNCHANGED sent

Decrypt(p, room) == Open("decrypt", p, Stale(room))

DecryptInPlace(p, room) == Open("decrypt_in_place", p, Filled(p.ct, room))

Arriving == UNION {Arrivals(Wire(q), Nonces, {r.tag : r \in sent} \cup {NoTag}) :
                   q \in sent}

(* The caller takes the result, before its next call.                      *)
Return == last # NoCall /\ last' = NoCall /\ UNCHANGED sent

Next ==
  \/ /\ last = NoCall
     /\ \E nonce \in Nonces, aad \in Aads, pt \in Plaintexts, room \in Rooms :
          Encrypt(nonce, aad, pt, room) \/ EncryptInPlace(nonce, aad, pt, room)
  \/ /\ last = NoCall
     /\ \E p \in Arriving, room \in Rooms :
          Decrypt(p, room) \/ DecryptInPlace(p, room)
  \/ Return

Spec == Init /\ [][Next]_vars

-----------------------------------------------------------------------------
(* A call that fails leaves the caller's buffer as it was, so that no      *)
(* plaintext is seen that was not authenticated; one that succeeds leaves  *)
(* the bytes behind its output.                                            *)
BuffersKept ==
  IF last.outcome \in {"sealed", "opened"}
    THEN /\ Len(last.after) = Len(last.before)
         /\ \A i \in Len(last.packet.ct) + 1 .. Len(last.after) :
              last.after[i] = last.before[i]
    ELSE last.after = last.before

(* Within one packet no byte of key stream is used twice, nor for data if  *)
(* it is in the authenticator's block; for packets of fewer blocks than    *)
(* the counter has values: the code counts on, from 0.                     *)
KeystreamOnce ==
  \A p \in sent :
    Len(p.ct) <= STREAM * (COUNTERS - 1) =>
      LET Mask(i) == Xor(p.ct[i], p.pt[i])
      IN \A i \in 1 .. Len(p.ct) :
           /\ Mask(i) # {} /\ Mask(i) \cap PolyKey(p.nonce) = {}
           /\ \A j \in 1 .. i - 1 : Mask(i) \cap Mask(j) = {}
=============================================================================
