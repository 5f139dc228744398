------------------------------- MODULE AesGcm -------------------------------
(***************************************************************************)
(* AES256GCM (aes/src/gcm.rs) with its GHASH (aes/src/ghash.rs): one       *)
(* object that seals packets and opens what arrives of them.  Unlike       *)
(* ChaCha20Poly1305 it does not look at the length of the output buffer:   *)
(* a shorter one makes it panic, half done.                                *)
(*                                                                         *)
(* A block under the cipher is an unknown of its own; so is the GHASH of   *)
(* an input, and a tag is the sum of the two.                              *)
(***************************************************************************)
EXTENDS AeadData, FiniteSets

CONSTANTS
  BLOCK,        \* bytes of a block (16)
  COUNTERS,     \* values of the counter, 32 bits (2^32)
  Nonces, Aads, Plaintexts, Rooms,      \* arguments of the calls
  MaxSent       \* bound on the packets

AesGcmAssumption ==
  /\ BLOCK \in Nat /\ BLOCK > 1 /\ COUNTERS \in Nat /\ COUNTERS > 2
  /\ \A s \in Aads \cup Plaintexts : s \in Seq({s[i] : i \in 1 .. Len(s)})
  /\ Nonces \subseteq Nat /\ Rooms \subseteq Nat /\ MaxSent \in Nat

VARIABLES
  sent,         \* history: the packets sealed, each with its plaintext
  last          \* history: the last call, its outcome, and the buffer before
                \* and after it

vars == <<sent, last>>

-----------------------------------------------------------------------------
inc32(c) == (c + 1) % COUNTERS

(* A counter block; nonce 0 is the one of zero bytes.                      *)
Block(nonce, c) == [nonce |-> nonce, counter |-> c]
compute_j0(nonce) == Block(nonce, 1)

(* The key of GHASH is the zero block under the cipher.                    *)
HashKey == Block(0, 0)

(* Mutant: gctr starts at J0 itself.                                       *)
FirstCounterJ0(nonce) == compute_j0(nonce).counter

FirstCounter(nonce) == inc32(compute_j0(nonce).counter)

gctr(nonce, data) ==
  ApplyKeystream(nonce, FirstCounter(nonce), BLOCK, COUNTERS, data)

(* update_padded twice, then the lengths in bits.                          *)
HashInput(aad, ct) ==
  Padded(aad, BLOCK) \o Padded(ct, BLOCK)
    \o LengthField(8 * Len(aad), BLOCK) \o LengthField(8 * Len(ct), BLOCK)

compute_tag(nonce, aad, ct) ==
  [mask |-> compute_j0(nonce), hash |-> HashInput(aad, ct)]
NoTag == [mask |-> Block(-1, 0), hash |-> <<>>]

NoPacket == Packet(-1, <<>>, <<>>, NoTag)
NoCall   == Call("none", NoPacket, "none", <<>>, <<>>)

-----------------------------------------------------------------------------
Init == sent = {} /\ last = NoCall

(* gctr writes byte after byte, until it is done or behind the buffer.     *)
Encrypt(nonce, aad, pt, room) ==
  LET ct     == gctr(nonce, pt)
      packet == Packet(nonce, aad, ct, compute_tag(nonce, aad, ct))
      after  == Overwrite(Stale(room), ct)
  IN /\ Cardinality(sent) < MaxSent
     /\ IF room < Len(pt)
          THEN /\ last' = Call("encrypt", packet, "panic", Stale(room), after)
               /\ UNCHANGED sent
          ELSE /\ sent' = sent \cup {Sealed(packet, pt)}
               /\ last' = Call("encrypt", packet, "sealed", Stale(room), after)

Decrypt(p, room) ==
  /\ last' =
       IF p.tag # compute_tag(p.nonce, p.aad, p.ct)
         THEN Call("decrypt", p, "refused", Stale(room), Stale(room))
       ELSE Call("decrypt", p, IF room < Len(p.ct) THEN "panic" ELSE "opened",
                 Stale(room), Overwrite(Stale(room), gctr(p.nonce, p.ct)))
  /\ UNCHANGED sent

Arriving == UNION {Arrivals(Wire(q), Nonces, {r.tag : r \in sent} \cup {NoTag}) :
                   q \in sent}

(* The caller takes the result, before its next call.                      *)
Return == last # NoCall /\ last' = NoCall /\ UNCHANGED sent

Next ==
  \/ /\ last = NoCall
     /\ \E nonce \in Nonces, aad \in Aads, pt \in Plaintexts, room \in Rooms :
          Encrypt(nonce, aad, pt, room)
  \/ last = NoCall /\ \E p \in Arriving, room \in Rooms : Decrypt(p, room)
  \/ Return

Spec == Init /\ [][Next]_vars

-----------------------------------------------------------------------------
(* A packet that is refused leaves the caller's buffer as it was; a call   *)
(* that succeeds leaves the bytes behind its output.                       *)
BuffersKept ==
  /\ last.outcome = "refused" => last.after = last.before
  /\ last.outcome \in {"sealed", "opened"} =>
       /\ Len(last.after) = Len(last.before)
       /\ \A i \in Len(last.packet.ct) + 1 .. Len(last.after) :
            last.after[i] = last.before[i]

(* The keystream that a packet's tag needs: its mask, and the hash key.    *)
TagKeystream(p) ==
  {KeystreamAtom(b.nonce, b.counter, j) : b \in {p.tag.mask, HashKey},
                                          j \in 1 .. BLOCK}

(* Within one packet every block of data has a counter block of its own,   *)
(* which is neither the one that masks the tag nor the hash key's; for     *)
(* packets of at most two blocks fewer than the counter has values: the    *)
(* code counts on, from 0.                                                 *)
KeystreamOnce ==
  \A p \in sent :
    Len(p.ct) <= BLOCK * (COUNTERS - 2) =>
      LET Mask(i) == Xor(p.ct[i], p.pt[i])
      IN \A i \in 1 .. Len(p.ct) :
           /\ Mask(i) # {} /\ Mask(i) \cap TagKeystream(p) = {}
           /\ \A j \in 1 .. i - 1 : Mask(i) \cap Mask(j) = {}
=============================================================================
