------------------------------ MODULE AeadData ------------------------------
(***************************************************************************)
(* What the two authenticated ciphers have in common: bytes, key stream,   *)
(* packets, and how a packet may arrive.                                   *)
(*                                                                         *)
(* A byte is the set of the atoms it is the sum (XOR) of: letters of the   *)
(* message and bytes of key stream.  The byte zero is the empty set.       *)
(***************************************************************************)
EXTENDS Integers, Sequences

Letter(c)                   == {<<c, 0, 0, 0>>}
Zero                        == {}
KeystreamAtom(nonce, c, i)  == <<"keystream", nonce, c, i>>
Xor(x, y)                   == (x \ y) \cup (y \ x)

(* data under the key stream whose first block has counter c0: blocks of   *)
(* "block" bytes, counters of "modulus" values.                            *)
ApplyKeystream(nonce, c0, block, modulus, data) ==
  [i \in 1 .. Len(data) |->
     Xor(data[i],
         {KeystreamAtom(nonce, (c0 + (i - 1) \div block) % modulus,
                        ((i - 1) % block) + 1)})]

(* data and the zero bytes that make it whole blocks.                      *)
Padded(data, block) ==
  data \o [i \in 1 .. (block - (Len(data) % block)) % block |-> Zero]

(* A length, in a field of half a block.                                   *)
LengthField(n, block) ==
  [i \in 1 .. block \div 2 |-> IF i = 1 THEN {<<"length", n, 0, 0>>} ELSE Zero]

(* What a buffer of n bytes holds before a call.                           *)
Stale(n) == [i \in 1 .. n |-> Letter("stale")]

Packet(nonce, aad, ct, tag) ==
  [nonce |-> nonce, aad |-> aad, ct |-> ct, tag |-> tag]

(* What is left in a buffer whose first bytes a call has overwritten.      *)
Overwrite(buffer, data) ==
  [i \in 1 .. Len(buffer) |-> IF i <= Len(data) THEN data[i] ELSE buffer[i]]

(* A call, its outcome, and the caller's buffer before and after it.       *)
Call(op, packet, outcome, before, after) ==
  [op |-> op, packet |-> packet, outcome |-> outcome,
   before |-> before, after |-> after]

(* A packet that was sealed is kept with its plaintext.                    *)
Sealed(packet, pt) == [nonce |-> packet.nonce, aad |-> packet.aad,
                       ct |-> packet.ct, tag |-> packet.tag, pt |-> pt]
Wire(p)  == Packet(p.nonce, p.aad, p.ct, p.tag)
Plain(p) == [nonce |-> p.nonce, aad |-> p.aad, pt |-> p.pt]

(* How packet p may arrive: as sent, under another nonce, with a byte      *)
(* changed, lost, added (a zero, as padding is) or moved between aad and   *)
(* ciphertext, or with another packet's tag.                               *)
Arrivals(p, nonces, tags) ==
  LET Front(s) == SubSeq(s, 1, Len(s) - 1)
      With(a, c) == Packet(p.nonce, a, c, p.tag)
  IN {p} \cup {[p EXCEPT !.nonce = n] : n \in nonces}
     \cup {[p EXCEPT !.tag = t] : t \in tags}
     \cup {With(Append(p.aad, Zero), p.ct), With(p.aad, Append(p.ct, Zero))}
     \cup (IF Len(p.ct) = 0 THEN {}
           ELSE {With(p.aad, Front(p.ct)),
                 With(Append(p.aad, p.ct[1]), Tail(p.ct)),
                 With(p.aad, [p.ct EXCEPT ![1] = Xor(@, Letter("a"))])})
     \cup (IF Len(p.aad) = 0 THEN {}
           ELSE {With(Front(p.aad), p.ct),
                 With(Front(p.aad), <<p.aad[Len(p.aad)]>> \o p.ct)})

-----------------------------------------------------------------------------
(* The sealed packets and the last call as IdealAead sees them.            *)
NoMessage(k) == [nonce |-> -k, aad |-> <<>>, pt |-> <<>>]
None    == NoMessage(1)
Forged  == NoMessage(2)
Refused == NoMessage(3)

SealedMessages(sent) == {Plain(p) : p \in sent}

Answered(last) == last.outcome \in {"opened", "refused"}

RequestOf(sent, last) ==
  IF ~ Answered(last) THEN None
  ELSE IF \E p \in sent : Wire(p) = last.packet
    THEN Plain(CHOOSE p \in sent : Wire(p) = last.packet)
  ELSE Forged

AnswerOf(last) ==
  IF ~ Answered(last) THEN None
  ELSE IF last.outcome = "opened"
    THEN [nonce |-> last.packet.nonce, aad |-> last.packet.aad,
          pt |-> SubSeq(last.after, 1, Len(last.packet.ct))]
  ELSE Refused
=============================================================================
