------------------------------ MODULE MCDaemon ------------------------------
(***************************************************************************)
(* Instances of Daemon for TLC: two seeds, two messages, and for every     *)
(* check of the codec and of parse_request a frame on each side of it.     *)
(***************************************************************************)
EXTENDS Daemon, TLC

CONSTANTS s1, s2, a, b

MCSeeds == {s1, s2}

PK(s) == PublicFromSecret(s)

Frame(hdr, size, k, sig, mlen, tag) ==
  [hdr |-> hdr, size |-> size,
   body |-> [k |-> k, sig |-> sig, mlen |-> mlen, tag |-> tag]]

(* A frame of operation op whose payload has len bytes, all delivered.     *)
Whole(op, len, k, sig, mlen, tag) ==
  Frame(HeaderBytes(op, len), HEADER_LEN + len, k, sig, mlen, tag)

Keygen(s)    == Whole(SignKeygenEd25519, 32, s, Zero, 0, Zero)
SignMsg(s, n, tag) == Whole(SignEd25519, 34 + n, s, Zero, n, tag)
VerifyMsg(s, n, tag, sig) == Whole(VerifyEd25519, 98 + n, PK(s), sig, n, tag)

Good == {Keygen(s1), SignMsg(s1, 5, a), SignMsg(s2, 1024, b),
         SignMsg(s2, 0, a)}
         \cup {VerifyMsg(s1, 5, a, sig) :
                 sig \in {Sign(<<a, 5>>, s1), Sign(<<b, 5>>, s1),
                          Sign(<<a, 5>>, s2)}}
         \cup {VerifyMsg(s2, 0, a, Zero)}

Header == HeaderBytes(SignEd25519, 39)

(* One frame per way of being refused, and for the size checks the last    *)
(* size that is refused.                                                   *)
Bad == {Frame(Header, n, s1, Zero, 5, a) : n \in {0, 3, 4, 6, 10, 49}}
   \cup {Frame([Header EXCEPT ![4] = 224], 50, s1, Zero, 5, a),
         Frame([Header EXCEPT ![5] = 0], 50, s1, Zero, 5, a),
         Frame([Header EXCEPT ![6] = 255], 50, s1, Zero, 5, a),
         Frame(HeaderBytes(MalformedRequest, 0), 11, s1, Zero, 0, a),
         Frame(HeaderBytes(SignKeygenEd25519, MAX_PAYLOAD + 1), MAX_FRAME,
               s1, Zero, 0, a),
         Frame([Header EXCEPT ![10] = 1], MAX_FRAME, s1, Zero, 5, a)}
   \cup {Whole(SignKeygenEd25519, n, s2, Zero, 0, a) : n \in {0, 31, 33}}
   \cup {Whole(SignEd25519, n, s2, Zero, 5, b) : n \in {33, 38, 40}}
   \cup {Whole(SignEd25519, 34 + 1025, s2, Zero, 1025, b),
         Whole(VerifyEd25519, 97, PK(s2), Zero, 0, b),
         Whole(VerifyEd25519, 98 + 1025, PK(s2), Zero, 1025, b),
         Whole(VerifyEd25519, 98, PK(s2), Zero, 1, b),
         Whole(SignEd25519 + 1, 39, s2, Zero, 5, b),
         Whole(34 * 256 + 6, 0, s2, Zero, 0, b)}

MCRequests == Good \cup Bad
=============================================================================
