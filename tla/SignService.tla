---------------------------- MODULE SignService -----------------------------
(***************************************************************************)
(* What a client of the crypto daemon is promised: a mailbox of one        *)
(* request, and for every request the service takes out of it exactly one  *)
(* reply, determined by that request alone.  A well-formed Ed25519 request *)
(* gets the result of the operation it asks for; every other frame gets an *)
(* error frame.                                                            *)
(***************************************************************************)
EXTENDS Wire

CONSTANTS Requests,   \* the frames clients send
          Reliable,   \* FALSE: the transport may lose requests and replies
          NoFrame     \* an empty slot

VARIABLES inbox, current, reply

svars == <<inbox, current, reply>>

(* The header of a frame says: operation Op(f), Len(f) bytes of payload.   *)
OpOf(f)  == FromLe16(f.hdr[6], f.hdr[7])
LenOf(f) == FromLe16(f.hdr[8], f.hdr[9])

WellFormedHeader(f) ==
  /\ f.size >= HEADER_LEN
  /\ OpOf(f) \in OpCodes
  /\ LenOf(f) <= MAX_PAYLOAD
  /\ f.hdr = HeaderBytes(OpOf(f), LenOf(f))
  /\ f.size >= HEADER_LEN + LenOf(f)

Message(f) == <<f.body.tag, f.body.mlen>>

KeygenRequest(f) == OpOf(f) = SignKeygenEd25519 /\ LenOf(f) = 32
SignRequest(f)   == /\ OpOf(f) = SignEd25519
                    /\ f.body.mlen <= 1024 /\ LenOf(f) = 32 + 2 + f.body.mlen
VerifyRequest(f) == /\ OpOf(f) = VerifyEd25519
                    /\ f.body.mlen <= 1024
                    /\ LenOf(f) = 32 + 64 + 2 + f.body.mlen
Implemented(f)   == OpOf(f) \in {SignKeygenEd25519, SignEd25519, VerifyEd25519}

Reply(op, len, cells) ==
  [hdr |-> HeaderBytes(op, len), size |-> HEADER_LEN + len, body |-> cells]
ErrorReplies(errors) == {Reply(e, 0, <<>>) : e \in errors}

Answers(f) ==
  IF ~WellFormedHeader(f)
    THEN ErrorReplies({TruncatedFrame, MagicMismatch, VersionMismatch,
                       UnknownOp, PayloadTooLong})
  ELSE IF ~Implemented(f)
    THEN ErrorReplies({AlgorithmNotImplemented})
  ELSE IF KeygenRequest(f)
    THEN {Reply(SignKeygenEd25519, 64,
                <<PublicFromSecret(f.body.k), f.body.k>>)}
  ELSE IF SignRequest(f)
    THEN LET sig == Sign(Message(f), f.body.k)
         IN {Reply(SignEd25519, 64, <<<<"R", sig>>, <<"s", sig>>>>)}
  ELSE IF VerifyRequest(f)
    THEN {Reply(VerifyEd25519, 1,
            <<<<"byte", IF Verify(Message(f), f.body.sig, f.body.k)
                          THEN 1 ELSE 0>>>>)}
  ELSE ErrorReplies({MalformedRequest, PayloadTooLong})

-----------------------------------------------------------------------------
Init == inbox = NoFrame /\ current = NoFrame /\ reply = NoFrame

(* A client replaces whatever is in the mailbox, possibly with nothing.    *)
Submit == /\ inbox' \in Requests \cup {NoFrame}
          /\ UNCHANGED <<current, reply>>

Take == /\ inbox # NoFrame /\ current = NoFrame
        /\ current' = inbox /\ inbox' = NoFrame
        /\ UNCHANGED reply

Answer == /\ current # NoFrame
          /\ reply' \in Answers(current)
          /\ current' = NoFrame
          /\ inbox' = inbox \/ (~Reliable /\ inbox' = NoFrame)

Lose == /\ ~Reliable
        /\ current' = NoFrame
        /\ UNCHANGED <<inbox, reply>>

Next == Submit \/ Take \/ Answer \/ Lose
Spec == Init /\ [][Next]_svars
=============================================================================
