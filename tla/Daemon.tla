------------------------------- MODULE Daemon -------------------------------
(***************************************************************************)
(* The crypto daemon (elib-k0d-core: serve_one / run, parse_request and    *)
(* the Ed25519 dispatchers, the request arena) serving clients through a   *)
(* mailbox transport (elib-k0-mock-transport: client_send, round_trip).    *)
(*                                                                         *)
(* One call of serve_one_body is taken apart at the transport calls and at *)
(* its early returns:                                                      *)
(*                                                                         *)
(*   idle -> recv -> parse -> dispatch -> reply -> drop -> idle            *)
(*                                                                         *)
(* The reply is sent with the same round_trip that receives, so it takes a *)
(* waiting request out of the mailbox and overwrites wire_in with it.      *)
(***************************************************************************)
EXTENDS Wire, FiniteSets

CONSTANTS
  Requests,     \* the frames clients send
  MaxSends,     \* bound on the number of client_send calls
  MockBorrow,   \* TRUE: the transport is the mock, which serve_one borrows
                \* exclusively, so that clients run between two calls of
                \* serve_one only; FALSE: an endpoint that clients reach at
                \* any time and whose round_trip may fail
  CallerOwned,  \* TRUE: serve_one_inner, on buffers the caller keeps and
                \* never clears; FALSE: serve_one, which owns and drops them
  NoFrame, Zero, Junk   \* empty slot; zero bytes; left-over bytes

ASSUME MaxSendsAssumption == MaxSends \in Nat

(* Clients send byte strings; mlen is the value of a u16 field of theirs.  *)
ASSUME RequestsAssumption ==
  \A f \in Requests : /\ f.hdr \in [1 .. HEADER_LEN -> Byte]
                      /\ f.size \in Nat
                      /\ f.body.mlen \in Nat

(* An empty mailbox slot is no frame.                                      *)
ASSUME NoFrameAssumption == NoFrame \notin Requests

MSG_LEN == 1024     \* RequestArena.msg: [u8; 1024]

VARIABLES
  pc,                       \* where serve_one_body is
  wireIn, wireOut, arena,   \* its buffers
  nout,                     \* the length dispatch returned
  req, reqLen,              \* the mailbox: pending_request, request_len
  resp,                     \* pending_response[..response_len]
  sent,                     \* number of client_send calls so far
  reqId, curId, respId,     \* which of them is in req, in service, in resp
  answered, discarded,      \* calls replied to; calls a later call replaced
  swallowed, failed,        \* lost when a reply was sent; reply not sent
  pipelined                 \* made while an earlier call had no reply

daemon    == <<pc, wireIn, wireOut, arena, nout>>
transport == <<req, reqLen, resp>>
history   == <<sent, reqId, curId, respId, answered, discarded, swallowed,
               failed, pipelined>>
vars      == <<daemon, transport, history>>

-----------------------------------------------------------------------------
(* Buffers.  A frame's body holds the payload fields at the offsets the    *)
(* Ed25519 requests use: k = payload[0..32], sig = payload[32..96], mlen   *)
(* the u16 in front of the message, tag the identity of the message bytes. *)

ZeroFrame == [hdr |-> [i \in 1 .. HEADER_LEN |-> 0], size |-> 0,
              body |-> [k |-> Zero, sig |-> Zero, mlen |-> 0, tag |-> Zero]]

(* RequestArena::new(), which zeroize() also restores; the slots no        *)
(* handler writes (ctx, rnd, shared_secret, ct) are left out.              *)
FreshArena == [op |-> SignKeygenEd25519, sk |-> Zero, pk |-> Zero,
               sig |-> Zero, msg |-> <<Zero, 0>>, msg_len |-> 0]

(* The output buffer: header bytes, then two 32-byte cells of payload.     *)
ZeroOut == [hdr |-> [i \in 1 .. HEADER_LEN |-> 0], body |-> <<Zero, Zero>>]

DirtyArena == [op |-> SignKeygenEd25519, sk |-> Junk, pk |-> Junk,
               sig |-> Junk, msg |-> <<Junk, MSG_LEN>>, msg_len |-> MSG_LEN]
DirtyOut   == [hdr |-> [i \in 1 .. HEADER_LEN |-> 204], body |-> <<Junk, Junk>>]

(* wire_out.as_slice().get(..n)                                            *)
OutSlice(out, n) ==
  [hdr |-> out.hdr, size |-> n,
   body |-> SubSeq(out.body, 1, IF n > HEADER_LEN + 32 THEN 2
                                ELSE IF n > HEADER_LEN THEN 1 ELSE 0)]

(* arena.msg[..msg_len]: the message stored last if that is its length,    *)
(* otherwise part of it or some bytes of an earlier one.                   *)
ArenaMessage(a) == IF a.msg[2] = a.msg_len THEN a.msg ELSE <<Junk, a.msg_len>>

-----------------------------------------------------------------------------
(* parse_request: the first check that fails, or 0; and what it writes     *)
(* into the arena once they have all passed.                               *)

(* Mutant: the message length is not compared with the slot's 1024 bytes.  *)
PayloadErrorNoBound(op, len, b) ==
  LET fixed == IF op = SignEd25519 THEN 32 + 2 ELSE 32 + 64 + 2
  IN IF op = SignKeygenEd25519
       THEN IF len # 32 THEN MalformedRequest ELSE 0
     ELSE IF op \in {SignEd25519, VerifyEd25519} /\ len # fixed + b.mlen
       THEN MalformedRequest ELSE 0

PayloadError(op, len, b) ==
  CASE op = SignKeygenEd25519 -> IF len # 32 THEN MalformedRequest ELSE 0
    [] op \in {SignEd25519, VerifyEd25519} ->
         LET fixed == IF op = SignEd25519 THEN 32 + 2 ELSE 32 + 64 + 2
         IN IF len < fixed               THEN MalformedRequest
            ELSE IF b.mlen > MSG_LEN        THEN PayloadTooLong
            ELSE IF len # fixed + b.mlen THEN MalformedRequest
            ELSE 0
    [] OTHER -> 0

(* Mutant: an empty message leaves arena.msg_len alone.                    *)
StoreRequestKeepsLen(a, op, b) ==
  LET n == IF b.mlen = 0 THEN a.msg_len ELSE b.mlen
  IN CASE op = SignKeygenEd25519 -> [a EXCEPT !.sk = b.k]
       [] op = SignEd25519   -> [a EXCEPT !.sk = b.k, !.msg_len = n,
                                          !.msg = <<b.tag, b.mlen>>]
       [] op = VerifyEd25519 -> [a EXCEPT !.pk = b.k, !.sig = b.sig,
                                          !.msg_len = n,
                                          !.msg = <<b.tag, b.mlen>>]
       [] OTHER -> a

StoreRequest(a, op, b) ==
  CASE op = SignKeygenEd25519 -> [a EXCEPT !.sk = b.k]
    [] op = SignEd25519   -> [a EXCEPT !.sk = b.k, !.msg_len = b.mlen,
                                       !.msg = <<b.tag, b.mlen>>]
    [] op = VerifyEd25519 -> [a EXCEPT !.pk = b.k, !.sig = b.sig,
                                       !.msg_len = b.mlen,
                                       !.msg = <<b.tag, b.mlen>>]
    [] OTHER -> a

ParseRequest(f, a) ==
  LET h == DecodeHeader(f.hdr, f.size)
      e == IF h.err # 0 THEN h.err ELSE PayloadError(h.op, h.len, f.body)
  IN [err |-> e, op |-> h.op,
      arena |-> IF e = 0 THEN StoreRequest(a, h.op, f.body) ELSE a]

-----------------------------------------------------------------------------
(* The dispatchers: what they leave in wire_out, and the length they       *)
(* return.  A payload is written over the front of the buffer's cells.     *)

WriteError(out, e) ==
  [out |-> [hdr |-> EncodeError(e), body |-> out.body], n |-> HEADER_LEN]

WriteReply(out, op, len, cells) ==
  LET h == EncodeHeader(MAX_FRAME, op, len)
  IN IF h.err # 0
       THEN WriteError(out, MalformedRequest)
       ELSE [out |-> [hdr  |-> h.hdr,
                      body |-> [i \in 1 .. 2 |-> IF i <= Len(cells)
                                                   THEN cells[i]
                                                   ELSE out.body[i]]],
             n   |-> HEADER_LEN + len]

DispatchKeygen(a, out) ==
  WriteReply(out, SignKeygenEd25519, 64,
             <<PublicFromSecret(a.sk), a.sk>>)

DispatchSign(a, out) ==
  IF a.msg_len > MSG_LEN
    THEN WriteError(out, MalformedRequest)
    ELSE LET sig == Sign(ArenaMessage(a), a.sk)
         IN WriteReply(out, SignEd25519, 64, <<<<"R", sig>>, <<"s", sig>>>>)

VerifyByte(ok) == <<"byte", IF ok THEN 1 ELSE 0>>

(* Mutant: the reply to a verification carries the sign operation.         *)
DispatchVerifyWrongOp(a, out) ==
  LET ok == a.msg_len <= MSG_LEN /\ Verify(ArenaMessage(a), a.sig, a.pk)
  IN WriteReply(out, SignEd25519, 1, <<VerifyByte(ok)>>)

DispatchVerify(a, out) ==
  LET ok == a.msg_len <= MSG_LEN /\ Verify(ArenaMessage(a), a.sig, a.pk)
  IN WriteReply(out, VerifyEd25519, 1, <<VerifyByte(ok)>>)

DispatchOp(op, a, out) ==
  CASE op = SignKeygenEd25519 -> DispatchKeygen(a, out)
    [] op = SignEd25519       -> DispatchSign(a, out)
    [] op = VerifyEd25519     -> DispatchVerify(a, out)
    [] OTHER                  -> WriteError(out, AlgorithmNotImplemented)

-----------------------------------------------------------------------------
InService == pc \in {"parse", "dispatch", "reply"}

Init ==
  /\ pc = "idle"
  /\ wireIn = ZeroFrame
  /\ wireOut = IF CallerOwned THEN DirtyOut ELSE ZeroOut
  /\ arena = IF CallerOwned THEN DirtyArena ELSE FreshArena
  /\ nout = 0
  /\ req = ZeroFrame /\ reqLen = 0 /\ resp = NoFrame
  /\ sent = 0 /\ reqId = 0 /\ curId = 0 /\ respId = 0
  /\ answered = {} /\ discarded = {} /\ swallowed = {} /\ failed = {}
  /\ pipelined = {}

(* MockTransport::client_send.  The mailbox has one slot: an unserved      *)
(* request is overwritten, and an empty frame leaves no request in it.     *)
ClientSend(f) ==
  /\ MockBorrow => pc = "idle"
  /\ sent < MaxSends
  /\ f.size <= MAX_FRAME
  /\ sent' = sent + 1 /\ reqId' = sent + 1
  /\ req' = IF f.size = 0 THEN req ELSE f
  /\ reqLen' = f.size
  /\ discarded' = discarded \cup (IF reqLen > 0 THEN {reqId} ELSE {})
                            \cup (IF f.size = 0 THEN {sent + 1} ELSE {})
  /\ pipelined' = IF 1 .. sent \subseteq answered \cup discarded
                     THEN pipelined ELSE pipelined \cup {sent + 1}
  /\ UNCHANGED <<daemon, resp, curId, respId, answered, swallowed, failed>>

(* run() calls serve_one again: fresh, zeroed buffers on its stack.        *)
Enter ==
  /\ pc = "idle" /\ pc' = "recv"
  /\ IF CallerOwned
       THEN UNCHANGED <<wireIn, wireOut, arena>>
       ELSE wireIn' = ZeroFrame /\ wireOut' = ZeroOut /\ arena' = FreshArena
  /\ UNCHANGED <<nout, transport, history>>

(* Mutant: request_len is not reset.                                       *)
TakePendingKeeps == wireIn' = req /\ UNCHANGED <<req, reqLen>>

(* The receiving half of round_trip: the pending request moves to wire_in. *)
TakePending ==
  /\ wireIn' = req
  /\ reqLen' = 0
  /\ UNCHANGED req

(* round_trip(&[], wire_in) with a request pending.                        *)
RecvRequest ==
  /\ pc = "recv" /\ reqLen > 0
  /\ TakePending
  /\ curId' = reqId
  /\ pc' = "parse"
  /\ UNCHANGED <<wireOut, arena, nout, resp, sent, reqId, respId, answered,
                 discarded, swallowed, failed, pipelined>>

(* Mutant: the error is not looked at, and wire_in is parsed as it is.     *)
RecvErrorIgnored ==
  /\ pc = "recv" /\ (reqLen = 0 \/ ~MockBorrow)
  /\ pc' = "parse"
  /\ UNCHANGED <<wireIn, wireOut, arena, nout, transport, history>>

(* round_trip(&[], wire_in) fails, NoPendingRequest in the mock: return.   *)
(* A transport other than the mock may also fail with a request pending.   *)
RecvError ==
  /\ pc = "recv" /\ (reqLen = 0 \/ ~MockBorrow)
  /\ pc' = "drop"
  /\ UNCHANGED <<wireIn, wireOut, arena, nout, transport, history>>

(* parse_request succeeded: arena.op = op, on to the dispatcher.           *)
ParseOk ==
  LET p == ParseRequest(wireIn, arena)
  IN /\ pc = "parse" /\ p.err = 0
     /\ arena' = [p.arena EXCEPT !.op = p.op]
     /\ pc' = "dispatch"
     /\ UNCHANGED <<wireIn, wireOut, nout, transport, history>>

(* Mutant: a refused request gets no reply.                                *)
ParseErrorSilent ==
  /\ pc = "parse" /\ ParseRequest(wireIn, arena).err # 0
  /\ pc' = "drop"
  /\ UNCHANGED <<wireIn, wireOut, arena, nout, transport, history>>

(* parse_request failed: the error frame is the reply.                     *)
ParseError ==
  LET p == ParseRequest(wireIn, arena)
      r == WriteError(wireOut, p.err)
  IN /\ pc = "parse" /\ p.err # 0
     /\ arena' = p.arena
     /\ wireOut' = r.out /\ nout' = r.n
     /\ pc' = "reply"
     /\ UNCHANGED <<wireIn, transport, history>>

Dispatch ==
  LET r == DispatchOp(arena.op, arena, wireOut)
  IN /\ pc = "dispatch"
     /\ wireOut' = r.out /\ nout' = r.n
     /\ pc' = "reply"
     /\ UNCHANGED <<wireIn, arena, transport, history>>

(* Mutant: a reply that got through may be sent again.                     *)
SendReplyAgain ==
  /\ pc = "reply"
  /\ resp' = OutSlice(wireOut, nout)
  /\ respId' = curId /\ answered' = answered \cup {curId}
  /\ IF reqLen > 0
       THEN TakePending /\ swallowed' = swallowed \cup {reqId}
       ELSE UNCHANGED <<wireIn, req, reqLen, swallowed>>
  /\ pc' \in {"reply", "drop"}
  /\ UNCHANGED <<wireOut, arena, nout, sent, reqId, curId, discarded, failed,
                 pipelined>>

(* round_trip(wire_out[..nout], wire_in), its result ignored: the reply is *)
(* posted, and a request that arrived meanwhile is received and dropped.   *)
SendReply ==
  /\ pc = "reply"
  /\ resp' = OutSlice(wireOut, nout)
  /\ respId' = curId /\ answered' = answered \cup {curId}
  /\ IF reqLen > 0
       THEN TakePending /\ swallowed' = swallowed \cup {reqId}
       ELSE UNCHANGED <<wireIn, req, reqLen, swallowed>>
  /\ pc' = "drop"
  /\ UNCHANGED <<wireOut, arena, nout, sent, reqId, curId, discarded, failed,
                 pipelined>>

(* A transport other than the mock may fail to send, which goes unnoticed. *)
SendLost ==
  /\ pc = "reply" /\ ~MockBorrow
  /\ pc' = "drop"
  /\ failed' = failed \cup {curId}
  /\ UNCHANGED <<wireIn, wireOut, arena, nout, transport, sent, reqId, curId,
                 respId, answered, discarded, swallowed, pipelined>>

(* Mutant: the arena is not wiped when serve_one returns.                  *)
DropBuffersKeepsArena ==
  /\ pc = "drop" /\ pc' = "idle"
  /\ wireIn' = ZeroFrame /\ wireOut' = ZeroOut
  /\ UNCHANGED <<arena, nout, transport, history>>

(* End of serve_one: SecureFrameBuffer::drop (twice), RequestArena::drop.  *)
DropBuffers ==
  /\ pc = "drop" /\ pc' = "idle"
  /\ IF CallerOwned
       THEN UNCHANGED <<wireIn, wireOut, arena>>
       ELSE wireIn' = ZeroFrame /\ wireOut' = ZeroOut /\ arena' = FreshArena
  /\ UNCHANGED <<nout, transport, history>>

ServeOne == \/ Enter \/ RecvRequest \/ RecvError \/ ParseOk \/ ParseError
            \/ Dispatch \/ SendReply \/ SendLost \/ DropBuffers

Next == ServeOne \/ \E f \in Requests : ClientSend(f)

Spec == Init /\ [][Next]_vars

(* run() is an endless loop, so the daemon always takes its next step.     *)
FairSpec == Spec /\ WF_vars(ServeOne)

-----------------------------------------------------------------------------
(* Type invariant: every variable stays in the range its Rust type and the *)
(* buffer sizes give it.                                                   *)
KeyCells == {f.body.k : f \in Requests} \cup {Zero, Junk}
SigCells == {f.body.sig : f \in Requests} \cup {Zero, Junk}
MsgCells == {<<f.body.tag, f.body.mlen>> : f \in Requests}
              \cup {<<Zero, 0>>, <<Junk, MSG_LEN>>}
Arenas   == [op : OpCodes, sk : KeyCells, pk : KeyCells, sig : SigCells,
             msg : MsgCells, msg_len : 0 .. MSG_LEN]

BufferTypes ==
  /\ pc \in {"idle", "recv", "parse", "dispatch", "reply", "drop"}
  /\ wireIn \in Requests \cup {ZeroFrame} /\ (InService => wireIn \in Requests)
  /\ wireOut.hdr \in [1 .. HEADER_LEN -> Byte]
  /\ arena \in Arenas
  /\ nout \in 0 .. MAX_FRAME

MailboxTypes ==
  /\ req \in Requests \cup {ZeroFrame} /\ reqLen \in 0 .. MAX_FRAME
  /\ reqLen > 0 => req \in Requests /\ req.size = reqLen

HistoryTypes ==
  /\ sent \in 0 .. MaxSends
  /\ reqId \in 0 .. sent /\ curId \in 0 .. sent /\ respId \in 0 .. sent
  /\ (reqLen > 0 => reqId # 0) /\ (InService => curId # 0)
  /\ answered \subseteq 1 .. sent /\ discarded \subseteq 1 .. sent
  /\ swallowed \subseteq 1 .. sent /\ failed \subseteq 1 .. sent
  /\ pipelined \subseteq 1 .. sent

TypeOK == BufferTypes /\ MailboxTypes /\ HistoryTypes

(* DMN-03: whichever way serve_one returns, nothing of the request, the    *)
(* keys or the reply is left in the daemon's buffers; and while a request  *)
(* is served the arena holds the fields of that request and nothing else,  *)
(* nothing at all of a request that parse_request refuses.                 *)
NoResidue ==
  ~CallerOwned =>
    /\ pc \in {"idle", "recv", "parse"} => arena = FreshArena
    /\ pc \in {"idle", "recv"} => wireIn = ZeroFrame /\ wireOut = ZeroOut
    /\ pc \in {"dispatch", "reply"} =>
         LET p == ParseRequest(wireIn, FreshArena)
         IN arena = IF p.err = 0 THEN [p.arena EXCEPT !.op = p.op]
                                 ELSE FreshArena

(* Every client_send has exactly one fate.  It is waiting, in service,     *)
(* answered, replaced by the client, lost with its reply, or swallowed by  *)
(* the reply to another; never two of these, so nothing is served twice.   *)
Waiting == IF reqLen > 0 THEN {reqId} ELSE {}
Serving == IF InService THEN {curId} ELSE {}

OneFate ==
  /\ 1 .. sent = Waiting \cup Serving \cup answered \cup discarded
                   \cup failed \cup swallowed
  /\ Waiting \cap (Serving \cup answered \cup discarded \cup failed
                     \cup swallowed) = {}
  /\ Serving \cap (answered \cup discarded \cup failed \cup swallowed) = {}
  /\ answered \cap (discarded \cup failed \cup swallowed) = {}
  /\ discarded \cap (failed \cup swallowed) = {}
  /\ failed \cap swallowed = {}

(* serve_one_body sends its reply with the call that also receives.  This  *)
(* only ever loses a request made while an earlier one had no reply yet.   *)
SwallowsOnlyPipelined == swallowed \subseteq pipelined

(* A posted reply can be read by its client: it decodes as a frame of the  *)
(* operation that was asked for, or its op field holds an error code,      *)
(* which decode_header reports as an unknown operation.                    *)
ReplyReadable ==
  [][resp' # resp =>
       LET h == DecodeHeader(resp'.hdr, resp'.size)
       IN \/ h.err = 0 /\ h.op = DecodeHeader(wireIn.hdr, wireIn.size).op
          \/ h.err = UnknownOp /\ resp'.size = HEADER_LEN]_vars

(* Every request is answered, or replaced by its client, in the end.       *)
EventuallyAnswered ==
  \A i \in 1 .. MaxSends : (sent >= i) ~> (i \in answered \cup discarded)

(* The daemon and its transport implement the abstract service: the reply  *)
(* is an answer to the request in service and to nothing else, whatever    *)
(* earlier requests left in the buffers.                                   *)
Service == INSTANCE SignService WITH
  inbox    <- IF reqLen > 0 THEN req ELSE NoFrame,
  current  <- IF InService THEN wireIn ELSE NoFrame,
  reply    <- resp,
  Reliable <- MockBorrow

ImplementsService == Service!Spec
=============================================================================
