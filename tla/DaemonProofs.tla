---------------------------- MODULE DaemonProofs ----------------------------
(***************************************************************************)
(* Theorems about the wire codec, for every operation and length, and about*)
(* Daemon, for every set of client frames, every number of sends, and all  *)
(* four transport and buffer arrangements: the last ones say that it       *)
(* implements SignService.                                                 *)
(***************************************************************************)
EXTENDS Daemon, TLAPS

-----------------------------------------------------------------------------
(* The codec.                                                              *)

(* What encode_header writes, for arguments that fit their fields, is a    *)
(* header: eleven bytes.                                                   *)
LEMMA HeaderBytesType ==
  ASSUME NEW code \in Nat, NEW len \in Nat
  PROVE  HeaderBytes(code, len) \in [1 .. HEADER_LEN -> Byte]
<1>1. /\ LoByte(code) \in Byte /\ HiByte(code) \in Byte
      /\ LoByte(len) \in Byte /\ HiByte(len) \in Byte
      /\ LoByte(len \div 65536) \in Byte /\ HiByte(len \div 65536) \in Byte
  BY SMT DEF LoByte, HiByte, Byte
<1>2. /\ MAGIC[1] \in Byte /\ MAGIC[2] \in Byte /\ MAGIC[3] \in Byte
      /\ MAGIC[4] \in Byte /\ VER \in Byte
  BY SMT DEF MAGIC, VER, Byte
<1> QED
  BY <1>1, <1>2, SMT DEF HeaderBytes, HEADER_LEN

(* A header is accepted only for a known operation.                        *)
LEMMA DecodedOp ==
  ASSUME NEW hdr, NEW size, DecodeHeader(hdr, size).err = 0
  PROVE  DecodeHeader(hdr, size).op \in OpCodes
  BY SMT DEF DecodeHeader, Ok, Err, TruncatedFrame, MagicMismatch,
             VersionMismatch, UnknownOp, PayloadTooLong

(* Every operation code and every error code fits the sixteen-bit field,   *)
(* and none is both.                                                       *)
LEMMA OpCodeRange == \A c \in OpCodes : c \in Nat /\ c < 8968
  BY SMT DEF OpCodes

LEMMA ErrorCodeRange == \A e \in IpcErrors : e \in Nat /\ 49408 < e /\ e < 65536
  BY SMT DEF IpcErrors, TruncatedFrame, TransportError

LEMMA ImplementedOps ==
  \A op \in {SignKeygenEd25519, SignEd25519, VerifyEd25519} : op \in OpCodes
<1>1. 16 \in 16 .. 18 /\ 17 \in 16 .. 18 /\ 18 \in 16 .. 18 /\ 1 \in 1 .. 5
  OBVIOUS
<1>2. SignKeygenEd25519 \in OpCodes
  BY <1>1, SMT DEF OpCodes, SignKeygenEd25519
<1>3. SignEd25519 \in OpCodes
  BY <1>1, SMT DEF OpCodes, SignEd25519
<1>4. VerifyEd25519 \in OpCodes
  BY <1>1, SMT DEF OpCodes, VerifyEd25519
<1> QED
  BY <1>2, <1>3, <1>4

LEMMA IpcErrorsListed ==
  {TruncatedFrame, MagicMismatch, VersionMismatch, UnknownOp,
   AlgorithmNotImplemented, PayloadTooLong, MalformedRequest,
   TransportError}
     \subseteq IpcErrors \ {0}
  BY SMT DEF IpcErrors, TruncatedFrame, MagicMismatch, VersionMismatch, UnknownOp,
     AlgorithmNotImplemented, PayloadTooLong, MalformedRequest, TransportError

LEMMA OpsDiffer == /\ SignKeygenEd25519 # SignEd25519
                   /\ SignKeygenEd25519 # VerifyEd25519
                   /\ SignEd25519 # VerifyEd25519
  BY SMT DEF SignKeygenEd25519, SignEd25519, VerifyEd25519

LEMMA ErrorIsNoOp == \A e \in IpcErrors : e \notin OpCodes
<1> SUFFICES ASSUME NEW e \in IpcErrors, e \in OpCodes PROVE FALSE
  OBVIOUS
<1>1. e \in Nat /\ e < 8968
  BY OpCodeRange
<1>2. 49408 < e
  BY ErrorCodeRange
<1> QED
  BY <1>1, <1>2

(* The fields of an encoded header, and what decode_header makes of them.  *)
LEMMA HeaderFields ==
  ASSUME NEW code, NEW len
  PROVE  LET h == HeaderBytes(code, len)
         IN /\ <<h[1], h[2], h[3], h[4]>> = MAGIC /\ h[5] = VER
            /\ h[6] = LoByte(code) /\ h[7] = HiByte(code)
            /\ h[8] = LoByte(len) /\ h[9] = HiByte(len)
            /\ h[10] = LoByte(len \div 65536) /\ h[11] = HiByte(len \div 65536)
  BY SMT DEF HeaderBytes, MAGIC, VER

LEMMA DecodeFields ==
  ASSUME NEW h, NEW size \in Nat, NEW op \in OpCodes,
         NEW len \in 0 .. MAX_PAYLOAD, size >= HEADER_LEN + len,
         <<h[1], h[2], h[3], h[4]>> = MAGIC, h[5] = VER,
         FromLe16(h[6], h[7]) = op, FromLe16(h[8], h[9]) = len,
         FromLe16(h[10], h[11]) = 0
  PROVE  DecodeHeader(h, size) = Ok(op, len)
  BY SMT DEF DecodeHeader, HEADER_LEN, MAX_PAYLOAD, MAX_FRAME

(* decode_header inverts encode_header: what one side of the channel       *)
(* writes for an operation and a payload length that fits, the other side  *)
(* reads back from any slice that holds the frame.                         *)
THEOREM DecodeEncode ==
  ASSUME NEW op \in OpCodes, NEW len \in 0 .. MAX_PAYLOAD, NEW size \in Nat,
         size >= HEADER_LEN + len
  PROVE  DecodeHeader(HeaderBytes(op, len), size) = Ok(op, len)
<1>1. op \in Nat /\ op < 8968
  BY OpCodeRange
<1>2. FromLe16(LoByte(op), HiByte(op)) = op
  BY <1>1, SMT DEF FromLe16, LoByte, HiByte
<1>3. FromLe16(LoByte(len), HiByte(len)) = len
  BY SMT DEF FromLe16, LoByte, HiByte, MAX_PAYLOAD, MAX_FRAME, HEADER_LEN
<1>4. len \div 65536 = 0
  BY SMT DEF MAX_PAYLOAD, MAX_FRAME, HEADER_LEN
<1>5. FromLe16(LoByte(len \div 65536), HiByte(len \div 65536)) = 0
  BY <1>4, SMT DEF FromLe16, LoByte, HiByte
<1> DEFINE h == HeaderBytes(op, len)
<1>6. /\ <<h[1], h[2], h[3], h[4]>> = MAGIC /\ h[5] = VER
      /\ FromLe16(h[6], h[7]) = op /\ FromLe16(h[8], h[9]) = len
      /\ FromLe16(h[10], h[11]) = 0
  BY <1>2, <1>3, <1>5, HeaderFields
<1> QED
  BY <1>6, DecodeFields

(* An error frame cannot be taken for an answer: every decoder reports it  *)
(* as an unknown operation.                                                *)
THEOREM ErrorFrameUnknown ==
  ASSUME NEW e \in IpcErrors
  PROVE  DecodeHeader(EncodeError(e), HEADER_LEN) = Err(UnknownOp)
<1>1. e \in Nat /\ e < 65536
  BY ErrorCodeRange
<1>2. FromLe16(LoByte(e), HiByte(e)) = e
  BY <1>1, SMT DEF FromLe16, LoByte, HiByte
<1>3. e \notin OpCodes
  BY ErrorIsNoOp
<1>4. HeaderBytes(e, 0)[6] = LoByte(e) /\ HeaderBytes(e, 0)[7] = HiByte(e)
  BY HeaderFields
<1> QED
  BY <1>2, <1>3, <1>4, HeaderFields, SMT DEF DecodeHeader, EncodeError,
     HEADER_LEN

-----------------------------------------------------------------------------
(* The daemon.                                                             *)

(* The error codes of the codec and of parse_request.                      *)
LEMMA DecodeErrorCode ==
  ASSUME NEW hdr, NEW size
  PROVE  DecodeHeader(hdr, size).err \in {0} \cup IpcErrors
<1>1. {TruncatedFrame, MagicMismatch, VersionMismatch, UnknownOp,
       PayloadTooLong} \subseteq IpcErrors
  BY IpcErrorsListed
<1> QED
  BY <1>1, SMT DEF DecodeHeader, Ok, Err

LEMMA ParseErrorCode ==
  ASSUME NEW f, NEW a, ParseRequest(f, a).err # 0
  PROVE  ParseRequest(f, a).err \in IpcErrors
<1> DEFINE h == DecodeHeader(f.hdr, f.size)
           e == PayloadError(h.op, h.len, f.body)
<1>1. h.err \in {0} \cup IpcErrors
  BY DecodeErrorCode
<1>2. e \in {0, MalformedRequest, PayloadTooLong}
  BY SMT DEF PayloadError
<1>3. ParseRequest(f, a).err = IF h.err # 0 THEN h.err ELSE e
  BY DEF ParseRequest
<1> QED
  BY <1>1, <1>2, <1>3, IpcErrorsListed

(* The types that parse_request and the dispatchers preserve.              *)

LEMMA ZeroHeader == [i \in 1 .. HEADER_LEN |-> 0] \in [1 .. HEADER_LEN -> Byte]
  BY SMT DEF Byte

LEMMA MsgLenNat == MSG_LEN \in Nat
  BY DEF MSG_LEN

LEMMA AcceptedLength ==
  ASSUME NEW op \in {SignEd25519, VerifyEd25519}, NEW len, NEW b,
         b.mlen \in Nat, PayloadError(op, len, b) = 0
  PROVE  b.mlen \in 0 .. MSG_LEN
<1>1. b.mlen > MSG_LEN => PayloadError(op, len, b) # 0
  BY OpsDiffer DEF PayloadError, MalformedRequest, PayloadTooLong
<1> QED
  BY <1>1, MsgLenNat

LEMMA StoreRequestType ==
  ASSUME NEW a \in Arenas, NEW op, NEW b,
         b.k \in KeyCells, b.sig \in SigCells, <<b.tag, b.mlen>> \in MsgCells,
         op \in {SignEd25519, VerifyEd25519} => b.mlen \in 0 .. MSG_LEN
  PROVE  StoreRequest(a, op, b) \in Arenas
<1>1. CASE op = SignKeygenEd25519
  <2>1. StoreRequest(a, op, b) = [a EXCEPT !.sk = b.k]
    BY <1>1, OpsDiffer DEF StoreRequest
  <2> QED
    BY <2>1 DEF Arenas
<1>2. CASE op = SignEd25519
  <2>1. StoreRequest(a, op, b) = [a EXCEPT !.sk = b.k, !.msg_len = b.mlen,
                                           !.msg = <<b.tag, b.mlen>>]
    BY <1>2, OpsDiffer DEF StoreRequest
  <2> QED
    BY <1>2, <2>1 DEF Arenas
<1>3. CASE op = VerifyEd25519
  <2>1. StoreRequest(a, op, b) = [a EXCEPT !.pk = b.k, !.sig = b.sig,
                                           !.msg_len = b.mlen,
                                           !.msg = <<b.tag, b.mlen>>]
    BY <1>3, OpsDiffer DEF StoreRequest
  <2> QED
    BY <1>3, <2>1 DEF Arenas
<1>4. CASE op \notin {SignKeygenEd25519, SignEd25519, VerifyEd25519}
  BY <1>4 DEF StoreRequest
<1> QED
  BY <1>1, <1>2, <1>3, <1>4

LEMMA ParsedArena ==
  ASSUME NEW f \in Requests, NEW a \in Arenas
  PROVE  /\ ParseRequest(f, a).arena \in Arenas
         /\ ParseRequest(f, a).err = 0 => ParseRequest(f, a).op \in OpCodes
<1> DEFINE h == DecodeHeader(f.hdr, f.size)
           b == f.body
<1>1. CASE ParseRequest(f, a).err # 0
  <2>1. ParseRequest(f, a).arena = a
    BY <1>1 DEF ParseRequest
  <2> QED
    BY <1>1, <2>1
<1>2. CASE ParseRequest(f, a).err = 0
  <2>1. /\ h.err = 0 /\ PayloadError(h.op, h.len, b) = 0
        /\ ParseRequest(f, a).op = h.op
        /\ ParseRequest(f, a).arena = StoreRequest(a, h.op, b)
    BY <1>2 DEF ParseRequest
  <2>2. h.op \in OpCodes
    BY <2>1, DecodedOp
  <2>3. b.k \in KeyCells /\ b.sig \in SigCells /\ <<b.tag, b.mlen>> \in MsgCells
    BY DEF KeyCells, SigCells, MsgCells
  <2>4. b.mlen \in Nat
    BY RequestsAssumption, Zenon
  <2>5. h.op \in {SignEd25519, VerifyEd25519} => b.mlen \in 0 .. MSG_LEN
    BY <2>1, <2>4, AcceptedLength
  <2> QED
    BY <2>1, <2>2, <2>3, <2>5, StoreRequestType
<1> QED
  BY <1>1, <1>2

HeaderType == [1 .. HEADER_LEN -> Byte]

LEMMA Sizes == /\ HEADER_LEN \in Nat /\ MAX_FRAME \in Nat /\ MAX_PAYLOAD \in Nat
               /\ HEADER_LEN + MAX_PAYLOAD = MAX_FRAME
  BY DEF MAX_PAYLOAD, MAX_FRAME, HEADER_LEN

LEMMA WriteErrorType ==
  ASSUME NEW out, NEW e \in IpcErrors
  PROVE  /\ WriteError(out, e).out.hdr \in HeaderType
         /\ WriteError(out, e).n \in 0 .. MAX_FRAME
<1>1. HeaderBytes(e, 0) \in HeaderType
  BY ErrorCodeRange, HeaderBytesType DEF HeaderType
<1>2. HEADER_LEN \in 0 .. MAX_FRAME
  BY Sizes
<1> QED
  BY <1>1, <1>2 DEF WriteError, EncodeError

LEMMA WriteReplyType ==
  ASSUME NEW out, NEW op \in OpCodes, NEW len \in Nat, NEW cells
  PROVE  /\ WriteReply(out, op, len, cells).out.hdr \in HeaderType
         /\ WriteReply(out, op, len, cells).n \in 0 .. MAX_FRAME
<1> DEFINE h == EncodeHeader(MAX_FRAME, op, len)
<1>1. CASE h.err # 0
  <2>1. WriteReply(out, op, len, cells) = WriteError(out, MalformedRequest)
    BY <1>1 DEF WriteReply
  <2> QED
    BY <2>1, WriteErrorType, IpcErrorsListed
<1>2. CASE h.err = 0
  <2>1. /\ WriteReply(out, op, len, cells).out.hdr = h.hdr
        /\ WriteReply(out, op, len, cells).n = HEADER_LEN + len
    BY <1>2 DEF WriteReply
  <2>2. PayloadTooLong # 0
    BY IpcErrorsListed
  <2>3. /\ h.hdr = HeaderBytes(op, len)
        /\ len <= MAX_PAYLOAD
    BY <1>2, <2>2, Sizes DEF EncodeHeader
  <2>4. HeaderBytes(op, len) \in HeaderType
    BY OpCodeRange, HeaderBytesType DEF HeaderType
  <2>5. HEADER_LEN + len \in 0 .. MAX_FRAME
    BY <2>3, Sizes
  <2> QED
    BY <2>1, <2>3, <2>4, <2>5
<1> QED
  BY <1>1, <1>2

LEMMA DispatchType ==
  ASSUME NEW op, NEW a, NEW out
  PROVE  /\ DispatchOp(op, a, out).out.hdr \in HeaderType
         /\ DispatchOp(op, a, out).n \in 0 .. MAX_FRAME
<1>1. CASE op = SignKeygenEd25519
  <2>1. DispatchOp(op, a, out) = DispatchKeygen(a, out)
    BY <1>1, OpsDiffer DEF DispatchOp
  <2> QED
    BY <2>1, ImplementedOps, WriteReplyType DEF DispatchKeygen
<1>2. CASE op = SignEd25519
  <2>1. DispatchOp(op, a, out) = DispatchSign(a, out)
    BY <1>2, OpsDiffer DEF DispatchOp
  <2>2. CASE a.msg_len > MSG_LEN
    BY <2>1, <2>2, WriteErrorType, IpcErrorsListed DEF DispatchSign
  <2>3. CASE ~(a.msg_len > MSG_LEN)
    BY <2>1, <2>3, ImplementedOps, WriteReplyType DEF DispatchSign
  <2> QED
    BY <2>2, <2>3
<1>3. CASE op = VerifyEd25519
  <2>1. DispatchOp(op, a, out) = DispatchVerify(a, out)
    BY <1>3, OpsDiffer DEF DispatchOp
  <2> QED
    BY <2>1, ImplementedOps, WriteReplyType DEF DispatchVerify
<1>4. CASE op \notin {SignKeygenEd25519, SignEd25519, VerifyEd25519}
  <2>1. DispatchOp(op, a, out) = WriteError(out, AlgorithmNotImplemented)
    BY <1>4 DEF DispatchOp
  <2> QED
    BY <2>1, WriteErrorType, IpcErrorsListed
<1> QED
  BY <1>1, <1>2, <1>3, <1>4

-----------------------------------------------------------------------------
(* Type correctness.                                                       *)

LEMMA InitType == Init => TypeOK
<1> SUFFICES ASSUME Init PROVE TypeOK
  OBVIOUS
<1>1. wireOut.hdr \in [1 .. HEADER_LEN -> Byte]
  BY DEF Init, ZeroOut, DirtyOut, Byte, HEADER_LEN
<1>2. arena \in Arenas
  BY ImplementedOps, MsgLenNat DEF Init, FreshArena, DirtyArena, Arenas,
     KeyCells, SigCells, MsgCells
<1>3. 0 \in 0 .. MAX_FRAME /\ 0 \in 0 .. MaxSends
  BY MaxSendsAssumption, Sizes
<1> QED
  BY <1>1, <1>2, <1>3
     DEF Init, TypeOK, BufferTypes, MailboxTypes, HistoryTypes, InService

LEMMA ClearedBuffers ==
  /\ FreshArena \in Arenas
  /\ ZeroOut.hdr \in [1 .. HEADER_LEN -> Byte]
<1>1. FreshArena \in Arenas
  BY ImplementedOps, MsgLenNat DEF FreshArena, Arenas, KeyCells, SigCells, MsgCells
<1>2. ZeroOut.hdr \in [1 .. HEADER_LEN -> Byte]
  BY DEF ZeroOut, Byte, HEADER_LEN
<1> QED
  BY <1>1, <1>2

LEMMA BufferTypesKept == TypeOK /\ [Next]_vars => BufferTypes'
<1> SUFFICES ASSUME TypeOK, [Next]_vars PROVE BufferTypes'
  OBVIOUS
<1> USE DEF TypeOK, BufferTypes, InService, daemon, transport, history
<1>1. ASSUME NEW f \in Requests, ClientSend(f) PROVE BufferTypes'
  BY <1>1 DEF ClientSend
<1>2. CASE Enter
  BY <1>2, ClearedBuffers DEF Enter
<1>3. CASE RecvRequest
  BY <1>3 DEF RecvRequest, TakePending, MailboxTypes
<1>4. CASE RecvError
  BY <1>4 DEF RecvError
<1>5. CASE ParseOk
  <2>1. wireIn \in Requests
    BY <1>5 DEF ParseOk
  <2> DEFINE p == ParseRequest(wireIn, arena)
  <2>2. p.arena \in Arenas /\ p.op \in OpCodes
    BY <1>5, <2>1, ParsedArena DEF ParseOk
  <2>3. [p.arena EXCEPT !.op = p.op] \in Arenas
    BY <2>2 DEF Arenas
  <2> QED
    BY <1>5, <2>3 DEF ParseOk
<1>6. CASE ParseError
  <2>1. wireIn \in Requests
    BY <1>6 DEF ParseError
  <2>2. ParseRequest(wireIn, arena).arena \in Arenas
    BY <2>1, ParsedArena
  <2>3. ParseRequest(wireIn, arena).err \in IpcErrors
    BY <1>6, ParseErrorCode DEF ParseError
  <2> QED
    BY <1>6, <2>2, <2>3, WriteErrorType DEF ParseError, HeaderType
<1>7. CASE Dispatch
  BY <1>7, DispatchType DEF Dispatch, HeaderType
<1>8. CASE SendReply
  BY <1>8 DEF SendReply, TakePending, MailboxTypes
<1>9. CASE SendLost
  BY <1>9 DEF SendLost
<1>10. CASE DropBuffers
  BY <1>10, ClearedBuffers DEF DropBuffers
<1>11. CASE UNCHANGED vars
  BY <1>11 DEF vars
<1> QED
  BY <1>1, <1>2, <1>3, <1>4, <1>5, <1>6, <1>7, <1>8, <1>9, <1>10, <1>11
     DEF Next, ServeOne

LEMMA MailboxTypesKept == TypeOK /\ [Next]_vars => MailboxTypes'
<1> SUFFICES ASSUME TypeOK, [Next]_vars PROVE MailboxTypes'
  OBVIOUS
<1> USE DEF TypeOK, MailboxTypes, daemon, transport, history
<1>1. ASSUME NEW f \in Requests, ClientSend(f) PROVE MailboxTypes'
  BY <1>1, RequestsAssumption, Sizes DEF ClientSend
<1>2. ASSUME TakePending PROVE MailboxTypes'
  BY <1>2, Sizes DEF TakePending
<1>3. CASE RecvRequest
  BY <1>3, <1>2 DEF RecvRequest
<1>4. CASE SendReply
  BY <1>4, <1>2 DEF SendReply
<1>5. CASE UNCHANGED transport
  BY <1>5
<1> QED
  BY <1>1, <1>3, <1>4, <1>5 DEF Next, ServeOne, Enter, RecvError, ParseOk,
     ParseError, Dispatch, SendLost, DropBuffers, vars

LEMMA HistoryTypesKept == TypeOK /\ [Next]_vars => HistoryTypes'
<1> SUFFICES ASSUME TypeOK, [Next]_vars PROVE HistoryTypes'
  OBVIOUS
<1> USE DEF TypeOK, HistoryTypes, InService, daemon, transport, history
<1>1. ASSUME NEW f \in Requests, ClientSend(f) PROVE HistoryTypes'
  <2>1. sent + 1 \in 0 .. MaxSends
    BY <1>1, MaxSendsAssumption DEF ClientSend
  <2> QED
    BY <1>1, <2>1 DEF ClientSend
<1>2. CASE RecvRequest
  BY <1>2, Sizes DEF RecvRequest, TakePending, MailboxTypes
<1>3. CASE SendReply
  <2>1. /\ respId' = curId /\ answered' = answered \cup {curId}
        /\ curId \in 1 .. sent /\ ~InService'
        /\ UNCHANGED <<sent, reqId, curId, discarded, failed, pipelined>>
    BY <1>3 DEF SendReply
  <2>2. CASE reqLen > 0
    <3>1. reqLen' = 0 /\ swallowed' = swallowed \cup {reqId} /\ reqId \in 1 .. sent
      BY <1>3, <2>2 DEF SendReply, TakePending
    <3> QED
      BY <2>1, <3>1
  <2>3. CASE ~(reqLen > 0)
    <3>1. UNCHANGED <<reqLen, swallowed>>
      BY <1>3, <2>3 DEF SendReply
    <3> QED
      BY <2>1, <2>3, <3>1
  <2> QED
    BY <2>2, <2>3
<1>4. CASE SendLost
  BY <1>4 DEF SendLost
<1>5. CASE UNCHANGED history /\ UNCHANGED reqLen /\ (InService' => InService)
  BY <1>5
<1> QED
  BY <1>1, <1>2, <1>3, <1>4, <1>5 DEF Next, ServeOne, Enter, RecvError, ParseOk,
     ParseError, Dispatch, DropBuffers, vars

(* Every variable keeps its type, whatever clients send, however often,    *)
(* and in all four arrangements: arena.msg_len never leaves the message    *)
(* slot and no reply is longer than a frame.                               *)
THEOREM TypeCorrect == Spec => []TypeOK
<1>1. TypeOK /\ [Next]_vars => TypeOK'
  BY BufferTypesKept, MailboxTypesKept, HistoryTypesKept DEF TypeOK
<1> QED
  BY InitType, <1>1, PTL DEF Spec

-----------------------------------------------------------------------------
(* Fates.                                                                  *)

LEMMA OneFateKept == TypeOK /\ OneFate /\ [Next]_vars => OneFate'
<1> SUFFICES ASSUME TypeOK, OneFate, [Next]_vars PROVE OneFate'
  OBVIOUS
<1> USE DEF TypeOK, MailboxTypes, HistoryTypes, OneFate
<1>1. ASSUME NEW f \in Requests, ClientSend(f) PROVE OneFate'
  <2>1. /\ sent' = sent + 1 /\ reqId' = sent + 1 /\ sent \in Nat
        /\ UNCHANGED <<answered, failed, swallowed>> /\ Serving' = Serving
        /\ reqLen' = f.size /\ f.size \in Nat
    BY <1>1, MaxSendsAssumption, RequestsAssumption
       DEF ClientSend, Serving, InService, daemon
  <2>2. 1 .. sent' = (1 .. sent) \cup {sent + 1} /\ sent + 1 \notin 1 .. sent
    BY <2>1
  <2>3. CASE f.size = 0
    <3>1. Waiting' = {} /\ discarded' = discarded \cup Waiting \cup {sent + 1}
      BY <1>1, <2>1, <2>3 DEF ClientSend, Waiting
    <3> QED
      BY <2>1, <2>2, <3>1
  <2>4. CASE f.size # 0
    <3>1. Waiting' = {sent + 1} /\ discarded' = discarded \cup Waiting
      BY <1>1, <2>1, <2>4 DEF ClientSend, Waiting
    <3> QED
      BY <2>1, <2>2, <3>1
  <2> QED
    BY <2>3, <2>4
<1>2. CASE RecvRequest
  <2>1. /\ Waiting = {reqId} /\ Serving = {}
        /\ Waiting' = {} /\ Serving' = {reqId}
    BY <1>2 DEF RecvRequest, TakePending, Waiting, Serving, InService
  <2> QED
    BY <1>2, <2>1 DEF RecvRequest
<1>3. CASE SendReply
  <2>1. /\ Serving = {curId} /\ Serving' = {} /\ Waiting' = {}
        /\ answered' = answered \cup Serving /\ swallowed' = swallowed \cup Waiting
        /\ UNCHANGED <<sent, discarded, failed>>
    BY <1>3 DEF SendReply, TakePending, Waiting, Serving, InService
  <2> QED
    BY <2>1
<1>4. CASE SendLost
  <2>1. /\ Serving = {curId} /\ Serving' = {} /\ Waiting' = Waiting
        /\ failed' = failed \cup Serving
        /\ UNCHANGED <<sent, answered, discarded, swallowed>>
    BY <1>4 DEF SendLost, Waiting, Serving, InService, transport
  <2> QED
    BY <2>1
<1>5. CASE /\ UNCHANGED <<history, transport>> /\ InService' = InService
  BY <1>5 DEF Waiting, Serving, history, transport
<1>6. CASE Enter
  BY <1>5, <1>6 DEF Enter, InService
<1>7. CASE RecvError
  BY <1>5, <1>7 DEF RecvError, InService
<1>8. CASE ParseOk
  BY <1>5, <1>8 DEF ParseOk, InService
<1>9. CASE ParseError
  BY <1>5, <1>9 DEF ParseError, InService
<1>10. CASE Dispatch
  BY <1>5, <1>10 DEF Dispatch, InService
<1>11. CASE DropBuffers
  BY <1>5, <1>11 DEF DropBuffers, InService
<1>12. CASE UNCHANGED vars
  BY <1>5, <1>12 DEF vars, daemon, InService
<1> QED
  BY <1>1, <1>2, <1>3, <1>4, <1>6, <1>7, <1>8, <1>9, <1>10, <1>11, <1>12
     DEF Next, ServeOne

(* Every client_send has exactly one fate: whatever clients do, and even   *)
(* on an endpoint that fails or hands over requests at any time, none is   *)
(* served twice and none is unaccounted for.                               *)
THEOREM ExactlyOneFate == Spec => []OneFate
<1>1. Init => OneFate
  BY DEF Init, OneFate, Waiting, Serving, InService
<1> QED
  BY <1>1, OneFateKept, TypeCorrect, PTL DEF Spec

(* A request that waits while another is in service came before the reply  *)
(* to that one: with OneFate this makes SwallowsOnlyPipelined inductive.   *)
WaitsBehind == (InService /\ reqLen > 0) => reqId \in pipelined

SwallowInv == OneFate /\ WaitsBehind /\ SwallowsOnlyPipelined

LEMMA SwallowInvKept ==
  TypeOK /\ SwallowInv /\ [Next]_vars => (WaitsBehind /\ SwallowsOnlyPipelined)'
<1> SUFFICES ASSUME TypeOK, SwallowInv, [Next]_vars
             PROVE  (WaitsBehind /\ SwallowsOnlyPipelined)'
  OBVIOUS
<1> USE DEF SwallowInv, WaitsBehind, SwallowsOnlyPipelined
<1>1. ASSUME NEW f \in Requests, ClientSend(f)
      PROVE  (WaitsBehind /\ SwallowsOnlyPipelined)'
  <2>1. /\ reqId' = sent + 1 /\ swallowed' = swallowed
        /\ pipelined \subseteq pipelined' /\ InService' = InService
    BY <1>1 DEF ClientSend, daemon, InService
  <2>2. ASSUME InService PROVE sent + 1 \in pipelined'
    <3>1. curId \in 1 .. sent /\ curId \notin answered \cup discarded
      BY <2>2 DEF OneFate, Serving
    <3> QED
      BY <1>1, <3>1 DEF ClientSend
  <2> QED
    BY <2>1, <2>2
<1>2. CASE RecvRequest
  BY <1>2 DEF RecvRequest, TakePending
<1>3. CASE SendReply
  BY <1>3 DEF SendReply, TakePending, InService
<1>4. CASE SendLost
  BY <1>4 DEF SendLost, InService
<1>5. CASE UNCHANGED <<history, transport>> /\ (InService' => InService)
  BY <1>5 DEF history, transport
<1>6. CASE Enter \/ RecvError \/ DropBuffers
  BY <1>5, <1>6 DEF Enter, RecvError, DropBuffers, InService
<1>7. CASE ParseOk \/ ParseError \/ Dispatch
  BY <1>5, <1>7 DEF ParseOk, ParseError, Dispatch, InService
<1>8. CASE UNCHANGED vars
  BY <1>5, <1>8 DEF vars, daemon, InService
<1> QED
  BY <1>1, <1>2, <1>3, <1>4, <1>6, <1>7, <1>8 DEF Next, ServeOne

(* A client that waits for each reply before it sends the next request     *)
(* never loses one to the reply's own round_trip, on any endpoint.         *)
THEOREM OnlyPipelinedSwallowed == Spec => []SwallowsOnlyPipelined
<1>1. Init => WaitsBehind /\ SwallowsOnlyPipelined
  BY DEF Init, WaitsBehind, SwallowsOnlyPipelined, InService
<1>2. TypeOK /\ OneFate /\ WaitsBehind /\ SwallowsOnlyPipelined /\ [Next]_vars
        => (WaitsBehind /\ SwallowsOnlyPipelined)'
  BY SwallowInvKept DEF SwallowInv
<1> QED
  BY <1>1, <1>2, ExactlyOneFate, TypeCorrect, PTL DEF Spec

-----------------------------------------------------------------------------
(* Residue.                                                                *)

LEMMA NoResidueKept == NoResidue /\ [Next]_vars => NoResidue'
<1> SUFFICES ASSUME NoResidue, [Next]_vars, ~CallerOwned PROVE NoResidue'
  BY DEF NoResidue
<1> USE DEF NoResidue
<1>1. ASSUME NEW f \in Requests, ClientSend(f) PROVE NoResidue'
  BY <1>1 DEF ClientSend, daemon
<1>2. CASE Enter
  BY <1>2 DEF Enter
<1>3. CASE RecvRequest
  BY <1>3 DEF RecvRequest
<1>4. CASE RecvError \/ SendReply \/ SendLost
  BY <1>4 DEF RecvError, SendReply, SendLost
<1>5. CASE ParseOk
  BY <1>5 DEF ParseOk
<1>6. CASE ParseError
  <2>1. ParseRequest(wireIn, arena).arena = arena
    BY <1>6 DEF ParseError, ParseRequest
  <2> QED
    BY <1>6, <2>1 DEF ParseError
<1>7. CASE Dispatch
  BY <1>7 DEF Dispatch
<1>8. CASE DropBuffers
  BY <1>8 DEF DropBuffers
<1>9. CASE UNCHANGED vars
  BY <1>9 DEF vars, daemon
<1> QED
  BY <1>1, <1>2, <1>3, <1>4, <1>5, <1>6, <1>7, <1>8, <1>9 DEF Next, ServeOne

(* DMN-03 for every request: between two calls of serve_one nothing of any *)
(* request is left, and within one the arena is that of its own request.   *)
THEOREM NothingLeftBehind == Spec => []NoResidue
<1>1. Init => NoResidue
  BY DEF Init, NoResidue
<1> QED
  BY <1>1, NoResidueKept, PTL DEF Spec

-----------------------------------------------------------------------------
(* The refinement of SignService, whose instance here has a copy of the    *)
(* codec's definitions of its own.                                         *)
LEMMA ServiceCodec ==
  /\ \A c, n : Service!HeaderBytes(c, n) = HeaderBytes(c, n)
  /\ \A m, n : Service!FromLe16(m, n) = FromLe16(m, n)
  /\ Service!OpCodes = OpCodes /\ Service!MAX_PAYLOAD = MAX_PAYLOAD
  /\ Service!HEADER_LEN = HEADER_LEN
  /\ Service!TruncatedFrame = TruncatedFrame /\ Service!MagicMismatch = MagicMismatch
  /\ Service!VersionMismatch = VersionMismatch /\ Service!UnknownOp = UnknownOp
  /\ Service!AlgorithmNotImplemented = AlgorithmNotImplemented
  /\ Service!PayloadTooLong = PayloadTooLong /\ Service!MalformedRequest = MalformedRequest
  /\ Service!SignKeygenEd25519 = SignKeygenEd25519
  /\ Service!SignEd25519 = SignEd25519 /\ Service!VerifyEd25519 = VerifyEd25519
<1>1. \A c, n : Service!HeaderBytes(c, n) = HeaderBytes(c, n)
  BY DEF HeaderBytes, Service!HeaderBytes, Service!MAGIC, MAGIC, Service!VER, VER,
         Service!LoByte, LoByte, Service!HiByte, HiByte
<1>2. \A m, n : Service!FromLe16(m, n) = FromLe16(m, n)
  BY DEF FromLe16, Service!FromLe16
<1>3. Service!OpCodes = OpCodes
  BY DEF OpCodes, Service!OpCodes
<1>4. Service!MAX_PAYLOAD = MAX_PAYLOAD /\ Service!HEADER_LEN = HEADER_LEN
  BY DEF MAX_PAYLOAD, Service!MAX_PAYLOAD, HEADER_LEN, Service!HEADER_LEN,
         MAX_FRAME, Service!MAX_FRAME
<1>5. /\ Service!TruncatedFrame = TruncatedFrame /\ Service!MagicMismatch = MagicMismatch
      /\ Service!VersionMismatch = VersionMismatch /\ Service!UnknownOp = UnknownOp
      /\ Service!AlgorithmNotImplemented = AlgorithmNotImplemented
      /\ Service!PayloadTooLong = PayloadTooLong /\ Service!MalformedRequest = MalformedRequest
  BY DEF TruncatedFrame, MagicMismatch, VersionMismatch, UnknownOp,
         AlgorithmNotImplemented, PayloadTooLong, MalformedRequest,
         Service!TruncatedFrame, Service!MagicMismatch, Service!VersionMismatch,
         Service!UnknownOp, Service!AlgorithmNotImplemented, Service!PayloadTooLong,
         Service!MalformedRequest
<1>6. /\ Service!SignKeygenEd25519 = SignKeygenEd25519
      /\ Service!SignEd25519 = SignEd25519 /\ Service!VerifyEd25519 = VerifyEd25519
  BY DEF SignKeygenEd25519, SignEd25519, VerifyEd25519, Service!SignKeygenEd25519,
         Service!SignEd25519, Service!VerifyEd25519
<1> QED
  BY <1>1, <1>2, <1>3, <1>4, <1>5, <1>6

(* A sixteen-bit field and its two bytes determine each other.             *)
LEMMA ByteHalves ==
  ASSUME NEW lo \in Byte, NEW hi \in Byte
  PROVE  /\ FromLe16(lo, hi) \in Nat
         /\ LoByte(FromLe16(lo, hi)) = lo /\ HiByte(FromLe16(lo, hi)) = hi
  BY SMT DEF Byte, FromLe16, LoByte, HiByte

LEMMA NoUpperHalf ==
  ASSUME NEW len \in 0 .. MAX_PAYLOAD
  PROVE  LoByte(len \div 65536) = 0 /\ HiByte(len \div 65536) = 0
<1>0. len \in Nat /\ len < 65536
  BY DEF MAX_PAYLOAD, MAX_FRAME, HEADER_LEN
<1>1. len \div 65536 = 0
  BY <1>0
<1> QED
  BY <1>1, SMT DEF LoByte, HiByte

LEMMA ZeroHalves ==
  ASSUME NEW lo \in Byte, NEW hi \in Byte, ~(FromLe16(lo, hi) > 0)
  PROVE  lo = 0 /\ hi = 0
  BY SMT DEF Byte, FromLe16

(* A header that decode_header accepts is the one encode_header writes.    *)
LEMMA AcceptedHeader ==
  ASSUME NEW h \in [1 .. HEADER_LEN -> Byte], NEW size \in Nat,
         DecodeHeader(h, size).err = 0
  PROVE  LET op  == FromLe16(h[6], h[7])
             len == FromLe16(h[8], h[9])
         IN  /\ op \in OpCodes /\ len \in 0 .. MAX_PAYLOAD
             /\ size >= HEADER_LEN + len /\ h = HeaderBytes(op, len)
<1> DEFINE op  == FromLe16(h[6], h[7])
           len == FromLe16(h[8], h[9])
<1>1. /\ h[6] \in Byte /\ h[7] \in Byte /\ h[8] \in Byte
      /\ h[9] \in Byte /\ h[10] \in Byte /\ h[11] \in Byte
  BY DEF HEADER_LEN
<1>2. /\ <<h[1], h[2], h[3], h[4]>> = MAGIC /\ h[5] = VER
      /\ op \in OpCodes /\ ~(FromLe16(h[10], h[11]) > 0 \/ len > MAX_PAYLOAD)
      /\ ~(size < HEADER_LEN + len)
  BY SMT DEF DecodeHeader, Ok, Err, TruncatedFrame, MagicMismatch,
             VersionMismatch, UnknownOp, PayloadTooLong
<1>3. /\ op \in Nat /\ LoByte(op) = h[6] /\ HiByte(op) = h[7]
      /\ len \in Nat /\ LoByte(len) = h[8] /\ HiByte(len) = h[9]
  BY <1>1, ByteHalves
<1>4. h[10] = 0 /\ h[11] = 0
  BY <1>1, <1>2, ZeroHalves
<1>5. len \in 0 .. MAX_PAYLOAD
  BY <1>2, <1>3, Sizes
<1>6. size >= HEADER_LEN + len
  BY <1>2, <1>3, Sizes
<1>7. LoByte(len \div 65536) = 0 /\ HiByte(len \div 65536) = 0
  BY <1>5, NoUpperHalf
<1>8. HeaderBytes(op, len) =
        <<h[1], h[2], h[3], h[4], h[5], h[6], h[7], h[8], h[9], h[10], h[11]>>
  BY <1>2, <1>3, <1>4, <1>7 DEF HeaderBytes
<1>9. h = <<h[1], h[2], h[3], h[4], h[5], h[6], h[7], h[8], h[9], h[10], h[11]>>
  BY SMT DEF HEADER_LEN
<1> QED
  BY <1>2, <1>5, <1>6, <1>8, <1>9

(* decode_header accepts exactly the headers the service calls well formed,*)
(* and reads in them what the service reads.                               *)
LEMMA WellFormedDecodes ==
  ASSUME NEW f, f.hdr \in [1 .. HEADER_LEN -> Byte], f.size \in Nat
  PROVE  LET h == DecodeHeader(f.hdr, f.size)
         IN  /\ h.err = 0 <=> Service!WellFormedHeader(f)
             /\ h.err = 0 => h.op = Service!OpOf(f) /\ h.len = Service!LenOf(f)
                             /\ h.op \in OpCodes /\ h.len \in 0 .. MAX_PAYLOAD
<1> DEFINE op  == FromLe16(f.hdr[6], f.hdr[7])
           len == FromLe16(f.hdr[8], f.hdr[9])
           h   == DecodeHeader(f.hdr, f.size)
<1>1. Service!OpOf(f) = op /\ Service!LenOf(f) = len
  BY ServiceCodec DEF Service!OpOf, Service!LenOf
<1>2. Service!WellFormedHeader(f) <=>
        /\ f.size >= HEADER_LEN /\ op \in OpCodes /\ len <= MAX_PAYLOAD
        /\ f.hdr = HeaderBytes(op, len) /\ f.size >= HEADER_LEN + len
  BY <1>1, ServiceCodec DEF Service!WellFormedHeader
<1>3. len \in Nat
  <2>1. f.hdr[8] \in Byte /\ f.hdr[9] \in Byte
    BY DEF HEADER_LEN
  <2> QED
    BY <2>1, ByteHalves
<1>4. ASSUME h.err = 0
      PROVE  /\ op \in OpCodes /\ len \in 0 .. MAX_PAYLOAD
             /\ f.size >= HEADER_LEN + len /\ f.hdr = HeaderBytes(op, len)
  BY <1>4, AcceptedHeader
<1>5. ASSUME op \in OpCodes, len <= MAX_PAYLOAD, f.hdr = HeaderBytes(op, len),
             f.size >= HEADER_LEN + len
      PROVE  h = Ok(op, len)
  <2>1. len \in 0 .. MAX_PAYLOAD
    BY <1>3, <1>5, Sizes
  <2> HIDE DEF op, len
  <2>2. DecodeHeader(HeaderBytes(op, len), f.size) = Ok(op, len)
    BY <1>5, <2>1, DecodeEncode
  <2> QED
    BY <1>5, <2>2
<1>6. h.err = 0 => Service!WellFormedHeader(f)
  BY <1>2, <1>3, <1>4, Sizes
<1>7. Service!WellFormedHeader(f) => h = Ok(op, len)
  BY <1>2, <1>5
<1>8. h.err = 0 => h.op = op /\ h.len = len
  BY <1>6, <1>7 DEF Ok
<1> QED
  BY <1>1, <1>4, <1>6, <1>7, <1>8 DEF Ok

(* What a reply carries: the cells of the output buffer up to its length.  *)
LEMMA Cells ==
  ASSUME NEW x, NEW y
  PROVE  /\ SubSeq(<<x, y>>, 1, 2) = <<x, y>>
         /\ SubSeq(<<x, y>>, 1, 1) = <<x>>
<1> DEFINE q == <<x, y>>
<1>1. q \in Seq({x, y}) /\ Len(q) = 2 /\ q[1] = x /\ q[2] = y
  OBVIOUS
<1>2. ASSUME NEW T, NEW r \in Seq(T), Len(r) = 2 PROVE r = <<r[1], r[2]>>
  BY <1>2
<1>3. ASSUME NEW T, NEW r \in Seq(T), Len(r) = 1 PROVE r = <<r[1]>>
  BY <1>3
<1> HIDE DEF q
<1>4. /\ SubSeq(q, 1, 2) \in Seq({x, y}) /\ Len(SubSeq(q, 1, 2)) = 2
      /\ SubSeq(q, 1, 2)[1] = q[1] /\ SubSeq(q, 1, 2)[2] = q[2]
  BY <1>1
<1>5. /\ SubSeq(q, 1, 1) \in Seq({x, y}) /\ Len(SubSeq(q, 1, 1)) = 1
      /\ SubSeq(q, 1, 1)[1] = q[1]
  BY <1>1
<1> QED
  BY <1>1, <1>2, <1>3, <1>4, <1>5 DEF q

(* An error frame is a bare header and what write_error sends; a reply of  *)
(* two cells or of one is what write_reply sends, and nothing that was in  *)
(* the buffer before shows in it.                                          *)
LEMMA ErrorSlice ==
  ASSUME NEW out, NEW e
  PROVE  LET r == WriteError(out, e)
         IN  OutSlice(r.out, r.n)
               = [hdr |-> HeaderBytes(e, 0), size |-> HEADER_LEN, body |-> <<>>]
<1>1. ~(HEADER_LEN > HEADER_LEN + 32) /\ ~(HEADER_LEN > HEADER_LEN)
  BY Sizes
<1>2. SubSeq(out.body, 1, 0) = <<>>
  OBVIOUS
<1> QED
  BY <1>1, <1>2 DEF WriteError, OutSlice, EncodeError

LEMMA ErrorAnswer ==
  ASSUME NEW out, NEW e, NEW errors, e \in errors
  PROVE  LET r == WriteError(out, e)
         IN  OutSlice(r.out, r.n) \in Service!ErrorReplies(errors)
<1>1. HEADER_LEN + 0 = HEADER_LEN
  BY Sizes
<1>2. Service!Reply(e, 0, <<>>)
        = [hdr |-> HeaderBytes(e, 0), size |-> HEADER_LEN, body |-> <<>>]
  BY <1>1, ServiceCodec DEF Service!Reply
<1> QED
  BY <1>2, ErrorSlice DEF Service!ErrorReplies

LEMMA ReplyTwo ==
  ASSUME NEW out, NEW op, NEW x, NEW y
  PROVE  LET r == WriteReply(out, op, 64, <<x, y>>)
         IN  OutSlice(r.out, r.n) = Service!Reply(op, 64, <<x, y>>)
<1>1. EncodeHeader(MAX_FRAME, op, 64) = [err |-> 0, hdr |-> HeaderBytes(op, 64)]
  BY DEF EncodeHeader, MAX_FRAME, MAX_PAYLOAD, HEADER_LEN
<1>2. HEADER_LEN + 64 > HEADER_LEN + 32
  BY Sizes
<1> DEFINE body == [i \in 1 .. 2 |-> IF i <= Len(<<x, y>>) THEN <<x, y>>[i]
                                                        ELSE out.body[i]]
<1>3. body = <<x, y>>
  OBVIOUS
<1>4. WriteReply(out, op, 64, <<x, y>>)
        = [out |-> [hdr |-> HeaderBytes(op, 64), body |-> body], n |-> HEADER_LEN + 64]
  BY <1>1 DEF WriteReply
<1> HIDE DEF body
<1>5. SubSeq(body, 1, 2) = <<x, y>>
  BY <1>3, Cells
<1>6. OutSlice([hdr |-> HeaderBytes(op, 64), body |-> body], HEADER_LEN + 64)
        = [hdr |-> HeaderBytes(op, 64), size |-> HEADER_LEN + 64, body |-> <<x, y>>]
  BY <1>2, <1>5 DEF OutSlice
<1> QED
  BY <1>4, <1>6, ServiceCodec DEF Service!Reply

LEMMA ReplyOne ==
  ASSUME NEW out, NEW op, NEW x
  PROVE  LET r == WriteReply(out, op, 1, <<x>>)
         IN  OutSlice(r.out, r.n) = Service!Reply(op, 1, <<x>>)
<1>1. EncodeHeader(MAX_FRAME, op, 1) = [err |-> 0, hdr |-> HeaderBytes(op, 1)]
  BY DEF EncodeHeader, MAX_FRAME, MAX_PAYLOAD, HEADER_LEN
<1>2. ~(HEADER_LEN + 1 > HEADER_LEN + 32) /\ HEADER_LEN + 1 > HEADER_LEN
  BY Sizes
<1> DEFINE body == [i \in 1 .. 2 |-> IF i <= Len(<<x>>) THEN <<x>>[i]
                                                     ELSE out.body[i]]
<1>3. body = <<x, body[2]>>
  OBVIOUS
<1>4. WriteReply(out, op, 1, <<x>>)
        = [out |-> [hdr |-> HeaderBytes(op, 1), body |-> body], n |-> HEADER_LEN + 1]
  BY <1>1 DEF WriteReply
<1> HIDE DEF body
<1>5. SubSeq(body, 1, 1) = <<x>>
  BY <1>3, Cells
<1>6. OutSlice([hdr |-> HeaderBytes(op, 1), body |-> body], HEADER_LEN + 1)
        = [hdr |-> HeaderBytes(op, 1), size |-> HEADER_LEN + 1, body |-> <<x>>]
  BY <1>2, <1>5 DEF OutSlice
<1> QED
  BY <1>4, <1>6, ServiceCodec DEF Service!Reply

(* The checks of parse_request on a frame whose header is accepted.        *)
LEMMA PayloadCases ==
  ASSUME NEW op, NEW len \in Nat, NEW b, b.mlen \in Nat
  PROVE  LET e == PayloadError(op, len, b)
         IN  /\ e \in {0, MalformedRequest, PayloadTooLong}
             /\ e = 0 <=>
                  \/ op \notin {SignKeygenEd25519, SignEd25519, VerifyEd25519}
                  \/ op = SignKeygenEd25519 /\ len = 32
                  \/ op = SignEd25519 /\ b.mlen <= 1024 /\ len = 32 + 2 + b.mlen
                  \/ op = VerifyEd25519 /\ b.mlen <= 1024 /\ len = 32 + 64 + 2 + b.mlen
<1> DEFINE e == PayloadError(op, len, b)
<1>1. MalformedRequest # 0 /\ PayloadTooLong # 0
  BY IpcErrorsListed
<1>2. CASE op = SignKeygenEd25519
  <2>1. e = IF len # 32 THEN MalformedRequest ELSE 0
    BY <1>2, OpsDiffer DEF PayloadError
  <2> QED
    BY <1>1, <1>2, <2>1, OpsDiffer
<1>3. CASE op = SignEd25519
  <2>1. e = IF len < 32 + 2 THEN MalformedRequest
            ELSE IF b.mlen > 1024 THEN PayloadTooLong
            ELSE IF len # 32 + 2 + b.mlen THEN MalformedRequest ELSE 0
    BY <1>3, OpsDiffer DEF PayloadError, MSG_LEN
  <2> QED
    BY <1>1, <1>3, <2>1, OpsDiffer
<1>4. CASE op = VerifyEd25519
  <2>1. e = IF len < 32 + 64 + 2 THEN MalformedRequest
            ELSE IF b.mlen > 1024 THEN PayloadTooLong
            ELSE IF len # 32 + 64 + 2 + b.mlen THEN MalformedRequest ELSE 0
    BY <1>4, OpsDiffer DEF PayloadError, MSG_LEN
  <2> QED
    BY <1>1, <1>4, <2>1, OpsDiffer
<1>5. CASE op \notin {SignKeygenEd25519, SignEd25519, VerifyEd25519}
  <2>1. e = 0
    BY <1>5 DEF PayloadError
  <2> QED
    BY <1>5, <2>1
<1> QED
  BY <1>2, <1>3, <1>4, <1>5

(* They are the service's definition of a request it can carry out.        *)
LEMMA PayloadAccepted ==
  ASSUME NEW f, f.body.mlen \in Nat, Service!LenOf(f) \in Nat
  PROVE  LET e == PayloadError(Service!OpOf(f), Service!LenOf(f), f.body)
         IN  /\ e \in {0, MalformedRequest, PayloadTooLong}
             /\ e = 0 <=> \/ ~Service!Implemented(f)
                          \/ Service!KeygenRequest(f)
                          \/ Service!SignRequest(f)
                          \/ Service!VerifyRequest(f)
  BY PayloadCases, ServiceCodec DEF Service!Implemented, Service!KeygenRequest,
     Service!SignRequest, Service!VerifyRequest

(* A request that parse_request refuses is answered by its error frame.    *)
LEMMA RefusedAnswer ==
  ASSUME NEW f \in Requests, NEW a, ParseRequest(f, a).err # 0, NEW out
  PROVE  LET r == WriteError(out, ParseRequest(f, a).err)
         IN  OutSlice(r.out, r.n) \in Service!Answers(f)
<1> DEFINE h == DecodeHeader(f.hdr, f.size)
           e == ParseRequest(f, a).err
<1>1. f.hdr \in [1 .. HEADER_LEN -> Byte] /\ f.size \in Nat /\ f.body.mlen \in Nat
  BY RequestsAssumption, Zenon
<1>2. e = IF h.err # 0 THEN h.err ELSE PayloadError(h.op, h.len, f.body)
  BY DEF ParseRequest
<1>3. CASE h.err # 0
  <2>1. ~Service!WellFormedHeader(f)
    BY <1>1, <1>3, WellFormedDecodes
  <2>2. h.err \in {TruncatedFrame, MagicMismatch, VersionMismatch, UnknownOp,
                   PayloadTooLong}
    BY <1>3, SMT DEF DecodeHeader, Ok, Err
  <2>3. Service!Answers(f) = Service!ErrorReplies({TruncatedFrame, MagicMismatch,
                               VersionMismatch, UnknownOp, PayloadTooLong})
    BY <2>1, ServiceCodec DEF Service!Answers
  <2> QED
    BY <1>2, <1>3, <2>2, <2>3, ErrorAnswer
<1>4. CASE h.err = 0
  <2>1. /\ Service!WellFormedHeader(f) /\ h.op = Service!OpOf(f)
        /\ h.len = Service!LenOf(f) /\ h.len \in Nat
    BY <1>1, <1>4, WellFormedDecodes
  <2>2. /\ Service!Implemented(f) /\ ~Service!KeygenRequest(f)
        /\ ~Service!SignRequest(f) /\ ~Service!VerifyRequest(f)
        /\ e \in {MalformedRequest, PayloadTooLong}
    BY <1>1, <1>2, <1>4, <2>1, PayloadAccepted
  <2>3. Service!Answers(f) = Service!ErrorReplies({MalformedRequest, PayloadTooLong})
    BY <2>1, <2>2, ServiceCodec DEF Service!Answers
  <2> QED
    BY <2>2, <2>3, ErrorAnswer
<1> QED
  BY <1>3, <1>4

(* The arena between parse_request and dispatch: whatever it held before,  *)
(* it now holds the fields of f that the dispatcher of its operation reads.*)
Parsed(f, a) ==
  /\ ParseRequest(f, a).err = 0 /\ a.op = ParseRequest(f, a).op
  /\ a.op \in {SignKeygenEd25519, SignEd25519} => a.sk = f.body.k
  /\ a.op = VerifyEd25519 => a.pk = f.body.k /\ a.sig = f.body.sig
  /\ a.op \in {SignEd25519, VerifyEd25519} =>
       a.msg = <<f.body.tag, f.body.mlen>> /\ a.msg_len = f.body.mlen

(* parse_request leaves the arena so, whatever an earlier request left.    *)
LEMMA ParseStores ==
  ASSUME NEW f \in Requests, NEW a \in Arenas, ParseRequest(f, a).err = 0
  PROVE  Parsed(f, [ParseRequest(f, a).arena EXCEPT !.op = ParseRequest(f, a).op])
<1> DEFINE p == ParseRequest(f, a)
           b == f.body
           n == [p.arena EXCEPT !.op = p.op]
<1>1. p.arena = StoreRequest(a, p.op, b) /\ p.arena \in Arenas /\ p.op \in OpCodes
  BY ParsedArena DEF ParseRequest
<1>2. n.op = p.op /\ n.sk = p.arena.sk /\ n.pk = p.arena.pk /\ n.sig = p.arena.sig
      /\ n.msg = p.arena.msg /\ n.msg_len = p.arena.msg_len
  BY <1>1 DEF Arenas
<1>3. ParseRequest(f, n).err = 0 /\ ParseRequest(f, n).op = p.op
  BY DEF ParseRequest
<1> HIDE DEF n, p, b
<1>4. CASE p.op = SignKeygenEd25519
  <2>1. p.arena = [a EXCEPT !.sk = b.k]
    BY <1>1, <1>4, OpsDiffer DEF StoreRequest
  <2>2. p.arena.sk = b.k
    BY <2>1 DEF Arenas
  <2> QED
    BY <1>2, <1>3, <1>4, <2>2, OpsDiffer DEF Parsed, n, p, b
<1>5. CASE p.op = SignEd25519
  <2>1. p.arena = [a EXCEPT !.sk = b.k, !.msg_len = b.mlen, !.msg = <<b.tag, b.mlen>>]
    BY <1>1, <1>5, OpsDiffer DEF StoreRequest
  <2>2. /\ p.arena.sk = b.k /\ p.arena.msg_len = b.mlen
        /\ p.arena.msg = <<b.tag, b.mlen>>
    BY <2>1 DEF Arenas
  <2> QED
    BY <1>2, <1>3, <1>5, <2>2, OpsDiffer DEF Parsed, n, p, b
<1>6. CASE p.op = VerifyEd25519
  <2>1. p.arena = [a EXCEPT !.pk = b.k, !.sig = b.sig, !.msg_len = b.mlen,
                            !.msg = <<b.tag, b.mlen>>]
    BY <1>1, <1>6, OpsDiffer DEF StoreRequest
  <2>2. /\ p.arena.pk = b.k /\ p.arena.sig = b.sig /\ p.arena.msg_len = b.mlen
        /\ p.arena.msg = <<b.tag, b.mlen>>
    BY <2>1 DEF Arenas
  <2> QED
    BY <1>2, <1>3, <1>6, <2>2, OpsDiffer DEF Parsed, n, p, b
<1>7. CASE p.op \notin {SignKeygenEd25519, SignEd25519, VerifyEd25519}
  BY <1>2, <1>3, <1>7 DEF Parsed, n, p, b
<1> QED
  BY <1>4, <1>5, <1>6, <1>7

(* Whatever was in the arena and the output buffer before, dispatch answers*)
(* the request that was parsed.                                            *)
LEMMA DispatchAnswer ==
  ASSUME NEW f \in Requests, NEW a, Parsed(f, a), NEW out
  PROVE  LET r == DispatchOp(a.op, a, out)
         IN  OutSlice(r.out, r.n) \in Service!Answers(f)
<1> DEFINE h == DecodeHeader(f.hdr, f.size)
           m == Service!Message(f)
<1>1. f.hdr \in [1 .. HEADER_LEN -> Byte] /\ f.size \in Nat /\ f.body.mlen \in Nat
  BY RequestsAssumption, Zenon
<1>2. h.err = 0 /\ PayloadError(h.op, h.len, f.body) = 0 /\ a.op = h.op
  BY DEF Parsed, ParseRequest
<1>3. /\ Service!WellFormedHeader(f) /\ a.op = Service!OpOf(f)
      /\ h.len = Service!LenOf(f) /\ h.len \in Nat
  BY <1>1, <1>2, WellFormedDecodes
<1>4. \/ ~Service!Implemented(f) \/ Service!KeygenRequest(f)
      \/ Service!SignRequest(f) \/ Service!VerifyRequest(f)
  BY <1>1, <1>2, <1>3, PayloadAccepted
<1>5. m = <<f.body.tag, f.body.mlen>>
  BY DEF Service!Message
<1>6. a.op \in {SignEd25519, VerifyEd25519} => ArenaMessage(a) = m
  BY <1>5 DEF Parsed, ArenaMessage
<1>7. CASE ~Service!Implemented(f)
  <2>1. a.op \notin {SignKeygenEd25519, SignEd25519, VerifyEd25519}
    BY <1>3, <1>7, ServiceCodec DEF Service!Implemented
  <2>2. DispatchOp(a.op, a, out) = WriteError(out, AlgorithmNotImplemented)
    BY <2>1 DEF DispatchOp
  <2>3. Service!Answers(f) = Service!ErrorReplies({AlgorithmNotImplemented})
    BY <1>3, <1>7, ServiceCodec DEF Service!Answers
  <2> QED
    BY <2>2, <2>3, ErrorAnswer
<1>8. CASE Service!KeygenRequest(f)
  <2>1. a.op = SignKeygenEd25519 /\ a.sk = f.body.k /\ Service!Implemented(f)
    BY <1>3, <1>8, ServiceCodec DEF Service!KeygenRequest, Service!Implemented, Parsed
  <2> DEFINE pub == PublicFromSecret(f.body.k)
  <2>2. DispatchOp(a.op, a, out) = WriteReply(out, SignKeygenEd25519, 64, <<pub, f.body.k>>)
    BY <2>1, OpsDiffer DEF DispatchOp, DispatchKeygen
  <2>3. Service!PublicFromSecret(f.body.k) = pub
    BY DEF Service!PublicFromSecret, PublicFromSecret
  <2>4. Service!Answers(f) = {Service!Reply(SignKeygenEd25519, 64, <<pub, f.body.k>>)}
    BY <1>3, <1>8, <2>1, <2>3, ServiceCodec DEF Service!Answers
  <2> DEFINE r == WriteReply(out, SignKeygenEd25519, 64, <<pub, f.body.k>>)
  <2>5. OutSlice(r.out, r.n) = Service!Reply(SignKeygenEd25519, 64, <<pub, f.body.k>>)
    BY ReplyTwo
  <2> QED
    BY <2>2, <2>4, <2>5
<1>9. CASE Service!SignRequest(f)
  <2>1. /\ a.op = SignEd25519 /\ a.sk = f.body.k /\ Service!Implemented(f)
        /\ ~Service!KeygenRequest(f)
        /\ a.msg_len = f.body.mlen /\ f.body.mlen <= 1024
    BY <1>3, <1>9, ServiceCodec, OpsDiffer
       DEF Service!SignRequest, Service!KeygenRequest, Service!Implemented, Parsed
  <2> DEFINE sig == Sign(m, f.body.k)
  <2>2. ~(a.msg_len > MSG_LEN)
    BY <1>1, <2>1 DEF MSG_LEN
  <2>3. DispatchOp(a.op, a, out)
          = WriteReply(out, SignEd25519, 64, <<<<"R", sig>>, <<"s", sig>>>>)
    BY <1>6, <2>1, <2>2, OpsDiffer DEF DispatchOp, DispatchSign
  <2>4. Service!Sign(m, f.body.k) = sig
    BY DEF Service!Sign, Sign
  <2>5. Service!Answers(f)
          = {Service!Reply(SignEd25519, 64, <<<<"R", sig>>, <<"s", sig>>>>)}
    BY <1>3, <1>9, <2>1, <2>4, ServiceCodec DEF Service!Answers
  <2> DEFINE cells == <<<<"R", sig>>, <<"s", sig>>>>
             r     == WriteReply(out, SignEd25519, 64, cells)
  <2>6. OutSlice(r.out, r.n) = Service!Reply(SignEd25519, 64, cells)
    BY ReplyTwo
  <2> QED
    BY <2>3, <2>5, <2>6
<1>10. CASE Service!VerifyRequest(f)
  <2>1. /\ a.op = VerifyEd25519 /\ a.pk = f.body.k /\ a.sig = f.body.sig
        /\ Service!Implemented(f) /\ ~Service!KeygenRequest(f)
        /\ ~Service!SignRequest(f)
        /\ a.msg_len = f.body.mlen /\ f.body.mlen <= 1024
    BY <1>3, <1>10, ServiceCodec, OpsDiffer
       DEF Service!VerifyRequest, Service!SignRequest, Service!KeygenRequest,
           Service!Implemented, Parsed
  <2> DEFINE ok == Verify(m, f.body.sig, f.body.k)
  <2>2. a.msg_len <= MSG_LEN
    BY <2>1 DEF MSG_LEN
  <2>3. DispatchOp(a.op, a, out)
          = WriteReply(out, VerifyEd25519, 1, <<VerifyByte(ok)>>)
    BY <1>6, <2>1, <2>2, OpsDiffer DEF DispatchOp, DispatchVerify, VerifyByte
  <2>4. Service!Verify(m, f.body.sig, f.body.k) <=> ok
    BY DEF Service!Verify, Verify, Sign,
       PublicFromSecret, Service!Sign, Service!PublicFromSecret
  <2>5. Service!Answers(f) = {Service!Reply(VerifyEd25519, 1, <<VerifyByte(ok)>>)}
    BY <1>3, <1>10, <2>1, <2>4, ServiceCodec DEF Service!Answers, VerifyByte
  <2> DEFINE r == WriteReply(out, VerifyEd25519, 1, <<VerifyByte(ok)>>)
  <2>6. OutSlice(r.out, r.n) = Service!Reply(VerifyEd25519, 1, <<VerifyByte(ok)>>)
    BY ReplyOne
  <2> QED
    BY <2>3, <2>5, <2>6
<1> QED
  BY <1>4, <1>7, <1>8, <1>9, <1>10

-----------------------------------------------------------------------------
(* The invariant of the refinement.  On the mock no request can wait while *)
(* one is in service; the arena holds what was parsed from the request in  *)
(* service; and the reply that is about to be sent answers that request.   *)
Ready ==
  /\ MockBorrow /\ InService => reqLen = 0
  /\ pc = "dispatch" => Parsed(wireIn, arena)
  /\ pc = "reply" => OutSlice(wireOut, nout) \in Service!Answers(wireIn)

LEMMA ReadyKept == TypeOK /\ Ready /\ [Next]_vars => Ready'
<1> SUFFICES ASSUME TypeOK, Ready, [Next]_vars PROVE Ready'
  OBVIOUS
<1> USE DEF Ready
<1>1. ASSUME NEW f \in Requests, ClientSend(f) PROVE Ready'
  BY <1>1 DEF ClientSend, daemon, InService
<1>2. CASE Enter
  BY <1>2 DEF Enter, InService
<1>3. CASE RecvRequest
  BY <1>3 DEF RecvRequest, TakePending, InService
<1>4. CASE RecvError \/ SendReply \/ SendLost \/ DropBuffers
  BY <1>4 DEF RecvError, SendReply, SendLost, DropBuffers, InService
<1>5. CASE ParseOk
  <2>1. wireIn \in Requests /\ arena \in Arenas
    BY <1>5 DEF ParseOk, TypeOK, BufferTypes, InService
  <2>2. Parsed(wireIn, arena')
    BY <1>5, <2>1, ParseStores DEF ParseOk
  <2>3. pc = "parse" /\ pc' = "dispatch" /\ UNCHANGED <<wireIn, transport>>
    BY <1>5 DEF ParseOk
  <2> QED
    BY <2>2, <2>3 DEF InService, transport
<1>6. CASE ParseError
  <2>1. wireIn \in Requests
    BY <1>6 DEF ParseError, TypeOK, BufferTypes, InService
  <2>2. OutSlice(wireOut', nout') \in Service!Answers(wireIn)
    BY <1>6, <2>1, RefusedAnswer DEF ParseError
  <2>3. pc = "parse" /\ pc' = "reply" /\ UNCHANGED <<wireIn, transport>>
    BY <1>6 DEF ParseError
  <2> QED
    BY <2>2, <2>3 DEF InService, transport
<1>7. CASE Dispatch
  <2>1. wireIn \in Requests
    BY <1>7 DEF Dispatch, TypeOK, BufferTypes, InService
  <2>2. OutSlice(wireOut', nout') \in Service!Answers(wireIn)
    BY <1>7, <2>1, DispatchAnswer DEF Dispatch
  <2>3. pc = "dispatch" /\ pc' = "reply" /\ UNCHANGED <<wireIn, transport>>
    BY <1>7 DEF Dispatch
  <2> QED
    BY <2>2, <2>3 DEF InService, transport
<1>8. CASE UNCHANGED vars
  BY <1>8 DEF vars, daemon, transport, InService
<1> QED
  BY <1>1, <1>2, <1>3, <1>4, <1>5, <1>6, <1>7, <1>8 DEF Next, ServeOne

(* Every step is one of the service's, or changes nothing that it shows.   *)
LEMMA StepRefines ==
  TypeOK /\ Ready /\ [Next]_vars => [Service!Next]_(Service!svars)
<1> DEFINE inbox   == IF reqLen > 0 THEN req ELSE NoFrame
           current == IF InService THEN wireIn ELSE NoFrame
<1> SUFFICES ASSUME TypeOK, Ready, [Next]_vars
             PROVE  Service!Next \/ UNCHANGED <<inbox, current, resp>>
  BY DEF Service!svars
<1>1. ASSUME NEW f \in Requests, ClientSend(f) PROVE Service!Submit
  <2>1. f.size \in Nat
    BY RequestsAssumption, Zenon
  <2>2. /\ inbox' = IF f.size = 0 THEN NoFrame ELSE f
        /\ UNCHANGED <<current, resp>>
    BY <1>1, <2>1 DEF ClientSend, daemon, InService
  <2> QED
    BY <2>2 DEF Service!Submit
<1>2. CASE RecvRequest
  <2>1. /\ inbox = req /\ req \in Requests /\ current = NoFrame
        /\ inbox' = NoFrame /\ current' = req /\ UNCHANGED resp
    BY <1>2, Sizes DEF RecvRequest, TakePending, InService, TypeOK, MailboxTypes
  <2>2. Service!Take
    BY <2>1, NoFrameAssumption DEF Service!Take
  <2> QED
    BY <2>2 DEF Service!Next
<1>3. CASE SendReply
  <2>1. /\ current = wireIn /\ wireIn \in Requests /\ current' = NoFrame
        /\ resp' \in Service!Answers(wireIn)
    BY <1>3 DEF SendReply, InService, TypeOK, BufferTypes, Ready
  <2>2. CASE reqLen > 0
    <3>1. ~MockBorrow /\ inbox' = NoFrame
      BY <1>3, <2>2 DEF SendReply, TakePending, Ready, InService
    <3>2. Service!Answer
      BY <2>1, <3>1, NoFrameAssumption DEF Service!Answer
    <3> QED
      BY <3>2 DEF Service!Next
  <2>3. CASE ~(reqLen > 0)
    <3>1. inbox' = inbox
      BY <1>3, <2>3 DEF SendReply
    <3>2. Service!Answer
      BY <2>1, <3>1, NoFrameAssumption DEF Service!Answer
    <3> QED
      BY <3>2 DEF Service!Next
  <2> QED
    BY <2>2, <2>3
<1>4. CASE SendLost
  <2>1. ~MockBorrow /\ current' = NoFrame /\ UNCHANGED <<inbox, resp>>
    BY <1>4 DEF SendLost, InService, transport
  <2>2. Service!Lose
    BY <2>1 DEF Service!Lose
  <2> QED
    BY <2>2 DEF Service!Next
<1>5. CASE Enter \/ RecvError \/ DropBuffers
  BY <1>5 DEF Enter, RecvError, DropBuffers, InService, transport
<1>6. CASE ParseOk \/ ParseError \/ Dispatch
  BY <1>6 DEF ParseOk, ParseError, Dispatch, InService, transport
<1>7. CASE UNCHANGED vars
  BY <1>7 DEF vars, daemon, transport, InService
<1> HIDE DEF inbox, current
<1>8. ASSUME NEW f \in Requests, ClientSend(f) PROVE Service!Next
  BY <1>1, <1>8 DEF Service!Next
<1> QED
  BY <1>2, <1>3, <1>4, <1>5, <1>6, <1>7, <1>8 DEF Next, ServeOne

LEMMA ReadyInitially == Init => Ready /\ Service!Init
<1> SUFFICES ASSUME Init PROVE Ready /\ Service!Init
  OBVIOUS
<1>1. pc = "idle" /\ reqLen = 0 /\ resp = NoFrame
  BY DEF Init
<1> QED
  BY <1>1 DEF Ready, InService, Service!Init

(* The daemon implements the service: whatever clients send and in every   *)
(* arrangement, a reply in the mailbox is an answer to a request that was  *)
(* taken out of it, computed from that request's own bytes, even when the  *)
(* buffers still hold the last one's.  On the mock no request is lost.     *)
THEOREM DaemonImplementsService == Spec => ImplementsService
<1>1. Init => TypeOK /\ Ready /\ Service!Init
  BY InitType, ReadyInitially
<1>2. TypeOK /\ Ready /\ [Next]_vars => (TypeOK /\ Ready)'
  BY ReadyKept, BufferTypesKept, MailboxTypesKept, HistoryTypesKept DEF TypeOK
<1> QED
  BY <1>1, <1>2, StepRefines, PTL DEF Spec, ImplementsService, Service!Spec

(* An answer decodes as a reply to the operation, or as an unknown one.    *)
LEMMA AnswerReadable ==
  ASSUME NEW f \in Requests, NEW r \in Service!Answers(f)
  PROVE  LET h == DecodeHeader(r.hdr, r.size)
         IN \/ h.err = 0 /\ h.op = DecodeHeader(f.hdr, f.size).op
            \/ h.err = UnknownOp /\ r.size = HEADER_LEN
<1> DEFINE h == DecodeHeader(r.hdr, r.size)
<1>1. ASSUME NEW errors, errors \subseteq IpcErrors, r \in Service!ErrorReplies(errors)
      PROVE  h.err = UnknownOp /\ r.size = HEADER_LEN
  <2>1. PICK e \in errors : r = Service!Reply(e, 0, <<>>)
    BY <1>1 DEF Service!ErrorReplies
  <2>2. r.hdr = EncodeError(e) /\ r.size = HEADER_LEN
    BY <2>1, ServiceCodec, Sizes DEF Service!Reply, EncodeError
  <2>3. h = Err(UnknownOp)
    BY <1>1, <2>2, ErrorFrameUnknown
  <2> QED
    BY <2>2, <2>3 DEF Err
<1>2. ASSUME NEW op \in OpCodes, NEW len \in {1, 64}, NEW cells,
             r = Service!Reply(op, len, cells)
      PROVE  h.err = 0 /\ h.op = op
  <2>1. r.hdr = HeaderBytes(op, len) /\ r.size = HEADER_LEN + len
    BY <1>2, ServiceCodec DEF Service!Reply
  <2>2. len \in 0 .. MAX_PAYLOAD /\ HEADER_LEN + len \in Nat
    BY DEF MAX_PAYLOAD, MAX_FRAME, HEADER_LEN
  <2>3. HEADER_LEN + len >= HEADER_LEN + len
    BY <2>2
  <2>4. h = Ok(op, len)
    BY <2>1, <2>2, <2>3, DecodeEncode
  <2> QED
    BY <2>4 DEF Ok
<1>3. CASE Service!WellFormedHeader(f) /\ Service!Implemented(f)
           /\ (Service!KeygenRequest(f) \/ Service!SignRequest(f) \/ Service!VerifyRequest(f))
  <2>1. f.hdr \in [1 .. HEADER_LEN -> Byte] /\ f.size \in Nat
    BY RequestsAssumption, Zenon
  <2>2. DecodeHeader(f.hdr, f.size).op = Service!OpOf(f)
    BY <1>3, <2>1, WellFormedDecodes
  <2>3. \E len \in {1, 64} : \E cells : r = Service!Reply(Service!OpOf(f), len, cells)
    <3>1. CASE Service!KeygenRequest(f)
      BY <1>3, <3>1, ServiceCodec DEF Service!Answers, Service!KeygenRequest
    <3>2. CASE ~Service!KeygenRequest(f) /\ Service!SignRequest(f)
      BY <1>3, <3>2, ServiceCodec DEF Service!Answers, Service!SignRequest
    <3>3. CASE ~Service!KeygenRequest(f) /\ ~Service!SignRequest(f) /\ Service!VerifyRequest(f)
      BY <1>3, <3>3, ServiceCodec DEF Service!Answers, Service!VerifyRequest
    <3> QED
      BY <1>3, <3>1, <3>2, <3>3
  <2>4. Service!OpOf(f) \in OpCodes
    BY <1>3, ServiceCodec DEF Service!WellFormedHeader
  <2> QED
    BY <1>2, <2>2, <2>3, <2>4
<1>4. CASE ~(Service!WellFormedHeader(f) /\ Service!Implemented(f)
             /\ (Service!KeygenRequest(f) \/ Service!SignRequest(f) \/ Service!VerifyRequest(f)))
  <2>1. \E errors : errors \subseteq IpcErrors /\ r \in Service!ErrorReplies(errors)
    BY <1>4, ServiceCodec, IpcErrorsListed DEF Service!Answers
  <2> QED
    BY <1>1, <2>1
<1> QED
  BY <1>3, <1>4

LEMMA StepReadable ==
  TypeOK /\ Ready /\ [Next]_vars =>
    (resp' # resp =>
       LET h == DecodeHeader(resp'.hdr, resp'.size)
       IN \/ h.err = 0 /\ h.op = DecodeHeader(wireIn.hdr, wireIn.size).op
          \/ h.err = UnknownOp /\ resp'.size = HEADER_LEN)
<1> SUFFICES ASSUME TypeOK, Ready, [Next]_vars, resp' # resp
             PROVE  LET h == DecodeHeader(resp'.hdr, resp'.size)
                    IN \/ h.err = 0 /\ h.op = DecodeHeader(wireIn.hdr, wireIn.size).op
                       \/ h.err = UnknownOp /\ resp'.size = HEADER_LEN
  OBVIOUS
<1>1. SendReply
  BY DEF Next, ServeOne, ClientSend, Enter, RecvRequest, RecvError, ParseOk,
     ParseError, Dispatch, SendLost, DropBuffers, transport, vars
<1>2. wireIn \in Requests /\ resp' \in Service!Answers(wireIn)
  BY <1>1 DEF SendReply, InService, TypeOK, BufferTypes, Ready
<1> QED
  BY <1>2, AnswerReadable

(* Every reply that send_reply posts can be read by the codec it was made  *)
(* with: as a reply to the operation of the request in service, or as an   *)
(* error frame of exactly one header.                                      *)
THEOREM RepliesReadable == Spec => ReplyReadable
<1>1. Init => TypeOK /\ Ready
  BY InitType, ReadyInitially
<1>2. TypeOK /\ Ready /\ [Next]_vars => (TypeOK /\ Ready)'
  BY ReadyKept, BufferTypesKept, MailboxTypesKept, HistoryTypesKept DEF TypeOK
<1> QED
  BY <1>1, <1>2, StepReadable, PTL DEF Spec, ReplyReadable
=============================================================================
