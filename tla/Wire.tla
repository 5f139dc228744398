-------------------------------- MODULE Wire --------------------------------
(***************************************************************************)
(* The IPC wire codec (elib-k0-ipc/src/wire.rs, op.rs, error.rs), and the  *)
(* ed25519 crate as both ends of the wire see it.                          *)
(*                                                                         *)
(* A frame keeps the eleven header bytes as bytes, because the order and   *)
(* the width of the header checks are what this codec is about; what       *)
(* follows them is one abstract `body`.  `size` is the number of bytes in  *)
(* the slice: frame.get(a..b) succeeds exactly when size >= b, and header  *)
(* bytes at or past `size` are never looked at.                            *)
(***************************************************************************)
EXTENDS Integers, Sequences

CONSTANT Seeds      \* 32-byte strings used as Ed25519 seeds

Byte == 0 .. 255

HEADER_LEN  == 4 + 1 + 2 + 4
MAX_FRAME   == 16384
MAX_PAYLOAD == MAX_FRAME - HEADER_LEN

(* u32 0xE11BC0DE in little-endian order, and the protocol version.        *)
MAGIC == <<222, 192, 27, 225>>
VER   == 1

(* The 33 operation codes: families 0x10 0x11 0x12 (five algorithms each)  *)
(* and 0x20 0x21 0x22 (six each), the algorithm in the low byte.           *)
OpCodes == {family * 256 + alg : family \in 16 .. 18, alg \in 1 .. 5}
             \cup {family * 256 + alg : family \in 32 .. 34, alg \in 1 .. 6}

SignKeygenEd25519 == 16 * 256 + 1
SignEd25519       == 17 * 256 + 1
VerifyEd25519     == 18 * 256 + 1

TruncatedFrame          == 193 * 256 + 1
MagicMismatch           == 193 * 256 + 2
VersionMismatch         == 193 * 256 + 3
UnknownOp               == 193 * 256 + 4
AlgorithmNotImplemented == 193 * 256 + 5
PayloadTooLong          == 193 * 256 + 6
MalformedRequest        == 193 * 256 + 7
TransportError          == 193 * 256 + 8
IpcErrors == TruncatedFrame .. TransportError

(* Result<T, IpcError> of the two functions that return a header.          *)
Ok(op, len) == [err |-> 0, op |-> op, len |-> len]
Err(e)      == [err |-> e, op |-> 0, len |-> 0]

(* to_le_bytes / from_le_bytes.  The length field is read as two 16-bit    *)
(* halves: a header is only accepted when the upper half is zero.          *)
LoByte(n)      == n % 256
HiByte(n)      == (n \div 256) % 256
FromLe16(a, b) == a + 256 * b

(* The eleven bytes encode_header and encode_error write.                  *)
HeaderBytes(code, len) ==
  <<MAGIC[1], MAGIC[2], MAGIC[3], MAGIC[4], VER, LoByte(code), HiByte(code),
    LoByte(len), HiByte(len), LoByte(len \div 65536), HiByte(len \div 65536)>>

(* The checks of decode_header, in the order in which it makes them.       *)
DecodeHeader(hdr, size) ==
  LET op    == FromLe16(hdr[6], hdr[7])
      lenLo == FromLe16(hdr[8], hdr[9])
      lenHi == FromLe16(hdr[10], hdr[11])
  IN IF      size < 4                          THEN Err(TruncatedFrame)
     ELSE IF <<hdr[1], hdr[2], hdr[3], hdr[4]>> # MAGIC
                                               THEN Err(MagicMismatch)
     ELSE IF size < 5                          THEN Err(TruncatedFrame)
     ELSE IF hdr[5] # VER                      THEN Err(VersionMismatch)
     ELSE IF size < 7                          THEN Err(TruncatedFrame)
     ELSE IF op \notin OpCodes                 THEN Err(UnknownOp)
     ELSE IF size < HEADER_LEN                 THEN Err(TruncatedFrame)
     ELSE IF lenHi > 0 \/ lenLo > MAX_PAYLOAD  THEN Err(PayloadTooLong)
     ELSE IF size < HEADER_LEN + lenLo         THEN Err(TruncatedFrame)
     ELSE Ok(op, lenLo)

(* encode_header: the header for `op` and `len` payload bytes, in a buffer *)
(* of `cap` bytes, or the refusal; encode_error: the eleven bytes of an    *)
(* error frame, whose op field holds the error code.                       *)
EncodeHeader(cap, op, len) ==
  IF len > MAX_PAYLOAD \/ cap < HEADER_LEN + len
    THEN [err |-> PayloadTooLong, hdr |-> <<>>]
    ELSE [err |-> 0, hdr |-> HeaderBytes(op, len)]

EncodeError(e) == HeaderBytes(e, 0)

-----------------------------------------------------------------------------
(* Key derivation and signing are functions of their inputs (RFC 8032 is   *)
(* deterministic), and a signature verifies exactly under the key and the  *)
(* message it was made for.  The curve arithmetic behind them is Ed25519's.*)
PublicFromSecret(seed) == <<"pk", seed>>
Sign(message, seed)    == <<"sig", seed, message>>

(* verify(...).is_ok(): undecodable keys and points, non-canonical scalars *)
(* and failed equations are all the same refusal to the daemon.            *)
Verify(message, signature, public) ==
  \E seed \in Seeds : /\ public = PublicFromSecret(seed)
                      /\ signature = Sign(message, seed)
=============================================================================
