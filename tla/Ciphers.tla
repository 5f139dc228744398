------------------------------ MODULE Ciphers -------------------------------
(***************************************************************************)
(* The symmetric ciphers: ChaCha20's key stream object, and beside it      *)
(* Poly1305, the two AEADs, against IdealAead, and the modes of AES.       *)
(* They share no state: a caller works with one of them, chosen at the     *)
(* start.                                                                  *)
(*                                                                         *)
(* The key stream object (chacha20/src/chacha20.rs), which the crate also  *)
(* offers by itself, is a counter from which every call takes its blocks.  *)
(* Which block a byte comes from is the subject here; data is not.         *)
(***************************************************************************)
EXTENDS AeadData

CONSTANTS
  STREAM,       \* bytes of a block (64)
  COUNTERS,     \* values of the counter, a u32 (2^32)
  Starts,       \* counters new_with_counter is called with
  DataLens,     \* lengths of the data of apply_keystream
  MaxUsed       \* bound on the blocks taken from an object

ASSUME ChaCha20Assumption ==
  /\ STREAM \in Nat \ {0} /\ COUNTERS \in Nat /\ COUNTERS > 1
  /\ Starts \subseteq 0 .. COUNTERS - 1
  /\ DataLens \subseteq Nat /\ MaxUsed \in Nat

VARIABLES
  pc,           \* "none", "open", "applying"
  counter,
  length, offset,       \* of apply_keystream
  used,         \* history: the counters of the blocks taken, in order
  masks,        \* history: for each byte of the data [counter, byte]
  rewound       \* history: generate_poly1305_key came after another block

vars == <<pc, counter, length, offset, used, masks, rewound>>

-----------------------------------------------------------------------------
(* wrapping_add                                                            *)
Succ(c) == (c + 1) % COUNTERS

Init == /\ pc = "none" /\ counter = 0 /\ length = 0 /\ offset = 0
        /\ used = <<>> /\ masks = <<>> /\ rewound = FALSE

(* new, which starts at 0, and new_with_counter; an object may be dropped  *)
(* after any call.                                                         *)
New(start) ==
  /\ pc \in {"none", "open"} /\ pc' = "open"
  /\ counter' = start /\ length' = 0 /\ offset' = 0
  /\ used' = <<>> /\ masks' = <<>> /\ rewound' = FALSE

keystream_block ==
  /\ pc = "open" /\ Len(used) < MaxUsed
  /\ used' = Append(used, counter) /\ counter' = Succ(counter)
  /\ masks' = <<>>
  /\ UNCHANGED <<pc, length, offset, rewound>>

apply_keystream(n) ==
  /\ pc = "open" /\ Len(used) + (n + STREAM - 1) \div STREAM <= MaxUsed
  /\ pc' = "applying" /\ length' = n /\ offset' = 0 /\ masks' = <<>>
  /\ UNCHANGED <<counter, used, rewound>>

ToProcess == IF length - offset <= STREAM THEN length - offset ELSE STREAM

(* An iteration of apply_keystream.                                        *)
ApplyBlock ==
  /\ pc = "applying" /\ offset < length
  /\ used' = Append(used, counter) /\ counter' = Succ(counter)
  /\ masks' = masks \o [i \in 1 .. ToProcess |-> [counter |-> counter, byte |-> i]]
  /\ offset' = offset + ToProcess
  /\ UNCHANGED <<pc, length, rewound>>

ApplyReturn ==
  /\ pc = "applying" /\ offset >= length /\ pc' = "open"
  /\ UNCHANGED <<counter, length, offset, used, masks, rewound>>

(* Mutant: the counter is left behind the key's block.                     *)
generate_poly1305_key_stays ==
  /\ pc = "open" /\ Len(used) < MaxUsed
  /\ used' = Append(used, 0) /\ counter' = counter
  /\ rewound' = (rewound \/ used # <<>>)
  /\ masks' = <<>>
  /\ UNCHANGED <<pc, length, offset>>

generate_poly1305_key ==
  /\ pc = "open" /\ Len(used) < MaxUsed
  /\ used' = Append(used, 0) /\ counter' = 1
  /\ rewound' = (rewound \/ used # <<>>)
  /\ masks' = <<>>
  /\ UNCHANGED <<pc, length, offset>>

Next ==
  \/ \E start \in {0} \cup Starts : New(start)
  \/ keystream_block \/ (\E n \in DataLens : apply_keystream(n))
  \/ ApplyBlock \/ ApplyReturn \/ generate_poly1305_key

Spec == Init /\ [][Next]_vars

-----------------------------------------------------------------------------
(* As long as the object has given out no more blocks than the counter has *)
(* values, and the authenticator's key was not taken after another block,  *)
(* which sets the counter back, no block is given out twice, whatever      *)
(* calls are made in what order.                                           *)
NoBlockTwice ==
  Len(used) <= COUNTERS /\ ~ rewound =>
    \A i, j \in 1 .. Len(used) : i # j => used[i] # used[j]

(* apply_keystream masks each byte of its data once, with the bytes of     *)
(* successive blocks in their order; it starts a block of its own: what    *)
(* the call before left of its last block is not used.                     *)
MasksInOrder ==
  pc = "applying" /\ offset >= length =>
    LET blocks == (length + STREAM - 1) \div STREAM
    IN /\ Len(masks) = length /\ blocks <= Len(used)
       /\ \A i \in 1 .. length :
            masks[i] =
              [counter |-> used[Len(used) - blocks + ((i - 1) \div STREAM) + 1],
               byte    |-> ((i - 1) % STREAM) + 1]

-----------------------------------------------------------------------------
(* All of them.                                                            *)
CONSTANTS
  MACBLOCK,             \* bytes of a block of Poly1305 (16)
  SliceLens, MaxMessage,        \* of Poly1305's messages
  BLOCK,                \* bytes of a block of AES (16)
  GCM_COUNTERS,         \* values of GCM's counter (2^32)
  CTR_COUNTERS,         \* and of CTR's
  Nonces,
  Aads, Plaintexts, Rooms, MaxSent,             \* of the AEADs
  InitialCounters, ModeTexts, ModeRooms         \* of CTR and CBC

VARIABLES
  object,       \* "chacha20", "poly1305", "chacha20poly1305", "aes256gcm",
                \* "modes"
  p_pc, p_h, p_buffer, p_buffer_len, p_length, p_offset, p_given, p_tag,
  a_sent, a_last,
  m_made, m_read, m_chunk, m_prev

chacha20 == vars
poly1305 == <<p_pc, p_h, p_buffer, p_buffer_len, p_length, p_offset, p_given,
              p_tag>>
aead     == <<a_sent, a_last>>
modes    == <<m_made, m_read, m_chunk, m_prev>>

Poly == INSTANCE Poly1305 WITH
  BLOCK <- MACBLOCK, ChunkLens <- SliceLens,
  pc <- p_pc, h <- p_h, buffer <- p_buffer, buffer_len <- p_buffer_len,
  length <- p_length, offset <- p_offset, given <- p_given, tag <- p_tag

ChaCha == INSTANCE ChaChaPoly WITH sent <- a_sent, last <- a_last

Aes == INSTANCE AesGcm WITH
  COUNTERS <- GCM_COUNTERS, sent <- a_sent, last <- a_last

Modes == INSTANCE AesModes WITH
  COUNTERS <- CTR_COUNTERS, Counters <- InitialCounters,
  Texts <- ModeTexts, Rooms <- ModeRooms,
  made <- m_made, read <- m_read, chunk <- m_chunk, prev <- m_prev

Messages == [nonce : Nonces, aad : Aads, pt : Plaintexts]

Ideal == INSTANCE IdealAead WITH
  sealed   <- SealedMessages(a_sent),
  request  <- RequestOf(a_sent, a_last),
  answer   <- AnswerOf(a_last)

ASSUME CiphersAssumption ==
  /\ Poly!Poly1305Assumption /\ ChaCha!ChaChaPolyAssumption
  /\ Aes!AesGcmAssumption /\ Modes!AesModesAssumption

-----------------------------------------------------------------------------
CiphersInit ==
  /\ object \in {"chacha20", "poly1305", "chacha20poly1305", "aes256gcm", "modes"}
  /\ Init /\ Poly!Init /\ Modes!ModesInit
  /\ \/ object # "aes256gcm" /\ ChaCha!Init
     \/ object = "aes256gcm" /\ Aes!Init

CiphersNext ==
  /\ UNCHANGED object
  /\ \/ /\ object = "chacha20" /\ Next
        /\ UNCHANGED <<poly1305, aead, modes>>
     \/ /\ object = "poly1305" /\ Poly!Next
        /\ UNCHANGED <<chacha20, aead, modes>>
     \/ /\ object = "chacha20poly1305" /\ ChaCha!Next
        /\ UNCHANGED <<chacha20, poly1305, modes>>
     \/ /\ object = "aes256gcm" /\ Aes!Next
        /\ UNCHANGED <<chacha20, poly1305, modes>>
     \/ /\ object = "modes" /\ Modes!ModesNext
        /\ UNCHANGED <<chacha20, poly1305, aead>>

ciphers == <<object, chacha20, poly1305, aead, modes>>

CiphersSpec == CiphersInit /\ [][CiphersNext]_ciphers

-----------------------------------------------------------------------------
(* Poly1305: no slice of a message loses a byte or overfills the buffer,   *)
(* and the tag is over the whole blocks of the message and the marked rest.*)
TagOfMessage == Poly!Poly1305TypeOK /\ Poly!NoByteLost /\ Poly!TagOfMessage

(* A packet opens exactly if it is one that was sealed, whatever became of *)
(* it on its way, and to what was sealed (both AEADs).                     *)
ImplementsIdeal == Ideal!Spec

(* What the caller's buffer holds after a call, if it fails and if not:    *)
(* the AEADs leave it as it was or write all, CTR all, and CBC, without an *)
(* error, the whole blocks there is room for, chained as in SP 800-38A;    *)
(* nothing behind what is written changes.                                 *)
BuffersKept ==
  /\ object = "chacha20poly1305" => ChaCha!BuffersKept
  /\ object = "aes256gcm" => Aes!BuffersKept
  /\ Modes!WritesPrefix

(* Within one packet, or text, no part of the key stream is used twice,    *)
(* nor is it used for anything but data; a call of apply_keystream uses    *)
(* blocks of its own, in their order.                                      *)
KeystreamOnce ==
  /\ MasksInOrder
  /\ object = "chacha20poly1305" => ChaCha!KeystreamOnce
  /\ object = "aes256gcm" => Aes!KeystreamOnce
  /\ Modes!StreamOnce

(* CTR and CBC give back what was encrypted, and with another initial      *)
(* block lose what their chaining makes them lose and no more.             *)
ReadsBack == Modes!ReadsBack
=============================================================================
