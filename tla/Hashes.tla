------------------------------- MODULE Hashes -------------------------------
(***************************************************************************)
(* The hash functions side by side: the sponge of SHA-3 and SHAKE,         *)
(* BLAKE2b, BLAKE3, and blake2b_long.  They share no state: a caller works *)
(* with one of them, chosen at the start, and the others stand still.      *)
(***************************************************************************)
EXTENDS Blake2bLong

CONSTANTS
  RATE, LANE, DOMAINS, FixedLens, XofLens,      \* of SHA3 (WORD: LANE)
  SpongeLens, SpongeMax,                        \* its messages
  BLOCK, MAXHASH, COUNT, HashLens, KeyLens,  \* of Blake2b
  Blake2Lens, Blake2Max,
  BLOCK_LEN, WORD, BLOCKS, DEPTH, TREE_MAXOUT, TreeOutLens,     \* of Blake3
  TreeLens, TreeMax

VARIABLES
  object,       \* the one in use: "sha3", "blake2b", "blake3", "long"
  s_pc, s_domain, s_absorbed, s_perms, s_buffer, s_buffer_len, s_rest, s_given,
  s_word_idx, s_output_len, s_out,
  b_pc, b_params, b_h, b_t, b_buf, b_buf_len, b_rest, b_given, b_digest,
  c_pc, c_key_words, c_flags, c_cv_stack, c_chaining_value, c_chunk_counter,
  c_buf, c_buf_len, c_blocks_compressed, c_rest, c_part, c_output,
  c_parent_nodes, c_out_len, c_out, c_given

Sponge == INSTANCE SHA3 WITH
  WORD <- LANE, ChunkLens <- SpongeLens, MaxMessage <- SpongeMax,
  pc <- s_pc, domain <- s_domain, absorbed <- s_absorbed, perms <- s_perms,
  buffer <- s_buffer, buffer_len <- s_buffer_len, rest <- s_rest,
  given <- s_given, word_idx <- s_word_idx, output_len <- s_output_len,
  out <- s_out

Blake2 == INSTANCE Blake2b WITH
  WORD <- COUNT, ChunkLens <- Blake2Lens, MaxMessage <- Blake2Max,
  pc <- b_pc, params <- b_params, h <- b_h, t <- b_t, buf <- b_buf,
  buf_len <- b_buf_len, rest <- b_rest, given <- b_given, digest <- b_digest

Tree == INSTANCE Blake3 WITH
  MAXOUT <- TREE_MAXOUT, ChunkLens <- TreeLens, OutLens <- TreeOutLens,
  MaxMessage <- TreeMax,
  pc <- c_pc, key_words <- c_key_words, flags <- c_flags,
  cv_stack <- c_cv_stack, chaining_value <- c_chaining_value,
  chunk_counter <- c_chunk_counter, buf <- c_buf, buf_len <- c_buf_len,
  blocks_compressed <- c_blocks_compressed, rest <- c_rest, part <- c_part,
  output <- c_output, parent_nodes <- c_parent_nodes, out_len <- c_out_len,
  out <- c_out, given <- c_given

ASSUME HashesAssumption ==
  Sponge!SHA3Assumption /\ Blake2!Blake2bAssumption /\ Tree!Blake3Assumption

sponge == <<s_pc, s_domain, s_absorbed, s_perms, s_buffer, s_buffer_len, s_rest,
            s_given, s_word_idx, s_output_len, s_out>>
blake2 == <<b_pc, b_params, b_h, b_t, b_buf, b_buf_len, b_rest, b_given, b_digest>>
tree   == <<c_pc, c_key_words, c_flags, c_cv_stack, c_chaining_value,
            c_chunk_counter, c_buf, c_buf_len, c_blocks_compressed, c_rest,
            c_part, c_output, c_parent_nodes, c_out_len, c_out, c_given>>
allVars == <<object, vars, sponge, blake2, tree>>

HashesInit ==
  /\ object \in {"sha3", "blake2b", "blake3", "long"}
  /\ Init /\ Sponge!Init /\ Blake2!Init /\ Tree!Init

HashesNext ==
  \/ object = "sha3" /\ Sponge!Next /\ UNCHANGED <<object, vars, blake2, tree>>
  \/ object = "blake2b" /\ Blake2!Next /\ UNCHANGED <<object, vars, sponge, tree>>
  \/ object = "blake3" /\ Tree!Next /\ UNCHANGED <<object, vars, sponge, blake2>>
  \/ object = "long" /\ Next /\ UNCHANGED <<object, sponge, blake2, tree>>

(* A call that has begun runs on.                                          *)
HashesSpec ==
  /\ HashesInit /\ [][HashesNext]_allVars
  /\ WF_sponge(Sponge!Running) /\ WF_blake2(Blake2!Running)
  /\ WF_tree(Tree!Running) /\ WF_vars(HalfDigest \/ LastDigest)

-----------------------------------------------------------------------------
(* BLAKE2b: no slice of a message loses a byte or has the last block       *)
(* compressed, and the digest is RFC 7693's, of key block and message.     *)
DigestOfMessage ==
  Blake2!Blake2bTypeOK /\ Blake2!NoByteLost /\ Blake2!DigestOfMessage

(* BLAKE3: between merges the stack is the binary expansion of the number  *)
(* of chunks, the root is that of the tree over the whole message, and     *)
(* only a message of more than 2 ^ DEPTH chunks panics.                    *)
RootIsTree ==
  Tree!Blake3TypeOK /\ Tree!StackIsForest /\ Tree!RootIsTree /\ Tree!DepthSuffices

(* SHA3: no slice of a message loses a byte, what is squeezed is the state *)
(* of the padded message, and the output is the rate of one state after    *)
(* the other; BLAKE3: the output is the stream of the root's blocks.       *)
OutputIsStream ==
  /\ Sponge!SHA3TypeOK /\ Sponge!NoByteLost
  /\ Sponge!AbsorbsMessage /\ Sponge!SqueezesRate
  /\ Tree!OutputIsStream

(* BLAKE3: no length of output is an error, as finalize_xof's              *)
(* documentation has it.                                                   *)
XofUnlimited == Tree!XofUnlimited

(* Every call of update, finalize, squeeze_into and blake2b_long returns.  *)
CallsReturn ==
  Sponge!CallsReturn /\ Blake2!UpdateReturns /\ Tree!CallsReturn /\ LongReturns
=============================================================================
