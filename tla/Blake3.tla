------------------------------- MODULE Blake3 -------------------------------
(***************************************************************************)
(* BLAKE3 (blake/src/blake3.rs): chunks of blocks, hashed into chaining    *)
(* values that are merged into a binary tree on a stack, whose length the  *)
(* number of chunks' one bits give.                                        *)
(*                                                                         *)
(* The compression function is taken to be injective: a chaining value is  *)
(* the tuple of all its inputs, a tree.  Message bytes are numbered, from  *)
(* 256 on; the IV, a key and zero words are three values of their own that *)
(* no compression gives.                                                   *)
(***************************************************************************)
EXTENDS Integers, Sequences

CONSTANTS
  BLOCK_LEN,    \* bytes of a block (64), also of a block of output
  WORD,         \* bytes of a word (4)
  BLOCKS,       \* blocks of a chunk (16)
  DEPTH,        \* entries of cv_stack (54)
  MAXOUT,       \* MAX_OUTPUT_LEN of SecureBuffer (1024)
  ChunkLens,    \* lengths of the slices update is called with
  OutLens,      \* out_len arguments of finalize_xof
  MaxMessage    \* bound on the bytes of a message

Blake3Assumption ==
  /\ WORD \in Nat \ {0} /\ BLOCK_LEN \in Nat /\ BLOCK_LEN % WORD = 0
  /\ WORD <= BLOCK_LEN
  /\ BLOCKS \in Nat \ {0} /\ DEPTH \in Nat \ {0} /\ MAXOUT \in Nat
  /\ \A e \in 1 .. DEPTH : 2 ^ e = 2 * 2 ^ (e - 1)
  /\ ChunkLens \subseteq Nat /\ OutLens \subseteq Nat /\ MaxMessage \in Nat

CHUNK_LEN == BLOCKS * BLOCK_LEN

VARIABLES
  pc,           \* "none", "open", "updating", "merging", "chunk", "folding",
                \* "xof", "done", "error", "panic"
  key_words,    \* IV, Key, or, after zeroize, ZeroWords
  flags,        \* {} or {"KEYED_HASH"}
  cv_stack,
  (* The ChunkState.                                                       *)
  chaining_value, chunk_counter, buf, buf_len, blocks_compressed,
  (* Blake3::update's input.len(), and ChunkState::update's.               *)
  rest, part,
  (* finalize_xof: the node, the stack entries left, the output asked for  *)
  (* and given out, its bytes as [counter, byte].                          *)
  output, parent_nodes, out_len, out,
  given         \* history: number of bytes of the message so far

chunk_state == <<chaining_value, chunk_counter, buf, buf_len, blocks_compressed>>
final == <<output, parent_nodes, out_len, out>>
keys == <<key_words, flags>>
vars == <<pc, keys, cv_stack, chunk_state, rest, part, final, given>>

-----------------------------------------------------------------------------
MessageByte(i) == 255 + i
ZeroBlock == [j \in 1 .. BLOCK_LEN |-> 0]
LesserOf(a, b) == IF a <= b THEN a ELSE b
CeilDiv(a, b)  == (a + b - 1) \div b

IV == <<0>>
Key == <<1>>
ZeroWords == <<2>>

Compress(cv, words, counter, len, fl) == <<fl, counter, len, cv, words>>

(* An Output: a node whose last compression is still to be made.           *)
Node(cv, words, counter, len, fl) ==
  [cv |-> cv, words |-> words, counter |-> counter, len |-> len, flags |-> fl]
NoNode == Node(<<>>, <<>>, 0, 0, {})
ChainingValue(o) == Compress(o.cv, o.words, o.counter, o.len, o.flags)

ParentOutput(left, right, key, fl) ==
  Node(key, <<left, right>>, 0, BLOCK_LEN, fl \cup {"PARENT"})

count_ones[n \in Nat] == IF n = 0 THEN 0 ELSE (n % 2) + count_ones[n \div 2]

-----------------------------------------------------------------------------
ChunkLength == BLOCK_LEN * blocks_compressed + buf_len

StartFlag == IF blocks_compressed = 0 THEN {"CHUNK_START"} ELSE {}

(* ChunkState::new                                                         *)
FreshChunk(counter, key) ==
  /\ chaining_value' = key /\ chunk_counter' = counter
  /\ buf' = ZeroBlock /\ buf_len' = 0 /\ blocks_compressed' = 0

(* ChunkState::output: whole words behind the last byte are cleared.       *)
ChunkOutput ==
  LET used == CeilDiv(buf_len, WORD) * WORD
  IN Node(chaining_value,
          [j \in 1 .. BLOCK_LEN |-> IF j <= used THEN buf[j] ELSE 0],
          chunk_counter, buf_len, flags \cup StartFlag \cup {"CHUNK_END"})

Init ==
  /\ pc = "none" /\ key_words = ZeroWords /\ flags = {} /\ cv_stack = <<>>
  /\ chaining_value = ZeroWords /\ chunk_counter = 0
  /\ buf = ZeroBlock /\ buf_len = 0 /\ blocks_compressed = 0
  /\ rest = 0 /\ part = 0 /\ given = 0
  /\ output = NoNode /\ parent_nodes = 0 /\ out_len = 0 /\ out = <<>>

(* new, new_keyed                                                          *)
New(key, fl) ==
  /\ pc \in {"none", "done", "error", "panic"} /\ pc' = "open"
  /\ key_words' = key /\ flags' = fl
  /\ cv_stack' = <<>> /\ FreshChunk(0, key)
  /\ rest' = 0 /\ part' = 0 /\ given' = 0
  /\ output' = NoNode /\ parent_nodes' = 0 /\ out_len' = 0 /\ out' = <<>>

Update(n) ==
  /\ pc = "open" /\ given + n <= MaxMessage
  /\ pc' = "updating" /\ rest' = n /\ given' = given + n
  /\ UNCHANGED <<keys, cv_stack, chunk_state, part, final>>

(* Mutant: a chunk is closed as soon as it is full.                        *)
MustPushEager == ChunkLength = CHUNK_LEN

(* Mutant: no chunk is ever closed.                                        *)
MustPushNever == FALSE

MustPush == ChunkLength = CHUNK_LEN /\ rest > 0

(* push_cv of a chunk that is not the last one; it panics at the limit.    *)
PushChunk ==
  /\ pc = "updating" /\ MustPush
  /\ IF Len(cv_stack) < DEPTH
       THEN /\ cv_stack' = Append(cv_stack, ChainingValue(ChunkOutput))
            /\ pc' = "merging"
       ELSE pc' = "panic" /\ UNCHANGED cv_stack
  /\ UNCHANGED <<keys, chunk_state, rest, part, final, given>>

PostMergeLen == count_ones[chunk_counter + 1]

(* An iteration of merge_cv_stack.                                         *)
Merge ==
  LET n == Len(cv_stack)
  IN /\ pc = "merging" /\ n > PostMergeLen
     /\ cv_stack' = Append(SubSeq(cv_stack, 1, n - 2),
          ChainingValue(ParentOutput(cv_stack[n - 1], cv_stack[n], key_words, flags)))
     /\ UNCHANGED <<pc, keys, chunk_state, rest, part, final, given>>

NextChunk ==
  /\ pc = "merging" /\ Len(cv_stack) <= PostMergeLen
  /\ FreshChunk(chunk_counter + 1, key_words)
  /\ pc' = "updating"
  /\ UNCHANGED <<keys, cv_stack, rest, part, final, given>>

(* ChunkState::update is given what the chunk has room for.                *)
Part == LesserOf(CHUNK_LEN - ChunkLength, rest)

FeedChunk ==
  /\ pc = "updating" /\ ~ MustPush /\ rest > 0
  /\ part' = Part
  /\ pc' = "chunk"
  /\ UNCHANGED <<keys, cv_stack, chunk_state, rest, final, given>>

CompressBlock ==
  /\ pc = "chunk" /\ part > 0 /\ buf_len = BLOCK_LEN
  /\ chaining_value' = Compress(chaining_value, buf, chunk_counter, BLOCK_LEN,
                                flags \cup StartFlag)
  /\ blocks_compressed' = blocks_compressed + 1
  /\ buf' = ZeroBlock /\ buf_len' = 0
  /\ UNCHANGED <<pc, keys, cv_stack, chunk_counter, rest, part, final, given>>

CopyBytes ==
  LET take == LesserOf(BLOCK_LEN - buf_len, part)
  IN /\ pc = "chunk" /\ part > 0 /\ buf_len < BLOCK_LEN
     /\ buf' = [j \in 1 .. BLOCK_LEN |->
                  IF j \in buf_len + 1 .. buf_len + take
                    THEN MessageByte(given - rest + (j - buf_len)) ELSE buf[j]]
     /\ buf_len' = buf_len + take
     /\ part' = part - take /\ rest' = rest - take
     /\ UNCHANGED <<pc, keys, cv_stack, chaining_value, chunk_counter,
                    blocks_compressed, final, given>>

ChunkReturn ==
  /\ pc = "chunk" /\ part = 0 /\ pc' = "updating"
  /\ UNCHANGED <<keys, cv_stack, chunk_state, rest, part, final, given>>

UpdateReturn ==
  /\ pc = "updating" /\ ~ MustPush /\ rest = 0 /\ pc' = "open"
  /\ UNCHANGED <<keys, cv_stack, chunk_state, rest, part, final, given>>

-----------------------------------------------------------------------------
(* finalize_xof(n); finalize is the one of 32 bytes.                       *)
Finalize(n) ==
  /\ pc = "open" /\ pc' = "folding"
  /\ output' = ChunkOutput /\ parent_nodes' = Len(cv_stack) /\ out_len' = n
  /\ UNCHANGED <<keys, cv_stack, chunk_state, rest, part, out, given>>

FoldParent ==
  /\ pc = "folding" /\ parent_nodes > 0
  /\ parent_nodes' = parent_nodes - 1
  /\ output' = ParentOutput(cv_stack[parent_nodes], ChainingValue(output),
                          key_words, flags)
  /\ UNCHANGED <<pc, keys, cv_stack, chunk_state, rest, part, out_len, out, given>>

(* zeroize: what is left is a state of zero words, that can be used.       *)
Zeroed == /\ key_words' = ZeroWords /\ flags' = {}
          /\ cv_stack' = <<>> /\ FreshChunk(0, ZeroWords)

(* new_owned; if it fails self is dropped, and wiped.                      *)
AllocateOutput ==
  /\ pc = "folding" /\ parent_nodes = 0
  /\ IF out_len > MAXOUT THEN pc' = "error" /\ Zeroed
     ELSE pc' = "xof" /\ UNCHANGED <<keys, cv_stack, chunk_state>>
  /\ UNCHANGED <<rest, part, final, given>>

(* Mutant: every block of output is the first one.                         *)
BlockCounterStuck == 0

(* The counter of root_output_bytes, one up with each block.               *)
BlockCounter == CeilDiv(Len(out), BLOCK_LEN)

(* An iteration of root_output_bytes; its word loop stops at out's end.    *)
OutputBlock ==
  LET take == LesserOf(BLOCK_LEN, out_len - Len(out))
  IN /\ pc = "xof" /\ Len(out) < out_len
     /\ out' = out \o [j \in 1 .. take |-> [counter |-> BlockCounter, byte |-> j]]
     /\ UNCHANGED <<pc, keys, cv_stack, chunk_state, rest, part, output,
                    parent_nodes, out_len, given>>

Wipe ==
  /\ pc = "open" /\ Zeroed /\ given' = 0
  /\ UNCHANGED <<pc, rest, part, final>>

(* self is dropped, and wiped.                                             *)
FinalizeReturn ==
  /\ pc = "xof" /\ Len(out) >= out_len /\ pc' = "done" /\ Zeroed
  /\ UNCHANGED <<rest, part, final, given>>

Next ==
  \/ New(IV, {}) \/ New(Key, {"KEYED_HASH"}) \/ Wipe
  \/ \E n \in ChunkLens : Update(n)
  \/ PushChunk \/ Merge \/ NextChunk \/ FeedChunk
  \/ CompressBlock \/ CopyBytes \/ ChunkReturn \/ UpdateReturn
  \/ \E n \in OutLens : Finalize(n)
  \/ FoldParent \/ AllocateOutput \/ OutputBlock \/ FinalizeReturn

Spec == Init /\ [][Next]_vars

(* A call of update or finalize_xof runs on.                               *)
Running == PushChunk \/ Merge \/ NextChunk \/ FeedChunk \/ CompressBlock
           \/ CopyBytes \/ ChunkReturn \/ UpdateReturn \/ FoldParent
           \/ AllocateOutput \/ OutputBlock \/ FinalizeReturn
FairSpec == Spec /\ WF_vars(Running)

-----------------------------------------------------------------------------
(* The reference: the tree of the BLAKE3 specification, 2.1 and 2.4, over  *)
(* a message of n bytes.                                                   *)

(* The chaining value of a chunk after its first k blocks, none the last.  *)
ChunkPrefix(key, fl, chunk, k) ==
  LET cv[i \in Nat] ==
        IF i = 0 THEN key
        ELSE Compress(cv[i - 1],
               [j \in 1 .. BLOCK_LEN |->
                  MessageByte(chunk * CHUNK_LEN + (i - 1) * BLOCK_LEN + j)],
               chunk, BLOCK_LEN, fl \cup (IF i = 1 THEN {"CHUNK_START"} ELSE {}))
  IN cv[k]

(* A chunk: its last block is the one that holds its last byte, and the    *)
(* first one if it has none.                                               *)
ChunkNode(key, fl, chunk, n) ==
  LET len  == LesserOf(CHUNK_LEN, n - chunk * CHUNK_LEN)
      last == IF len = 0 THEN 0 ELSE (len - 1) \div BLOCK_LEN
      used == len - last * BLOCK_LEN
  IN Node(ChunkPrefix(key, fl, chunk, last),
          [j \in 1 .. BLOCK_LEN |-> IF j <= used
             THEN MessageByte(chunk * CHUNK_LEN + last * BLOCK_LEN + j) ELSE 0],
          chunk, used,
          fl \cup {"CHUNK_END"} \cup (IF last = 0 THEN {"CHUNK_START"} ELSE {}))

(* A subtree: its left side is the largest power of two of chunks that is  *)
(* smaller than the whole.                                                 *)
LeftSize(size) == CHOOSE p \in 1 .. size - 1 :
                    p < size /\ size <= 2 * p /\ count_ones[p] = 1

TreeNode(key, fl, first, chunks, n) ==
  LET node[size \in Nat \ {0}] ==
        [lo \in Nat |->
           IF size = 1 THEN ChunkNode(key, fl, lo, n)
           ELSE ParentOutput(
                  ChainingValue(node[LeftSize(size)][lo]),
                  ChainingValue(node[size - LeftSize(size)][lo + LeftSize(size)]),
                  key, fl)]
  IN node[chunks][first]

Chunks(n) == IF n = 0 THEN 1 ELSE CeilDiv(n, CHUNK_LEN)

Blake3TypeOK ==
  /\ pc \in {"none", "open", "updating", "merging", "chunk", "folding", "xof",
             "done", "error", "panic"}
  /\ key_words \in {IV, Key, ZeroWords} /\ flags \subseteq {"KEYED_HASH"}
  /\ Len(cv_stack) \in 0 .. DEPTH
  /\ chunk_counter \in Nat /\ buf \in [1 .. BLOCK_LEN -> Nat]
  /\ buf_len \in 0 .. BLOCK_LEN /\ blocks_compressed \in 0 .. BLOCKS - 1
  /\ given \in Nat /\ rest \in 0 .. given /\ part \in 0 .. rest
  /\ parent_nodes \in 0 .. Len(cv_stack) /\ Len(out) \in 0 .. out_len

(* Whenever no merge is under way the stack holds one perfect subtree for  *)
(* each one bit of the number of chunks before the present one, the        *)
(* largest first and none of them final, and together they cover exactly   *)
(* those chunks, in order.                                                 *)
StackIsForest ==
  pc \in {"open", "updating", "chunk", "folding"} =>
    \E sizes \in [1 .. Len(cv_stack) ->
                   {s \in 1 .. chunk_counter : count_ones[s] = 1}] :
      LET before[i \in 0 .. Len(cv_stack)] ==
            IF i = 0 THEN 0 ELSE before[i - 1] + sizes[i]
      IN /\ \A i, j \in 1 .. Len(cv_stack) : i < j => sizes[i] > sizes[j]
         /\ before[Len(cv_stack)] = chunk_counter
         /\ \A i \in 1 .. Len(cv_stack) :
              cv_stack[i] = ChainingValue(
                              TreeNode(key_words, flags, before[i - 1], sizes[i],
                                       given - rest))

(* However the message is cut into calls of update, the root is that of    *)
(* the BLAKE3 tree over the whole message.                                 *)
RootIsTree ==
  pc = "xof" => output = TreeNode(key_words, flags, 0, Chunks(given), given)

(* The stack is deep enough for every message of at most 2 ^ DEPTH chunks  *)
(* (for 54 entries: 2^64 bytes); only a longer one panics.                 *)
DepthSuffices == pc = "panic" => Chunks(given) > 2 ^ DEPTH

(* The output is the stream of the root's blocks under counters 0, 1, ..., *)
(* as long as asked for, whatever its length.                              *)
OutputIsStream ==
  pc = "done" =>
    /\ Len(out) = out_len
    /\ \A i \in 1 .. out_len :
         out[i] = [counter |-> (i - 1) \div BLOCK_LEN,
                   byte    |-> ((i - 1) % BLOCK_LEN) + 1]

(* What finalize_xof's documentation says: the output extends without      *)
(* limit, so that no length asked for is an error.                         *)
XofUnlimited == pc # "error"

(* update and finalize_xof return, or panic.                               *)
CallsReturn ==
  /\ pc = "updating" ~> pc \in {"open", "panic"}
  /\ pc = "folding"  ~> pc \in {"done", "error"}
=============================================================================
