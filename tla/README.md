# A TLA+ verification of elib-k0-nt

elib-k0-nt is a `no_std` Rust cryptographic library (hashes, ciphers, signatures,
key encapsulation, a DRBG) and a small IPC daemon that offers part of it to
clients. This directory models its stateful parts in TLA+, checks them with TLC
on small instances, and proves the most important results for all values of the
constants with TLAPS.

Check everything from this directory: `tlc -config X.cfg MCModule` for a run of
`PROJECT.json`, `tlapm XProofs.tla` for the proofs.

## 1. The system

| Component | State it keeps | Operations | Interacts with |
|---|---|---|---|
| IPC wire codec (`elib-k0-ipc/src/wire.rs`, `op.rs`, `error.rs`) | none | `decode_header`, `encode_header`, `encode_error` | the daemon and its clients |
| Daemon (`elib-k0d-core`) | two frame buffers and a request arena per call of `serve_one` | `run`, `serve_one`, `serve_one_inner`; `parse_request`; keygen, sign, verify | a `Transport`; Ed25519 |
| Mock transport (`elib-k0-mock-transport`) | one pending request, one pending response | `client_send`, `client_recv`, `round_trip` | daemon and client |
| Entropy source (`rng/src/os_entropy.rs`) | the buffer being filled | `fill_bytes`, `get_bytes`, `extract_os_entropy` | the system's `getrandom`, `getentropy`, `RtlGenRandom` |
| Hash_DRBG (`rng/src/hash_drbg.rs`) | V, C, reseed counter | `new_from_os`, `new_from_entropy`, `reseed`, `reseed_from_os`, `generate`, drop | entropy source, SHA-2 |
| SHA-2, SHA-3/SHAKE, BLAKE2b/3 (`sha2`, `sha3`, `blake`) | chaining value or sponge, buffer, counters; BLAKE3 a stack | `new`, `update`, `finalize`, squeeze | – |
| AES-CTR/CBC/GCM, ChaCha20-Poly1305 (`aes`, `chacha20`) | key schedule, counter, MAC accumulator | encrypt, decrypt, tags | – |
| ML-DSA (`mldsa`) | the keys; while signing, the attempt's number and the next mask's nonce | `keygen`, `sign`, `verify` | SHA-3 |
| ML-KEM (`mlkem`) | the keys | `keygen`, `encaps`, `decaps` | SHA-3 |
| X25519, X448 (`x25519`, `x448`) | the secret key | `generate_keypair`, `diffie_hellman` | their fields, DRBG |
| Ed25519, Ed448 (`ed25519`, `ed448`) | the key pair | keygen, `sign`, `verify` | their fields, scalars and points; SHA-512, SHAKE256 |
| constant-time | none | comparisons and selections of words | everything |
| zeroize | none | volatile wipes | everything |

What is hard here:

* *The daemon.* A reply is sent with the same `round_trip` that receives, so a
  request that is waiting is taken out of the mailbox and lost. The mailbox has
  one slot. `serve_one_body` returns early at four places, and secrets must be
  gone after each of them; `serve_one_inner` runs on buffers full of an earlier
  request's data.
* *The entropy loop.* The system delivers too little, is interrupted, or fails,
  in any order, with a convention of its own on every platform.
* *The DRBG.* Limits checked in a fixed order, a counter at its limit, failures
  that must change nothing, V advanced so that no output block repeats.
* *Streaming hashes and ciphers.* Any chunking of the input must give the same
  result: buffers exactly full, padding that needs a second block, lazily kept
  last blocks, a stack merged by the number of chunks so far; counters that
  wrap; a tag checked before anything is written.
* *The algorithms.* Signing repeats until a signature says nothing of the key, with
  fresh masks each time; signer and verifier must round alike at every boundary,
  and a hint must have one encoding; Montgomery factors must cancel out. ML-KEM's sums
  are reduced only now and then, and a changed ciphertext must give the rejection
  secret and no error.
* *The curves.* Limbs keep carries that the next operation has to have room for; one
  number has several forms, which comparisons must not tell apart. The ladder puts off
  its swaps and takes any bytes for a public key. Scalars are reduced with words below
  zero, keys and R may be of small order or not below the prime, and `s` must be.
* *Selections without branches.* One definition for every width and sign, from three
  sets of instructions, with the ends of each range.

`PROJECT.json` lists every hazard at its line with the properties that cover it.

## 2. Modules

| Module | Models |
|---|---|
| `Wire` | the codec: constants, header bytes, the order of checks; and Ed25519 as the daemon and its clients see it: a signature verifies for the key and message it was made with and for no other |
| `SignService` | the abstract service: a mailbox, one request in service, one reply determined by that request alone |
| `Daemon` | daemon, transport and clients together |
| `OsEntropy` | the fill loop of every platform |
| `HashDRBG` | one DRBG instance on top of `OsEntropy` |
| `SHA2` | `update` and `finalize` of SHA-2, both widths |
| `SHA3` | the sponge: `update`, padding, fixed and extendable output |
| `Blake2b`, `Blake2bLong` | BLAKE2b, and the variable-length `blake2b_long` made of it |
| `Blake3` | chunks, the stack of chaining values, the root's output |
| `Poly1305` | the streaming authenticator |
| `AeadData`, `IdealAead` | bytes, key stream and packets in transit; what an AEAD promises |
| `ChaChaPoly`, `AesGcm` | the two AEADs on the caller's buffers |
| `AesModes` | CTR and CBC on the caller's buffers |
| `MlDsaRing` | ML-DSA's arithmetic: Montgomery products, the transforms, rounding and hints, packing |
| `MlDsa` | its keygen, the loop of sign, verify |
| `MlKem` | ML-KEM's arithmetic: lazy reductions, the transform that stops at pairs, compression, the samplers; its public-key encryption, `keygen`, `encaps`, `decaps` |
| `Limbs` | numbers in limbs, carries and columns of products |
| `Field25519`, `Field448` | the field elements of the four curve crates, limb by limb |
| `PrimeField` | the same fields by value, and the group law of Edwards curves as textbooks have it |
| `KeyExchange` | X25519 and X448: clamping, ladder, `diffie_hellman` |
| `Scalar25519` | Ed25519's scalars, limb by limb |
| `Ed25519`, `Ed448` | keys, signatures, verification over extended and projective points |
| `Words` | the comparisons and selections of `constant-time`, on three instruction sets |
| `Hashes` | `SHA3`, `Blake2b`, `Blake2bLong` and `Blake3` beside each other: they share no state, and a caller picks one |
| `Ciphers` | ChaCha20's key stream object, and the same of it, `Poly1305`, `ChaChaPoly`, `AesGcm` and `AesModes` |
| `MCCurves` | the same of the curves, their fields and `SHA2` and `Words`, with their instances for TLC |
| `MCDaemon`, `MCHashDRBG`, `MCHashes`, `MCCiphers`, `MCMlDsa`, `MCMlKem` | instances for TLC |
| `*Proofs` | theorems, checked by TLAPS |

### Wire and Daemon

A frame is `[hdr, size, body]`: its eleven header bytes one by one, because their
checks are what the codec does; the length of the slice; and the payload's fields
at the offsets the Ed25519 requests use (`k` the key, `sig`, `mlen` the embedded
u16 length, `tag` the identity of the message bytes).

`Daemon` takes one call of `serve_one_body` apart into steps at the transport
calls and the early returns: `Enter`, `RecvRequest`/`RecvError`,
`ParseOk`/`ParseError`, `Dispatch`, `SendReply`/`SendLost`, `DropBuffers`. The
client's `ClientSend` may happen between any two of them (`MockBorrow = FALSE`,
an endpoint shared with clients) or only between calls (`TRUE`: the mock is
borrowed exclusively). `CallerOwned` selects `serve_one_inner`, whose buffers
are never cleared and start out dirty. History variables record what became of
every `client_send`.

`ImplementsService` is a refinement: with `inbox`, `current` and `reply` read off
the mailbox and the program counter, every behaviour of the daemon is one of
`SignService`, whose `Answers(f)` is written from the protocol, not from the
parser. That the reply depends on the frame in service and not on what is left in
the arena is the point of it.

### OsEntropy

The bytes the system produces are numbered, so that a skipped, an overwritten and
a reused byte can be told apart. `KernelReturns` is what each system call may
return (external, from how the loops use it); `AfterCall` is what the loop makes
of it.

### HashDRBG

The hash is collision free: a digest is the term that was hashed, and V a formal
sum (a bag of digests plus an integer). A block of output is identified with the
hash input that produced it, so "no block twice" is disjointness of sets. The
calls that ask the system wait for `OsEntropy`'s steps.

### Hashes

`update` and `finalize` are taken apart at the iterations of their loops, because
the buffer's state between two iterations is what the next one, the next call and
the padding rely on. Compression functions and the permutation are injective
terms: a chaining value *is* the list (for BLAKE3, the tree) of what was
compressed into it, so that a digest can be compared with the standard's padded
message, block by block. Message bytes are numbered, so that a byte lost, taken
twice or stale is another byte. Padding is modelled by its bytes, the length
fields by their values modulo their width, which at the scale of the runs wrap
within the messages. `SHA2` covers both widths: `LENFIELD` is the length of the
field in the block, `LENBYTES` that of the counter (8 of 16 in SHA-512).

`Blake2bLong` numbers the digests of the chain and keeps what each was the hash
of. `Blake3`'s reference is the tree of the specification, defined by recursion on
the number of chunks and not by a stack.

### Ciphers

Of ChaCha20's key stream a byte of output is the counter it comes from and its place; data is
left out. `Poly1305` has the three phases of `update` as steps; its accumulator is
the list of blocks with their high bit. In the two AEADs a byte is the set of
atoms it is the XOR of, so that encrypting twice is the identity and reuse of key
stream is an intersection; a tag is the term of everything that is authenticated.
The arguments' buffers are modelled with what they hold before and after a call,
also of a call that fails. `IdealAead` answers a packet from what was sealed
alone; `Arrivals` changes every field of a packet on its way.

`AesModes` has CTR and CBC with any length of text and of output. A block of CBC is a
step, because it needs what the block before it left; CTR's blocks are independent and
are made at once. What is decrypted is a prefix of what was written. The asserts on the
lengths are `debug_assert`s, so that in a release build it is up to the loops what becomes
of a broken last block or of an output that is too short: CTR panics there, CBC stops
without an error and leaves the rest of the text out. CTR's counter is the last four
bytes of its block and wraps without a carry.

### ML-DSA

`MlDsaRing` computes what the code computes, over a smaller ring: products in
Montgomery form with the wrap of `i32`, the layers of both transforms with the
tables' indices, `power2round`, `decompose` and the hints, and each packing by the
bits a field keeps. The tables themselves are the powers of a root of unity they
are made of. In `MlDsa` one attempt of `sign_internal`'s loop is one action, because
what an attempt leaves for the next, the nonce and the count, is what can go wrong.
SHAKE is ideal: a seed gives one of the given matrices and secrets, the masks are any
the sampler may return, and a challenge is the record of what was hashed.
`verify` gets the signature as it was made with another message or context, or with
any other bytes for its hint. Replacing `z` is left out: that a `z` of another origin
is refused is the hardness of the scheme, which four coefficients do not have.

Packing writes `a + w` for a coefficient `w` of `-a .. b`, where FIPS 204's BitPack
writes `b - w`. Keys and signatures are consistent with each other, which is what
`SignedVerifies` is about, but are not those of the standard, and the same bytes are
another mask.

### ML-KEM

`MlKem` computes with words of 16 bits (scaled) that are allowed to grow: a Barrett
reduction or a Montgomery product bounds them again, and between two of these sums pile
up. The transform has one layer fewer than its length would allow, so that products are
of pairs of coefficients. Compression rounds to a field whose mask takes what rounds up
to its end back to 0. In `MlKem` hashes are ideal, as in `MlDsa`; `Arrivals` changes the
ciphertext in each of its parts, and `decaps` must answer every one.

Where the code is not FIPS 203's, which both ends agree on: `encaps` returns
SHAKE256 of the secret and the ciphertext and not the secret itself (`kem.rs`); the
matrix has its two indices in the other order; an encapsulation key is not checked for
coefficients at or above the modulus. `sample_ntt` fills from three buffers and leaves
zeros behind, should these not suffice; the run's windows are short enough to need the
second and third.

### Curves

The fields come in two forms. `Field25519` and `Field448` have the limbs: what an
operation leaves in them is what the next one starts from, and no operation makes them
unique. `PrimeField` has the value, with which points and ladder are computed over
primes small enough for TLC. `FieldsExact` is the bridge: after any operations a caller
makes, the limbs' bytes are those of the value. Chains of squares and products, for
inverses and roots, are sets of the exponent's bits at their real length (`PowersRight`).

`KeyExchange` compares the ladder with multiplication by the group law in affine
coordinates, over the curve or, where `u` is of its twist, over that. Any bytes are
public keys. `Ed25519` and `Ed448` compare signing and verification with the affine law
(`Sum`, `Multiple`), and decoding with the set of points that have the bytes' `y` and
sign (`PointsOf`). A `y` that is not below p is of no point in RFC 8032; the code takes it
modulo p (section 5), and `VerifiesExactly` says what it accepts in the one case and in
the other. `Scalar25519` has the twelve limbs' folding with their halves as
parameters; `Ed25519` takes its results by value, with the residues that come out wrong
(section 5) as they come out, and states its properties for the other ones (`Usual`).
`Ed448` reduces its scalars by value.

Where comments and code differ, or code is not needed, without a consequence:
`Scalar::sub` of both crates takes 32 bytes of 0xff for -1 modulo L, and nothing calls
it; the exponent of a root is called 2^252 - 3 in `ed25519/src/field.rs:372` and
2^252 - 2 in line 391; the second fold of `ed448`'s product has nothing left to fold;
Ed448's context length is cast to a byte and not checked (`Ed448Assumption` has contexts
below 256 bytes).

### Words

`Words` has every integer type as a width and a sign, and each primitive three times: by
instructions of x86_64, of aarch64, and by arithmetic (`"miri"`, used where there is no
assembly). Narrow types are extended first, double words are put together of halves.

### Buffers that are too short

AES-GCM's `encrypt` and `decrypt` do not compare the output's length: a shorter
buffer makes them panic after part of it was written (outcome `"panic"`).

## 3. Runs

| Run | Shows | Bounds |
|---|---|---|
| `daemon_mock` | type, one fate, readable replies, refinement on dirty, reused buffers; every request is answered or replaced | 3 sends of 32 frames, one on each side of every check |
| `daemon_shared` | clients at any time, failing endpoint, which includes the mock's behaviours: no residue, refinement; only pipelined requests are swallowed | same |
| `os_entropy_freebsd` | **violation**: on FreeBSD an errno counts as bytes | buffers of 0 to 9 bytes, chunks of 4, 16 bytes drawn |
| `rng` | a caller's buffers and a DRBG's seeds: `Ok` means filled, the loop ends; seed lifetime, no block twice, seeds complete and disjoint, failures change nothing, calls return | every platform but FreeBSD; buffers of 0 to 9 bytes, chunks of 3, 10 bytes drawn; reseed interval 2, 3 changes, inputs around every limit |
| `hashes` | SHA-3, BLAKE2b, `blake2b_long`, BLAKE3: message, blocks, chain and tree are the standards', one stream of output, calls return | rate 6 and blocks of 4 bytes; slices to two blocks and a byte; BLAKE3 to the ninth chunk of a stack for eight |
| `blake3_xof` | **violation**: an output longer than a `SecureBuffer` is an error | same |
| `ciphers` | no block of key stream twice, masks in order, Poly1305's tag is over the message; both AEADs implement `IdealAead`, buffers are kept; CTR and CBC write and read back what they should | key stream: counter of 4 values, 6 blocks; Poly1305: slices to two blocks and a byte; AEADs: 2 packets, 2 nonces, texts to behind the counter's limit, buffers too short, exact and longer; modes: blocks of 2 bytes, a counter of 3 values, texts of 0 to 6 bytes, buffers of 0 to 7 |
| `mldsa` | every ML-DSA signature that is returned verifies, nothing but it is accepted, masks are fresh, packing drops nothing, a product is the product | below |
| `mlkem` | both ends of ML-KEM agree, a changed ciphertext gives the rejection secret | below |
| `curves` | SHA-2's digest is that of the padded message; limbs are the numbers they stand for; scalars are reduced; comparisons are exact; shared secrets, signatures and, for encodings below p, verification are the standards' | below |
| `ed25519_scalars` | **violation**: some scalars are not reduced modulo L | same |
| `ed25519_encodings` | **violation**: `verify` accepts an encoding whose y is not below p | same |

`mldsa`: polynomials of 4 coefficients modulo 193, two rows and columns, GAMMA1 = 8,
GAMMA2 = 24, D = 5, hints of 2 ones, challenges of 2, 3 attempts and 8 nonces. The
parameters keep what the standard's have: attempts fail for `z`, for the low bits,
for `ct0` and for the hint, coefficients fall on both sides of every bucket and into the
bucket that wraps, a coefficient does not fit its field when it is out of range, and the
last attempt comes before the nonce wraps. Requests are one on each side of both length
checks; hints are every string of bytes up to N - 1. `verify` is a function of its
arguments, so one call after a signature stands for any number.

`mlkem`: polynomials of 8 coefficients modulo 193, a transform of two layers,
K = 2, eta of 3 and 2, compression to 7 and 4 bits, words of 4096 values (21 times the
modulus, where an `i16` has 19.7 times 3329, so that lazy sums have the room they have
in the code and no more), 2 key pairs, 5 messages. The noise of all ten exchanges fits,
and their streams are long enough for the samplers: TLC evaluates both, with the other
assumptions of the proofs, before the run (`MCMlKem`).

`curves`: every part is small enough to be exhausted in what its operations look at.
SHA-2: blocks of 8 bytes, slices of 0 to 17, messages to 36 bytes, a counter that wraps at
32. Fields: 2^15 - 3 and 2^16 - 2^8 - 1, which have the form of the two primes, 9 numbers
on either side of every limb's and the prime's boundary, 3 operations on end, so that
unreduced results of unreduced results are computed with. Scalars: L = 4123, 640 digests.
Words: all numbers of 2, 4 and 8 bits, the ends of 16. X25519 modulo 509 with all 1024
public keys, X448 modulo 239 with all 256. Ed25519 modulo 509, a group of 8 * 67, keys on
and off the curve, of small order and not below p; Ed448 modulo 239, of 4 * 59, with 3
contexts. A session ends when its call has returned, so deadlock is not an error there.

The bounds are enough because every comparison in the code has an input on each
side of it and, for the loops, several rounds: two requests can interact only
through the mailbox slot and the buffers, which three sends exercise in every
order; a reseed interval of 2 has a request before, at and after the limit. A
streaming object depends on its past only through the fill of its buffer and the
number of blocks before: slices of every length up to two blocks and a byte reach
every fill from every other one and each loop's zeroth, first and second round.
Two packets are enough for a tag or nonce of the other one.

SHA-224/256 differ from SHA-384/512 in `SHA2` by `LENFIELD = LENBYTES` only; the run
takes the other case, the theorem both.

*Fairness.* `run` is an endless loop, so the daemon's next step is taken
(`WF(ServeOne)`); clients are not assumed to do anything. The fill loop runs on,
and the system does not interrupt it for ever (`WF(FillStep)`: a call interrupted
again changes nothing). Nothing is assumed about which other value it returns.
The hash functions' calls are loops without a wait: a call that has begun goes on
(`WF` of each component's `Running`), and nothing makes a caller begin one.

## 4. Proofs

The theorems hold for every value of the constants that satisfies the named
assumptions of the modules; those are as weak as the code justifies, and what more a
single theorem needs is said below. Each is `Init => Inv`, `Inv /\ [Next]_vars =>
Inv'` and `Inv => property`. What follows is the invariant and why it is needed.

* `DaemonProofs`, the codec: `DecodeEncode` (what `encode_header` writes is read back)
  and `ErrorFrameUnknown` (no error frame is read as an operation), by arithmetic on
  the header bytes for every operation and length.
* `DaemonProofs`, the daemon, for all sets of frames and seeds, both transports and
  both ways of owning buffers: `TypeCorrect`, `ExactlyOneFate`,
  `OnlyPipelinedSwallowed`, `NothingLeftBehind`. The invariant is `TypeOK` with the
  histories' disjointness: that a request in the mailbox has a number no one else has
  is needed to show that moving it does not give it a second fate.
  `DaemonImplementsService` is the refinement of `SignService`, step by step; its
  invariant adds `Ready`: on the mock no request waits while one is in service, the
  arena holds what was parsed from the request in service, and the reply about to be
  sent is an answer of the service to that request. `RepliesReadable` is from the
  same.
* `HashDRBGProofs`, the entropy loop: `FillBytesFills`, for all buffer lengths, chunk
  sizes and error numbers, assuming the build is not for FreeBSD (section 5). The
  invariant adds to `FilledPrefix` that filled bytes are increasing and at most
  `drawn`.
* `HashDRBGProofs`, the DRBG, for every interval, limit and input: `DrbgTypeCorrect`,
  `SeedLifetimeHolds`, `FailuresChangeNothing`. `NoBlockTwiceHolds`: V has as many
  copies of C as requests were served since the seeding, and it keeps the digest of
  that seeding, which contains the V before and so is none of those in use until then.
  `OnceInv` says that every input hashed for output so far has the digests of seedings
  up to the present one only and, if it has this one's, fewer copies of C than V.
  `SeedsFreshHolds`: in `SeedInv` every byte of a seed was produced before those of
  the next one, also of the seed being filled and of the entropy `new_from_os` holds
  while it asks for a nonce. It rests on the fill loop's invariant, hence on
  `Platforms` without FreeBSD.
* `SHA2Proofs`: `StreamIsComplete`, which is inductive with the type invariant, and
  from it `DigestIsOfMessage`, for all block lengths, fields, counters and ways of
  cutting a message. That powers of 256 are positive is an assumption on the constants
  (`PowersPositive`), because the prover does not know exponentiation.
* `HashesProofs`: for every rate, block length and way of cutting a message,
  `OutputsAreStreams` (SHA-3 and SHAKE: `SpongeInv` says which bytes of the message
  are in the sponge and which in the buffer, and while squeezing which byte of the
  stream is next; `TreeInv` the same of BLAKE3's blocks of output) and
  `BlakeDigestIsOfMessage` (`B2Inv`: the buffer is the message's end, never empty once
  a block was compressed, because the last block is kept back). `LongIsChain` and
  `LongDoesNotPanic` are for every half-digest length and output length: how `r`,
  `written` and the number of digests belong together, and that the last digest is
  longer than a half and at most a whole one, by rounding up.
  `RootsAreTrees` is for every size of block and chunk, depth of the stack and message.
  Its invariant `RootInv` has `Chunking` (which bytes are in the present chunk, and that
  neither the last block nor the last chunk is closed) and `Stacked`: the ends `b` of the
  subtrees on the stack, in chunks, with sizes that are powers of two and fall
  (`Grown`), or fall but for the last two while a chunk is being merged (`Growing`); and
  while the stack is folded, that the node so far is that of all chunks behind entry
  `parent_nodes` (`Folded`). The code looks at no sizes: it merges as long as there are
  more entries than the number of chunks has one bits. That this comes to merging the
  last two exactly if they are alike is `MergesAlike`: falling powers are as many as the
  one bits of their sum, and powers of which two are alike are more. What is behind a
  subtree is smaller than it (`TailSmall`), so it is the left side the reference splits
  off (`LeftSizeOf`), for a complete subtree and for the last, incomplete one
  (`TreeOfParts`). The reference (`TreeNode`, `ChunkPrefix`, `count_ones`) is a
  recursive function; that one satisfying its equation exists is proved
  (`TreeNodeIs`, `ChunkPrefixIs`, `CountOnes`), by induction as `SetInduction`: a set of
  numbers that is not empty has a least element. That powers of two double up to
  2 ^ DEPTH is an assumption (in `Blake3Assumption`), for the same reason as above.
* `CiphersProofs`: every property of the run `ciphers`, over `CiphersSpec`. Each
  property is about some of the objects, and `CiphersInv` has the invariant of each of
  them:
  - `BlocksAreFresh`, `MasksAreInOrder`: as long as the counter was not set back, the
    blocks taken are successive ones, for every counter width and order of calls.
  - `TagIsOfMessage`: Poly1305's accumulator and buffer together are the message so
    far, after any slices, and the last block has its high bit in the byte after its
    end.
  - `AeadsImplementIdeal`, `CallersBuffersKept`, `KeystreamsUsedOnce`: the lemmas
    about one call come first.
    Their invariant (`ChaInv`, `GcmInv`) is that every packet sent is what sealing
    makes of a nonce, data and a plaintext. Both AEADs refine `IdealAead` because a
    tag determines the parts it was made of (`PartsOnce`: padding and the two lengths
    leave no two ways to take it apart), and XOR with the same key stream undoes
    itself (`KeystreamUndone`); so that what arrives opens if and only if it is what
    was sealed, to what was sealed.
  - `ModesReadBack`: CTR and CBC for every block length, text and length of output.
    CBC's invariant is that the blocks written so far are those of the standard for
    the text so far, in both directions, and `prev` is the last block of cipher text
    (`Chained`, `Unchained`); CTR's blocks are `Streamed` under counters of their own.
* `MlDsaProofs`: `MasksAreFresh`, for every parameter set whose attempts fit the
  nonces (7 * 1000 of 65536 at most in the code). The invariant says that the nonces
  of a call so far are 0, 1, .., that `kappa` is the next one, `iter * L`, and that no
  attempt begins after the last one.

  `SignaturesVerify`, for every ring, parameter set, key, mask, message and stream a
  challenge is drawn from: what `sign` returns, `verify` accepts. The invariant
  (`MadeInv`) is that the keys are those `keygen` makes of a seed and secrets, that
  what is being signed was not refused, and that what was returned is accepted. Why an
  attempt that is not thrown away is accepted (`AttemptValid`):
  - The verifier computes `w - c * s2 + c * t0` (`RoughIs`). It has only the upper
    bits of `t = A * s1 + s2`, scaled again (`TScaled`), and `z = y + c * s1`; that
    `c * s1` cancels out needs the transforms to be linear and products to be
    associative, row by row (`RowVerifies`).
  - The challenge has at most `TAU` coefficients that are not 0, and these are 1 or -1,
    because a draw moves one coefficient and sets one (`BallSparse`). So no coefficient
    of `c * s2` is above `TAU * ETA = BETA` (`SecretTimes`): it is a sum of as many
    terms as the challenge has ones (`SparseTimes`).
  - The low bits that were not thrown away leave room for `c * s2`, so that `w` and
    `w - c * s2` have the same upper bits (`LowStable`), and `c * t0`, less than
    `GAMMA2`, moves a coefficient to a neighbouring bucket at most, which is what a
    hint takes back (`MovesByOne`, `HintTakesBack`); the bucket that wraps around `Q` is
    a case of its own. `RoundingAgrees` puts these together.
  - `z`, the secrets, `t0` and `t1` come out of their bytes as they went in (`ZKept`,
    `KeyUnpacks`), and so does a hint of at most `OMEGA` ones (`HintKept`): the place of
    a one in the bytes is its rank, and ranks rise with place (`BeforeRises`).

  `OnlySignedIsAccepted`: nothing else is accepted in place of the message, the context
  or the bytes of the hint. Requests are framed apart (`OneFrame`), a hint has one
  encoding (`OneEncoding`), and every hint moves its coefficient to another bucket
  (`HintMoves`), so that other hints have other digests. `OtherRequestsRejected` is the
  part that needs nothing of the signature.
* `MlDsaRingProofs`, about the operators of `MlDsaRing` alone: `ProductIs`, that the
  inverse transform of the pointwise Montgomery product of two transforms is the
  product modulo `X ^ N + 1`. `ProductsAreNegacyclic` in `MlDsaProofs` says it of the
  polynomials of the keys. Montgomery's product is the product by the inverse of
  `WORD` modulo `Q` (`MulIs`), the only place where words and their wrap occur; from it
  follow the laws of a ring. Layers are linear, and a layer on the way back undoes the
  one on the way there but for a factor of 2 (`LayerInverts`), which `INV_N_MONT` takes
  out at the end (`BackAndThere`). A layer there takes a product by `X` modulo
  `X ^ (2 * len) - r` to products by `X` modulo `X ^ len - zeta` and `X ^ len + zeta`
  (`LayerTurns`), so that at the end each coefficient is multiplied by a root of
  `X ^ N + 1` (`NttRot`). A product is then built up from the coefficients of one
  factor, one after the other (`ProductStep`).

  A fold of the community modules is defined through subsets of the positions; the
  lemmas named `..Run` give it as the sequence of values the code's loop goes through,
  and what holds of them is shown by `UptoInduction`, over the numbers up to the
  sequence's length.

  What is assumed of the tables (`ZetasAreRoots`, `LensDouble` in
  `MlDsaRingAssumption`) is what makes them tables of a transform: the zeta of a block
  is a square root of that of the block it is half of, the way back has its inverse, and
  the layers' lengths double from 1 to `N / 2`. TLC evaluates it for its ring, and it is
  true of the tables of the code. That powers of two are positive and that a field's
  bits hold what is packed into it are assumptions because the prover does not know
  exponentiation. `StreamsOfBytes` says that what SHAKE returns are bytes.

* `MlKemProofs`, for every modulus, word, number of layers, table, rank and compression
  that `MlKemAssumption` allows, and every key, message and stream. `Decrypts`: what
  `encrypt` makes of a message, `decrypt` takes back to it, if the noise fits.
  `EndsAgreeIfFits` and `EndsAgree`: then the secrets of both ends are equal, which is
  `DecapsAgrees`. `RejectsAllOthers`: any other ciphertext gets the rejection secret, as
  `RejectsChanged` says, unless in all its parts it is what another message encrypts to.
  The invariant (`IInv`) is that the keys are those of one seed, that what was sent is
  made of one message for these keys, and that what was got is the secret `decaps` makes
  of its ciphertext. The argument is about `Decrypts`:
  - The words are sums that are reduced now and then. As long as none overflows, they
    are congruent to the field's numbers; a Montgomery product and a Barrett reduction
    give a multiple of `Q` more or less (`FqmulIs`, `BarrettIs`). How much each
    operation adds to a word is part of its lemma.
  - A layer of the way back undoes one of the way there but for a factor of 2, and
    both are linear, so that `invntt` of `ntt` is the identity but for the factors the
    code knows. The products of pairs are commutative, associative and bilinear. This is
    enough: what encryption and decryption need is that the two sides multiply alike,
    not that their product is the one modulo `X ^ N + 1`.
  - A matrix times one vector, times another, can be summed by rows or by columns
    (`Exchange`), so that what is subtracted in `decrypt` cancels out but for the errors
    and what compression lost (`Congruences`): this is `Noise`.
  - A coefficient less than a quarter of `Q` away from 0 or from the half of `Q` is
    rounded to its bit (`BitIs`).

  What is assumed: `MlKemAssumption` is true of the three parameter sets; that powers of
  two double is in it because the prover does not know exponentiation, and
  `ZetasAreRoots` is what makes the table one of a transform. `StreamsAssumption` says
  that the XOF's three buffers fill a polynomial and that the PRF gives bits. `Fits` says
  of a seed and a message that their noise is below a quarter of `Q`, and that the sums
  `encrypt` transforms back are below a quarter of a word. It is a hypothesis because it
  is not true of all: with the standard's parameters the noise is too large with a
  probability of at most 2^-138. The second part is there because what is known of the
  sums without looking at them is not enough for ML-KEM-1024: four products of pairs,
  with nothing reduced before `invntt` adds two of them, have a bound above that of an
  `i16`. `Fits` does not contain what is to be shown: noise is computed from the secrets,
  errors and roundings, not from what is decrypted, and were the matrix used the
  same way round on both sides, it would fit and the ends disagree (the mutant of
  `DecapsAgrees`).

`DrbgTypeCorrect`, `StreamIsComplete` and `LongDoesNotPanic` are steps on the way to
the other theorems of their modules, and no run lists what they state by itself.

Only model-checked are:

* Of ML-KEM, that no changed ciphertext is what another message encrypts to, which is
  a matter of the numbers and not true of every ring; `RejectsChanged` is proved for
  the ciphertexts of which it is true (`NotAnother`). So is `DecapsAgrees` where the noise
  fits (`FitsSent`).
* `FieldsExact`, `ScalarsReduced`, `SharedAgrees`, `SignsAsSpecified`,
  `VerifiesExactly`: the first two compute with recursive operators on sets of bits,
  which no module with a theorem can use; the others would need the group law of the
  curves, whose associativity is a polynomial identity the provers do not find.
* `ComparisonsExact`, whose masks are made with the bitwise operators, which no module
  with a theorem can use.
* The liveness properties (`EventuallyAnswered`, `FillEnds`, `CallReturns`,
  `CallsReturn`), which need `ENABLED`.

## 5. Findings

On FreeBSD the kernel reports an error by the carry flag and a positive errno.
`fill_bytes_impl` there checks only the sign of the return value, as on Linux, so
that an interrupted call (`EINTR` = 4) counts as four delivered bytes and
`fill_bytes` can return `Ok(())` for a buffer it did not fill, against its
documentation. Run `os_entropy_freebsd` shows it in three steps; the theorem
`FillBytesFills` excludes exactly that platform.

`Blake3::finalize_xof` is documented to extend its output without limit
(`blake3.rs:88`), but puts it into a `SecureBuffer`, which holds 1024 bytes: a longer
output is the error `AllocationFailed`. Run `blake3_xof` shows it.

`sc_reduce_24` of `ed25519` moves what its last limb has above the others into a
thirteenth (`scalar.rs:627`) and folds that once more, when the limbs are those of a
number below L already. A residue from 2^252 to L - 1 then loses L: its 32 bytes are those
of a number below zero, against the documentation of `from_bytes_mod_order_wide`
(`scalar.rs:64`). Run `ed25519_scalars` shows it at a small L, and the crate's own
parameters give 32 bytes of 0xff for L - 1. About one scalar of 2^127 is concerned;
multiplication takes 32 bytes as they are, and `verify` refuses such an `s` as
`NonCanonicalScalar`. `ScalarsReduced` says that there is no other deviation.

`EdwardsPoint::from_bytes` of `ed25519` takes the 255 bits of `y` modulo p without comparing
them with p, where section 5.1.3 of RFC 8032, which its documentation names
(`point.rs:91`), has decoding fail. Run `ed25519_encodings` shows `verify` accepting an R
whose bytes are p + 1, as the neutral element. The real field has 19 such numbers.
`ed448` does the same (`point.rs:76`, against `lib.rs:3`). `VerifiesExactly` of the run
`curves` is about both: signatures whose encodings are below p are accepted exactly when
RFC 8032 accepts them, and of the others those of which the equation holds for the points
with `y` modulo p, the hash being that of the bytes as they are.

## 6. Not modelled

The system calls and the transport behind the trait are external. Bit-level
algorithms (block ciphers, compression functions, permutations) are functions
without state whose inputs TLC cannot
enumerate; where a stateful part uses one, it is an injective term. The fields, scalars
and point formulas are modelled at smaller sizes of the same form, not at 255 and 448
bits: that the constants of the real curves are right is for test vectors. Timing, which
the library's constant-time discipline is about, and the compiler barriers of
`zeroize` have no counterpart in a state machine.

## 7. Plan

Done: daemon and codec, entropy, DRBG, hashes, ChaCha20-Poly1305, the AES modes, ML-DSA,
ML-KEM, the curves with their fields and scalars, the primitives of constant-time.

What is left: that one operation on limbs gives the number it should for every width,
as polynomial identities; that a ladder's step keeps the difference of its two points.
