------------------------------ MODULE HashDRBG ------------------------------
(***************************************************************************)
(* Hash_DRBG (rng/src/hash_drbg.rs): one instance, from instantiation      *)
(* through generate and reseed requests to its drop, with the operating    *)
(* system filling its seeds (OsEntropy) one system call at a time.         *)
(*                                                                         *)
(* The hash is taken to be free of collisions: a digest is the term that   *)
(* was hashed.  V is then a formal sum: a bag of digests plus an integer.  *)
(* The sum's modulus 2^(8 seedlen) >= 2^440 is out of a counter's reach.   *)
(***************************************************************************)
EXTENDS OsEntropy, Bags

CONSTANTS
  MIN_ENTROPY,           \* $min_entropy, bytes
  OUTLEN,                \* $outlen, bytes of a digest
  RESEED_INTERVAL,
  MAX_BYTES_PER_REQUEST,
  MAX_LENGTH,            \* MAX_LENGTH and MAX_ADDITIONAL_INPUT, equal
  Seeds,                 \* what callers pass as entropy_input or nonce
  Extras,                \* what callers pass as an optional input, if any
  Requests,              \* the output lengths callers ask for
  MaxChanges             \* bound on the requests and reseeds an instance serves

None    == {}            \* Option::None
Some(x) == {x}
Options == {None} \cup {Some(x) : x \in Extras}

UnwrapOr(opt, default) == IF opt = None THEN default ELSE CHOOSE x \in opt : TRUE

ASSUME DrbgAssumption ==
  /\ MIN_ENTROPY \in Nat /\ OUTLEN \in Nat \ {0}
  /\ RESEED_INTERVAL \in Nat \ {0}
  /\ MAX_BYTES_PER_REQUEST \in Nat /\ MAX_LENGTH \in Nat
  /\ MaxChanges \in Nat
  /\ Seeds \subseteq Seq(Int) /\ Extras \subseteq Seq(Int)
  /\ Requests \subseteq Nat

VARIABLES
  live,             \* there is an instance
  v, c,             \* its V and C
  reseed_counter,
  call,             \* a call waiting for the system: "none", "new_entropy",
                    \*   "new_nonce" or "reseed"
  extra,            \* that call's optional input
  entropy,          \* the entropy_input new_from_os holds during its second
                    \*   request to the system
  result,           \* what the last call returned
  outputs,          \* history: per generate request since the instantiation,
                    \*   the set of hash inputs its output was made of
  changes,          \* history: generate and reseed requests served since the
                    \*   instantiation
  served,           \* history: generate requests served since the last seeding
  seeds             \* history: the bytes of each seed the system gave and an
                    \*   instantiation or reseed took in

drbg == <<live, v, c, reseed_counter>>
hist == <<outputs, changes, served, seeds>>
vars == <<evars, drbg, call, extra, entropy, result, hist>>

-----------------------------------------------------------------------------
(* Values of seedlen bytes: the zero buffer, and sums of terms.            *)
Zero      == [sum |-> EmptyBag, num |-> 0]
Digest(t) == [sum |-> SetToBag({t}), num |-> 0]

Plus(x, y)  == [sum |-> x.sum (+) y.sum, num |-> x.num + y.num]      \* add_mod
PlusU64(x, n) == [x EXCEPT !.num = @ + n]                        \* add_u64_mod

(* What is hashed: a domain prefix (-1 where there is none), a value of    *)
(* seedlen bytes and a string of bytes, one after the other.               *)
Term(prefix, value, bytes) == [prefix |-> prefix, value |-> value, bytes |-> bytes]

(* Hash_df over the concatenation of its inputs.                           *)
Hash_df(prefix, value, bytes) == Digest(Term(prefix, value, bytes))
Hash(prefix, value, bytes)    == Digest(Term(prefix, value, bytes))

DivCeil(n, d) == (n + d - 1) \div d

(* hashgen: the hash inputs V, V + 1, ... whose digests are the output.    *)
Hashgen(value, n) == {PlusU64(value, i) : i \in 0 .. DivCeil(n, OUTLEN) - 1}

-----------------------------------------------------------------------------
DrbgInit ==
  /\ EntropyInit
  /\ live = FALSE /\ v = Zero /\ c = Zero /\ reseed_counter = 0
  /\ call = "none" /\ extra = None /\ entropy = <<>> /\ result = "none"
  /\ outputs = <<>> /\ changes = 0 /\ served = 0 /\ seeds = <<>>

Return(r) == call' = "none" /\ extra' = None /\ entropy' = <<>> /\ result' = r

InstantiateError(ent, nonce, ps) ==
  CASE Len(ent) < MIN_ENTROPY            -> "EntropyTooShort"
    [] Len(ent) > MAX_LENGTH             -> "EntropyTooLong"
    [] Len(nonce) < MIN_ENTROPY \div 2   -> "NonceTooShort"
    [] Len(nonce) > MAX_LENGTH           -> "NonceTooLong"
    [] Len(UnwrapOr(ps, <<>>)) > MAX_LENGTH -> "InputTooLong"
    [] OTHER                             -> "Ok"

(* instantiate; taken are the seed's bytes the system gave, if it did.     *)
Instantiate(ent, nonce, ps, taken) ==
  LET r == InstantiateError(ent, nonce, ps)
  IN /\ Return(r)
     /\ IF r = "Ok"
          THEN /\ live' = TRUE
               /\ v' = Hash_df(-1, Zero, ent \o nonce \o UnwrapOr(ps, <<>>))
               /\ c' = Hash_df(0, v', <<>>)
               /\ reseed_counter' = 1
               /\ outputs' = <<>> /\ changes' = 0 /\ served' = 0
               /\ seeds' = seeds \o taken
          ELSE UNCHANGED <<drbg, hist>>

ReseedError(ent, ai) ==
  CASE Len(ent) < MIN_ENTROPY               -> "EntropyTooShort"
    [] Len(ent) > MAX_LENGTH                -> "EntropyTooLong"
    [] Len(UnwrapOr(ai, <<>>)) > MAX_LENGTH -> "InputTooLong"
    [] OTHER                                -> "Ok"

(* Mutant: reseed renews V and C but leaves the counter where it was.      *)
ReseedKeepsCounter(ent, ai, taken) ==
  LET r == ReseedError(ent, ai)
  IN /\ Return(r)
     /\ IF r = "Ok"
          THEN /\ v' = Hash_df(1, v, ent \o UnwrapOr(ai, <<>>))
               /\ c' = Hash_df(0, v', <<>>)
               /\ changes' = changes + 1 /\ served' = 0 /\ seeds' = seeds \o taken
               /\ UNCHANGED <<live, reseed_counter, outputs>>
          ELSE UNCHANGED <<drbg, hist>>

(* reseed.                                                                 *)
Reseed(ent, ai, taken) ==
  LET r == ReseedError(ent, ai)
  IN /\ Return(r)
     /\ IF r = "Ok"
          THEN /\ v' = Hash_df(1, v, ent \o UnwrapOr(ai, <<>>))
               /\ c' = Hash_df(0, v', <<>>)
               /\ reseed_counter' = 1
               /\ changes' = changes + 1 /\ served' = 0 /\ seeds' = seeds \o taken
               /\ UNCHANGED <<live, outputs>>
          ELSE UNCHANGED <<drbg, hist>>

GenerateError(n, ai) ==
  CASE n > MAX_BYTES_PER_REQUEST            -> "RequestTooLarge"
    [] reseed_counter > RESEED_INTERVAL     -> "ReseedRequired"
    [] Len(UnwrapOr(ai, <<>>)) > MAX_LENGTH -> "InputTooLong"
    [] OTHER                                -> "Ok"

(* V after the additional input: only None leaves it as it is.             *)
MixInput(ai) ==
  IF ai = None THEN v ELSE Plus(v, Hash(2, v, UnwrapOr(ai, <<>>)))

(* Mutant: V advances by C and the counter, without its own digest.        *)
AdvanceByCounter(value) == PlusU64(value, reseed_counter)

(* V = V + H + C + reseed_counter.                                         *)
Advance(value) ==
  PlusU64(Plus(Plus(value, Hash(3, value, <<>>)), c), reseed_counter)

(* Mutant: V is mixed with the additional input before the checks.         *)
GenerateMixesFirst(n, ai) ==
  LET r     == GenerateError(n, ai)
      mixed == MixInput(ai)
  IN /\ Return(r)
     /\ IF r = "Ok"
          THEN /\ outputs' = Append(outputs, Hashgen(mixed, n))
               /\ v' = Advance(mixed)
               /\ reseed_counter' = reseed_counter + 1
               /\ changes' = changes + 1 /\ served' = served + 1
               /\ UNCHANGED <<live, c, seeds>>
          ELSE v' = mixed /\ UNCHANGED <<live, c, reseed_counter, hist>>

(* generate.                                                               *)
Generate(n, ai) ==
  LET r     == GenerateError(n, ai)
      mixed == MixInput(ai)
  IN /\ Return(r)
     /\ IF r = "Ok"
          THEN /\ outputs' = Append(outputs, Hashgen(mixed, n))
               /\ v' = Advance(mixed)
               /\ reseed_counter' = reseed_counter + 1
               /\ changes' = changes + 1 /\ served' = served + 1
               /\ UNCHANGED <<live, c, seeds>>
          ELSE UNCHANGED <<drbg, hist>>

-----------------------------------------------------------------------------
(* The calls.  One that asks the system waits for it, and meanwhile no     *)
(* other is made: &mut self.                                               *)
Idle == call = "none" /\ UNCHANGED evars

(* unsafe new_from_entropy.                                                *)
NewFromEntropy ==
  /\ ~live /\ Idle
  /\ \E e, n \in Seeds, ps \in Options : Instantiate(e, n, ps, <<>>)

CallReseed ==
  /\ live /\ Idle /\ changes < MaxChanges
  /\ \E e \in Seeds, ai \in Options : Reseed(e, ai, <<>>)

CallGenerate ==
  /\ live /\ Idle /\ changes < MaxChanges
  /\ \E n \in Requests, ai \in Options : Generate(n, ai)

(* new_from_os: 2 MIN_ENTROPY bytes, and then MIN_ENTROPY bytes more.      *)
NewFromOs ==
  /\ ~live /\ call = "none" /\ drawn + 3 * MIN_ENTROPY <= MaxDrawn
  /\ StartFill(2 * MIN_ENTROPY)
  /\ call' = "new_entropy" /\ extra' \in Options
  /\ UNCHANGED <<drbg, entropy, result, hist>>

ReseedFromOs ==
  /\ live /\ call = "none" /\ drawn + 2 * MIN_ENTROPY <= MaxDrawn
  /\ changes < MaxChanges
  /\ StartFill(2 * MIN_ENTROPY)
  /\ call' = "reseed" /\ extra' \in Options
  /\ UNCHANGED <<drbg, entropy, result, hist>>

(* One system call of the call's fill.                                     *)
AskSystem == FillStep /\ UNCHANGED <<drbg, call, extra, entropy, result, hist>>

(* ? on the system's failure.                                              *)
SystemFailed ==
  /\ call # "none" /\ status = "failed"
  /\ DropDest /\ Return("OsEntropyFailed")
  /\ UNCHANGED <<drbg, hist>>

(* Mutant: the nonce is cut from the entropy the system gave already.      *)
GotEntropyReused ==
  /\ call = "new_entropy" /\ status = "ok"
  /\ entropy' = dest /\ call' = "new_nonce"
  /\ dest' = SubSeq(dest, 1, MIN_ENTROPY)
  /\ UNCHANGED <<sys, offset, status, drawn, last, extra, drbg, result, hist>>

GotEntropy ==
  /\ call = "new_entropy" /\ status = "ok"
  /\ entropy' = dest /\ call' = "new_nonce"
  /\ StartFill(MIN_ENTROPY)
  /\ UNCHANGED <<extra, drbg, result, hist>>

GotNonce ==
  /\ call = "new_nonce" /\ status = "ok"
  /\ Instantiate(entropy, dest, extra, <<entropy \o dest>>)
  /\ DropDest

GotReseed ==
  /\ call = "reseed" /\ status = "ok"
  /\ Reseed(dest, extra, <<dest>>)
  /\ DropDest

(* The instance goes out of scope.                                         *)
DropInstance ==
  /\ live /\ Idle
  /\ live' = FALSE /\ v' = Zero /\ c' = Zero /\ reseed_counter' = 0
  /\ result' = "dropped"
  /\ outputs' = <<>> /\ changes' = 0 /\ served' = 0
  /\ UNCHANGED <<call, extra, entropy, seeds>>

DrbgNext ==
  \/ NewFromOs \/ NewFromEntropy \/ ReseedFromOs \/ CallReseed
  \/ CallGenerate \/ DropInstance
  \/ AskSystem \/ SystemFailed \/ GotEntropy \/ GotNonce \/ GotReseed

DrbgSpec == DrbgInit /\ [][DrbgNext]_vars

(* The call in progress runs on.                                           *)
Proceed ==
  \/ AskSystem \/ SystemFailed \/ GotEntropy \/ GotNonce \/ GotReseed

-----------------------------------------------------------------------------
Results == {"none", "dropped", "Ok", "OsEntropyFailed", "EntropyTooShort",
            "EntropyTooLong", "NonceTooShort", "NonceTooLong", "InputTooLong",
            "RequestTooLarge", "ReseedRequired"}

(* The counter is 1 just after a seeding and 0 where there is no instance; *)
(* a fill is in progress exactly while a call waits for it.                *)
DrbgTypeOK ==
  /\ live \in BOOLEAN
  /\ reseed_counter \in 0 .. RESEED_INTERVAL + 1
  /\ live <=> reseed_counter > 0
  /\ call \in {"none", "new_entropy", "new_nonce", "reseed"}
  /\ call = "none" <=> status = "idle"
  /\ call = "reseed" => live
  /\ call \in {"new_entropy", "new_nonce"} => ~live
  /\ extra \in Options /\ result \in Results
  /\ served \in Nat /\ changes \in 0 .. MaxChanges

(* The counter counts the requests served under the seed in use, whatever  *)
(* failed in between, and no seed serves more than RESEED_INTERVAL of them.*)
SeedLifetime ==
  live => reseed_counter = served + 1 /\ served <= RESEED_INTERVAL

(* No hash input is used twice in the output of an instance, across        *)
(* requests, additional inputs and reseeds.                                *)
NoBlockTwice ==
  \A i, j \in 1 .. Len(outputs) : i < j => outputs[i] \cap outputs[j] = {}

(* A seed the system gave is complete, and no byte of it was in that or an *)
(* earlier seed: entropy and nonce come from separate requests.            *)
SeedsFresh ==
  /\ \A k \in 1 .. Len(seeds) :
       /\ Len(seeds[k]) >= 2 * MIN_ENTROPY
       /\ \A i \in 1 .. Len(seeds[k]) : seeds[k][i] \in 1 .. drawn
       /\ \A i, j \in 1 .. Len(seeds[k]) : i < j => seeds[k][i] < seeds[k][j]
  /\ \A k, l \in 1 .. Len(seeds) : k < l =>
       \A i \in 1 .. Len(seeds[k]), j \in 1 .. Len(seeds[l]) :
         seeds[k][i] < seeds[l][j]

(* A call that fails leaves V, C and the counter as they were.             *)
FailureChangesNothing ==
  [][UNCHANGED drbg \/ result' \in {"Ok", "dropped"}]_vars

(* Every call returns.                                                     *)
CallReturns == call # "none" ~> call = "none"
=============================================================================
