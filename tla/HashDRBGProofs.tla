--------------------------- MODULE HashDRBGProofs ---------------------------
(***************************************************************************)
(* That fill_bytes fills the buffer on every platform whose system call    *)
(* reports an error as the code expects, whatever short reads and          *)
(* interruptions the system inserts, for every buffer length and chunk     *)
(* size; and what HashDRBG promises about its counter, its failures, the   *)
(* blocks it gives out and the seeds it takes from the system, for every   *)
(* security strength, digest size, reseed interval, request limit, and     *)
(* whatever the system answers.                                            *)
(***************************************************************************)
EXTENDS HashDRBG, TLAPS

-----------------------------------------------------------------------------
(* The entropy source.                                                     *)

(* Not the platform that reports an error as a positive number.            *)
ErrorsNegative == sys # "getrandom_carry"

(* The bytes below the offset were produced, in this order, and the others *)
(* are still zero.                                                         *)
FillInv ==
  /\ sys \in Platforms
  /\ status \in {"idle", "filling", "ok", "failed"}
  /\ drawn \in Nat /\ offset \in Nat
  /\ dest \in Seq(Nat)
  /\ offset <= Len(dest)
  /\ status = "filling" => offset < Len(dest)
  /\ status = "ok" => offset = Len(dest)
  /\ status # "failed" =>
       \A i \in 1 .. Len(dest) : dest[i] # 0 <=> i <= offset
  /\ \A i \in 1 .. Len(dest) : dest[i] <= drawn
  /\ \A i, j \in 1 .. Len(dest) :
       i < j /\ dest[i] # 0 /\ dest[j] # 0 => dest[i] < dest[j]

LEMMA FillInitially == EntropyInit => FillInv
  BY EntropyAssumption DEF EntropyInit, FillInv

LEMMA ExtractFills ==
  ASSUME FillInv, NEW len \in Nat, StartFill(len) PROVE FillInv'
<1>1. dest' = [i \in 1 .. len |-> 0] /\ offset' = 0 /\ UNCHANGED <<sys, drawn>>
  BY DEF StartFill
<1>2. dest' \in Seq(Nat) /\ Len(dest') = len
  BY <1>1
<1>3. /\ status' \in {"idle", "filling", "ok", "failed"}
      /\ status' = "filling" => 0 < len
      /\ status' = "ok" => len = 0
  BY DEF StartFill
<1> QED
  BY <1>1, <1>2, <1>3 DEF FillInv

(* What a system call delivers, where errors are negative: it writes what  *)
(* it is taken to have written, and no more than it was asked for.         *)
LEMMA CallDelivers ==
  ASSUME FillInv, ErrorsNegative, status = "filling", NEW k \in KernelReturns(Asked)
  PROVE  /\ Asked \in Nat /\ Asked <= Len(dest) - offset
         /\ k.wrote \in Nat /\ k.wrote <= Asked
         /\ AfterCall(k.ret, Asked).ok => AfterCall(k.ret, Asked).by = k.wrote
         /\ ~AfterCall(k.ret, Asked).ok => k.wrote = 0
<1>1. Asked \in Nat /\ Asked <= Len(dest) - offset
  BY EntropyAssumption DEF FillInv, Asked
<1>2. CASE sys = "getrandom"
  <2>1. k \in Delivered(Asked) \cup {[ret |-> -e, wrote |-> 0] : e \in Errnos}
    BY <1>2 DEF KernelReturns
  <2>2. CASE k \in Delivered(Asked)
    <3>1. PICK n \in 1 .. Asked : k = [ret |-> n, wrote |-> n]
      BY <2>2 DEF Delivered
    <3>2. k.ret = n /\ k.wrote = n
      BY <3>1
    <3>3. n \in Int /\ n > 0
      BY <1>1
    <3>4. AfterCall(n, Asked).by = n /\ AfterCall(n, Asked).ok
      BY <1>2, <3>3 DEF AfterCall
    <3> QED
      BY <1>1, <3>2, <3>4
  <2>3. CASE k \in {[ret |-> -e, wrote |-> 0] : e \in Errnos}
    <3>1. PICK e \in Errnos : k = [ret |-> -e, wrote |-> 0]
      BY <2>3
    <3>2. k.ret = -e /\ k.wrote = 0
      BY <3>1
    <3>3. e \in Nat /\ e > 0
      BY EntropyAssumption
    <3>4. AfterCall(-e, Asked).by = 0
      BY <1>2, <3>3 DEF AfterCall
    <3> QED
      BY <1>1, <3>2, <3>4
  <2> QED
    BY <2>1, <2>2, <2>3
<1>3. CASE sys = "getentropy"
  <2>1. k \in {[ret |-> 0, wrote |-> Asked], [ret |-> -1, wrote |-> 0]}
    BY <1>3 DEF KernelReturns
  <2>2. /\ AfterCall(k.ret, Asked).ok <=> k.ret = 0
        /\ AfterCall(k.ret, Asked).by = Asked
    BY <1>3 DEF AfterCall
  <2> QED
    BY <1>1, <2>1, <2>2
<1>4. CASE sys = "rtlgenrandom"
  <2>1. k \in {[ret |-> 1, wrote |-> Asked], [ret |-> 0, wrote |-> 0]}
    BY <1>4 DEF KernelReturns
  <2>2. /\ AfterCall(k.ret, Asked).ok <=> k.ret # 0
        /\ AfterCall(k.ret, Asked).by = Asked
    BY <1>4 DEF AfterCall
  <2> QED
    BY <1>1, <2>1, <2>2
<1>5. CASE sys \notin {"getrandom", "getentropy", "rtlgenrandom"}
  BY <1>5, EntropyAssumption DEF KernelReturns, ErrorsNegative, FillInv
<1> QED
  BY <1>2, <1>3, <1>4, <1>5

LEMMA CallFills ==
  ASSUME FillInv, ErrorsNegative, NEW k \in KernelReturns(Asked), SystemCall(k)
  PROVE  FillInv'
<1> DEFINE a   == AfterCall(k.ret, Asked)
           new == offset + 1 .. offset + k.wrote
<1>1. /\ status = "filling" /\ drawn' = drawn + k.wrote /\ UNCHANGED sys
      /\ dest' = [i \in 1 .. Len(dest) |->
                    IF i \in new THEN drawn + (i - offset) ELSE dest[i]]
      /\ offset' = IF a.ok THEN offset + a.by ELSE offset
      /\ status' = IF ~a.ok                     THEN "failed"
                   ELSE IF offset' >= Len(dest) THEN "ok"
                   ELSE "filling"
  BY DEF SystemCall
<1>2. /\ k.wrote \in Nat /\ k.wrote <= Len(dest) - offset
      /\ offset' = offset + k.wrote
  BY <1>1, CallDelivers DEF FillInv
<1>3. Len(dest) \in Nat /\ \A i \in 1 .. Len(dest) : dest[i] \in Nat
  BY DEF FillInv
<1>4. /\ dest' \in Seq(Nat) /\ Len(dest') = Len(dest)
      /\ \A i \in 1 .. Len(dest) :
           dest'[i] = IF i \in new THEN drawn + (i - offset) ELSE dest[i]
  BY <1>1, <1>2, <1>3 DEF FillInv
<1>5. \A i \in 1 .. Len(dest) : dest'[i] # 0 <=> i <= offset'
  <2> SUFFICES ASSUME NEW i \in 1 .. Len(dest)
               PROVE  dest'[i] # 0 <=> i <= offset'
    OBVIOUS
  <2>1. drawn \in Nat /\ offset \in Nat /\ (dest[i] # 0 <=> i <= offset)
    BY <1>1 DEF FillInv
  <2> QED
    BY <1>2, <1>3, <1>4, <2>1
<1>6. \A i \in 1 .. Len(dest) : dest'[i] <= drawn'
  BY <1>1, <1>2, <1>3, <1>4 DEF FillInv
<1>7. \A i, j \in 1 .. Len(dest) :
        i < j /\ dest'[i] # 0 /\ dest'[j] # 0 => dest'[i] < dest'[j]
  <2> SUFFICES ASSUME NEW i \in 1 .. Len(dest), NEW j \in 1 .. Len(dest),
                      i < j, dest'[i] # 0, dest'[j] # 0
               PROVE  dest'[i] < dest'[j]
    OBVIOUS
  <2>1. i <= offset' /\ j <= offset' /\ drawn \in Nat /\ offset \in Nat
    BY <1>5 DEF FillInv
  <2>2. CASE j <= offset
    BY <1>3, <1>4, <2>1, <2>2 DEF FillInv
  <2>3. CASE j > offset /\ i <= offset
    <3>1. dest'[i] = dest[i] /\ dest[i] <= drawn /\ dest'[j] = drawn + (j - offset)
      BY <1>2, <1>4, <2>1, <2>3 DEF FillInv
    <3> QED
      BY <1>3, <2>1, <2>3, <3>1
  <2>4. CASE i > offset
    BY <1>2, <1>4, <2>1, <2>4
  <2> QED
    BY <1>3, <2>1, <2>2, <2>3, <2>4
<1>8. /\ status' \in {"filling", "ok", "failed"}
      /\ status' = "filling" => offset' < Len(dest)
      /\ status' = "ok" => offset' = Len(dest)
  <2>1. status' \in {"filling", "ok", "failed"}
    BY <1>1
  <2>2. offset' \in Nat /\ offset' <= Len(dest)
    BY <1>2, <1>3 DEF FillInv
  <2>3. status' = "filling" => ~(offset' >= Len(dest))
    BY <1>1
  <2>4. status' = "ok" => offset' >= Len(dest)
    BY <1>1
  <2> QED
    BY <1>3, <2>1, <2>2, <2>3, <2>4
<1>9. /\ sys' \in Platforms /\ drawn' \in Nat /\ offset' \in Nat
      /\ offset' <= Len(dest') /\ dest' \in Seq(Nat) /\ Len(dest') = Len(dest)
  <2>1. sys \in Platforms /\ drawn \in Nat /\ offset \in Nat
    BY DEF FillInv
  <2>2. sys' \in Platforms /\ drawn' \in Nat
    BY <1>1, <1>2, <2>1
  <2>3. offset' \in Nat /\ offset' <= Len(dest)
    BY <1>2, <1>3, <2>1
  <2> QED
    BY <1>4, <2>2, <2>3
<1>10. \A i \in 1 .. Len(dest') : dest'[i] # 0 <=> i <= offset'
  BY <1>5, <1>9
<1>11. \A i \in 1 .. Len(dest') : dest'[i] <= drawn'
  BY <1>6, <1>9
<1>12. \A i, j \in 1 .. Len(dest') :
         i < j /\ dest'[i] # 0 /\ dest'[j] # 0 => dest'[i] < dest'[j]
  BY <1>7, <1>9
<1>13. /\ status' \in {"idle", "filling", "ok", "failed"}
       /\ status' = "filling" => offset' < Len(dest')
       /\ status' = "ok" => offset' = Len(dest')
  BY <1>8, <1>9
<1> QED
  BY <1>9, <1>10, <1>11, <1>12, <1>13 DEF FillInv

LEMMA FillPreserved == FillInv /\ ErrorsNegative /\ [EntropyNext]_evars => FillInv'
<1> SUFFICES ASSUME FillInv, ErrorsNegative, [EntropyNext]_evars PROVE FillInv'
  OBVIOUS
<1>1. CASE \E len \in Lengths : Extract(len)
  BY <1>1, ExtractFills, EntropyAssumption DEF Extract
<1>2. CASE FillStep
  BY <1>2, CallFills DEF FillStep
<1>3. CASE Release
  BY <1>3 DEF Release, DropDest, FillInv
<1>4. CASE UNCHANGED evars
  BY <1>4 DEF evars, FillInv
<1> QED
  BY <1>1, <1>2, <1>3, <1>4 DEF EntropyNext

LEMMA PlatformFixed == [EntropyNext]_evars => UNCHANGED sys
  BY DEF EntropyNext, Extract, StartFill, FillStep, SystemCall, Release, DropDest, evars

LEMMA FillInvImplies == FillInv => OkMeansFilled /\ FilledPrefix
  BY DEF FillInv, OkMeansFilled, FilledPrefix

(* Ok(()) means that the buffer was filled, with bytes of the system, none *)
(* of them twice; and between two system calls exactly the bytes below the *)
(* offset are filled.                                                      *)
THEOREM FillBytesFills ==
  ASSUME "getrandom_carry" \notin Platforms
  PROVE  EntropySpec => [](OkMeansFilled /\ FilledPrefix)
<1>1. EntropyInit => FillInv /\ ErrorsNegative
  BY FillInitially DEF EntropyInit, ErrorsNegative
<1>2. (FillInv /\ ErrorsNegative) /\ [EntropyNext]_evars => (FillInv /\ ErrorsNegative)'
  BY FillPreserved, PlatformFixed DEF ErrorsNegative
<1> QED
  BY <1>1, <1>2, FillInvImplies, PTL DEF EntropySpec

-----------------------------------------------------------------------------
(* The DRBG.                                                               *)

(* The bound on changes still leaves room for a reseed under way.          *)
DrbgInv ==
  /\ DrbgTypeOK
  /\ SeedLifetime
  /\ call = "reseed" => changes < MaxChanges

LEMMA NoneIsOption == None \in Options
  BY DEF Options

LEMMA ErrorsAreResults ==
  ASSUME NEW x, NEW y, NEW z
  PROVE  /\ InstantiateError(x, y, z) \in Results
         /\ ReseedError(x, y) \in Results
         /\ GenerateError(x, y) \in Results
  BY DEF InstantiateError, ReseedError, GenerateError, Results

LEMMA FillStarts ==
  ASSUME NEW len, StartFill(len)
  PROVE  status' \in {"failed", "ok", "filling"}
  BY DEF StartFill

LEMMA DrbgInitially == DrbgInit => DrbgInv
<1> SUFFICES ASSUME DrbgInit PROVE DrbgInv
  OBVIOUS
<1>1. /\ status = "idle" /\ live = FALSE /\ reseed_counter = 0
      /\ call = "none" /\ extra = None /\ result = "none"
      /\ served = 0 /\ changes = 0
  BY DEF DrbgInit, EntropyInit
<1>2. 0 \in 0 .. RESEED_INTERVAL + 1 /\ 0 \in 0 .. MaxChanges
  BY DrbgAssumption
<1>3. extra \in Options /\ result \in Results
  BY <1>1, NoneIsOption DEF Results
<1>4. live <=> reseed_counter > 0
  BY <1>1
<1>5. DrbgTypeOK
  BY <1>1, <1>2, <1>3, <1>4 DEF DrbgTypeOK
<1> QED
  BY <1>1, <1>5 DEF DrbgInv, SeedLifetime

(* A generate request that is served finds the counter at the interval at  *)
(* most: that check comes before anything changes.                         *)
LEMMA ServedWithinInterval ==
  ASSUME NEW n, NEW ai, GenerateError(n, ai) = "Ok"
  PROVE  ~(reseed_counter > RESEED_INTERVAL)
  BY DEF GenerateError

LEMMA GeneratePreserves ==
  ASSUME DrbgInv, NEW n, NEW ai, live, Idle, changes < MaxChanges, Generate(n, ai)
  PROVE  DrbgInv'
<1> DEFINE r == GenerateError(n, ai)
<1>1. r \in Results
  BY ErrorsAreResults
<1>2. Return(r) /\ UNCHANGED status /\ call = "none"
  BY DEF Generate, Idle, evars
<1>3. CASE r = "Ok"
  <2>1. reseed_counter' = reseed_counter + 1 /\ served' = served + 1
        /\ changes' = changes + 1 /\ UNCHANGED live
    BY <1>3 DEF Generate
  <2>2. ~(reseed_counter > RESEED_INTERVAL)
    BY <1>3, ServedWithinInterval
  <2> QED
    BY <1>1, <1>2, <2>1, <2>2, NoneIsOption, DrbgAssumption
    DEF DrbgInv, DrbgTypeOK, SeedLifetime, Return
<1>4. CASE r # "Ok"
  <2>1. UNCHANGED <<drbg, hist>>
    BY <1>4 DEF Generate
  <2> QED
    BY <1>1, <1>2, <2>1, NoneIsOption, DrbgAssumption
    DEF DrbgInv, DrbgTypeOK, SeedLifetime, Return, drbg, hist
<1> QED
  BY <1>3, <1>4

(* Both callers of reseed leave the system's buffer given back.            *)
LEMMA ReseedPreserves ==
  ASSUME DrbgInv, NEW ent, NEW ai, NEW taken, live, changes < MaxChanges,
         Reseed(ent, ai, taken), status' = "idle"
  PROVE  DrbgInv'
<1> DEFINE r == ReseedError(ent, ai)
<1>1. r \in Results /\ Return(r)
  BY ErrorsAreResults DEF Reseed
<1>2. CASE r = "Ok"
  <2>1. reseed_counter' = 1 /\ served' = 0 /\ changes' = changes + 1
        /\ UNCHANGED live
    BY <1>2 DEF Reseed
  <2> QED
    BY <1>1, <2>1, NoneIsOption, DrbgAssumption
    DEF DrbgInv, DrbgTypeOK, SeedLifetime, Return
<1>3. CASE r # "Ok"
  <2>1. UNCHANGED <<drbg, hist>>
    BY <1>3 DEF Reseed
  <2> QED
    BY <1>1, <2>1, NoneIsOption, DrbgAssumption
    DEF DrbgInv, DrbgTypeOK, SeedLifetime, Return, drbg, hist
<1> QED
  BY <1>2, <1>3

LEMMA InstantiatePreserves ==
  ASSUME DrbgInv, NEW ent, NEW nonce, NEW ps, NEW taken, ~live,
         Instantiate(ent, nonce, ps, taken), status' = "idle"
  PROVE  DrbgInv'
<1> DEFINE r == InstantiateError(ent, nonce, ps)
<1>1. r \in Results /\ Return(r)
  BY ErrorsAreResults DEF Instantiate
<1>2. CASE r = "Ok"
  <2>1. reseed_counter' = 1 /\ served' = 0 /\ changes' = 0 /\ live' = TRUE
    BY <1>2 DEF Instantiate
  <2> QED
    BY <1>1, <2>1, NoneIsOption, DrbgAssumption
    DEF DrbgInv, DrbgTypeOK, SeedLifetime, Return
<1>3. CASE r # "Ok"
  <2>1. UNCHANGED <<drbg, hist>>
    BY <1>3 DEF Instantiate
  <2> QED
    BY <1>1, <2>1, NoneIsOption, DrbgAssumption
    DEF DrbgInv, DrbgTypeOK, SeedLifetime, Return, drbg, hist
<1> QED
  BY <1>2, <1>3

LEMMA DrbgStep == DrbgInv /\ [DrbgNext]_vars => DrbgInv'
<1> SUFFICES ASSUME DrbgInv, [DrbgNext]_vars PROVE DrbgInv'
  OBVIOUS
<1>1. CASE NewFromOs
  <2>1. status' \in {"failed", "ok", "filling"}
    BY <1>1, FillStarts DEF NewFromOs
  <2> QED
    BY <1>1, <2>1, DrbgAssumption
    DEF NewFromOs, DrbgInv, DrbgTypeOK, SeedLifetime, drbg, hist
<1>2. CASE NewFromEntropy
  <2>1. PICK e \in Seeds, n \in Seeds, ps \in Options : Instantiate(e, n, ps, <<>>)
    BY <1>2 DEF NewFromEntropy
  <2>2. ~live /\ status' = "idle"
    BY <1>2 DEF NewFromEntropy, Idle, evars, DrbgInv, DrbgTypeOK
  <2> QED
    BY <2>1, <2>2, InstantiatePreserves
<1>3. CASE ReseedFromOs
  <2>1. status' \in {"failed", "ok", "filling"}
    BY <1>3, FillStarts DEF ReseedFromOs
  <2> QED
    BY <1>3, <2>1, DrbgAssumption
    DEF ReseedFromOs, DrbgInv, DrbgTypeOK, SeedLifetime, drbg, hist
<1>4. CASE CallReseed
  <2>1. PICK e \in Seeds, ai \in Options : Reseed(e, ai, <<>>)
    BY <1>4 DEF CallReseed
  <2>2. live /\ changes < MaxChanges /\ status' = "idle"
    BY <1>4 DEF CallReseed, Idle, evars, DrbgInv, DrbgTypeOK
  <2> QED
    BY <2>1, <2>2, ReseedPreserves
<1>5. CASE CallGenerate
  <2>1. PICK n \in Requests, ai \in Options : Generate(n, ai)
    BY <1>5 DEF CallGenerate
  <2> QED
    BY <1>5, <2>1, GeneratePreserves DEF CallGenerate
<1>6. CASE DropInstance
  <2>1. /\ live' = FALSE /\ reseed_counter' = 0 /\ result' = "dropped"
        /\ served' = 0 /\ changes' = 0 /\ UNCHANGED <<call, extra, status>>
        /\ call = "none"
    BY <1>6 DEF DropInstance, Idle, evars
  <2>2. 0 \in 0 .. RESEED_INTERVAL + 1 /\ 0 \in 0 .. MaxChanges
    BY DrbgAssumption
  <2>3. live' <=> reseed_counter' > 0
    BY <2>1
  <2> QED
    BY <2>1, <2>2, <2>3 DEF DrbgInv, DrbgTypeOK, SeedLifetime, Results
<1>7. CASE AskSystem
  <2>1. status = "filling" /\ status' \in {"failed", "ok", "filling"}
    BY <1>7 DEF AskSystem, FillStep, SystemCall
  <2> QED
    BY <1>7, <2>1, DrbgAssumption
    DEF AskSystem, DrbgInv, DrbgTypeOK, SeedLifetime, drbg, hist
<1>8. CASE SystemFailed
  BY <1>8, NoneIsOption, DrbgAssumption
  DEF SystemFailed, DropDest, Return, DrbgInv, DrbgTypeOK, SeedLifetime,
      drbg, hist, Results
<1>9. CASE GotEntropy
  <2>1. status' \in {"failed", "ok", "filling"}
    BY <1>9, FillStarts DEF GotEntropy
  <2> QED
    BY <1>9, <2>1, DrbgAssumption
    DEF GotEntropy, DrbgInv, DrbgTypeOK, SeedLifetime, drbg, hist
<1>10. CASE GotNonce
  <2>1. ~live /\ status' = "idle"
    BY <1>10 DEF GotNonce, DropDest, DrbgInv, DrbgTypeOK
  <2> QED
    BY <1>10, <2>1, InstantiatePreserves DEF GotNonce
<1>11. CASE GotReseed
  <2>1. live /\ status' = "idle" /\ changes < MaxChanges
    BY <1>11 DEF GotReseed, DropDest, DrbgInv, DrbgTypeOK
  <2> QED
    BY <1>11, <2>1, ReseedPreserves DEF GotReseed
<1>12. CASE UNCHANGED vars
  BY <1>12 DEF vars, evars, drbg, hist, DrbgInv, DrbgTypeOK, SeedLifetime
<1> QED
  BY <1>1, <1>2, <1>3, <1>4, <1>5, <1>6, <1>7, <1>8, <1>9, <1>10, <1>11, <1>12
  DEF DrbgNext

(* The type invariant, for every value of the parameters.                  *)
THEOREM DrbgTypeCorrect == DrbgSpec => []DrbgTypeOK
<1>1. DrbgInv => DrbgTypeOK
  BY DEF DrbgInv
<1> QED
  BY <1>1, DrbgInitially, DrbgStep, PTL DEF DrbgSpec

(* No seed serves more requests than the reseed interval, and the counter  *)
(* counts exactly those served: generate's check, and the resets of        *)
(* instantiate and reseed, are enough, whatever fails between them.        *)
THEOREM SeedLifetimeHolds == DrbgSpec => []SeedLifetime
<1>1. DrbgInv => SeedLifetime
  BY DEF DrbgInv
<1> QED
  BY <1>1, DrbgInitially, DrbgStep, PTL DEF DrbgSpec

(* instantiate, reseed and generate change the instance or return an       *)
(* error, never both; and so do the calls that ask the system.             *)
LEMMA StepsChangeOnSuccess ==
  [DrbgNext]_vars => UNCHANGED drbg \/ result' \in {"Ok", "dropped"}
<1> SUFFICES ASSUME [DrbgNext]_vars, ~UNCHANGED drbg
             PROVE  result' \in {"Ok", "dropped"}
  OBVIOUS
<1>1. ASSUME NEW ent, NEW nonce, NEW ps, NEW taken, Instantiate(ent, nonce, ps, taken)
      PROVE  result' = "Ok"
  BY <1>1 DEF Instantiate, Return, drbg
<1>2. ASSUME NEW ent, NEW ai, NEW taken, Reseed(ent, ai, taken)
      PROVE  result' = "Ok"
  BY <1>2 DEF Reseed, Return, drbg
<1>3. ASSUME NEW n, NEW ai, Generate(n, ai) PROVE result' = "Ok"
  BY <1>3 DEF Generate, Return, drbg
<1>4. ~UNCHANGED vars
  BY DEF vars, drbg
<1>5. ~NewFromOs /\ ~ReseedFromOs /\ ~AskSystem /\ ~SystemFailed /\ ~GotEntropy
  BY DEF NewFromOs, ReseedFromOs, AskSystem, SystemFailed, GotEntropy
<1>6. CASE NewFromEntropy
  BY <1>6, <1>1 DEF NewFromEntropy
<1>7. CASE CallReseed
  BY <1>7, <1>2 DEF CallReseed
<1>8. CASE CallGenerate
  BY <1>8, <1>3 DEF CallGenerate
<1>9. CASE DropInstance
  BY <1>9 DEF DropInstance
<1>10. CASE GotNonce
  BY <1>10, <1>1 DEF GotNonce
<1>11. CASE GotReseed
  BY <1>11, <1>2 DEF GotReseed
<1> QED
  BY <1>4, <1>5, <1>6, <1>7, <1>8, <1>9, <1>10, <1>11 DEF DrbgNext

(* A call that fails leaves V, C and the counter as they were.             *)
THEOREM FailuresChangeNothing == DrbgSpec => FailureChangesNothing
  BY StepsChangeOnSuccess, PTL DEF DrbgSpec, FailureChangesNothing

-----------------------------------------------------------------------------
(* Output blocks.  V is a sum of digests and an integer, and the integer   *)
(* says little: hashgen's count and the reseed counter reach the same sums,*)
(* and a reseed starts from 0 again.  What tells two hash inputs apart is  *)
(* the digests they are sums of.                                           *)
(*   - Within one seeding every generate request adds one more copy of C   *)
(*     to V, and nothing else does: the digest C is of a term that begins  *)
(*     with 0, those of additional inputs and of V itself with 2 and 3.    *)
(*   - V also keeps the digest of its seeding, whose term begins with -1   *)
(*     or 1.  The term of the next seeding contains the V before it, so it *)
(*     is none of the terms in use until then.                             *)
SeedTerm(t)  == t.prefix \in {-1, 1}
SeedsIn(x)   == {t \in DOMAIN x.sum : SeedTerm(t)}
Copies(t, x) == IF t \in DOMAIN x.sum THEN x.sum[t] ELSE 0
IsValue(x)   == x = [sum |-> x.sum, num |-> x.num]
IsSequence(q) == \E T : q \in Seq(T)

(* The instance was seeded with the terms of taken, the last one s, and C  *)
(* is the digest of k: every hash input used so far has the digests of     *)
(* seedings up to s only, and those with s fewer copies of C than V has.   *)
UsedOnce(taken, s, k) ==
  /\ IsValue(v)
  /\ s \in SeedsIn(v) /\ SeedsIn(v) \subseteq taken
  /\ \A t \in taken : SeedTerm(t)
  /\ \A t \in taken : t.prefix = 1 => SeedsIn(t.value) \subseteq taken \ {s}
  /\ k.prefix = 0 /\ c = Digest(k)
  /\ Copies(k, v) = served
  /\ \A i \in 1 .. Len(outputs) : \A x \in outputs[i] :
       SeedsIn(x) \subseteq taken /\ (s \in SeedsIn(x) => Copies(k, x) \in 0 .. served - 1)

(* What the operations on sums do to the copies of a term.                 *)
LEMMA DigestCounts ==
  ASSUME NEW t
  PROVE  /\ IsValue(Digest(t)) /\ DOMAIN Digest(t).sum = {t}
         /\ \A k : Copies(k, Digest(t)) = IF k = t THEN 1 ELSE 0
  BY DEF Digest, IsValue, Copies, SetToBag

LEMMA PlusCounts ==
  ASSUME NEW x, NEW t
  PROVE  LET y == Plus(x, Digest(t))
         IN  /\ IsValue(y) /\ DOMAIN y.sum = DOMAIN x.sum \cup {t}
             /\ \A k : k # t /\ Copies(k, x) \in Nat => Copies(k, y) = Copies(k, x)
             /\ Copies(t, y) = Copies(t, x) + 1
<1> DEFINE d == Digest(t)
           y == Plus(x, d)
<1>1. DOMAIN d.sum = {t} /\ d.sum[t] = 1
  BY DEF Digest, SetToBag
<1>2. y = [sum |-> x.sum (+) d.sum, num |-> x.num + d.num]
  BY DEF Plus
<1>3. y.sum = [e \in (DOMAIN x.sum) \cup {t} |->
                 (IF e \in DOMAIN x.sum THEN x.sum[e] ELSE 0)
               + (IF e \in {t} THEN d.sum[e] ELSE 0)]
  BY <1>1, <1>2 DEF (+)
<1>4. IsValue(y) /\ DOMAIN y.sum = DOMAIN x.sum \cup {t}
  BY <1>2, <1>3 DEF IsValue
<1>5. ASSUME NEW k, k # t, Copies(k, x) \in Nat PROVE Copies(k, y) = Copies(k, x)
  <2>1. CASE k \in DOMAIN x.sum
    <3>1. y.sum[k] = x.sum[k] + 0 /\ Copies(k, x) = x.sum[k] /\ Copies(k, y) = y.sum[k]
      BY <1>3, <1>4, <1>5, <2>1 DEF Copies
    <3> QED
      BY <1>5, <3>1
  <2>2. CASE k \notin DOMAIN x.sum
    BY <1>4, <1>5, <2>2 DEF Copies
  <2> QED
    BY <2>1, <2>2
<1>6. Copies(t, y) = Copies(t, x) + 1
  BY <1>1, <1>3, <1>4 DEF Copies
<1> QED
  BY <1>4, <1>5, <1>6

LEMMA AddU64Counts ==
  ASSUME NEW x, IsValue(x), NEW n
  PROVE  LET y == PlusU64(x, n)
         IN  IsValue(y) /\ y.sum = x.sum
<1> DEFINE y == PlusU64(x, n)
<1>1. y = [[sum |-> x.sum, num |-> x.num] EXCEPT !.num = @ + n]
  BY DEF PlusU64, IsValue
<1>2. y = [sum |-> x.sum, num |-> x.num + n]
  BY <1>1
<1> QED
  BY <1>2 DEF IsValue

LEMMA TermFields ==
  ASSUME NEW p, NEW x, NEW b
  PROVE  Term(p, x, b).prefix = p /\ Term(p, x, b).value = x
  BY DEF Term

(* A seeding whose term is new: no hash input used so far contains it.     *)
LEMMA Seeded ==
  ASSUME NEW taken, NEW t, NEW k, SeedTerm(t), t \notin taken,
         \A u \in taken : SeedTerm(u) /\ (u.prefix = 1 => SeedsIn(u.value) \subseteq taken),
         t.prefix = 1 => SeedsIn(t.value) \subseteq taken,
         \A i \in 1 .. Len(outputs') : \A x \in outputs'[i] : SeedsIn(x) \subseteq taken,
         v' = Digest(t), c' = Digest(k), k.prefix = 0, served' = 0
  PROVE  UsedOnce(taken \cup {t}, t, k)'
<1>1. IsValue(v') /\ DOMAIN v'.sum = {t}
  BY DigestCounts
<1>2. SeedsIn(v') = {t}
  BY <1>1 DEF SeedsIn
<1>3. k # t
  BY DEF SeedTerm
<1>4. Copies(k, v') = 0
  BY <1>1, <1>3 DEF Copies
<1>5. \A i \in 1 .. Len(outputs') : \A x \in outputs'[i] :
         t \notin SeedsIn(x)
  OBVIOUS
<1> QED
  BY <1>1, <1>2, <1>4, <1>5 DEF UsedOnce

(* An additional input adds neither a seeding nor a copy of C.             *)
LEMMA MixKeeps ==
  ASSUME NEW taken, NEW s, NEW k, UsedOnce(taken, s, k), served \in Nat, NEW ai
  PROVE  LET m == MixInput(ai)
         IN  IsValue(m) /\ SeedsIn(m) = SeedsIn(v) /\ Copies(k, m) = served
<1> DEFINE m == MixInput(ai)
           t == Term(2, v, UnwrapOr(ai, <<>>))
<1>1. CASE ai = None
  BY <1>1 DEF MixInput, UsedOnce
<1>2. CASE ai # None
  <2>1. m = Plus(v, Digest(t))
    BY <1>2 DEF MixInput, Hash
  <2>2. ~SeedTerm(t) /\ t # k
    BY TermFields DEF SeedTerm, UsedOnce
  <2>3. IsValue(m) /\ DOMAIN m.sum = DOMAIN v.sum \cup {t}
    BY <2>1, PlusCounts
  <2>4. Copies(k, m) = Copies(k, v)
    BY <2>1, <2>2, PlusCounts DEF UsedOnce
  <2> QED
    BY <2>2, <2>3, <2>4 DEF SeedsIn, UsedOnce
<1> QED
  BY <1>1, <1>2

(* The end of generate adds exactly one copy of C, and no seeding.         *)
LEMMA AdvanceKeeps ==
  ASSUME NEW x, NEW k, Copies(k, x) \in Nat, k.prefix = 0, c = Digest(k)
  PROVE  LET y == Advance(x)
         IN  /\ IsValue(y) /\ SeedsIn(y) = SeedsIn(x)
             /\ Copies(k, y) = Copies(k, x) + 1
<1> DEFINE t  == Term(3, x, <<>>)
           y1 == Plus(x, Digest(t))
           y2 == Plus(y1, Digest(k))
<1>1. Advance(x) = PlusU64(y2, reseed_counter)
  BY DEF Advance, Hash
<1>2. ~SeedTerm(t) /\ ~SeedTerm(k) /\ k # t
  BY TermFields DEF SeedTerm
<1>3. DOMAIN y1.sum = DOMAIN x.sum \cup {t} /\ Copies(k, y1) = Copies(k, x)
  BY <1>2, PlusCounts
<1>4. /\ IsValue(y2) /\ DOMAIN y2.sum = DOMAIN x.sum \cup {t, k}
      /\ Copies(k, y2) = Copies(k, x) + 1
  BY <1>3, PlusCounts
<1>5. IsValue(Advance(x)) /\ Advance(x).sum = y2.sum
  BY <1>1, <1>4, AddU64Counts
<1> QED
  BY <1>2, <1>4, <1>5 DEF SeedsIn, Copies

(* The hash inputs of one request differ in the integer only.              *)
LEMMA HashgenSums ==
  ASSUME NEW x, IsValue(x), NEW n, NEW y \in Hashgen(x, n)
  PROVE  y.sum = x.sum
  BY AddU64Counts DEF Hashgen

LEMMA AppendKeeps ==
  ASSUME NEW q, IsSequence(q), NEW e
  PROVE  /\ IsSequence(Append(q, e)) /\ Len(q) \in Nat
         /\ Len(Append(q, e)) = Len(q) + 1
         /\ \A i \in 1 .. Len(q) : Append(q, e)[i] = q[i]
         /\ Append(q, e)[Len(q) + 1] = e
<1>1. PICK T : q \in Seq(T)
  BY DEF IsSequence
<1>2. q \in Seq(T \cup {e}) /\ e \in T \cup {e}
  BY <1>1
<1>3. Append(q, e) \in Seq(T \cup {e})
  BY <1>2
<1> QED
  BY <1>2, <1>3 DEF IsSequence

(* So the hash inputs of a request differ from all those used before.      *)
LEMMA GenerateUses ==
  ASSUME NEW taken, NEW s, NEW k, UsedOnce(taken, s, k), served \in Nat,
         IsSequence(outputs), NoBlockTwice, NEW n, NEW ai, Generate(n, ai)
  PROVE  (UsedOnce(taken, s, k) /\ IsSequence(outputs) /\ NoBlockTwice)'
<1>1. CASE GenerateError(n, ai) # "Ok"
  BY <1>1 DEF Generate, UsedOnce, drbg, hist, NoBlockTwice
<1>2. CASE GenerateError(n, ai) = "Ok"
  <2> DEFINE mixed == MixInput(ai)
             new   == Hashgen(mixed, n)
             old   == Len(outputs)
  <2>1. /\ outputs' = Append(outputs, new) /\ v' = Advance(mixed)
        /\ served' = served + 1 /\ c' = c
    BY <1>2 DEF Generate
  <2>2. IsValue(mixed) /\ SeedsIn(mixed) = SeedsIn(v) /\ Copies(k, mixed) = served
    BY MixKeeps
  <2>3. IsValue(v') /\ SeedsIn(v') = SeedsIn(v) /\ Copies(k, v') = served'
    BY <2>1, <2>2, AdvanceKeeps DEF UsedOnce
  <2>4. \A y \in new : SeedsIn(y) = SeedsIn(v) /\ Copies(k, y) = served
    BY <2>2, HashgenSums DEF SeedsIn, Copies
  <2>5. /\ IsSequence(outputs') /\ old \in Nat /\ Len(outputs') = old + 1
        /\ \A i \in 1 .. old : outputs'[i] = outputs[i]
        /\ outputs'[old + 1] = new
    BY <2>1, AppendKeeps
  <2>6. ASSUME NEW i \in 1 .. Len(outputs'), NEW x \in outputs'[i]
        PROVE  /\ SeedsIn(x) \subseteq taken
               /\ s \in SeedsIn(x) => Copies(k, x) \in 0 .. served' - 1
    <3>1. CASE i = old + 1
      BY <2>1, <2>4, <2>5, <2>6, <3>1 DEF UsedOnce
    <3>2. CASE i \in 1 .. old
      <4>1. x \in outputs[i]
        BY <2>5, <2>6, <3>2
      <4>2. SeedsIn(x) \subseteq taken /\ (s \in SeedsIn(x) => Copies(k, x) \in 0 .. served - 1)
        BY <3>2, <4>1 DEF UsedOnce
      <4>3. ASSUME s \in SeedsIn(x) PROVE Copies(k, x) \in 0 .. served' - 1
        <5>1. Copies(k, x) \in 0 .. served - 1
          BY <4>2, <4>3
        <5> QED
          BY <2>1, <5>1
      <4> QED
        BY <4>2, <4>3
    <3> QED
      BY <2>5, <2>6, <3>1, <3>2
  <2>7. ASSUME NEW i \in 1 .. Len(outputs'), NEW j \in 1 .. Len(outputs'), i < j
        PROVE  outputs'[i] \cap outputs'[j] = {}
    <3>1. CASE j = old + 1
      <4>1. ASSUME NEW x \in outputs[i], x \in new PROVE FALSE
        <5>1. s \in SeedsIn(x) /\ Copies(k, x) = served
          BY <2>4, <4>1 DEF UsedOnce
        <5>2. i \in 1 .. old
          BY <2>5, <2>7, <3>1
        <5>3. Copies(k, x) \in 0 .. served - 1
          BY <4>1, <5>1, <5>2 DEF UsedOnce
        <5> QED
          BY <5>1, <5>3
      <4> QED
        BY <2>5, <2>7, <3>1, <4>1
    <3>2. CASE j \in 1 .. old
      BY <2>5, <2>7, <3>2 DEF NoBlockTwice
    <3> QED
      BY <2>5, <2>7, <3>1, <3>2
  <2>8. UsedOnce(taken, s, k)'
    BY <2>1, <2>3, <2>6 DEF UsedOnce
  <2> QED
    BY <2>5, <2>7, <2>8 DEF NoBlockTwice
<1> QED
  BY <1>1, <1>2

(* The inductive invariant behind NoBlockTwice.                            *)
OnceInv ==
  /\ IsSequence(outputs)
  /\ NoBlockTwice
  /\ live => \E taken, s, k : UsedOnce(taken, s, k)

LEMMA EmptyIsSequence == IsSequence(<<>>)
<1>1. <<>> \in Seq({})
  OBVIOUS
<1> QED
  BY <1>1 DEF IsSequence

LEMMA OnceInitially == DrbgInit => OnceInv
  BY EmptyIsSequence DEF DrbgInit, OnceInv, NoBlockTwice

LEMMA OnceKept ==
  ASSUME OnceInv, UNCHANGED <<drbg, hist>> PROVE OnceInv'
<1>1. UNCHANGED <<live, v, c, outputs, served>>
  BY DEF drbg, hist
<1>2. ASSUME NEW taken, NEW s, NEW k, UsedOnce(taken, s, k)
      PROVE  UsedOnce(taken, s, k)'
  BY <1>1, <1>2 DEF UsedOnce
<1> QED
  BY <1>1, <1>2 DEF OnceInv, NoBlockTwice

LEMMA InstantiateOnce ==
  ASSUME OnceInv, NEW ent, NEW nonce, NEW ps, NEW taken,
         Instantiate(ent, nonce, ps, taken)
  PROVE  OnceInv'
<1>1. CASE InstantiateError(ent, nonce, ps) # "Ok"
  BY <1>1, OnceKept DEF Instantiate
<1>2. CASE InstantiateError(ent, nonce, ps) = "Ok"
  <2>1. PICK t : t = Term(-1, Zero, ent \o nonce \o UnwrapOr(ps, <<>>))
    OBVIOUS
  <2>2. PICK k : k = Term(0, v', <<>>)
    OBVIOUS
  <2>3. v' = Digest(t) /\ c' = Digest(k) /\ outputs' = <<>> /\ served' = 0
    BY <1>2, <2>1, <2>2 DEF Instantiate, Hash_df
  <2>4. t.prefix = -1 /\ k.prefix = 0
    BY <2>1, <2>2, TermFields
  <2>5. UsedOnce({t}, t, k)'
    <3> DEFINE none == {}
    <3>1. SeedTerm(t) /\ ~(t.prefix = 1)
      BY <2>4 DEF SeedTerm
    <3>2. Len(outputs') = 0
      BY <2>3
    <3>3. \A i \in 1 .. Len(outputs') : \A x \in outputs'[i] : SeedsIn(x) \subseteq none
      BY <3>2
    <3>4. \A u \in none : SeedTerm(u) /\ (u.prefix = 1 => SeedsIn(u.value) \subseteq none)
      OBVIOUS
    <3>5. t \notin none /\ none \cup {t} = {t}
      OBVIOUS
    <3> HIDE DEF none
    <3>6. UsedOnce(none \cup {t}, t, k)'
      BY <2>3, <2>4, <3>1, <3>3, <3>4, <3>5, Seeded
    <3> QED
      BY <3>5, <3>6
  <2> QED
    BY <2>3, <2>5, EmptyIsSequence DEF OnceInv, NoBlockTwice
<1> QED
  BY <1>1, <1>2

(* The term of a reseed contains V, V contains the term of the seeding     *)
(* before, and none of the terms used so far contains that one.            *)
LEMMA ReseedOnce ==
  ASSUME OnceInv, live, NEW ent, NEW ai, NEW given, Reseed(ent, ai, given)
  PROVE  OnceInv'
<1>1. CASE ReseedError(ent, ai) # "Ok"
  BY <1>1, OnceKept DEF Reseed
<1>2. CASE ReseedError(ent, ai) = "Ok"
  <2>1. PICK t : t = Term(1, v, ent \o UnwrapOr(ai, <<>>))
    OBVIOUS
  <2>2. PICK j : j = Term(0, v', <<>>)
    OBVIOUS
  <2>3. PICK taken, s, k : UsedOnce(taken, s, k)
    BY DEF OnceInv
  <2>4. v' = Digest(t) /\ c' = Digest(j) /\ outputs' = outputs /\ served' = 0
    BY <1>2, <2>1, <2>2 DEF Reseed, Hash_df
  <2>5. t.prefix = 1 /\ t.value = v /\ j.prefix = 0
    BY <2>1, <2>2, TermFields
  <2>6. t \notin taken /\ SeedsIn(t.value) \subseteq taken
    BY <2>3, <2>5 DEF UsedOnce
  <2>7. \A u \in taken : SeedTerm(u) /\ (u.prefix = 1 => SeedsIn(u.value) \subseteq taken)
    BY <2>3 DEF UsedOnce
  <2>8. \A i \in 1 .. Len(outputs') : \A x \in outputs'[i] : SeedsIn(x) \subseteq taken
    BY <2>3, <2>4 DEF UsedOnce
  <2>9. SeedTerm(t)
    BY <2>5 DEF SeedTerm
  <2>10. UsedOnce(taken \cup {t}, t, j)'
    BY <2>4, <2>5, <2>6, <2>7, <2>8, <2>9, Seeded
  <2> QED
    BY <2>4, <2>10 DEF OnceInv, NoBlockTwice
<1> QED
  BY <1>1, <1>2

LEMMA OnceStep == DrbgInv /\ OnceInv /\ [DrbgNext]_vars => OnceInv'
<1> SUFFICES ASSUME DrbgInv, OnceInv, [DrbgNext]_vars PROVE OnceInv'
  OBVIOUS
<1>1. CASE UNCHANGED <<drbg, hist>>
  BY <1>1, OnceKept
<1>2. CASE NewFromEntropy
  BY <1>2, InstantiateOnce DEF NewFromEntropy
<1>3. CASE CallReseed
  BY <1>3, ReseedOnce DEF CallReseed
<1>4. CASE CallGenerate
  <2>1. PICK n \in Requests, ai \in Options : Generate(n, ai)
    BY <1>4 DEF CallGenerate
  <2>2. PICK taken, s, k : UsedOnce(taken, s, k)
    BY <1>4 DEF CallGenerate, OnceInv
  <2>3. served \in Nat /\ IsSequence(outputs) /\ NoBlockTwice
    BY DEF DrbgInv, DrbgTypeOK, OnceInv
  <2>4. (UsedOnce(taken, s, k) /\ IsSequence(outputs) /\ NoBlockTwice)'
    BY <2>1, <2>2, <2>3, GenerateUses
  <2> QED
    BY <2>4 DEF OnceInv
<1>5. CASE DropInstance
  BY <1>5, EmptyIsSequence DEF DropInstance, OnceInv, NoBlockTwice
<1>6. CASE GotNonce
  BY <1>6, InstantiateOnce DEF GotNonce
<1>7. CASE GotReseed
  BY <1>7, ReseedOnce DEF GotReseed, DrbgInv, DrbgTypeOK
<1>8. NewFromOs \/ ReseedFromOs \/ AskSystem \/ SystemFailed \/ GotEntropy
        => UNCHANGED <<drbg, hist>>
  BY DEF NewFromOs, ReseedFromOs, AskSystem, SystemFailed, GotEntropy
<1>9. UNCHANGED vars => UNCHANGED <<drbg, hist>>
  BY DEF vars, drbg, hist
<1> QED
  BY <1>1, <1>2, <1>3, <1>4, <1>5, <1>6, <1>7, <1>8, <1>9 DEF DrbgNext

(* No hash input goes into the output of an instance twice, however its    *)
(* generate requests, additional inputs and reseeds follow each other, and *)
(* whatever callers pass: not even the same additional input and the same  *)
(* entropy again make generate repeat a block.                             *)
THEOREM NoBlockTwiceHolds == DrbgSpec => []NoBlockTwice
<1>1. DrbgInit => DrbgInv /\ OnceInv
  BY DrbgInitially, OnceInitially
<1>2. DrbgInv /\ OnceInv /\ [DrbgNext]_vars => (DrbgInv /\ OnceInv)'
  BY DrbgStep, OnceStep
<1>3. OnceInv => NoBlockTwice
  BY DEF OnceInv
<1> QED
  BY <1>1, <1>2, <1>3, PTL DEF DrbgSpec

-----------------------------------------------------------------------------
(* Seeds from the system.                                                  *)

(* Every byte of p was produced before every filled byte of q.             *)
Before(p, q) ==
  \A i \in 1 .. Len(p), j \in 1 .. Len(q) : q[j] # 0 => p[i] < q[j]

(* Bytes the system has produced, in the order in which it produced them.  *)
Drawn(q) ==
  /\ q \in Seq(Nat)
  /\ \A i \in 1 .. Len(q) : q[i] \in 1 .. drawn
  /\ \A i, j \in 1 .. Len(q) : i < j => q[i] < q[j]

IsSeed(q) == Drawn(q) /\ Len(q) >= 2 * MIN_ENTROPY

(* The inductive invariant behind SeedsFresh: the buffer being filled, and *)
(* the entropy new_from_os holds meanwhile, come after every seed so far.  *)
SeedInv ==
  /\ FillInv /\ ErrorsNegative
  /\ seeds \in Seq(Seq(Nat))
  /\ \A k \in 1 .. Len(seeds) : IsSeed(seeds[k]) /\ Before(seeds[k], dest)
  /\ \A k, l \in 1 .. Len(seeds) : k < l => Before(seeds[k], seeds[l])
  /\ call \in {"new_entropy", "reseed"} => Len(dest) = 2 * MIN_ENTROPY
  /\ call = "new_nonce" =>
       /\ Drawn(entropy) /\ Len(entropy) = 2 * MIN_ENTROPY
       /\ Before(entropy, dest)
       /\ \A k \in 1 .. Len(seeds) : Before(seeds[k], entropy)

LEMMA SeedInvImplies == SeedInv => SeedsFresh
<1> SUFFICES ASSUME SeedInv PROVE SeedsFresh
  OBVIOUS
<1>1. ASSUME NEW k \in 1 .. Len(seeds), NEW l \in 1 .. Len(seeds), k < l,
             NEW i \in 1 .. Len(seeds[k]), NEW j \in 1 .. Len(seeds[l])
      PROVE  seeds[k][i] < seeds[l][j]
  <2>1. Before(seeds[k], seeds[l]) /\ seeds[l][j] \in 1 .. drawn /\ drawn \in Nat
    BY <1>1 DEF SeedInv, IsSeed, Drawn, FillInv
  <2>2. seeds[l][j] # 0
    BY <2>1
  <2> QED
    BY <1>1, <2>1, <2>2 DEF Before
<1>2. ASSUME NEW k \in 1 .. Len(seeds)
      PROVE  /\ Len(seeds[k]) >= 2 * MIN_ENTROPY
             /\ \A i \in 1 .. Len(seeds[k]) : seeds[k][i] \in 1 .. drawn
             /\ \A i, j \in 1 .. Len(seeds[k]) : i < j => seeds[k][i] < seeds[k][j]
  BY <1>2 DEF SeedInv, IsSeed, Drawn
<1> QED
  BY <1>1, <1>2 DEF SeedsFresh

LEMMA SeedInitially ==
  ASSUME "getrandom_carry" \notin Platforms PROVE DrbgInit => SeedInv
<1> SUFFICES ASSUME DrbgInit PROVE SeedInv
  OBVIOUS
<1>1. FillInv /\ ErrorsNegative
  BY FillInitially DEF DrbgInit, EntropyInit, ErrorsNegative
<1>2. seeds = <<>> /\ call = "none"
  BY DEF DrbgInit
<1> QED
  BY <1>1, <1>2 DEF SeedInv

(* What a system call changes: it produces bytes, and writes only those.   *)
LEMMA CallGrows ==
  ASSUME FillInv, ErrorsNegative, FillStep
  PROVE  /\ FillInv' /\ ErrorsNegative'
         /\ drawn \in Nat /\ drawn' \in Nat /\ drawn <= drawn'
         /\ Len(dest') = Len(dest)
         /\ \A j \in 1 .. Len(dest) : dest'[j] = dest[j] \/ dest'[j] > drawn
<1>1. PICK k \in KernelReturns(Asked) : SystemCall(k) /\ status = "filling"
  BY DEF FillStep
<1>2. FillInv' /\ ErrorsNegative'
  BY <1>1, CallFills DEF SystemCall, ErrorsNegative
<1>3. k.wrote \in Nat
  BY <1>1, CallDelivers
<1>4. /\ drawn' = drawn + k.wrote
      /\ dest' = [i \in 1 .. Len(dest) |->
                   IF i \in offset + 1 .. offset + k.wrote
                     THEN drawn + (i - offset) ELSE dest[i]]
  BY <1>1 DEF SystemCall
<1>5. drawn \in Nat /\ offset \in Nat /\ dest \in Seq(Nat) /\ dest' \in Seq(Nat)
  BY <1>2 DEF FillInv
<1>6. Len(dest') = Len(dest)
  BY <1>4, <1>5
<1>7. ASSUME NEW j \in 1 .. Len(dest) PROVE dest'[j] = dest[j] \/ dest'[j] > drawn
  <2>1. CASE j \in offset + 1 .. offset + k.wrote
    <3>1. dest'[j] = drawn + (j - offset)
      BY <1>4, <2>1
    <3> QED
      BY <1>3, <1>5, <2>1, <3>1
  <2>2. CASE j \notin offset + 1 .. offset + k.wrote
    BY <1>4, <2>2
  <2> QED
    BY <2>1, <2>2
<1> QED
  BY <1>2, <1>3, <1>4, <1>5, <1>6, <1>7

LEMMA AskKeeps == ASSUME SeedInv, AskSystem PROVE SeedInv'
<1>1. /\ FillInv' /\ ErrorsNegative'
      /\ drawn \in Nat /\ drawn' \in Nat /\ drawn <= drawn'
      /\ Len(dest') = Len(dest)
      /\ \A j \in 1 .. Len(dest) : dest'[j] = dest[j] \/ dest'[j] > drawn
  BY CallGrows DEF AskSystem, SeedInv
<1>2. UNCHANGED <<seeds, call, entropy>>
  BY DEF AskSystem, hist
<1>3. ASSUME NEW q, Drawn(q) PROVE Drawn(q)'
  BY <1>1, <1>3 DEF Drawn
<1>4. ASSUME NEW p, Drawn(p), Before(p, dest) PROVE Before(p, dest')
  <2> SUFFICES ASSUME NEW i \in 1 .. Len(p), NEW j \in 1 .. Len(dest'), dest'[j] # 0
               PROVE  p[i] < dest'[j]
    BY DEF Before
  <2>1. j \in 1 .. Len(dest) /\ p[i] \in 1 .. drawn /\ dest \in Seq(Nat) /\ dest' \in Seq(Nat)
    BY <1>1, <1>4 DEF Drawn, SeedInv, FillInv
  <2>2. CASE dest'[j] = dest[j]
    BY <1>4, <2>1, <2>2 DEF Before
  <2>3. CASE dest'[j] > drawn
    <3>1. dest'[j] \in Nat
      BY <2>1
    <3> QED
      BY <1>1, <2>1, <2>3, <3>1
  <2> QED
    BY <1>1, <2>1, <2>2, <2>3
<1>5. \A k \in 1 .. Len(seeds) : IsSeed(seeds[k])' /\ Before(seeds[k], dest')
  BY <1>2, <1>3, <1>4 DEF SeedInv, IsSeed
<1>6. call = "new_nonce" => Drawn(entropy)' /\ Before(entropy, dest')
  BY <1>2, <1>3, <1>4 DEF SeedInv
<1> QED
  BY <1>1, <1>2, <1>5, <1>6 DEF SeedInv

(* A new buffer holds no byte yet.                                         *)
LEMMA StartKeeps ==
  ASSUME SeedInv, NEW len \in Nat, StartFill(len)
  PROVE  /\ FillInv' /\ ErrorsNegative' /\ drawn' = drawn
         /\ Len(dest') = len /\ \A p : Before(p, dest')
<1>1. FillInv' /\ ErrorsNegative' /\ drawn' = drawn
  BY ExtractFills DEF SeedInv, StartFill, ErrorsNegative
<1>2. dest' = [i \in 1 .. len |-> 0]
  BY DEF StartFill
<1>3. Len(dest') = len
  BY <1>2
<1> QED
  BY <1>1, <1>2, <1>3 DEF Before

LEMMA DropKeeps ==
  ASSUME SeedInv, DropDest
  PROVE  /\ FillInv' /\ ErrorsNegative' /\ drawn' = drawn
         /\ \A p : Before(p, dest')
<1>1. dest' = <<>> /\ offset' = 0 /\ status' = "idle" /\ UNCHANGED <<sys, drawn>>
  BY DEF DropDest
<1>2. FillInv' /\ ErrorsNegative'
  BY <1>1 DEF SeedInv, FillInv, ErrorsNegative
<1> QED
  BY <1>1, <1>2 DEF Before

(* The buffer when the system has filled it.                               *)
LEMMA FilledIsDrawn ==
  ASSUME FillInv, status = "ok"
  PROVE  Drawn(dest) /\ \A j \in 1 .. Len(dest) : dest[j] # 0
<1>1. dest \in Seq(Nat) /\ drawn \in Nat
  BY DEF FillInv
<1>2. OkMeansFilled
  BY FillInvImplies
<1> QED
  BY <1>1, <1>2 DEF Drawn, OkMeansFilled

(* An instantiation or reseed takes a seed in, or refuses it.              *)
LEMMA SeedTaken ==
  ASSUME SeedInv, NEW q, IsSeed(q), DropDest, call' = "none",
         \A k \in 1 .. Len(seeds) : Before(seeds[k], q),
         seeds' = seeds \o <<q>> \/ seeds' = seeds
  PROVE  SeedInv'
<1>1. FillInv' /\ ErrorsNegative' /\ drawn' = drawn /\ \A p : Before(p, dest')
  BY DropKeeps
<1>2. CASE seeds' = seeds
  BY <1>1, <1>2 DEF SeedInv, IsSeed, Drawn
<1>3. CASE seeds' = seeds \o <<q>>
  <2> DEFINE n == Len(seeds)
  <2>1. q \in Seq(Nat) /\ seeds \in Seq(Seq(Nat))
    BY DEF SeedInv, IsSeed, Drawn
  <2>2. <<q>> \in Seq(Seq(Nat)) /\ Len(<<q>>) = 1 /\ <<q>>[1] = q
    BY <2>1
  <2>3. /\ seeds' \in Seq(Seq(Nat)) /\ n \in Nat /\ Len(seeds') = n + 1
        /\ \A k \in 1 .. n : seeds'[k] = seeds[k]
        /\ seeds'[n + 1] = q
    BY <1>3, <2>1, <2>2
  <2>4. \A k \in 1 .. Len(seeds') : k \in 1 .. n \/ k = n + 1
    BY <2>3
  <2>5. ASSUME NEW k \in 1 .. Len(seeds') PROVE IsSeed(seeds'[k])
    BY <2>3, <2>4 DEF SeedInv
  <2>6. ASSUME NEW k \in 1 .. Len(seeds'), NEW l \in 1 .. Len(seeds'), k < l
        PROVE  Before(seeds'[k], seeds'[l])
    <3>1. CASE l = n + 1
      <4>1. k \in 1 .. n
        BY <2>3, <2>4, <2>6, <3>1
      <4>2. Before(seeds[k], q)
        BY <4>1
      <4> QED
        BY <2>3, <3>1, <4>1, <4>2
    <3>2. CASE l \in 1 .. n
      <4>1. k \in 1 .. n
        BY <2>3, <2>4, <2>6, <3>2
      <4> QED
        BY <2>3, <2>6, <3>2, <4>1 DEF SeedInv
    <3> QED
      BY <2>4, <3>1, <3>2
  <2>7. ASSUME NEW k \in 1 .. Len(seeds') PROVE IsSeed(seeds[k])'
    BY <1>1, <2>5 DEF IsSeed, Drawn
  <2> QED
    BY <1>1, <2>3, <2>6, <2>7 DEF SeedInv
<1> QED
  BY <1>2, <1>3

(* An entropy and a nonce that the system gave one after the other.        *)
LEMMA EntropyThenNonce ==
  ASSUME NEW p, NEW q, Drawn(p), Drawn(q), Before(p, q), drawn \in Nat
  PROVE  /\ Drawn(p \o q) /\ Len(p \o q) = Len(p) + Len(q)
         /\ \A r : Before(r, p) /\ Before(r, q) => Before(r, p \o q)
<1>1. /\ p \in Seq(Nat) /\ q \in Seq(Nat) /\ p \o q \in Seq(Nat)
      /\ Len(p) \in Nat /\ Len(q) \in Nat /\ Len(p \o q) = Len(p) + Len(q)
      /\ \A i \in 1 .. Len(p \o q) :
           (p \o q)[i] = IF i <= Len(p) THEN p[i] ELSE q[i - Len(p)]
  BY DEF Drawn
<1>2. \A i \in 1 .. Len(p \o q) : i \in 1 .. Len(p) \/ i - Len(p) \in 1 .. Len(q)
  BY <1>1
<1> DEFINE b(i) == (p \o q)[i]
<1>3. \A i \in 1 .. Len(p \o q) : b(i) \in 1 .. drawn
  BY <1>1, <1>2 DEF Drawn
<1>4. ASSUME NEW i \in 1 .. Len(p \o q), NEW j \in 1 .. Len(p \o q), i < j
      PROVE  b(i) < b(j)
  <2>1. CASE j \in 1 .. Len(p)
    <3>1. i \in 1 .. Len(p)
      BY <1>1, <1>4, <2>1
    <3> QED
      BY <1>1, <1>4, <2>1, <3>1 DEF Drawn
  <2>2. CASE i \in 1 .. Len(p) /\ j \notin 1 .. Len(p)
    <3>1. b(i) = p[i] /\ b(j) = q[j - Len(p)] /\ j - Len(p) \in 1 .. Len(q)
      BY <1>1, <1>2, <2>2
    <3>2. q[j - Len(p)] \in 1 .. drawn
      BY <3>1 DEF Drawn
    <3>3. q[j - Len(p)] # 0
      BY <3>2
    <3> QED
      BY <2>2, <3>1, <3>3 DEF Before
  <2>3. CASE i \notin 1 .. Len(p) /\ j \notin 1 .. Len(p)
    <3>1. /\ b(i) = q[i - Len(p)] /\ i - Len(p) \in 1 .. Len(q)
          /\ b(j) = q[j - Len(p)] /\ j - Len(p) \in 1 .. Len(q)
      BY <1>1, <1>2, <2>3
    <3>2. i - Len(p) < j - Len(p)
      BY <1>1, <1>4
    <3> QED
      BY <3>1, <3>2 DEF Drawn
  <2> QED
    BY <1>1, <1>4, <2>1, <2>2, <2>3
<1>5. ASSUME NEW r, Before(r, p), Before(r, q)
      PROVE  Before(r, p \o q)
  <2> SUFFICES ASSUME NEW i \in 1 .. Len(r), NEW j \in 1 .. Len(p \o q), b(j) # 0
               PROVE  r[i] < b(j)
    BY DEF Before
  <2>1. CASE j \in 1 .. Len(p)
    BY <1>1, <1>5, <2>1 DEF Before
  <2>2. CASE j \notin 1 .. Len(p)
    <3>1. b(j) = q[j - Len(p)] /\ j - Len(p) \in 1 .. Len(q)
      BY <1>1, <1>2, <2>2
    <3> QED
      BY <1>5, <3>1 DEF Before
  <2> QED
    BY <2>1, <2>2
<1> QED
  BY <1>1, <1>3, <1>4, <1>5 DEF Drawn

LEMMA GotNonceKeeps == ASSUME SeedInv, GotNonce PROVE SeedInv'
<1> DEFINE q == entropy \o dest
<1>1. /\ call = "new_nonce" /\ status = "ok" /\ DropDest /\ call' = "none"
      /\ seeds' = seeds \o <<q>> \/ seeds' = seeds
  BY DEF GotNonce, Instantiate, Return, hist
<1>2. /\ Drawn(entropy) /\ Len(entropy) = 2 * MIN_ENTROPY /\ Before(entropy, dest)
      /\ \A k \in 1 .. Len(seeds) : Before(seeds[k], entropy) /\ Before(seeds[k], dest)
      /\ FillInv /\ drawn \in Nat
  BY <1>1 DEF SeedInv, FillInv
<1>3. Drawn(dest) /\ Len(dest) \in Nat
  BY <1>1, <1>2, FilledIsDrawn DEF FillInv
<1>4. Drawn(q) /\ Len(q) = 2 * MIN_ENTROPY + Len(dest)
  BY <1>2, <1>3, EntropyThenNonce
<1>5. \A k \in 1 .. Len(seeds) : Before(seeds[k], q)
  BY <1>2, <1>3, EntropyThenNonce
<1>6. IsSeed(q)
  <2>1. 2 * MIN_ENTROPY \in Nat
    BY DrbgAssumption
  <2> QED
    BY <1>3, <1>4, <2>1 DEF IsSeed
<1>7. PICK given : given = q
  OBVIOUS
<1> QED
  BY <1>1, <1>5, <1>6, <1>7, SeedTaken

LEMMA GotReseedKeeps == ASSUME SeedInv, GotReseed PROVE SeedInv'
<1>1. /\ call = "reseed" /\ status = "ok" /\ DropDest /\ call' = "none"
      /\ seeds' = seeds \o <<dest>> \/ seeds' = seeds
  BY DEF GotReseed, Reseed, Return, hist
<1>2. Drawn(dest) /\ Len(dest) = 2 * MIN_ENTROPY
  BY <1>1, FilledIsDrawn DEF SeedInv
<1>3. IsSeed(dest) /\ \A k \in 1 .. Len(seeds) : Before(seeds[k], dest)
  BY <1>2, DrbgAssumption DEF IsSeed, SeedInv
<1>4. PICK given : given = dest
  OBVIOUS
<1> QED
  BY <1>1, <1>3, <1>4, SeedTaken

LEMMA GotEntropyKeeps == ASSUME SeedInv, GotEntropy PROVE SeedInv'
<1>1. /\ call = "new_entropy" /\ status = "ok" /\ entropy' = dest
      /\ call' = "new_nonce" /\ StartFill(MIN_ENTROPY) /\ seeds' = seeds
  BY DEF GotEntropy, hist
<1>2. /\ FillInv' /\ ErrorsNegative' /\ drawn' = drawn
      /\ \A p : Before(p, dest')
  BY <1>1, StartKeeps, DrbgAssumption
<1>3. Drawn(dest) /\ Len(dest) = 2 * MIN_ENTROPY
  BY <1>1, FilledIsDrawn DEF SeedInv
<1>4. Drawn(entropy)' /\ Len(entropy') = 2 * MIN_ENTROPY
  BY <1>1, <1>2, <1>3 DEF Drawn
<1>5. \A k \in 1 .. Len(seeds) : IsSeed(seeds[k])' /\ Before(seeds[k], entropy')
  BY <1>1, <1>2 DEF SeedInv, IsSeed, Drawn
<1> QED
  BY <1>1, <1>2, <1>4, <1>5 DEF SeedInv

LEMMA SeedStep == SeedInv /\ [DrbgNext]_vars => SeedInv'
<1> SUFFICES ASSUME SeedInv, [DrbgNext]_vars PROVE SeedInv'
  OBVIOUS
<1>1. CASE UNCHANGED evars /\ UNCHANGED <<call, entropy>> /\ UNCHANGED seeds
  BY <1>1 DEF evars, SeedInv, FillInv, ErrorsNegative, IsSeed, Drawn
<1>2. CASE Idle /\ call' = "none" /\ UNCHANGED seeds
  BY <1>2 DEF Idle, evars, SeedInv, FillInv, ErrorsNegative, IsSeed, Drawn
<1>3. CASE NewFromOs \/ ReseedFromOs
  <2>1. /\ StartFill(2 * MIN_ENTROPY) /\ call' \in {"new_entropy", "reseed"}
        /\ UNCHANGED seeds
    BY <1>3 DEF NewFromOs, ReseedFromOs, hist
  <2>2. 2 * MIN_ENTROPY \in Nat
    BY DrbgAssumption
  <2>3. /\ FillInv' /\ ErrorsNegative' /\ drawn' = drawn
        /\ Len(dest') = 2 * MIN_ENTROPY /\ \A p : Before(p, dest')
    BY <2>1, <2>2, StartKeeps
  <2> QED
    BY <2>1, <2>3 DEF SeedInv, IsSeed, Drawn
<1>4. CASE SystemFailed
  <2>1. DropDest /\ call' = "none" /\ UNCHANGED seeds
    BY <1>4 DEF SystemFailed, Return, hist
  <2>2. FillInv' /\ ErrorsNegative' /\ drawn' = drawn /\ \A p : Before(p, dest')
    BY <2>1, DropKeeps
  <2> QED
    BY <2>1, <2>2 DEF SeedInv, IsSeed, Drawn
<1>5. seeds \o <<>> = seeds
  BY DEF SeedInv
<1>6. CASE NewFromEntropy
  BY <1>2, <1>5, <1>6 DEF NewFromEntropy, Instantiate, Return, hist
<1>7. CASE CallReseed
  BY <1>2, <1>5, <1>7 DEF CallReseed, Reseed, Return, hist
<1>8. CASE CallGenerate
  BY <1>2, <1>8 DEF CallGenerate, Generate, Return, hist
<1>9. CASE DropInstance
  BY <1>1, <1>9 DEF DropInstance, Idle
<1>10. CASE UNCHANGED vars
  BY <1>1, <1>10 DEF vars, evars, hist
<1> QED
  BY <1>3, <1>4, <1>6, <1>7, <1>8, <1>9, <1>10,
     AskKeeps, GotEntropyKeeps, GotNonceKeeps, GotReseedKeeps DEF DrbgNext

(* Off FreeBSD every seed the system gives is complete, and no byte of it  *)
(* was given before: not to an earlier seed, a request that failed, or the *)
(* other of the two requests new_from_os makes.                            *)
THEOREM SeedsFreshHolds ==
  ASSUME "getrandom_carry" \notin Platforms
  PROVE  DrbgSpec => []SeedsFresh
<1>1. DrbgInit => SeedInv
  BY SeedInitially
<1> QED
  BY <1>1, SeedStep, SeedInvImplies, PTL DEF DrbgSpec
=============================================================================
