------------------------------- MODULE MlDsa --------------------------------
(***************************************************************************)
(* ML-DSA, mldsa/src: keygen, sign and verify of one parameter set.  The   *)
(* arithmetic is MlDsaRing's, computed as the code computes it; SHAKE is   *)
(* ideal: a seed or a mask is any of what the sampler returns, a digest is *)
(* the record of what was hashed, and BallStream says what the digest of a *)
(* challenge is squeezed into.                                             *)
(*                                                                         *)
(* signing is a loop of attempts, one action each: an attempt whose        *)
(* signature would say something of the key, or could not be checked, is   *)
(* thrown away, and the next one takes masks of the next nonces.           *)
(***************************************************************************)
EXTENDS MlDsaRing

CONSTANTS
  K, L,           \* rows and columns of the matrix
  ETA,            \* the range of secrets
  TAU, BETA,      \* ones of a challenge, and TAU * ETA
  MAX_ITER,       \* attempts of one call
  NONCES,         \* values of the u16 nonce of a mask
  MaxCtx, MaxPrime, \* longest context (255) and framed message (1024)
  Rhos, ExpandA(_), BadRhos, \* seeds and their matrices; too little was sampled
  Secrets,        \* what expand_s may sample: pairs of vectors
  MaskPolys,      \* fields of what expand_mask may sample
  BallStream(_),  \* the stream sample_in_ball draws from, of a digest
  Requests        \* what callers sign and verify: [ctx, message]

(* What expand_s samples a coefficient of a secret from.                   *)
Etas == {signed_to_fq(x) : x \in -ETA .. ETA}

MlDsaAssumption ==
  /\ {K, L, ETA, TAU, MAX_ITER, NONCES, MaxCtx, MaxPrime} \subseteq Nat \ {0}
  /\ BETA = TAU * ETA /\ TAU <= N /\ BETA < GAMMA2 /\ BETA < GAMMA1
  /\ MAX_ITER * L <= NONCES
  /\ BadRhos \subseteq Rhos
  /\ \A rho \in Rhos :
       ExpandA(rho) \in [1 .. K -> [1 .. L -> [Index -> 0 .. Q - 1]]]
  /\ Secrets \subseteq [s1 : [1 .. L -> [Index -> Etas]],
                      s2 : [1 .. K -> [Index -> Etas]]]
  /\ Bits(bitlen(2 * ETA)) \in 2 * ETA + 1 .. 4 * ETA /\ 2 * ETA < Q
  /\ MaskPolys \subseteq [Index -> 0 .. 2 * GAMMA1 - 1]
  /\ Requests \subseteq [ctx : Seq(Nat), message : Seq(Nat)]

VARIABLES
  phase,          \* "new", "keyed", "signing", "signed"
  pk, sk,         \* encoded keys
  request,        \* what is being signed
  kappa, iter,    \* sign_internal's
  used,           \* history: the nonces of the call's masks
  out,            \* what sign or keygen returned last
  checked         \* the last verify: its arguments and its result

vars == <<phase, pk, sk, request, kappa, iter, used, out, checked>>

None == [none |-> TRUE]
Error(e) == [error |-> e]

-----------------------------------------------------------------------------
(* What a message is framed as, unless it is refused.                      *)
Refused(r) ==
  IF Len(r.ctx) > MaxCtx THEN "ContextTooLong"
  ELSE IF 2 + Len(r.ctx) + Len(r.message) > MaxPrime THEN "InvalidLength"
  ELSE "no"
m_prime(r) == <<0, Len(r.ctx)>> \o r.ctx \o r.message

(* Digests.                                                                *)
Tr(rho, t1)  == [rho |-> rho, t1 |-> t1]
Mu(tr, r)    == [tr |-> tr, m_prime |-> m_prime(r)]
CTilde(mu, w1) == [mu |-> mu, w1 |-> polyvec_simple_bit_pack_w1(w1)]

(* The last TAU places are shuffled in, each from a place up to its own;   *)
(* the stream may run out.                                                 *)
sample_in_ball(digest) ==
  LET stream == BallStream(digest)
      Draw(s, i) ==
        LET good == {p \in DOMAIN s.bytes : s.bytes[p] <= i}
            p    == Min(good)
            j    == s.bytes[p]
            sign == stream.signs[i + TAU - N + 1]
        IN  IF ~s.ok \/ good = {} THEN [s EXCEPT !.ok = FALSE]
            ELSE [ok    |-> TRUE,
                  bytes |-> SubSeq(s.bytes, p + 1, Len(s.bytes)),
                  c     |-> [s.c EXCEPT ![i] = s.c[j],
                               ![j] = IF sign = 0 THEN 1 ELSE Q - 1]]
  IN  FoldLeft(Draw, [ok |-> TRUE, bytes |-> stream.bytes, c |-> ZeroPoly],
               [i \in 1 .. TAU |-> N - TAU + i - 1])

pack_eta(s) == bit_pack(s, ETA, ETA)
unpack_eta(v) == bit_unpack(v, ETA)

nttVec(v)  == OnVec(v, ntt)
inttVec(v) == OnVec(v, intt)
Times(A, v)    == inttVec(multiply_vector(A, nttVec(v)))
TimesPoly(c, v) == inttVec(poly_mul_polyvec(ntt(c), nttVec(v)))

-----------------------------------------------------------------------------
Init ==
  /\ phase = "new" /\ pk = None /\ sk = None /\ request = None
  /\ kappa = 0 /\ iter = 0 /\ used = <<>> /\ out = None /\ checked = None

KeygenFails ==
  /\ phase = "new" /\ BadRhos # {}
  /\ out' = Error("InternalError")
  /\ UNCHANGED <<phase, pk, sk, request, kappa, iter, used, checked>>

Keygen(rho, s) ==
  LET t  == VecAdd(Times(ExpandA(rho), s.s1), s.s2)
      t1 == simple_bit_pack(power2round_vec(t)[1], T1Bits)
      t0 == polyvec_bit_pack_t0(power2round_vec(t)[2])
  IN  /\ phase = "new"
      /\ phase' = "keyed"
      /\ pk' = [rho |-> rho, t1 |-> t1]
      /\ sk' = [rho |-> rho, tr |-> Tr(rho, t1), s1 |-> pack_eta(s.s1),
                s2 |-> pack_eta(s.s2), t0 |-> t0]
      /\ UNCHANGED <<request, kappa, iter, used, out, checked>>

Sign(r) ==
  /\ phase \in {"keyed", "signed"}
  /\ request' = r /\ kappa' = 0 /\ iter' = 0 /\ used' = <<>> /\ checked' = None
  /\ IF Refused(r) = "no"
     THEN phase' = "signing" /\ out' = None
     ELSE phase' = "keyed" /\ out' = Error(Refused(r))
  /\ UNCHANGED <<pk, sk>>

(* The loop's end: a result, or the next attempt.                          *)
Return(result) ==
  /\ out' = result
  /\ phase' = IF "error" \in DOMAIN result THEN "keyed" ELSE "signed"
  /\ UNCHANGED <<kappa, iter>>

(* Mutant: the next attempt's first nonce is the last one's second.        *)
NextKappaByOne == (kappa + 1) % NONCES
NextKappa      == (kappa + L) % NONCES
LastAttempt     == iter + 1 = MAX_ITER
Reject ==
  /\ kappa' = NextKappa
  /\ IF LastAttempt
     THEN iter' = iter /\ out' = Error("SigningFailed") /\ phase' = "keyed"
     ELSE iter' = iter + 1 /\ UNCHANGED <<out, phase>>

(* The masks take the nonces kappa, .., kappa + L - 1.                     *)
MaskNonces == [i \in 1 .. L |-> (kappa + i - 1) % NONCES]

(* z or the low bits would say something of s1 or s2.                      *)
Leaks(z, r0) ==
  inf_norm_vec(z) >= GAMMA1 - BETA \/ inf_norm_vec(r0) >= GAMMA2 - BETA
(* A verifier could not make up for ct0, or the hint does not fit.         *)
Unhintable(ct0, h) == inf_norm_vec(ct0) >= GAMMA2 \/ HintCount(h) > OMEGA

Attempt(masks) ==
  LET y   == polyvec_bit_unpack_z(masks)
      w   == Times(ExpandA(sk.rho), y)
      ct  == CTilde(Mu(sk.tr, request), high_bits_vec(w))
      ball == sample_in_ball(ct)
      z   == VecAdd(y, TimesPoly(ball.c, unpack_eta(sk.s1)))
      wcs2 == VecSub(w, TimesPoly(ball.c, unpack_eta(sk.s2)))
      ct0 == TimesPoly(ball.c, polyvec_bit_unpack_t0(sk.t0))
      h   == make_hint_vec(polyvec_neg(ct0), VecAdd(wcs2, ct0))
  IN  /\ phase = "signing"
      /\ used' = used \o MaskNonces
      /\ \/ ~ball.ok /\ Return(Error("InternalError"))
         \/ /\ ball.ok
            /\ IF Leaks(z, low_bits_vec(wcs2)) \/ Unhintable(ct0, h)
               THEN Reject
               ELSE Return([c_tilde |-> ct, z |-> polyvec_bit_pack_z(z),
                            h |-> hint_bit_pack(h)])
      /\ UNCHANGED <<pk, sk, request, checked>>

-----------------------------------------------------------------------------
(* verify_internal, from the bytes of key and signature.                   *)
verify_internal(key, r, s) ==
  LET h    == hint_bit_unpack(s.h, K)
      ball == sample_in_ball(s.c_tilde)
      z    == polyvec_bit_unpack_z(s.z)
      az   == multiply_vector(ExpandA(key.rho), nttVec(z))
      ct1  == poly_mul_polyvec(ntt(ball.c), nttVec(polyvec_scale_2d(key.t1)))
      w1   == use_hint_vec(h, inttVec(VecSub(az, ct1)))
      mu   == Mu(Tr(key.rho, key.t1), r)
  IN  IF h = NoHint THEN "invalid"
      ELSE IF ~ball.ok THEN "InternalError"
      ELSE IF inf_norm_vec(z) >= GAMMA1 - BETA THEN "invalid"
      ELSE IF CTilde(mu, w1) = s.c_tilde THEN "valid" ELSE "invalid"

verify(key, r, s) ==
  IF Refused(r) # "no" THEN Refused(r) ELSE verify_internal(key, r, s)

(* A signature arrives as it was made, or with other bytes for its hint,   *)
(* or with another message or context.  (verify keeps no state: one call   *)
(* after a signature stands for any.)                                      *)
HintBytes == [1 .. OMEGA + K -> Index]
Verify(r, s) ==
  /\ phase = "signed" /\ checked = None
  /\ checked' = [request |-> r, sig |-> s, result |-> verify(pk, r, s)]
  /\ UNCHANGED <<phase, pk, sk, request, kappa, iter, used, out>>

VerifyOther(r) == Verify(r, out)
VerifyHint(y)  == Verify(request, [out EXCEPT !.h = y])

Next ==
  \/ KeygenFails
  \/ \E rho \in Rhos \ BadRhos, s \in Secrets : Keygen(rho, s)
  \/ \E r \in Requests : Sign(r) \/ VerifyOther(r)
  \/ \E masks \in [1 .. L -> MaskPolys] : Attempt(masks)
  \/ \E y \in HintBytes : VerifyHint(y)

Spec == Init /\ [][Next]_vars
-----------------------------------------------------------------------------
FieldsBelow(v, n) == \A i \in DOMAIN v, j \in Index : v[i][j] \in 0 .. n - 1

(* The types: every field of a key or a signature fits the bits it is      *)
(* packed into, so that packing drops nothing of a value in its range.     *)
MlDsaTypeOK ==
  /\ phase \in {"new", "keyed", "signing", "signed"}
  /\ kappa \in 0 .. NONCES - 1 /\ iter \in 0 .. MAX_ITER - 1
  /\ phase # "new" =>
       /\ FieldsBelow(pk.t1, Bits(T1Bits)) /\ FieldsBelow(sk.t0, Bits(D))
       /\ FieldsBelow(sk.s1, 2 * ETA + 1) /\ FieldsBelow(sk.s2, 2 * ETA + 1)
  /\ phase = "signed" =>
       FieldsBelow(out.z, 2 * GAMMA1) /\ out.h \in HintBytes

(* No field loses bits when it is packed, and what sign returns, verify    *)
(* accepts: the rounding of w as the signer had it is what the verifier    *)
(* finds from the upper bits of t, the hint and z.                         *)
SignedVerifies ==
  MlDsaTypeOK /\ (phase = "signed" => verify(pk, request, out) = "valid")

(* Of what arrives in place of a signature's message, context or hint,     *)
(* verify accepts nothing else: a hint has one encoding, and no two        *)
(* requests are framed alike.                                              *)
AcceptsOnlySigned ==
  checked # None /\ checked.result = "valid" =>
    checked.request = request /\ checked.sig = out

(* No two masks of one call come from the same nonce: two signatures of    *)
(* one mask give away s1.                                                  *)
NoncesFresh ==
  \A i, j \in DOMAIN used : i # j => used[i] # used[j]

(* The polynomials of the keys, as sign and verify unpack them.            *)
KeyPolys ==
  UNION {{v[i] : i \in DOMAIN v} :
           v \in {unpack_eta(sk.s1), unpack_eta(sk.s2),
                  polyvec_bit_unpack_t0(sk.t0), polyvec_scale_2d(pk.t1)}}

(* The transforms and the Montgomery products cancel out: what the code    *)
(* computes of two polynomials is their product modulo X ^ N + 1.          *)
ProductIsNegacyclic ==
  phase = "keyed" =>
    \A f, g \in KeyPolys :
      intt(pointwise_montgomery(ntt(f), ntt(g))) = Negacyclic(f, g)
=============================================================================
