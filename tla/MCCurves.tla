------------------------------ MODULE MCCurves ------------------------------
(***************************************************************************)
(* For TLC: the curve crates, the primitives of constant-time, and the     *)
(* hash function that Ed25519 takes its scalars from.  They share no       *)
(* state: a caller works with one of them, chosen at the start, and the    *)
(* others stand still.                                                     *)
(*                                                                         *)
(* SHA2: blocks of 8 bytes, a length counter of one byte that wraps at 32  *)
(* bytes of message in a field of two, as SHA-384 and SHA-512 have it, and *)
(* slices up to two blocks and a byte.                                     *)
(*                                                                         *)
(* Words: bytes of two bits, words of eight, so that a double word has     *)
(* sixteen.                                                                *)
(*                                                                         *)
(* Fields: modulo 2^15 - 3 in three limbs of five bits, and modulo         *)
(* 2^16 - 2^8 - 1 in four limbs of four.  Scalars: modulo 4096 + 27 in     *)
(* four limbs of three bits, words wrapping at sixteen.                    *)
(*                                                                         *)
(* X25519: a Montgomery curve modulo 509 = 2^9 - 3, bytes with one spare   *)
(* bit, so that u may be any number below 1024.  X448: modulo 239 =        *)
(* 2^8 - 2^4 - 1.  Both are given every public key there could be.         *)
(*                                                                         *)
(* Ed25519: -x^2 + y^2 = 1 + 88 x^2 y^2 modulo 509, a group of 8 * 67.     *)
(* Ed448: x^2 + y^2 = 1 + 19 x^2 y^2 modulo 239, of 4 * 59.  Foreign keys  *)
(* are of and not of the curve, of small order, and not below p.           *)
(***************************************************************************)
EXTENDS SHA2, SequencesExt

MCChunkLens == 0 .. 17

-----------------------------------------------------------------------------
VARIABLES
  part,         \* which of them is in use
  regs, scalar, word,
  x_secrets, x_shared, y_secrets, y_shared,
  e_signed, e_verified, g_signed, g_verified

sha2   == vars
x25519 == <<x_secrets, x_shared>>
x448   == <<y_secrets, y_shared>>
ed25519 == <<e_signed, e_verified>>
ed448  == <<g_signed, g_verified>>

-----------------------------------------------------------------------------
(* A caller of the field types loads two elements of one of them from      *)
(* bytes and goes on computing with what it gets, without reducing it, as  *)
(* ladder and point arithmetic do.  Beside every element it keeps the      *)
(* number that it is to stand for; a product of numbers is taken in parts  *)
(* that fit TLC's integers.                                                *)
F25519 == INSTANCE Field25519 WITH
  WIDTH <- 5, LIMBS <- 3, FOLD <- 3, A24 <- 3, WORD <- 65536
F448   == INSTANCE Field448 WITH WIDTH <- 4, LIMBS <- 4, A24 <- 3

Loads(f) ==
  IF f = "25519" THEN {0, 1, 2, 31, 1024, 21845, 32764, 32765, 32767}
                 ELSE {0, 1, 16, 256, 4095, 21845, 65278, 65279, 65535}
FieldSteps == 3

Load(f, n)     == IF f = "25519" THEN F25519!from_bytes(n) ELSE F448!from_bytes(n)
Bytes(f, a)    == IF f = "25519" THEN F25519!to_bytes(a) ELSE F448!to_bytes(a)
Equal(f, a, b) == IF f = "25519" THEN F25519!eq(a, b) ELSE F448!eq(a, b)
IsZero(f, a)   == IF f = "25519" THEN F25519!is_zero(a) ELSE F448!is_zero(a)
Modulus(f)     == IF f = "25519" THEN F25519!MODULUS ELSE F448!MODULUS

Limbed(f, op, a, b) ==
  IF f = "25519"
  THEN CASE op = "add" -> F25519!add(a, b)       [] op = "sub" -> F25519!sub(a, b)
         [] op = "mul" -> F25519!mul_inner(a, b) [] op = "neg" -> F25519!neg(a)
         [] op = "square" -> F25519!mul_inner(a, a)
         [] op = "a24" -> F25519!mul_by_a24(a)
  ELSE CASE op = "add" -> F448!add(a, b)         [] op = "sub" -> F448!sub(a, b)
         [] op = "mul" -> F448!mul_inner(a, b)   [] op = "neg" -> F448!neg(a)
         [] op = "square" -> F448!mul_inner(a, a)
         [] op = "a24" -> F448!mul_by_a24(a)

Product(m, x, y) == (((x * (y \div 256)) % m) * 256 + x * (y % 256)) % m
Numbered(m, op, x, y) ==
  CASE op = "add" -> (x + y) % m      [] op = "sub" -> (x - y) % m
    [] op = "mul" -> Product(m, x, y) [] op = "neg" -> (-x) % m
    [] op = "square" -> Product(m, x, x)
    [] op = "a24" -> (3 * x) % m

FieldsInit ==
  \E f \in {"25519", "448"} : \E x, y \in Loads(f) :
    regs = [f |-> f, a |-> Load(f, x), n |-> x % Modulus(f),
            b |-> Load(f, y), m |-> y % Modulus(f), steps |-> 0]
Compute ==
  /\ regs.steps < FieldSteps
  /\ \E op \in {"add", "sub", "mul", "neg", "square", "a24"} :
       regs' = [regs EXCEPT !.a = Limbed(regs.f, op, regs.a, regs.b),
                            !.n = Numbered(Modulus(regs.f), op, regs.n, regs.m),
                            !.steps = @ + 1]
Exchange ==
  /\ regs.steps \in 1 .. FieldSteps - 1
  /\ regs' = [regs EXCEPT !.a = regs.b, !.n = regs.m, !.b = regs.a, !.m = regs.n]
FieldsNext == Compute \/ Exchange

-----------------------------------------------------------------------------
MCC == (0 :> -3) @@ (1 :> -3)
Scalars == INSTANCE Scalar25519 WITH
  WIDTH <- 3, LIMBS <- 4, C <- MCC, BYTES <- 65536, WORD <- 65536

(* Numbers around multiples of L, the ends of what fits limbs and bytes,   *)
(* and some from all over.                                                 *)
SCALAR_L == 4123
Wides == UNION {{k * SCALAR_L + d : d \in {-28, -27, -1, 0, 1}} : k \in {1, 2, 5, 4069}}
           \cup {0, 4095, 4096, 65535, 65536, 16777215, 33554432, 67108863}
           \cup {(i * 104729 + 17) % 67108864 : i \in 1 .. 600}
Scalar == {0, 1, 7, 4095, 4096, 4122, 4123, 26214, 32768, 49152, 65535}

NoScalar == [op |-> "none"]

(* A scalar of a digest; k * a + r, with a not reduced.                    *)
Reduce ==
  \E n \in Wides :
    scalar' = [op |-> "reduce", value |-> n % SCALAR_L,
               out |-> Scalars!from_bytes_mod_order_wide(n)]
MulAdd ==
  \E k, a, r \in Scalar :
    scalar' = [op |-> "muladd", value |-> ((k % SCALAR_L) * (a % SCALAR_L) + r) % SCALAR_L,
               out |-> Scalars!sc_muladd(k, a, r)]
ScalarNext == scalar = NoScalar /\ (Reduce \/ MulAdd)

-----------------------------------------------------------------------------
(* Every number of the types up to a word with those next to it and next   *)
(* to the ends of the range; of double words those ends, and halves that   *)
(* are equal or at their own ends.                                         *)
Words == INSTANCE Words WITH BITS <- 8, BYTE <- 2, FOLDS <- <<4, 2>>

Types == {[bits |-> n, signed |-> s] : n \in {2, 4, 8, 16}, s \in BOOLEAN}
Edges == {0, 1, 127, 128, 255, 256, 257, 32767, 32768, 32769, 65279, 65280, 65535}
Numbers(t) ==
  {Words!As(t, x) : x \in IF t.bits = 16 THEN Edges ELSE 0 .. 2 ^ t.bits - 1}
Near(t, a) ==
  {Words!As(t, x) : x \in {a - 1, a, a + 1, 0, 127, 128, 255, 32767, 32768, 65535}}

NoWord == [a |-> 0, outs |-> <<>>]

CompareWords ==
  /\ word = NoWord
  /\ \E arch \in {"x86_64", "aarch64", "miri"}, t \in Types : \E a \in Numbers(t) :
       word' = [a |-> a, outs |-> [b \in Near(t, a) |->
                  [eq |-> Words!eq(arch, t, a, b), gt |-> Words!gt(arch, t, a, b),
                   lt |-> Words!lt(arch, t, a, b),
                   swaps |-> [v \in {0, 2} |->
                     Words!swap(arch, t, a, b, Words!from_u8(v))]]]]

-----------------------------------------------------------------------------
XBytes == 0 .. 1023
YBytes == 0 .. 255
X == INSTANCE KeyExchange WITH
  p <- 509, SCHEME <- "x25519", BITS <- 9, SPARE <- 1, A24 <- 391,
  BASEPOINT_U <- 14, Keys <- {0, 777, 1023}, Publics <- XBytes,
  secrets <- x_secrets, shared <- x_shared
Y == INSTANCE KeyExchange WITH
  p <- 239, SCHEME <- "x448", BITS <- 8, SPARE <- 0, A24 <- 187,
  BASEPOINT_U <- 3, Keys <- {0, 203}, Publics <- YBytes,
  secrets <- y_secrets, shared <- y_shared

-----------------------------------------------------------------------------
MCLower(seed)  == (seed * 77 + 13) % 256
Mixed(acc, x)  == (acc * 131 + x * 17 + 29) % 65521
Digest(v)      == FoldLeft(Mixed, 3, v)

MCSHA512(v) == IF Len(v) = 2 THEN Digest(<<v[1][2], v[2]>>) ELSE Digest(v)
MCKeys == {n \in XBytes : n % 16 = 9 \/ n % 512 \in {0, 1, 2, 508, 509, 510, 511}}
E == INSTANCE Ed25519 WITH
  p <- 509, D <- 88, SQRT_M1 <- 301, BASE_X <- 384, BASE_Y <- 25, L <- 67,
  YBITS <- 9, SBITS <- 6, SCALAR <- 8, SHA512 <- MCSHA512, Lower <- MCLower,
  Seeds <- 1 .. 4, Messages <- {5, 6}, OtherKeys <- MCKeys,
  OtherSigs <- {[R |-> R, s |-> 0] : R \in {1, 508, 510}},
  signed <- e_signed, verified <- e_verified

(* Messages are of one part: what is hashed ends in the nonce's seed and   *)
(* one part, or in R, a key and one part.                                  *)
MCSHAKE256(v) ==
  LET ctx == [i \in 1 .. v[3] |-> v[3 + i]]
      n   == v[4 + v[3]]
      q   == v[5 + v[3]]
  IN  Digest(<<v[3]>> \o ctx
               \o (IF Len(v) = 5 + v[3] THEN <<n[2], q>>
                   ELSE <<n.y, n.last, q.y, q.last, v[Len(v)]>>))
MCKeys448 ==
  {[y |-> y, last |-> l] : y \in {0, 1, 2, 51, 96, 140, 238, 239, 240, 255}, l \in {0, 2}}
    \cup {[y |-> 2, last |-> l] : l \in {1, 3}}
G == INSTANCE Ed448 WITH
  p <- 239, D <- 19, BASE_Y <- 2, L <- 59, YBITS <- 8, OCTET <- 4,
  SHAKE256 <- MCSHAKE256, Lower <- MCLower, Seeds <- {1, 2},
  Messages <- {<<5>>, <<6>>}, Contexts <- {<<>>, <<1>>, <<1, 5>>},
  OtherKeys <- MCKeys448,
  OtherSigs <- {[R |-> [y |-> y, last |-> 0], s |-> 0] : y \in {1, 240}},
  signed <- g_signed, verified <- g_verified

ASSUME CurvesAssumption ==
  /\ Scalars!Scalar25519Assumption /\ Scalars!L = SCALAR_L
  /\ X!KeyExchangeAssumption /\ Y!KeyExchangeAssumption
  /\ E!Ed25519Assumption /\ G!Ed448Assumption

-----------------------------------------------------------------------------
(* Nothing but the part that is in use has more than one initial state.    *)
CurvesInit ==
  /\ part \in {"sha2", "fields", "scalars", "words", "x25519", "x448", "ed25519", "ed448"}
  /\ Init /\ scalar = NoScalar
  /\ X!ExchangeInit /\ Y!ExchangeInit /\ E!EddsaInit /\ G!EddsaInit
  /\ word = NoWord /\ IF part = "fields" THEN FieldsInit ELSE regs = "unused"

CurvesNext ==
  /\ UNCHANGED part
  /\ \/ part = "sha2" /\ Next
        /\ UNCHANGED <<regs, scalar, word, x25519, x448, ed25519, ed448>>
     \/ part = "fields" /\ FieldsNext
        /\ UNCHANGED <<sha2, scalar, word, x25519, x448, ed25519, ed448>>
     \/ part = "scalars" /\ ScalarNext
        /\ UNCHANGED <<sha2, regs, word, x25519, x448, ed25519, ed448>>
     \/ part = "words" /\ CompareWords
        /\ UNCHANGED <<sha2, regs, scalar, x25519, x448, ed25519, ed448>>
     \/ part = "x25519" /\ X!ExchangeNext
        /\ UNCHANGED <<sha2, regs, scalar, word, x448, ed25519, ed448>>
     \/ part = "x448" /\ Y!ExchangeNext
        /\ UNCHANGED <<sha2, regs, scalar, word, x25519, ed25519, ed448>>
     \/ part = "ed25519" /\ E!EddsaNext
        /\ UNCHANGED <<sha2, regs, scalar, word, x25519, x448, ed448>>
     \/ part = "ed448" /\ G!EddsaNext
        /\ UNCHANGED <<sha2, regs, scalar, word, x25519, x448, ed25519>>

all == <<part, sha2, regs, scalar, word, x25519, x448, ed25519, ed448>>
CurvesSpec == CurvesInit /\ [][CurvesNext]_all

-----------------------------------------------------------------------------
(* Fields: whatever was computed before, the bytes of an element are those *)
(* of the number it stands for modulo p, two elements are equal just when  *)
(* their numbers are, is_zero tells zero, and the chains of squares and    *)
(* products raise to the powers that invert and take roots.                *)
FieldsExact ==
  part = "fields" =>
    /\ Bytes(regs.f, regs.a) = regs.n
    /\ Equal(regs.f, regs.a, regs.b) <=> regs.n = regs.m
    /\ IsZero(regs.f, regs.a) <=> regs.n = 0
    /\ regs.steps + regs.n + regs.m = 0 => F25519!PowersRight /\ F448!PowersRight

(* Primitives of constant-time: comparisons and selections of integers of  *)
(* every width and sign, by the instructions of both processors and by the *)
(* portable code, are those of numbers, and give 0 or 1.                   *)
ComparisonsExact ==
  \A b \in DOMAIN word.outs :
    LET a == word.a
        o == word.outs[b]
        Bit(holds) == IF holds THEN 1 ELSE 0
    IN  /\ o.eq = Bit(a = b) /\ o.gt = Bit(a > b) /\ o.lt = Bit(a < b)
        /\ \A v \in DOMAIN o.swaps :
             o.swaps[v] = IF v = 0 THEN <<a, b>> ELSE <<b, a>>

(* Scalars of ed25519: what from_bytes_mod_order_wide and sc_muladd return *)
(* is the number modulo L where this is below 2^252; where it is not, it   *)
(* is L less, below zero, in the bytes.                                    *)
ScalarsReduced ==
  scalar # NoScalar =>
    scalar.out = IF scalar.value < 4096 THEN scalar.value
                 ELSE (scalar.value - SCALAR_L) % 65536

(* Scalars of ed25519, as from_bytes_mod_order_wide's documentation has    *)
(* it: they are reduced modulo L.                                          *)
ReducesModL == scalar # NoScalar => scalar.out = scalar.value

(* X25519 and X448: diffie_hellman gives the u of the clamped key times    *)
(* the point, for every public key's bytes, is contributory unless this is *)
(* 0, and both parties get one secret of each other's public key.          *)
SharedAgrees == X!SharedAgrees /\ Y!SharedAgrees

(* Ed25519 and Ed448: a signature is what RFC 8032 says, and verifies.     *)
SignsAsSpecified == E!SignsAsSpecified /\ G!SignsAsSpecified

(* Ed25519 and Ed448: verify accepts exactly what RFC 8032 does if the y   *)
(* of R and of the key are below p, and goes by the y modulo p otherwise.  *)
VerifiesExactly == E!VerifiesExactly /\ G!VerifiesExactly

(* Ed25519, as the crate's documentation has it: verify accepts exactly    *)
(* what RFC 8032 does, also of encodings with a y that is not below p.     *)
VerifiesAsSpecified == E!VerifiesAsSpecified
=============================================================================
