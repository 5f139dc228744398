------------------------------- MODULE Words --------------------------------
(***************************************************************************)
(* constant-time/src: comparisons and selections of integers without a     *)
(* branch, by instructions of x86_64 and aarch64 and, where these cannot   *)
(* be run, by arithmetic (under "miri").                                   *)
(*                                                                         *)
(* The primitives work on words of BITS bits and on half words; what is    *)
(* narrower is extended, what is wider is put together of two.  A type is  *)
(* a width and whether it is signed; a Choice is 0 or 1.                   *)
(***************************************************************************)
EXTENDS Bitwise, SequencesExt

CONSTANTS
  BITS, BYTE,     \* bits of a word (64) and of a byte (8)
  FOLDS           \* shifts from half a word down to a byte (<<32, 16, 8>>)

HALF == BITS \div 2

Unsigned(x, n) == x % (2 ^ n)
As(t, x) ==       \* a cast: the low bits, of which the first may be a sign
  LET u == Unsigned(x, t.bits)
  IN  IF t.signed /\ u >= 2 ^ (t.bits - 1) THEN u - 2 ^ t.bits ELSE u

wrapping_neg(x, n) == Unsigned(-x, n)
Flipped(x, n)      == 2 ^ n - 1 - x
Shr(x, k)          == x \div (2 ^ k)
Bit(holds)         == IF holds THEN 1 ELSE 0

-----------------------------------------------------------------------------
(* lib.rs: Choice                                                          *)
from_u8(v) == Shr(v | wrapping_neg(v, BYTE), BYTE - 1)
not(c)     == c ^^ 1

-----------------------------------------------------------------------------
(* The flags of cmp, which subtracts two registers of n bits.              *)
Cmp(a, b, n) ==
  LET sign(x) == Shr(Unsigned(x, n), n - 1) = 1
  IN  [zero |-> a = b, borrow |-> a < b, sign |-> sign(a - b),
       overflow |-> sign(a) # sign(b) /\ sign(a - b) # sign(a)]
Equal(f)   == Bit(f.zero)                                   \* sete, cset eq
Above(f)   == Bit(~ f.borrow /\ ~ f.zero)                   \* seta, cset hi
Greater(f) == Bit(~ f.zero /\ (f.sign <=> f.overflow))      \* setg, cset gt

-----------------------------------------------------------------------------
(* internal.rs: a function of half words is one of words on aarch64 and    *)
(* under miri, but for gt there.                                           *)
ct_mask(cond) ==
  wrapping_neg(Shr(cond | wrapping_neg(cond, BITS), BITS - 1), BITS)

ct_sel64(arch, cond, a, b) ==
  IF arch = "miri"
  THEN LET m == ct_mask(cond) IN (m & a) | (Flipped(m, BITS) & b)
  ELSE IF cond # 0 THEN a ELSE b
ct_sel32(arch, cond, a, b) == Unsigned(ct_sel64(arch, cond, a, b), HALF)

ct_eq64(arch, a, b) ==
  IF arch = "miri"
  THEN LET s == FoldLeft(LAMBDA r, k : r | Shr(r, k), a ^^ b, FOLDS)
       IN  Flipped(ct_mask(Unsigned(s, BYTE)), BITS) & 1
  ELSE Equal(Cmp(a, b, BITS))
ct_eq32(arch, a, b) ==
  IF arch = "x86_64" THEN Equal(Cmp(a, b, HALF)) ELSE ct_eq64(arch, a, b)

(* Of a difference of half words in a word, the lowest bit of the high     *)
(* half is the borrow.                                                     *)
BorrowOut(a, b) == Shr(Unsigned(b - a, BITS), HALF) & 1

High(x) == Shr(x, HALF)
Low(x)  == Unsigned(x, HALF)

ct_gt_u64(arch, a, b) ==
  IF arch = "miri"
  THEN BorrowOut(High(a), High(b))
         | (ct_eq32(arch, High(a), High(b)) & BorrowOut(Low(a), Low(b)))
  ELSE Above(Cmp(a, b, BITS))
ct_gt_u32(arch, a, b) ==
  CASE arch = "x86_64" -> Above(Cmp(a, b, HALF))
    [] arch = "aarch64" -> ct_gt_u64(arch, a, b)
    [] arch = "miri" -> BorrowOut(a, b)

(* Of one sign, the patterns compare as they are.                          *)
BySign(a_msb, b_msb, u_gt) ==
  (((a_msb ^^ b_msb) ^^ 1) & u_gt) | ((a_msb ^^ 1) & b_msb)

ct_gt_i64(arch, a, b) ==
  IF arch = "miri"
  THEN BySign(Shr(a, BITS - 1), Shr(b, BITS - 1), ct_gt_u64(arch, a, b))
  ELSE Greater(Cmp(a, b, BITS))

Upper(x) == Shr(x, BITS)
Lower(x) == Unsigned(x, BITS)
ct_eq128(arch, a, b) ==
  ct_eq64(arch, Upper(a), Upper(b)) & ct_eq64(arch, Lower(a), Lower(b))
ct_gt_u128(arch, a, b) ==
  ct_gt_u64(arch, Upper(a), Upper(b))
    | (ct_eq64(arch, Upper(a), Upper(b)) & ct_gt_u64(arch, Lower(a), Lower(b)))

(* Mutant: both words are compared as signed ones.                         *)
ct_gt_i128_words(arch, a, b) ==
  ct_gt_i64(arch, Upper(a), Upper(b))
    | (ct_eq64(arch, Upper(a), Upper(b)) & ct_gt_i64(arch, Lower(a), Lower(b)))
ct_gt_i128(arch, a, b) ==
  BySign(Shr(a, 2 * BITS - 1), Shr(b, 2 * BITS - 1), ct_gt_u128(arch, a, b))

-----------------------------------------------------------------------------
(* lib.rs: the traits' functions, for each type by those of its width.     *)
select(arch, t, a, b, choice) ==
  As(t, IF t.bits <= HALF
          THEN ct_sel32(arch, choice, Unsigned(b, HALF), Unsigned(a, HALF))
        ELSE IF t.bits = BITS
          THEN ct_sel64(arch, choice, Unsigned(b, BITS), Unsigned(a, BITS))
        ELSE LET word(W(_)) == ct_sel64(arch, choice, W(Unsigned(b, 2 * BITS)),
                                        W(Unsigned(a, 2 * BITS)))
             IN  word(Upper) * (2 ^ BITS) + word(Lower))

(* assign, twice: the second value comes from a copy of the first.         *)
swap(arch, t, a, b, choice) ==
  <<select(arch, t, a, b, choice), select(arch, t, b, a, choice)>>

eq(arch, t, a, b) ==
  IF t.bits <= HALF THEN ct_eq32(arch, Unsigned(a, HALF), Unsigned(b, HALF))
  ELSE IF t.bits = BITS
    THEN ct_eq64(arch, Unsigned(a, BITS), Unsigned(b, BITS))
  ELSE ct_eq128(arch, Unsigned(a, 2 * BITS), Unsigned(b, 2 * BITS))

(* Signed ones are extended to a word, whatever their width.               *)
gt(arch, t, a, b) ==
  LET to(Op(_, _, _), n) == Op(arch, Unsigned(a, n), Unsigned(b, n))
  IN  IF t.bits > BITS
      THEN IF t.signed THEN to(ct_gt_i128, 2 * BITS) ELSE to(ct_gt_u128, 2 * BITS)
      ELSE IF t.signed THEN to(ct_gt_i64, BITS)
      ELSE IF t.bits = BITS THEN to(ct_gt_u64, BITS) ELSE to(ct_gt_u32, HALF)

lt(arch, t, a, b) == not(gt(arch, t, a, b)) & not(eq(arch, t, a, b))
=============================================================================
