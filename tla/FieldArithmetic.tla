-------------------------- MODULE FieldArithmetic ---------------------------
(***************************************************************************)
(* GF(2^127 - 1) and its quadratic extension as k12_and_key_utils.h        *)
(* computes them on pairs of 64-bit words. A word has WordBits bits here,  *)
(* so the prime is 2^(2 * WordBits - 1) - 1 and every mask, shift and      *)
(* carry keeps its place: 63 is WordBits - 1, 0x7FFF...FFFF is HalfMask.   *)
(* felm_t is <<a[0], a[1]>>, f2elm_t a pair of those, standing for a[0] +  *)
(* a[1] i with i^2 = -1.                                                   *)
(***************************************************************************)
EXTENDS Naturals, Sequences
CONSTANT WordBits     \* bits of a word (64)
ASSUME WAssumption == WordBits \in Nat /\ WordBits > 1

WordValues == 2^WordBits
Half == 2^(WordBits - 1)
AllOnes == WordValues - 1
HalfMask == Half - 1
Modulus == 2^(2 * WordBits - 1) - 1

\* The carry and borrow intrinsics: <<result, carry>>.
_addcarry_u64(carry, src1, src2) ==
  <<(src1 + src2 + carry) % WordValues, (src1 + src2 + carry) \div WordValues>>
_subborrow_u64(borrow, src1, src2) ==
  <<(WordValues + src1 - src2 - borrow) % WordValues, IF src1 < src2 + borrow THEN 1 ELSE 0>>
AddWords(a, b) ==
  LET low == _addcarry_u64(0, a[1], b[1])
  IN  <<low[1], _addcarry_u64(low[2], a[2], b[2])[1]>>
SubWords(a, b) ==
  LET low == _subborrow_u64(0, a[1], b[1])
  IN  <<low[1], _subborrow_u64(low[2], a[2], b[2])[1]>>

\* _umul128 and the double-word shifts.
_umul128(a, b) == <<(a * b) % WordValues, (a * b) \div WordValues>>
__shiftleft128(LowPart, HighPart, Shift) ==
  (HighPart * 2^Shift + LowPart \div 2^(WordBits - Shift)) % WordValues
__shiftright128(LowPart, HighPart, Shift) ==
  (LowPart \div 2^Shift + HighPart * 2^(WordBits - Shift)) % WordValues

\* The bit above the modulus is folded back into the low word.
FoldTopBit(c) == AddWords(<<c[1], c[2] % Half>>, <<c[2] \div Half, 0>>)

mod1271(a) ==
  LET s == SubWords(a, <<AllOnes, HalfMask>>)
      borrowed == s[2] \div Half = 1
  IN  AddWords(s, IF borrowed THEN <<AllOnes, HalfMask>> ELSE <<0, 0>>)
fpadd1271(a, b) == FoldTopBit(AddWords(a, b))
fpsub1271(a, b) ==
  LET c == SubWords(a, b)
  IN  SubWords(<<c[1], c[2] % Half>>, <<c[2] \div Half, 0>>)
fpneg1271(a) == <<AllOnes - a[1], HalfMask - a[2]>>

\* The four word products; those above bit 2W-1 wrap around to bit 0.
FoldProducts(low, cross, high) ==
  LET tt3 == <<(high[1] * 2) % WordValues, __shiftleft128(high[1], high[2], 1)>>
      top == AddWords(<<__shiftright128(cross[1], cross[2], WordBits - 1), cross[2] \div Half>>, tt3)
  IN  FoldTopBit(AddWords(<<low, cross[1] % Half>>, top))
fpmul1271(a, b) ==
  LET tt1 == _umul128(a[1], b[1])
      tt2 == AddWords(_umul128(a[1], b[2]), <<tt1[2], 0>>)
  IN  FoldProducts(tt1[1], AddWords(tt2, _umul128(a[2], b[1])), _umul128(a[2], b[2]))
fpsqr1271(a) ==
  LET tt1 == _umul128(a[1], a[1])
      tt2 == _umul128(a[1], a[2])
      tt3 == AddWords(tt2, <<tt1[2], 0>>)
  IN  FoldProducts(tt1[1], AddWords(tt2, tt3), _umul128(a[2], a[2]))

\* a^(2^n - 1); the code has n = 125, two below the exponent of the modulus.
RECURSIVE PowerOfOnes(_, _)
PowerOfOnes(a, n) == IF n = 1 THEN a ELSE fpmul1271(a, fpsqr1271(PowerOfOnes(a, n - 1)))
fpexp1251(a) == PowerOfOnes(a, 2 * WordBits - 3)

\* The addition chain itself, at its full length, on exponents as sets of one
\* bits: squaring shifts one, multiplying powers adds two disjoint ones.
Squared(e, times) == {bit + times : bit \in e}
Times(e, f) == IF e \cap f = {} THEN e \cup f ELSE {}
fpexp1251Exponent ==
  LET a  == {0}
      t2 == Times(a, Squared(a, 1))
      t3 == Times(t2, Squared(t2, 2))
      t4 == Times(t3, Squared(t3, 4))
      t5 == Times(t4, Squared(t4, 1 + 7))
      u2 == Times(t5, Squared(t5, 1 + 15))
      u1 == Times(u2, Squared(u2, 1 + 31))
      v1 == Times(Squared(u1, 32), u2)
      w1 == Times(t5, Squared(v1, 16))
      x1 == Times(t4, Squared(w1, 8))
      y1 == Times(t3, Squared(x1, 4))
  IN  Times(a, Squared(y1, 1))

HalfOf(a) ==
  LET temp == AddWords(a, IF a[1] % 2 = 1 THEN <<AllOnes, AllOnes \div 2>> ELSE <<0, 0>>)
  IN  <<__shiftright128(temp[1], temp[2], 1), temp[2] \div 2>>
fp2div1271(a) == <<HalfOf(a[1]), HalfOf(a[2])>>
fp2neg1271(a) == <<fpneg1271(a[1]), fpneg1271(a[2])>>
fp2sqr1271(a) ==
  LET t3 == fpmul1271(a[1], a[2])
  IN  <<fpmul1271(fpadd1271(a[1], a[2]), fpsub1271(a[1], a[2])), fpadd1271(t3, t3)>>
fp2mul1271(a, b) ==
  LET t1 == fpmul1271(a[1], b[1])
      t2 == fpmul1271(a[2], b[2])
      t3 == fpmul1271(fpadd1271(a[1], a[2]), fpadd1271(b[1], b[2]))
  IN  <<fpsub1271(t1, t2), fpsub1271(fpsub1271(t3, t1), t2)>>
fp2add1271(a, b) == <<fpadd1271(a[1], b[1]), fpadd1271(a[2], b[2])>>
fp2sub1271(a, b) == <<fpsub1271(a[1], b[1]), fpsub1271(a[2], b[2])>>

fp2addsub1271(a, b) == fp2sub1271(fp2add1271(a, a), b)
mod2_1271(a) == <<mod1271(a[1]), mod1271(a[2])>>

\* Values of words, and words of values.
Felm(v) == <<v % WordValues, v \div WordValues>>
F2elm(v) == <<Felm(v[1]), Felm(v[2])>>
ValueOf(a) == a[1] + WordValues * a[2]
Residue(a) == <<ValueOf(a[1]) % Modulus, ValueOf(a[2]) % Modulus>>
Mod(v) == v % Modulus
Inverse2 == 2^(2 * WordBits - 2)
=============================================================================
