-------------------------- MODULE ScalarArithmetic --------------------------
(***************************************************************************)
(* Scalars modulo the curve order and the scalar multiplications of        *)
(* k12_and_key_utils.h, on words of DigitBits bits where the code has 64.  *)
(* A scalar is the sequence of its four words, least significant first.    *)
(* The group has the prime order Order, so a point is the residue of its   *)
(* discrete logarithm; the endomorphisms phi and psi multiply it by their  *)
(* eigenvalues.                                                            *)
(***************************************************************************)
EXTENDS Integers, Sequences
CONSTANTS DigitBits,    \* bits of a word (64)
          Order,        \* the curve order (a 246-bit prime)
          Eigenvalues,  \* <<1, phi, psi, phi psi>> as multipliers modulo Order
          Ell,          \* the Babai constants ell1 .. ell4
          Basis,        \* rows of the short lattice basis, B11 .. B44
          Offset,       \* C1 .. C4
          CombRows, Tables, TableColumns  \* the comb: 5 rows, 5 tables of 10 columns
ASSUME ScalarAssumption ==
  /\ {DigitBits, Order, CombRows, Tables, TableColumns} \subseteq Nat \ {0}
  /\ Order % 2 = 1 /\ 2 * Order < 2^(4 * DigitBits)

B == 2^DigitBits
R == 2^(4 * DigitBits)
WordsOf(v) == <<v % B, (v \div B) % B, (v \div B^2) % B, v \div B^3>>
ScalarValue(w) == w[1] + B * w[2] + B^2 * w[3] + B^3 * w[4]
CURVE_ORDER == WordsOf(Order)
ONE == WordsOf(1)

\* The constants the code precomputes: -1/r mod R and R^2 mod r.
MONTGOMERY_SMALL_R_PRIME == WordsOf(CHOOSE n \in 0..(R - 1) : (n * Order) % R = R - 1)
Montgomery_Rprime == WordsOf(((R % Order) * (R % Order)) % Order)

Carry(c, a, b) == <<(a + b + c) % B, (a + b + c) \div B>>
RECURSIVE AddFrom(_, _, _, _)
AddFrom(a, b, i, carry) ==
  IF i > Len(a) THEN [words |-> << >>, carry |-> carry]
  ELSE LET s == Carry(carry, a[i], b[i])
           rest == AddFrom(a, b, i + 1, s[2])
       IN  [words |-> <<s[1]>> \o rest.words, carry |-> rest.carry]
AddCarry(a, b) == AddFrom(a, b, 1, 0)
RECURSIVE SubFrom(_, _, _, _)
SubFrom(a, b, i, borrow) ==
  IF i > Len(a) THEN [words |-> << >>, carry |-> borrow]
  ELSE LET rest == SubFrom(a, b, i + 1, IF a[i] < b[i] + borrow THEN 1 ELSE 0)
       IN  [words |-> <<(a[i] - b[i] - borrow) % B>> \o rest.words, carry |-> rest.carry]
SubBorrow(a, b) == SubFrom(a, b, 1, 0)

\* One row of a schoolbook product: a_i * b added into c from word i on.  u is
\* the word carried out of the last product, k the carry out of the last c.
\* limit = 8 for multiply; limit = 4 cuts the product at R, as for Q.
RECURSIVE RowFrom(_, _, _, _, _, _, _, _)
RowFrom(c, ai, b, i, j, u, k, limit) ==
  IF j > 4 THEN IF i + 4 <= limit THEN [c EXCEPT ![i + 4] = u + k] ELSE c
  ELSE IF i + j - 1 > limit THEN c
  ELSE LET low == (ai * b[j]) % B
           v == Carry(k, low, u)
           s == Carry(0, c[i + j - 1], v[1])
       IN  RowFrom([c EXCEPT ![i + j - 1] = s[1]], ai, b, i, j + 1,
                   v[2] + (ai * b[j]) \div B, s[2], limit)
Rows4(a, b, limit) ==
  LET zero == SubSeq(<<0, 0, 0, 0, 0, 0, 0, 0>>, 1, limit)
      row(c, i) == RowFrom(c, a[i], b, i, 1, 0, 0, limit)
  IN  row(row(row(row(zero, 1), 2), 3), 4)
multiply(a, b) == Rows4(a, b, 8)

\* The order is subtracted once, and added back if that was once too often.
SubtractOrderOnce(sum) ==
  LET less == SubBorrow(SubSeq(sum.words, 5, 8), CURVE_ORDER)
  IN  IF sum.carry - less.carry # 0 THEN AddCarry(less.words, CURVE_ORDER).words
      ELSE less.words
MontgomeryReduce(P) ==
  SubtractOrderOnce(AddCarry(P, multiply(Rows4(P, MONTGOMERY_SMALL_R_PRIME, 4), CURVE_ORDER)))
Montgomery_multiply_mod_order(ma, mb) ==
  MontgomeryReduce(IF mb = ONE THEN ma \o <<0, 0, 0, 0>> ELSE multiply(ma, mb))

\* Mutant: a difference below zero stays modulo R.
SubtractModOrderWraps(r, s) == SubBorrow(r, s).words

\* r - s modulo the order, the way a signature is completed.
SubtractModOrder(r, s) ==
  LET difference == SubBorrow(r, s)
  IN  IF difference.carry = 1 THEN AddCarry(difference.words, CURVE_ORDER).words
      ELSE difference.words

\* Both steps every scalar is reduced with.
ReduceModOrder(k) ==
  Montgomery_multiply_mod_order(Montgomery_multiply_mod_order(k, Montgomery_Rprime), ONE)

-----------------------------------------------------------------------------
\* Word 4 of the product s * C, column by column with the carries the code keeps.
mul_truncate(s, C) ==
  LET low(i, j) == (s[i] * C[j]) % B
      high(i, j) == (s[i] * C[j]) \div B
      add(a, b) == LET l == Carry(0, a[1], b[1])
                       h == Carry(l[2], a[2], b[2])
                   IN  <<l[1], h[1], h[2]>>
      a10 == add(<<high(1, 1), 0>>, <<low(2, 1), high(2, 1)>>)
      a01 == add(a10, <<low(1, 2), high(1, 2)>>)
      a20 == add(<<a01[2], a01[3]>>, <<low(3, 1), high(3, 1)>>)
      a02 == add(a20, <<low(1, 3), high(1, 3)>>)
      a11 == add(a02, <<low(2, 2), high(2, 2)>>)
      a03 == add(<<a11[2], a02[3] + a11[3]>>, <<low(1, 4), high(1, 4)>>)
      a30 == add(a03, <<low(4, 1), high(4, 1)>>)
      a12 == add(a30, <<low(2, 3), high(2, 3)>>)
      a21 == Carry(0, a12[1], low(3, 2))
  IN  (a21[2] + a12[2] + high(3, 2) + s[2] * C[4] + s[3] * C[3] + s[4] * C[2]) % B

\* Four sub-scalars of one word each, the first one odd.
Combination(k, a) ==
  [n \in 1..4 |->
     (a[1] * Basis[1][n] + a[2] * Basis[2][n] + a[3] * Basis[3][n] + a[4] * Basis[4][n]
        + Offset[n] + (IF n = 1 THEN k[1] ELSE 0)) % B]
FirstOdd(scalars) ==
  IF scalars[1] % 2 = 1 THEN scalars ELSE [n \in 1..4 |-> (scalars[n] - Basis[4][n]) % B]
decompose(k) == FirstOdd(Combination(k, [j \in 1..4 |-> mul_truncate(k, WordsOf(Ell[j]))]))

\* The digits written for a scalar of one word, DigitBits + 1 of them in all.
RECURSIVE wNAFDigits(_, _)
wNAFDigits(scalar, w) ==
  IF scalar = 0 THEN << >>
  ELSE IF scalar % 2 = 0 THEN <<0>> \o wNAFDigits(scalar \div 2, w)
  ELSE LET window == scalar % 2^w
           digit == IF window > 2^(w - 1) - 1 THEN window - 2^w ELSE window
           left == scalar \div 2^w + (IF digit < 0 THEN 1 ELSE 0)
       IN  <<digit>> \o (IF left # 0 THEN [i \in 1..(w - 1) |-> 0] ELSE << >>)
             \o wNAFDigits(left, w)

wNAF_recode(scalar, w) ==
  LET written == wNAFDigits(scalar, w)
  IN  written \o [i \in 1..(DigitBits + 1 - Len(written)) |-> 0]
=============================================================================
