------------------------ MODULE ScalarMultiplication ------------------------
(***************************************************************************)
(* The four scalar multiplications of k12_and_key_utils.h in the group of  *)
(* prime order: what the recodings, the tables and the loops add up to.    *)
(* A point is the multiple of the generator G it is, modulo Order.         *)
(***************************************************************************)
EXTENDS ScalarArithmetic
CONSTANTS Scalars,    \* four-word scalars the runs multiply by, as numbers
          SubScalars, \* one-word scalars recoded by the runs
          WidthK, WidthL \* the wNAF windows of ecc_mul_double (8 and 4)
VARIABLES call,       \* the function called and its arguments
          answer      \* << >> before it returns, then <<what it returned>>
multiplyVars == <<call, answer>>

Multiple(n, P) == (n * P) % Order
PointAdd(P, Q) == (P + Q) % Order
PointDouble(P) == (2 * P) % Order
PointNegate(P) == (-P) % Order
phi(P) == Multiple(Eigenvalues[2], P)
psi(P) == Multiple(Eigenvalues[3], P)

\* FIXED_BASE_TABLE: entry 16 j + u is 2^(10 j) (1 + u1 2^50 + .. + u4 2^200) G.
CombWidth == Tables * TableColumns
FIXED_BASE_TABLE(j, u) ==
  LET bit(i) == IF u[i] = 1 THEN 2^(i * CombWidth) % Order ELSE 0
      total[i \in 0..(CombRows - 1)] == IF i = 0 THEN 1 ELSE total[i - 1] + bit(i)
  IN  Multiple(2^(TableColumns * j), total[CombRows - 1])
table_lookup_fixed_base(j, u, sign) ==
  IF sign = 0 THEN FIXED_BASE_TABLE(j, u) ELSE PointNegate(FIXED_BASE_TABLE(j, u))

\* The recoding of an odd scalar: a row of signs (0 or -1), then rows of bits,
\* each of which takes the sign of its column.
RECURSIVE CombBits(_, _, _)
CombBits(scalar, i, signs) ==
  IF i = CombRows * CombWidth THEN << >>
  ELSE LET digit == scalar % 2
           borrowed == IF digit = 1 /\ signs[(i % CombWidth) + 1] = -1 THEN 1 ELSE 0
       IN  <<digit>> \o CombBits((scalar \div 2 + borrowed) % R, i + 1, signs)
SignsAndBits(scalar) ==
  LET signs == [i \in 1..CombWidth |->
                  IF i = CombWidth THEN 0 ELSE ((scalar \div 2^(i - 1)) % 2) - 1]
  IN  signs \o CombBits(scalar \div 2^(CombWidth - 1), CombWidth, signs)
MadeOdd(reduced) ==
  IF reduced[1] % 2 = 1 THEN reduced ELSE AddCarry(reduced, CURVE_ORDER).words
CombDigits(k) == SignsAndBits(ScalarValue(MadeOdd(ReduceModOrder(k))) \div 2)

\* The columns from the last to the first, and in each the tables from the last
\* to the first; the first entry looked up is the accumulator itself.
CombEntry(digits, j, c) ==
  LET at == j * TableColumns + c
  IN  table_lookup_fixed_base(j, [i \in 1..(CombRows - 1) |-> digits[i * CombWidth + at + 1]],
                              digits[at + 1])
RECURSIVE CombTables(_, _, _, _)
CombTables(digits, j, c, acc) ==
  IF j < 0 THEN acc
  ELSE CombTables(digits, j - 1, c, PointAdd(acc, CombEntry(digits, j, c)))
RECURSIVE CombColumns(_, _, _)
CombColumns(digits, c, acc) ==
  IF c < 0 THEN acc
  ELSE CombColumns(digits, c - 1, CombTables(digits, Tables - 1, c, PointDouble(acc)))
CombSum(digits) ==
  CombColumns(digits, TableColumns - 2,
    CombTables(digits, Tables - 2, TableColumns - 1, CombEntry(digits, Tables - 1, TableColumns - 1)))
ecc_mul_fixed(k) == CombSum(CombDigits(k))

-----------------------------------------------------------------------------
\* (2 + 1) * 16 + 1, eight times over: 392.
cofactor_clearing(P) ==
  LET three == PointAdd(PointDouble(P), P)
      fortyNine == PointAdd(PointDouble(PointDouble(PointDouble(PointDouble(three)))), P)
  IN  PointDouble(PointDouble(PointDouble(fortyNine)))

\* P plus every combination of phi(P), psi(P) and psi(phi(P)).
ecc_precomp(P) ==
  LET Q == phi(P)
      T0 == P
      T1 == PointAdd(T0, Q)
      T2 == PointAdd(T0, psi(P))
      T3 == PointAdd(T1, psi(P))
      s == psi(Q)
  IN  <<T0, T1, T2, T3, PointAdd(T0, s), PointAdd(T1, s), PointAdd(T2, s), PointAdd(T3, s)>>

\* Mutant: no borrow is absorbed.
RecodeFromPlain(scalars, i) ==
  LET bits(s) == [n \in 1..DigitBits |-> (s \div 2^(n - 1)) % 2]
  IN  [signs |-> bits(scalars[1] \div 2), left |-> <<0, 0, 0, 0>>,
       digits |-> [n \in 1..DigitBits |-> bits(scalars[2])[n] + 2 * bits(scalars[3])[n]
                                    + 4 * bits(scalars[4])[n]]]

\* The sub-scalars bit by bit: the signs come from the first, the digits from
\* the other three, which absorb a borrow where the sign is negative.
RECURSIVE RecodeFrom(_, _)
RecodeFrom(scalars, i) ==
  IF i = DigitBits THEN [signs |-> << >>, digits |-> << >>, left |-> scalars]
  ELSE LET first == scalars[1] \div 2
           bit0 == first % 2
           next(s) == s \div 2 + (IF bit0 = 0 THEN s % 2 ELSE 0)
           rest == RecodeFrom(<<first, next(scalars[2]), next(scalars[3]), next(scalars[4])>>, i + 1)
       IN  [signs |-> <<bit0>> \o rest.signs,
            digits |-> <<(scalars[2] % 2) + 2 * (scalars[3] % 2) + 4 * (scalars[4] % 2)>> \o rest.digits,
            left |-> rest.left]
RECURSIVE WindowLoop(_, _, _, _)
WindowLoop(recoded, table, i, acc) ==
  IF i = 0 THEN acc
  ELSE LET entry == table[recoded.digits[i] + 1]
       IN  WindowLoop(recoded, table, i - 1,
             PointAdd(PointDouble(acc), IF recoded.signs[i] = 1 THEN entry ELSE PointNegate(entry)))
WindowSum(recoded, table) ==
  LET top == recoded.left[2] + 2 * recoded.left[3] + 4 * recoded.left[4]
  IN  WindowLoop(recoded, table, DigitBits, table[top + 1])
ecc_mul(P, k) == WindowSum(RecodeFrom(decompose(k), 0), ecc_precomp(cofactor_clearing(P)))

-----------------------------------------------------------------------------
\* The first 2^(w-2) odd multiples of a point.
ecc_precomp_double(P) ==
  LET odd[i \in 0..(2^(WidthL - 2) - 1)] ==
        IF i = 0 THEN P ELSE PointAdd(odd[i - 1], PointDouble(P))
  IN  odd
\* Entry 64 n + i is the (2i+1)-fold of G, phi(G), psi(G) or psi(phi(G)).
DOUBLE_SCALAR_TABLE ==
  [n \in 1..4 |-> [i \in 0..(2^(WidthK - 2) - 1) |-> Multiple(2 * i + 1, Eigenvalues[n])]]

AddDigit(acc, digit, multiples) ==
  IF digit < 0 THEN PointAdd(acc, PointNegate(multiples[(-digit) \div 2]))
  ELSE IF digit > 0 THEN PointAdd(acc, multiples[digit \div 2])
  ELSE acc
DoubleStep(acc, i, kDigits, lDigits, table) ==
  LET q1 == AddDigit(PointDouble(acc), lDigits[1][i], table[1])
      q2 == AddDigit(q1, lDigits[2][i], table[2])
      q3 == AddDigit(q2, lDigits[3][i], table[3])
      q4 == AddDigit(q3, lDigits[4][i], table[4])
      g1 == AddDigit(q4, kDigits[1][i], DOUBLE_SCALAR_TABLE[1])
      g2 == AddDigit(g1, kDigits[2][i], DOUBLE_SCALAR_TABLE[2])
      g3 == AddDigit(g2, kDigits[3][i], DOUBLE_SCALAR_TABLE[3])
  IN  AddDigit(g3, kDigits[4][i], DOUBLE_SCALAR_TABLE[4])
RECURSIVE DoubleLoop(_, _, _, _, _)
DoubleLoop(acc, i, kDigits, lDigits, table) ==
  IF i = 0 THEN acc
  ELSE DoubleLoop(DoubleStep(acc, i, kDigits, lDigits, table), i - 1, kDigits, lDigits, table)
ecc_mul_double(k, l, Q) ==
  LET ks == decompose(k)
      ls == decompose(l)
      kDigits == [n \in 1..4 |-> wNAF_recode(ks[n], WidthK)]
      lDigits == [n \in 1..4 |-> wNAF_recode(ls[n], WidthL)]
      table == <<ecc_precomp_double(Q), ecc_precomp_double(phi(Q)),
                 ecc_precomp_double(psi(Q)), ecc_precomp_double(psi(phi(Q)))>>
  IN  DoubleLoop(0, DigitBits + 1, kDigits, lDigits, table)

-----------------------------------------------------------------------------
Calls == [fun : {"ecc_mul_fixed"}, k : Scalars]
           \cup [fun : {"ecc_mul"}, k : Scalars, P : {1, Order - 2}]
           \cup [fun : {"ecc_mul_double"}, k : Scalars, l : {n \in Scalars : n % 2 = 1}, Q : {3}]
           \cup [fun : {"wNAF_recode"}, s : SubScalars, w : {WidthK, WidthL}]
MultiplyStart(c) == call = c /\ answer = << >>

MultiplyFixed ==
  /\ call.fun = "ecc_mul_fixed" /\ answer = << >>
  /\ answer' = <<ecc_mul_fixed(WordsOf(call.k))>>
  /\ UNCHANGED call
MultiplyVariable ==
  /\ call.fun = "ecc_mul" /\ answer = << >>
  /\ answer' = <<ecc_mul(call.P, WordsOf(call.k))>>
  /\ UNCHANGED call
MultiplyDouble ==
  /\ call.fun = "ecc_mul_double" /\ answer = << >>
  /\ answer' = <<ecc_mul_double(WordsOf(call.k), WordsOf(call.l), call.Q)>>
  /\ UNCHANGED call
RecodeSubScalar ==
  /\ call.fun = "wNAF_recode" /\ answer = << >>
  /\ answer' = <<wNAF_recode(call.s, call.w)>>
  /\ UNCHANGED call

MultiplyNext == MultiplyFixed \/ MultiplyVariable \/ MultiplyDouble \/ RecodeSubScalar

\* The comb, the signed windows and the interleaved wNAF loops all return the
\* multiple of the point that the scalar stands for, for scalars up to 2^256
\* that the caller has not reduced.
MultipliesExactly ==
  answer # << >> =>
    CASE call.fun = "ecc_mul_fixed"  -> answer[1] = call.k % Order
      [] call.fun = "ecc_mul"        -> answer[1] = Multiple(392 % Order, Multiple(call.k % Order, call.P))
      [] call.fun = "ecc_mul_double" -> answer[1] = PointAdd(call.k % Order, Multiple(call.l % Order, call.Q))
      [] OTHER -> TRUE

\* A recoded sub-scalar keeps its value in the DigitBits + 1 digits the arrays
\* hold, its digits are zero or odd and small enough for the tables, and two
\* nonzero ones are at least a window apart.
RecodingsFit ==
  answer # << >> /\ call.fun = "wNAF_recode" =>
    LET digits == answer[1]
        total[i \in 0..(DigitBits + 1)] == IF i = 0 THEN 0 ELSE total[i - 1] + digits[i] * 2^(i - 1)
    IN  /\ Len(digits) = DigitBits + 1
        /\ total[DigitBits + 1] = call.s
        /\ \A i \in 1..(DigitBits + 1) : digits[i] # 0 =>
             /\ digits[i] % 2 = 1
             /\ digits[i] \in -(2^(call.w - 1) - 1) .. (2^(call.w - 1) - 1)
             /\ \A j \in 1..(call.w - 1) : i + j <= DigitBits + 1 => digits[i + j] = 0
=============================================================================
