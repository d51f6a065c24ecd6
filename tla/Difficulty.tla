----------------------------- MODULE Difficulty -----------------------------
(***************************************************************************)
(* DifficultyTarget: the compact and the full representation of a target,  *)
(* their conversions, the long division by a difficulty and the comparison *)
(* of a hash with a target.  A byte is below ByteSize (256) and a word has *)
(* WordBytes bytes (8); a target has four words (32 bytes), least          *)
(* significant byte first.                                                 *)
(***************************************************************************)
EXTENDS Integers, Sequences
CONSTANTS ByteSize, WordBytes,
          CompactReps,     \* <<m0, m1, m2, exponent>> targets are built from
          FullReps,        \* values targets are built from
          Divisors,        \* difficulties, below 2^64
          MaxDivisions     \* bound of the runs
VARIABLES compactRep, fullRep, \* m_compactRep and m_fullRep
          base,            \* history: the value before the divisions
          divisions,       \* history: how often it was divided
          product          \* history: the product of the difficulties
targetVars == <<compactRep, fullRep, base, divisions, product>>

\* What a byte counts for at place i + 1, and the numbers bytes stand for.
Weight(n) == LET w[i \in 0..n] == IF i = 0 THEN 1 ELSE ByteSize * w[i - 1] IN w[n]
Byte == 0..(ByteSize - 1)
WordSize == Weight(WordBytes)
TargetBytes == 4 * WordBytes
ASSUME TargetAssumption ==
  /\ ByteSize \in Nat \ {0, 1} /\ WordBytes \in Nat \ {0} /\ MaxDivisions \in Nat
  /\ \A compact \in CompactReps : compact[4] \in Nat /\ \A i \in 1..3 : compact[i] \in Byte
  /\ FullReps \subseteq Nat /\ Divisors \subseteq 0..(WordSize - 1)
Bytes(v, n) == [i \in 1..n |-> (v \div Weight(i - 1)) % ByteSize] \o << >>
ValueUpTo(bytes, n) ==
  LET v[i \in 0..n] == IF i = 0 THEN 0 ELSE v[i - 1] + bytes[i] * Weight(i - 1) IN v[n]
Value(bytes) == ValueUpTo(bytes, Len(bytes))

\* The mantissa goes to byte exponent - 3; what falls outside is lost.
calculateFullRepFromCompactRep(compact) ==
  [i \in 1..TargetBytes |->
     LET k == i - (compact[4] - 3) IN IF k \in 1..3 THEN compact[k] ELSE 0] \o << >>

\* The three bytes below the first nonzero one; a mantissa with its top bit set
\* gives up its low byte, which would otherwise read as a sign.
ExponentOf(full) ==
  LET significant == {i \in 1..TargetBytes : full[i] # 0}
      top == CHOOSE i \in significant : \A j \in significant : j <= i
  IN  IF significant = {} \/ top <= 3 THEN 3 ELSE top

\* Mutant: a mantissa keeps its top bit.
CompactRepSigned(full) ==
  SubSeq(full, ExponentOf(full) - 2, ExponentOf(full)) \o <<ExponentOf(full)>>

calculateCompactRepFromFullRep(full) ==
  LET exponent == ExponentOf(full)
      mantissa == SubSeq(full, exponent - 2, exponent)
  IN  IF mantissa[3] >= ByteSize \div 2 THEN <<mantissa[2], mantissa[3], 0, exponent + 1>>
      ELSE mantissa \o <<exponent>>

\* Long division, most significant word first: what is left of a word stands
\* above the next, and two words hold the two.
Current(above, difficulty, word) == (above % difficulty) * WordSize + word
DivideWords(words, difficulty) ==
  LET c4 == words[4]
      c3 == Current(c4, difficulty, words[3])
      c2 == Current(c3, difficulty, words[2])
      c1 == Current(c2, difficulty, words[1])
      word(current) == (current \div difficulty) % WordSize
  IN  <<word(c1), word(c2), word(c3), word(c4)>>
divideTarget(target, difficulty) ==
  IF difficulty <= 1 THEN target
  ELSE LET word(i) == Value(SubSeq(target, (i - 1) * WordBytes + 1, i * WordBytes))
           q == DivideWords(<<word(1), word(2), word(3), word(4)>>, difficulty)
       IN  Bytes(q[1], WordBytes) \o Bytes(q[2], WordBytes)
             \o Bytes(q[3], WordBytes) \o Bytes(q[4], WordBytes)

\* The first byte from the top that differs decides.
verifyHashVsTarget(hash, target) ==
  LET differ == {i \in 1..TargetBytes : hash[i] # target[i]}
  IN  differ = {} \/ \E i \in differ : hash[i] < target[i] /\ \A j \in differ : j <= i

-----------------------------------------------------------------------------
FromCompact(compact) ==
  /\ compactRep = compact
  /\ fullRep = calculateFullRepFromCompactRep(compact)
FromFull(value) ==
  /\ fullRep = Bytes(value, TargetBytes)
  /\ compactRep = calculateCompactRepFromFullRep(fullRep)
TargetStart ==
  /\ \/ \E compact \in CompactReps : FromCompact(compact)
     \/ \E value \in FullReps : FromFull(value)
  /\ base = Value(fullRep) /\ divisions = 0 /\ product = 1
div(divisor) ==
  /\ fullRep' = divideTarget(fullRep, divisor)
  /\ compactRep' = calculateCompactRepFromFullRep(fullRep')
  /\ base' = base /\ divisions' = divisions + 1
  /\ product' = product * (IF divisor = 0 THEN 1 ELSE divisor)
TargetNext == divisions < MaxDivisions /\ \E divisor \in Divisors : div(divisor)
TargetSpec == TargetStart /\ [][TargetNext]_targetVars

\* However often a target is divided, no remainder is lost between the words or
\* between the calls: it is the base over the product of the difficulties.
DivisionsCompose == Value(fullRep) = base \div product

\* The nBits of a computed target denote the target rounded down to the bytes
\* the mantissa has left, and never read as a negative number.
CompactRoundsDown ==
  divisions > 0 =>
    LET unit == Weight(compactRep[4] - 3)
    IN  /\ compactRep[3] < ByteSize \div 2
        /\ Value(SubSeq(compactRep, 1, 3)) * unit = Value(fullRep) - (Value(fullRep) % unit)

\* A hash meets a target exactly when it is no larger as a number.
ComparesNumerically ==
  \A v \in {0, 1, base, Value(fullRep), Value(fullRep) + 1, Value(fullRep) + ByteSize,
            Value(fullRep) \div 2} \cap 0..(Weight(TargetBytes) - 1) :
    verifyHashVsTarget(Bytes(v, TargetBytes), fullRep) = (v <= Value(fullRep))

\* A target means one number: divided several times it is divided by the
\* product, its compact form is that number rounded down, and hashes are
\* compared with it as numbers (divideTarget, the two conversions,
\* verifyHashVsTarget).
TargetsExact == DivisionsCompose /\ CompactRoundsDown /\ ComparesNumerically
=============================================================================
