------------------------------- MODULE Keccak -------------------------------
(***************************************************************************)
(* The twelve-round permutation under every signature and identity of the  *)
(* dispatcher (crypto/k12_and_key_utils.h).  A 64-bit lane is the set of   *)
(* its one bits, so ^ is the symmetric difference, & the intersection and  *)
(* ROL64 a shift modulo 64.  The state is the sequence of its 25 lanes in  *)
(* memory order: ba be bi bo bu, ga .. gu, ka .. ku, ma .. mu, sa .. su.   *)
(***************************************************************************)
EXTENDS Naturals, Sequences, FiniteSets

LaneBits == 64
Xor(a, b) == (a \ b) \cup (b \ a)
ROL64(a, offset) == {(b + offset) % LaneBits : b \in a}
AndNot(a, b) == b \ a

\* Concatenation makes TLC compute the elements of a sequence once.
Evaluated(seq) == seq \o << >>

\* copyFromState and copyToState: the position of every lane.
Lane == [ba |-> 1,  be |-> 2,  bi |-> 3,  bo |-> 4,  bu |-> 5,
         ga |-> 6,  ge |-> 7,  gi |-> 8,  go |-> 9,  gu |-> 10,
         ka |-> 11, ke |-> 12, ki |-> 13, ko |-> 14, ku |-> 15,
         ma |-> 16, me |-> 17, mi |-> 18, mo |-> 19, mu |-> 20,
         sa |-> 21, se |-> 22, si |-> 23, so |-> 24, su |-> 25]

Column(l) == ((l - 1) % 5) + 1
Row(l)    == (l - 1) \div 5
InRow(l, k) == 5 * Row(l) + ((Column(l) - 1 + k) % 5) + 1

KeccakF1600RoundConstant ==
  << {0, 1, 3, 7, 15, 31}, {0, 1, 3, 7, 63}, {0, 3, 7, 15, 63},
     {0, 1, 15, 63}, {1, 15, 63}, {7, 63}, {1, 3, 15}, {1, 3, 31, 63},
     {0, 7, 15, 31, 63}, {7, 15, 63}, {0, 31} >>
LastRoundConstant == {3, 15, 31, 63}

\* The lane each B lane is read from, and by how much it is rotated.
BLanes ==
  LET L == Lane IN
  << <<L.ba, 0>>,  <<L.ge, 44>>, <<L.ki, 43>>, <<L.mo, 21>>, <<L.su, 14>>,
     <<L.bo, 28>>, <<L.gu, 20>>, <<L.ka, 3>>,  <<L.me, 45>>, <<L.si, 61>>,
     <<L.be, 1>>,  <<L.gi, 6>>,  <<L.ko, 25>>, <<L.mu, 8>>,  <<L.sa, 18>>,
     <<L.bu, 27>>, <<L.ga, 36>>, <<L.ke, 10>>, <<L.mi, 15>>, <<L.so, 56>>,
     <<L.bi, 62>>, <<L.go, 55>>, <<L.ku, 39>>, <<L.ma, 41>>, <<L.se, 2>> >>

\* Ca .. Cu before the first round.
ColumnParities(A) ==
  Evaluated([x \in 1..5 |->
    Xor(A[x], Xor(A[x + 5], Xor(A[x + 10], Xor(A[x + 15], A[x + 20]))))])

\* Da .. Du from Ca .. Cu, and the B lanes read through them.
BFrom(A, C) ==
  LET D == Evaluated([x \in 1..5 |->
             Xor(C[IF x = 1 THEN 5 ELSE x - 1], ROL64(C[IF x = 5 THEN 1 ELSE x + 1], 1))])
  IN  Evaluated([l \in 1..25 |->
        LET from == BLanes[l][1]
        IN  ROL64(Xor(A[from], D[Column(from)]), BLanes[l][2])])

\* One round on the lanes, with the parities of the round before it.
Chi(B, constant) ==
  Evaluated([l \in 1..25 |->
    Xor(IF l = Lane.ba THEN constant ELSE {},
        Xor(B[l], AndNot(B[InRow(l, 1)], B[InRow(l, 2)])))])

\* Ca .. Cu while the rows are written: the first row starts them, each
\* later one is added.
ParitiesOfRows(E) ==
  LET row(y) == SubSeq(E, 5 * y + 1, 5 * y + 5)
      after[y \in 0..4] ==
        IF y = 0 THEN row(0)
        ELSE LET C == after[y - 1]
             IN  Evaluated([x \in 1..5 |-> Xor(C[x], row(y)[x])])
  IN  after[4]

thetaRhoPiChiIotaPrepareTheta(i, A, C) ==
  LET E == Chi(BFrom(A, C), KeccakF1600RoundConstant[i + 1])
  IN  [lanes |-> E, parities |-> ParitiesOfRows(E)]

-----------------------------------------------------------------------------
(***************************************************************************)
(* The reference: Keccak-p[1600, 12] as the standard generates it, with    *)
(* the rotations from the triangular numbers along the (1,0) orbit and the *)
(* round constants from the linear feedback shift register.                *)
(***************************************************************************)
At(A, x, y) == A[5 * (y % 5) + (x % 5) + 1]

\* The t-th lane <<x, y>> of the orbit of (1, 0); it is rotated by the
\* triangular number T(t + 1).
Orbit[t \in 0..23] ==
  IF t = 0 THEN <<1, 0>>
  ELSE LET p == Orbit[t - 1] IN <<p[2], (2 * p[1] + 3 * p[2]) % 5>>
Rotations ==
  Evaluated([l \in 1..25 |->
    IF l = 1 THEN 0
    ELSE LET t == CHOOSE t \in 0..23 : Orbit[t] = <<(l - 1) % 5, (l - 1) \div 5>>
         IN  (((t + 1) * (t + 2)) \div 2) % LaneBits])

\* The standard's shift register, whose polynomial is x^8 + x^6 + x^5 + x^4 + 1:
\* shifted[k, s] are the bits s and the 2^k that follow them.
Iota ==
  LET shifted[k \in 0..8, s \in Seq({0, 1})] ==
        IF k = 0 THEN LET n == Len(s) + 1
                      IN  Append(s, (s[n - 2] + s[n - 3] + s[n - 4] + s[n - 8]) % 2)
        ELSE shifted[k - 1, shifted[k - 1, s]]
      rc == shifted[8, <<1, 0, 0, 0, 0, 0, 0, 0>>]
  IN  Evaluated([r \in 1..24 |->
        {bit \in {0, 1, 3, 7, 15, 31, 63} :
           \E j \in 0..6 : bit + 1 = 2^j /\ rc[j + 7 * (r - 1) + 1] = 1}])

\* theta, then rho and pi (B[y, 2x+3y] from A[x, y]), then chi and iota.
ReferenceRound(A, r) ==
  LET parity == [x \in 0..4 |-> {z \in 0..63 :
                   Cardinality({y \in 0..4 : z \in At(A, x, y)}) % 2 = 1}]
      theta == Evaluated([l \in 1..25 |->
                 Xor(A[l], Xor(parity[(l + 3) % 5],
                               {(z + 1) % 64 : z \in parity[l % 5]}))])
      pi == Evaluated([l \in 1..25 |->
              LET Y == (l - 1) \div 5
                  X == (l - 1) % 5
                  x == (X + 3 * Y) % 5
              IN  {(z + At(Rotations, x, X)) % 64 : z \in At(theta, x, X)}])
  IN  Evaluated([l \in 1..25 |->
        LET Y == (l - 1) \div 5
            X == (l - 1) % 5
            chi == {z \in 0..63 : (z \in At(pi, X, Y))
                      # (z \notin At(pi, X + 1, Y) /\ z \in At(pi, X + 2, Y))}
        IN  IF l = 1 THEN Xor(chi, Iota[r + 1]) ELSE chi])

-----------------------------------------------------------------------------
VARIABLES lanes,     \* Aba .. Asu (or Eba .. Esu: the rounds alternate)
          parities,  \* Ca .. Cu
          round,     \* rounds done
          standard   \* the state the standard's rounds have produced so far
keccakVars == <<lanes, parities, round, standard>>

\* copyFromState, and the column parities computed before the first round.
PermuteStart(state) ==
  /\ lanes = state
  /\ parities = ColumnParities(state)
  /\ round = 0
  /\ standard = state

\* The eleven rounds written with the macro.
MacroRound ==
  /\ round < 11
  /\ LET r == thetaRhoPiChiIotaPrepareTheta(round, lanes, parities)
     IN  lanes' = r.lanes /\ parities' = r.parities
  /\ round' = round + 1
  /\ standard' = ReferenceRound(standard, 12 + round)

\* The unrolled last round, which leaves Ca .. Cu as they are.
LastRound ==
  /\ round = 11
  /\ lanes' = Chi(BFrom(lanes, parities), LastRoundConstant)
  /\ round' = 12
  /\ standard' = ReferenceRound(standard, 23)
  /\ UNCHANGED parities

\* The unrolled rounds with their incremental parities compute Keccak-p: after
\* every round the 25 lanes are those of the standard's permutation.
PermutesAsStandard == lanes = standard
=============================================================================
