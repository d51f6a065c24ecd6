------------------------------- MODULE Scrypt -------------------------------
(***************************************************************************)
(* The memory-hard part of scrypt.c: the salsa20/8 core on 16 words of 32  *)
(* bits, and above it blockmix_salsa8 and smix, whose blocks are sets of   *)
(* BlockBits bits (512) mixed by an arbitrary function Salsa.  The         *)
(* dispatcher runs N = 1024 and r = 1; the pool takes both from its        *)
(* caller.                                                                 *)
(***************************************************************************)
EXTENDS Words32
CONSTANTS BlockBits,       \* bits of a block
          Salsa(_),        \* the core, on a block
          Integer(_),      \* the first eight bytes of a block as a number
          Costs, Factors,  \* N and r
          FirstBlocks(_),  \* what smix is called with, by r
          Inputs           \* 16-word inputs of the core
Block == SUBSET (0..(BlockBits - 1))
Word == SUBSET (0..31)
\* N is a power of two above 1: & (N - 1) is % N, and smix takes two rounds a turn.
ASSUME ScryptAssumption ==
  /\ \A x \in Block : Salsa(x) \in Block /\ Integer(x) \in Nat
  /\ Factors \subseteq Nat \ {0} /\ \A N \in Costs : N \in Nat \ {0} /\ N % 2 = 0
  /\ \A N \in Costs : \E k \in 1..N : N = 2^k
  /\ \A r \in Factors : FirstBlocks(r) \subseteq [1..(2 * r) -> Block]
  /\ Inputs \subseteq [1..16 -> Word]
VARIABLES core,            \* [x, input, standard, doubleRounds] of salsa20_8
          mixing           \* [N, r, X, Y, V, i, phase, input] of smix
scryptVars == <<core, mixing>>

\* x[d] ^= R(x[a] + x[b], n), in the order of the source: columns, then rows.
Operations == <<
  <<4, 0, 12, 7>>, <<8, 4, 0, 9>>, <<12, 8, 4, 13>>, <<0, 12, 8, 18>>,
  <<9, 5, 1, 7>>, <<13, 9, 5, 9>>, <<1, 13, 9, 13>>, <<5, 1, 13, 18>>,
  <<14, 10, 6, 7>>, <<2, 14, 10, 9>>, <<6, 2, 14, 13>>, <<10, 6, 2, 18>>,
  <<3, 15, 11, 7>>, <<7, 3, 15, 9>>, <<11, 7, 3, 13>>, <<15, 11, 7, 18>>,
  <<1, 0, 3, 7>>, <<2, 1, 0, 9>>, <<3, 2, 1, 13>>, <<0, 3, 2, 18>>,
  <<6, 5, 4, 7>>, <<7, 6, 5, 9>>, <<4, 7, 6, 13>>, <<5, 4, 7, 18>>,
  <<11, 10, 9, 7>>, <<8, 11, 10, 9>>, <<9, 8, 11, 13>>, <<10, 9, 8, 18>>,
  <<12, 15, 14, 7>>, <<13, 12, 15, 9>>, <<14, 13, 12, 13>>, <<15, 14, 13, 18>>>>
ROTL(x, n) == ROTR(x, 32 - n)

Assign(x, o) == [x EXCEPT ![o[1] + 1] = XorWords(@, ROTL(Add(x[o[2] + 1], x[o[3] + 1]), o[4]))]
\* Four assignments work on the same four words.
Quarter(x, q) ==
  Assign(Assign(Assign(Assign(x, Operations[4 * q + 1]), Operations[4 * q + 2]),
                Operations[4 * q + 3]), Operations[4 * q + 4])
Columns(x) == Quarter(Quarter(Quarter(Quarter(x, 0), 1), 2), 3)
Rows(x) == Quarter(Quarter(Quarter(Quarter(x, 4), 5), 6), 7)

\* The standard: a quarter round on each column from its diagonal element down,
\* then the same on the transposed matrix.
QuarterRound(y) ==
  LET z1 == XorWords(y[2], ROTL(Add(y[1], y[4]), 7))
      z2 == XorWords(y[3], ROTL(Add(z1, y[1]), 9))
      z3 == XorWords(y[4], ROTL(Add(z2, z1), 13))
  IN  <<XorWords(y[1], ROTL(Add(z3, z2), 18)), z1, z2, z3>>
ColumnRound(m) ==
  LET column(j) == QuarterRound([k \in 1..4 |-> m[4 * ((j + k - 2) % 4) + j]] \o << >>)
      c == <<column(1), column(2), column(3), column(4)>>
  IN  [n \in 1..16 |-> LET j == ((n - 1) % 4) + 1
                           row == (n - 1) \div 4
                       IN  c[j][((row + 5 - j) % 4) + 1]] \o << >>
Transpose(m) == [n \in 1..16 |-> m[4 * ((n - 1) % 4) + ((n - 1) \div 4) + 1]] \o << >>

SalsaDoubleRound ==
  /\ core.doubleRounds < 4
  /\ core' = [core EXCEPT !.x = Rows(Columns(core.x)), !.doubleRounds = @ + 1,
                          !.standard = Transpose(ColumnRound(Transpose(ColumnRound(core.standard))))]
  /\ UNCHANGED mixing
SalsaFinish ==
  /\ core.doubleRounds = 4
  /\ LET sum(x) == [n \in 1..16 |-> Add(core.input[n], x[n])] \o << >>
     IN  core' = [core EXCEPT !.x = sum(@), !.standard = sum(@), !.doubleRounds = 5]
  /\ UNCHANGED mixing

-----------------------------------------------------------------------------
Xor2(a, b) == [n \in 1..Len(a) |-> XorWords(a[n], b[n])] \o << >>

\* Mutant: the chain starts from the first block.
blockmix_salsa8First(Bin, Bout) ==
  LET r == Len(Bin) \div 2
      turn[i \in 0..r] ==
        IF i = 0 THEN [Bout |-> Bout, X |-> Bin[1]]
        ELSE LET t == turn[i - 1]
                 even == Salsa(XorWords(t.X, Bin[2 * i - 1]))
                 odd == Salsa(XorWords(even, Bin[2 * i]))
             IN  [Bout |-> [t.Bout EXCEPT ![i] = even, ![r + i] = odd], X |-> odd]
  IN  turn[r].Bout

\* Two blocks a turn: the even results to the first half, the odd to the second.
blockmix_salsa8(Bin, Bout) ==
  LET r == Len(Bin) \div 2
      turn[i \in 0..r] ==
        IF i = 0 THEN [Bout |-> Bout, X |-> Bin[Len(Bin)]]
        ELSE LET t == turn[i - 1]
                 even == Salsa(XorWords(t.X, Bin[2 * i - 1]))
                 odd == Salsa(XorWords(even, Bin[2 * i]))
             IN  [Bout |-> [t.Bout EXCEPT ![i] = even, ![r + i] = odd], X |-> odd]
  IN  turn[r].Bout
integerify(B) == Integer(B[Len(B)])

\* The loop that fills V and the loop that reads it back, both two rounds a turn
\* with X and Y changing places.
SmixFill ==
  /\ mixing.phase = "fill" /\ mixing.i < mixing.N
  /\ LET Y == blockmix_salsa8(mixing.X, mixing.Y)
     IN  mixing' = [mixing EXCEPT !.V = @ \o <<mixing.X, Y>>, !.Y = Y,
                                  !.X = blockmix_salsa8(Y, mixing.X), !.i = @ + 2]
  /\ UNCHANGED core
SmixTurn ==
  /\ mixing.phase = "fill" /\ mixing.i = mixing.N
  /\ mixing' = [mixing EXCEPT !.phase = "mix", !.i = 0]
  /\ UNCHANGED core
SmixMix ==
  /\ mixing.phase = "mix" /\ mixing.i < mixing.N
  /\ LET j1 == integerify(mixing.X) % mixing.N
         Y == blockmix_salsa8(Xor2(mixing.X, mixing.V[j1 + 1]), mixing.Y)
         j2 == integerify(Y) % mixing.N
         Y2 == Xor2(Y, mixing.V[j2 + 1])
     IN  mixing' = [mixing EXCEPT !.Y = Y2, !.X = blockmix_salsa8(Y2, mixing.X), !.i = @ + 2]
  /\ UNCHANGED core

\* SMix by its definition: one round at a time, V by its index.
BlockMix(B) ==
  LET y[n \in 0..Len(B)] == IF n = 0 THEN B[Len(B)] ELSE Salsa(XorWords(y[n - 1], B[n]))
  IN  [n \in 1..Len(B) |-> IF 2 * n <= Len(B) THEN y[2 * n - 1] ELSE y[2 * n - Len(B)]] \o << >>
Iterates(B, N) == LET v[n \in 0..N] == IF n = 0 THEN B ELSE BlockMix(v[n - 1]) IN v
MixesBack(X, v, N) ==
  LET x[n \in 0..N] ==
        IF n = 0 THEN X ELSE LET p == x[n - 1] IN BlockMix(Xor2(p, v[integerify(p) % N]))
  IN  x
SMix(B, N) == MixesBack(Iterates(B, N)[N], Iterates(B, N), N)[N]

\* The regions of the scratchpad, in bytes: B is rounded up to a multiple of 64,
\* then come XY and V.  The dispatcher has 131583 bytes for N = 1024 and r = 1,
\* the pool allocates for the N and r it is given.
VEnd(start, N, r) ==
  LET B == ((start + 63) \div 64) * 64 IN B + 128 * r + (256 * r + 64) + 128 * r * N
scrypt_1024_1_1_256(start) == start + 131583

scrypt_N_R_1_256(start, N, R) == start + 128 * N * R + 128 * R + 256 * R + 64 + 64

-----------------------------------------------------------------------------
NoMixing == [phase |-> "none"]
NoCore == [doubleRounds |-> 6]
CoreStart(input) ==
  /\ core = [x |-> input, input |-> input, standard |-> input, doubleRounds |-> 0]
  /\ mixing = NoMixing
MixStart(N, r, B) ==
  /\ core = NoCore
  /\ mixing = [N |-> N, r |-> r, X |-> B, Y |-> B, V |-> << >>, i |-> 0, phase |-> "fill", input |-> B]
ScryptNext == SalsaDoubleRound \/ SalsaFinish \/ SmixFill \/ SmixTurn \/ SmixMix

\* The 32 assignments of the core are a column round and a row round: no index
\* of the table is out of place.
CoreIsSalsa == core.doubleRounds < 6 => core.x = core.standard

\* Unrolled by two and with the halves interleaved, smix computes SMix, and it
\* reads no block of V that it has not written.
MixesAsStandard ==
  mixing.phase = "mix" =>
    /\ Len(mixing.V) = mixing.N
    /\ mixing.i = mixing.N => mixing.X = SMix(mixing.input, mixing.N)

\* Wherever the scratchpad starts, V ends inside it.
ScratchpadHolds ==
  mixing.phase = "mix" => \A start \in 0..63 :
    /\ VEnd(start, mixing.N, mixing.r) <= scrypt_N_R_1_256(start, mixing.N, mixing.r)
    /\ VEnd(start, 1024, 1) <= scrypt_1024_1_1_256(start)
=============================================================================
