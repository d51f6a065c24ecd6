------------------------------- MODULE Sha256 -------------------------------
(***************************************************************************)
(* The two SHA-256 compressions of the system, side by side on one block:  *)
(* SHA256_Transform of the dispatcher's scrypt.c (the pool's sha256.h is   *)
(* the same text), which prepares 64 words and rotates the indices of the  *)
(* eight working words, and SHA2_ROUND_BODY of the pool's sph_sha2.c,      *)
(* which keeps 16 words and rotates the names of the registers.  One step  *)
(* is one word of the schedule or one of the 64 rounds.                    *)
(***************************************************************************)
EXTENDS Words32
CONSTANTS Blocks           \* 64-byte blocks
ASSUME BlocksAssumption == \A b \in Blocks : Len(b) = 64
VARIABLES block, rounds,   \* the block and how many rounds it has been through
          prepared,        \* words of the message schedule that are ready
          W, S,            \* the dispatcher: message schedule, working words
          ring, registers, \* the pool: 16 words, A .. H
          shifted          \* the definition: a .. h, shifted every round
shaVars == <<block, rounds, prepared, W, S, ring, registers, shifted>>

K == LET halves == <<
    <<17034, 12184>>, <<28983, 17553>>, <<46528, 64463>>, <<59829, 56229>>, <<14678, 49755>>, <<23025, 4593>>,
    <<37439, 33444>>, <<43804, 24277>>, <<55303, 43672>>, <<4739, 23297>>, <<9265, 34238>>, <<21772, 32195>>,
    <<29374, 23924>>, <<32990, 45566>>, <<39900, 1703>>, <<49563, 61812>>, <<58523, 27073>>, <<61374, 18310>>,
    <<4033, 40390>>, <<9228, 41420>>, <<11753, 11375>>, <<19060, 33962>>, <<23728, 43484>>, <<30457, 35034>>,
    <<38974, 20818>>, <<43057, 50797>>, <<45059, 10184>>, <<48985, 32711>>, <<50912, 3059>>, <<54695, 37191>>,
    <<1738, 25425>>, <<5161, 10599>>, <<10167, 2693>>, <<11803, 8504>>, <<19756, 28156>>, <<21304, 3347>>,
    <<25866, 29524>>, <<30314, 2747>>, <<33218, 51502>>, <<37490, 11397>>, <<41663, 59553>>, <<43034, 26187>>,
    <<49739, 35696>>, <<51052, 20899>>, <<53650, 59417>>, <<54937, 1572>>, <<62478, 13701>>, <<4202, 41072>>,
    <<6564, 49430>>, <<7735, 27656>>, <<10056, 30540>>, <<13488, 48309>>, <<14620, 3251>>, <<20184, 43594>>,
    <<23452, 51791>>, <<26670, 28659>>, <<29839, 33518>>, <<30885, 25455>>, <<33992, 30740>>, <<36039, 520>>,
    <<37054, 65530>>, <<42064, 27883>>, <<48889, 41975>>, <<50801, 30962>>>>
     IN  [i \in 1..64 |-> FromHalves(halves[i])] \o << >>
InitialHalves == <<
    <<27145, 58983>>, <<47975, 44677>>, <<15470, 62322>>, <<42319, 62778>>,
    <<20750, 21119>>, <<39685, 26764>>, <<8067, 55723>>, <<23520, 52505>>>>
H256 == [i \in 1..8 |-> FromHalves(InitialHalves[i])] \o << >>

Ch(x, y, z) == XorWords(x \cap XorWords(y, z), z)
Maj(x, y, z) == (x \cap (y \cup z)) \cup (y \cap z)
S0(x) == XorWords(XorWords(ROTR(x, 2), ROTR(x, 13)), ROTR(x, 22))
S1(x) == XorWords(XorWords(ROTR(x, 6), ROTR(x, 11)), ROTR(x, 25))
s0(x) == XorWords(XorWords(ROTR(x, 7), ROTR(x, 18)), SHR(x, 3))
s1(x) == XorWords(XorWords(ROTR(x, 17), ROTR(x, 19)), SHR(x, 10))

\* d and h of one round, from the eight words a .. h and the word w + k.
RND(a, b, c, e, f, g, h, w, k) ==
  [t0 |-> Add(Add(h, S1(e)), Add(Ch(e, f, g), Add(w, k))), t1 |-> Add(S0(a), Maj(a, b, c))]

\* Round i works on S[(64 - i) % 8] .. S[(71 - i) % 8].
RNDr(s, i, w) ==
  LET at(n) == ((64 + n - i) % 8) + 1
      t == RND(s[at(0)], s[at(1)], s[at(2)], s[at(4)], s[at(5)], s[at(6)], s[at(7)], w, K[i + 1])
  IN  [s EXCEPT ![at(3)] = Add(s[at(3)], t.t0), ![at(7)] = Add(t.t0, t.t1)]

\* Mutant: the ring is read one word late.
RingWordLate(i) ==
  LET at(n) == ((i + n) % 16) + 1
  IN  IF i < 16 THEN be32dec(SubSeq(block, 4 * i + 1, 4 * i + 4))
      ELSE Add4(s1(ring[at(13)]), ring[at(9)], s0(ring[at(1)]), ring[at(0)])

\* The pool's ring of 16 words: filled by the first 16 rounds, then updated.
RingWord(i) ==
  LET at(n) == ((i + n) % 16) + 1
  IN  IF i < 16 THEN be32dec(SubSeq(block, 4 * i + 1, 4 * i + 4))
      ELSE Add4(s1(ring[at(14)]), ring[at(9)], s0(ring[at(1)]), ring[at(0)])

\* Rounds in groups of eight: the register that plays a in round i is named by
\* i mod 8 (A, H, G, .. B).
SphRound(r, i, w) ==
  LET name(n) == ((n + 8 - (i % 8)) % 8) + 1
      t == RND(r[name(0)], r[name(1)], r[name(2)], r[name(4)], r[name(5)], r[name(6)], r[name(7)],
               w, K[i + 1])
  IN  [r EXCEPT ![name(3)] = Add(@, t.t0), ![name(7)] = Add(t.t0, t.t1)]

\* The definition: the words move, the last two made anew.
ShiftedRound(a, i, w) ==
  LET t == RND(a[1], a[2], a[3], a[5], a[6], a[7], a[8], w, K[i + 1])
  IN  <<Add(t.t0, t.t1), a[1], a[2], a[3], Add(a[4], t.t0), a[5], a[6], a[7]>>

-----------------------------------------------------------------------------
ShaStart(b) ==
  /\ block = b /\ rounds = 0 /\ prepared = 16
  /\ W = [n \in 1..64 |-> IF n <= 16 THEN be32dec_vect(b)[n] ELSE {}] \o << >>
  /\ S = H256 /\ registers = H256 /\ shifted = H256
  /\ ring = [n \in 1..16 |-> {}] \o << >>

\* The dispatcher's message schedule, a word at a time.
Prepare ==
  /\ prepared < 64
  /\ prepared' = prepared + 1
  /\ W' = [W EXCEPT ![prepared + 1] = Add4(s1(W[prepared - 1]), W[prepared - 6],
                                           s0(W[prepared - 14]), W[prepared - 15])]
  /\ UNCHANGED <<block, rounds, S, ring, registers, shifted>>

Round ==
  /\ prepared = 64 /\ rounds < 64
  /\ rounds' = rounds + 1
  /\ S' = RNDr(S, rounds, W[rounds + 1])
  /\ ring' = [ring EXCEPT ![(rounds % 16) + 1] = RingWord(rounds)]
  /\ registers' = SphRound(registers, rounds, RingWord(rounds))
  /\ shifted' = ShiftedRound(shifted, rounds, W[rounds + 1])
  /\ UNCHANGED <<block, prepared, W>>

\* state[i] += S[i] at the end, and r[i] += A .. H.
MixIn ==
  /\ rounds = 64
  /\ rounds' = 65
  /\ S' = [i \in 1..8 |-> Add(H256[i], S[i])] \o << >>
  /\ registers' = [i \in 1..8 |-> Add(H256[i], registers[i])] \o << >>
  /\ shifted' = [i \in 1..8 |-> Add(H256[i], shifted[i])] \o << >>
  /\ UNCHANGED <<block, prepared, W, ring>>
ShaNext == Prepare \/ Round \/ MixIn

\* After every round the two implementations hold the words of the definition,
\* each in its own rotation, and in the end the same digest.
CompressionsAgree ==
  /\ rounds < 64 => \A n \in 0..7 :
       /\ S[((64 + n - rounds) % 8) + 1] = shifted[n + 1]
       /\ registers[((n + 8 - (rounds % 8)) % 8) + 1] = shifted[n + 1]
  /\ rounds = 65 => S = shifted /\ registers = shifted
=============================================================================
