------------------------------- MODULE MCHashing -------------------------------
(***************************************************************************)
(* Small instances of what a proof-of-work hash is made of and compared     *)
(* with: the compressions, the streams around them, the key derivation, the *)
(* memory-hard mixing, the targets, and the identities and Merkle paths.    *)
(* Each part is explored by itself; the others rest in an initial state.    *)
(***************************************************************************)
EXTENDS Sha256, KeyDerivation, Scrypt, Difficulty, KeyUtils

VARIABLE part

-----------------------------------------------------------------------------
(* The definition that both compressions are compared with has the published  *)
(* answer: the block of "abc" gives its digest.  words[k, w] is w with 2^k    *)
(* more words, and state[k, a, n] is a after 2^k rounds from round n on.      *)
BlockOfAbc == <<97, 98, 99, 128>> \o [i \in 1..59 |-> 0] \o <<24>>
DigestOfAbc == LET halves == <<
    <<47736, 5823>>, <<36609, 53226>>, <<16705, 16606>>, <<23982, 8739>>,
    <<45059, 24995>>, <<38423, 31388>>, <<46096, 65377>>, <<61952, 5549>>>>
               IN  [i \in 1..8 |-> FromHalves(halves[i])] \o << >>
DefinedDigest(b) ==
    LET words[k \in 0..4, w \in Seq(Word)] ==
          IF k = 0 THEN LET n == Len(w) + 1
                        IN  Append(w, Add4(s1(w[n - 2]), w[n - 7], s0(w[n - 15]), w[n - 16]))
          ELSE words[k - 1, words[k - 1, w]]
        W64 == words[4, words[4, words[4, be32dec_vect(b)]]]
        state[k \in 0..6, a \in Seq(Word), n \in 0..63] ==
          IF k = 0 THEN ShiftedRound(a, n, W64[n + 1])
          ELSE state[k - 1, state[k - 1, a, n], n + 2^(k - 1)]
        last == state[6, H256, 0]
    IN  [i \in 1..8 |-> Add(H256[i], last[i])] \o << >>
ASSUME KnownAnswer == DefinedDigest(BlockOfAbc) = DigestOfAbc

-----------------------------------------------------------------------------
SomeBlocks ==
    {BlockOfAbc, [i \in 1..64 |-> 255] \o << >>, [i \in 1..64 |-> (i * 37) % 256] \o << >>}
SomeInputs ==
    {[n \in 1..16 |-> FromHalves(<<(n * 7919 * s) % 65536, (n * n * 104 + s) % 65536>>)] \o << >>
        : s \in 1..6}

(* Blocks of six bits.                                                        *)
Number(x) == LET v[i \in 0..BlockBits] == IF i = 0 THEN 0 ELSE 2 * v[i - 1] + (IF BlockBits - i \in x THEN 1 ELSE 0)
             IN  v[BlockBits]
BitsOf(n) == {i \in 0..(BlockBits - 1) : (n \div 2^i) % 2 = 1}
SomeSalsa(x) == LET n == Number(x) IN BitsOf((3 * n * n + 5 * n + 7) % 2^BlockBits)
SomeFirstBlocks(r) ==
    {[n \in 1..(2 * r) |-> BitsOf((fill * n + n * n) % 2^BlockBits)] \o << >> : fill \in {0, 3, 7, 11, 20, 31}}

(* Targets of twelve bytes of two bits: mantissas that do and do not fall     *)
(* outside, values around the edges of a word.                                *)
SomeCompactReps ==
    {<<3, 3, 0, e>> : e \in {0, 1, 2, 3, 4, 9, 11, 12, 13, 14}}
        \cup {<<1, 2, 3, 5>>, <<0, 0, 0, 0>>, <<0, 0, 1, 12>>}
SomeFullReps == {0, 1, 2, 63, 64, 65, 4095, 1000001, 16777215}

SomeChecksum(key) == (key[1] + 3 * key[2] + 5 * key[3] + 7 * key[4]) % ChecksumSize
SomePublicKeys == {0, 1, 15} \X {0, 7} \X {3, 15} \X {0, 9, 15}

-----------------------------------------------------------------------------
Start(p) ==
    /\ part = p
    /\ \E b \in IF p = "sha" THEN Blocks ELSE {BlockOfAbc} : ShaStart(b)
    /\ StreamStart /\ (p = "stream" \/ library = "sph")
    /\ \E c \in IF p = "derive" THEN Derivations ELSE {[password |-> 0, salt |-> 0, dkLen |-> 0]} :
         DerivationStart(c)
    /\ IF p = "mix" THEN \E N \in Costs, r \in Factors : \E B \in FirstBlocks(r) : MixStart(N, r, B)
       ELSE IF p = "core" THEN \E input \in Inputs : CoreStart(input)
       ELSE core = NoCore /\ mixing = NoMixing
    /\ TargetStart /\ (p = "target" \/ base = 1)
    /\ \E c \in IF p = "key" THEN Conversions ELSE {[fun |-> "none"]} : KeyStart(c)

PartsInit ==
    \/ Start("sha") \/ Start("stream") \/ Start("derive") \/ Start("mix")
    \/ Start("core") \/ Start("target") \/ Start("key")

PartsNext ==
    /\ UNCHANGED part
    /\ \/ /\ part = "sha" /\ ShaNext
          /\ UNCHANGED <<streamVars, derivationVars, scryptVars, targetVars, keyVars>>
       \/ /\ part = "stream" /\ StreamNext
          /\ UNCHANGED <<shaVars, derivationVars, scryptVars, targetVars, keyVars>>
       \/ /\ part = "derive" /\ DeriveBlock
          /\ UNCHANGED <<shaVars, streamVars, scryptVars, targetVars, keyVars>>
       \/ /\ part \in {"core", "mix"} /\ ScryptNext
          /\ UNCHANGED <<shaVars, streamVars, derivationVars, targetVars, keyVars>>
       \/ /\ part = "target" /\ TargetNext
          /\ UNCHANGED <<shaVars, streamVars, derivationVars, scryptVars, keyVars>>
       \/ /\ part = "key" /\ KeyNext
          /\ UNCHANGED <<shaVars, streamVars, derivationVars, scryptVars, targetVars>>

PartsSpec ==
    PartsInit /\ [][PartsNext]_<<part, shaVars, streamVars, derivationVars, scryptVars,
                                 targetVars, keyVars>>

-----------------------------------------------------------------------------
(* Two libraries, one SHA-256: round by round both compressions hold the      *)
(* words of the definition, and between two calls each context holds exactly  *)
(* the message so far (sph_sha2.c, md_helper.c, scrypt.c).                    *)
ShaAsStandard == CompressionsAgree /\ ContextHoldsMessage

(* scrypt is PBKDF2 around SMix around Salsa20/8, computed in place, unrolled *)
(* and interleaved, in a scratchpad that holds it however it is aligned       *)
(* (PBKDF2_SHA256, salsa20_8, blockmix_salsa8, smix, scrypt_N_R_1_256).       *)
ScryptAsStandard == DerivesAsStandard /\ CoreIsSalsa /\ MixesAsStandard /\ ScratchpadHolds

=============================================================================
