------------------------------ MODULE KeyUtils ------------------------------
(***************************************************************************)
(* Identities and Merkle paths.  An identity is a public key written in    *)
(* base 26, four fragments of 14 letters, and four letters of checksum; a  *)
(* letter is a record of its case and its digit.  Merkle nodes are free    *)
(* terms <<left, right>>: two nodes are equal only if the same leaves were *)
(* hashed in the same order.                                               *)
(***************************************************************************)
EXTENDS Integers, Sequences
CONSTANTS Base,             \* letters (26)
          FragmentSize,     \* values of a key fragment (2^64)
          FragmentLetters,  \* letters of a fragment (14)
          ChecksumSize,     \* values of the checksum (2^18)
          ChecksumLetters,  \* letters of the checksum (4)
          ChecksumOf(_),    \* KangarooTwelve of a key, cut to the bits of the checksum
          PublicKeys,       \* sequences of four fragments
          MaxLeaves         \* transactions of a block, the coinbase included
VARIABLES conversion,       \* the call being made
          converted         \* << >>, or what it returned
keyVars == <<conversion, converted>>

\* What is left of a value that is divided n times by the same number.
Divided(value, by, n) ==
  LET rest[i \in 0..n] == IF i = 0 THEN value ELSE rest[i - 1] \div by IN rest[n]

\* The letters have room for every fragment.
Fragments == 0..(FragmentSize - 1)
ASSUME IdentityAssumption ==
  /\ Base \in Nat \ {0} /\ FragmentSize \in Nat \ {0} /\ ChecksumSize \in Nat \ {0}
  /\ FragmentLetters \in Nat \ {0} /\ ChecksumLetters \in Nat /\ MaxLeaves \in Nat
  /\ Divided(FragmentSize - 1, Base, FragmentLetters) = 0
  /\ PublicKeys \subseteq Fragments \X Fragments \X Fragments \X Fragments
  /\ \A key \in PublicKeys : ChecksumOf(key) \in 0..(ChecksumSize - 1)

Letters(value, n, lower) ==
  [j \in 1..n |-> [lower |-> lower, digit |-> Divided(value, Base, j - 1) % Base]]
getIdentityFromPublicKey(key, lower) ==
  LET fragment(i) == Letters(key[i], FragmentLetters, lower)
  IN  fragment(1) \o fragment(2) \o fragment(3) \o fragment(4)
        \o Letters(ChecksumOf(key), ChecksumLetters, lower)
getTxHashFromDigest(digest) == getIdentityFromPublicKey(digest, TRUE)

\* A lower-case letter ends the conversion and leaves the caller's key alone.
UpperCase(identity) == \A n \in 1..(4 * FragmentLetters) : ~identity[n].lower
FragmentOf(identity, i) ==
  LET value[n \in 0..FragmentLetters] ==
        IF n = 0 THEN 0
        ELSE (value[n - 1] * Base + identity[i * FragmentLetters - n + 1].digit) % FragmentSize
  IN  value[FragmentLetters]
KeyOf(identity) == <<FragmentOf(identity, 1), FragmentOf(identity, 2),
                     FragmentOf(identity, 3), FragmentOf(identity, 4)>>
getPublicKeyFromIdentity(identity, publicKey) ==
  IF UpperCase(identity) THEN KeyOf(identity) ELSE publicKey
checkSumIdentity(identity) ==
  /\ UpperCase(identity)
  /\ SubSeq(identity, 4 * FragmentLetters + 1, Len(identity))
       = Letters(ChecksumOf(KeyOf(identity)), ChecksumLetters, FALSE)

-----------------------------------------------------------------------------
\* Mutant: the index is not shifted from level to level.
DigestOfSameSide(depth, input, inputIndex, siblings) ==
  LET digest[i \in 0..depth] ==
        IF i = 0 THEN input
        ELSE IF inputIndex % 2 = 1 THEN <<siblings[i], digest[i - 1]>> ELSE <<digest[i - 1], siblings[i]>>
  IN  digest[depth]

\* The sibling is the left node of a pair when the index is odd.
getDigestFromSiblings(depth, input, inputIndex, siblings) ==
  LET digest[i \in 0..depth] ==
        IF i = 0 THEN input
        ELSE IF Divided(inputIndex, 2, i - 1) % 2 = 1 THEN <<siblings[i], digest[i - 1]>>
        ELSE <<digest[i - 1], siblings[i]>>
  IN  digest[depth]

\* The coinbase is concatenated from four parts and stays on the left.
calculateMerkleRoot(coinbase1, coinbase2, extraNonce1, extraNonce2, merkleBranches) ==
  LET hash[i \in 0..Len(merkleBranches)] ==
        IF i = 0 THEN <<coinbase1, extraNonce1, extraNonce2, coinbase2>>
        ELSE <<hash[i - 1], merkleBranches[i]>>
  IN  hash[Len(merkleBranches)]

\* A level of the tree: an odd last node is paired with itself.
NextLevel(nodes) ==
  [i \in 1..((Len(nodes) + 1) \div 2) |->
     <<nodes[2 * i - 1], IF 2 * i <= Len(nodes) THEN nodes[2 * i] ELSE nodes[2 * i - 1]>>] \o << >>
Levels(leaves) ==
  LET level[n \in 0..Len(leaves)] ==
        IF n = 0 THEN leaves ELSE IF Len(level[n - 1]) = 1 THEN level[n - 1] ELSE NextLevel(level[n - 1])
  IN  level
Depth(leaves) == CHOOSE n \in 0..Len(leaves) :
  Len(Levels(leaves)[n]) = 1 /\ \A m \in 0..(n - 1) : Len(Levels(leaves)[m]) > 1
MerkleRoot(leaves) == Levels(leaves)[Depth(leaves)][1]

\* The pool's steps: the right neighbour of the first node on every level of
\* the tree, whose first leaf is an empty placeholder.
getMerkleSteps(transactions) ==
  LET tree == <<"placeholder">> \o transactions
  IN  [n \in 1..Depth(tree) |-> Levels(tree)[n - 1][2]] \o << >>

Sibling(level, i) == IF i % 2 = 1 THEN level[i] ELSE IF i + 2 <= Len(level) THEN level[i + 2] ELSE level[i + 1]
PathOf(leaves, i) ==
  [n \in 1..Depth(leaves) |-> Sibling(Levels(leaves)[n - 1], Divided(i, 2, n - 1))] \o << >>

-----------------------------------------------------------------------------
Conversions ==
  [fun : {"identity"}, key : PublicKeys, lower : BOOLEAN]
    \cup [fun : {"branches"}, transactions : {[i \in 1..n |-> i] \o << >> : n \in 0..(MaxLeaves - 1)}]
    \cup [fun : {"path"}, leaves : {[i \in 1..n |-> i] \o << >> : n \in 1..MaxLeaves}, index : 0..(MaxLeaves - 1)]
KeyStart(c) == conversion = c /\ converted = << >>

ConvertKey ==
  /\ conversion.fun = "identity" /\ converted = << >>
  /\ LET identity == getIdentityFromPublicKey(conversion.key, conversion.lower)
     IN  converted' = <<getPublicKeyFromIdentity(identity, <<0, 0, 0, 0>>), checkSumIdentity(identity)>>
  /\ UNCHANGED conversion
FollowBranches ==
  /\ conversion.fun = "branches" /\ converted = << >>
  /\ converted' = <<calculateMerkleRoot("c1", "c2", "n1", "n2", getMerkleSteps(conversion.transactions))>>
  /\ UNCHANGED conversion
FollowPath ==
  /\ conversion.fun = "path" /\ converted = << >> /\ conversion.index < Len(conversion.leaves)
  /\ LET leaves == conversion.leaves
     IN  converted' = <<getDigestFromSiblings(Depth(leaves), leaves[conversion.index + 1],
                                              conversion.index, PathOf(leaves, conversion.index))>>
  /\ UNCHANGED conversion
KeyNext == ConvertKey \/ FollowBranches \/ FollowPath
KeySpec == (\E c \in Conversions : KeyStart(c)) /\ [][KeyNext]_keyVars

\* An identity leads back to the key it was made from and its checksum holds; a
\* lower-case one (a transaction hash) is refused by both readers.
IdentitiesRoundTrip ==
  conversion.fun = "identity" /\ converted # << >> =>
    converted = IF conversion.lower THEN <<<<0, 0, 0, 0>>, FALSE>> ELSE <<conversion.key, TRUE>>

\* The root the dispatcher computes from the pool's branches is the root of the
\* whole block with the completed coinbase, also with an odd number of nodes on
\* a level; the path of any leaf leads to the root of its tree.
MerklePathsMeet ==
  /\ conversion.fun = "branches" /\ converted # << >> =>
       converted[1] = MerkleRoot(<<<<"c1", "n1", "n2", "c2">>>> \o conversion.transactions)
  /\ conversion.fun = "path" /\ converted # << >> => converted[1] = MerkleRoot(conversion.leaves)

\* Identities lead back to their keys, and Merkle branches and paths to the root
\* of the whole tree (getPublicKeyFromIdentity, calculateMerkleRoot,
\* getDigestFromSiblings).
ConversionsExact == IdentitiesRoundTrip /\ MerklePathsMeet
=============================================================================
