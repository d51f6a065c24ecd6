--------------------------- MODULE KangarooTwelve ---------------------------
(***************************************************************************)
(* The tree hash of crypto/k12_and_key_utils.h, one step per call of       *)
(* KangarooTwelve_F_Absorb in KangarooTwelve.  The permutation is free: a   *)
(* sponge is the history of the blocks it permuted and the bytes xored in   *)
(* since, so two nodes are equal exactly when they absorbed the same.  A    *)
(* byte is the set of the symbols xored into it: bits of constants, bytes   *)
(* of the message, bytes of a leaf's chaining value.                        *)
(***************************************************************************)
EXTENDS Naturals, Sequences, FiniteSets
CONSTANTS Rate,       \* K12_rateInBytes (168)
          ChunkSize,  \* K12_chunkSize (8192)
          Capacity,   \* K12_capacityInBytes (32)
          LaneBytes,  \* bytes of a lane (8)
          ByteValues, \* values of a byte (256), as the block counter is encoded
          MaxLength   \* longest message checked
ASSUME K12Assumption ==
  /\ {Rate, ChunkSize, Capacity, LaneBytes, MaxLength} \subseteq Nat \ {0}
  /\ ByteValues \in Nat \ {0, 1}
  /\ Capacity < Rate /\ Rate < ChunkSize

VARIABLES remaining,       \* length of the message not absorbed yet (inputByteLen)
          messageLen,      \* its whole length
          finalNode, queueNode, blockNumber, queueAbsorbedLen,
          step             \* the part of the function that runs next
k12Vars == <<remaining, messageLen, finalNode, queueNode, blockNumber, queueAbsorbedLen, step>>

SymbolXor(a, b) == (a \ b) \cup (b \ a)
Const(bits) == {<<"bit", b>> : b \in bits}
ByteOf(v) == Const({b \in 0..7 : (v \div 2^b) % 2 = 1})
MessageBytes(from, len) == [i \in 1..len |-> {<<"message", from + i - 1>>}]
ZeroBytes(n) == [i \in 1..n |-> {}]

\* A zeroed KangarooTwelve_F.
EmptyNode == [permuted |-> << >>, state |-> ZeroBytes(Rate), byteIOIndex |-> 0]
XorAt(node, index, v) == [node EXCEPT !.state[index + 1] = SymbolXor(@, v)]
Permute(node) ==
  [permuted |-> Append(node.permuted, node.state), state |-> ZeroBytes(Rate), byteIOIndex |-> 0]

\* The bytes of a node's state after its last permutation.
Squeeze(node, n) == [i \in 1..n |-> {<<"squeezed", i, node.permuted>>}]

\* One pass of the loop: a block straight into the lanes when the node is at a
\* block boundary and a block is left, a partial block at byteIOIndex otherwise.
AbsorbPiece(node, data) ==
  LET whole == node.byteIOIndex = 0 /\ Len(data) >= Rate
      piece == IF whole THEN Rate
               ELSE IF Len(data) + node.byteIOIndex > Rate
                    THEN Rate - node.byteIOIndex ELSE Len(data)
      mixed == [i \in 1..Rate |->
                  IF i \in node.byteIOIndex + 1 .. node.byteIOIndex + piece
                  THEN SymbolXor(node.state[i], data[i - node.byteIOIndex])
                  ELSE node.state[i]]
      full == node.byteIOIndex + piece = Rate
  IN  [taken |-> piece,
       node |-> IF full THEN Permute([node EXCEPT !.state = mixed])
                ELSE [node EXCEPT !.state = mixed, !.byteIOIndex = @ + piece]]

RECURSIVE Absorb(_, _)
Absorb(node, data) ==
  IF data = << >> THEN node
  ELSE LET a == AbsorbPiece(node, data)
       IN  Absorb(a.node, SubSeq(data, a.taken + 1, Len(data)))

\* suffixLeaf and the last bit of the padding, then the chaining value.
LeafValue(node) ==
  Squeeze(Permute(XorAt(XorAt(node, node.byteIOIndex, Const({0, 1, 3})), Rate - 1, Const({7}))),
          Capacity)

\* 0x03 after the first chunk, and the lane it opens skipped.
OpenTree(node) ==
  LET marked == XorAt(node, node.byteIOIndex, Const({0, 1}))
      next == node.byteIOIndex + 1
  IN  IF next = Rate THEN Permute(marked)
      ELSE [marked EXCEPT !.byteIOIndex =
              ((next + LaneBytes - 1) \div LaneBytes) * LaneBytes]

\* Mutant: a zero byte that fills the block leaves it unpermuted.
SkipByteInBlock(node) == [node EXCEPT !.byteIOIndex = (@ + 1) % Rate]

\* The single zero byte that ends the message (the empty customization).
SkipByte(node) ==
  IF node.byteIOIndex + 1 = Rate THEN Permute(node)
  ELSE [node EXCEPT !.byteIOIndex = @ + 1]

FirstLen == IF ChunkSize < messageLen THEN ChunkSize ELSE messageLen

HashStart(length) ==
  /\ messageLen = length
  /\ remaining = length
  /\ finalNode = EmptyNode
  /\ queueNode = EmptyNode
  /\ blockNumber = 0
  /\ queueAbsorbedLen = 0
  /\ step = "first"

\* The first chunk goes into the final node.
AbsorbFirst ==
  /\ step = "first"
  /\ LET absorbed == Absorb(finalNode, MessageBytes(0, FirstLen))
     IN  IF FirstLen = ChunkSize
         THEN /\ finalNode' = OpenTree(absorbed)
              /\ blockNumber' = 1
         ELSE /\ finalNode' = XorAt(SkipByte(absorbed), SkipByte(absorbed).byteIOIndex,
                                    Const({0, 1, 2}))
              /\ blockNumber' = 0
  /\ remaining' = remaining - FirstLen
  /\ step' = IF FirstLen < ChunkSize THEN "squeeze"
             ELSE IF remaining = FirstLen THEN "emptyLeaf" ELSE "leaves"
  /\ UNCHANGED <<messageLen, queueNode, queueAbsorbedLen>>

\* One iteration of the loop over the following chunks.
AbsorbLeaf ==
  /\ step = "leaves"
  /\ remaining > 0
  /\ LET len == IF remaining < ChunkSize THEN remaining ELSE ChunkSize
         leaf == Absorb(EmptyNode, MessageBytes(messageLen - remaining, len))
     IN  /\ queueNode' = leaf
         /\ remaining' = remaining - len
         /\ IF len = ChunkSize
            THEN /\ blockNumber' = blockNumber + 1
                 /\ finalNode' = Absorb(finalNode, LeafValue(leaf))
                 /\ UNCHANGED queueAbsorbedLen
            ELSE /\ queueAbsorbedLen' = len
                 /\ UNCHANGED <<blockNumber, finalNode>>
  /\ UNCHANGED <<messageLen, step>>

\* The zero byte ends the last, partial chunk, which it may fill.
EndPartialLeaf ==
  /\ step = "leaves"
  /\ remaining = 0
  /\ queueAbsorbedLen > 0
  /\ LET ended == SkipByte(queueNode)
         filled == queueAbsorbedLen + 1 = ChunkSize
     IN  /\ queueNode' = ended
         /\ queueAbsorbedLen' = IF filled THEN 0 ELSE queueAbsorbedLen + 1
         /\ blockNumber' = IF filled THEN blockNumber + 1 ELSE blockNumber
         /\ finalNode' = IF filled THEN Absorb(finalNode, LeafValue(ended)) ELSE finalNode
  /\ step' = "encode"
  /\ UNCHANGED <<messageLen, remaining>>

\* The chunks were all full: the zero byte opens a leaf of its own.
OpenEmptyLeaf ==
  /\ step = "emptyLeaf" \/ (step = "leaves" /\ remaining = 0 /\ queueAbsorbedLen = 0)
  /\ queueNode' = [EmptyNode EXCEPT !.byteIOIndex = 1]
  /\ queueAbsorbedLen' = 1
  /\ step' = "encode"
  /\ UNCHANGED <<messageLen, remaining, finalNode, blockNumber>>

\* The last leaf, the number of leaves and the marker FF FF.
RECURSIVE BytesNeeded(_)
BytesNeeded(v) == IF v = 0 THEN 0 ELSE 1 + BytesNeeded(v \div ByteValues)
BlockCountBytes(v) ==
  LET n == BytesNeeded(v)
  IN  [i \in 1..n |-> ByteOf((v \div ByteValues^(n - i)) % ByteValues)]
        \o <<ByteOf(n), Const(0..7), Const(0..7)>>
EncodeBlockNumber ==
  /\ step = "encode"
  /\ LET leaves == IF queueAbsorbedLen > 0 THEN blockNumber ELSE blockNumber - 1
         joined == IF queueAbsorbedLen > 0
                   THEN Absorb(finalNode, LeafValue(queueNode)) ELSE finalNode
         counted == Absorb(joined, BlockCountBytes(leaves))
     IN  /\ blockNumber' = leaves
         /\ finalNode' = XorAt(counted, counted.byteIOIndex, Const({1, 2}))
  /\ step' = "squeeze"
  /\ UNCHANGED <<messageLen, remaining, queueNode, queueAbsorbedLen>>

\* The last bit of the padding and the output.
SqueezeOutput ==
  /\ step = "squeeze"
  /\ finalNode' = Permute(XorAt(finalNode, Rate - 1, Const({7})))
  /\ step' = "done"
  /\ UNCHANGED <<messageLen, remaining, queueNode, blockNumber, queueAbsorbedLen>>

KangarooTwelveNext ==
  \/ AbsorbFirst
  \/ AbsorbLeaf
  \/ EndPartialLeaf
  \/ OpenEmptyLeaf
  \/ EncodeBlockNumber
  \/ SqueezeOutput

-----------------------------------------------------------------------------
(***************************************************************************)
(* The reference: the construction as it is specified, on whole strings.   *)
(***************************************************************************)
\* The blocks of the sponge for a string and its suffix.
Absorbed(bytes, suffix) ==
  LET ended == Append(bytes, suffix)
      count == (Len(ended) + Rate - 1) \div Rate
  IN  [k \in 1..count |-> [i \in 1..Rate |->
         LET at == (k - 1) * Rate + i
             own == IF at <= Len(ended) THEN ended[at] ELSE {}
         IN  IF at = count * Rate THEN SymbolXor(own, Const({7})) ELSE own]]
\* The shortest big-endian digits of v, then their number.
LengthEncode(v) ==
  LET n == CHOOSE n \in 0..8 : v < ByteValues^n /\ \A m \in 0..(n - 1) : v >= ByteValues^m
  IN  [i \in 1..(n + 1) |->
         ByteOf(IF i = n + 1 THEN n ELSE (v % ByteValues^(n + 1 - i)) \div ByteValues^(n - i))]
ChainingValue(bytes) ==
  [i \in 1..Capacity |-> {<<"squeezed", i, Absorbed(bytes, Const({0, 1, 3}))>>}]
RECURSIVE ChainingValues(_)
ChainingValues(bytes) ==
  IF Len(bytes) <= ChunkSize THEN ChainingValue(bytes)
  ELSE ChainingValue(SubSeq(bytes, 1, ChunkSize))
         \o ChainingValues(SubSeq(bytes, ChunkSize + 1, Len(bytes)))
TreeHash(length) ==
  LET padded == Append(MessageBytes(0, length), {})
      leaves == (Len(padded) + ChunkSize - 1) \div ChunkSize - 1
  IN  IF leaves = 0 THEN Absorbed(padded, Const({0, 1, 2}))
      ELSE Absorbed(SubSeq(padded, 1, ChunkSize) \o <<Const({0, 1})>> \o ZeroBytes(LaneBytes - 1)
                    \o ChainingValues(SubSeq(padded, ChunkSize + 1, Len(padded)))
                    \o LengthEncode(leaves) \o <<Const(0..7), Const(0..7)>>, Const({1, 2}))

\* What the incremental sponges absorb is the specified tree of the message and
\* its closing zero byte, for every length around the rate and the chunk size.
HashesTheTree == step = "done" => finalNode.permuted = TreeHash(messageLen)
=============================================================================
