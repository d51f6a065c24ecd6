--------------------------- MODULE StratumLinesProofs ---------------------------
(***************************************************************************)
(* Proofs about StratumLines, for every number of messages and every size    *)
(* of a read.                                                                *)
(***************************************************************************)
EXTENDS StratumLines, TLAPS

Messages == Kinds \X Nat
Bytes == {Newline} \cup (Messages \X {1, 2})

(* Byte j of the stream of the messages w.                                    *)
ByteOf(w, j) == LineOf(w[((j - 1) \div 3) + 1])[((j - 1) % 3) + 1]

(* The n bytes behind the first c.                                            *)
NextOf(w, c, n) == [i \in 1..n |-> ByteOf(w, c + i)]

(* bytes are the last of the first c bytes of the stream.                     *)
LastOf(w, c, bytes) ==
    /\ Len(bytes) <= c
    /\ \A i \in 1..Len(bytes) : bytes[i] = ByteOf(w, c - Len(bytes) + i)

(* What a queue q holds when the lines before byte p have been handled.       *)
Handled(w, p, init) ==
    {k \in 1..Len(w) : /\ 3 * k - 1 <= p
                       /\ w[k][1] # "subscribed"
                       /\ ~(w[k][1] = "authorized" /\ 3 * k - 1 <= init)}
QueueIs(q, w, p, init) ==
    /\ {q[i] : i \in 1..Len(q)} = {w[k] : k \in Handled(w, p, init)}
    /\ \A i, j \in 1..Len(q) : i < j => q[i][2] < q[j][2]

LinesTypeOK ==
    /\ phase \in {"closed", "subscribe", "authorize", "response", "loop", "terminated"}
    /\ written \in Seq(Messages)
    /\ consumed \in Nat /\ initial \in Nat
    /\ consumed <= 3 * Len(written)
    /\ response \in Seq(Bytes) /\ networkBuffer \in Seq(Bytes)
    /\ messages \in Seq(Messages)

(* The messages are numbered in the order sent, and at most one of them is    *)
(* the answer to mining.subscribe.                                            *)
WrittenInOrder ==
    /\ \A k \in 1..Len(written) : written[k][2] = k - 1
    /\ \A j, k \in 1..Len(written) :
         written[j][1] = "subscribed" /\ written[k][1] = "subscribed" => j = k

(* Until the loop reads, nothing is left in its buffer.                       *)
BufferEmptyBefore ==
    phase \in {"closed", "subscribe", "authorize", "response"} => networkBuffer = <<>>

SubscribeInv == phase = "subscribe" => consumed = 0 /\ initial = 0 /\ messages = <<>>

AuthorizeInv ==
    phase = "authorize" => consumed \in {2, 3} /\ initial = consumed /\ messages = <<>>

(* The first message was the answer to mining.subscribe.                      *)
SubscribedFirst ==
    phase \in {"authorize", "response", "loop"} =>
      1 <= Len(written) /\ written[1][1] = "subscribed"

(* What is left of the response begins at a line or at the newline of one,    *)
(* and the lines before it have been handled.                                 *)
ResponseInv ==
    phase = "response" =>
      LET p == consumed - Len(response) IN
        /\ initial = consumed
        /\ LastOf(written, consumed, response)
        /\ 2 <= p /\ p % 3 # 1
        /\ QueueIs(messages, written, p, initial)

(* So does the buffer of the loop; only the first line can have lost its text *)
(* to the initialization.                                                     *)
LoopInv ==
    phase = "loop" =>
      LET p == consumed - Len(networkBuffer) IN
        /\ LastOf(written, consumed, networkBuffer)
        /\ 2 <= initial /\ initial <= p
        /\ p % 3 # 1 /\ (p % 3 = 2 => p = initial)
        /\ QueueIs(messages, written, p, initial)

LinesInv ==
    /\ LinesTypeOK /\ WrittenInOrder /\ BufferEmptyBefore
    /\ SubscribeInv /\ AuthorizeInv /\ SubscribedFirst
    /\ ResponseInv /\ LoopInv

-----------------------------------------------------------------------------
(* The three bytes of a line.                                                 *)
LEMMA ByteIsNotNewline ==
  ASSUME NEW m, NEW h  PROVE Byte(m, h) # Newline
<1>1. Len(<<m, h>>) = 2 /\ Len(<<"newline">>) = 1
  OBVIOUS
<1>2. QED
  BY <1>1 DEF Byte, Newline

LEMMA TextBytes ==
  ASSUME NEW w, NEW p \in Nat, p % 3 = 0, NEW m, m = w[(p \div 3) + 1]
  PROVE  /\ ByteOf(w, p + 1) = Byte(m, 1)
         /\ ByteOf(w, p + 2) = Byte(m, 2)
         /\ ByteOf(w, p + 3) = Newline
<1>1. /\ ((p + 1 - 1) \div 3) + 1 = (p \div 3) + 1 /\ ((p + 1 - 1) % 3) + 1 = 1
      /\ ((p + 2 - 1) \div 3) + 1 = (p \div 3) + 1 /\ ((p + 2 - 1) % 3) + 1 = 2
      /\ ((p + 3 - 1) \div 3) + 1 = (p \div 3) + 1 /\ ((p + 3 - 1) % 3) + 1 = 3
  BY SMT
<1>2. LineOf(m)[1] = Byte(m, 1) /\ LineOf(m)[2] = Byte(m, 2) /\ LineOf(m)[3] = Newline
  BY DEF LineOf
<1>3. \A j : ByteOf(w, j) = LineOf(w[((j - 1) \div 3) + 1])[((j - 1) % 3) + 1]
  BY DEF ByteOf
<1>4. ByteOf(w, p + 1) = LineOf(m)[1]
  BY <1>1, <1>3
<1>5. ByteOf(w, p + 2) = LineOf(m)[2]
  BY <1>1, <1>3
<1>6. ByteOf(w, p + 3) = LineOf(m)[3]
  BY <1>1, <1>3
<1>7. QED
  BY <1>2, <1>4, <1>5, <1>6

LEMMA NewlineByte ==
  ASSUME NEW w, NEW p \in Nat, p % 3 = 2
  PROVE  ByteOf(w, p + 1) = Newline
<1>1. ((p + 1 - 1) % 3) + 1 = 3
  BY SMT
<1>2. \A m : LineOf(m)[3] = Newline
  BY DEF LineOf
<1>3. \A j : ByteOf(w, j) = LineOf(w[((j - 1) \div 3) + 1])[((j - 1) % 3) + 1]
  BY DEF ByteOf
<1>4. ByteOf(w, p + 1) = LineOf(w[((p + 1 - 1) \div 3) + 1])[3]
  BY <1>1, <1>3
<1>5. QED
  BY <1>2, <1>4

(* The bytes of the stream are bytes, and further messages leave them alone.  *)
LEMMA ByteType ==
  ASSUME NEW w \in Seq(Messages), NEW j \in 1..(3 * Len(w))
  PROVE  ByteOf(w, j) \in Bytes
<1>1. ((j - 1) \div 3) + 1 \in 1..Len(w) /\ ((j - 1) % 3) + 1 \in {1, 2, 3}
  <2> DEFINE l == Len(w)
  <2>1. l \in Nat /\ j \in 1..(3 * l)
    OBVIOUS
  <2> HIDE DEF l
  <2>2. ((j - 1) \div 3) + 1 \in 1..l /\ ((j - 1) % 3) + 1 \in {1, 2, 3}
    BY <2>1, SMT
  <2>3. QED
    BY <2>2 DEF l
<1>2. w[((j - 1) \div 3) + 1] \in Messages
  BY <1>1
<1>3. \A m \in Messages : LineOf(m)[1] \in Bytes /\ LineOf(m)[2] \in Bytes /\ LineOf(m)[3] \in Bytes
  BY DEF LineOf, Bytes, Byte
<1>4. QED
  BY <1>1, <1>2, <1>3, Zenon DEF ByteOf

LEMMA ByteKept ==
  ASSUME NEW w \in Seq(Messages), NEW m \in Messages, NEW j \in 1..(3 * Len(w))
  PROVE  ByteOf(Append(w, m), j) = ByteOf(w, j)
<1>1. ((j - 1) \div 3) + 1 \in 1..Len(w)
  <2> DEFINE l == Len(w)
  <2>1. l \in Nat /\ j \in 1..(3 * l)
    OBVIOUS
  <2> HIDE DEF l
  <2>2. ((j - 1) \div 3) + 1 \in 1..l
    BY <2>1, SMT
  <2>3. QED
    BY <2>2 DEF l
<1>2. Append(w, m)[((j - 1) \div 3) + 1] = w[((j - 1) \div 3) + 1]
  BY <1>1
<1>3. QED
  BY <1>2, Zenon DEF ByteOf

-----------------------------------------------------------------------------
(* Where the first line of some bytes ends.                                   *)
LEMMA LineEndsAt ==
  ASSUME NEW b \in Seq(Bytes), NEW n \in 1..Len(b), b[n] = Newline,
         \A j \in 1..(n - 1) : b[j] # Newline
  PROVE  HasNewline(b) /\ LineLength(b) = n - 1
<1> DEFINE End(k) == b[k] = Newline /\ \A j \in 1..(k - 1) : b[j] # Newline
<1>1. DOMAIN b = 1..Len(b)
  OBVIOUS
<1>2. HasNewline(b)
  BY <1>1 DEF HasNewline
<1>3. ASSUME NEW k \in 1..Len(b), End(k)  PROVE k = n
  <2>1. CASE k < n
    BY <1>3, <2>1
  <2>2. CASE n < k
    BY <1>3, <2>2
  <2>3. QED
    BY <2>1, <2>2
<1>4. (CHOOSE k \in 1..Len(b) : End(k)) = n
  <2>1. End(n)
    OBVIOUS
  <2> HIDE DEF End
  <2>2. QED
    BY <1>3, <2>1
<1>5. QED
  BY <1>1, <1>2, <1>4, Zenon DEF LineLength

LEMMA NoLineEnd ==
  ASSUME NEW b \in Seq(Bytes), \A j \in 1..Len(b) : b[j] # Newline
  PROVE  ~HasNewline(b) /\ LineLength(b) = Len(b)
BY DEF HasNewline, LineLength

(* What Rest leaves.                                                          *)
LEMMA RestOf ==
  ASSUME NEW b \in Seq(Bytes), NEW n \in Nat, LineLength(b) = n, n + 1 <= Len(b)
  PROVE  /\ Rest(b) \in Seq(Bytes) /\ Len(Rest(b)) = Len(b) - n - 1
         /\ \A i \in 1..(Len(b) - n - 1) : Rest(b)[i] = b[n + 1 + i]
<1>1. Rest(b) = [i \in 1..(Len(b) - n - 1) |-> b[n + 1 + i]]
  BY SMT DEF Rest
<1>2. \A i \in 1..(Len(b) - n - 1) : b[n + 1 + i] \in Bytes
  BY SMT
<1>3. QED
  BY <1>1, <1>2, SMT

LEMMA RestOfLast ==
  ASSUME NEW b \in Seq(Bytes), LineLength(b) = Len(b)
  PROVE  Rest(b) = <<>>
BY SMT DEF Rest

LEMMA LastOfRest ==
  ASSUME NEW w, NEW c \in Nat, NEW b \in Seq(Bytes), LastOf(w, c, b),
         NEW n \in Nat, LineLength(b) = n, n + 1 <= Len(b)
  PROVE  LastOf(w, c, Rest(b))
<1> DEFINE r == Rest(b)
<1>1. Len(r) = Len(b) - n - 1 /\ \A i \in 1..(Len(b) - n - 1) : r[i] = b[n + 1 + i]
  BY RestOf
<1> HIDE DEF r
<1>2. Len(b) <= c /\ \A i \in 1..Len(b) : b[i] = ByteOf(w, c - Len(b) + i)
  BY DEF LastOf
<1>3. Len(b) \in Nat
  OBVIOUS
<1>4. Len(r) <= c
  BY <1>1, <1>2, <1>3, SMT
<1>5. ASSUME NEW i \in 1..Len(r)  PROVE r[i] = ByteOf(w, c - Len(r) + i)
  <2>1. i \in 1..(Len(b) - n - 1) /\ n + 1 + i \in 1..Len(b)
        /\ c - Len(b) + (n + 1 + i) = c - Len(r) + i
    BY <1>1, <1>3, SMT
  <2>2. r[i] = b[n + 1 + i] /\ b[n + 1 + i] = ByteOf(w, c - Len(b) + (n + 1 + i))
    BY <1>1, <1>2, <2>1, Zenon
  <2>3. QED
    BY <2>1, <2>2
<1>6. LastOf(w, c, r)
  BY <1>4, <1>5 DEF LastOf
<1>7. QED
  BY <1>6 DEF r

LEMMA FirstTwo ==
  ASSUME NEW b \in Seq(Bytes), 2 <= Len(b)
  PROVE  SubSeq(b, 1, 2) = <<b[1], b[2]>>
<1> DEFINE s == SubSeq(b, 1, 2)  t == <<b[1], b[2]>>
<1>1. s \in Seq(Bytes) /\ Len(s) = 2 /\ s[1] = b[1] /\ s[2] = b[2]
  OBVIOUS
<1>2. b[1] \in Bytes /\ b[2] \in Bytes
  OBVIOUS
<1>3. t \in Seq(Bytes) /\ Len(t) = 2 /\ t[1] = b[1] /\ t[2] = b[2]
  BY <1>2
<1>4. \A i \in 1..2 : s[i] = t[i]
  BY <1>1, <1>3
<1> HIDE DEF s, t
<1>5. s = t
  BY <1>1, <1>3, <1>4
<1>6. QED
  BY <1>5 DEF s, t

-----------------------------------------------------------------------------
(* One iteration of either loop over lines: the bytes begin with the newline  *)
(* of a line whose text has been handled, ...                                 *)
LEMMA CutNewline ==
  ASSUME NEW w \in Seq(Messages), NEW c \in Nat, NEW b \in Seq(Bytes), LastOf(w, c, b),
         NEW p, p = c - Len(b), p % 3 = 2, b # <<>>
  PROVE  /\ HasNewline(b) /\ FirstLine(b) = <<>>
         /\ Rest(b) \in Seq(Bytes) /\ Len(Rest(b)) = Len(b) - 1
         /\ LastOf(w, c, Rest(b))
<1>1. Len(b) \in Nat \ {0} /\ p \in Nat /\ 1 \in 1..Len(b) /\ c - Len(b) + 1 = p + 1
  BY SMT DEF LastOf
<1>2. b[1] = ByteOf(w, c - Len(b) + 1)
  BY <1>1, Zenon DEF LastOf
<1>3. b[1] = Newline
  BY <1>1, <1>2, NewlineByte
<1>4. HasNewline(b) /\ LineLength(b) = 0
  BY <1>1, <1>3, LineEndsAt
<1>5. FirstLine(b) = <<>>
  BY <1>4 DEF FirstLine
<1>6. LastOf(w, c, Rest(b))
  BY <1>1, <1>4, LastOfRest
<1>7. Rest(b) \in Seq(Bytes) /\ Len(Rest(b)) = Len(b) - 1
  BY <1>1, <1>4, RestOf
<1>8. QED
  BY <1>4, <1>5, <1>6, <1>7

(* ... or with a whole line, ...                                              *)
LEMMA CutLine ==
  ASSUME NEW w \in Seq(Messages), NEW c \in Nat, NEW b \in Seq(Bytes), LastOf(w, c, b),
         NEW p, p = c - Len(b), p % 3 = 0, 3 <= Len(b)
  PROVE  /\ HasNewline(b) /\ FirstLine(b) = Text(w[(p \div 3) + 1])
         /\ Rest(b) \in Seq(Bytes) /\ Len(Rest(b)) = Len(b) - 3
         /\ LastOf(w, c, Rest(b))
<1> DEFINE m == w[(p \div 3) + 1]
<1>1. /\ Len(b) \in Nat /\ p \in Nat /\ 1 \in 1..Len(b) /\ 2 \in 1..Len(b) /\ 3 \in 1..Len(b)
      /\ c - Len(b) + 1 = p + 1 /\ c - Len(b) + 2 = p + 2 /\ c - Len(b) + 3 = p + 3
  BY SMT DEF LastOf
<1>2. /\ b[1] = ByteOf(w, c - Len(b) + 1) /\ b[2] = ByteOf(w, c - Len(b) + 2)
      /\ b[3] = ByteOf(w, c - Len(b) + 3)
  BY <1>1, Zenon DEF LastOf
<1>3. b[1] = Byte(m, 1) /\ b[2] = Byte(m, 2) /\ b[3] = Newline
  BY <1>1, <1>2, TextBytes
<1>4. HasNewline(b) /\ LineLength(b) = 2
  <2>1. \A j \in 1..(3 - 1) : b[j] # Newline
    BY <1>3, ByteIsNotNewline
  <2>2. QED
    BY <1>1, <1>3, <2>1, LineEndsAt
<1>5. FirstLine(b) = Text(m)
  <2>1. FirstLine(b) = SubSeq(b, 1, 2)
    BY <1>4 DEF FirstLine
  <2>2. 2 <= Len(b)
    BY <1>1
  <2>3. FirstLine(b) = <<b[1], b[2]>>
    BY <2>1, <2>2, FirstTwo, Zenon
  <2>4. QED
    BY <1>3, <2>3, Zenon DEF Text
<1>6. LastOf(w, c, Rest(b))
  BY <1>1, <1>4, LastOfRest
<1>7. Rest(b) \in Seq(Bytes) /\ Len(Rest(b)) = Len(b) - 3
  BY <1>1, <1>4, RestOf
<1>8. QED
  BY <1>4, <1>5, <1>6, <1>7

(* ... or hold the text of a line without its newline, ...                    *)
LEMMA CutLastLine ==
  ASSUME NEW w \in Seq(Messages), NEW c \in Nat, NEW b \in Seq(Bytes), LastOf(w, c, b),
         NEW p, p = c - Len(b), p % 3 = 0, Len(b) = 2
  PROVE  ~HasNewline(b) /\ FirstLine(b) = Text(w[(p \div 3) + 1]) /\ Rest(b) = <<>>
<1> DEFINE m == w[(p \div 3) + 1]
<1>1. /\ p \in Nat /\ 1 \in 1..Len(b) /\ 2 \in 1..Len(b)
      /\ c - Len(b) + 1 = p + 1 /\ c - Len(b) + 2 = p + 2
  BY SMT DEF LastOf
<1>2. b[1] = ByteOf(w, c - Len(b) + 1) /\ b[2] = ByteOf(w, c - Len(b) + 2)
  BY <1>1, Zenon DEF LastOf
<1>3. b[1] = Byte(m, 1) /\ b[2] = Byte(m, 2)
  BY <1>1, <1>2, TextBytes
<1>4. ~HasNewline(b) /\ LineLength(b) = Len(b)
  <2>1. \A j \in 1..Len(b) : b[j] # Newline
    BY <1>3, ByteIsNotNewline
  <2>2. QED
    BY <2>1, NoLineEnd
<1>5. FirstLine(b) = Text(m)
  <2>1. FirstLine(b) = SubSeq(b, 1, 2)
    BY <1>4 DEF FirstLine
  <2>2. 2 <= Len(b)
    BY <1>1
  <2>3. FirstLine(b) = <<b[1], b[2]>>
    BY <2>1, <2>2, FirstTwo, Zenon
  <2>4. QED
    BY <1>3, <2>3, Zenon DEF Text
<1>6. QED
  BY <1>4, <1>5, RestOfLast

(* ... or half of a text.                                                     *)
LEMMA CutHalf ==
  ASSUME NEW w \in Seq(Messages), NEW c \in Nat, NEW b \in Seq(Bytes), LastOf(w, c, b),
         NEW p, p = c - Len(b), p % 3 = 0, Len(b) = 1
  PROVE  ~HasNewline(b) /\ Len(FirstLine(b)) = 1 /\ Rest(b) = <<>>
<1>1. p \in Nat /\ 1 \in 1..Len(b) /\ c - Len(b) + 1 = p + 1
  BY SMT DEF LastOf
<1>2. b[1] = ByteOf(w, c - Len(b) + 1)
  BY <1>1, Zenon DEF LastOf
<1>3. b[1] = Byte(w[(p \div 3) + 1], 1)
  BY <1>1, <1>2, TextBytes
<1>4. ~HasNewline(b) /\ LineLength(b) = Len(b)
  <2>1. \A j \in 1..Len(b) : b[j] # Newline
    BY <1>3, ByteIsNotNewline
  <2>2. QED
    BY <2>1, NoLineEnd
<1>5. Len(FirstLine(b)) = 1
  BY <1>4 DEF FirstLine
<1>6. QED
  BY <1>4, <1>5, RestOfLast

-----------------------------------------------------------------------------
(* What the queue holds after each of these.                                  *)
LEMMA QueueAtStart ==
  ASSUME NEW w \in Seq(Messages), w[1][1] = "subscribed", NEW p \in {2, 3}, NEW init
  PROVE  QueueIs(<<>>, w, p, init)
<1>1. Handled(w, p, init) = {}
  <2>1. \A k \in 1..Len(w) : 3 * k - 1 <= p => k = 1
    OBVIOUS
  <2>2. QED
    BY <2>1 DEF Handled
<1>2. QED
  BY <1>1 DEF QueueIs

LEMMA QueueAfterNewline ==
  ASSUME NEW w \in Seq(Messages), NEW p \in Nat, p % 3 = 2, NEW init \in Nat, NEW q,
         QueueIs(q, w, p, init)
  PROVE  QueueIs(q, w, p + 1, init)
<1>1. \A k \in 1..Len(w) : 3 * k - 1 <= p + 1 <=> 3 * k - 1 <= p
  BY SMT
<1>2. Handled(w, p + 1, init) = Handled(w, p, init)
  BY <1>1 DEF Handled
<1>3. QED
  BY <1>2, Zenon DEF QueueIs

LEMMA LineAdded ==
  ASSUME NEW p \in Nat, p % 3 = 0, NEW p2 \in {p + 2, p + 3}, NEW k \in Nat
  PROVE  3 * k - 1 <= p2 <=> (3 * k - 1 <= p \/ k = (p \div 3) + 1)
BY SMT

LEMMA QueueAfterAnswer ==
  ASSUME NEW w \in Seq(Messages), NEW p \in Nat, p % 3 = 0, NEW p2 \in {p + 2, p + 3},
         NEW init \in Nat, NEW q, QueueIs(q, w, p, init),
         NEW n, n = (p \div 3) + 1,
         w[n][1] = "subscribed" \/ (w[n][1] = "authorized" /\ 3 * n - 1 <= init)
  PROVE  QueueIs(q, w, p2, init)
<1>1. \A k \in 1..Len(w) : 3 * k - 1 <= p2 <=> (3 * k - 1 <= p \/ k = n)
  BY LineAdded
<1>2. Handled(w, p2, init) = Handled(w, p, init)
  BY <1>1 DEF Handled
<1>3. QED
  BY <1>2, Zenon DEF QueueIs

LEMMA QueueAfterPush ==
  ASSUME NEW w \in Seq(Messages), \A k \in 1..Len(w) : w[k][2] = k - 1,
         NEW p \in Nat, p % 3 = 0, NEW p2 \in {p + 2, p + 3},
         NEW init \in Nat, NEW q \in Seq(Messages), QueueIs(q, w, p, init),
         NEW n \in 1..Len(w), n = (p \div 3) + 1,
         w[n][1] # "subscribed", ~(w[n][1] = "authorized" /\ 3 * n - 1 <= init)
  PROVE  QueueIs(Append(q, w[n]), w, p2, init)
<1> DEFINE r == Append(q, w[n])  old == Handled(w, p, init)
<1>1. \A k \in 1..Len(w) : 3 * k - 1 <= p2 <=> (3 * k - 1 <= p \/ k = n)
  BY LineAdded
<1>2. Handled(w, p2, init) = old \cup {n}
  BY <1>1 DEF Handled
<1>3. w[n] \in Messages /\ w[n][2] = n - 1
  OBVIOUS
<1>4. /\ Len(r) = Len(q) + 1 /\ r[Len(q) + 1] = w[n]
      /\ \A i \in 1..Len(q) : r[i] = q[i]
  BY <1>3
<1>5. \A i \in 1..Len(q) : \E k \in old : q[i] = w[k]
  BY Zenon DEF QueueIs
<1>6. \A k \in old : k \in 1..Len(w) /\ k < n /\ w[k][2] = k - 1
  <2>1. \A k \in old : k \in 1..Len(w) /\ 3 * k - 1 <= p
    BY DEF Handled
  <2>2. \A k \in 1..Len(w) : 3 * k - 1 <= p => k < n
    BY SMT
  <2>3. QED
    BY <2>1, <2>2
<1>7. \A i \in 1..Len(q) : q[i][2] < n - 1
  <2>1. SUFFICES ASSUME NEW i \in 1..Len(q)  PROVE q[i][2] < n - 1
    OBVIOUS
  <2>2. PICK k \in old : q[i] = w[k]
    BY <1>5
  <2>3. k \in 1..Len(w) /\ k < n /\ q[i][2] = k - 1
    BY <1>6, <2>2, Zenon
  <2>4. QED
    BY <2>3, SMT
<1>8. {r[i] : i \in 1..Len(r)} = {w[k] : k \in old \cup {n}}
  <2>1. {q[i] : i \in 1..Len(q)} = {w[k] : k \in old}
    BY Zenon DEF QueueIs
  <2>2. \A i : i \in 1..Len(r) <=> (i \in 1..Len(q) \/ i = Len(q) + 1)
    BY <1>4, SMT
  <2> HIDE DEF r, old
  <2>3. {r[i] : i \in 1..Len(r)} = {q[i] : i \in 1..Len(q)} \cup {w[n]}
    <3>1. ASSUME NEW i \in 1..Len(r)  PROVE r[i] \in {q[j] : j \in 1..Len(q)} \cup {w[n]}
      BY <1>4, <2>2
    <3>2. ASSUME NEW j \in 1..Len(q)  PROVE j \in 1..Len(r) /\ r[j] = q[j]
      BY <1>4, <2>2
    <3>3. Len(q) + 1 \in 1..Len(r)
      BY <1>4
    <3>4. w[n] \in {r[i] : i \in 1..Len(r)}
      BY <1>4, <3>3, Zenon
    <3>5. \A j \in 1..Len(q) : q[j] \in {r[i] : i \in 1..Len(r)}
      BY <3>2, Zenon
    <3>6. QED
      BY <3>1, <3>4, <3>5, Zenon
  <2>4. {w[k] : k \in old \cup {n}} = {w[k] : k \in old} \cup {w[n]}
    BY Zenon
  <2>5. QED
    BY <2>1, <2>3, <2>4, Zenon
<1>9. \A i, j \in 1..Len(r) : i < j => r[i][2] < r[j][2]
  <2>1. SUFFICES ASSUME NEW i \in 1..Len(r), NEW j \in 1..Len(r), i < j
                 PROVE  r[i][2] < r[j][2]
    OBVIOUS
  <2>2. i \in 1..Len(q) /\ r[i] = q[i]
    BY <1>4, <2>1, SMT
  <2>3. CASE j \in 1..Len(q)
    BY <1>4, <2>1, <2>2, <2>3 DEF QueueIs
  <2>4. CASE j = Len(q) + 1
    BY <1>3, <1>4, <1>7, <2>2, <2>4
  <2>5. QED
    BY <1>4, <2>3, <2>4
<1>10. QED
  BY <1>2, <1>8, <1>9, Zenon DEF QueueIs

(* A message the pool writes changes nothing of this.                         *)
LEMMA QueueKept ==
  ASSUME NEW w \in Seq(Messages), NEW m \in Messages, NEW p \in Nat, p <= 3 * Len(w),
         NEW init \in Nat, NEW q, QueueIs(q, w, p, init)
  PROVE  QueueIs(q, Append(w, m), p, init)
<1> DEFINE v == Append(w, m)
<1>1. Len(v) = Len(w) + 1 /\ \A k \in 1..Len(w) : v[k] = w[k]
  OBVIOUS
<1> HIDE DEF v
<1>2. \A k \in 1..Len(v) : 3 * k - 1 <= p => k \in 1..Len(w)
  BY <1>1, SMT
<1>3. \A k \in 1..Len(w) : k \in 1..Len(v)
  BY <1>1, SMT
<1>4. Handled(v, p, init) = Handled(w, p, init)
  BY <1>1, <1>2, <1>3, Zenon DEF Handled
<1>5. \A k \in Handled(w, p, init) : v[k] = w[k]
  BY <1>1 DEF Handled
<1>6. {v[k] : k \in Handled(w, p, init)} = {w[k] : k \in Handled(w, p, init)}
  BY <1>5, Zenon
<1>7. QueueIs(q, v, p, init)
  BY <1>4, <1>6, Zenon DEF QueueIs
<1>8. QED
  BY <1>7 DEF v

LEMMA LastOfKept ==
  ASSUME NEW w \in Seq(Messages), NEW m \in Messages, NEW c \in Nat, c <= 3 * Len(w),
         NEW b \in Seq(Bytes), LastOf(w, c, b)
  PROVE  LastOf(Append(w, m), c, b)
<1>1. \A i \in 1..Len(b) : c - Len(b) + i \in 1..(3 * Len(w))
  <2>1. Len(b) <= c /\ Len(b) \in Nat /\ Len(w) \in Nat
    BY DEF LastOf
  <2>2. QED
    BY <2>1, SMT
<1>2. \A i \in 1..Len(b) : ByteOf(Append(w, m), c - Len(b) + i) = ByteOf(w, c - Len(b) + i)
  BY <1>1, ByteKept
<1>3. QED
  BY <1>2 DEF LastOf

(* A read appends the next bytes.                                             *)
ReadAppended(w, c, b, n, a) ==
    /\ a \in Seq(Bytes) /\ Len(a) = n
    /\ b \o a \in Seq(Bytes) /\ Len(b \o a) = Len(b) + n
    /\ LastOf(w, c + n, b \o a)

LEMMA LastOfRead ==
  ASSUME NEW w \in Seq(Messages), NEW c \in Nat, NEW b \in Seq(Bytes), LastOf(w, c, b),
         NEW n \in Nat, c + n <= 3 * Len(w),
         NEW a, a = NextOf(w, c, n)
  PROVE  ReadAppended(w, c, b, n, a)
<1>1. \A i \in 1..n : ByteOf(w, c + i) \in Bytes
  <2>1. \A i \in 1..n : c + i \in 1..(3 * Len(w))
    BY SMT
  <2>2. QED
    BY <2>1, ByteType
<1>2. a \in Seq(Bytes) /\ Len(a) = n /\ \A i \in 1..n : a[i] = ByteOf(w, c + i)
  BY <1>1, SMT DEF NextOf
<1> DEFINE s == b \o a
<1>3. /\ s \in Seq(Bytes) /\ Len(s) = Len(b) + n
      /\ \A i \in 1..(Len(b) + n) : s[i] = IF i <= Len(b) THEN b[i] ELSE a[i - Len(b)]
  <2>1. a \in Seq(Bytes) /\ Len(a) = n
    BY <1>2
  <2>2. QED
    BY <2>1, SMT
<1> HIDE DEF s
<1>4. Len(b) \in Nat /\ Len(b) <= c /\ \A i \in 1..Len(b) : b[i] = ByteOf(w, c - Len(b) + i)
  BY DEF LastOf
<1>5. ASSUME NEW i \in 1..Len(s)  PROVE s[i] = ByteOf(w, c + n - Len(s) + i)
  <2>1. CASE i <= Len(b)
    <3>1. i \in 1..Len(b) /\ i \in 1..(Len(b) + n) /\ c + n - Len(s) + i = c - Len(b) + i
      BY <1>3, <1>4, <2>1, SMT
    <3>2. QED
      BY <1>3, <1>4, <2>1, <3>1, Zenon
  <2>2. CASE ~(i <= Len(b))
    <3>1. i - Len(b) \in 1..n /\ i \in 1..(Len(b) + n) /\ c + n - Len(s) + i = c + (i - Len(b))
      BY <1>3, <1>4, <2>2, SMT
    <3>2. QED
      BY <1>2, <1>3, <2>2, <3>1, Zenon
  <2>3. QED
    BY <2>1, <2>2
<1>6. LastOf(w, c + n, s)
  BY <1>3, <1>4, <1>5, SMT DEF LastOf
<1>7. QED
  BY <1>2, <1>3, <1>6 DEF s, ReadAppended

-----------------------------------------------------------------------------
(* The invariant holds at the start, and every step preserves it.             *)
LEMMA LinesInitInv == LinesInit => LinesInv
BY DEF LinesInit, LinesInv, LinesTypeOK, WrittenInOrder, BufferEmptyBefore, SubscribeInv,
       AuthorizeInv, SubscribedFirst, ResponseInv, LoopInv

LEMMA OpenPoolInv ==
  ASSUME LinesInv, OpenPool  PROVE LinesInv'
<1>1. phase = "closed" /\ phase' = "subscribe" /\ written' = <<>> /\ consumed' = 0
      /\ initial' = 0 /\ messages' = <<>> /\ response' = response /\ networkBuffer' = networkBuffer
  BY DEF OpenPool
<1>2. LinesTypeOK'
  BY <1>1 DEF LinesInv, LinesTypeOK
<1>3. WrittenInOrder'
  BY <1>1 DEF WrittenInOrder
<1>4. BufferEmptyBefore'
  BY <1>1 DEF LinesInv, BufferEmptyBefore
<1>5. SubscribeInv' /\ AuthorizeInv' /\ SubscribedFirst' /\ ResponseInv' /\ LoopInv'
  BY <1>1 DEF SubscribeInv, AuthorizeInv, SubscribedFirst, ResponseInv, LoopInv
<1>6. QED
  BY <1>2, <1>3, <1>4, <1>5 DEF LinesInv

LEMMA PoolWritesInv ==
  ASSUME LinesInv, NEW kind \in Kinds, PoolWrites(kind)  PROVE LinesInv'
<1> DEFINE m == <<kind, Len(written)>>
<1>1. /\ written' = Append(written, m)
      /\ phase' = phase /\ consumed' = consumed /\ initial' = initial
      /\ response' = response /\ networkBuffer' = networkBuffer /\ messages' = messages
      /\ kind = "subscribed" => \A k \in DOMAIN written : written[k][1] # "subscribed"
  BY DEF PoolWrites
<1>2. LinesTypeOK
  BY DEF LinesInv
<1>3. m \in Messages /\ written \in Seq(Messages) /\ DOMAIN written = 1..Len(written)
  BY <1>2 DEF LinesTypeOK, Messages
<1>4. /\ Len(written') = Len(written) + 1 /\ written'[Len(written) + 1] = m
      /\ \A k \in 1..Len(written) : written'[k] = written[k]
      /\ written' \in Seq(Messages)
  BY <1>1, <1>3
<1>5. LinesTypeOK'
  BY <1>1, <1>2, <1>4 DEF LinesTypeOK
<1>6. WrittenInOrder'
  <2>1. WrittenInOrder
    BY DEF LinesInv
  <2>2. \A k \in 1..Len(written') : k \in 1..Len(written) \/ k = Len(written) + 1
    BY <1>3, <1>4
  <2>3. m[1] = kind /\ m[2] = (Len(written) + 1) - 1
    BY <1>3
  <2>4. \A k \in 1..Len(written') : written'[k][2] = k - 1
    BY <1>4, <2>1, <2>2, <2>3, Zenon DEF WrittenInOrder
  <2>5. \A j, k \in 1..Len(written') :
          written'[j][1] = "subscribed" /\ written'[k][1] = "subscribed" => j = k
    BY <1>1, <1>3, <1>4, <2>1, <2>2, <2>3, Zenon DEF WrittenInOrder
  <2>6. QED
    BY <2>4, <2>5 DEF WrittenInOrder
<1>7. BufferEmptyBefore' /\ SubscribeInv' /\ AuthorizeInv'
  BY <1>1 DEF LinesInv, BufferEmptyBefore, SubscribeInv, AuthorizeInv
<1>8. SubscribedFirst'
  BY <1>1, <1>3, <1>4 DEF LinesInv, SubscribedFirst
<1>9. ResponseInv'
  <2>1. SUFFICES ASSUME phase = "response"  PROVE ResponseInv'
    BY <1>1 DEF ResponseInv
  <2> DEFINE p == consumed - Len(response)
  <2>2. /\ initial = consumed /\ LastOf(written, consumed, response) /\ 2 <= p /\ p % 3 # 1
        /\ QueueIs(messages, written, p, initial)
    BY <2>1 DEF LinesInv, ResponseInv
  <2>3. /\ consumed \in Nat /\ initial \in Nat /\ response \in Seq(Bytes)
        /\ consumed <= 3 * Len(written) /\ p \in Nat /\ p <= 3 * Len(written)
    <3>1. consumed \in Nat /\ initial \in Nat /\ response \in Seq(Bytes) /\ consumed <= 3 * Len(written)
      BY <1>2 DEF LinesTypeOK
    <3>2. Len(response) \in Nat /\ Len(written) \in Nat
      BY <3>1, <1>3
    <3>3. p \in Nat /\ p <= 3 * Len(written)
      BY <2>2, <3>1, <3>2, SMT
    <3>4. QED
      BY <3>1, <3>3
  <2>4. LastOf(written', consumed, response)
    BY <1>1, <1>3, <2>2, <2>3, LastOfKept, Zenon
  <2> HIDE DEF p
  <2>5. QueueIs(messages, written', p, initial)
    BY <1>1, <1>3, <2>2, <2>3, QueueKept, Zenon
  <2> USE DEF p
  <2>6. QED
    BY <1>1, <2>2, <2>4, <2>5 DEF ResponseInv
<1>10. LoopInv'
  <2>1. SUFFICES ASSUME phase = "loop"  PROVE LoopInv'
    BY <1>1 DEF LoopInv
  <2> DEFINE p == consumed - Len(networkBuffer)
  <2>2. /\ LastOf(written, consumed, networkBuffer) /\ 2 <= initial /\ initial <= p
        /\ p % 3 # 1 /\ (p % 3 = 2 => p = initial)
        /\ QueueIs(messages, written, p, initial)
    BY <2>1 DEF LinesInv, LoopInv
  <2>3. /\ consumed \in Nat /\ initial \in Nat /\ networkBuffer \in Seq(Bytes)
        /\ consumed <= 3 * Len(written) /\ p \in Nat /\ p <= 3 * Len(written)
    <3>1. consumed \in Nat /\ initial \in Nat /\ networkBuffer \in Seq(Bytes)
          /\ consumed <= 3 * Len(written)
      BY <1>2 DEF LinesTypeOK
    <3>2. Len(networkBuffer) \in Nat /\ Len(written) \in Nat
      BY <3>1, <1>3
    <3>3. p \in Nat /\ p <= 3 * Len(written)
      BY <2>2, <3>1, <3>2, SMT
    <3>4. QED
      BY <3>1, <3>3
  <2>4. LastOf(written', consumed, networkBuffer)
    BY <1>1, <1>3, <2>2, <2>3, LastOfKept, Zenon
  <2> HIDE DEF p
  <2>5. QueueIs(messages, written', p, initial)
    BY <1>1, <1>3, <2>2, <2>3, QueueKept, Zenon
  <2> USE DEF p
  <2>6. QED
    BY <1>1, <2>2, <2>4, <2>5 DEF LoopInv
<1>11. QED
  BY <1>5, <1>6, <1>7, <1>8, <1>9, <1>10 DEF LinesInv

(* Of the first read the first message is parsed, and no other.               *)
LEMMA SubscribedRead ==
  ASSUME LinesInv, NEW n \in 1..UnreadBytes, phase = "subscribe"
  PROVE  /\ SubscribedPhase(Incoming(n)) # "terminated" => n \in {2, 3}
         /\ n \in {2, 3} => SubscribedPhase(Incoming(n)) # "terminated"
         /\ SubscribedPhase(Incoming(n)) = "authorize" => written[1][1] = "subscribed"
<1> DEFINE b == Incoming(n)
<1>1. /\ consumed = 0 /\ written \in Seq(Messages) /\ Len(written) \in Nat
      /\ DOMAIN written = 1..Len(written)
  BY DEF LinesInv, SubscribeInv, LinesTypeOK
<1>2. n \in Nat /\ n <= 3 * Len(written) /\ 1 \in DOMAIN written
  BY <1>1, SMT DEF UnreadBytes
<1>3. b = [i \in 1..n |-> ByteOf(written, i)]
  BY <1>1, SMT DEF Incoming, StreamByte, ByteOf
<1> HIDE DEF b
<1>4. Len(b) = n
  BY <1>2, <1>3
<1>5. ByteOf(written, 1) = Byte(written[1], 1) /\ ByteOf(written, 2) = Byte(written[1], 2)
      /\ ByteOf(written, 3) = Newline
  <2>1. 0 \in Nat /\ 0 % 3 = 0 /\ (0 \div 3) + 1 = 1 /\ 0 + 1 = 1 /\ 0 + 2 = 2 /\ 0 + 3 = 3
    BY SMT
  <2>2. QED
    BY <2>1, TextBytes
<1>6. b[1] = Byte(written[1], 1)
  BY <1>2, <1>3, <1>5
<1>7. ParsedLine(b) = written[1]
  BY <1>6 DEF ParsedLine, Byte
<1>8. \A k : Len(Text(written[k])) = 2 /\ Len(LineOf(written[k])) = 3
  BY DEF Text, LineOf
<1>9. CASE n = 2
  <2>1. b = Text(written[1])
    BY <1>3, <1>5, <1>9 DEF Text
  <2>2. QED
    BY <1>2, <1>7, <1>9, <2>1 DEF SubscribedPhase, b
<1>10. CASE n = 3
  <2>1. b = LineOf(written[1])
    BY <1>3, <1>5, <1>10 DEF LineOf
  <2>2. QED
    BY <1>2, <1>7, <1>10, <2>1 DEF SubscribedPhase, b
<1>11. CASE n \notin {2, 3}
  <2>1. ~\E k \in DOMAIN written : b \in {Text(written[k]), LineOf(written[k])}
    BY <1>4, <1>8, <1>11
  <2>2. SubscribedPhase(b) = "terminated"
    BY <2>1 DEF SubscribedPhase
  <2>3. QED
    BY <1>11, <2>2 DEF b
<1>12. QED
  BY <1>9, <1>10, <1>11

LEMMA ReadSubscribedInv ==
  ASSUME LinesInv, NEW n \in 1..UnreadBytes, ReadSubscribed(n)  PROVE LinesInv'
<1>1. /\ phase = "subscribe" /\ phase' = SubscribedPhase(Incoming(n))
      /\ consumed' = consumed + n /\ initial' = initial + n /\ written' = written
      /\ response' = response /\ networkBuffer' = networkBuffer /\ messages' = messages
  BY DEF ReadSubscribed, Consume
<1>2. phase' \in {"terminated", "authorize", "closed"}
  BY <1>1 DEF SubscribedPhase
<1>3. LinesTypeOK /\ consumed = 0 /\ initial = 0 /\ messages = <<>> /\ networkBuffer = <<>>
  BY <1>1 DEF LinesInv, SubscribeInv, BufferEmptyBefore
<1>4. n \in Nat /\ n <= 3 * Len(written) /\ (n \in {2, 3} => 1 <= Len(written))
  <2>1. Len(written) \in Nat
    BY <1>3 DEF LinesTypeOK
  <2>2. QED
    BY <1>3, <2>1, SMT DEF UnreadBytes
<1>5. phase' = "authorize" => n \in {2, 3} /\ written[1][1] = "subscribed"
  BY <1>1, SubscribedRead, Zenon
<1>6. LinesTypeOK'
  BY <1>1, <1>2, <1>3, <1>4 DEF LinesTypeOK
<1>7. WrittenInOrder'
  BY <1>1 DEF LinesInv, WrittenInOrder
<1>8. BufferEmptyBefore' /\ SubscribeInv' /\ ResponseInv' /\ LoopInv'
  BY <1>1, <1>2, <1>3 DEF BufferEmptyBefore, SubscribeInv, ResponseInv, LoopInv
<1>9. AuthorizeInv'
  BY <1>1, <1>3, <1>5 DEF AuthorizeInv
<1>10. SubscribedFirst'
  BY <1>1, <1>2, <1>4, <1>5 DEF SubscribedFirst
<1>11. QED
  BY <1>6, <1>7, <1>8, <1>9, <1>10 DEF LinesInv

LEMMA ReadAuthorizedInv ==
  ASSUME LinesInv, NEW n \in 1..UnreadBytes, ReadAuthorized(n)  PROVE LinesInv'
<1>1. /\ phase = "authorize" /\ phase' = "response" /\ response' = Incoming(n)
      /\ consumed' = consumed + n /\ initial' = initial + n /\ written' = written
      /\ networkBuffer' = networkBuffer /\ messages' = messages
  BY DEF ReadAuthorized, Consume
<1>2. /\ LinesTypeOK /\ consumed \in {2, 3} /\ initial = consumed /\ messages = <<>>
      /\ networkBuffer = <<>> /\ 1 <= Len(written) /\ written[1][1] = "subscribed"
  BY <1>1 DEF LinesInv, AuthorizeInv, BufferEmptyBefore, SubscribedFirst
<1>3. written \in Seq(Messages) /\ Len(written) \in Nat /\ consumed \in Nat
      /\ n \in Nat /\ n <= 3 * Len(written) - consumed /\ consumed + n <= 3 * Len(written)
  <2>1. written \in Seq(Messages) /\ Len(written) \in Nat /\ consumed \in Nat
    BY <1>2 DEF LinesTypeOK
  <2>2. QED
    BY <2>1, SMT DEF UnreadBytes
<1>4. response' = NextOf(written, consumed, n)
  BY <1>1 DEF Incoming, StreamByte, ByteOf, NextOf
<1>5. /\ response' \in Seq(Bytes) /\ Len(response') = n
      /\ LastOf(written, consumed + n, response')
  <2>1. <<>> \in Seq(Bytes)
    OBVIOUS
  <2>2. PICK e \in Seq(Bytes) : e = <<>>
    BY <2>1, Zenon
  <2>3. e \in Seq(Bytes) /\ LastOf(written, consumed, e)
    BY <1>3, <2>2 DEF LastOf
  <2>4. /\ response' \in Seq(Bytes) /\ Len(response') = n
        /\ LastOf(written, consumed + n, e \o response')
    <3>1. /\ written \in Seq(Messages) /\ consumed \in Nat /\ e \in Seq(Bytes)
          /\ LastOf(written, consumed, e) /\ n \in Nat /\ consumed + n <= 3 * Len(written)
      BY <1>3, <2>3, Zenon
    <3>2. ReadAppended(written, consumed, e, n, response')
      BY <1>4, <3>1, LastOfRead
    <3>3. QED
      BY <3>2, Zenon DEF ReadAppended
  <2>5. e \o response' = response'
    BY <2>2, <2>4
  <2>6. QED
    BY <2>4, <2>5
<1>6. LinesTypeOK'
  BY <1>1, <1>2, <1>3, <1>5 DEF LinesTypeOK
<1>7. WrittenInOrder'
  BY <1>1 DEF LinesInv, WrittenInOrder
<1>8. BufferEmptyBefore' /\ SubscribeInv' /\ AuthorizeInv' /\ SubscribedFirst' /\ LoopInv'
  BY <1>1, <1>2 DEF BufferEmptyBefore, SubscribeInv, AuthorizeInv, SubscribedFirst, LoopInv
<1>9. ResponseInv'
  <2>1. consumed' - Len(response') = consumed
    BY <1>1, <1>3, <1>5
  <2>2. QueueIs(<<>>, written, consumed, initial')
    BY <1>2, <1>3, QueueAtStart
  <2>3. 2 <= consumed /\ consumed % 3 # 1
    BY <1>2
  <2>4. QED
    BY <1>1, <1>2, <1>5, <2>1, <2>2, <2>3 DEF ResponseInv
<1>10. QED
  BY <1>6, <1>7, <1>8, <1>9 DEF LinesInv

(* A line is a message exactly when it is the text of one.                    *)
LEMMA TextIsMessage ==
  ASSUME NEW k \in DOMAIN written
  PROVE  IsMessage(Text(written[k])) /\ ParsedLine(Text(written[k])) = written[k]
         /\ ~Skipped(Text(written[k]))
<1>1. Text(written[k]) # <<>> /\ Text(written[k])[1][1] = written[k]
  BY DEF Text, Byte
<1>2. QED
  BY <1>1 DEF IsMessage, ParsedLine, Skipped

LEMMA ShortIsNoMessage ==
  ASSUME NEW line, Len(line) = 1  PROVE ~IsMessage(line) /\ ~Skipped(line)
<1>1. Len(<<>>) = 0 /\ \A k : Len(Text(written[k])) = 2
  BY DEF Text
<1>2. QED
  BY <1>1 DEF IsMessage, Skipped

LEMMA EmptyIsNoMessage == ~IsMessage(<<>>)
<1>1. Len(<<>>) = 0 /\ \A k : Len(Text(written[k])) = 2
  BY DEF Text
<1>2. QED
  BY <1>1 DEF IsMessage

(* What an iteration over the response can meet: the newline of a text read   *)
(* before, a message (the last one perhaps without newline), or half a text.  *)
ResponseStep(p, p2) ==
    /\ p2 = consumed - Len(response')
    /\ LastOf(written, consumed, response') /\ response' \in Seq(Bytes)
    /\ \/ p % 3 = 2 /\ p2 = p + 1 /\ phase' = phase /\ messages' = messages
       \/ /\ p % 3 = 0 /\ p2 \in {p + 2, p + 3} /\ p2 <= consumed
          /\ (p \div 3) + 1 \in 1..Len(written)
          /\ HandleResponse(written[(p \div 3) + 1])

LEMMA ResponseSteps ==
  ASSUME LinesInv, ParseResponse, NEW p, p = consumed - Len(response)
  PROVE  \/ ResponseStep(p, consumed - Len(response'))
         \/ /\ phase' = "terminated" /\ messages' = messages
            /\ response' \in Seq(Bytes) /\ consumed % 3 = 1
<1> DEFINE line == FirstLine(response)  n == (p \div 3) + 1
<1>1. /\ phase = "response" /\ response # <<>> /\ response' = Rest(response)
      /\ \/ Skipped(line) /\ phase' = phase /\ messages' = messages
         \/ ~Skipped(line) /\ ~IsMessage(line) /\ phase' = "terminated" /\ messages' = messages
         \/ ~Skipped(line) /\ IsMessage(line) /\ HandleResponse(ParsedLine(line))
  BY DEF ParseResponse
<1>2. /\ written \in Seq(Messages) /\ consumed \in Nat /\ response \in Seq(Bytes)
      /\ consumed <= 3 * Len(written) /\ LastOf(written, consumed, response)
      /\ 2 <= p /\ p % 3 # 1
  BY <1>1 DEF LinesInv, LinesTypeOK, ResponseInv
<1>3. Len(response) \in Nat \ {0} /\ Len(written) \in Nat
  BY <1>1, <1>2
<1>4. p \in Nat /\ p < consumed
  BY <1>2, <1>3, SMT DEF LastOf
<1>5. n \in 1..Len(written) /\ n \in DOMAIN written
  <2>1. n \in 1..Len(written)
    BY <1>2, <1>3, <1>4, SMT
  <2>2. QED
    BY <1>2, <2>1
<1>6. CASE p % 3 = 2
  <2>1. line = <<>> /\ Len(response') = Len(response) - 1 /\ response' \in Seq(Bytes)
        /\ LastOf(written, consumed, response')
    BY <1>1, <1>2, <1>6, CutNewline, Zenon
  <2>2. Skipped(line)
    BY <2>1 DEF Skipped
  <2>3. consumed - Len(response') = p + 1
    BY <1>2, <1>3, <2>1
  <2>4. QED
    BY <1>1, <1>6, <2>1, <2>2, <2>3, Zenon DEF ResponseStep
<1>7. CASE p % 3 = 0 /\ 3 <= Len(response)
  <2>1. line = Text(written[n]) /\ Len(response') = Len(response) - 3 /\ response' \in Seq(Bytes)
        /\ LastOf(written, consumed, response')
    BY <1>1, <1>2, <1>7, CutLine, Zenon
  <2>2. ~Skipped(line) /\ IsMessage(line) /\ ParsedLine(line) = written[n]
    BY <1>5, <2>1, TextIsMessage, Zenon
  <2>3. consumed - Len(response') = p + 3 /\ p + 3 <= consumed
    BY <1>2, <1>3, <1>7, <2>1
  <2>4. QED
    BY <1>1, <1>5, <1>7, <2>1, <2>2, <2>3, Zenon DEF ResponseStep
<1>8. CASE p % 3 = 0 /\ Len(response) = 2
  <2>1. line = Text(written[n]) /\ response' = <<>>
    BY <1>1, <1>2, <1>8, CutLastLine, Zenon
  <2>2. ~Skipped(line) /\ IsMessage(line) /\ ParsedLine(line) = written[n]
    BY <1>5, <2>1, TextIsMessage, Zenon
  <2>3. /\ consumed - Len(response') = p + 2 /\ p + 2 <= consumed
        /\ LastOf(written, consumed, response') /\ response' \in Seq(Bytes)
    BY <1>2, <1>3, <1>8, <2>1 DEF LastOf
  <2>4. QED
    BY <1>1, <1>5, <1>8, <2>2, <2>3, Zenon DEF ResponseStep
<1>9. CASE p % 3 = 0 /\ Len(response) = 1
  <2>1. Len(line) = 1 /\ response' = <<>>
    BY <1>1, <1>2, <1>9, CutHalf, Zenon
  <2>2. ~Skipped(line) /\ ~IsMessage(line)
    BY <2>1, ShortIsNoMessage, Zenon
  <2>3. consumed % 3 = 1
    BY <1>2, <1>4, <1>9, SMT
  <2>4. response' \in Seq(Bytes)
    BY <2>1
  <2>5. QED
    BY <1>1, <2>2, <2>3, <2>4, Zenon
<1>10. p % 3 = 0 \/ p % 3 = 2
  BY <1>2, <1>4, SMT
<1>11. Len(response) = 1 \/ Len(response) = 2 \/ 3 <= Len(response)
  <2>1. \A l \in Nat \ {0} : l = 1 \/ l = 2 \/ 3 <= l
    BY SMT
  <2>2. QED
    BY <1>3, <2>1, Zenon
<1>12. QED
  BY <1>6, <1>7, <1>8, <1>9, <1>10, <1>11, Zenon

LEMMA ParseResponseInv ==
  ASSUME LinesInv, ParseResponse  PROVE LinesInv'
<1> DEFINE p == consumed - Len(response)  n == (p \div 3) + 1
           p2 == consumed - Len(response')
<1>1. /\ phase = "response" /\ written' = written /\ consumed' = consumed
      /\ initial' = initial /\ networkBuffer' = networkBuffer
  BY DEF ParseResponse
<1>2. /\ LinesTypeOK /\ networkBuffer = <<>> /\ initial = consumed
      /\ 2 <= p /\ p % 3 # 1 /\ QueueIs(messages, written, p, initial)
      /\ 1 <= Len(written) /\ written[1][1] = "subscribed"
      /\ \A k \in 1..Len(written) : written[k][2] = k - 1
  BY <1>1 DEF LinesInv, BufferEmptyBefore, ResponseInv, SubscribedFirst, WrittenInOrder
<1>3. /\ written \in Seq(Messages) /\ consumed \in Nat /\ initial \in Nat
      /\ response \in Seq(Bytes) /\ messages \in Seq(Messages)
  BY <1>2 DEF LinesTypeOK
<1>4. p \in Nat
  BY <1>2, <1>3
<1>5. \/ ResponseStep(p, p2)
      \/ /\ phase' = "terminated" /\ messages' = messages
         /\ response' \in Seq(Bytes) /\ consumed % 3 = 1
  BY ResponseSteps, Zenon
<1> HIDE DEF p, p2
<1>6. \/ /\ phase' \in {"closed", "terminated"} /\ messages' \in Seq(Messages)
         /\ response' \in Seq(Bytes)
      \/ /\ phase' = "response" /\ messages' \in Seq(Messages)
         /\ response' \in Seq(Bytes) /\ LastOf(written, consumed, response')
         /\ 2 <= p2 /\ p2 % 3 # 1
         /\ QueueIs(messages', written, p2, initial)
  <2>1. CASE phase' = "terminated" /\ messages' = messages /\ response' \in Seq(Bytes)
    BY <1>3, <2>1, Zenon
  <2>2. CASE ResponseStep(p, p2)
    <3>1. LastOf(written, consumed, response') /\ response' \in Seq(Bytes)
      BY <2>2 DEF ResponseStep
    <3>2. CASE p % 3 = 2 /\ p2 = p + 1 /\ phase' = phase /\ messages' = messages
      <4>1. QueueIs(messages, written, p2, initial)
        BY <1>2, <1>3, <1>4, <3>2, QueueAfterNewline
      <4>2. 2 <= p2 /\ p2 % 3 # 1
        <5>1. 2 <= p /\ p % 3 = 2 /\ p2 = p + 1
          BY <1>2, <3>2, Zenon
        <5>2. QED
          BY <1>4, <5>1, SMT
      <4>3. QED
        BY <1>1, <1>3, <3>1, <3>2, <4>1, <4>2, Zenon
    <3>3. CASE /\ p % 3 = 0 /\ p2 \in {p + 2, p + 3} /\ p2 <= consumed
               /\ n \in 1..Len(written) /\ HandleResponse(written[n])
      <4>1. 2 <= p2 /\ p2 % 3 # 1 /\ 3 * n - 1 <= initial
        <5>1. /\ 2 <= p /\ p % 3 = 0 /\ (p2 = p + 2 \/ p2 = p + 3) /\ p2 <= consumed
              /\ initial = consumed /\ consumed \in Nat
          BY <1>2, <1>3, <3>3, Zenon
        <5>2. QED
          BY <1>4, <5>1, SMT
      <4>2. written[n] \in Messages /\ written[n][1] \in Kinds
        BY <1>3, <3>3 DEF Messages
      <4>3. phase' = (IF written[n][1] = "refused" THEN "closed" ELSE "response")
            /\ messages' = IF written[n][1] = "notify" THEN Append(messages, written[n]) ELSE messages
        BY <1>1, <3>3 DEF HandleResponse
      <4>4. messages' \in Seq(Messages)
        BY <1>3, <4>2, <4>3
      <4>5. CASE written[n][1] = "refused"
        BY <3>1, <4>3, <4>4, <4>5
      <4>6. CASE written[n][1] = "notify"
        <5>1. QueueIs(Append(messages, written[n]), written, p2, initial)
          BY <1>2, <1>3, <1>4, <3>3, <4>6, QueueAfterPush
        <5>2. QED
          BY <3>1, <4>1, <4>3, <4>4, <4>6, <5>1
      <4>7. CASE written[n][1] \in {"subscribed", "authorized"}
        <5>1. QueueIs(messages, written, p2, initial)
          BY <1>2, <1>3, <1>4, <3>3, <4>1, <4>7, QueueAfterAnswer
        <5>2. QED
          BY <3>1, <4>1, <4>3, <4>4, <4>7, <5>1
      <4>8. QED
        BY <4>2, <4>5, <4>6, <4>7 DEF Kinds
    <3>4. QED
      BY <2>2, <3>2, <3>3 DEF ResponseStep
  <2>3. QED
    BY <1>5, <2>1, <2>2
<1>7. LinesTypeOK'
  BY <1>1, <1>2, <1>6 DEF LinesTypeOK
<1>8. WrittenInOrder'
  BY <1>1 DEF LinesInv, WrittenInOrder
<1>9. BufferEmptyBefore' /\ SubscribeInv' /\ AuthorizeInv' /\ SubscribedFirst' /\ LoopInv'
  BY <1>1, <1>2, <1>6 DEF BufferEmptyBefore, SubscribeInv, AuthorizeInv, SubscribedFirst, LoopInv
<1>10. ResponseInv'
  BY <1>1, <1>2, <1>6 DEF ResponseInv, p2
<1>11. QED
  BY <1>7, <1>8, <1>9, <1>10 DEF LinesInv

LEMMA EndOfResponseInv ==
  ASSUME LinesInv, EndOfResponse  PROVE LinesInv'
<1>1. /\ phase = "response" /\ response = <<>> /\ phase' = "loop"
      /\ written' = written /\ consumed' = consumed /\ initial' = initial
      /\ response' = response /\ networkBuffer' = networkBuffer /\ messages' = messages
  BY DEF EndOfResponse
<1>2. LinesTypeOK /\ WrittenInOrder /\ networkBuffer = response
  BY <1>1 DEF LinesInv, BufferEmptyBefore
<1>3. LinesTypeOK' /\ WrittenInOrder'
  BY <1>1, <1>2 DEF LinesTypeOK, WrittenInOrder
<1>4. BufferEmptyBefore' /\ SubscribeInv' /\ AuthorizeInv' /\ ResponseInv'
  BY <1>1 DEF BufferEmptyBefore, SubscribeInv, AuthorizeInv, ResponseInv
<1>5. SubscribedFirst'
  BY <1>1 DEF LinesInv, SubscribedFirst
<1>6. LoopInv'
  <2>1. consumed - Len(response) = consumed
    BY <1>1, <1>2 DEF LinesTypeOK
  <2>2. /\ initial = consumed /\ LastOf(written, consumed, response)
        /\ 2 <= consumed /\ consumed % 3 # 1
        /\ QueueIs(messages, written, consumed, initial)
    BY <1>1, <2>1 DEF LinesInv, ResponseInv
  <2>3. consumed <= consumed
    BY <1>2 DEF LinesTypeOK
  <2>4. QED
    BY <1>1, <1>2, <2>1, <2>2, <2>3, Zenon DEF LoopInv
<1>7. QED
  BY <1>3, <1>4, <1>5, <1>6 DEF LinesInv

LEMMA ReceiveLinesInv ==
  ASSUME LinesInv, NEW n \in 1..UnreadBytes, ReceiveLines(n)  PROVE LinesInv'
<1> DEFINE p == consumed - Len(networkBuffer)
<1>1. /\ phase = "loop" /\ networkBuffer' = networkBuffer \o Incoming(n)
      /\ consumed' = consumed + n /\ phase' = phase /\ written' = written
      /\ initial' = initial /\ response' = response /\ messages' = messages
  BY DEF ReceiveLines
<1>2. /\ LinesTypeOK /\ WrittenInOrder /\ SubscribedFirst
      /\ LastOf(written, consumed, networkBuffer) /\ 2 <= initial /\ initial <= p
      /\ p % 3 # 1 /\ (p % 3 = 2 => p = initial)
      /\ QueueIs(messages, written, p, initial)
  BY <1>1 DEF LinesInv, LoopInv
<1>3. /\ written \in Seq(Messages) /\ consumed \in Nat /\ networkBuffer \in Seq(Bytes)
      /\ LastOf(written, consumed, networkBuffer) /\ n \in Nat /\ consumed + n <= 3 * Len(written)
  <2>1. written \in Seq(Messages) /\ consumed \in Nat /\ networkBuffer \in Seq(Bytes)
        /\ Len(written) \in Nat
    BY <1>2 DEF LinesTypeOK
  <2>2. n \in Nat /\ consumed + n <= 3 * Len(written)
    BY <2>1, SMT DEF UnreadBytes
  <2>3. QED
    BY <1>2, <2>1, <2>2
<1>4. Incoming(n) = NextOf(written, consumed, n)
  BY DEF Incoming, StreamByte, ByteOf, NextOf
<1>5. /\ networkBuffer' \in Seq(Bytes) /\ Len(networkBuffer') = Len(networkBuffer) + n
      /\ LastOf(written, consumed', networkBuffer')
  <2>1. PICK a : a = NextOf(written, consumed, n)
    OBVIOUS
  <2>2. /\ networkBuffer \o a \in Seq(Bytes) /\ Len(networkBuffer \o a) = Len(networkBuffer) + n
        /\ LastOf(written, consumed + n, networkBuffer \o a)
    <3>1. ReadAppended(written, consumed, networkBuffer, n, a)
      BY <1>3, <2>1, LastOfRead
    <3>2. QED
      BY <3>1, Zenon DEF ReadAppended
  <2>3. QED
    BY <1>1, <1>4, <2>1, <2>2, Zenon
<1>6. consumed' - Len(networkBuffer') = p
  BY <1>1, <1>3, <1>5
<1>7. LinesTypeOK'
  BY <1>1, <1>2, <1>3, <1>5 DEF LinesTypeOK
<1>8. WrittenInOrder' /\ SubscribedFirst'
  BY <1>1, <1>2 DEF WrittenInOrder, SubscribedFirst
<1>9. BufferEmptyBefore' /\ SubscribeInv' /\ AuthorizeInv' /\ ResponseInv'
  BY <1>1 DEF BufferEmptyBefore, SubscribeInv, AuthorizeInv, ResponseInv
<1>10. LoopInv'
  <2> HIDE DEF p
  <2>1. QED
    BY <1>1, <1>2, <1>5, <1>6, Zenon DEF LoopInv
<1>11. QED
  BY <1>7, <1>8, <1>9, <1>10 DEF LinesInv

(* An iteration over the buffer meets the newline of a text read before, or a *)
(* whole line; without a newline at most the text of one line is left.        *)
LEMMA QueueSteps ==
  ASSUME LinesInv, phase = "loop", HasNewline(networkBuffer),
         NEW p, p = consumed - Len(networkBuffer)
  PROVE  /\ Rest(networkBuffer) \in Seq(Bytes)
         /\ LastOf(written, consumed, Rest(networkBuffer))
         /\ \/ /\ p % 3 = 2 /\ FirstLine(networkBuffer) = <<>>
               /\ consumed - Len(Rest(networkBuffer)) = p + 1
            \/ /\ p % 3 = 0 /\ (p \div 3) + 1 \in 1..Len(written)
               /\ FirstLine(networkBuffer) = Text(written[(p \div 3) + 1])
               /\ consumed - Len(Rest(networkBuffer)) = p + 3
<1> DEFINE b == networkBuffer
<1>1. /\ written \in Seq(Messages) /\ consumed \in Nat /\ b \in Seq(Bytes)
      /\ consumed <= 3 * Len(written) /\ LastOf(written, consumed, b)
      /\ 2 <= initial /\ initial <= p /\ initial \in Nat /\ p % 3 # 1
  BY DEF LinesInv, LinesTypeOK, LoopInv
<1>2. Len(b) \in Nat \ {0} /\ Len(written) \in Nat /\ b # <<>>
  <2>1. DOMAIN b = 1..Len(b) /\ Len(b) \in Nat /\ Len(written) \in Nat
    BY <1>1
  <2>2. \E k \in 1..Len(b) : TRUE
    BY <2>1 DEF HasNewline
  <2>3. QED
    BY <2>1, <2>2
<1>3. p \in Nat /\ p < consumed
  BY <1>1, <1>2, SMT
<1>4. CASE p % 3 = 2
  <2>1. /\ FirstLine(b) = <<>> /\ Rest(b) \in Seq(Bytes) /\ Len(Rest(b)) = Len(b) - 1
        /\ LastOf(written, consumed, Rest(b))
    BY <1>1, <1>2, <1>4, CutNewline, Zenon
  <2>2. consumed - Len(Rest(b)) = p + 1
    BY <1>1, <1>2, <2>1
  <2>3. QED
    BY <1>4, <2>1, <2>2
<1>5. CASE p % 3 = 0 /\ 3 <= Len(b)
  <2>1. /\ FirstLine(b) = Text(written[(p \div 3) + 1])
        /\ Rest(b) \in Seq(Bytes) /\ Len(Rest(b)) = Len(b) - 3
        /\ LastOf(written, consumed, Rest(b))
    BY <1>1, <1>5, CutLine, Zenon
  <2>2. consumed - Len(Rest(b)) = p + 3
    BY <1>1, <1>2, <2>1
  <2>3. (p \div 3) + 1 \in 1..Len(written)
    BY <1>1, <1>2, <1>3, <1>5, SMT
  <2>4. QED
    BY <1>5, <2>1, <2>2, <2>3
<1>6. CASE p % 3 = 0 /\ Len(b) = 2
  BY <1>1, <1>6, CutLastLine, Zenon
<1>7. CASE p % 3 = 0 /\ Len(b) = 1
  BY <1>1, <1>7, CutHalf, Zenon
<1>8. p % 3 = 0 \/ p % 3 = 2
  BY <1>1, <1>3, SMT
<1>9. Len(b) = 1 \/ Len(b) = 2 \/ 3 <= Len(b)
  <2>1. \A l \in Nat \ {0} : l = 1 \/ l = 2 \/ 3 <= l
    BY SMT
  <2>2. QED
    BY <1>2, <2>1, Zenon
<1>10. QED
  BY <1>4, <1>5, <1>6, <1>7, <1>8, <1>9, Zenon

LEMMA QueueLineInv ==
  ASSUME LinesInv, QueueLine  PROVE LinesInv'
<1> DEFINE p == consumed - Len(networkBuffer)  n == (p \div 3) + 1
           line == FirstLine(networkBuffer)  p2 == consumed - Len(networkBuffer')
<1>1. /\ phase = "loop" /\ HasNewline(networkBuffer) /\ networkBuffer' = Rest(networkBuffer)
      /\ messages' = IF IsMessage(line) THEN Append(messages, ParsedLine(line)) ELSE messages
      /\ consumed' = consumed /\ phase' = phase /\ written' = written
      /\ initial' = initial /\ response' = response
  BY DEF QueueLine
<1>2. /\ LinesTypeOK /\ WrittenInOrder /\ SubscribedFirst
      /\ LastOf(written, consumed, networkBuffer) /\ 2 <= initial /\ initial <= p
      /\ p % 3 # 1 /\ (p % 3 = 2 => p = initial)
      /\ QueueIs(messages, written, p, initial)
  BY <1>1 DEF LinesInv, LoopInv
<1>3. /\ written \in Seq(Messages) /\ consumed \in Nat /\ networkBuffer \in Seq(Bytes)
      /\ initial \in Nat /\ messages \in Seq(Messages)
      /\ \A k \in 1..Len(written) : written[k][2] = k - 1
      /\ 1 <= Len(written) /\ written[1][1] = "subscribed"
  BY <1>1, <1>2 DEF LinesTypeOK, WrittenInOrder, SubscribedFirst
<1>4. p \in Nat
  BY <1>2, <1>3
<1>5. /\ networkBuffer' \in Seq(Bytes) /\ LastOf(written, consumed, networkBuffer')
      /\ \/ p % 3 = 2 /\ line = <<>> /\ p2 = p + 1
         \/ p % 3 = 0 /\ n \in 1..Len(written) /\ line = Text(written[n]) /\ p2 = p + 3
  BY <1>1, QueueSteps, Zenon
<1> HIDE DEF p, p2
<1>6. /\ messages' \in Seq(Messages) /\ initial <= p2 /\ p2 % 3 = 0
      /\ QueueIs(messages', written, p2, initial)
  <2>1. CASE p % 3 = 2 /\ line = <<>> /\ p2 = p + 1
    <3>1. ~IsMessage(line)
      BY <2>1, EmptyIsNoMessage, Zenon
    <3>2. messages' = messages
      BY <1>1, <3>1, Zenon
    <3>3. initial <= p2 /\ p2 % 3 = 0
      <4>1. initial <= p /\ p % 3 = 2 /\ p2 = p + 1
        BY <1>2, <2>1, Zenon
      <4>2. QED
        BY <1>3, <1>4, <4>1, SMT
    <3>4. QueueIs(messages, written, p2, initial)
      BY <1>2, <1>3, <1>4, <2>1, QueueAfterNewline
    <3>5. QED
      BY <1>3, <3>2, <3>3, <3>4
  <2>2. CASE p % 3 = 0 /\ n \in 1..Len(written) /\ line = Text(written[n]) /\ p2 = p + 3
    <3>1. n \in DOMAIN written /\ written[n] \in Messages
      BY <1>3, <2>2
    <3>2. messages' = Append(messages, written[n])
      BY <1>1, <2>2, <3>1, TextIsMessage, Zenon
    <3>3. /\ initial <= p2 /\ p2 % 3 = 0 /\ ~(3 * n - 1 <= initial) /\ n # 1
      <4>1. initial <= p /\ 2 <= initial /\ p % 3 = 0 /\ p2 = p + 3
        BY <1>2, <2>2, Zenon
      <4>2. QED
        BY <1>3, <1>4, <4>1, SMT
    <3>4. written[n][1] # "subscribed"
      <4>1. 1 \in 1..Len(written)
        BY <1>3
      <4>2. QED
        BY <1>2, <1>3, <2>2, <3>3, <4>1 DEF WrittenInOrder
    <3>5. QueueIs(Append(messages, written[n]), written, p2, initial)
      <4>1. p2 \in {p + 2, p + 3} /\ n = (p \div 3) + 1
        BY <2>2
      <4> HIDE DEF n
      <4>2. QED
        BY <1>2, <1>3, <1>4, <2>2, <3>3, <3>4, <4>1, QueueAfterPush
    <3>6. messages' \in Seq(Messages)
      BY <1>3, <3>1, <3>2
    <3>7. QED
      BY <3>2, <3>3, <3>5, <3>6
  <2>3. QED
    BY <1>5, <2>1, <2>2
<1>7. LinesTypeOK'
  BY <1>1, <1>2, <1>5, <1>6 DEF LinesTypeOK
<1>8. WrittenInOrder' /\ SubscribedFirst'
  BY <1>1, <1>2 DEF WrittenInOrder, SubscribedFirst
<1>9. BufferEmptyBefore' /\ SubscribeInv' /\ AuthorizeInv' /\ ResponseInv'
  BY <1>1 DEF BufferEmptyBefore, SubscribeInv, AuthorizeInv, ResponseInv
<1>10. LoopInv'
  <2>1. p2 % 3 # 1 /\ ~(p2 % 3 = 2)
    BY <1>6
  <2>2. p2 = consumed' - Len(networkBuffer')
    BY <1>1 DEF p2
  <2>3. QED
    BY <1>1, <1>2, <1>5, <1>6, <2>1, <2>2, Zenon DEF LoopInv
<1>11. QED
  BY <1>7, <1>8, <1>9, <1>10 DEF LinesInv

LEMMA ConnectionLostInv ==
  ASSUME LinesInv, ConnectionLost  PROVE LinesInv'
<1>1. /\ phase' = "closed" /\ networkBuffer' = <<>>
      /\ written' = written /\ consumed' = consumed /\ initial' = initial
      /\ response' = response /\ messages' = messages
  BY DEF ConnectionLost, BufferAfterLoss, LinesInv, BufferEmptyBefore
<1>2. LinesTypeOK' /\ WrittenInOrder'
  BY <1>1 DEF LinesInv, LinesTypeOK, WrittenInOrder
<1>3. /\ BufferEmptyBefore' /\ SubscribeInv' /\ AuthorizeInv' /\ SubscribedFirst'
      /\ ResponseInv' /\ LoopInv'
  BY <1>1 DEF BufferEmptyBefore, SubscribeInv, AuthorizeInv, SubscribedFirst, ResponseInv, LoopInv
<1>4. QED
  BY <1>2, <1>3 DEF LinesInv

LEMMA LinesStutterInv ==
  ASSUME LinesInv, UNCHANGED lineVars  PROVE LinesInv'
BY DEF lineVars, LinesInv, LinesTypeOK, WrittenInOrder, BufferEmptyBefore, SubscribeInv,
       AuthorizeInv, SubscribedFirst, ResponseInv, LoopInv

LEMMA LinesNextInv ==
  ASSUME LinesInv, [LinesNext]_lineVars  PROVE LinesInv'
<1>1. CASE OpenPool
  BY <1>1, OpenPoolInv
<1>2. ASSUME NEW kind \in Kinds, PoolWrites(kind)  PROVE LinesInv'
  BY <1>2, PoolWritesInv
<1>3. ASSUME NEW n \in 1..UnreadBytes, ReadSubscribed(n)  PROVE LinesInv'
  BY <1>3, ReadSubscribedInv
<1>4. ASSUME NEW n \in 1..UnreadBytes, ReadAuthorized(n)  PROVE LinesInv'
  BY <1>4, ReadAuthorizedInv
<1>5. ASSUME NEW n \in 1..UnreadBytes, ReceiveLines(n)  PROVE LinesInv'
  BY <1>5, ReceiveLinesInv
<1>6. CASE ParseResponse
  BY <1>6, ParseResponseInv
<1>7. CASE EndOfResponse
  BY <1>7, EndOfResponseInv
<1>8. CASE QueueLine
  BY <1>8, QueueLineInv
<1>9. CASE ConnectionLost
  BY <1>9, ConnectionLostInv
<1>10. CASE UNCHANGED lineVars
  BY <1>10, LinesStutterInv
<1>11. QED
  BY <1>1, <1>2, <1>3, <1>4, <1>5, <1>6, <1>7, <1>8, <1>9, <1>10, Zenon DEF LinesNext

LEMMA LinesInvariant == LinesSpec => []LinesInv
<1>1. LinesInit => LinesInv
  BY LinesInitInv
<1>2. LinesInv /\ [LinesNext]_lineVars => LinesInv'
  BY LinesNextInv
<1>3. QED
  BY <1>1, <1>2, PTL DEF LinesSpec

-----------------------------------------------------------------------------
(* Without a newline in the buffer, the lines read are the lines handled.     *)
LEMMA ReadIsHandled ==
  ASSUME LinesInv, phase = "loop", ~HasNewline(networkBuffer),
         NEW p, p = consumed - Len(networkBuffer)
  PROVE  Delivered = Handled(written, p, initial)
<1> DEFINE b == networkBuffer
<1>1. /\ written \in Seq(Messages) /\ consumed \in Nat /\ b \in Seq(Bytes)
      /\ LastOf(written, consumed, b) /\ initial \in Nat
      /\ 2 <= initial /\ initial <= p /\ p % 3 # 1 /\ (p % 3 = 2 => p = initial)
  BY DEF LinesInv, LinesTypeOK, LoopInv
<1>2. Len(b) \in Nat /\ DOMAIN written = 1..Len(written) /\ p \in Nat /\ consumed = p + Len(b)
  BY <1>1
<1>3. p % 3 = 2 => Len(b) = 0
  <2>1. p % 3 = 2 => b = <<>>
    BY <1>1, CutNewline, Zenon
  <2>2. QED
    BY <2>1
<1>4. p % 3 = 0 => Len(b) <= 2
  <2>1. p % 3 = 0 => ~(3 <= Len(b))
    BY <1>1, CutLine, Zenon
  <2>2. QED
    BY <1>2, <2>1, SMT
<1>5. ASSUME NEW k \in 1..Len(written)
      PROVE  (3 * k <= consumed \/ 3 * k - 1 <= initial) <=> 3 * k - 1 <= p
  <2>1. PICK l \in Nat : l = Len(b)
    BY <1>2
  <2>2. CASE p % 3 = 2
    <3>1. consumed = p /\ p = initial
      BY <1>1, <1>2, <1>3, <2>2
    <3>2. QED
      BY <1>2, <3>1, SMT
  <2>3. CASE p % 3 = 0
    <3>1. consumed = p + l /\ l <= 2 /\ initial <= p
      BY <1>1, <1>2, <1>4, <2>1, <2>3
    <3>2. QED
      BY <1>1, <1>2, <2>1, <2>3, <3>1, SMT
  <2>4. p % 3 = 0 \/ p % 3 = 2
    <3>1. p % 3 # 1
      BY <1>1
    <3>2. QED
      BY <1>2, <3>1, SMT
  <2>5. QED
    BY <2>2, <2>3, <2>4
<1>6. QED
  BY <1>2, <1>5, Zenon DEF Delivered, LineRead, TakenForItself, Handled

(***************************************************************************)
(* However the stream is cut into reads and whatever the pool interleaves    *)
(* with its answers, stratumReceiveLoop waits for its next read only after   *)
(* initStratumProtocol and it have queued every message whose line was read, *)
(* once and in order: for any number of messages and any size of a read.     *)
(***************************************************************************)
THEOREM QueuedAsSent == LinesSpec => []MessagesAsSent
<1>1. LinesInv => MessagesAsSent
  <2>1. SUFFICES ASSUME LinesInv, phase = "loop", ~HasNewline(networkBuffer)
                 PROVE  /\ {messages[i] : i \in DOMAIN messages} = {written[k] : k \in Delivered}
                        /\ \A i, j \in DOMAIN messages : i < j => messages[i][2] < messages[j][2]
    BY DEF MessagesAsSent
  <2>2. PICK p : p = consumed - Len(networkBuffer)
    OBVIOUS
  <2>3. QueueIs(messages, written, p, initial)
    BY <2>1, <2>2 DEF LinesInv, LoopInv
  <2>4. DOMAIN messages = 1..Len(messages)
    BY <2>1 DEF LinesInv, LinesTypeOK
  <2>5. Delivered = Handled(written, p, initial)
    BY <2>1, <2>2, ReadIsHandled, Zenon
  <2>6. QED
    BY <2>3, <2>4, <2>5, Zenon DEF QueueIs
<1>2. QED
  BY <1>1, LinesInvariant, PTL

(***************************************************************************)
(* initStratumProtocol throws only when one of its two reads stops inside a  *)
(* message, or when the first read holds more than the answer to             *)
(* mining.subscribe.                                                         *)
(***************************************************************************)
THEOREM EndsOnlyOnSplitAnswers == LinesSpec => SurvivesWholeAnswers
<1> DEFINE Allowed == phase' = "terminated" =>
                        consumed' % 3 = 1 \/ (phase = "subscribe" /\ consumed' > 3)
<1>1. LinesInv /\ [LinesNext]_lineVars => [Allowed]_lineVars
  <2>1. SUFFICES ASSUME LinesInv, LinesNext, phase' = "terminated"
                 PROVE  consumed' % 3 = 1 \/ (phase = "subscribe" /\ consumed' > 3)
    OBVIOUS
  <2>2. ASSUME NEW n \in 1..UnreadBytes, ReadSubscribed(n)
        PROVE  consumed' % 3 = 1 \/ (phase = "subscribe" /\ consumed' > 3)
    <3>1. phase = "subscribe" /\ SubscribedPhase(Incoming(n)) = "terminated"
          /\ consumed' = consumed + n
      BY <2>1, <2>2 DEF ReadSubscribed, Consume
    <3>2. consumed = 0
      BY <2>1, <3>1 DEF LinesInv, SubscribeInv
    <3>3. n \notin {2, 3}
      BY <2>1, <3>1, SubscribedRead, Zenon
    <3>4. n \in Nat /\ n # 0
      BY <2>1 DEF UnreadBytes, LinesInv, LinesTypeOK
    <3>5. QED
      BY <3>1, <3>2, <3>3, <3>4
  <2>3. CASE ParseResponse
    <3>1. PICK p : p = consumed - Len(response)
      OBVIOUS
    <3>2. phase = "response" /\ consumed' = consumed
      BY <2>3 DEF ParseResponse
    <3>3. \/ ResponseStep(p, consumed - Len(response'))
          \/ consumed % 3 = 1
      BY <2>1, <2>3, <3>1, ResponseSteps, Zenon
    <3>4. ~ResponseStep(p, consumed - Len(response'))
      BY <2>1, <3>2 DEF ResponseStep, HandleResponse
    <3>5. QED
      BY <3>2, <3>3, <3>4
  <2>4. ASSUME NEW kind \in Kinds, PoolWrites(kind)  PROVE FALSE
    BY <2>1, <2>4 DEF PoolWrites
  <2>5. ASSUME NEW n \in 1..UnreadBytes, ReadAuthorized(n) \/ ReceiveLines(n)  PROVE FALSE
    BY <2>1, <2>5 DEF ReadAuthorized, ReceiveLines
  <2>6. ASSUME OpenPool \/ EndOfResponse \/ QueueLine \/ ConnectionLost  PROVE FALSE
    BY <2>1, <2>6 DEF OpenPool, EndOfResponse, QueueLine, ConnectionLost
  <2>7. QED
    BY <2>1, <2>2, <2>3, <2>4, <2>5, <2>6, Zenon DEF LinesNext
<1>2. QED
  BY <1>1, LinesInvariant, PTL DEF LinesSpec, SurvivesWholeAnswers

=============================================================================
