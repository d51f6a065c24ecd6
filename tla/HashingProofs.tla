----------------------------- MODULE HashingProofs -----------------------------
(***************************************************************************)
(* Both streaming hashes of HashStream implement HashSpec: for every size of *)
(* a block and of a counter, and every cut of a message into calls.  The     *)
(* targets of Difficulty are exact, for every size of a byte and a word, and *)
(* so are the identities and Merkle paths of KeyUtils, for every base, size  *)
(* of a key and number of leaves.                                            *)
(***************************************************************************)
EXTENDS HashStream, Difficulty, KeyUtils, InductionLemmas, SequenceTheorems, TLAPS

-----------------------------------------------------------------------------
(* Division with remainder.                                                   *)
LEMMA ProductAtLeast ==
  ASSUME NEW y \in Nat, NEW d \in Nat \ {0}  PROVE y * d \in Nat /\ y <= y * d
BY SMT

LEMMA DivMod ==
  ASSUME NEW x \in Nat, NEW y \in Nat \ {0}
  PROVE  /\ x \div y \in Nat /\ x % y \in Nat /\ x % y < y
         /\ x = y * (x \div y) + (x % y)
<1>1. x % y \in 0..(y - 1)
  BY SMT
<1>2. x = y * (x \div y) + (x % y)
  BY SMT
<1>3. x \div y \in Nat
  BY SMT
<1>4. QED
  BY <1>1, <1>2, <1>3, SMT

LEMMA DivModUnique ==
  ASSUME NEW x \in Nat, NEW y \in Nat \ {0}, NEW k \in Nat, NEW r \in Nat, r < y,
         x = y * k + r
  PROVE  x \div y = k /\ x % y = r
<1> DEFINE q == x \div y  s == x % y
<1>1. q \in Nat /\ s \in Nat /\ s < y /\ x = y * q + s
  BY DivMod
<1> HIDE DEF q, s
<1>2. CASE q = k
  BY <1>1, <1>2, SMT DEF q, s
<1>3. CASE q < k
  <2>1. PICK d \in Nat \ {0} : k = q + d
    <3>1. k - q \in Nat \ {0} /\ k = q + (k - q)
      BY <1>1, <1>3, SMT
    <3>2. QED
      BY <3>1
  <2>2. y * k = y * q + y * d /\ y * q \in Nat
    BY <1>1, <2>1, SMT
  <2>3. y * d \in Nat /\ y <= y * d
    BY ProductAtLeast
  <2>4. QED
    BY <1>1, <2>2, <2>3, SMT
<1>4. CASE k < q
  <2>1. PICK d \in Nat \ {0} : q = k + d
    <3>1. q - k \in Nat \ {0} /\ q = k + (q - k)
      BY <1>1, <1>4, SMT
    <3>2. QED
      BY <3>1
  <2>2. y * q = y * k + y * d /\ y * k \in Nat
    BY <1>1, <2>1, SMT
  <2>3. y * d \in Nat /\ y <= y * d
    BY ProductAtLeast
  <2>4. QED
    BY <1>1, <2>2, <2>3, SMT
<1>5. QED
  BY <1>1, <1>2, <1>3, <1>4, SMT

(* Multiples of the divisor fall away, ...                                    *)
LEMMA ModOfMultiple ==
  ASSUME NEW x \in Nat, NEW y \in Nat \ {0}, NEW k \in Nat
  PROVE  /\ (x + y * k) \in Nat /\ (x + y * k) % y = x % y
         /\ (x + y * k) \div y = (x \div y) + k
<1>1. x \div y \in Nat /\ x % y \in Nat /\ x % y < y /\ x = y * (x \div y) + (x % y)
  BY DivMod
<1>2. PICK q \in Nat, s \in Nat : q = x \div y /\ s = x % y
  BY <1>1
<1>3. x + y * k \in Nat /\ q + k \in Nat /\ x + y * k = y * (q + k) + s
  BY <1>1, <1>2, SMT
<1>4. (x + y * k) \div y = q + k /\ (x + y * k) % y = s
  <2>1. s < y
    BY <1>1, <1>2
  <2> DEFINE z == x + y * k
  <2>2. z \in Nat /\ z = y * (q + k) + s
    BY <1>3
  <2> HIDE DEF z
  <2>3. z \div y = q + k /\ z % y = s
    BY <1>3, <2>1, <2>2, DivModUnique
  <2>4. QED
    BY <2>3 DEF z
<1>5. QED
  BY <1>2, <1>3, <1>4

(* ... a remainder can be taken before an addition, ...                       *)
LEMMA ModOfSum ==
  ASSUME NEW a \in Nat, NEW b \in Nat, NEW y \in Nat \ {0}
  PROVE  ((a % y) + b) % y = (a + b) % y
<1>1. a \div y \in Nat /\ a % y \in Nat /\ a = y * (a \div y) + (a % y)
  BY DivMod
<1>2. PICK q \in Nat, s \in Nat : q = a \div y /\ s = a % y
  BY <1>1
<1>3. s + b \in Nat /\ (s + b) + y * q = a + b
  BY <1>1, <1>2, SMT
<1>4. ((s + b) + y * q) % y = (s + b) % y
  BY <1>3, ModOfMultiple
<1>5. QED
  BY <1>2, <1>3, <1>4

(* ... and a remainder by a multiple of the divisor keeps the remainder.      *)
ModsAgree(x, y, d, z) ==
    /\ x % z \in Nat /\ (x % z) % y = x % y
    /\ (x % z) \div y = (x \div y) % d

LEMMA ModOfMod ==
  ASSUME NEW x \in Nat, NEW y \in Nat \ {0}, NEW d \in Nat \ {0}, NEW z, z = y * d
  PROVE  ModsAgree(x, y, d, z)
<1>1. z \in Nat \ {0}
  BY SMT
<1>2. x \div z \in Nat /\ x % z \in Nat /\ x % z < z /\ x = z * (x \div z) + (x % z)
  BY <1>1, DivMod
<1>3. PICK q \in Nat, s \in Nat : q = x \div z /\ s = x % z
  BY <1>2
<1>4. s < z /\ x = z * q + s
  BY <1>2, <1>3
<1>5. d * q \in Nat /\ x = s + y * (d * q)
  <2>1. z * q = y * (d * q)
    BY SMT
  <2>2. QED
    BY <1>4, <2>1, SMT
<1>6. x % y = s % y /\ x \div y = (s \div y) + d * q
  BY <1>5, ModOfMultiple, ZenonT(60)
<1>7. s \div y \in Nat /\ s \div y < d
  <2>1. PICK t \in Nat, u \in Nat : t = s \div y /\ u = s % y /\ s = y * t + u
    <3>1. s \div y \in Nat /\ s % y \in Nat /\ s = y * (s \div y) + (s % y)
      BY DivMod
    <3>2. QED
      BY <3>1
  <2>2. CASE d <= t
    <3>1. PICK e \in Nat : t = d + e
      <4>1. t - d \in Nat /\ t = d + (t - d)
        BY <2>1, <2>2, SMT
      <4>2. QED
        BY <4>1
    <3>2. y * t = y * d + y * e /\ y * e \in Nat /\ y * d \in Nat
      BY <3>1, SMT
    <3>3. QED
      BY <1>4, <2>1, <3>2, SMT
  <2>3. QED
    BY <2>1, <2>2, SMT
<1>8. ((s \div y) + d * q) % d = (s \div y) % d
  BY <1>5, <1>7, ModOfMultiple, ZenonT(60)
<1>9. (s \div y) % d = s \div y
  <2>1. PICK t \in Nat : t = s \div y
    BY <1>7
  <2>2. t < d /\ t = d * 0 + t
    BY <1>7, <2>1, SMT
  <2>3. t % d = t
    BY <2>2, DivModUnique
  <2>4. QED
    BY <2>1, <2>3
<1>10. QED
  BY <1>1, <1>2, <1>3, <1>6, <1>8, <1>9 DEF ModsAgree

-----------------------------------------------------------------------------
(* The counters.                                                              *)
LEMMA CountIsBlocks ==
  /\ BlockBytes \in Nat \ {0} /\ 2 < BlockBytes /\ CountSize \in Nat \ {0}
  /\ CountModulus \in Nat \ {0}
  /\ \E e \in Nat \ {0} : CountSize = 8 * (BlockBytes * e)
<1>1. /\ BlockBytes \in Nat \ {0} /\ 2 < BlockBytes /\ CountSize \in Nat \ {0}
      /\ 8 * BlockBytes \in Nat \ {0} /\ CountSize % (8 * BlockBytes) = 0
  BY StreamAssumption, SMT
<1>2. PICK y \in Nat \ {0} : y = 8 * BlockBytes
  BY <1>1
<1>3. PICK e \in Nat : CountSize = y * e
  <2>1. CountSize \div y \in Nat /\ CountSize = y * (CountSize \div y) + (CountSize % y)
    BY <1>1, DivMod
  <2>2. PICK q \in Nat : q = CountSize \div y
    BY <2>1
  <2>3. CountSize = y * q
    BY <1>1, <1>2, <2>1, <2>2, SMT
  <2>4. QED
    BY <2>3
<1>4. e # 0 /\ CountSize = 8 * (BlockBytes * e)
  BY <1>1, <1>2, <1>3, SMT
<1>5. CountModulus \in Nat \ {0}
  BY <1>1, SMT DEF CountModulus
<1>6. QED
  BY <1>1, <1>3, <1>4, <1>5

(* The dispatcher's counter of bits gives the place in the buffer, ...        *)
LEMMA OffsetOfBits ==
  ASSUME NEW n \in Nat
  PROVE  (((8 * n) % CountSize) \div 8) % BlockBytes = n % BlockBytes
<1>1. PICK e \in Nat \ {0} : CountSize = 8 * (BlockBytes * e)
  BY CountIsBlocks
<1>2. PICK d \in Nat \ {0} : d = BlockBytes * e
  BY CountIsBlocks, SMT
<1>3. 8 * n \in Nat /\ CountSize = 8 * d /\ 8 \in Nat \ {0}
  BY <1>1, <1>2
<1>4. ((8 * n) % CountSize) \div 8 = ((8 * n) \div 8) % d
  <2>1. ModsAgree(8 * n, 8, d, CountSize)
    BY <1>3, ModOfMod
  <2>2. QED
    BY <2>1 DEF ModsAgree
<1>5. (8 * n) \div 8 = n
  BY SMT
<1>6. (n % d) % BlockBytes = n % BlockBytes
  <2>1. BlockBytes \in Nat \ {0}
    BY CountIsBlocks
  <2>2. ModsAgree(n, BlockBytes, e, d)
    BY <1>2, <2>1, ModOfMod
  <2>3. QED
    BY <2>2 DEF ModsAgree
<1>7. QED
  BY <1>4, <1>5, <1>6

(* ... and its addition is that of the lengths.                               *)
LEMMA CountOfSum ==
  ASSUME NEW m \in Nat, NEW len \in Nat
  PROVE  AddCount(Abstract!LengthOf(m), len) = Abstract!LengthOf(m + len)
<1> DEFINE C == CountSize
<1>1. C \in Nat \ {0}
  BY CountIsBlocks
<1>2. PICK qa \in Nat, ra \in Nat : qa = (8 * m) \div C /\ ra = (8 * m) % C /\ ra < C /\ 8 * m = C * qa + ra
  <2>1. 8 * m \in Nat
    OBVIOUS
  <2>2. /\ (8 * m) \div C \in Nat /\ (8 * m) % C \in Nat /\ (8 * m) % C < C
        /\ 8 * m = C * ((8 * m) \div C) + ((8 * m) % C)
    BY <1>1, <2>1, DivMod
  <2>3. QED
    BY <2>2
<1>3. PICK qb \in Nat, rb \in Nat :
        qb = (8 * len) \div C /\ rb = (8 * len) % C /\ rb < C /\ 8 * len = C * qb + rb
  <2>1. 8 * len \in Nat
    OBVIOUS
  <2>2. /\ (8 * len) \div C \in Nat /\ (8 * len) % C \in Nat /\ (8 * len) % C < C
        /\ 8 * len = C * ((8 * len) \div C) + ((8 * len) % C)
    BY <1>1, <2>1, DivMod
  <2>3. QED
    BY <2>2
<1> HIDE DEF C
<1>4. PICK carry \in {0, 1}, low \in Nat :
        /\ low < C /\ ra + rb = C * carry + low
        /\ carry = IF low < rb THEN 1 ELSE 0
  <2>1. CASE ra + rb < C
    <3>1. ra + rb \in Nat /\ ra + rb = C * 0 + (ra + rb) /\ ~(ra + rb < rb)
      BY <1>1, SMT
    <3>2. QED
      BY <2>1, <3>1
  <2>2. CASE ~(ra + rb < C)
    <3>1. /\ ra + rb - C \in Nat /\ ra + rb - C < C /\ ra + rb = C * 1 + (ra + rb - C)
          /\ ra + rb - C < rb
      BY <1>1, <1>2, <1>3, <2>2, SMT
    <3>2. QED
      BY <3>1
  <2>3. QED
    BY <2>1, <2>2
<1>5. (ra + rb) % C = low
  <2>1. ra + rb \in Nat /\ carry \in Nat
    OBVIOUS
  <2>2. QED
    BY <1>1, <1>4, <2>1, DivModUnique
<1>6. (8 * (m + len)) \div C = qa + qb + carry /\ (8 * (m + len)) % C = low
  <2>1. PICK x \in Nat : x = 8 * (m + len)
    BY SMT
  <2>2. PICK k \in Nat : k = qa + qb + carry
    BY SMT
  <2>3. x = (C * qa + ra) + (C * qb + rb)
    BY <1>2, <1>3, <2>1, SMT
  <2>4. x = C * qa + C * qb + C * carry + low
    BY <1>1, <1>4, <2>3, SMT
  <2>5. C * k = C * qa + C * qb + C * carry
    BY <1>1, <2>2, SMT
  <2>6. x = C * k + low
    BY <1>1, <1>4, <2>4, <2>5, SMT
  <2>7. x \div C = k /\ x % C = low
    BY <1>1, <1>4, <2>6, DivModUnique
  <2>8. QED
    BY <2>1, <2>2, <2>7
<1>7. ((qa % C) + carry + qb) % C = (qa + qb + carry) % C
  <2>1. carry + qb \in Nat
    OBVIOUS
  <2>2. ((qa % C) + (carry + qb)) % C = (qa + (carry + qb)) % C
    BY <1>1, <2>1, ModOfSum
  <2>3. qa % C \in Nat
    BY <1>1, DivMod
  <2>4. (qa % C) + carry + qb = (qa % C) + (carry + qb) /\ qa + qb + carry = qa + (carry + qb)
    BY <2>3
  <2>5. QED
    BY <2>2, <2>4
<1>8. Abstract!LengthOf(m) = <<qa % C, ra>>
  BY <1>2 DEF Abstract!LengthOf, C
<1>9. Abstract!LengthOf(m + len) = <<(qa + qb + carry) % C, low>>
  BY <1>6 DEF Abstract!LengthOf, C
<1>10. AddCount(<<qa % C, ra>>, len) = <<((qa % C) + carry + qb) % C, low>>
  <2>1. \A c : AddCount(c, len) = <<(c[1] + (IF (c[2] + rb) % C < rb THEN 1 ELSE 0) + qb) % C,
                                    (c[2] + rb) % C>>
    BY <1>3 DEF AddCount, C
  <2>2. <<qa % C, ra>>[1] = qa % C /\ <<qa % C, ra>>[2] = ra
    OBVIOUS
  <2>3. AddCount(<<qa % C, ra>>, len) =
          <<((qa % C) + (IF low < rb THEN 1 ELSE 0) + qb) % C, low>>
    BY <1>5, <2>1, <2>2, Zenon
  <2>4. QED
    BY <1>4, <2>3, Zenon
<1>11. QED
  BY <1>7, <1>8, <1>9, <1>10, Zenon

(* So do the pool's counter of bytes ...                                      *)
LEMMA OffsetOfCount ==
  ASSUME NEW n \in Nat
  PROVE  n % CountModulus \in Nat /\ (n % CountModulus) % BlockBytes = n % BlockBytes
<1>1. PICK e \in Nat \ {0} : CountSize = 8 * (BlockBytes * e)
  BY CountIsBlocks
<1>2. PICK d \in Nat \ {0} : d = 8 * (e * CountSize)
  BY CountIsBlocks, SMT
<1>3. CountModulus = BlockBytes * d
  <2>1. CountModulus = CountSize * (8 * (BlockBytes * e))
    BY <1>1 DEF CountModulus
  <2>2. CountSize * (8 * (BlockBytes * e)) = BlockBytes * (8 * (e * CountSize))
    BY CountIsBlocks, SMT
  <2>3. QED
    BY <1>2, <2>1, <2>2
<1>4. QED
  <2>1. BlockBytes \in Nat \ {0}
    BY CountIsBlocks
  <2>2. ModsAgree(n, BlockBytes, d, CountModulus)
    BY <1>3, <2>1, ModOfMod
  <2>3. QED
    BY <2>2 DEF ModsAgree

(* ... and the length it writes.                                              *)
LEMMA LengthOfCount ==
  ASSUME NEW n \in Nat, NEW bits, bits = (8 * (n % CountModulus)) % CountModulus
  PROVE  <<bits \div CountSize, bits % CountSize>> = Abstract!LengthOf(n)
<1>1. PICK M \in Nat \ {0} : M = CountModulus /\ M = CountSize * CountSize
  BY CountIsBlocks DEF CountModulus
<1>2. PICK q \in Nat, s \in Nat : s = n % M /\ n = M * q + s
  <2>1. n \div M \in Nat /\ n % M \in Nat /\ n = M * (n \div M) + (n % M)
    BY DivMod
  <2>2. QED
    BY <2>1
<1>3. 8 * n = 8 * s + M * (8 * q) /\ 8 * s \in Nat /\ 8 * q \in Nat /\ 8 * n \in Nat
  BY <1>2, SMT
<1>4. (8 * n) % M = (8 * s) % M
  <2>1. (8 * s + M * (8 * q)) % M = (8 * s) % M
    BY <1>3, ModOfMultiple, Zenon
  <2>2. QED
    BY <1>3, <2>1
<1>5. bits = (8 * n) % M
  BY <1>1, <1>2, <1>4
<1>6. bits % CountSize = (8 * n) % CountSize /\ bits \div CountSize = ((8 * n) \div CountSize) % CountSize
  <2>1. CountSize \in Nat \ {0}
    BY CountIsBlocks
  <2>2. ModsAgree(8 * n, CountSize, CountSize, M)
    BY <1>1, <1>3, <2>1, ModOfMod
  <2>3. QED
    BY <1>5, <2>2 DEF ModsAgree
<1>7. QED
  BY <1>6 DEF Abstract!LengthOf

-----------------------------------------------------------------------------
(* Sequences of bytes.                                                        *)
(* The bytes that are hashed: positions and numbers, named bytes, bytes of the *)
(* digest of those, and what these are xored with and hashed to.               *)
PlainByte == Int \cup ({"p", "s", "int", "zero"} \X Int)
KeyByte == PlainByte \cup ({"digest"} \X Int \X Seq(PlainByte))
PadByte == KeyByte \cup ({"xor"} \X Int \X KeyByte)
Hashed == PadByte \cup ({"digest"} \X Int \X Seq(PadByte))

LEMMA IntsAreHashed ==
  Int \subseteq Hashed /\ \A x \in Int : <<x>> \in Seq(Hashed) /\ Len(<<x>>) = 1
<1>1. Int \subseteq Hashed
  BY DEF Hashed, PadByte, KeyByte, PlainByte
<1>2. \A x \in Int : <<x>> \in Seq(Hashed) /\ Len(<<x>>) = 1
  BY <1>1
<1>3. QED
  BY <1>1, <1>2

LEMMA SameSequence ==
  ASSUME NEW s \in Seq(Hashed), NEW t \in Seq(Hashed), Len(s) = Len(t),
         \A i \in 1..Len(s) : s[i] = t[i]
  PROVE  s = t
OBVIOUS

LEMMA Joined ==
  ASSUME NEW a \in Seq(Hashed), NEW b \in Seq(Hashed)
  PROVE  /\ a \o b \in Seq(Hashed) /\ Len(a \o b) = Len(a) + Len(b)
         /\ \A i \in 1..Len(a) : (a \o b)[i] = a[i]
         /\ \A i \in 1..Len(b) : (a \o b)[Len(a) + i] = b[i]
BY SMT

LEMMA JoinAssociates ==
  ASSUME NEW a \in Seq(Hashed), NEW b \in Seq(Hashed), NEW c \in Seq(Hashed)
  PROVE  (a \o b) \o c = a \o (b \o c)
BY ConcatAssociative, SMTT(40)

(* A sequence cut in two.                                                     *)
LEMMA Cut ==
  ASSUME NEW s \in Seq(Hashed), NEW k \in 0..Len(s)
  PROVE  /\ SubSeq(s, 1, k) \in Seq(Hashed) /\ Len(SubSeq(s, 1, k)) = k
         /\ Rest(s, k) \in Seq(Hashed) /\ Len(Rest(s, k)) = Len(s) - k
         /\ SubSeq(s, 1, k) \o Rest(s, k) = s
<1> DEFINE a == SubSeq(s, 1, k)  b == Rest(s, k)  t == a \o b
<1>1. a \in Seq(Hashed) /\ Len(a) = k /\ \A i \in 1..k : a[i] = s[i]
  BY SMT
<1>2. b \in Seq(Hashed) /\ Len(b) = Len(s) - k /\ \A i \in 1..(Len(s) - k) : b[i] = s[k + i]
  BY SMT DEF Rest
<1> HIDE DEF a, b
<1>3. /\ t \in Seq(Hashed) /\ Len(t) = Len(s)
      /\ \A i \in 1..Len(s) : t[i] = IF i <= k THEN a[i] ELSE b[i - k]
  BY <1>1, <1>2, SMT
<1> HIDE DEF t
<1>4. ASSUME NEW i \in 1..Len(s)  PROVE t[i] = s[i]
  <2>1. CASE i <= k
    <3>1. i \in 1..k
      BY <2>1, SMT
    <3>2. QED
      BY <1>1, <1>3, <2>1, <3>1, Zenon
  <2>2. CASE ~(i <= k)
    <3>1. i - k \in 1..(Len(s) - k) /\ k + (i - k) = i
      BY <2>2, SMT
    <3>2. QED
      BY <1>2, <1>3, <2>2, <3>1, Zenon
  <2>3. QED
    BY <2>1, <2>2
<1>5. t = s
  BY <1>3, <1>4, SameSequence
<1>6. QED
  BY <1>1, <1>2, <1>5 DEF a, b, t

LEMMA FrontOfJoined ==
  ASSUME NEW a \in Seq(Hashed), NEW b \in Seq(Hashed)
  PROVE  SubSeq(a \o b, 1, Len(a)) = a
<1> DEFINE s == a \o b  t == SubSeq(s, 1, Len(a))
<1>1. s \in Seq(Hashed) /\ Len(s) = Len(a) + Len(b) /\ \A i \in 1..Len(a) : s[i] = a[i]
  BY Joined
<1> HIDE DEF s
<1>2. t \in Seq(Hashed) /\ Len(t) = Len(a) /\ \A i \in 1..Len(a) : t[i] = s[i]
  BY <1>1, SMT
<1> HIDE DEF t
<1>3. t = a
  BY <1>1, <1>2, SameSequence
<1>4. QED
  BY <1>3 DEF s, t

(* memcpy keeps what is before its place, and puts the data behind it.        *)
LEMMA Copied ==
  ASSUME NEW buf \in Seq(Hashed), Len(buf) = BlockBytes, NEW r \in Nat, NEW data \in Seq(Hashed),
         r + Len(data) <= BlockBytes
  PROVE  /\ Copy(buf, r, data) \in Seq(Hashed) /\ Len(Copy(buf, r, data)) = BlockBytes
         /\ SubSeq(Copy(buf, r, data), 1, r + Len(data)) = SubSeq(buf, 1, r) \o data
         /\ r + Len(data) = BlockBytes => Copy(buf, r, data) = SubSeq(buf, 1, r) \o data
<1> DEFINE l == r + Len(data)  a == SubSeq(buf, 1, r)  x == a \o data  y == Rest(buf, l)
           c == x \o y
<1>1. r \in 0..Len(buf) /\ l \in 0..Len(buf) /\ Len(data) \in Nat
  <2>1. Len(data) \in Nat /\ BlockBytes \in Nat
    BY CountIsBlocks
  <2>2. QED
    BY <2>1, SMT
<1>2. Copy(buf, r, data) = c
  BY DEF Copy, Rest
<1>3. a \in Seq(Hashed) /\ Len(a) = r
  BY <1>1, Cut
<1>4. y \in Seq(Hashed) /\ Len(y) = Len(buf) - l
  BY <1>1, Cut
<1> HIDE DEF a, y
<1>5. x \in Seq(Hashed) /\ Len(x) = l
  BY <1>3, Joined
<1> HIDE DEF x
<1>6. c \in Seq(Hashed) /\ Len(c) = BlockBytes /\ SubSeq(c, 1, l) = x
  <2>1. c \in Seq(Hashed) /\ Len(c) = Len(x) + Len(y)
    BY <1>4, <1>5, Joined
  <2>2. SubSeq(c, 1, Len(x)) = x
    BY <1>4, <1>5, FrontOfJoined
  <2>3. Len(c) = BlockBytes
    BY <1>1, <1>4, <1>5, <2>1, CountIsBlocks, SMT
  <2>4. QED
    BY <1>5, <2>1, <2>2, <2>3
<1>7. l = BlockBytes => c = x
  <2>1. l = BlockBytes => SubSeq(c, 1, l) = c
    BY <1>6
  <2>2. QED
    BY <1>6, <2>1
<1>8. QED
  BY <1>2, <1>6, <1>7 DEF x, a

-----------------------------------------------------------------------------
(* What every path of an update is made of.  A state and a buffer hold the    *)
(* message m.                                                                 *)
Hold(state, buf, m) ==
    /\ state \in Seq(Hashed) /\ buf \in Seq(Hashed) /\ Len(buf) = BlockBytes
    /\ m \in Seq(Hashed)
    /\ state \o SubSeq(buf, 1, Len(m) % BlockBytes) = m

LEMMA Offsets ==
  ASSUME NEW L \in Nat, NEW D \in Nat, NEW r, r = L % BlockBytes
  PROVE  /\ r \in Nat /\ r < BlockBytes
         /\ D < BlockBytes - r => (L + D) % BlockBytes = r + D
         /\ D >= BlockBytes - r =>
              /\ D - (BlockBytes - r) \in Nat
              /\ (L + D) % BlockBytes = (D - (BlockBytes - r)) % BlockBytes
<1>1. PICK B \in Nat \ {0} : B = BlockBytes
  BY CountIsBlocks
<1>2. PICK q \in Nat : L = B * q + r /\ r \in Nat /\ r < B
  <2>1. L \div B \in Nat /\ L % B \in Nat /\ L % B < B /\ L = B * (L \div B) + (L % B)
    BY DivMod
  <2>2. QED
    BY <1>1, <2>1
<1>3. ASSUME D < B - r  PROVE (L + D) % B = r + D
  <2>1. L + D \in Nat /\ r + D \in Nat /\ r + D < B /\ L + D = B * q + (r + D)
    BY <1>2, <1>3, SMT
  <2>2. PICK x \in Nat, s \in Nat : x = L + D /\ s = r + D
    BY <2>1
  <2>3. x % B = s
    BY <2>1, <2>2, DivModUnique
  <2>4. QED
    BY <2>2, <2>3
<1>4. ASSUME D >= B - r
      PROVE  D - (B - r) \in Nat /\ (L + D) % B = (D - (B - r)) % B
  <2>1. D - (B - r) \in Nat /\ q + 1 \in Nat /\ L + D = (D - (B - r)) + B * (q + 1)
    BY <1>2, <1>4, SMT
  <2>2. PICK x \in Nat, k \in Nat : x = D - (B - r) /\ k = q + 1
    BY <2>1
  <2>3. (x + B * k) % B = x % B
    BY ModOfMultiple
  <2>4. QED
    BY <2>1, <2>2, <2>3
<1>5. QED
  BY <1>1, <1>2, <1>3, <1>4

LEMMA Offset ==
  ASSUME NEW L \in Nat, NEW r, r = L % BlockBytes
  PROVE  r \in Nat /\ r < BlockBytes
<1>1. 0 \in Nat
  OBVIOUS
<1>2. QED
  BY <1>1, Offsets, Zenon

(* The data fit into the buffer and do not fill it.                           *)
LEMMA HoldAfterCopy ==
  ASSUME NEW state, NEW buf, NEW m, Hold(state, buf, m), NEW data \in Seq(Hashed),
         NEW r, r = Len(m) % BlockBytes, Len(data) < BlockBytes - r
  PROVE  Hold(state, Copy(buf, r, data), m \o data)
<1>0. PICK c, a : c = Copy(buf, r, data) /\ a = SubSeq(buf, 1, r)
  OBVIOUS
<1>1. /\ state \in Seq(Hashed) /\ buf \in Seq(Hashed) /\ Len(buf) = BlockBytes
      /\ m \in Seq(Hashed) /\ state \o a = m /\ Len(m) \in Nat /\ Len(data) \in Nat
  <2>1. /\ state \in Seq(Hashed) /\ buf \in Seq(Hashed) /\ Len(buf) = BlockBytes
        /\ m \in Seq(Hashed) /\ state \o a = m
    BY <1>0, Zenon DEF Hold
  <2>2. \A s \in Seq(Hashed) : Len(s) \in Nat
    OBVIOUS
  <2>3. QED
    BY <2>1, <2>2, Zenon
<1>2. r \in Nat /\ r < BlockBytes /\ (Len(m) + Len(data)) % BlockBytes = r + Len(data)
  BY <1>1, Offsets
<1>3. r + Len(data) <= BlockBytes /\ r \in 0..Len(buf)
  <2>1. BlockBytes \in Nat
    BY CountIsBlocks
  <2>2. QED
    BY <1>1, <1>2, <2>1, SMT
<1>4. c \in Seq(Hashed) /\ Len(c) = BlockBytes /\ SubSeq(c, 1, r + Len(data)) = a \o data
  BY <1>0, <1>1, <1>2, <1>3, Copied, ZenonT(60)
<1>5. a \in Seq(Hashed)
  BY <1>0, <1>1, <1>3, Cut, Zenon
<1>6. state \o (a \o data) = m \o data
  <2>1. (state \o a) \o data = state \o (a \o data)
    <3>1. state \in Seq(Hashed) /\ a \in Seq(Hashed)
      BY <1>1, <1>5
    <3>2. QED
      BY <3>1, JoinAssociates
  <2>2. QED
    BY <1>1, <2>1, Zenon
<1>7. m \o data \in Seq(Hashed) /\ Len(m \o data) = Len(m) + Len(data)
  BY <1>1, Joined
<1>8. Hold(state, c, m \o data)
  BY <1>1, <1>2, <1>4, <1>6, <1>7 DEF Hold
<1>9. QED
  BY <1>0, <1>8

(* The data fill it.                                                          *)
LEMMA HoldAfterFill ==
  ASSUME NEW state, NEW buf, NEW m, Hold(state, buf, m), NEW data \in Seq(Hashed),
         NEW r, r = Len(m) % BlockBytes, Len(data) = BlockBytes - r
  PROVE  /\ Hold(state \o Copy(buf, r, data), Copy(buf, r, data), m \o data)
         /\ Len(m \o data) % BlockBytes = 0
<1>0. PICK c, a : c = Copy(buf, r, data) /\ a = SubSeq(buf, 1, r)
  OBVIOUS
<1>1. /\ state \in Seq(Hashed) /\ buf \in Seq(Hashed) /\ Len(buf) = BlockBytes
      /\ m \in Seq(Hashed) /\ state \o a = m /\ Len(m) \in Nat /\ Len(data) \in Nat
  <2>1. /\ state \in Seq(Hashed) /\ buf \in Seq(Hashed) /\ Len(buf) = BlockBytes
        /\ m \in Seq(Hashed) /\ state \o a = m
    BY <1>0, Zenon DEF Hold
  <2>2. \A s \in Seq(Hashed) : Len(s) \in Nat
    OBVIOUS
  <2>3. QED
    BY <2>1, <2>2, Zenon
<1>2. BlockBytes \in Nat \ {0}
  BY CountIsBlocks
<1>3. r \in Nat /\ r < BlockBytes
      /\ (Len(m) + Len(data)) % BlockBytes = (Len(data) - (BlockBytes - r)) % BlockBytes
  <2>1. r \in Nat /\ r < BlockBytes
    <3>1. PICK n \in Nat : n = Len(m)
      BY <1>1, Zenon
    <3>2. r = n % BlockBytes
      BY <3>1, Zenon
    <3>3. QED
      BY <3>2, Offset, Zenon
  <2>2. Len(data) >= BlockBytes - r
    BY <1>1, <1>2, <2>1
  <2>3. PICK n \in Nat, D \in Nat : n = Len(m) /\ D = Len(data)
    BY <1>1, Zenon
  <2>4. r = n % BlockBytes /\ D >= BlockBytes - r
    BY <2>2, <2>3, Zenon
  <2>5. (n + D) % BlockBytes = (D - (BlockBytes - r)) % BlockBytes
    BY <2>4, Offsets
  <2>6. QED
    BY <2>1, <2>3, <2>5, Zenon
<1>4. /\ r + Len(data) <= BlockBytes /\ r + Len(data) = BlockBytes /\ r \in 0..Len(buf)
      /\ (Len(m) + Len(data)) % BlockBytes = 0
  <2>1. Len(data) - (BlockBytes - r) = 0 /\ 0 % BlockBytes = 0
    BY <1>2, <1>3, SMT
  <2>2. QED
    BY <1>1, <1>2, <1>3, <2>1
<1>5. c \in Seq(Hashed) /\ Len(c) = BlockBytes /\ c = a \o data
  BY <1>0, <1>1, <1>3, <1>4, Copied, ZenonT(60)
<1>6. a \in Seq(Hashed)
  BY <1>0, <1>1, <1>4, Cut, Zenon
<1>7. state \o c = m \o data
  <2>1. (state \o a) \o data = state \o (a \o data)
    <3>1. state \in Seq(Hashed) /\ a \in Seq(Hashed)
      BY <1>1, <1>6
    <3>2. QED
      BY <3>1, JoinAssociates
  <2>2. QED
    BY <1>1, <1>5, <2>1, Zenon
<1>8. m \o data \in Seq(Hashed) /\ Len(m \o data) = Len(m) + Len(data)
  BY <1>1, Joined
<1>9. SubSeq(c, 1, 0) = << >> /\ state \o c \in Seq(Hashed)
  BY <1>5, <1>7, <1>8
<1>10. (state \o c) \o << >> = state \o c
  BY <1>9, ConcatEmptySeq
<1>11. Hold(state \o c, c, m \o data)
  BY <1>4, <1>5, <1>7, <1>8, <1>9, <1>10, Zenon DEF Hold
<1>12. QED
  BY <1>0, <1>4, <1>8, <1>11

(* At the end of a block whole blocks are compressed and the rest copied.     *)
LEMMA HoldAfterBlocks ==
  ASSUME NEW state, NEW buf, NEW m, Hold(state, buf, m), Len(m) % BlockBytes = 0,
         NEW left \in Seq(Hashed), NEW w, w = WholeBlocks(left)
  PROVE  Hold(state \o w, Copy(buf, 0, Rest(left, Len(w))), m \o left)
<1>0. PICK rest, c : rest = Rest(left, Len(w)) /\ c = Copy(buf, 0, rest)
  OBVIOUS
<1> DEFINE l == Len(left)
<1>1. /\ state \in Seq(Hashed) /\ buf \in Seq(Hashed) /\ Len(buf) = BlockBytes
      /\ m \in Seq(Hashed) /\ Len(m) \in Nat /\ l \in Nat
  BY DEF Hold
<1>2. state = m
  <2>1. SubSeq(buf, 1, 0) = << >>
    OBVIOUS
  <2>2. state \o << >> = state
    BY <1>1, ConcatEmptySeq
  <2>3. QED
    BY <2>1, <2>2 DEF Hold
<1>3. BlockBytes \in Nat \ {0}
  BY CountIsBlocks
<1>4. PICK s \in Nat : s = l % BlockBytes /\ s < BlockBytes /\ l - s \in 0..l
  <2>1. /\ l \div BlockBytes \in Nat /\ l % BlockBytes \in Nat /\ l % BlockBytes < BlockBytes
        /\ l = BlockBytes * (l \div BlockBytes) + (l % BlockBytes)
    BY <1>1, <1>3, DivMod
  <2>2. PICK q \in Nat, t \in Nat : q = l \div BlockBytes /\ t = l % BlockBytes
    BY <2>1
  <2>3. BlockBytes * q \in Nat /\ l = BlockBytes * q + t
    BY <1>3, <2>1, <2>2
  <2>4. l - t \in 0..l
    BY <1>1, <2>3, SMTT(40)
  <2>5. QED
    BY <2>1, <2>2, <2>4
<1>5. /\ w = SubSeq(left, 1, l - s) /\ w \in Seq(Hashed) /\ Len(w) = l - s
      /\ rest \in Seq(Hashed) /\ Len(rest) = s /\ w \o rest = left
  <2>1. w = SubSeq(left, 1, l - s)
    BY <1>4 DEF WholeBlocks
  <2>2. /\ SubSeq(left, 1, l - s) \in Seq(Hashed) /\ Len(SubSeq(left, 1, l - s)) = l - s
        /\ Rest(left, l - s) \in Seq(Hashed) /\ Len(Rest(left, l - s)) = l - (l - s)
        /\ SubSeq(left, 1, l - s) \o Rest(left, l - s) = left
    BY <1>4, Cut
  <2>3. l - (l - s) = s
    BY <1>1, <1>4, SMT
  <2>4. QED
    BY <1>0, <2>1, <2>2, <2>3
<1>6. c \in Seq(Hashed) /\ Len(c) = BlockBytes /\ SubSeq(c, 1, s) = rest
  <2>1. 0 + Len(rest) <= BlockBytes /\ 0 + Len(rest) = s
    BY <1>3, <1>4, <1>5, SMT
  <2>2. /\ c \in Seq(Hashed) /\ Len(c) = BlockBytes
        /\ SubSeq(c, 1, 0 + Len(rest)) = SubSeq(buf, 1, 0) \o rest
    <3>1. PICK z \in Nat : z = 0
      OBVIOUS
    <3>2. z + Len(rest) <= BlockBytes
      BY <2>1, <3>1
    <3>3. /\ Copy(buf, z, rest) \in Seq(Hashed) /\ Len(Copy(buf, z, rest)) = BlockBytes
          /\ SubSeq(Copy(buf, z, rest), 1, z + Len(rest)) = SubSeq(buf, 1, z) \o rest
      <4>1. buf \in Seq(Hashed) /\ Len(buf) = BlockBytes /\ rest \in Seq(Hashed)
        BY <1>1, <1>5
      <4>2. QED
        BY <3>2, <4>1, Copied
    <3>4. QED
      BY <1>0, <3>1, <3>3, Zenon
  <2>3. SubSeq(buf, 1, 0) = << >> /\ << >> \o rest = rest
    BY <1>5, ConcatEmptySeq
  <2>4. QED
    BY <2>1, <2>2, <2>3
<1>7. (m \o w) \o rest = m \o left
  <2>1. m \in Seq(Hashed) /\ w \in Seq(Hashed) /\ rest \in Seq(Hashed)
    BY <1>1, <1>5
  <2>2. (m \o w) \o rest = m \o (w \o rest)
    BY <2>1, JoinAssociates, ZenonT(60)
  <2>3. QED
    BY <1>5, <2>2, Zenon
<1>8. m \o left \in Seq(Hashed) /\ Len(m \o left) = Len(m) + l /\ m \o w \in Seq(Hashed)
  BY <1>1, <1>5, Joined
<1>9. Len(m \o left) % BlockBytes = s
  <2>1. ((Len(m) % BlockBytes) + l) % BlockBytes = (Len(m) + l) % BlockBytes
    BY <1>1, <1>3, ModOfSum, ZenonT(60)
  <2>2. (Len(m) % BlockBytes) + l = l
    BY <1>1
  <2>3. QED
    BY <1>4, <1>8, <2>1, <2>2
<1>10. Hold(state \o w, c, m \o left)
  BY <1>2, <1>6, <1>7, <1>8, <1>9, Zenon DEF Hold
<1>11. QED
  BY <1>0, <1>10

-----------------------------------------------------------------------------
(* The dispatcher's context, and the pool's, that hold m.                     *)
DispatcherHolds(ctx, m) ==
    \E s, b : /\ Hold(s, b, m)
              /\ ctx = [state |-> s, count |-> Abstract!LengthOf(Len(m)), buf |-> b]
SphHolds(sc, m) ==
    \E s, b : /\ Hold(s, b, m)
              /\ sc = [state |-> s, count |-> Len(m) % CountModulus, buf |-> b]

(* SHA256_Update adds its data to the message held.                           *)
LEMMA UpdateHolds ==
  ASSUME NEW ctx, NEW m, DispatcherHolds(ctx, m), NEW data \in Seq(Hashed)
  PROVE  DispatcherHolds(SHA256_Update(ctx, data), m \o data)
<1>1. PICK s, b : /\ Hold(s, b, m)
                  /\ ctx = [state |-> s, count |-> Abstract!LengthOf(Len(m)), buf |-> b]
  BY DEF DispatcherHolds
<1>2. m \in Seq(Hashed) /\ Len(m) \in Nat /\ Len(data) \in Nat
  BY <1>1 DEF Hold
<1>3. PICK r, count : r = (ctx.count[2] \div 8) % BlockBytes /\ count = AddCount(ctx.count, Len(data))
  OBVIOUS
<1>4. r = Len(m) % BlockBytes
  <2>1. ctx.count[2] = (8 * Len(m)) % CountSize
    BY <1>1 DEF Abstract!LengthOf
  <2>2. (((8 * Len(m)) % CountSize) \div 8) % BlockBytes = Len(m) % BlockBytes
    BY <1>2, OffsetOfBits
  <2>3. QED
    BY <1>3, <2>1, <2>2, Zenon
<1>5. m \o data \in Seq(Hashed) /\ Len(m \o data) = Len(m) + Len(data)
  BY <1>2, Joined
<1>6. count = Abstract!LengthOf(Len(m \o data))
  <2>1. AddCount(Abstract!LengthOf(Len(m)), Len(data)) = Abstract!LengthOf(Len(m) + Len(data))
    BY <1>2, CountOfSum
  <2>2. ctx.count = Abstract!LengthOf(Len(m))
    BY <1>1
  <2>3. QED
    BY <1>3, <1>5, <2>1, <2>2, Zenon
<1>7. r \in Nat /\ r < BlockBytes /\ BlockBytes \in Nat
  BY <1>2, <1>4, Offset, CountIsBlocks
<1>8. CASE Len(data) < BlockBytes - r
  <2>1. SHA256_Update(ctx, data) = [ctx EXCEPT !.count = count, !.buf = Copy(ctx.buf, r, data)]
    BY <1>3, <1>8 DEF SHA256_Update
  <2>2. SHA256_Update(ctx, data) = [state |-> s, count |-> count, buf |-> Copy(b, r, data)]
    BY <1>1, <2>1
  <2>3. Hold(s, Copy(b, r, data), m \o data)
    BY <1>1, <1>4, <1>8, HoldAfterCopy
  <2>4. QED
    BY <1>6, <2>2, <2>3, Zenon DEF DispatcherHolds
<1>9. CASE ~(Len(data) < BlockBytes - r)
  <2>1. PICK first, rest, full, w :
          /\ first = SubSeq(data, 1, BlockBytes - r) /\ rest = Rest(data, BlockBytes - r)
          /\ full = Copy(b, r, first) /\ w = WholeBlocks(rest)
    OBVIOUS
  <2>2. SHA256_Update(ctx, data) =
          [state |-> s \o full \o w, count |-> count, buf |-> Copy(full, 0, Rest(rest, Len(w)))]
    BY <1>1, <1>3, <1>9, <2>1 DEF SHA256_Update
  <2>3. BlockBytes - r \in 0..Len(data)
    BY <1>2, <1>7, <1>9, SMT
  <2>4. /\ first \in Seq(Hashed) /\ Len(first) = BlockBytes - r /\ rest \in Seq(Hashed)
        /\ first \o rest = data
    BY <2>1, <2>3, Cut
  <2>5. Hold(s \o full, full, m \o first) /\ Len(m \o first) % BlockBytes = 0
    BY <1>1, <1>4, <2>1, <2>4, HoldAfterFill, Zenon
  <2>6. Hold((s \o full) \o w, Copy(full, 0, Rest(rest, Len(w))), (m \o first) \o rest)
    <3>1. PICK st, me : st = s \o full /\ me = m \o first
      OBVIOUS
    <3>2. Hold(st, full, me) /\ Len(me) % BlockBytes = 0
      BY <2>5, <3>1
    <3>3. Hold(st \o w, Copy(full, 0, Rest(rest, Len(w))), me \o rest)
      BY <2>1, <2>4, <3>2, HoldAfterBlocks, Zenon
    <3>4. QED
      BY <3>1, <3>3
  <2>7. (m \o first) \o rest = m \o data
    <3>1. (m \o first) \o rest = m \o (first \o rest)
      BY <1>2, <2>4, JoinAssociates, ZenonT(60)
    <3>2. QED
      BY <2>4, <3>1, Zenon
  <2>8. QED
    BY <1>6, <2>2, <2>6, <2>7, Zenon DEF DispatcherHolds
<1>10. QED
  BY <1>8, <1>9

(* One iteration of sha224_short adds the bytes it takes.                     *)
ShortTakes(sc, m, data, clen, taken) ==
    /\ clen \in 0..Len(data) /\ taken \in Seq(Hashed) /\ Len(taken) = clen
    /\ SphHolds(sha224_short(sc, data), m \o taken)

LEMMA ShortHolds ==
  ASSUME NEW sc, NEW m, SphHolds(sc, m), NEW data \in Seq(Hashed),
         NEW clen, clen = TakenLen(sc, data), NEW taken, taken = SubSeq(data, 1, clen)
  PROVE  ShortTakes(sc, m, data, clen, taken)
<1>1. PICK s, b : /\ Hold(s, b, m)
                  /\ sc = [state |-> s, count |-> Len(m) % CountModulus, buf |-> b]
  BY DEF SphHolds
<1>2. m \in Seq(Hashed) /\ Len(m) \in Nat /\ Len(data) \in Nat
  BY <1>1 DEF Hold
<1>3. PICK r : r = sc.count % BlockBytes
  OBVIOUS
<1>4. r = Len(m) % BlockBytes /\ r \in Nat /\ r < BlockBytes /\ BlockBytes \in Nat
  <2>1. (Len(m) % CountModulus) % BlockBytes = Len(m) % BlockBytes
    BY <1>2, OffsetOfCount
  <2>2. sc.count = Len(m) % CountModulus
    BY <1>1
  <2>3. r = Len(m) % BlockBytes
    BY <1>3, <2>1, <2>2, Zenon
  <2>4. QED
    BY <1>2, <2>3, Offset, CountIsBlocks
<1>5. clen = IF BlockBytes - r > Len(data) THEN Len(data) ELSE BlockBytes - r
  BY <1>3, Zenon DEF TakenLen
<1>6. clen \in 0..Len(data) /\ clen <= BlockBytes - r /\ clen \in Nat
  BY <1>2, <1>4, <1>5, SMT
<1>7. taken \in Seq(Hashed) /\ Len(taken) = clen
  BY <1>6, Cut
<1>8. PICK buf : buf = Copy(b, r, taken)
  OBVIOUS
<1>9. sha224_short(sc, data) =
        [state |-> IF r + clen = BlockBytes THEN s \o buf ELSE s,
         count |-> ((Len(m) % CountModulus) + clen) % CountModulus, buf |-> buf]
  BY <1>1, <1>3, <1>8 DEF sha224_short
<1>10. ((Len(m) % CountModulus) + clen) % CountModulus = Len(m \o taken) % CountModulus
  <2>1. Len(m \o taken) = Len(m) + clen
    BY <1>2, <1>7, Joined
  <2>2. CountModulus \in Nat \ {0}
    BY CountIsBlocks
  <2>3. ((Len(m) % CountModulus) + clen) % CountModulus = (Len(m) + clen) % CountModulus
    BY <1>2, <1>6, <2>2, ModOfSum
  <2>4. QED
    BY <2>1, <2>3, Zenon
<1>11. CASE r + clen = BlockBytes
  <2>1. Len(taken) = BlockBytes - r
    BY <1>4, <1>6, <1>7, <1>11, SMT
  <2>2. Hold(s \o buf, buf, m \o taken)
    BY <1>1, <1>4, <1>7, <1>8, <2>1, HoldAfterFill, Zenon
  <2>3. QED
    BY <1>6, <1>7, <1>9, <1>10, <1>11, <2>2, Zenon DEF SphHolds, ShortTakes
<1>12. CASE r + clen # BlockBytes
  <2>1. Len(taken) < BlockBytes - r
    <3>1. \A B \in Nat, k \in Nat, o \in Nat : k <= B - o /\ o + k # B => k < B - o
      OBVIOUS
    <3>2. clen < BlockBytes - r
      BY <1>4, <1>6, <1>12, <3>1, Zenon
    <3>3. QED
      BY <1>7, <3>2, Zenon
  <2>2. Hold(s, buf, m \o taken)
    BY <1>1, <1>4, <1>7, <1>8, <2>1, HoldAfterCopy, Zenon
  <2>3. QED
    BY <1>6, <1>7, <1>9, <1>10, <1>12, <2>2, Zenon DEF SphHolds, ShortTakes
<1>13. QED
  BY <1>11, <1>12

(* The path in place completes the block in the buffer, if there is one, and  *)
(* compresses what follows.                                                   *)
LEMMA InPlaceHolds ==
  ASSUME NEW sc, NEW m, SphHolds(sc, m), NEW data \in Seq(Hashed), Len(data) >= BlockBytes
  PROVE  SphHolds(sph_sha256(sc, data), m \o data)
<1>1. PICK s, b : /\ Hold(s, b, m)
                  /\ sc = [state |-> s, count |-> Len(m) % CountModulus, buf |-> b]
  BY DEF SphHolds
<1>2. m \in Seq(Hashed) /\ Len(m) \in Nat /\ Len(data) \in Nat
  BY <1>1 DEF Hold
<1>3. PICK r : r = sc.count % BlockBytes
  OBVIOUS
<1>4. r = Len(m) % BlockBytes /\ r \in Nat /\ r < BlockBytes /\ BlockBytes \in Nat \ {0}
  <2>1. (Len(m) % CountModulus) % BlockBytes = Len(m) % BlockBytes
    BY <1>2, OffsetOfCount
  <2>2. sc.count = Len(m) % CountModulus
    BY <1>1
  <2>3. r = Len(m) % BlockBytes
    BY <1>3, <2>1, <2>2, Zenon
  <2>4. QED
    BY <1>2, <2>3, Offset, CountIsBlocks
<1>5. PICK t, first, left, filled, w :
        /\ t = (BlockBytes - r) % BlockBytes /\ first = SubSeq(data, 1, t) /\ left = Rest(data, t)
        /\ filled = (IF t = 0 THEN sc ELSE sha224_short(sc, first)) /\ w = WholeBlocks(left)
  OBVIOUS
<1>6. sph_sha256(sc, data) =
        [state |-> filled.state \o w, count |-> (filled.count + Len(left)) % CountModulus,
         buf |-> Copy(filled.buf, 0, Rest(left, Len(w)))]
  BY <1>3, <1>5 DEF sph_sha256
<1>7. t = IF r = 0 THEN 0 ELSE BlockBytes - r
  <2>1. CASE r = 0
    <3>1. PICK B \in Nat \ {0} : B = BlockBytes
      BY <1>4
    <3>2. (B - 0) % B = 0
      <4>1. B - 0 = B /\ B = B * 1 + 0 /\ 0 < B
        OBVIOUS
      <4>2. B % B = 0
        BY <4>1, DivModUnique
      <4>3. QED
        BY <4>1, <4>2
    <3>3. QED
      BY <1>5, <2>1, <3>1, <3>2
  <2>2. CASE r # 0
    <3>1. PICK B \in Nat \ {0}, k \in Nat : B = BlockBytes /\ k = BlockBytes - r /\ k < B
      <4>1. BlockBytes - r \in Nat /\ BlockBytes - r < BlockBytes
        BY <1>4, <2>2, SMT
      <4>2. QED
        BY <1>4, <4>1
    <3>2. k = B * 0 + k
      OBVIOUS
    <3>3. k % B = k
      BY <3>1, <3>2, DivModUnique
    <3>4. QED
      BY <1>5, <2>2, <3>1, <3>3
  <2>3. QED
    BY <2>1, <2>2
<1>8. t \in 0..Len(data)
  BY <1>2, <1>4, <1>7, SMT
<1>9. first \in Seq(Hashed) /\ Len(first) = t /\ left \in Seq(Hashed) /\ first \o left = data
  BY <1>5, <1>8, Cut
<1>10. m \o first \in Seq(Hashed) /\ Len(m \o first) = Len(m) + t
  BY <1>2, <1>9, Joined
<1>11. SphHolds(filled, m \o first) /\ Len(m \o first) % BlockBytes = 0
  <2>1. CASE r = 0
    <3>1. first = << >> /\ t = 0
      BY <1>7, <1>9, <2>1, EmptySeq
    <3>2. m \o first = m
      BY <1>2, <3>1, ConcatEmptySeq
    <3>3. QED
      BY <1>4, <1>5, <2>1, <3>1, <3>2
  <2>2. CASE r # 0
    <3>1. t = BlockBytes - r /\ t # 0
      BY <1>4, <1>7, <2>2, SMT
    <3>2. filled = sha224_short(sc, first)
      BY <1>5, <3>1
    <3>3. TakenLen(sc, first) = t
      <4>1. TakenLen(sc, first) = IF BlockBytes - r > Len(first) THEN Len(first) ELSE BlockBytes - r
        BY <1>3, Zenon DEF TakenLen
      <4>2. QED
        BY <1>9, <3>1, <4>1
    <3>4. first = SubSeq(first, 1, t)
      BY <1>9
    <3>5. SphHolds(sha224_short(sc, first), m \o first)
      <4>1. ShortTakes(sc, m, first, t, first)
        BY <1>9, <3>3, <3>4, ShortHolds, Zenon
      <4>2. QED
        BY <4>1 DEF ShortTakes
    <3>6. PICK n \in Nat, D \in Nat : n = Len(m) /\ D = t
      BY <1>2, <1>8
    <3>7. r = n % BlockBytes /\ D >= BlockBytes - r /\ D - (BlockBytes - r) = 0 /\ 0 % BlockBytes = 0
      BY <1>4, <3>1, <3>6
    <3>8. (n + D) % BlockBytes = (D - (BlockBytes - r)) % BlockBytes
      BY <3>7, Offsets
    <3>9. Len(m \o first) % BlockBytes = 0
      BY <1>10, <3>6, <3>7, <3>8, Zenon
    <3>10. QED
      BY <3>2, <3>5, <3>9
  <2>3. QED
    BY <2>1, <2>2
<1>12. PICK s2, b2, me : /\ me = m \o first /\ Hold(s2, b2, me)
                     /\ filled = [state |-> s2, count |-> Len(me) % CountModulus, buf |-> b2]
  BY <1>11, Zenon DEF SphHolds
<1>13. Hold(s2 \o w, Copy(b2, 0, Rest(left, Len(w))), me \o left)
  <2>1. Len(me) % BlockBytes = 0
    BY <1>11, <1>12, Zenon
  <2>2. QED
    BY <1>5, <1>9, <1>12, <2>1, HoldAfterBlocks, Zenon
<1>14. me \o left = m \o data
  <2>1. (m \o first) \o left = m \o (first \o left)
    BY <1>2, <1>9, JoinAssociates, ZenonT(60)
  <2>2. QED
    BY <1>9, <1>12, <2>1, Zenon
<1>15. (filled.count + Len(left)) % CountModulus = Len(m \o data) % CountModulus
  <2>1. filled.count = Len(me) % CountModulus
    BY <1>12
  <2>2. me \in Seq(Hashed) /\ Len(me) \in Nat /\ Len(left) \in Nat
    BY <1>9, <1>10, <1>12
  <2>3. Len(me \o left) = Len(me) + Len(left)
    BY <1>9, <2>2, Joined
  <2>4. CountModulus \in Nat \ {0}
    BY CountIsBlocks
  <2>5. ((Len(me) % CountModulus) + Len(left)) % CountModulus = (Len(me) + Len(left)) % CountModulus
    BY <2>2, <2>4, ModOfSum
  <2>6. QED
    BY <1>14, <2>1, <2>3, <2>5, Zenon
<1>16. filled.state = s2 /\ filled.buf = b2
  BY <1>12
<1>17. QED
  BY <1>6, <1>13, <1>14, <1>15, <1>16, Zenon DEF SphHolds

-----------------------------------------------------------------------------
(* The padding.                                                               *)
LEMMA ZerosAre ==
  ASSUME NEW n \in Nat
  PROVE  /\ Zeros(n) \in Seq(Hashed) /\ Len(Zeros(n)) = n /\ Zeros(n) = [i \in 1..n |-> 0]
         /\ \A i \in 1..n : Zeros(n)[i] = 0
<1>1. PICK z : z = [i \in 1..n |-> 0]
  OBVIOUS
<1>2. z \in Seq(Hashed) /\ Len(z) = n /\ \A i \in 1..n : z[i] = 0
  BY <1>1, IntsAreHashed
<1>3. z \o << >> = z
  BY <1>2, ConcatEmptySeq
<1>4. QED
  BY <1>1, <1>2, <1>3, Zenon DEF Zeros

LEMMA ZerosJoin ==
  ASSUME NEW j \in Nat, NEW k \in Nat  PROVE Zeros(j) \o Zeros(k) = Zeros(j + k)
<1>1. PICK a, b, c : a = Zeros(j) /\ b = Zeros(k) /\ c = Zeros(j + k)
  OBVIOUS
<1>2. /\ a \in Seq(Hashed) /\ Len(a) = j /\ \A i \in 1..j : a[i] = 0
      /\ b \in Seq(Hashed) /\ Len(b) = k /\ \A i \in 1..k : b[i] = 0
  BY <1>1, ZerosAre, Zenon
<1>3. c \in Seq(Hashed) /\ Len(c) = j + k /\ \A i \in 1..(j + k) : c[i] = 0
  <2>1. j + k \in Nat
    OBVIOUS
  <2>2. QED
    BY <1>1, <2>1, ZerosAre, Zenon
<1>4. /\ a \o b \in Seq(Hashed) /\ Len(a \o b) = j + k
      /\ \A i \in 1..(j + k) : (a \o b)[i] = 0
  BY <1>2, SMT
<1>5. a \o b = c
  BY <1>3, <1>4, SameSequence
<1>6. QED
  BY <1>1, <1>5

(* How many zeros there are.                                                  *)
ZerosFor(r) == (2 * BlockBytes - LengthBytes - 1 - r) % BlockBytes

LEMMA ZerosForOffset ==
  ASSUME NEW r \in Nat, r < BlockBytes
  PROVE  ZerosFor(r) = IF r < BlockBytes - 2 THEN BlockBytes - 3 - r ELSE 2 * BlockBytes - 3 - r
<1>1. PICK B \in Nat \ {0} : B = BlockBytes /\ 2 < B /\ LengthBytes = 2
  BY CountIsBlocks, StreamAssumption
<1>2. CASE r < B - 2
  <2>1. PICK x \in Nat, k \in Nat : x = 2 * B - LengthBytes - 1 - r /\ k = B - 3 - r
    <3>1. 2 * B - LengthBytes - 1 - r \in Nat /\ B - 3 - r \in Nat
      BY <1>1, <1>2, SMT
    <3>2. QED
      BY <3>1
  <2>2. k < B /\ x = B * 1 + k /\ 1 \in Nat
    BY <1>1, <1>2, <2>1, SMT
  <2>3. x % B = k
    BY <2>2, DivModUnique
  <2>4. QED
    BY <1>1, <1>2, <2>1, <2>3 DEF ZerosFor
<1>3. CASE ~(r < B - 2)
  <2>1. PICK x \in Nat : x = 2 * B - LengthBytes - 1 - r /\ x = 2 * B - 3 - r
    <3>1. 2 * B - LengthBytes - 1 - r \in Nat /\ 2 * B - LengthBytes - 1 - r = 2 * B - 3 - r
      BY <1>1, <1>3, SMT
    <3>2. QED
      BY <3>1
  <2>2. x < B /\ x = B * 0 + x /\ 0 \in Nat
    BY <1>1, <1>3, <2>1, SMT
  <2>3. x % B = x
    BY <2>2, DivModUnique
  <2>4. QED
    BY <1>1, <1>3, <2>1, <2>3 DEF ZerosFor
<1>4. QED
  BY <1>1, <1>2, <1>3

(* The padded message, its parts named.                                       *)
LEMMA PaddedIs ==
  ASSUME NEW m \in Seq(Hashed), NEW r, r = Len(m) % BlockBytes
  PROVE  /\ r \in Nat /\ r < BlockBytes /\ ZerosFor(r) \in Nat
         /\ Abstract!LengthOf(Len(m)) \in Seq(Hashed) /\ Len(Abstract!LengthOf(Len(m))) = 2
         /\ Abstract!Padded(m) =
              ((m \o <<128>>) \o Zeros(ZerosFor(r))) \o Abstract!LengthOf(Len(m))
<1>1. Len(m) \in Nat
  OBVIOUS
<1>2. r \in Nat /\ r < BlockBytes
  BY <1>1, Offset
<1>3. ZerosFor(r) \in Nat
  BY <1>2, ZerosForOffset, CountIsBlocks, SMT
<1>4. Zeros(ZerosFor(r)) = [i \in 1..ZerosFor(r) |-> 0]
  BY <1>3, ZerosAre, Zenon
<1>5. Abstract!LengthOf(Len(m)) \in Seq(Hashed) /\ Len(Abstract!LengthOf(Len(m))) = 2
  <2>1. 8 * Len(m) \in Nat /\ CountSize \in Nat \ {0}
    BY <1>1, CountIsBlocks
  <2>2. PICK x \in Nat, y \in Nat : x = (8 * Len(m)) \div CountSize /\ y = (8 * Len(m)) % CountSize
    BY <2>1, DivMod
  <2>3. x % CountSize \in Nat
    BY <2>1, DivMod
  <2>4. PICK z \in Nat : z = x % CountSize
    BY <2>3
  <2>5. Abstract!LengthOf(Len(m)) = <<z, y>>
    BY <2>2, <2>4 DEF Abstract!LengthOf
  <2>6. y \in Hashed /\ z \in Hashed
    BY IntsAreHashed
  <2>7. QED
    BY <2>5, <2>6
<1>6. Abstract!Padded(m) = ((m \o <<128>>) \o [i \in 1..ZerosFor(r) |-> 0]) \o Abstract!LengthOf(Len(m))
  BY DEF Abstract!Padded, ZerosFor
<1>7. QED
  BY <1>2, <1>3, <1>4, <1>5, <1>6, Zenon

(* SHA256_Final: the padding is added by two updates, which end a block.      *)
LEMMA FinalPads ==
  ASSUME NEW ctx, NEW m, DispatcherHolds(ctx, m)
  PROVE  SHA256_Final(ctx) = Abstract!Padded(m)
<1>1. PICK s, b : /\ Hold(s, b, m)
                  /\ ctx = [state |-> s, count |-> Abstract!LengthOf(Len(m)), buf |-> b]
  BY DEF DispatcherHolds
<1>2. m \in Seq(Hashed) /\ Len(m) \in Nat
  BY <1>1 DEF Hold
<1>3. PICK r, length : r = Len(m) % BlockBytes /\ length = Abstract!LengthOf(Len(m))
  OBVIOUS
<1>4. /\ r \in Nat /\ r < BlockBytes /\ ZerosFor(r) \in Nat /\ length \in Seq(Hashed) /\ Len(length) = 2
      /\ Abstract!Padded(m) = ((m \o <<128>>) \o Zeros(ZerosFor(r))) \o length
  BY <1>2, <1>3, PaddedIs, ZenonT(60)
<1>5. PICK zeros, pad : zeros = Zeros(ZerosFor(r)) /\ pad = <<128>> \o zeros
  OBVIOUS
<1>6. zeros \in Seq(Hashed) /\ Len(zeros) = ZerosFor(r) /\ <<128>> \in Seq(Hashed) /\ Len(<<128>>) = 1
  <2>1. <<128>> \in Seq(Hashed) /\ Len(<<128>>) = 1
    BY IntsAreHashed
  <2>2. QED
    BY <1>4, <1>5, <2>1, ZerosAre
<1>7. pad \in Seq(Hashed) /\ Len(pad) = 1 + ZerosFor(r)
  BY <1>5, <1>6, Joined
<1>8. ctx.count = length /\ (length[2] \div 8) % BlockBytes = r
  <2>1. length[2] = (8 * Len(m)) % CountSize
    BY <1>3 DEF Abstract!LengthOf
  <2>2. (((8 * Len(m)) % CountSize) \div 8) % BlockBytes = Len(m) % BlockBytes
    BY <1>2, OffsetOfBits
  <2>3. ctx.count = length
    BY <1>1, <1>3
  <2>4. QED
    BY <1>3, <2>1, <2>2, <2>3, Zenon
<1>9. SHA256_Pad(ctx) = SHA256_Update(SHA256_Update(ctx, pad), length)
  <2>1. PICK fill, plen : /\ fill = BlockBytes - LengthBytes
                          /\ plen = IF r < fill THEN fill - r ELSE BlockBytes + fill - r
    OBVIOUS
  <2>2. SHA256_Pad(ctx) = SHA256_Update(SHA256_Update(ctx, <<128>> \o Zeros(plen - 1)), length)
    BY <1>8, <2>1, Zenon DEF SHA256_Pad
  <2>3. plen - 1 = ZerosFor(r)
    <3>1. BlockBytes \in Nat /\ LengthBytes = 2
      BY StreamAssumption
    <3>2. ZerosFor(r) = IF r < BlockBytes - 2 THEN BlockBytes - 3 - r ELSE 2 * BlockBytes - 3 - r
      BY <1>4, ZerosForOffset
    <3>3. QED
      BY <1>4, <2>1, <3>1, <3>2, SMT
  <2>4. QED
    BY <1>5, <2>2, <2>3, Zenon
<1>10. PICK one, two, whole : /\ one = SHA256_Update(ctx, pad) /\ two = SHA256_Update(one, length)
                             /\ whole = (m \o pad) \o length
  OBVIOUS
<1>11. DispatcherHolds(two, whole)
  <2>1. DispatcherHolds(one, m \o pad)
    BY <1>7, <1>10, UpdateHolds, Zenon
  <2>2. QED
    BY <1>4, <1>10, <2>1, UpdateHolds, Zenon
<1>12. whole = Abstract!Padded(m)
  <2>1. (m \o <<128>>) \o zeros = m \o (<<128>> \o zeros)
    BY <1>2, <1>6, JoinAssociates, SMTT(40)
  <2>2. QED
    BY <1>4, <1>5, <1>10, <2>1, Zenon
<1>13. Len(whole) % BlockBytes = 0
  <2>1. m \o pad \in Seq(Hashed) /\ Len(m \o pad) = Len(m) + (1 + ZerosFor(r))
    BY <1>2, <1>7, Joined
  <2>2. Len(whole) = (Len(m) + (1 + ZerosFor(r))) + 2
    <3>1. PICK mp : mp = m \o pad /\ mp \in Seq(Hashed)
      BY <2>1
    <3>2. Len(mp \o length) = Len(mp) + Len(length)
      BY <1>4, <3>1, Joined, Zenon
    <3>3. QED
      BY <1>4, <1>10, <2>1, <3>1, <3>2, Zenon
  <2>3. PICK B \in Nat \ {0} : B = BlockBytes /\ 2 < B
    BY CountIsBlocks
  <2>4. PICK q \in Nat : Len(m) = B * q + r
    <3>1. Len(m) \div B \in Nat /\ Len(m) = B * (Len(m) \div B) + (Len(m) % B)
      BY <1>2, DivMod
    <3>2. QED
      BY <1>3, <2>3, <3>1
  <2>5. PICK k \in Nat, x \in Nat : x = Len(whole) /\ x = B * k + 0
    <3>1. ZerosFor(r) = IF r < B - 2 THEN B - 3 - r ELSE 2 * B - 3 - r
      BY <1>4, <2>3, ZerosForOffset
    <3>2. CASE r < B - 2
      <4>1. Len(whole) = B * q + B
        BY <1>2, <1>4, <2>2, <2>3, <2>4, <3>1, <3>2, SMT
      <4>2. q + 1 \in Nat /\ B * q + B \in Nat /\ B * q + B = B * (q + 1) + 0
        OBVIOUS
      <4>3. QED
        BY <4>1, <4>2
    <3>3. CASE ~(r < B - 2)
      <4>1. Len(whole) = B * q + 2 * B
        BY <1>2, <1>4, <2>2, <2>3, <2>4, <3>1, <3>3, SMT
      <4>2. q + 2 \in Nat /\ B * q + 2 * B \in Nat /\ B * q + 2 * B = B * (q + 2) + 0
        OBVIOUS
      <4>3. QED
        BY <4>1, <4>2
    <3>4. QED
      BY <3>2, <3>3
  <2>6. 0 < B /\ 0 \in Nat
    OBVIOUS
  <2>7. x % B = 0
    BY <2>5, <2>6, DivModUnique
  <2>8. QED
    BY <2>3, <2>5, <2>7
<1>14. two.state = whole
  <2>1. PICK s2, b2 : Hold(s2, b2, whole) /\ two = [state |-> s2, count |-> Abstract!LengthOf(Len(whole)), buf |-> b2]
    BY <1>11 DEF DispatcherHolds
  <2>2. /\ s2 \in Seq(Hashed) /\ b2 \in Seq(Hashed)
        /\ s2 \o SubSeq(b2, 1, Len(whole) % BlockBytes) = whole
    BY <2>1, Zenon DEF Hold
  <2>3. s2 \o SubSeq(b2, 1, 0) = whole
    BY <1>13, <2>2, Zenon
  <2>4. SubSeq(b2, 1, 0) = << >> /\ s2 \o << >> = s2
    BY <2>2, ConcatEmptySeq
  <2>5. two.state = s2
    BY <2>1
  <2>6. QED
    BY <2>3, <2>4, <2>5, Zenon
<1>15. QED
  BY <1>9, <1>10, <1>12, <1>14, Zenon DEF SHA256_Final

(* sha224_close: the padding is written into the buffer.                      *)
LEMMA ClosePads ==
  ASSUME NEW sc, NEW m, SphHolds(sc, m)
  PROVE  sha224_close(sc) = Abstract!Padded(m)
<1>1. PICK s, b : /\ Hold(s, b, m)
                  /\ sc = [state |-> s, count |-> Len(m) % CountModulus, buf |-> b]
  BY DEF SphHolds
<1>2. m \in Seq(Hashed) /\ Len(m) \in Nat
  BY <1>1 DEF Hold
<1>3. PICK r, length, a, zeros : /\ r = Len(m) % BlockBytes /\ length = Abstract!LengthOf(Len(m))
                                 /\ a = SubSeq(b, 1, r) /\ zeros = Zeros(ZerosFor(r))
  OBVIOUS
<1>4. /\ r \in Nat /\ r < BlockBytes /\ ZerosFor(r) \in Nat /\ length \in Seq(Hashed) /\ Len(length) = 2
      /\ Abstract!Padded(m) = ((m \o <<128>>) \o zeros) \o length
  BY <1>2, <1>3, PaddedIs, ZenonT(60)
<1>5. s \in Seq(Hashed) /\ b \in Seq(Hashed) /\ Len(b) = BlockBytes /\ s \o a = m
  BY <1>1, <1>3, Zenon DEF Hold
<1>6. /\ sc.count % BlockBytes = r
      /\ LET bits == (8 * sc.count) % CountModulus
         IN  <<bits \div CountSize, bits % CountSize>> = length
  <2>1. (Len(m) % CountModulus) % BlockBytes = Len(m) % BlockBytes
    BY <1>2, OffsetOfCount
  <2>2. sc.count = Len(m) % CountModulus
    BY <1>1
  <2>3. PICK bits : bits = (8 * (Len(m) % CountModulus)) % CountModulus
    OBVIOUS
  <2>4. <<bits \div CountSize, bits % CountSize>> = length
    BY <1>2, <1>3, <2>3, LengthOfCount, Zenon
  <2>5. QED
    BY <1>3, <2>1, <2>2, <2>3, <2>4, Zenon
<1>7. PICK B \in Nat : B = BlockBytes /\ 2 < B /\ LengthBytes = 2
  BY StreamAssumption
<1>8. PICK cur \in Nat, maxpad \in Nat :
        cur = r + 1 /\ maxpad = B - 2 /\ cur <= B /\ maxpad + 2 = B
  <2>1. r + 1 \in Nat /\ B - 2 \in Nat /\ r + 1 <= B /\ (B - 2) + 2 = B
    BY <1>4, <1>7, SMT
  <2>2. QED
    BY <2>1
<1>9. PICK one : one = <<128>> /\ one \in Seq(Hashed) /\ Len(one) = 1
  <2>1. <<128>> \in Seq(Hashed) /\ Len(<<128>>) = 1
    BY IntsAreHashed
  <2>2. QED
    BY <2>1, Zenon
<1>10. PICK marked : marked = Copy(b, r, one)
  OBVIOUS
<1>11. marked \in Seq(Hashed) /\ Len(marked) = BlockBytes /\ SubSeq(marked, 1, cur) = a \o one
  <2>1. r + Len(one) <= BlockBytes /\ r + Len(one) = cur
    BY <1>7, <1>8, <1>9
  <2>2. /\ Copy(b, r, one) \in Seq(Hashed) /\ Len(Copy(b, r, one)) = BlockBytes
        /\ SubSeq(Copy(b, r, one), 1, r + Len(one)) = SubSeq(b, 1, r) \o one
    <3>1. b \in Seq(Hashed) /\ Len(b) = BlockBytes /\ r \in Nat /\ one \in Seq(Hashed)
      BY <1>4, <1>5, <1>9, Zenon
    <3>2. QED
      BY <2>1, <3>1, Copied
  <2>3. QED
    BY <1>3, <1>10, <2>1, <2>2, Zenon
<1>12. a \in Seq(Hashed) /\ a \o one \in Seq(Hashed) /\ s \o (a \o one) = m \o one /\ m \o one \in Seq(Hashed)
  <2>1. r \in 0..Len(b)
    BY <1>4, <1>5, <1>7
  <2>2. a \in Seq(Hashed)
    BY <1>3, <1>5, <2>1, Cut
  <2>3. (s \o a) \o one = s \o (a \o one)
    <3>1. s \in Seq(Hashed) /\ one \in Seq(Hashed)
      BY <1>5, <1>9, Zenon
    <3>2. QED
      BY <2>2, <3>1, JoinAssociates
  <2>4. a \o one \in Seq(Hashed) /\ m \o one \in Seq(Hashed)
    BY <1>2, <1>9, <2>2, Joined
  <2>5. QED
    BY <1>5, <2>2, <2>3, <2>4, Zenon
<1>13. sha224_close(sc) =
         IF cur > maxpad
         THEN s \o Copy(marked, cur, Zeros(B - cur)) \o Zeros(maxpad) \o length
         ELSE s \o Copy(Copy(marked, cur, Zeros(maxpad - cur)), maxpad, length)
  <2>1. sc.state = s /\ sc.buf = b
    BY <1>1
  <2>2. BlockBytes - LengthBytes = maxpad /\ (r + 1) - 1 = r
    BY <1>4, <1>7, <1>8, SMT
  <2>3. QED
    BY <1>6, <1>7, <1>8, <1>9, <1>10, <2>1, <2>2, ZenonT(60) DEF sha224_close
<1>14. ZerosFor(r) = IF r < B - 2 THEN B - 3 - r ELSE 2 * B - 3 - r
  BY <1>4, <1>7, ZerosForOffset
<1>15. CASE cur > maxpad
  <2>1. PICK k \in Nat : k = B - cur
    <3>1. B - cur \in Nat
      BY <1>8, SMT
    <3>2. QED
      BY <3>1
  <2>2. PICK z1, z2 : z1 = Zeros(k) /\ z2 = Zeros(maxpad)
    OBVIOUS
  <2>3. z1 \in Seq(Hashed) /\ Len(z1) = k /\ z2 \in Seq(Hashed) /\ Len(z2) = maxpad
    BY <2>2, ZerosAre, Zenon
  <2>4. z1 \o z2 = zeros
    <3>1. k + maxpad = ZerosFor(r)
      BY <1>4, <1>7, <1>8, <1>14, <1>15, <2>1, SMT
    <3>2. Zeros(k) \o Zeros(maxpad) = Zeros(k + maxpad)
      BY ZerosJoin
    <3>3. QED
      BY <1>3, <2>2, <3>1, <3>2, Zenon
  <2>5. Copy(marked, cur, z1) = (a \o one) \o z1
    <3>1. cur + Len(z1) = BlockBytes /\ cur + Len(z1) <= BlockBytes
      BY <1>7, <1>8, <2>1, <2>3
    <3>2. Copy(marked, cur, z1) = SubSeq(marked, 1, cur) \o z1
      BY <1>11, <2>3, <3>1, Copied
    <3>3. QED
      BY <1>11, <3>2, Zenon
  <2>6. s \o ((a \o one) \o z1) = (m \o one) \o z1
    <3>1. (s \o (a \o one)) \o z1 = s \o ((a \o one) \o z1)
      <4>1. PICK ao : ao = a \o one /\ ao \in Seq(Hashed)
        BY <1>12
      <4>2. (s \o ao) \o z1 = s \o (ao \o z1)
        BY <1>5, <2>3, <4>1, JoinAssociates, ZenonT(60)
      <4>3. QED
        BY <4>1, <4>2, Zenon
    <3>2. QED
      BY <1>12, <3>1, Zenon
  <2>7. ((m \o one) \o z1) \o z2 = (m \o one) \o zeros
    <3>1. PICK mo : mo = m \o one /\ mo \in Seq(Hashed)
      BY <1>12
    <3>2. (mo \o z1) \o z2 = mo \o (z1 \o z2)
      BY <2>3, <3>1, JoinAssociates, Zenon
    <3>3. QED
      BY <2>4, <3>1, <3>2, Zenon
  <2>8. sha224_close(sc) = ((s \o Copy(marked, cur, z1)) \o z2) \o length
    BY <1>13, <1>15, <2>1, <2>2, Zenon
  <2>9. QED
    BY <1>4, <1>9, <2>5, <2>6, <2>7, <2>8, ZenonT(60)
<1>16. CASE ~(cur > maxpad)
  <2>1. PICK k \in Nat : k = maxpad - cur /\ cur + k = maxpad
    <3>1. maxpad - cur \in Nat /\ cur + (maxpad - cur) = maxpad
      BY <1>8, <1>16, SMT
    <3>2. QED
      BY <3>1
  <2>2. k = ZerosFor(r)
    BY <1>4, <1>7, <1>8, <1>14, <1>16, <2>1, SMT
  <2>3. zeros = Zeros(k) /\ zeros \in Seq(Hashed) /\ Len(zeros) = k
    BY <1>3, <2>2, ZerosAre, Zenon
  <2>4. PICK inner : inner = Copy(marked, cur, zeros)
    OBVIOUS
  <2>5. /\ inner \in Seq(Hashed) /\ Len(inner) = BlockBytes
        /\ SubSeq(inner, 1, maxpad) = (a \o one) \o zeros
    <3>1. cur + Len(zeros) = maxpad /\ cur + Len(zeros) <= BlockBytes
      BY <1>7, <1>8, <2>1, <2>3
    <3>2. /\ Copy(marked, cur, zeros) \in Seq(Hashed) /\ Len(Copy(marked, cur, zeros)) = BlockBytes
          /\ SubSeq(Copy(marked, cur, zeros), 1, cur + Len(zeros)) = SubSeq(marked, 1, cur) \o zeros
      BY <1>11, <2>3, <3>1, Copied
    <3>3. QED
      BY <1>11, <2>4, <3>1, <3>2, Zenon
  <2>6. Copy(inner, maxpad, length) = ((a \o one) \o zeros) \o length
    <3>1. maxpad + Len(length) = BlockBytes /\ maxpad + Len(length) <= BlockBytes
      BY <1>4, <1>7, <1>8
    <3>2. Copy(inner, maxpad, length) = SubSeq(inner, 1, maxpad) \o length
      BY <1>4, <2>5, <3>1, Copied, ZenonT(60)
    <3>3. QED
      BY <2>5, <3>2, Zenon
  <2>7. PICK ao, aoz : ao = a \o one /\ ao \in Seq(Hashed) /\ aoz = ao \o zeros /\ aoz \in Seq(Hashed)
    <3>1. PICK ao : ao = a \o one /\ ao \in Seq(Hashed)
      BY <1>12
    <3>2. ao \o zeros \in Seq(Hashed)
      BY <2>3, <3>1, Joined, Zenon
    <3>3. QED
      BY <3>1, <3>2
  <2>8. (s \o ao) \o zeros = s \o aoz
    <3>1. s \in Seq(Hashed) /\ ao \in Seq(Hashed) /\ zeros \in Seq(Hashed)
      BY <1>5, <2>3, <2>7, Zenon
    <3>2. (s \o ao) \o zeros = s \o (ao \o zeros)
      BY <3>1, JoinAssociates
    <3>3. QED
      BY <2>7, <3>2, Zenon
  <2>9. (s \o aoz) \o length = s \o (aoz \o length)
    <3>1. s \in Seq(Hashed) /\ aoz \in Seq(Hashed) /\ length \in Seq(Hashed)
      BY <1>4, <1>5, <2>7, Zenon
    <3>2. QED
      BY <3>1, JoinAssociates
  <2>10. sha224_close(sc) = s \o (aoz \o length)
    BY <1>13, <1>16, <2>1, <2>3, <2>4, <2>6, <2>7, Zenon
  <2>11. QED
    BY <1>4, <1>9, <1>12, <2>7, <2>8, <2>9, <2>10, ZenonT(60)
<1>17. QED
  BY <1>15, <1>16

-----------------------------------------------------------------------------
(* The inductive invariant: until the digest is asked for the context holds   *)
(* the message, and the bytes sha224_short has still to take continue it.     *)
ContextHolds ==
    digest = << >> => IF library = "sph" THEN SphHolds(context, message)
                      ELSE DispatcherHolds(context, message)
PendingContinues ==
    /\ pending \in Seq(Hashed) /\ Len(message) + Len(pending) <= MaxBytes
    /\ \A i \in 1..Len(pending) : pending[i] = Len(message) + i
    /\ pending # << >> => library = "sph" /\ digest = << >>
StreamInv ==
    /\ library \in {"dispatcher", "sph"} /\ message \in Seq(Hashed)
    /\ PendingContinues /\ ContextHolds

BytesFrom(L, n) == [i \in 1..n |-> L + i]

LEMMA BytesAre ==
  ASSUME NEW L \in Nat, NEW n \in Nat, NEW z, z = BytesFrom(L, n)
  PROVE  /\ z \in Seq(Hashed) /\ Len(z) = n /\ z \o << >> = z
         /\ \A i \in 1..n : z[i] = L + i
<1>1. z \in Seq(Hashed) /\ Len(z) = n /\ \A i \in 1..n : z[i] = L + i
  BY IntsAreHashed, SMT DEF BytesFrom
<1>2. QED
  BY <1>1, ConcatEmptySeq

LEMMA EmptyHold ==
  /\ Hold(<< >>, EmptyBuf, << >>)
  /\ DispatcherHolds(SHA256_Init, << >>) /\ SphHolds(sph_sha256_init, << >>)
<1>1. BlockBytes \in Nat \ {0} /\ CountSize \in Nat \ {0} /\ CountModulus \in Nat \ {0}
  BY CountIsBlocks
<1>2. EmptyBuf \in Seq(Hashed) /\ Len(EmptyBuf) = BlockBytes
  <2>1. PICK z : z = [i \in 1..BlockBytes |-> -1]
    OBVIOUS
  <2>2. z \in Seq(Hashed) /\ Len(z) = BlockBytes
    BY <1>1, <2>1, IntsAreHashed, SMT
  <2>3. z \o << >> = z
    BY <2>2, ConcatEmptySeq
  <2>4. QED
    BY <2>1, <2>2, <2>3, Zenon DEF EmptyBuf, Junk
<1>3. /\ 0 % BlockBytes = 0 /\ 0 % CountModulus = 0
      /\ 8 * 0 = 0 /\ 0 \div CountSize = 0 /\ 0 % CountSize = 0
  <2>1. \A y \in Nat \ {0} : 0 % y = 0 /\ 0 \div y = 0
    <3>1. ASSUME NEW y \in Nat \ {0}  PROVE 0 % y = 0 /\ 0 \div y = 0
      <4>1. 0 \in Nat /\ 0 < y /\ 0 = y * 0 + 0
        OBVIOUS
      <4>2. QED
        BY <4>1, DivModUnique, Zenon
    <3>2. QED
      BY <3>1
  <2>2. QED
    BY <1>1, <2>1
<1>4. << >> \in Seq(Hashed) /\ Len(<< >>) = 0
  OBVIOUS
<1>5. SubSeq(EmptyBuf, 1, 0) = << >>
  BY <1>2
<1>6. << >> \o << >> = << >>
  BY <1>4, ConcatEmptySeq
<1>7. Hold(<< >>, EmptyBuf, << >>)
  BY <1>2, <1>3, <1>4, <1>5, <1>6, Zenon DEF Hold
<1>8. Abstract!LengthOf(0) = <<0, 0>>
  BY <1>3, Zenon DEF Abstract!LengthOf
<1>9. QED
  BY <1>3, <1>4, <1>7, <1>8, Zenon DEF DispatcherHolds, SphHolds, SHA256_Init, sph_sha256_init

LEMMA PaddedNotEmpty ==
  ASSUME NEW m \in Seq(Hashed)  PROVE Abstract!Padded(m) # << >>
<1>1. PICK r, length, head :
        /\ r = Len(m) % BlockBytes /\ length = Abstract!LengthOf(Len(m))
        /\ head = (m \o <<128>>) \o Zeros(ZerosFor(r))
  OBVIOUS
<1>2. /\ ZerosFor(r) \in Nat /\ length \in Seq(Hashed) /\ Len(length) = 2
      /\ Abstract!Padded(m) = head \o length
  BY <1>1, PaddedIs, Zenon
<1>3. Zeros(ZerosFor(r)) \in Seq(Hashed)
  BY <1>2, ZerosAre
<1>4. m \o <<128>> \in Seq(Hashed)
  <2>1. <<128>> \in Seq(Hashed)
    BY IntsAreHashed
  <2>2. QED
    BY <2>1
<1>5. head \in Seq(Hashed) /\ Len(head) \in Nat
  <2>1. head \in Seq(Hashed)
    BY <1>1, <1>3, <1>4, Joined, Zenon
  <2>2. QED
    BY <2>1
<1>6. Len(head \o length) = Len(head) + Len(length)
  BY <1>2, <1>5, Joined, Zenon
<1>7. Len(head \o length) # 0
  BY <1>2, <1>5, <1>6
<1>8. Len(<< >>) = 0
  OBVIOUS
<1>9. QED
  BY <1>2, <1>7, <1>8, Zenon

LEMMA StreamStarts == StreamStart => StreamInv
<1> SUFFICES ASSUME StreamStart  PROVE StreamInv
  OBVIOUS
<1>1. /\ library \in {"dispatcher", "sph"} /\ pending = << >> /\ message = << >>
      /\ context = IF library = "sph" THEN sph_sha256_init ELSE SHA256_Init
  BY DEF StreamStart
<1>2. << >> \in Seq(Hashed) /\ Len(<< >>) = 0 /\ 0 + 0 <= MaxBytes /\ 1..0 = {}
  BY StreamAssumption
<1>3. PendingContinues
  BY <1>1, <1>2, Zenon DEF PendingContinues
<1>4. ContextHolds
  BY <1>1, EmptyHold, Zenon DEF ContextHolds
<1>5. QED
  BY <1>1, <1>2, <1>3, <1>4, Zenon DEF StreamInv

(* A step adds bytes to the message, pads it, or is no step of the abstract   *)
(* hash; and it keeps the invariant.                                          *)
LEMMA UpdateStep ==
  ASSUME StreamInv, NEW n \in 0..MaxBytes, NEW unalignedRead \in BOOLEAN, Update(n, unalignedRead)
  PROVE  StreamInv' /\ Abstract!AddBytes(n)
<1>1. /\ digest = << >> /\ pending = << >> /\ Len(message) + n <= MaxBytes
      /\ library = "sph" => InPlace(n, unalignedRead)
      /\ message' = message \o NewBytes(n)
      /\ context' = IF library = "sph" THEN sph_sha256(context, NewBytes(n))
                    ELSE SHA256_Update(context, NewBytes(n))
      /\ library' = library /\ pending' = pending /\ digest' = digest
  BY DEF Update
<1>2. library \in {"dispatcher", "sph"} /\ message \in Seq(Hashed) /\ Len(message) \in Nat
  BY DEF StreamInv
<1>3. n \in Nat /\ MaxBytes \in Nat /\ BlockBytes \in Nat
  BY StreamAssumption
<1>4. PICK L, new : L \in Nat /\ L = Len(message) /\ new = BytesFrom(L, n)
  <2>1. PICK L \in Nat : L = Len(message)
    BY <1>2
  <2>2. QED
    BY <2>1
<1>5. new \in Seq(Hashed) /\ Len(new) = n /\ NewBytes(n) = new
  <2>1. new \in Seq(Hashed) /\ Len(new) = n /\ new \o << >> = new
    BY <1>3, <1>4, BytesAre, Zenon
  <2>2. NewBytes(n) = new \o << >>
    BY <1>4 DEF NewBytes, BytesFrom
  <2>3. QED
    BY <2>1, <2>2, Zenon
<1>6. message' \in Seq(Hashed) /\ Len(message') = L + n
  BY <1>1, <1>2, <1>4, <1>5, Joined, ZenonT(60)
<1>7. PendingContinues'
  <2>1. << >> \in Seq(Hashed) /\ Len(<< >>) = 0 /\ 1..0 = {} /\ (L + n) + 0 <= MaxBytes
    BY <1>1, <1>3, <1>4
  <2>2. pending' = << >>
    BY <1>1
  <2>3. QED
    BY <1>6, <2>1, <2>2, Zenon DEF PendingContinues
<1>8. ContextHolds'
  <2>1. CASE library = "sph"
    <3>1. SphHolds(context, message)
      BY <1>1, <2>1, Zenon DEF StreamInv, ContextHolds
    <3>2. Len(new) >= BlockBytes
      BY <1>1, <1>3, <1>5, <2>1 DEF InPlace
    <3>3. SphHolds(sph_sha256(context, new), message \o new)
      BY <1>5, <3>1, <3>2, InPlaceHolds, Zenon
    <3>4. QED
      BY <1>1, <1>5, <2>1, <3>3, Zenon DEF ContextHolds
  <2>2. CASE library # "sph"
    <3>1. DispatcherHolds(context, message)
      BY <1>1, <2>2, Zenon DEF StreamInv, ContextHolds
    <3>2. DispatcherHolds(SHA256_Update(context, new), message \o new)
      BY <1>5, <3>1, UpdateHolds, Zenon
    <3>3. QED
      BY <1>1, <1>5, <2>2, <3>2, Zenon DEF ContextHolds
  <2>3. QED
    BY <2>1, <2>2
<1>9. Abstract!AddBytes(n)
  BY <1>1, <1>4, <1>5, Zenon DEF Abstract!AddBytes, BytesFrom
<1>10. QED
  BY <1>1, <1>2, <1>6, <1>7, <1>8, <1>9, Zenon DEF StreamInv

LEMMA BeginShortStep ==
  ASSUME StreamInv, NEW n \in 0..MaxBytes, NEW unalignedRead \in BOOLEAN, BeginShort(n, unalignedRead)
  PROVE  StreamInv' /\ message' = message /\ digest' = digest
<1>1. /\ library = "sph" /\ digest = << >> /\ Len(message) + n <= MaxBytes
      /\ pending' = NewBytes(n)
      /\ library' = library /\ context' = context /\ message' = message /\ digest' = digest
  BY DEF BeginShort
<1>2. message \in Seq(Hashed) /\ Len(message) \in Nat /\ n \in Nat
  BY StreamAssumption DEF StreamInv
<1>3. PICK L, new : L \in Nat /\ L = Len(message) /\ new = BytesFrom(L, n)
  <2>1. PICK L \in Nat : L = Len(message)
    BY <1>2
  <2>2. QED
    BY <2>1
<1>4. /\ new \in Seq(Hashed) /\ Len(new) = n /\ NewBytes(n) = new
      /\ \A i \in 1..n : new[i] = L + i
  <2>1. /\ new \in Seq(Hashed) /\ Len(new) = n /\ new \o << >> = new
        /\ \A i \in 1..n : new[i] = L + i
    <3>1. n \in Nat
      BY <1>2
    <3>2. new \in Seq(Hashed) /\ Len(new) = n /\ new \o << >> = new
      BY <1>3, <3>1, BytesAre, Zenon
    <3>3. ASSUME NEW i \in 1..n  PROVE new[i] = L + i
      BY <1>3, <3>1 DEF BytesFrom
    <3>4. QED
      BY <3>2, <3>3
  <2>2. NewBytes(n) = new \o << >>
    BY <1>3 DEF NewBytes, BytesFrom
  <2>3. QED
    BY <2>1, <2>2, Zenon
<1>5. PendingContinues'
  BY <1>1, <1>3, <1>4, Zenon DEF PendingContinues
<1>6. ContextHolds'
  BY <1>1, Zenon DEF StreamInv, ContextHolds
<1>7. QED
  BY <1>1, <1>5, <1>6, Zenon DEF StreamInv

LEMMA TakeShortStep ==
  ASSUME StreamInv, TakeShort
  PROVE  StreamInv' /\ \E n \in 0..MaxBytes : Abstract!AddBytes(n)
<1>1. PICK clen, taken : clen = TakenLen(context, pending) /\ taken = SubSeq(pending, 1, clen)
  OBVIOUS
<1>2. /\ pending # << >> /\ context' = sha224_short(context, pending)
      /\ message' = message \o taken /\ pending' = Rest(pending, clen)
      /\ library' = library /\ digest' = digest
  BY <1>1, Zenon DEF TakeShort
<1>3. /\ message \in Seq(Hashed) /\ pending \in Seq(Hashed) /\ library = "sph" /\ digest = << >>
      /\ Len(message) + Len(pending) <= MaxBytes
      /\ \A i \in 1..Len(pending) : pending[i] = Len(message) + i
      /\ SphHolds(context, message)
  BY <1>2, Zenon DEF StreamInv, PendingContinues, ContextHolds
<1>4. /\ clen \in 0..Len(pending) /\ taken \in Seq(Hashed) /\ Len(taken) = clen
      /\ SphHolds(context', message')
  <2>1. PICK sc, m, data : sc = context /\ m = message /\ data = pending
    OBVIOUS
  <2>2. /\ SphHolds(sc, m) /\ data \in Seq(Hashed)
        /\ clen = TakenLen(sc, data) /\ taken = SubSeq(data, 1, clen)
    BY <1>1, <1>3, <2>1, Zenon
  <2>3. /\ clen \in 0..Len(data) /\ taken \in Seq(Hashed) /\ Len(taken) = clen
        /\ SphHolds(sha224_short(sc, data), m \o taken)
    <3>1. ShortTakes(sc, m, data, clen, taken)
      BY <2>2, ShortHolds, Zenon
    <3>2. QED
      BY <3>1, Zenon DEF ShortTakes
  <2>4. QED
    BY <1>2, <2>1, <2>3, Zenon
<1>5. PICK L \in Nat, P \in Nat : L = Len(message) /\ P = Len(pending) /\ MaxBytes \in Nat
  <2>1. Len(message) \in Nat /\ Len(pending) \in Nat
    BY <1>3
  <2>2. QED
    BY <2>1, StreamAssumption
<1>6. clen \in Nat /\ clen <= P /\ clen \in 0..MaxBytes
  <2>1. clen \in 0..P /\ L + P <= MaxBytes
    BY <1>3, <1>4, <1>5, Zenon
  <2>2. QED
    BY <1>5, <2>1
<1>7. PICK new : new = BytesFrom(L, clen)
  OBVIOUS
<1>8. taken = new
  <2>1. new \in Seq(Hashed) /\ Len(new) = clen /\ \A i \in 1..clen : new[i] = L + i
    BY <1>6, <1>7, BytesAre, ZenonT(60)
  <2>2. \A i \in 1..clen : taken[i] = pending[i] /\ i \in 1..P
    BY <1>1, <1>3, <1>5, <1>6, SMT
  <2>3. \A i \in 1..clen : taken[i] = new[i]
    BY <1>3, <1>5, <2>1, <2>2, Zenon
  <2>4. QED
    BY <1>4, <2>1, <2>3, SameSequence
<1>9. message' \in Seq(Hashed) /\ Len(message') = L + clen
  BY <1>2, <1>3, <1>4, <1>5, Joined
<1>10. PendingContinues'
  <2>1. PICK rest : rest = Rest(pending, clen)
    OBVIOUS
  <2>2. /\ rest \in Seq(Hashed) /\ Len(rest) = P - clen
        /\ \A i \in 1..(P - clen) : rest[i] = pending[clen + i] /\ clen + i \in 1..P
    BY <1>3, <1>5, <1>6, <2>1, SMT DEF Rest
  <2>3. \A i \in 1..(P - clen) : rest[i] = (L + clen) + i
    <3>1. ASSUME NEW i \in 1..(P - clen)  PROVE rest[i] = (L + clen) + i
      <4>1. rest[i] = L + (clen + i)
        BY <1>3, <1>5, <2>2, Zenon
      <4>2. L + (clen + i) = (L + clen) + i
        BY <1>5, <1>6
      <4>3. QED
        BY <4>1, <4>2
    <3>2. QED
      BY <3>1
  <2>4. (L + clen) + (P - clen) <= MaxBytes
    <3>1. L + P <= MaxBytes
      BY <1>3, <1>5, Zenon
    <3>2. QED
      BY <1>5, <1>6, <3>1
  <2>5. QED
    BY <1>2, <1>3, <1>9, <2>1, <2>2, <2>3, <2>4, Zenon DEF PendingContinues
<1>11. ContextHolds'
  BY <1>2, <1>3, <1>4, Zenon DEF ContextHolds
<1>12. Abstract!AddBytes(clen)
  BY <1>2, <1>3, <1>5, <1>7, <1>8, Zenon DEF Abstract!AddBytes, BytesFrom
<1>13. QED
  BY <1>2, <1>6, <1>9, <1>10, <1>11, <1>12, Zenon DEF StreamInv

LEMMA FinalStep ==
  ASSUME StreamInv, Final
  PROVE  StreamInv' /\ Abstract!Finish
<1>1. /\ digest = << >> /\ pending = << >>
      /\ digest' = IF library = "sph" THEN sha224_close(context) ELSE SHA256_Final(context)
      /\ library' = library /\ pending' = pending /\ message' = message
  BY DEF Final
<1>2. library \in {"dispatcher", "sph"} /\ message \in Seq(Hashed) /\ PendingContinues
  BY DEF StreamInv
<1>3. digest' = Abstract!Padded(message)
  <2>1. CASE library = "sph"
    <3>1. SphHolds(context, message)
      BY <1>1, <2>1, Zenon DEF StreamInv, ContextHolds
    <3>2. QED
      BY <1>1, <2>1, <3>1, ClosePads, Zenon
  <2>2. CASE library # "sph"
    <3>1. DispatcherHolds(context, message)
      BY <1>1, <2>2, Zenon DEF StreamInv, ContextHolds
    <3>2. QED
      BY <1>1, <2>2, <3>1, FinalPads, Zenon
  <2>3. QED
    BY <2>1, <2>2
<1>4. digest' # << >>
  BY <1>2, <1>3, PaddedNotEmpty, Zenon
<1>5. PendingContinues' /\ ContextHolds'
  BY <1>1, <1>2, <1>4, Zenon DEF PendingContinues, ContextHolds
<1>6. Abstract!Finish
  BY <1>1, <1>3, Zenon DEF Abstract!Finish
<1>7. QED
  BY <1>1, <1>2, <1>5, <1>6, Zenon DEF StreamInv

LEMMA StreamStep ==
  ASSUME StreamInv, [StreamNext]_streamVars
  PROVE  StreamInv' /\ [Abstract!HashNext]_(Abstract!hashSpecVars)
<1>1. CASE Final
  BY <1>1, FinalStep, Zenon DEF Abstract!HashNext
<1>2. CASE TakeShort
  BY <1>2, TakeShortStep, Zenon DEF Abstract!HashNext
<1>3. ASSUME NEW n \in 0..MaxBytes, NEW unalignedRead \in BOOLEAN, Update(n, unalignedRead)
      PROVE  StreamInv' /\ Abstract!HashNext
  BY <1>3, UpdateStep, Zenon DEF Abstract!HashNext
<1>4. ASSUME NEW n \in 0..MaxBytes, NEW unalignedRead \in BOOLEAN, BeginShort(n, unalignedRead)
      PROVE  StreamInv' /\ UNCHANGED Abstract!hashSpecVars
  BY <1>4, BeginShortStep, Zenon DEF Abstract!hashSpecVars
<1>5. CASE UNCHANGED streamVars
  BY <1>5, Zenon DEF streamVars, Abstract!hashSpecVars, StreamInv, PendingContinues, ContextHolds
<1>6. QED
  BY <1>1, <1>2, <1>3, <1>4, <1>5, Zenon DEF StreamNext

(* Both libraries implement the abstract hash of HashSpec: whatever the size   *)
(* of a block and of a counter, however SHA256_Update and sph_sha256 are       *)
(* called, and whether or not the input is read in place, the digest is the    *)
(* compression of the padded message.                                          *)
THEOREM StreamsHash == StreamSpecification => StreamImplementsHash
<1>1. StreamStart => Abstract!HashInit
  BY DEF StreamStart, Abstract!HashInit
<1>2. QED
  BY <1>1, StreamStarts, StreamStep, PTL
  DEF StreamSpecification, StreamImplementsHash, Abstract!HashSpecification

LEMMA StreamImplied == StreamInv => ContextHoldsMessage
<1> SUFFICES ASSUME StreamInv, digest = << >>, NEW used, used = Len(message) % BlockBytes
             PROVE  /\ context.state \o SubSeq(context.buf, 1, used) = message
                    /\ IF library = "sph" THEN context.count = Len(message) % CountModulus
                       ELSE context.count = Abstract!LengthOf(Len(message))
  BY Zenon DEF ContextHoldsMessage
<1>1. CASE library = "sph"
  <2>1. PICK s, b : /\ Hold(s, b, message)
                    /\ context = [state |-> s, count |-> Len(message) % CountModulus, buf |-> b]
    BY <1>1, Zenon DEF StreamInv, ContextHolds, SphHolds
  <2>2. context.state = s /\ context.buf = b /\ context.count = Len(message) % CountModulus
    BY <2>1
  <2>3. QED
    BY <1>1, <2>1, <2>2, Zenon DEF Hold
<1>2. CASE library # "sph"
  <2>1. PICK s, b : /\ Hold(s, b, message)
                    /\ context = [state |-> s, count |-> Abstract!LengthOf(Len(message)), buf |-> b]
    BY <1>2, Zenon DEF StreamInv, ContextHolds, DispatcherHolds
  <2>2. context.state = s /\ context.buf = b /\ context.count = Abstract!LengthOf(Len(message))
    BY <2>1
  <2>3. QED
    BY <1>2, <2>1, <2>2, Zenon DEF Hold
<1>3. QED
  BY <1>1, <1>2

(* At any time before the digest the compressed blocks and the used part of    *)
(* the buffer are the message, and the counter its length.                     *)
THEOREM StreamsHold == StreamSpecification => []ContextHoldsMessage
BY StreamStarts, StreamStep, StreamImplied, PTL DEF StreamSpecification

-----------------------------------------------------------------------------
(* The weights of the places.                                                 *)
WeightTable(n) == CHOOSE w : w = [i \in 0..n |-> IF i = 0 THEN 1 ELSE ByteSize * w[i - 1]]

LEMMA WeightTables ==
  ASSUME NEW n \in Nat, NEW w, w = WeightTable(n)
  PROVE  w[0] = 1 /\ (\A k \in 1..n : w[k] = ByteSize * w[k - 1]) /\ w \in [0..n -> Nat \ {0}]
<1>0. ByteSize \in Nat \ {0, 1} /\ ByteSize \in Nat
  BY TargetAssumption
<1>1. PICK f \in [0..n -> Nat] : f[0] = 1 /\ \A k \in 1..n : f[k] = ByteSize * f[k - 1]
  <2>1. PICK t : t = [k \in 1..n |-> 0]
    OBVIOUS
  <2>2. 1 \in Nat /\ \A k \in 1..n : t[k] \in Nat
    BY <2>1
  <2>3. PICK f \in [0..n -> Nat] : f[0] = 1 /\ \A k \in 1..n : f[k] = ByteSize * f[k - 1] + t[k]
    <3>1. \E f \in [0..n -> Nat] : Linear(f, n, 1, ByteSize, t)
      BY <1>0, <2>2, LinearRecursion
    <3>2. QED
      BY <3>1 DEF Linear
  <2>4. ASSUME NEW k \in 1..n  PROVE f[k] = ByteSize * f[k - 1]
    <3>1. t[k] = 0 /\ k - 1 \in 0..n
      BY <2>1
    <3>2. PICK x \in Nat : x = f[k - 1]
      BY <3>1
    <3>3. ByteSize * x + 0 = ByteSize * x
      BY <1>0
    <3>4. f[k] = ByteSize * f[k - 1] + t[k]
      BY <2>3
    <3>5. QED
      BY <3>1, <3>2, <3>3, <3>4, Zenon
  <2>5. QED
    BY <2>3, <2>4
<1>2. f = [i \in 0..n |-> IF i = 0 THEN 1 ELSE ByteSize * f[i - 1]]
  <2>1. f = [i \in 0..n |-> f[i]]
    OBVIOUS
  <2>2. ASSUME NEW i \in 0..n  PROVE f[i] = IF i = 0 THEN 1 ELSE ByteSize * f[i - 1]
    <3>1. i # 0 => i \in 1..n
      OBVIOUS
    <3>2. QED
      BY <1>1, <3>1, Zenon
  <2>3. QED
    BY <2>1, <2>2
<1>3. w = [i \in 0..n |-> IF i = 0 THEN 1 ELSE ByteSize * w[i - 1]]
  BY <1>2 DEF WeightTable
<1>4. w[0] = 1 /\ \A k \in 1..n : w[k] = ByteSize * w[k - 1]
  <2>1. \A i \in 0..n : w[i] = IF i = 0 THEN 1 ELSE ByteSize * w[i - 1]
    BY <1>3
  <2>2. 0 \in 0..n /\ \A k \in 1..n : k \in 0..n /\ k # 0
    OBVIOUS
  <2>3. QED
    BY <2>1, <2>2, Zenon
<1>5. \A k \in 0..n : w[k] \in Nat \ {0}
  <2> DEFINE S == {k \in 0..n : w[k] \in Nat \ {0}}
  <2>1. 0 \in S
    BY <1>4
  <2>2. ASSUME NEW k \in 0..(n - 1), k \in S  PROVE k + 1 \in S
    <3>1. k + 1 \in 1..n /\ (k + 1) - 1 = k /\ k + 1 \in 0..n
      OBVIOUS
    <3>2. PICK x \in Nat \ {0} : x = w[k]
      BY <2>2
    <3>3. ByteSize * x \in Nat \ {0}
      BY <1>0, SMT
    <3>4. w[k + 1] = ByteSize * x
      BY <1>4, <3>1, <3>2, Zenon
    <3>5. QED
      BY <3>1, <3>3, <3>4
  <2>3. \A k \in 0..n : k \in S
    <3> HIDE DEF S
    <3>1. QED
      BY <2>1, <2>2, InductionUpTo
  <2>4. QED
    BY <2>3
<1>6. w = [i \in 0..n |-> w[i]]
  BY <1>3
<1>7. w \in [0..n -> Nat \ {0}]
  BY <1>5, <1>6
<1>8. QED
  BY <1>4, <1>7

LEMMA WeightIs ==
  ASSUME NEW n \in Nat
  PROVE  /\ Weight(n) \in Nat \ {0} /\ Weight(0) = 1
         /\ Weight(n + 1) = ByteSize * Weight(n)
<1>1. \A m \in Nat : Weight(m) = WeightTable(m)[m]
  BY DEF Weight, WeightTable
<1>2. PICK u, w, z : u = WeightTable(n) /\ w = WeightTable(n + 1) /\ z = WeightTable(0)
  OBVIOUS
<1>3. n + 1 \in Nat /\ 0 \in Nat
  OBVIOUS
<1>4. u[0] = 1 /\ (\A k \in 1..n : u[k] = ByteSize * u[k - 1]) /\ u \in [0..n -> Nat \ {0}]
  BY <1>2, WeightTables, Zenon
<1>5. w[0] = 1 /\ (\A k \in 1..(n + 1) : w[k] = ByteSize * w[k - 1])
  BY <1>2, <1>3, WeightTables, Zenon
<1>6. z[0] = 1
  BY <1>2, <1>3, WeightTables, Zenon
<1>7. u[n] = w[n]
  <2>1. ASSUME NEW k \in 1..n, u[k - 1] = w[k - 1]  PROVE u[k] = w[k]
    <3>1. k \in 1..(n + 1)
      OBVIOUS
    <3>2. QED
      BY <1>4, <1>5, <2>1, <3>1, Zenon
  <2>2. u[0] = w[0]
    BY <1>4, <1>5
  <2>3. QED
    BY <2>1, <2>2, SameUpTo, Zenon
<1>8. w[n + 1] = ByteSize * w[n]
  <2>1. n + 1 \in 1..(n + 1) /\ (n + 1) - 1 = n
    OBVIOUS
  <2>2. QED
    BY <1>5, <2>1, Zenon
<1>9. u[n] \in Nat \ {0}
  BY <1>4
<1>10. Weight(n) = u[n] /\ Weight(n + 1) = w[n + 1] /\ Weight(0) = z[0]
  BY <1>1, <1>2, <1>3, Zenon
<1>11. QED
  BY <1>6, <1>7, <1>8, <1>9, <1>10, Zenon

LEMMA WeightOfSum ==
  ASSUME NEW m \in Nat, NEW n \in Nat
  PROVE  Weight(m + n) = Weight(m) * Weight(n)
<1> DEFINE S == {k \in 0..n : Weight(m + k) = Weight(m) * Weight(k)}
<1>0. PICK u \in Nat : u = Weight(m)
  BY WeightIs
<1>1. 0 \in S
  <2>1. m + 0 = m /\ u * 1 = u /\ 0 \in 0..n /\ 0 \in Nat
    OBVIOUS
  <2>2. Weight(0) = 1
    BY <2>1, WeightIs, Zenon
  <2>3. Weight(m + 0) = Weight(m) * Weight(0)
    BY <1>0, <2>1, <2>2, Zenon
  <2>4. QED
    BY <2>1, <2>3
<1>2. ASSUME NEW k \in 0..(n - 1), k \in S  PROVE k + 1 \in S
  <2>1. k \in Nat /\ k + 1 \in 0..n /\ m + k \in Nat /\ (m + k) + 1 = m + (k + 1)
    OBVIOUS
  <2>2. Weight(k + 1) = ByteSize * Weight(k) /\ Weight((m + k) + 1) = ByteSize * Weight(m + k)
    <3>1. Weight(k + 1) = ByteSize * Weight(k)
      BY <2>1, WeightIs, Zenon
    <3>2. Weight((m + k) + 1) = ByteSize * Weight(m + k)
      BY <2>1, WeightIs, Zenon
    <3>3. QED
      BY <3>1, <3>2
  <2>3. PICK x \in Nat : x = Weight(k)
    BY <2>1, WeightIs
  <2>4. ByteSize \in Nat
    BY TargetAssumption
  <2>5. ByteSize * (u * x) = u * (ByteSize * x)
    BY <2>4, SMT
  <2>6. Weight(m + k) = u * x
    BY <1>0, <1>2, <2>3
  <2>7. Weight(m + (k + 1)) = Weight(m) * Weight(k + 1)
    BY <1>0, <2>1, <2>2, <2>3, <2>5, <2>6, Zenon
  <2>8. QED
    BY <2>1, <2>7
<1>3. n \in S
  <2> HIDE DEF S
  <2>1. \A k \in 0..n : k \in S
    BY <1>1, <1>2, InductionUpTo
  <2>2. QED
    BY <2>1
<1>4. QED
  BY <1>3

-----------------------------------------------------------------------------
(* The numbers that bytes stand for.                                          *)
AreBytes(b, n) == \A i \in 1..n : b[i] \in Byte
ValueTable(b, n) == CHOOSE v : v = [i \in 0..n |-> IF i = 0 THEN 0 ELSE v[i - 1] + b[i] * Weight(i - 1)]

LEMMA ByteIsNat ==
  /\ ByteSize \in Nat \ {0, 1} /\ ByteSize \in Nat \ {0} /\ Byte \subseteq Nat
  /\ \A x \in Byte : x \in Nat /\ x < ByteSize
BY TargetAssumption DEF Byte

LEMMA ValueTables ==
  ASSUME NEW n \in Nat, NEW b, AreBytes(b, n), NEW v, v = ValueTable(b, n)
  PROVE  /\ v[0] = 0 /\ (\A k \in 1..n : v[k] = v[k - 1] + b[k] * Weight(k - 1))
         /\ \A k \in 0..n : v[k] \in Nat
<1>1. PICK t : t = [k \in 1..n |-> b[k] * Weight(k - 1)]
  OBVIOUS
<1>2. \A k \in 1..n : t[k] \in Nat /\ t[k] = b[k] * Weight(k - 1)
  <2>1. ASSUME NEW k \in 1..n  PROVE t[k] \in Nat /\ t[k] = b[k] * Weight(k - 1)
    <3>1. PICK x \in Nat, y \in Nat : x = b[k] /\ y = Weight(k - 1)
      <4>1. k - 1 \in Nat
        OBVIOUS
      <4>2. Weight(k - 1) \in Nat
        BY <4>1, WeightIs
      <4>3. b[k] \in Nat
        BY ByteIsNat DEF AreBytes
      <4>4. QED
        BY <4>2, <4>3
    <3>2. x * y \in Nat
      OBVIOUS
    <3>3. QED
      BY <1>1, <3>1, <3>2
  <2>2. QED
    BY <2>1
<1>3. PICK f \in [0..n -> Nat] : f[0] = 0 /\ \A k \in 1..n : f[k] = 1 * f[k - 1] + t[k]
  <2>1. 0 \in Nat /\ 1 \in Nat /\ \A k \in 1..n : t[k] \in Nat
    BY <1>2
  <2>2. \E f \in [0..n -> Nat] : Linear(f, n, 0, 1, t)
    BY <2>1, LinearRecursion
  <2>3. QED
    BY <2>2 DEF Linear
<1>4. f = [i \in 0..n |-> IF i = 0 THEN 0 ELSE f[i - 1] + b[i] * Weight(i - 1)]
  <2>1. f = [i \in 0..n |-> f[i]]
    OBVIOUS
  <2>2. ASSUME NEW i \in 0..n  PROVE f[i] = IF i = 0 THEN 0 ELSE f[i - 1] + b[i] * Weight(i - 1)
    <3>1. CASE i = 0
      BY <1>3, <3>1
    <3>2. CASE i # 0
      <4>1. i \in 1..n /\ i - 1 \in 0..n
        BY <3>2
      <4>2. PICK x \in Nat, y \in Nat : x = f[i - 1] /\ y = t[i]
        BY <1>2, <4>1
      <4>3. 1 * x + y = x + y
        OBVIOUS
      <4>4. f[i] = 1 * f[i - 1] + t[i] /\ t[i] = b[i] * Weight(i - 1)
        BY <1>2, <1>3, <4>1
      <4>5. QED
        BY <3>2, <4>2, <4>3, <4>4, Zenon
    <3>3. QED
      BY <3>1, <3>2
  <2>3. QED
    BY <2>1, <2>2
<1>5. v = [i \in 0..n |-> IF i = 0 THEN 0 ELSE v[i - 1] + b[i] * Weight(i - 1)]
  BY <1>4 DEF ValueTable
<1>6. v[0] = 0 /\ \A k \in 1..n : v[k] = v[k - 1] + b[k] * Weight(k - 1)
  <2>1. \A i \in 0..n : v[i] = IF i = 0 THEN 0 ELSE v[i - 1] + b[i] * Weight(i - 1)
    BY <1>5
  <2>2. 0 \in 0..n /\ \A k \in 1..n : k \in 0..n /\ k # 0
    OBVIOUS
  <2>3. QED
    BY <2>1, <2>2, Zenon
<1>7. \A k \in 0..n : v[k] \in Nat
  <2> DEFINE S == {k \in 0..n : v[k] \in Nat}
  <2>1. 0 \in S
    BY <1>6
  <2>2. ASSUME NEW k \in 0..(n - 1), k \in S  PROVE k + 1 \in S
    <3>1. k + 1 \in 1..n /\ (k + 1) - 1 = k /\ k + 1 \in 0..n
      OBVIOUS
    <3>2. PICK x \in Nat, y \in Nat : x = v[k] /\ y = t[k + 1]
      BY <1>2, <2>2, <3>1
    <3>3. x + y \in Nat
      OBVIOUS
    <3>4. v[k + 1] = v[k] + t[k + 1]
      BY <1>2, <1>6, <3>1, Zenon
    <3>5. QED
      BY <3>1, <3>2, <3>3, <3>4
  <2>3. \A k \in 0..n : k \in S
    <3> HIDE DEF S
    <3>1. QED
      BY <2>1, <2>2, InductionUpTo
  <2>4. QED
    BY <2>3
<1>8. QED
  BY <1>6, <1>7

LEMMA ValueOfNone ==
  ASSUME NEW b  PROVE ValueUpTo(b, 0) = 0
<1>1. 0 \in Nat /\ AreBytes(b, 0)
  BY DEF AreBytes
<1>2. PICK v : v = ValueTable(b, 0)
  OBVIOUS
<1>3. v[0] = 0
  BY <1>1, <1>2, ValueTables, Zenon
<1>4. QED
  BY <1>2, <1>3 DEF ValueUpTo, ValueTable

LEMMA ValueIs ==
  ASSUME NEW n \in Nat, NEW b, AreBytes(b, n)
  PROVE  /\ ValueUpTo(b, n) \in Nat
         /\ AreBytes(b, n + 1) => ValueUpTo(b, n + 1) = ValueUpTo(b, n) + b[n + 1] * Weight(n)
<1>1. \A m : ValueUpTo(b, m) = ValueTable(b, m)[m]
  BY DEF ValueUpTo, ValueTable
<1>2. PICK u, w : u = ValueTable(b, n) /\ w = ValueTable(b, n + 1)
  OBVIOUS
<1>3. n + 1 \in Nat /\ n \in 0..n
  OBVIOUS
<1>4. /\ u[0] = 0 /\ (\A k \in 1..n : u[k] = u[k - 1] + b[k] * Weight(k - 1))
      /\ \A k \in 0..n : u[k] \in Nat
  BY <1>2, ValueTables, Zenon
<1>5. ASSUME AreBytes(b, n + 1)  PROVE ValueUpTo(b, n + 1) = ValueUpTo(b, n) + b[n + 1] * Weight(n)
  <2>1. w[0] = 0 /\ (\A k \in 1..(n + 1) : w[k] = w[k - 1] + b[k] * Weight(k - 1))
    BY <1>2, <1>3, <1>5, ValueTables, ZenonT(60)
  <2>2. u[n] = w[n]
    <3>1. ASSUME NEW k \in 1..n, u[k - 1] = w[k - 1]  PROVE u[k] = w[k]
      <4>1. k \in 1..(n + 1)
        OBVIOUS
      <4>2. QED
        BY <1>4, <2>1, <3>1, <4>1, Zenon
    <3>2. u[0] = w[0]
      BY <1>4, <2>1
    <3>3. QED
      BY <3>1, <3>2, SameUpTo, Zenon
  <2>3. n + 1 \in 1..(n + 1) /\ (n + 1) - 1 = n
    OBVIOUS
  <2>4. w[n + 1] = w[n] + b[n + 1] * Weight(n)
    BY <2>1, <2>3, Zenon
  <2>5. QED
    BY <1>1, <1>2, <2>2, <2>4, Zenon
<1>6. ValueUpTo(b, n) \in Nat
  BY <1>1, <1>2, <1>3, <1>4, Zenon
<1>7. QED
  BY <1>5, <1>6

(* n bytes are below the weight of the next place.                            *)
LEMMA ValueBound ==
  ASSUME NEW n \in Nat, NEW b, AreBytes(b, n)
  PROVE  ValueUpTo(b, n) \in Nat /\ ValueUpTo(b, n) < Weight(n)
<1> DEFINE S == {k \in 0..n : ValueUpTo(b, k) < Weight(k)}
<1>1. 0 \in S
  <2>1. 0 \in Nat /\ 0 \in 0..n
    OBVIOUS
  <2>2. Weight(0) = 1
    BY <2>1, WeightIs, Zenon
  <2>3. QED
    BY <2>1, <2>2, ValueOfNone
<1>2. ASSUME NEW k \in 0..(n - 1), k \in S  PROVE k + 1 \in S
  <2>1. k \in Nat /\ k + 1 \in 0..n /\ k + 1 \in 1..n /\ AreBytes(b, k) /\ AreBytes(b, k + 1)
    BY DEF AreBytes
  <2>2. PICK x \in Nat, y \in Nat, w \in Nat : x = ValueUpTo(b, k) /\ y = b[k + 1] /\ w = Weight(k)
    <3>1. ValueUpTo(b, k) \in Nat /\ Weight(k) \in Nat
      BY <2>1, ValueIs, WeightIs
    <3>2. b[k + 1] \in Nat
      BY <2>1, ByteIsNat DEF AreBytes
    <3>3. QED
      BY <3>1, <3>2
  <2>3. x < w /\ y < ByteSize /\ ByteSize \in Nat
    BY <1>2, <2>1, <2>2, ByteIsNat DEF AreBytes
  <2>4. ValueUpTo(b, k + 1) = x + y * w /\ Weight(k + 1) = ByteSize * w
    BY <2>1, <2>2, ValueIs, WeightIs
  <2>5. x + y * w < ByteSize * w
    <3>1. PICK d \in Nat : ByteSize = (y + 1) + d
      <4>1. ByteSize - (y + 1) \in Nat /\ ByteSize = (y + 1) + (ByteSize - (y + 1))
        BY <2>3
      <4>2. QED
        BY <4>1
    <3>2. ByteSize * w = y * w + w + d * w /\ d * w \in Nat /\ y * w \in Nat
      BY <3>1, SMT
    <3>3. QED
      BY <2>3, <3>2
  <2>6. QED
    BY <2>1, <2>4, <2>5
<1>3. n \in S
  <2> HIDE DEF S
  <2>1. \A k \in 0..n : k \in S
    BY <1>1, <1>2, InductionUpTo
  <2>2. QED
    BY <2>1
<1>4. QED
  BY <1>3, ValueIs

(* k bytes behind n bytes count Weight(n) times.                              *)
JoinedValue(b, c, n, k) ==
  /\ AreBytes(b, n) /\ AreBytes(c, k)
  /\ ValueUpTo(b, n + k) = ValueUpTo(b, n) + Weight(n) * ValueUpTo(c, k)

LEMMA ValueJoin ==
  ASSUME NEW n \in Nat, NEW k \in Nat, NEW b, NEW c, AreBytes(b, n + k),
         \A i \in 1..k : c[i] = b[n + i]
  PROVE  JoinedValue(b, c, n, k)
<1>1. AreBytes(b, n) /\ AreBytes(c, k)
  <2>1. ASSUME NEW i \in 1..n  PROVE i \in 1..(n + k)
    OBVIOUS
  <2>2. ASSUME NEW i \in 1..k  PROVE n + i \in 1..(n + k)
    OBVIOUS
  <2>3. QED
    BY <2>1, <2>2, Zenon DEF AreBytes
<1>2. PICK v \in Nat, w \in Nat : v = ValueUpTo(b, n) /\ w = Weight(n)
  BY <1>1, ValueIs, WeightIs
<1> DEFINE S == {j \in 0..k : ValueUpTo(b, n + j) = v + w * ValueUpTo(c, j)}
<1>3. 0 \in S
  <2>1. n + 0 = n /\ v + w * 0 = v /\ 0 \in 0..k
    OBVIOUS
  <2>2. ValueUpTo(c, 0) = 0
    BY ValueOfNone
  <2>3. ValueUpTo(b, n + 0) = v + w * ValueUpTo(c, 0)
    BY <1>2, <2>1, <2>2, Zenon
  <2>4. QED
    BY <2>1, <2>3
<1>4. ASSUME NEW j \in 0..(k - 1), j \in S  PROVE j + 1 \in S
  <2>1. /\ j \in Nat /\ j + 1 \in 0..k /\ j + 1 \in 1..k /\ n + j \in Nat
        /\ (n + j) + 1 = n + (j + 1) /\ (n + j) + 1 \in 1..(n + k)
    OBVIOUS
  <2>2. AreBytes(c, j) /\ AreBytes(c, j + 1) /\ AreBytes(b, n + j) /\ AreBytes(b, (n + j) + 1)
    <3>1. 1..j \subseteq 1..k /\ 1..(j + 1) \subseteq 1..k /\ 1..(n + j) \subseteq 1..(n + k)
          /\ 1..((n + j) + 1) \subseteq 1..(n + k)
      OBVIOUS
    <3>2. QED
      BY <1>1, <3>1, Zenon DEF AreBytes
  <2>3. PICK x \in Nat, y \in Nat, u \in Nat : x = ValueUpTo(c, j) /\ y = c[j + 1] /\ u = Weight(j)
    <3>1. ValueUpTo(c, j) \in Nat /\ Weight(j) \in Nat
      BY <2>1, <2>2, ValueIs, WeightIs
    <3>2. c[j + 1] \in Nat
      BY <1>1, <2>1, ByteIsNat DEF AreBytes
    <3>3. QED
      BY <3>1, <3>2
  <2>4. ValueUpTo(c, j + 1) = x + y * u
    BY <2>1, <2>2, <2>3, ValueIs, Zenon
  <2>5. ValueUpTo(b, (n + j) + 1) = ValueUpTo(b, n + j) + b[(n + j) + 1] * Weight(n + j)
    BY <2>1, <2>2, ValueIs, Zenon
  <2>6. b[(n + j) + 1] = y /\ Weight(n + j) = w * u
    <3>1. c[j + 1] = b[n + (j + 1)]
      BY <2>1, Zenon
    <3>2. Weight(n + j) = Weight(n) * Weight(j)
      BY <2>1, WeightOfSum, Zenon
    <3>3. QED
      BY <1>2, <2>1, <2>3, <3>1, <3>2, Zenon
  <2>7. ValueUpTo(b, n + j) = v + w * x
    BY <1>4, <2>3
  <2>8. (v + w * x) + y * (w * u) = v + w * (x + y * u)
    BY SMT
  <2>9. ValueUpTo(b, n + (j + 1)) = v + w * ValueUpTo(c, j + 1)
    BY <2>1, <2>4, <2>5, <2>6, <2>7, <2>8, Zenon
  <2>10. QED
    BY <2>1, <2>9
<1>5. k \in S
  <2> HIDE DEF S
  <2>1. \A j \in 0..k : j \in S
    BY <1>3, <1>4, InductionUpTo
  <2>2. QED
    BY <2>1
<1>6. QED
  BY <1>1, <1>2, <1>5 DEF JoinedValue

-----------------------------------------------------------------------------
(* Division by a product is division by its factors.                          *)
DividesBoth(x, a, b) ==
  /\ a * b \in Nat \ {0}
  /\ x \div (a * b) = (x \div a) \div b
  /\ x % (a * b) = (x % a) + a * ((x \div a) % b)

LEMMA ByProduct ==
  ASSUME NEW x \in Nat, NEW a \in Nat \ {0}, NEW b \in Nat \ {0}
  PROVE  DividesBoth(x, a, b)
<1>1. PICK p \in Nat \ {0} : p = a * b
  BY SMT
<1>2. PICK q \in Nat, r \in Nat : q = x \div a /\ r = x % a /\ r < a /\ x = a * q + r
  <2>1. x \div a \in Nat /\ x % a \in Nat /\ x % a < a /\ x = a * (x \div a) + (x % a)
    BY DivMod
  <2>2. QED
    BY <2>1
<1>3. PICK u \in Nat, s \in Nat : u = q \div b /\ s = q % b /\ s < b /\ q = b * u + s
  <2>1. q \div b \in Nat /\ q % b \in Nat /\ q % b < b /\ q = b * (q \div b) + (q % b)
    BY DivMod
  <2>2. QED
    BY <2>1
<1>4. PICK m \in Nat : m = r + a * s /\ m < p
  <2>1. r + a * s \in Nat
    BY SMT
  <2>2. PICK d \in Nat : b = (s + 1) + d
    <3>1. b - (s + 1) \in Nat /\ b = (s + 1) + (b - (s + 1))
      BY <1>3
    <3>2. QED
      BY <3>1
  <2>3. a * b = a * s + a + a * d /\ a * d \in Nat /\ a * s \in Nat
    BY <2>2, SMT
  <2>4. r + a * s < p
    BY <1>1, <1>2, <2>3
  <2>5. QED
    BY <2>1, <2>4
<1>5. x = p * u + m
  <2>1. a * (b * u + s) + r = (a * b) * u + (r + a * s)
    BY SMT
  <2>2. QED
    BY <1>1, <1>2, <1>3, <1>4, <2>1, Zenon
<1>6. x \div p = u /\ x % p = m
  BY <1>4, <1>5, DivModUnique
<1>7. QED
  BY <1>1, <1>2, <1>3, <1>4, <1>6, Zenon DEF DividesBoth

(* A value written in n bytes.                                                *)
LEMMA BytesIs ==
  ASSUME NEW v \in Nat, NEW n \in Nat, NEW z, z = Bytes(v, n)
  PROVE  /\ z \in Seq(Int) /\ Len(z) = n /\ AreBytes(z, n)
         /\ ValueUpTo(z, n) = v % Weight(n)
<1>0. ByteSize \in Nat \ {0}
  BY ByteIsNat
<1>1. PICK f : f = [i \in 1..n |-> (v \div Weight(i - 1)) % ByteSize]
  OBVIOUS
<1>2. \A i \in 1..n : f[i] \in Byte /\ f[i] = (v \div Weight(i - 1)) % ByteSize
  <2>1. ASSUME NEW i \in 1..n  PROVE f[i] \in Byte /\ f[i] = (v \div Weight(i - 1)) % ByteSize
    <3>1. i - 1 \in Nat
      OBVIOUS
    <3>2. PICK w \in Nat \ {0} : w = Weight(i - 1)
      BY <3>1, WeightIs
    <3>3. PICK q \in Nat : q = v \div w
      BY DivMod
    <3>4. q % ByteSize \in Nat /\ q % ByteSize < ByteSize
      BY <1>0, DivMod
    <3>5. f[i] = q % ByteSize
      BY <1>1, <3>2, <3>3
    <3>6. f[i] \in Byte
      BY <1>0, <3>4, <3>5 DEF Byte
    <3>7. QED
      BY <1>1, <3>6
  <2>2. QED
    BY <2>1
<1>3. f \in Seq(Int) /\ Len(f) = n
  <2>1. \A i \in 1..n : f[i] \in Int
    <3>1. Byte \subseteq Int
      BY ByteIsNat DEF Byte
    <3>2. QED
      BY <1>2, <3>1, Zenon
  <2>2. f \in [1..n -> Int]
    BY <1>1, <2>1
  <2>3. QED
    BY <2>2
<1>4. f \o << >> = f
  BY <1>3, ConcatEmptySeq
<1>5. z = f
  BY <1>1, <1>4, Zenon DEF Bytes
<1>6. AreBytes(f, n)
  BY <1>2 DEF AreBytes
<1> DEFINE S == {k \in 0..n : ValueUpTo(f, k) = v % Weight(k)}
<1>7. 0 \in S
  <2>1. 0 \in Nat /\ 0 \in 0..n /\ v % 1 = 0
    OBVIOUS
  <2>2. Weight(0) = 1
    BY <2>1, WeightIs, Zenon
  <2>3. ValueUpTo(f, 0) = v % Weight(0)
    BY <2>1, <2>2, ValueOfNone, Zenon
  <2>4. QED
    BY <2>1, <2>3
<1>8. ASSUME NEW k \in 0..(n - 1), k \in S  PROVE k + 1 \in S
  <2>1. k \in Nat /\ k + 1 \in 0..n /\ k + 1 \in 1..n /\ (k + 1) - 1 = k
    OBVIOUS
  <2>2. AreBytes(f, k) /\ AreBytes(f, k + 1)
    BY <1>6, <2>1 DEF AreBytes
  <2>3. PICK w \in Nat \ {0} : w = Weight(k)
    BY <2>1, WeightIs
  <2>4. ValueUpTo(f, k + 1) = ValueUpTo(f, k) + f[k + 1] * w
    BY <2>1, <2>2, <2>3, ValueIs, Zenon
  <2>5. Weight(k + 1) = ByteSize * w
    BY <2>1, <2>3, WeightIs, Zenon
  <2>6. PICK q \in Nat : q = v \div w
    BY DivMod
  <2>7. PICK x \in Nat, y \in Nat : x = v % w /\ y = q % ByteSize
    <3>1. v % w \in Nat /\ q % ByteSize \in Nat
      BY <1>0, DivMod
    <3>2. QED
      BY <3>1
  <2>8. f[k + 1] = y
    BY <1>2, <2>1, <2>3, <2>6, <2>7, Zenon
  <2>9. v % (w * ByteSize) = x + w * y
    <3>1. DividesBoth(v, w, ByteSize)
      BY <1>0, ByProduct
    <3>2. QED
      BY <2>6, <2>7, <3>1, Zenon DEF DividesBoth
  <2>10. ByteSize * w = w * ByteSize /\ x + y * w = x + w * y
    BY <1>0, SMT
  <2>11. ValueUpTo(f, k) = x
    BY <1>8, <2>3, <2>7
  <2>12. ValueUpTo(f, k + 1) = v % Weight(k + 1)
    BY <2>4, <2>5, <2>8, <2>9, <2>10, <2>11, Zenon
  <2>13. QED
    BY <2>1, <2>12
<1>9. n \in S
  <2> HIDE DEF S
  <2>1. \A k \in 0..n : k \in S
    BY <1>7, <1>8, InductionUpTo
  <2>2. QED
    BY <2>1
<1>10. QED
  BY <1>3, <1>5, <1>6, <1>9

(* Four words, least significant first.                                       *)
FourOf(w, a, b, c, e) == a + w * (b + w * (c + w * e))

Quarters(t, n, a, b, c, e) ==
  \A i \in 1..n : a[i] = t[i] /\ b[i] = t[n + i] /\ c[i] = t[2 * n + i] /\ e[i] = t[3 * n + i]
FourValue(t, n, a, b, c, e) ==
  /\ AreBytes(a, n) /\ AreBytes(b, n) /\ AreBytes(c, n) /\ AreBytes(e, n)
  /\ ValueUpTo(t, 4 * n) = FourOf(Weight(n), ValueUpTo(a, n), ValueUpTo(b, n),
                                  ValueUpTo(c, n), ValueUpTo(e, n))

LEMMA ValueOfFour ==
  ASSUME NEW n \in Nat, NEW t, AreBytes(t, 4 * n), NEW a, NEW b, NEW c, NEW e,
         Quarters(t, n, a, b, c, e)
  PROVE  FourValue(t, n, a, b, c, e)
<1>1. PICK n2 \in Nat, n3 \in Nat : n2 = 2 * n /\ n3 = 3 * n
  OBVIOUS
<1>2. /\ 4 * n = n3 + n /\ n3 = n2 + n /\ n2 = n + n /\ 0 \in Nat /\ 0 + n = n
      /\ \A i \in 1..n : 0 + i = i
  BY <1>1
<1>3. AreBytes(t, n) /\ AreBytes(t, n + n) /\ AreBytes(t, n2 + n) /\ AreBytes(t, n3 + n)
  <2>1. /\ 1..n \subseteq 1..(4 * n) /\ 1..(n + n) \subseteq 1..(4 * n)
        /\ 1..(n2 + n) \subseteq 1..(4 * n) /\ 1..(n3 + n) \subseteq 1..(4 * n)
    BY <1>1
  <2>2. QED
    BY <2>1, Zenon DEF AreBytes
<1>4. AreBytes(e, n) /\ ValueUpTo(t, n3 + n) = ValueUpTo(t, n3) + Weight(n3) * ValueUpTo(e, n)
  <2>1. \A i \in 1..n : e[i] = t[n3 + i]
    BY <1>1, Zenon DEF Quarters
  <2>2. JoinedValue(t, e, n3, n)
    BY <1>3, <2>1, ValueJoin
  <2>3. QED
    BY <2>2, Zenon DEF JoinedValue
<1>5. AreBytes(c, n) /\ ValueUpTo(t, n2 + n) = ValueUpTo(t, n2) + Weight(n2) * ValueUpTo(c, n)
  <2>1. \A i \in 1..n : c[i] = t[n2 + i]
    BY <1>1, Zenon DEF Quarters
  <2>2. JoinedValue(t, c, n2, n)
    BY <1>3, <2>1, ValueJoin
  <2>3. QED
    BY <2>2, Zenon DEF JoinedValue
<1>6. AreBytes(b, n) /\ ValueUpTo(t, n + n) = ValueUpTo(t, n) + Weight(n) * ValueUpTo(b, n)
  <2>1. \A i \in 1..n : b[i] = t[n + i]
    BY Zenon DEF Quarters
  <2>2. JoinedValue(t, b, n, n)
    BY <1>3, <2>1, ValueJoin
  <2>3. QED
    BY <2>2, Zenon DEF JoinedValue
<1>7. AreBytes(a, n) /\ ValueUpTo(t, n) = ValueUpTo(a, n)
  <2>1. AreBytes(t, 0 + n) /\ \A i \in 1..n : a[i] = t[0 + i]
    BY <1>2, <1>3, Zenon DEF Quarters
  <2>2. AreBytes(a, n) /\ ValueUpTo(t, 0 + n) = ValueUpTo(t, 0) + Weight(0) * ValueUpTo(a, n)
    <3>1. JoinedValue(t, a, 0, n)
      BY <1>2, <2>1, ValueJoin, Zenon
    <3>2. QED
      BY <3>1, Zenon DEF JoinedValue
  <2>3. PICK x \in Nat : x = ValueUpTo(a, n)
    BY <2>2, ValueIs
  <2>4. ValueUpTo(t, 0) = 0 /\ Weight(0) = 1 /\ 0 + 1 * x = x
    BY <1>2, ValueOfNone, WeightIs
  <2>5. QED
    BY <1>2, <2>2, <2>3, <2>4, Zenon
<1>8. PICK w \in Nat : w = Weight(n)
  BY WeightIs
<1>9. Weight(n2) = w * w /\ Weight(n3) = (w * w) * w
  <2>1. Weight(n + n) = w * w
    BY <1>8, WeightOfSum, Zenon
  <2>2. Weight(n2 + n) = Weight(n2) * w
    BY <1>8, WeightOfSum, Zenon
  <2>3. QED
    BY <1>2, <2>1, <2>2, Zenon
<1>10. PICK va \in Nat, vb \in Nat, vc \in Nat, ve \in Nat :
         /\ va = ValueUpTo(a, n) /\ vb = ValueUpTo(b, n)
         /\ vc = ValueUpTo(c, n) /\ ve = ValueUpTo(e, n)
  BY <1>4, <1>5, <1>6, <1>7, ValueIs
<1>11. ValueUpTo(t, 4 * n) = ((va + w * vb) + (w * w) * vc) + ((w * w) * w) * ve
  BY <1>2, <1>4, <1>5, <1>6, <1>7, <1>8, <1>9, <1>10, Zenon
<1>12. ((va + w * vb) + (w * w) * vc) + ((w * w) * w) * ve = va + w * (vb + w * (vc + w * ve))
  BY SMT
<1>13. QED
  BY <1>4, <1>5, <1>6, <1>7, <1>8, <1>10, <1>11, <1>12, Zenon DEF FourOf, FourValue

-----------------------------------------------------------------------------
(* One step of the long division: what is left of the words above, together   *)
(* with this word, is divided; the quotient fits into a word.                 *)
LongStepTo(size, d, above, quotient, word, c) ==
  /\ c \div d \in Nat /\ c % d \in Nat /\ c % d < d
  /\ (c \div d) % size = c \div d /\ c \div d < size
  /\ word + size * above = d * ((c \div d) + size * quotient) + (c % d)

LEMMA LongStep ==
  ASSUME NEW size \in Nat \ {0}, NEW d \in Nat \ {0}, NEW quotient \in Nat, NEW r \in Nat, r < d,
         NEW above \in Nat, above = d * quotient + r, NEW word \in Nat, word < size,
         NEW c \in Nat, c = r * size + word
  PROVE  LongStepTo(size, d, above, quotient, word, c)
<1>1. PICK e \in Nat, s \in Nat : e = c \div d /\ s = c % d /\ s < d /\ c = d * e + s
  <2>1. c \div d \in Nat /\ c % d \in Nat /\ c % d < d /\ c = d * (c \div d) + (c % d)
    BY DivMod
  <2>2. QED
    BY <2>1
<1>2. e < size
  <2>1. SUFFICES ASSUME ~(e < size) PROVE FALSE
    OBVIOUS
  <2>2. PICK g \in Nat : e = size + g
    <3>1. e - size \in Nat /\ e = size + (e - size)
      BY <2>1
    <3>2. QED
      BY <3>1
  <2>3. PICK h \in Nat : d = (r + 1) + h
    <3>1. d - (r + 1) \in Nat /\ d = (r + 1) + (d - (r + 1))
      OBVIOUS
    <3>2. QED
      BY <3>1
  <2>4. d * e = (r * size + size + h * size) + d * g /\ h * size \in Nat /\ d * g \in Nat
    <3>1. d * (size + g) = d * size + d * g /\ d * g \in Nat
      BY SMT
    <3>2. ((r + 1) + h) * size = r * size + size + h * size /\ h * size \in Nat
      BY SMT
    <3>3. QED
      BY <2>2, <2>3, <3>1, <3>2, Zenon
  <2>5. PICK x \in Nat, y \in Nat, z \in Nat, t \in Nat :
          x = r * size /\ y = h * size /\ z = d * g /\ t = d * e
    <3>1. r * size \in Nat /\ d * e \in Nat
      BY SMT
    <3>2. QED
      BY <2>4, <3>1
  <2>6. t = (x + size + y) + z /\ t + s = x + word
    BY <1>1, <2>4, <2>5, Zenon
  <2>7. QED
    BY <2>6
<1>3. e % size = e
  <2>1. e = size * 0 + e
    OBVIOUS
  <2>2. QED
    BY <1>2, <2>1, DivModUnique
<1>4. word + size * above = d * (e + size * quotient) + s
  <2>1. word + size * (d * quotient + r) = (r * size + word) + size * (d * quotient)
    BY SMT
  <2>2. (d * e + s) + size * (d * quotient) = d * (e + size * quotient) + s
    BY SMT
  <2>3. QED
    BY <1>1, <2>1, <2>2, Zenon
<1>5. QED
  BY <1>1, <1>2, <1>3, <1>4, Zenon DEF LongStepTo

(* The long division of four words.                                           *)
IsWord(x) == x \in Nat /\ x < WordSize

LEMMA WordSizeIs == WordSize \in Nat \ {0} /\ WordSize = Weight(WordBytes) /\ WordBytes \in Nat
<1>1. WordBytes \in Nat
  BY TargetAssumption
<1>2. QED
  BY <1>1, WeightIs DEF WordSize

FourDivided(q, w1, w2, w3, w4, d) ==
  /\ IsWord(q[1]) /\ IsWord(q[2]) /\ IsWord(q[3]) /\ IsWord(q[4])
  /\ FourOf(WordSize, q[1], q[2], q[3], q[4]) = FourOf(WordSize, w1, w2, w3, w4) \div d

LEMMA DivideWordsIs ==
  ASSUME NEW w1, NEW w2, NEW w3, NEW w4, IsWord(w1), IsWord(w2), IsWord(w3), IsWord(w4),
         NEW d \in Nat \ {0}, NEW words, words = <<w1, w2, w3, w4>>,
         NEW q, q = DivideWords(words, d)
  PROVE  FourDivided(q, w1, w2, w3, w4, d)
<1>0. PICK size \in Nat \ {0} : size = WordSize
  BY WordSizeIs
<1>1. /\ w1 \in Nat /\ w2 \in Nat /\ w3 \in Nat /\ w4 \in Nat
      /\ w1 < size /\ w2 < size /\ w3 < size /\ w4 < size
  BY <1>0 DEF IsWord
<1>2. words[1] = w1 /\ words[2] = w2 /\ words[3] = w3 /\ words[4] = w4
  OBVIOUS
(* The top word, with nothing above it.                                       *)
<1>3. PICK e4 \in Nat, s4 \in Nat :
        e4 = w4 \div d /\ s4 = w4 % d /\ s4 < d /\ e4 % size = e4 /\ e4 < size /\ w4 = d * e4 + s4
  <2>1. /\ 0 = d * 0 + 0 /\ w4 = 0 * size + w4 /\ 0 \in Nat /\ 0 < d
    BY <1>1
  <2>2. LongStepTo(size, d, 0, 0, w4, w4)
    BY <1>1, <2>1, LongStep
  <2>3. PICK e \in Nat, s \in Nat :
          e = w4 \div d /\ s = w4 % d /\ s < d /\ e % size = e /\ e < size
          /\ w4 + size * 0 = d * (e + size * 0) + s
    BY <2>2, Zenon DEF LongStepTo
  <2>4. w4 + size * 0 = w4 /\ e + size * 0 = e
    BY <1>1
  <2>5. w4 = d * e + s
    BY <2>3, <2>4, Zenon
  <2>6. QED
    BY <2>3, <2>5
<1>4. PICK c3 \in Nat : c3 = s4 * size + w3
  BY <1>1, SMT
<1>5. PICK e3 \in Nat, s3 \in Nat :
        e3 = c3 \div d /\ s3 = c3 % d /\ s3 < d /\ e3 % size = e3 /\ e3 < size
        /\ w3 + size * w4 = d * (e3 + size * e4) + s3
  <2>1. LongStepTo(size, d, w4, e4, w3, c3)
    BY <1>1, <1>3, <1>4, LongStep
  <2>2. QED
    BY <2>1, Zenon DEF LongStepTo
<1>6. PICK x3 \in Nat, q3 \in Nat : x3 = w3 + size * w4 /\ q3 = e3 + size * e4
  BY <1>1, SMT
<1>7. PICK c2 \in Nat : c2 = s3 * size + w2
  BY <1>1, SMT
<1>8. PICK e2 \in Nat, s2 \in Nat :
        e2 = c2 \div d /\ s2 = c2 % d /\ s2 < d /\ e2 % size = e2 /\ e2 < size
        /\ w2 + size * x3 = d * (e2 + size * q3) + s2
  <2>1. x3 = d * q3 + s3
    BY <1>5, <1>6, Zenon
  <2>2. LongStepTo(size, d, x3, q3, w2, c2)
    BY <1>1, <1>5, <1>7, <2>1, LongStep
  <2>3. QED
    BY <2>2, Zenon DEF LongStepTo
<1>9. PICK x2 \in Nat, q2 \in Nat : x2 = w2 + size * x3 /\ q2 = e2 + size * q3
  BY <1>1, SMT
<1>10. PICK c1 \in Nat : c1 = s2 * size + w1
  BY <1>1, SMT
<1>11. PICK e1 \in Nat, s1 \in Nat :
        e1 = c1 \div d /\ s1 = c1 % d /\ s1 < d /\ e1 % size = e1 /\ e1 < size
        /\ w1 + size * x2 = d * (e1 + size * q2) + s1
  <2>1. x2 = d * q2 + s2
    BY <1>8, <1>9, Zenon
  <2>2. LongStepTo(size, d, x2, q2, w1, c1)
    BY <1>1, <1>8, <1>10, <2>1, LongStep
  <2>3. QED
    BY <2>2, Zenon DEF LongStepTo
<1>12. PICK x1 \in Nat, q1 \in Nat : x1 = w1 + size * x2 /\ q1 = e1 + size * q2
  BY <1>1, SMT
<1>13. x1 \div d = q1
  <2>1. x1 = d * q1 + s1
    BY <1>11, <1>12, Zenon
  <2>2. QED
    BY <1>11, <2>1, DivModUnique
<1>14. x1 = FourOf(size, w1, w2, w3, w4) /\ q1 = FourOf(size, e1, e2, e3, e4)
  BY <1>6, <1>9, <1>12, Zenon DEF FourOf
<1>15. q = <<e1, e2, e3, e4>>
  <2>1. Current(w4, d, w3) = c3
    BY <1>0, <1>3, <1>4, Zenon DEF Current
  <2>2. Current(c3, d, w2) = c2
    BY <1>0, <1>5, <1>7, Zenon DEF Current
  <2>3. Current(c2, d, w1) = c1
    BY <1>0, <1>8, <1>10, Zenon DEF Current
  <2>4. DivideWords(words, d) = <<(c1 \div d) % WordSize, (c2 \div d) % WordSize,
                                  (c3 \div d) % WordSize, (w4 \div d) % WordSize>>
    BY <1>2, <2>1, <2>2, <2>3, Zenon DEF DivideWords
  <2>5. QED
    BY <1>0, <1>3, <1>5, <1>8, <1>11, <2>4, Zenon
<1>16. q[1] = e1 /\ q[2] = e2 /\ q[3] = e3 /\ q[4] = e4
  BY <1>15
<1>17. QED
  BY <1>0, <1>3, <1>5, <1>8, <1>11, <1>13, <1>14, <1>16, Zenon DEF IsWord, FourDivided

(* The division of a target.                                                  *)
IsTarget(t) == t \in Seq(Int) /\ Len(t) = TargetBytes /\ AreBytes(t, TargetBytes)

LEMMA TargetBytesIs ==
  TargetBytes \in Nat /\ TargetBytes = 4 * WordBytes /\ TargetBytes > 3
BY TargetAssumption DEF TargetBytes

(* n items of a sequence behind the first m.                                  *)
Part(s, t, m, n) == s \in Seq(Int) /\ Len(s) = n /\ \A i \in 1..n : s[i] = t[m + i]

LEMMA PartOf ==
  ASSUME NEW t \in Seq(Int), NEW m \in Nat, NEW n \in Nat, NEW k \in Nat, k = m + n, k <= Len(t),
         NEW s, s = SubSeq(t, m + 1, k)
  PROVE  Part(s, t, m, n)
<1>1. s \in Seq(Int) /\ Len(s) = n
  OBVIOUS
<1>2. ASSUME NEW i \in 1..n  PROVE s[i] = t[m + i]
  <2>1. PICK l \in Nat : l = Len(t)
    OBVIOUS
  <2>2. m + 1 \in Int /\ k \in Int /\ (m + 1)..k \subseteq 1..l /\ i \in 1..(k - (m + 1) + 1)
        /\ (m + 1) + i - 1 = m + i
    BY <2>1
  <2>3. \A j \in (m + 1)..k : t[j] \in Int
    BY <2>1, <2>2
  <2>4. SubSeq(t, m + 1, k)[i] = t[(m + 1) + i - 1]
    <3>1. \A j \in 1..(k - (m + 1) + 1) : SubSeq(t, m + 1, k)[j] = t[(m + 1) + j - 1]
      BY <2>2, <2>3, SubSeqProperties
    <3>2. QED
      BY <2>2, <3>1, Zenon
  <2>5. QED
    BY <2>2, <2>4, Zenon
<1>3. QED
  BY <1>1, <1>2 DEF Part

(* Sequences of numbers.                                                      *)
LEMMA IntsJoined ==
  ASSUME NEW a \in Seq(Int), NEW b \in Seq(Int)
  PROVE  /\ a \o b \in Seq(Int) /\ Len(a \o b) = Len(a) + Len(b)
         /\ \A i \in 1..Len(a) : (a \o b)[i] = a[i]
         /\ \A i \in 1..Len(b) : (a \o b)[Len(a) + i] = b[i]
BY SMT

LEMMA SameInts ==
  ASSUME NEW s \in Seq(Int), NEW t \in Seq(Int), Len(s) = Len(t),
         \A i \in 1..Len(s) : s[i] = t[i]
  PROVE  s = t
BY SMTT(40)

(* Four sequences of n bytes, one behind the other.                           *)
LEMMA FourParts ==
  ASSUME NEW n \in Nat, NEW a \in Seq(Int), NEW b \in Seq(Int), NEW c \in Seq(Int),
         NEW e \in Seq(Int), Len(a) = n, Len(b) = n, Len(c) = n, Len(e) = n,
         NEW t, t = a \o b \o c \o e
  PROVE  t \in Seq(Int) /\ Len(t) = 4 * n /\ Quarters(t, n, a, b, c, e)
<1>1. PICK n2 \in Nat, n3 \in Nat : n2 = 2 * n /\ n3 = 3 * n /\ n2 = n + n /\ n3 = n2 + n /\ 4 * n = n3 + n
  OBVIOUS
<1>2. PICK u : u = a \o b
  OBVIOUS
<1>3. /\ u \in Seq(Int) /\ Len(u) = n2
      /\ (\A i \in 1..n : u[i] = a[i]) /\ \A i \in 1..n : u[n + i] = b[i]
  <2>1. /\ u \in Seq(Int) /\ Len(u) = Len(a) + Len(b)
        /\ (\A i \in 1..Len(a) : u[i] = a[i]) /\ \A i \in 1..Len(b) : u[Len(a) + i] = b[i]
    BY <1>2, IntsJoined, ZenonT(60)
  <2>2. QED
    BY <1>1, <2>1, Zenon
<1>4. PICK v : v = u \o c
  OBVIOUS
<1>5. /\ v \in Seq(Int) /\ Len(v) = n3
      /\ (\A i \in 1..n2 : v[i] = u[i]) /\ \A i \in 1..n : v[n2 + i] = c[i]
  <2>1. /\ v \in Seq(Int) /\ Len(v) = Len(u) + Len(c)
        /\ (\A i \in 1..Len(u) : v[i] = u[i]) /\ \A i \in 1..Len(c) : v[Len(u) + i] = c[i]
    <3>1. u \in Seq(Int)
      BY <1>3, Zenon
    <3>2. QED
      BY <1>4, <3>1, IntsJoined, ZenonT(60)
  <2>2. QED
    BY <1>1, <1>3, <2>1, Zenon
<1>6. /\ t \in Seq(Int) /\ Len(t) = 4 * n
      /\ (\A i \in 1..n3 : t[i] = v[i]) /\ \A i \in 1..n : t[n3 + i] = e[i]
  <2>1. t = v \o e
    BY <1>2, <1>4, Zenon
  <2>2. /\ t \in Seq(Int) /\ Len(t) = Len(v) + Len(e)
        /\ (\A i \in 1..Len(v) : t[i] = v[i]) /\ \A i \in 1..Len(e) : t[Len(v) + i] = e[i]
    <3>1. v \in Seq(Int)
      BY <1>5, Zenon
    <3>2. PICK y : y = v \o e
      OBVIOUS
    <3>3. /\ y \in Seq(Int) /\ Len(y) = Len(v) + Len(e)
          /\ (\A i \in 1..Len(v) : y[i] = v[i]) /\ \A i \in 1..Len(e) : y[Len(v) + i] = e[i]
      BY <3>1, <3>2, IntsJoined, ZenonT(60)
    <3>4. t = y
      BY <2>1, <3>2
    <3>5. QED
      BY <3>3, <3>4
  <2>3. QED
    BY <1>1, <1>5, <2>2, Zenon
<1>7. ASSUME NEW i \in 1..n
      PROVE  a[i] = t[i] /\ b[i] = t[n + i] /\ c[i] = t[2 * n + i] /\ e[i] = t[3 * n + i]
  <2>1. /\ i \in 1..n2 /\ n + i \in 1..n2 /\ i \in 1..n3 /\ n + i \in 1..n3 /\ n2 + i \in 1..n3
    BY <1>1
  <2>2. QED
    BY <1>1, <1>3, <1>5, <1>6, <2>1, ZenonT(60)
<1>8. QED
  BY <1>6, <1>7 DEF Quarters

LEMMA FourPartsAreBytes ==
  ASSUME NEW n \in Nat, NEW t, NEW a, NEW b, NEW c, NEW e,
         AreBytes(a, n), AreBytes(b, n), AreBytes(c, n), AreBytes(e, n), Quarters(t, n, a, b, c, e)
  PROVE  AreBytes(t, 4 * n)
<1>1. ASSUME NEW j \in 1..(4 * n)  PROVE t[j] \in Byte
  <2>1. CASE j <= n
    <3>1. j \in 1..n
      BY <2>1
    <3>2. QED
      BY <3>1, Zenon DEF AreBytes, Quarters
  <2>2. CASE j > n /\ j <= 2 * n
    <3>1. PICK i \in 1..n : n + i = j
      <4>1. j - n \in 1..n /\ n + (j - n) = j
        BY <2>2
      <4>2. QED
        BY <4>1
    <3>2. QED
      BY <3>1, Zenon DEF AreBytes, Quarters
  <2>3. CASE j > 2 * n /\ j <= 3 * n
    <3>1. PICK i \in 1..n : 2 * n + i = j
      <4>1. j - 2 * n \in 1..n /\ 2 * n + (j - 2 * n) = j
        BY <2>3
      <4>2. QED
        BY <4>1
    <3>2. QED
      BY <3>1, Zenon DEF AreBytes, Quarters
  <2>4. CASE j > 3 * n
    <3>1. PICK i \in 1..n : 3 * n + i = j
      <4>1. j - 3 * n \in 1..n /\ 3 * n + (j - 3 * n) = j
        BY <2>4
      <4>2. QED
        BY <4>1
    <3>2. QED
      BY <3>1, Zenon DEF AreBytes, Quarters
  <2>5. QED
    BY <2>1, <2>2, <2>3, <2>4
<1>2. QED
  BY <1>1 DEF AreBytes

(* A value below the weight of n bytes fits into them.                        *)
LEMMA WordInBytes ==
  ASSUME NEW v, IsWord(v), NEW z, z = Bytes(v, WordBytes)
  PROVE  z \in Seq(Int) /\ Len(z) = WordBytes /\ AreBytes(z, WordBytes) /\ ValueUpTo(z, WordBytes) = v
<1>1. PICK size \in Nat \ {0}, n \in Nat : size = WordSize /\ n = WordBytes /\ size = Weight(n)
  BY WordSizeIs
<1>2. v \in Nat /\ v < size
  BY <1>1 DEF IsWord
<1>3. z \in Seq(Int) /\ Len(z) = n /\ AreBytes(z, n) /\ ValueUpTo(z, n) = v % Weight(n)
  BY <1>1, <1>2, BytesIs
<1>4. v % size = v
  <2>1. v = size * 0 + v
    BY <1>2
  <2>2. QED
    BY <1>2, <2>1, DivModUnique
<1>5. QED
  BY <1>1, <1>3, <1>4, Zenon

Quotient(z, t, f) == IsTarget(z) /\ Value(z) = Value(t) \div f

LEMMA DivideTargetIs ==
  ASSUME NEW t, IsTarget(t), NEW d \in Nat, NEW f \in Nat \ {0}, f = IF d = 0 THEN 1 ELSE d,
         NEW z, z = divideTarget(t, d)
  PROVE  Quotient(z, t, f)
<1>0. PICK n \in Nat : n = WordBytes /\ TargetBytes = 4 * n
  BY WordSizeIs, TargetBytesIs
<1>1. t \in Seq(Int) /\ Len(t) = 4 * n /\ AreBytes(t, 4 * n)
  BY <1>0, Zenon DEF IsTarget
<1>2. PICK x \in Nat : x = ValueUpTo(t, 4 * n) /\ x = Value(t)
  <2>1. 4 * n \in Nat
    OBVIOUS
  <2>2. ValueUpTo(t, 4 * n) \in Nat
    BY <1>1, <2>1, ValueIs
  <2>3. Value(t) = ValueUpTo(t, 4 * n)
    BY <1>1, Zenon DEF Value
  <2>4. QED
    BY <2>2, <2>3
<1>3. CASE d <= 1
  <2>1. f = 1 /\ x \div 1 = x
    BY <1>3
  <2>2. z = t
    BY <1>3 DEF divideTarget
  <2>3. QED
    BY <1>2, <2>1, <2>2, Zenon DEF Quotient
<1>4. CASE d > 1
  <2>1. f = d /\ ~(d <= 1) /\ d \in Nat \ {0}
    BY <1>4
  <2>2. PICK a, b, c, e : a = SubSeq(t, 0 + 1, n) /\ b = SubSeq(t, n + 1, 2 * n)
                          /\ c = SubSeq(t, 2 * n + 1, 3 * n) /\ e = SubSeq(t, 3 * n + 1, 4 * n)
    OBVIOUS
  <2>3. /\ (1 - 1) * n + 1 = 0 + 1 /\ 1 * n = n /\ (2 - 1) * n + 1 = n + 1
        /\ (3 - 1) * n + 1 = 2 * n + 1 /\ (4 - 1) * n + 1 = 3 * n + 1
        /\ n = 0 + n /\ 2 * n = n + n /\ 3 * n = 2 * n + n /\ 4 * n = 3 * n + n
        /\ 0 \in Nat /\ 2 * n \in Nat /\ 3 * n \in Nat /\ 4 * n \in Nat
        /\ n <= 4 * n /\ 2 * n <= 4 * n /\ 3 * n <= 4 * n /\ 4 * n <= 4 * n
        /\ \A i \in 1..n : 0 + i = i
    OBVIOUS
  <2>4. a \in Seq(Int) /\ Len(a) = n /\ \A i \in 1..n : a[i] = t[0 + i]
    <3>1. Part(a, t, 0, n)
      BY <1>1, <2>2, <2>3, PartOf, Zenon
    <3>2. QED
      BY <3>1, Zenon DEF Part
  <2>5. b \in Seq(Int) /\ Len(b) = n /\ \A i \in 1..n : b[i] = t[n + i]
    <3>1. Part(b, t, n, n)
      BY <1>1, <2>2, <2>3, PartOf, Zenon
    <3>2. QED
      BY <3>1, Zenon DEF Part
  <2>6. c \in Seq(Int) /\ Len(c) = n /\ \A i \in 1..n : c[i] = t[2 * n + i]
    <3>1. Part(c, t, 2 * n, n)
      BY <1>1, <2>2, <2>3, PartOf, Zenon
    <3>2. QED
      BY <3>1, Zenon DEF Part
  <2>7. e \in Seq(Int) /\ Len(e) = n /\ \A i \in 1..n : e[i] = t[3 * n + i]
    <3>1. Part(e, t, 3 * n, n)
      BY <1>1, <2>2, <2>3, PartOf, Zenon
    <3>2. QED
      BY <3>1, Zenon DEF Part
  <2>8. Quarters(t, n, a, b, c, e)
    BY <2>3, <2>4, <2>5, <2>6, <2>7, ZenonT(60) DEF Quarters
  <2>9. /\ AreBytes(a, n) /\ AreBytes(b, n) /\ AreBytes(c, n) /\ AreBytes(e, n)
        /\ ValueUpTo(t, 4 * n) = FourOf(Weight(n), ValueUpTo(a, n), ValueUpTo(b, n),
                                        ValueUpTo(c, n), ValueUpTo(e, n))
    <3>1. FourValue(t, n, a, b, c, e)
      BY <1>1, <2>8, ValueOfFour, Zenon
    <3>2. QED
      BY <3>1, Zenon DEF FourValue
  <2>10. PICK w1, w2, w3, w4 : w1 = ValueUpTo(a, n) /\ w2 = ValueUpTo(b, n)
                               /\ w3 = ValueUpTo(c, n) /\ w4 = ValueUpTo(e, n)
    OBVIOUS
  <2>11. Weight(n) = WordSize
    BY <1>0, WordSizeIs, Zenon
  <2>12. IsWord(w1) /\ IsWord(w2) /\ IsWord(w3) /\ IsWord(w4)
    <3>1. ASSUME NEW s, AreBytes(s, n)  PROVE IsWord(ValueUpTo(s, n))
      BY <2>11, <3>1, ValueBound DEF IsWord
    <3>2. QED
      BY <2>9, <2>10, <3>1, Zenon
  <2>13. PICK q : q = DivideWords(<<w1, w2, w3, w4>>, d)
    OBVIOUS
  <2>14. /\ IsWord(q[1]) /\ IsWord(q[2]) /\ IsWord(q[3]) /\ IsWord(q[4])
         /\ FourOf(WordSize, q[1], q[2], q[3], q[4]) = FourOf(WordSize, w1, w2, w3, w4) \div d
    <3>1. FourDivided(q, w1, w2, w3, w4, d)
      BY <2>1, <2>12, <2>13, DivideWordsIs, Zenon
    <3>2. QED
      BY <3>1, Zenon DEF FourDivided
  <2>15. PICK z1, z2, z3, z4 : z1 = Bytes(q[1], WordBytes) /\ z2 = Bytes(q[2], WordBytes)
                               /\ z3 = Bytes(q[3], WordBytes) /\ z4 = Bytes(q[4], WordBytes)
    OBVIOUS
  <2>16. z1 \in Seq(Int) /\ Len(z1) = n /\ AreBytes(z1, n) /\ ValueUpTo(z1, n) = q[1]
    BY <1>0, <2>14, <2>15, WordInBytes, Zenon
  <2>17. z2 \in Seq(Int) /\ Len(z2) = n /\ AreBytes(z2, n) /\ ValueUpTo(z2, n) = q[2]
    BY <1>0, <2>14, <2>15, WordInBytes, Zenon
  <2>18. z3 \in Seq(Int) /\ Len(z3) = n /\ AreBytes(z3, n) /\ ValueUpTo(z3, n) = q[3]
    BY <1>0, <2>14, <2>15, WordInBytes, Zenon
  <2>19. z4 \in Seq(Int) /\ Len(z4) = n /\ AreBytes(z4, n) /\ ValueUpTo(z4, n) = q[4]
    BY <1>0, <2>14, <2>15, WordInBytes, Zenon
  <2>20. z = z1 \o z2 \o z3 \o z4
    <3>1. Value(a) = w1 /\ Value(b) = w2 /\ Value(c) = w3 /\ Value(e) = w4
      BY <2>4, <2>5, <2>6, <2>7, <2>10, Zenon DEF Value
    <3>2. /\ SubSeq(t, (1 - 1) * WordBytes + 1, 1 * WordBytes) = a
          /\ SubSeq(t, (2 - 1) * WordBytes + 1, 2 * WordBytes) = b
          /\ SubSeq(t, (3 - 1) * WordBytes + 1, 3 * WordBytes) = c
          /\ SubSeq(t, (4 - 1) * WordBytes + 1, 4 * WordBytes) = e
      BY <1>0, <2>2, <2>3, Zenon
    <3>3. QED
      BY <2>1, <2>13, <2>15, <3>1, <3>2, Zenon DEF divideTarget
  <2>21. z \in Seq(Int) /\ Len(z) = 4 * n /\ Quarters(z, n, z1, z2, z3, z4)
    BY <2>16, <2>17, <2>18, <2>19, <2>20, FourParts, Zenon
  <2>22. AreBytes(z, 4 * n)
    BY <2>16, <2>17, <2>18, <2>19, <2>21, FourPartsAreBytes, Zenon
  <2>23. ValueUpTo(z, 4 * n) = FourOf(Weight(n), ValueUpTo(z1, n), ValueUpTo(z2, n),
                                      ValueUpTo(z3, n), ValueUpTo(z4, n))
    <3>1. FourValue(z, n, z1, z2, z3, z4)
      BY <2>21, <2>22, ValueOfFour, Zenon
    <3>2. QED
      BY <3>1, Zenon DEF FourValue
  <2>24. ValueUpTo(z, 4 * n) = x \div d
    BY <1>2, <2>9, <2>10, <2>11, <2>14, <2>16, <2>17, <2>18, <2>19, <2>23, Zenon
  <2>25. IsTarget(z)
    BY <1>0, <2>21, <2>22, Zenon DEF IsTarget
  <2>26. QED
    BY <1>2, <2>1, <2>21, <2>24, <2>25, Zenon DEF Value, Quotient
<1>5. QED
  BY <1>3, <1>4

-----------------------------------------------------------------------------
(* Comparing bytes from the top compares the numbers.                         *)
IsGreatest(i, S) == i \in S /\ \A j \in S : j <= i

LEMMA GreatestMember ==
  ASSUME NEW n \in Nat, NEW S, S \subseteq 1..n, S # {}
  PROVE  \E i \in S : IsGreatest(i, S)
<1>1. PICK U : U = {k \in Nat : \A j \in S : j <= k}
  OBVIOUS
<1>2. n \in U
  <2>1. \A j \in S : j <= n
    OBVIOUS
  <2>2. QED
    BY <1>1, <2>1
<1>3. PICK u \in U : \A k \in U : u <= k
  <2>1. U \subseteq Nat /\ U # {}
    BY <1>1, <1>2
  <2>2. QED
    BY <2>1, LeastMember
<1>4. u \in Nat /\ \A j \in S : j <= u
  BY <1>1, <1>3
<1>5. u \in S
  <2>1. SUFFICES ASSUME u \notin S PROVE FALSE
    OBVIOUS
  <2>2. \A j \in S : j \in Nat /\ j >= 1 /\ j <= u /\ j # u
    BY <1>4, <2>1
  <2>3. PICK k \in Nat : k = u - 1 /\ ~(u <= k)
    <3>1. u >= 1
      <4>1. PICK j \in S : TRUE
        OBVIOUS
      <4>2. j \in Nat /\ j >= 1 /\ j <= u
        BY <2>2, Zenon
      <4>3. QED
        BY <1>4, <4>2
    <3>2. u - 1 \in Nat /\ ~(u <= u - 1)
      BY <1>4, <3>1
    <3>3. QED
      BY <3>2
  <2>4. \A j \in S : j <= k
    BY <1>4, <2>2, <2>3
  <2>5. k \in U
    BY <1>1, <2>4
  <2>6. QED
    BY <1>3, <2>3, <2>5
<1>6. QED
  BY <1>4, <1>5 DEF IsGreatest

LEMMA ValueOfSame ==
  ASSUME NEW n \in Nat, NEW b, NEW c, AreBytes(b, n), \A i \in 1..n : c[i] = b[i]
  PROVE  AreBytes(c, n) /\ ValueUpTo(b, n) = ValueUpTo(c, n)
<1>1. 0 \in Nat /\ 0 + n = n /\ \A i \in 1..n : 0 + i = i
  OBVIOUS
<1>2. AreBytes(b, 0 + n) /\ \A i \in 1..n : c[i] = b[0 + i]
  BY <1>1, Zenon
<1>3. JoinedValue(b, c, 0, n)
  BY <1>1, <1>2, ValueJoin, Zenon
<1>4. AreBytes(c, n) /\ ValueUpTo(b, 0 + n) = ValueUpTo(b, 0) + Weight(0) * ValueUpTo(c, n)
  BY <1>3, Zenon DEF JoinedValue
<1>5. PICK x \in Nat : x = ValueUpTo(c, n)
  BY <1>4, ValueIs
<1>6. ValueUpTo(b, 0) = 0 /\ Weight(0) = 1 /\ 0 + 1 * x = x
  BY <1>1, ValueOfNone, WeightIs
<1>7. QED
  BY <1>1, <1>4, <1>5, <1>6, Zenon

LEMMA FirstDifferenceDecides ==
  ASSUME NEW n \in Nat, NEW b, NEW c, AreBytes(b, n), AreBytes(c, n),
         NEW i \in 1..n, b[i] < c[i], \A j \in 1..n : j > i => b[j] = c[j]
  PROVE  ValueUpTo(b, n) < ValueUpTo(c, n)
<1>1. PICK m \in Nat, k \in Nat : m = i - 1 /\ m + 1 = i /\ k = n - i /\ n = i + k
  <2>1. i - 1 \in Nat /\ (i - 1) + 1 = i /\ n - i \in Nat /\ n = i + (n - i)
    OBVIOUS
  <2>2. QED
    BY <2>1
<1>2. PICK g : g = [j \in 1..k |-> b[i + j]]
  OBVIOUS
<1>3. (\A j \in 1..k : g[j] = b[i + j]) /\ \A j \in 1..k : g[j] = c[i + j]
  <2>1. \A j \in 1..k : i + j \in 1..n /\ i + j > i
    BY <1>1
  <2>2. \A j \in 1..k : g[j] = b[i + j]
    BY <1>2
  <2>3. QED
    BY <2>1, <2>2, Zenon
<1>4. i \in Nat /\ AreBytes(b, i + k) /\ AreBytes(c, i + k)
  <2>1. i \in Nat
    OBVIOUS
  <2>2. QED
    BY <1>1, <2>1, Zenon
<1>5. JoinedValue(b, g, i, k) /\ JoinedValue(c, g, i, k)
  <2>1. JoinedValue(b, g, i, k)
    BY <1>3, <1>4, ValueJoin, Zenon
  <2>2. JoinedValue(c, g, i, k)
    BY <1>3, <1>4, ValueJoin, Zenon
  <2>3. QED
    BY <2>1, <2>2
<1>6. AreBytes(g, k) /\ AreBytes(b, i) /\ AreBytes(c, i)
  BY <1>5, Zenon DEF JoinedValue
<1>7. AreBytes(b, m) /\ AreBytes(c, m) /\ AreBytes(b, m + 1) /\ AreBytes(c, m + 1)
  <2>1. 1..m \subseteq 1..n /\ 1..(m + 1) \subseteq 1..n
    BY <1>1
  <2>2. QED
    BY <2>1, Zenon DEF AreBytes
<1>8. PICK x \in Nat, y \in Nat, w \in Nat, p \in Nat, q \in Nat :
        /\ x = ValueUpTo(b, m) /\ y = ValueUpTo(c, m) /\ w = Weight(m)
        /\ p = b[i] /\ q = c[i] /\ x < w /\ p < q
  <2>1. ValueUpTo(b, m) \in Nat /\ ValueUpTo(b, m) < Weight(m)
    BY <1>7, ValueBound
  <2>2. ValueUpTo(c, m) \in Nat
    BY <1>7, ValueBound
  <2>3. Weight(m) \in Nat
    BY WeightIs
  <2>4. b[i] \in Nat /\ c[i] \in Nat
    BY <1>6, ByteIsNat DEF AreBytes
  <2>5. QED
    BY <2>1, <2>2, <2>3, <2>4
<1>9. ValueUpTo(b, i) = x + p * w /\ ValueUpTo(c, i) = y + q * w
  <2>1. ValueUpTo(b, m + 1) = ValueUpTo(b, m) + b[m + 1] * Weight(m)
    BY <1>7, ValueIs, Zenon
  <2>2. ValueUpTo(c, m + 1) = ValueUpTo(c, m) + c[m + 1] * Weight(m)
    BY <1>7, ValueIs, Zenon
  <2>3. QED
    BY <1>1, <1>8, <2>1, <2>2, Zenon
<1>10. x + p * w < y + q * w
  <2>1. PICK d \in Nat : q = (p + 1) + d
    <3>1. q - (p + 1) \in Nat /\ q = (p + 1) + (q - (p + 1))
      BY <1>8
    <3>2. QED
      BY <3>1
  <2>2. q * w = p * w + w + d * w /\ d * w \in Nat /\ p * w \in Nat
    BY <2>1, SMT
  <2>3. PICK a \in Nat, e \in Nat : a = p * w /\ e = d * w
    BY <2>2
  <2>4. x + a < y + (a + w + e)
    BY <1>8
  <2>5. QED
    BY <2>2, <2>3, <2>4, Zenon
<1>11. PICK v \in Nat : v = Weight(i) * ValueUpTo(g, k)
  <2>1. PICK r \in Nat, s \in Nat : r = Weight(i) /\ s = ValueUpTo(g, k)
    BY <1>4, <1>6, WeightIs, ValueIs
  <2>2. r * s \in Nat
    OBVIOUS
  <2>3. QED
    BY <2>1, <2>2
<1>12. ValueUpTo(b, n) = ValueUpTo(b, i) + v /\ ValueUpTo(c, n) = ValueUpTo(c, i) + v
  BY <1>1, <1>5, <1>11, Zenon DEF JoinedValue
<1>13. PICK s \in Nat, t \in Nat : s = x + p * w /\ t = y + q * w
  <2>1. x + p * w \in Nat /\ y + q * w \in Nat
    BY SMT
  <2>2. QED
    BY <2>1
<1>14. ValueUpTo(b, n) = s + v /\ ValueUpTo(c, n) = t + v /\ s < t
  BY <1>9, <1>10, <1>12, <1>13, Zenon
<1>15. s + v < t + v
  BY <1>14
<1>16. QED
  BY <1>14, <1>15, Zenon

LEMMA VerifyIsComparison ==
  ASSUME NEW h, NEW t, AreBytes(h, TargetBytes), AreBytes(t, TargetBytes)
  PROVE  verifyHashVsTarget(h, t) <=> ValueUpTo(h, TargetBytes) <= ValueUpTo(t, TargetBytes)
<1>0. PICK n \in Nat : n = TargetBytes
  BY TargetBytesIs
<1>1. PICK x \in Nat, y \in Nat : x = ValueUpTo(h, n) /\ y = ValueUpTo(t, n)
  BY <1>0, ValueIs
<1>2. PICK differ : differ = {i \in 1..n : h[i] # t[i]}
  OBVIOUS
<1>3. verifyHashVsTarget(h, t) <=>
        differ = {} \/ \E i \in differ : h[i] < t[i] /\ \A j \in differ : j <= i
  BY <1>0, <1>2, Zenon DEF verifyHashVsTarget
<1>4. CASE differ = {}
  <2>1. \A i \in 1..n : t[i] = h[i]
    BY <1>2, <1>4, Zenon
  <2>2. ValueUpTo(h, n) = ValueUpTo(t, n)
    BY <1>0, <2>1, ValueOfSame, Zenon
  <2>3. x <= y
    BY <1>1, <2>2
  <2>4. QED
    BY <1>0, <1>1, <1>3, <1>4, <2>3, Zenon
<1>5. CASE differ # {}
  <2>1. PICK i \in differ : IsGreatest(i, differ)
    <3>1. differ \subseteq 1..n
      BY <1>2
    <3>2. QED
      BY <1>5, <3>1, GreatestMember, Zenon
  <2>2. i \in 1..n /\ h[i] # t[i] /\ \A j \in differ : j <= i
    BY <1>2, <2>1, Zenon DEF IsGreatest
  <2>3. \A j \in 1..n : j > i => h[j] = t[j]
    <3>1. \A j \in 1..n : j > i => ~(j <= i)
      BY <2>2
    <3>2. QED
      BY <1>2, <2>2, <3>1, Zenon
  <2>4. PICK p \in Nat, q \in Nat : p = h[i] /\ q = t[i]
    <3>1. h[i] \in Nat /\ t[i] \in Nat
      BY <1>0, <2>2, ByteIsNat DEF AreBytes
    <3>2. QED
      BY <3>1
  <2>5. CASE p < q
    <3>1. x < y
      BY <1>0, <1>1, <2>2, <2>3, <2>4, <2>5, FirstDifferenceDecides, Zenon
    <3>2. x <= y
      BY <3>1
    <3>3. QED
      BY <1>0, <1>1, <1>3, <2>1, <2>2, <2>4, <2>5, <3>2, Zenon
  <2>6. CASE ~(p < q)
    <3>1. q < p /\ \A j \in 1..n : j > i => t[j] = h[j]
      BY <2>2, <2>3, <2>4, <2>6
    <3>2. y < x
      BY <1>0, <1>1, <2>2, <2>4, <3>1, FirstDifferenceDecides, Zenon
    <3>3. ~(x <= y)
      BY <3>2
    <3>4. ASSUME NEW k \in differ, h[k] < t[k], \A j \in differ : j <= k  PROVE FALSE
      <4>1. i <= k /\ k <= i /\ k \in 1..n
        BY <1>2, <2>1, <2>2, <3>4, Zenon
      <4>2. k = i
        BY <2>2, <4>1
      <4>3. QED
        BY <2>4, <2>6, <3>4, <4>2, Zenon
    <3>5. QED
      BY <1>0, <1>1, <1>3, <1>5, <3>3, <3>4, Zenon
  <2>7. QED
    BY <2>5, <2>6
<1>6. QED
  BY <1>4, <1>5

-----------------------------------------------------------------------------
(* The compact form.                                                          *)
ZerosAbove(t, e, n) == \A j \in 1..n : j > e => t[j] = 0

LEMMA ValueBelowZeros ==
  ASSUME NEW n \in Nat, NEW t, AreBytes(t, n), NEW e \in 0..n, ZerosAbove(t, e, n)
  PROVE  ValueUpTo(t, n) = ValueUpTo(t, e)
<1>1. PICK k \in Nat : e \in Nat /\ n = e + k
  <2>1. n - e \in Nat /\ n = e + (n - e) /\ e \in Nat
    OBVIOUS
  <2>2. QED
    BY <2>1
<1> DEFINE S == {j \in 0..k : ValueUpTo(t, e + j) = ValueUpTo(t, e)}
<1>2. 0 \in S
  <2>1. 0 \in 0..k /\ e + 0 = e
    BY <1>1
  <2>2. QED
    BY <2>1
<1>3. ASSUME NEW j \in 0..(k - 1), j \in S  PROVE j + 1 \in S
  <2>1. /\ j \in Nat /\ j + 1 \in 0..k /\ e + j \in Nat /\ (e + j) + 1 = e + (j + 1)
        /\ (e + j) + 1 \in 1..n /\ (e + j) + 1 > e
        /\ 1..(e + j) \subseteq 1..n /\ 1..((e + j) + 1) \subseteq 1..n
    BY <1>1
  <2>2. AreBytes(t, e + j) /\ AreBytes(t, (e + j) + 1)
    BY <2>1, Zenon DEF AreBytes
  <2>3. PICK x \in Nat, w \in Nat : x = ValueUpTo(t, e + j) /\ w = Weight(e + j)
    BY <2>1, <2>2, ValueIs, WeightIs
  <2>4. ValueUpTo(t, (e + j) + 1) = ValueUpTo(t, e + j) + t[(e + j) + 1] * Weight(e + j)
    BY <2>1, <2>2, ValueIs, Zenon
  <2>5. t[(e + j) + 1] = 0
    BY <2>1, Zenon DEF ZerosAbove
  <2>6. x + 0 * w = x
    OBVIOUS
  <2>7. ValueUpTo(t, e + (j + 1)) = ValueUpTo(t, e)
    <3>1. ValueUpTo(t, e + j) = ValueUpTo(t, e)
      BY <1>3
    <3>2. QED
      BY <2>1, <2>3, <2>4, <2>5, <2>6, <3>1, Zenon
  <2>8. QED
    BY <2>1, <2>7
<1>4. k \in S
  <2> HIDE DEF S
  <2>1. \A j \in 0..k : j \in S
    BY <1>1, <1>2, <1>3, InductionUpTo
  <2>2. QED
    BY <1>1, <2>1
<1>5. QED
  BY <1>1, <1>4

(* The highest bytes, k of them, are the number rounded down to their place.  *)
RoundedDown(x, unit, v) == x * unit = v - (v % unit)

LEMMA HighBytesRoundDown ==
  ASSUME NEW t, AreBytes(t, TargetBytes), NEW n \in Nat, NEW k \in Nat,
         n + k <= TargetBytes, ZerosAbove(t, n + k, TargetBytes),
         NEW c, \A i \in 1..k : c[i] = t[n + i]
  PROVE  AreBytes(c, k) /\ RoundedDown(ValueUpTo(c, k), Weight(n), ValueUpTo(t, TargetBytes))
<1>1. PICK l \in Nat : l = TargetBytes
  BY TargetBytesIs
<1>2. n + k \in 0..l /\ 1..(n + k) \subseteq 1..l
  BY <1>1
<1>3. AreBytes(t, l) /\ ZerosAbove(t, n + k, l) /\ AreBytes(t, n + k)
  BY <1>1, <1>2, Zenon DEF AreBytes
<1>4. ValueUpTo(t, l) = ValueUpTo(t, n + k)
  BY <1>2, <1>3, ValueBelowZeros, Zenon
<1>5. JoinedValue(t, c, n, k)
  BY <1>3, ValueJoin, Zenon
<1>6. /\ AreBytes(t, n) /\ AreBytes(c, k)
      /\ ValueUpTo(t, n + k) = ValueUpTo(t, n) + Weight(n) * ValueUpTo(c, k)
  BY <1>5, Zenon DEF JoinedValue
<1>7. PICK x \in Nat, r \in Nat, w \in Nat \ {0} :
        x = ValueUpTo(c, k) /\ r = ValueUpTo(t, n) /\ w = Weight(n) /\ r < w
  <2>1. ValueUpTo(t, n) \in Nat /\ ValueUpTo(t, n) < Weight(n)
    BY <1>6, ValueBound
  <2>2. ValueUpTo(c, k) \in Nat
    BY <1>6, ValueBound
  <2>3. Weight(n) \in Nat \ {0}
    BY WeightIs
  <2>4. QED
    BY <2>1, <2>2, <2>3
<1>8. PICK v \in Nat : v = w * x + r
  BY SMT
<1>9. v % w = r
  BY <1>7, <1>8, DivModUnique
<1>10. x * w = v - r
  <2>1. PICK y \in Nat : y = w * x /\ y = x * w
    <3>1. w * x = x * w /\ w * x \in Nat
      BY SMT
    <3>2. QED
      BY <3>1
  <2>2. y = (y + r) - r
    OBVIOUS
  <2>3. QED
    BY <1>8, <2>1, <2>2, Zenon
<1>11. ValueUpTo(t, l) = v
  <2>1. r + w * x = w * x + r
    BY SMT
  <2>2. QED
    BY <1>4, <1>6, <1>7, <1>8, <2>1, Zenon
<1>12. QED
  BY <1>1, <1>6, <1>7, <1>9, <1>10, <1>11, Zenon DEF RoundedDown

LEMMA ExponentIs ==
  ASSUME NEW t, IsTarget(t), NEW e, e = ExponentOf(t)
  PROVE  e \in Nat /\ e >= 3 /\ e <= TargetBytes /\ ZerosAbove(t, e, TargetBytes)
<1>0. PICK n \in Nat : n = TargetBytes /\ n > 3
  BY TargetBytesIs
<1> DEFINE significant == {i \in 1..TargetBytes : t[i] # 0}
           top == CHOOSE i \in significant : \A j \in significant : j <= i
<1>1. e = IF significant = {} \/ top <= 3 THEN 3 ELSE top
  BY DEF ExponentOf
<1>2. significant = {i \in 1..n : t[i] # 0}
  BY <1>0
<1>3. top = CHOOSE i \in significant : \A j \in significant : j <= i
  OBVIOUS
<1> HIDE DEF significant, top
<1>4. CASE significant = {}
  <2>1. e = 3
    BY <1>1, <1>4, Zenon
  <2>2. \A j \in 1..n : t[j] = 0
    BY <1>2, <1>4, Zenon
  <2>3. ZerosAbove(t, e, TargetBytes)
    BY <1>0, <2>2, Zenon DEF ZerosAbove
  <2>4. QED
    BY <1>0, <2>1, <2>3
<1>5. CASE significant # {}
  <2>1. top \in significant /\ \A j \in significant : j <= top
    <3>1. significant \subseteq 1..n
      BY <1>2
    <3>2. \E i \in significant : IsGreatest(i, significant)
      BY <1>5, <3>1, GreatestMember, Zenon
    <3>3. \E i \in significant : \A j \in significant : j <= i
      BY <3>2, Zenon DEF IsGreatest
    <3>4. QED
      BY <1>3, <3>3, Zenon
  <2>2. top \in 1..n
    BY <1>2, <2>1, Zenon
  <2>3. e \in Nat /\ e >= 3 /\ e <= n /\ top <= e
    <3>1. CASE top <= 3
      <4>1. e = 3
        BY <1>1, <3>1, Zenon
      <4>2. QED
        BY <1>0, <3>1, <4>1
    <3>2. CASE ~(top <= 3)
      <4>1. e = top
        BY <1>1, <1>5, <3>2, Zenon
      <4>2. QED
        BY <2>2, <3>2, <4>1
    <3>3. QED
      BY <3>1, <3>2
  <2>4. ASSUME NEW j \in 1..n, j > e  PROVE t[j] = 0
    <3>1. ~(j <= top)
      BY <2>2, <2>3, <2>4
    <3>2. QED
      BY <1>2, <2>1, <3>1, Zenon
  <2>5. ZerosAbove(t, e, TargetBytes)
    BY <1>0, <2>4, Zenon DEF ZerosAbove
  <2>6. QED
    BY <1>0, <2>3, <2>5, Zenon
<1>6. QED
  BY <1>4, <1>5

LEMMA FirstThree ==
  ASSUME NEW c, NEW s, c \in Seq(Int), Len(c) = 4, s \in Seq(Int), Len(s) = 3,
         s[1] = c[1], s[2] = c[2], s[3] = c[3]
  PROVE  SubSeq(c, 1, 3) = s
<1>1. PICK p : p = SubSeq(c, 1, 3)
  OBVIOUS
<1>2. 0 + 1 = 1 /\ 0 \in Nat /\ 3 \in Nat /\ 3 = 0 + 3 /\ 3 <= Len(c)
  OBVIOUS
<1>3. Part(p, c, 0, 3)
  <2>1. p = SubSeq(c, 0 + 1, 3)
    BY <1>1, <1>2, Zenon
  <2>2. QED
    BY <1>2, <2>1, PartOf
<1>4. p \in Seq(Int) /\ Len(p) = Len(s) /\ \A i \in 1..3 : p[i] = c[0 + i]
  BY <1>3, Zenon DEF Part
<1>5. \A i \in 1..Len(s) : p[i] = s[i]
  <2>1. \A i \in 1..3 : 0 + i = i /\ (i = 1 \/ i = 2 \/ i = 3)
    OBVIOUS
  <2>2. QED
    BY <1>4, <2>1, Zenon
<1>6. p = s
  BY <1>4, <1>5, SameInts
<1>7. QED
  BY <1>1, <1>6

(* The nBits computed from a target.                                          *)
Compacts(c, t) ==
  /\ c[3] < ByteSize \div 2
  /\ RoundedDown(Value(SubSeq(c, 1, 3)), Weight(c[4] - 3), Value(t))

LEMMA CompactIs ==
  ASSUME NEW t, IsTarget(t), NEW c, c = calculateCompactRepFromFullRep(t)
  PROVE  Compacts(c, t)
<1>1. PICK e \in Nat : e = ExponentOf(t) /\ e >= 3 /\ e <= TargetBytes /\ ZerosAbove(t, e, TargetBytes)
  BY ExponentIs
<1>2. t \in Seq(Int) /\ Len(t) = TargetBytes /\ AreBytes(t, TargetBytes) /\ TargetBytes \in Nat
  BY TargetBytesIs DEF IsTarget
<1>3. PICK m : m = SubSeq(t, e - 2, e)
  OBVIOUS
<1>4. m \in Seq(Int) /\ Len(m) = 3 /\ m[1] = t[e - 2] /\ m[2] = t[e - 1] /\ m[3] = t[e]
  <2>1. PICK n \in Nat : n = e - 3 /\ n + 1 = e - 2 /\ e = n + 3 /\ n + 2 = e - 1 /\ e <= Len(t)
    <3>1. e - 3 \in Nat /\ (e - 3) + 1 = e - 2 /\ e = (e - 3) + 3 /\ (e - 3) + 2 = e - 1
      BY <1>1
    <3>2. QED
      BY <1>1, <1>2, <3>1
  <2>2. Part(m, t, n, 3)
    <3>1. 3 \in Nat /\ m = SubSeq(t, n + 1, e)
      BY <1>3, <2>1, Zenon
    <3>2. QED
      BY <1>2, <2>1, <3>1, PartOf
  <2>3. m \in Seq(Int) /\ Len(m) = 3 /\ \A i \in 1..3 : m[i] = t[n + i]
    BY <2>2, Zenon DEF Part
  <2>4. 1 \in 1..3 /\ 2 \in 1..3 /\ 3 \in 1..3
    OBVIOUS
  <2>5. QED
    BY <2>1, <2>3, <2>4, Zenon
<1>5. PICK x \in Nat, y \in Nat, z \in Nat : x = m[1] /\ y = m[2] /\ z = m[3]
  <2>1. PICK l \in Nat : l = TargetBytes
    BY TargetBytesIs
  <2>2. e - 2 \in 1..l /\ e - 1 \in 1..l /\ e \in 1..l
    BY <1>1, <2>1
  <2>3. t[e - 2] \in Byte /\ t[e - 1] \in Byte /\ t[e] \in Byte
    BY <1>2, <2>1, <2>2, Zenon DEF AreBytes
  <2>4. QED
    BY <1>4, <2>3, ByteIsNat, Zenon
<1>7. PICK v : v = Value(t) /\ v = ValueUpTo(t, TargetBytes)
  BY <1>2, Zenon DEF Value
<1>8. c = IF m[3] >= ByteSize \div 2 THEN <<m[2], m[3], 0, e + 1>> ELSE m \o <<e>>
  BY <1>1, <1>3, Zenon DEF calculateCompactRepFromFullRep
<1>9. PICK half \in Nat : half = ByteSize \div 2 /\ half > 0
  BY ByteIsNat
<1>10. CASE z >= half
  <2>1. c = <<y, z, 0, e + 1>>
    BY <1>5, <1>8, <1>9, <1>10, Zenon
  <2>2. c[3] < half /\ c[4] - 3 = e - 2
    BY <1>9, <2>1
  <2>3. PICK s : s = <<y, z, 0>>
    OBVIOUS
  <2>4. SubSeq(c, 1, 3) = s
    <3>1. c \in Seq(Int) /\ Len(c) = 4 /\ s \in Seq(Int) /\ Len(s) = 3
      BY <2>1, <2>3
    <3>2. s[1] = c[1] /\ s[2] = c[2] /\ s[3] = c[3]
      BY <2>1, <2>3
    <3>3. QED
      BY <3>1, <3>2, FirstThree, Zenon
  <2>5. PICK n \in Nat : n = e - 2 /\ n + 2 = e /\ n + 1 = e - 1
    <3>1. e - 2 \in Nat /\ (e - 2) + 2 = e /\ (e - 2) + 1 = e - 1
      BY <1>1
    <3>2. QED
      BY <3>1
  <2>6. \A i \in 1..2 : s[i] = t[n + i]
    <3>1. s[1] = t[n + 1] /\ s[2] = t[n + 2]
      <4>1. s[1] = y /\ s[2] = z
        BY <2>3
      <4>2. QED
        BY <1>4, <1>5, <2>5, <4>1, Zenon
    <3>2. \A i \in 1..2 : i = 1 \/ i = 2
      OBVIOUS
    <3>3. QED
      BY <3>1, <3>2, Zenon
  <2>7. AreBytes(s, 2) /\ RoundedDown(ValueUpTo(s, 2), Weight(n), ValueUpTo(t, TargetBytes))
    <3>1. 2 \in Nat /\ n + 2 <= TargetBytes /\ ZerosAbove(t, n + 2, TargetBytes)
      BY <1>1, <2>5
    <3>2. QED
      BY <1>2, <2>6, <3>1, HighBytesRoundDown, Zenon
  <2>8. Value(s) = ValueUpTo(s, 2)
    <3>1. s[3] = 0 /\ Len(s) = 3 /\ 2 + 1 = 3 /\ 2 \in Nat
      BY <2>3
    <3>2. AreBytes(s, 2 + 1)
      <4>1. 0 \in Byte
        BY ByteIsNat DEF Byte
      <4>2. \A i \in 1..(2 + 1) : i \in 1..2 \/ i = 3
        OBVIOUS
      <4>3. QED
        BY <2>7, <3>1, <4>1, <4>2, Zenon DEF AreBytes
    <3>3. ValueUpTo(s, 2 + 1) = ValueUpTo(s, 2) + s[2 + 1] * Weight(2)
      BY <2>7, <3>1, <3>2, ValueIs, Zenon
    <3>4. PICK a \in Nat, w \in Nat : a = ValueUpTo(s, 2) /\ w = Weight(2)
      BY <2>7, <3>1, ValueIs, WeightIs
    <3>5. a + 0 * w = a
      OBVIOUS
    <3>6. QED
      BY <3>1, <3>3, <3>4, <3>5, Zenon DEF Value
  <2>9. QED
    BY <1>7, <1>9, <2>2, <2>4, <2>5, <2>7, <2>8, Zenon DEF Compacts
<1>11. CASE ~(z >= half)
  <2>1. PICK u \in Seq(Int) : u = <<e>> /\ Len(u) = 1 /\ u[1] = e
    <3>1. <<e>> \in Seq(Int) /\ Len(<<e>>) = 1 /\ <<e>>[1] = e
      OBVIOUS
    <3>2. QED
      BY <3>1
  <2>2. c \in Seq(Int) /\ Len(c) = 4 /\ (\A i \in 1..3 : c[i] = m[i]) /\ c[4] = e
    <3>1. c = m \o u
      BY <1>5, <1>8, <1>9, <1>11, <2>1, Zenon
    <3>2. m \in Seq(Int) /\ Len(m) = 3
      BY <1>4, Zenon
    <3>3. PICK k : k = m \o u
      OBVIOUS
    <3>4. /\ k \in Seq(Int) /\ Len(k) = Len(m) + Len(u)
          /\ (\A i \in 1..Len(m) : k[i] = m[i]) /\ \A i \in 1..Len(u) : k[Len(m) + i] = u[i]
      BY <3>2, <3>3, IntsJoined, Zenon
    <3>5. 3 + 1 = 4 /\ 1 \in 1..1
      OBVIOUS
    <3>6. k \in Seq(Int) /\ Len(k) = 4 /\ (\A i \in 1..3 : k[i] = m[i]) /\ k[4] = e
      <4>1. Len(k) = 4
        BY <2>1, <3>2, <3>4, <3>5, Zenon
      <4>2. \A i \in 1..3 : k[i] = m[i]
        BY <3>2, <3>4, Zenon
      <4>3. k[4] = e
        <5>1. 1 \in 1..Len(u) /\ Len(m) + 1 = 4
          BY <2>1, <3>2
        <5>2. k[Len(m) + 1] = u[1]
          BY <3>4, <5>1, Zenon
        <5>3. QED
          BY <2>1, <5>1, <5>2, Zenon
      <4>4. QED
        BY <3>4, <4>1, <4>2, <4>3, Zenon
    <3>7. QED
      BY <3>1, <3>3, <3>6, Zenon
  <2>3. c[3] < half /\ c[4] = e
    <3>1. c[3] = z
      BY <1>5, <2>2
    <3>2. QED
      BY <1>9, <1>11, <2>2, <3>1
  <2>4. SubSeq(c, 1, 3) = m
    <3>1. m[1] = c[1] /\ m[2] = c[2] /\ m[3] = c[3]
      <4>1. 1 \in 1..3 /\ 2 \in 1..3 /\ 3 \in 1..3
        OBVIOUS
      <4>2. QED
        BY <2>2, <4>1, Zenon
    <3>2. QED
      BY <1>4, <2>2, <3>1, FirstThree, Zenon
  <2>5. PICK n \in Nat : n = e - 3 /\ n + 3 = e /\ n + 1 = e - 2 /\ n + 2 = e - 1
    <3>1. e - 3 \in Nat /\ (e - 3) + 3 = e /\ (e - 3) + 1 = e - 2 /\ (e - 3) + 2 = e - 1
      BY <1>1
    <3>2. QED
      BY <3>1
  <2>6. \A i \in 1..3 : m[i] = t[n + i]
    <3>1. \A i \in 1..3 : i = 1 \/ i = 2 \/ i = 3
      OBVIOUS
    <3>2. QED
      BY <1>4, <2>5, <3>1, Zenon
  <2>7. RoundedDown(ValueUpTo(m, 3), Weight(n), ValueUpTo(t, TargetBytes))
    <3>1. 3 \in Nat /\ n + 3 <= TargetBytes /\ ZerosAbove(t, n + 3, TargetBytes)
      BY <1>1, <2>5
    <3>2. QED
      BY <1>2, <2>6, <3>1, HighBytesRoundDown, Zenon
  <2>8. Value(m) = ValueUpTo(m, 3)
    BY <1>4, Zenon DEF Value
  <2>9. QED
    BY <1>7, <1>9, <2>3, <2>4, <2>5, <2>7, <2>8, Zenon DEF Compacts
<1>12. QED
  BY <1>10, <1>11

-----------------------------------------------------------------------------
(* Targets.  What holds in every state besides the property: what is divided  *)
(* is a target, and the compact form of a divided one was computed from it.   *)
TargetInv ==
  /\ IsTarget(fullRep) /\ base \in Nat /\ divisions \in Nat /\ product \in Nat \ {0}
  /\ DivisionsCompose
  /\ divisions > 0 => compactRep = calculateCompactRepFromFullRep(fullRep)

LEMMA ExpandedIsTarget ==
  ASSUME NEW compact \in CompactReps, NEW t, t = calculateFullRepFromCompactRep(compact)
  PROVE  IsTarget(t)
<1>0. PICK n \in Nat : n = TargetBytes
  BY TargetBytesIs
<1>1. PICK f : f = [i \in 1..n |-> LET k == i - (compact[4] - 3) IN
                                     IF k \in 1..3 THEN compact[k] ELSE 0]
  OBVIOUS
<1>2. ASSUME NEW i \in 1..n  PROVE f[i] \in Byte /\ f[i] \in Int
  <2>1. PICK k : k = i - (compact[4] - 3)
    OBVIOUS
  <2>2. f[i] = IF k \in 1..3 THEN compact[k] ELSE 0
    BY <1>1, <2>1
  <2>3. 0 \in Byte /\ Byte \subseteq Int
    BY ByteIsNat DEF Byte
  <2>4. k \in 1..3 => compact[k] \in Byte
    BY TargetAssumption, Zenon
  <2>5. QED
    BY <2>2, <2>3, <2>4, Zenon
<1>3. f \in [1..n -> Int]
  <2>1. f = [i \in 1..n |-> f[i]]
    BY <1>1
  <2>2. QED
    BY <1>2, <2>1
<1>4. f \in Seq(Int) /\ Len(f) = n
  BY <1>3
<1>5. f \o << >> = f
  BY <1>4, ConcatEmptySeq
<1>6. t = f
  BY <1>0, <1>1, <1>5, Zenon DEF calculateFullRepFromCompactRep
<1>7. QED
  BY <1>0, <1>2, <1>4, <1>6, Zenon DEF IsTarget, AreBytes

LEMMA BytesAreTarget ==
  ASSUME NEW v \in Nat, NEW t, t = Bytes(v, TargetBytes)
  PROVE  IsTarget(t) /\ Value(t) = v % Weight(TargetBytes)
<1>1. PICK n \in Nat : n = TargetBytes
  BY TargetBytesIs
<1>2. t \in Seq(Int) /\ Len(t) = n /\ AreBytes(t, n) /\ ValueUpTo(t, n) = v % Weight(n)
  BY <1>1, BytesIs
<1>3. QED
  BY <1>1, <1>2, Zenon DEF IsTarget, Value

LEMMA ValueOfTarget ==
  ASSUME NEW t, IsTarget(t)
  PROVE  Value(t) \in Nat /\ Value(t) = ValueUpTo(t, TargetBytes)
<1>1. Value(t) = ValueUpTo(t, TargetBytes)
  BY Zenon DEF IsTarget, Value
<1>2. ValueUpTo(t, TargetBytes) \in Nat
  BY TargetBytesIs, ValueIs DEF IsTarget
<1>3. QED
  BY <1>1, <1>2

LEMMA TargetStarts == TargetStart => TargetInv
<1>1. SUFFICES ASSUME TargetStart PROVE TargetInv
  OBVIOUS
<1>2. IsTarget(fullRep)
  <2>1. CASE \E compact \in CompactReps : FromCompact(compact)
    BY <2>1, ExpandedIsTarget, Zenon DEF FromCompact
  <2>2. CASE \E value \in FullReps : FromFull(value)
    <3>1. PICK value \in FullReps : fullRep = Bytes(value, TargetBytes)
      BY <2>2, Zenon DEF FromFull
    <3>2. value \in Nat
      BY TargetAssumption
    <3>3. QED
      BY <3>1, <3>2, BytesAreTarget, Zenon
  <2>3. QED
    BY <1>1, <2>1, <2>2, Zenon DEF TargetStart
<1>3. base = Value(fullRep) /\ divisions = 0 /\ product = 1
  BY <1>1, Zenon DEF TargetStart
<1>4. PICK x \in Nat : x = Value(fullRep)
  BY <1>2, ValueOfTarget
<1>5. x \div 1 = x
  OBVIOUS
<1>6. DivisionsCompose
  BY <1>3, <1>4, <1>5, Zenon DEF DivisionsCompose
<1>7. base \in Nat /\ divisions \in Nat /\ product \in Nat \ {0} /\ ~(divisions > 0)
  BY <1>3, <1>4
<1>8. QED
  BY <1>2, <1>6, <1>7, Zenon DEF TargetInv

LEMMA TargetStep == TargetInv /\ [TargetNext]_targetVars => TargetInv'
<1>1. SUFFICES ASSUME TargetInv, [TargetNext]_targetVars PROVE TargetInv'
  OBVIOUS
<1>2. CASE UNCHANGED targetVars
  BY <1>1, <1>2, Zenon DEF TargetInv, IsTarget, AreBytes, DivisionsCompose, targetVars
<1>3. ASSUME NEW d \in Divisors, div(d)  PROVE TargetInv'
  <2>1. PICK t, z : t = fullRep /\ z = divideTarget(t, d)
    OBVIOUS
  <2>2. /\ fullRep' = z /\ compactRep' = calculateCompactRepFromFullRep(z) /\ base' = base
        /\ divisions' = divisions + 1 /\ product' = product * (IF d = 0 THEN 1 ELSE d)
    BY <1>3, <2>1, Zenon DEF div
  <2>3. PICK p \in Nat \ {0}, b \in Nat, n \in Nat :
          p = product /\ b = base /\ n = divisions /\ IsTarget(t) /\ Value(t) = b \div p
    BY <1>1, <2>1, Zenon DEF TargetInv, DivisionsCompose
  <2>4. d \in Nat
    <3>1. PICK size \in Nat : size = WordSize
      BY WordSizeIs
    <3>2. d \in 0..(size - 1)
      BY <3>1, TargetAssumption
    <3>3. QED
      BY <3>2
  <2>5. PICK f \in Nat \ {0} : f = IF d = 0 THEN 1 ELSE d
    BY <2>4
  <2>6. IsTarget(z) /\ Value(z) = Value(t) \div f
    <3>1. Quotient(z, t, f)
      <4>1. IsTarget(t)
        BY <2>3, Zenon
      <4>2. QED
        BY <2>1, <2>4, <2>5, <4>1, DivideTargetIs, Zenon
    <3>2. QED
      BY <3>1, Zenon DEF Quotient
  <2>7. DividesBoth(b, p, f)
    BY ByProduct
  <2>8. p * f \in Nat \ {0} /\ b \div (p * f) = (b \div p) \div f
    BY <2>7, Zenon DEF DividesBoth
  <2>9. product' = p * f
    BY <2>2, <2>3, <2>5, Zenon
  <2>10. DivisionsCompose'
    BY <2>2, <2>3, <2>6, <2>8, <2>9, Zenon DEF DivisionsCompose
  <2>11. divisions' \in Nat
    BY <2>2, <2>3
  <2>12. IsTarget(fullRep)'
    BY <2>2, <2>6, Zenon DEF IsTarget, AreBytes
  <2>13. (compactRep = calculateCompactRepFromFullRep(fullRep))'
    BY <2>2, Zenon
  <2>14. base' \in Nat /\ product' \in Nat \ {0}
    BY <2>2, <2>3, <2>8, <2>9, Zenon
  <2>15. QED
    BY <2>10, <2>11, <2>12, <2>13, <2>14, Zenon DEF TargetInv
<1>4. QED
  BY <1>1, <1>2, <1>3, Zenon DEF TargetNext

LEMMA TargetImplied == TargetInv => TargetsExact
<1>1. SUFFICES ASSUME TargetInv PROVE TargetsExact
  OBVIOUS
<1>2. PICK t, c : t = fullRep /\ c = compactRep /\ IsTarget(t)
  BY <1>1, Zenon DEF TargetInv
<1>3. DivisionsCompose
  BY <1>1, Zenon DEF TargetInv
<1>4. CompactRoundsDown
  <2>1. ASSUME divisions > 0  PROVE Compacts(c, t)
    <3>1. c = calculateCompactRepFromFullRep(t)
      BY <1>1, <1>2, <2>1, Zenon DEF TargetInv
    <3>2. QED
      BY <1>2, <3>1, CompactIs, Zenon
  <2>2. QED
    BY <1>2, <2>1, Zenon DEF CompactRoundsDown, Compacts, RoundedDown
<1>5. ComparesNumerically
  <2>1. PICK n \in Nat, w \in Nat \ {0} : n = TargetBytes /\ w = Weight(n)
    <3>1. PICK n \in Nat : n = TargetBytes
      BY TargetBytesIs
    <3>2. Weight(n) \in Nat \ {0}
      BY WeightIs
    <3>3. QED
      BY <3>1, <3>2
  <2>2. ASSUME NEW v \in 0..(w - 1)
        PROVE  verifyHashVsTarget(Bytes(v, TargetBytes), t) = (v <= Value(t))
    <3>1. PICK h : h = Bytes(v, TargetBytes)
      OBVIOUS
    <3>2. v \in Nat /\ v = w * 0 + v /\ v < w
      BY <2>1
    <3>3. v % w = v
      BY <2>1, <3>2, DivModUnique
    <3>4. IsTarget(h) /\ Value(h) = v
      BY <2>1, <3>1, <3>2, <3>3, BytesAreTarget, Zenon
    <3>5. Value(h) = ValueUpTo(h, TargetBytes) /\ Value(t) = ValueUpTo(t, TargetBytes)
      BY <1>2, <3>4, ValueOfTarget, Zenon
    <3>6. AreBytes(h, TargetBytes) /\ AreBytes(t, TargetBytes)
      BY <1>2, <3>4, Zenon DEF IsTarget
    <3>7. verifyHashVsTarget(h, t) <=> ValueUpTo(h, TargetBytes) <= ValueUpTo(t, TargetBytes)
      BY <3>6, VerifyIsComparison, Zenon
    <3>8. verifyHashVsTarget(h, t) \in BOOLEAN /\ (v <= Value(t)) \in BOOLEAN
      BY <1>2, <3>2, ValueOfTarget DEF verifyHashVsTarget
    <3>9. QED
      BY <3>1, <3>4, <3>5, <3>7, <3>8, Zenon
  <2>3. QED
    BY <1>2, <2>1, <2>2, Zenon DEF ComparesNumerically
<1>6. QED
  BY <1>3, <1>4, <1>5, Zenon DEF TargetsExact

(***************************************************************************)
(* Whatever the sizes of a byte and a word, a target means one number: the  *)
(* long division of divideTarget loses no remainder between words or calls, *)
(* calculateCompactRepFromFullRep rounds down to the bytes its mantissa has *)
(* left and never reads as negative, and verifyHashVsTarget compares with   *)
(* it as a number.                                                          *)
(***************************************************************************)
THEOREM TargetsAreExact == TargetSpec => []TargetsExact
<1>1. QED
  BY TargetStarts, TargetStep, TargetImplied, PTL DEF TargetSpec

-----------------------------------------------------------------------------
(* A value divided several times by the same number.                          *)
DividedTable(v, by, n) == CHOOSE r : r = [i \in 0..n |-> IF i = 0 THEN v ELSE r[i - 1] \div by]
Divides(r, v, by, n) ==
  r[0] = v /\ (\A k \in 1..n : r[k] = r[k - 1] \div by) /\ \A k \in 0..n : r[k] \in Nat

LEMMA DividedTables ==
  ASSUME NEW v \in Nat, NEW by \in Nat \ {0}, NEW n \in Nat, NEW r, r = DividedTable(v, by, n)
  PROVE  Divides(r, v, by, n)
<1> DEFINE D == {m \in Nat : \E f \in [0..m -> Nat] : Divides(f, v, by, m)}
<1>1. 0 \in D
  <2>1. PICK f : f = [k \in 0..0 |-> v]
    OBVIOUS
  <2>2. f \in [0..0 -> Nat] /\ f[0] = v /\ \A k \in 0..0 : f[k] \in Nat
    BY <2>1
  <2>3. \A k \in 1..0 : f[k] = f[k - 1] \div by
    OBVIOUS
  <2>4. QED
    BY <2>2, <2>3 DEF Divides
<1>2. ASSUME NEW m \in 0..(n - 1), m \in D  PROVE m + 1 \in D
  <2>1. m \in Nat /\ m + 1 \in Nat
    OBVIOUS
  <2>2. PICK f \in [0..m -> Nat] : Divides(f, v, by, m)
    BY <1>2, Zenon
  <2>3. PICK x \in Nat : x = f[m] \div by
    <3>1. PICK y \in Nat : y = f[m]
      BY <2>1
    <3>2. y \div by \in Nat
      BY DivMod
    <3>3. QED
      BY <3>1, <3>2
  <2>4. PICK h : h = [k \in 0..(m + 1) |-> IF k = m + 1 THEN x ELSE f[k]]
    OBVIOUS
  <2>5. h \in [0..(m + 1) -> Nat]
    BY <2>1, <2>4
  <2>6. h[0] = v
    BY <2>1, <2>2, <2>4 DEF Divides
  <2>7. ASSUME NEW k \in 1..(m + 1)  PROVE h[k] = h[k - 1] \div by
    <3>1. CASE k = m + 1
      <4>1. h[k] = x /\ h[k - 1] = f[m]
        BY <2>1, <2>4, <3>1
      <4>2. QED
        BY <2>3, <4>1
    <3>2. CASE k # m + 1
      <4>1. k \in 1..m /\ h[k] = f[k] /\ h[k - 1] = f[k - 1]
        BY <2>1, <2>4, <3>2
      <4>2. QED
        BY <2>2, <4>1 DEF Divides
    <3>3. QED
      BY <3>1, <3>2
  <2>8. QED
    BY <2>1, <2>5, <2>6, <2>7 DEF Divides
<1>3. n \in D
  <2> HIDE DEF D
  <2>1. \A k \in 0..n : k \in D
    BY <1>1, <1>2, InductionUpTo
  <2>2. QED
    BY <2>1
<1>4. PICK f \in [0..n -> Nat] : Divides(f, v, by, n)
  BY <1>3, Zenon
<1>5. f = [i \in 0..n |-> IF i = 0 THEN v ELSE f[i - 1] \div by]
  <2>1. f = [i \in 0..n |-> f[i]]
    OBVIOUS
  <2>2. ASSUME NEW i \in 0..n  PROVE f[i] = IF i = 0 THEN v ELSE f[i - 1] \div by
    <3>1. i # 0 => i \in 1..n
      OBVIOUS
    <3>2. QED
      BY <1>4, <3>1, Zenon DEF Divides
  <2>3. QED
    BY <2>1, <2>2
<1>6. r = [i \in 0..n |-> IF i = 0 THEN v ELSE r[i - 1] \div by]
  BY <1>5 DEF DividedTable
<1>7. r[0] = v /\ \A k \in 1..n : r[k] = r[k - 1] \div by
  <2>1. \A i \in 0..n : r[i] = IF i = 0 THEN v ELSE r[i - 1] \div by
    BY <1>6
  <2>2. 0 \in 0..n /\ \A k \in 1..n : k \in 0..n /\ k # 0
    OBVIOUS
  <2>3. QED
    BY <2>1, <2>2, Zenon
<1>8. \A k \in 0..n : r[k] \in Nat
  <2>1. ASSUME NEW k \in 0..n  PROVE r[k] = f[k]
    <3>1. k \in Nat /\ \A j \in 1..k : j \in 1..n
      OBVIOUS
    <3>2. ASSUME NEW j \in 1..k, r[j - 1] = f[j - 1]  PROVE r[j] = f[j]
      BY <1>4, <1>7, <3>1, <3>2, Zenon DEF Divides
    <3>3. r[0] = f[0]
      BY <1>4, <1>7, Zenon DEF Divides
    <3>4. QED
      BY <3>1, <3>2, <3>3, SameUpTo, ZenonT(60)
  <2>2. QED
    BY <2>1
<1>9. QED
  BY <1>7, <1>8, Zenon DEF Divides

LEMMA DividedIs ==
  ASSUME NEW v \in Nat, NEW by \in Nat \ {0}, NEW n \in Nat
  PROVE  /\ Divided(v, by, n) \in Nat /\ Divided(v, by, 0) = v
         /\ Divided(v, by, n + 1) = Divided(v, by, n) \div by
<1>1. \A m : Divided(v, by, m) = DividedTable(v, by, m)[m]
  BY DEF Divided, DividedTable
<1>2. PICK u, w, z : u = DividedTable(v, by, n) /\ w = DividedTable(v, by, n + 1)
                     /\ z = DividedTable(v, by, 0)
  OBVIOUS
<1>3. n + 1 \in Nat /\ 0 \in Nat /\ n \in 0..n
  OBVIOUS
<1>4. Divides(u, v, by, n)
  BY <1>2, DividedTables, Zenon
<1>5. Divides(w, v, by, n + 1)
  BY <1>2, <1>3, DividedTables, Zenon
<1>6. Divides(z, v, by, 0)
  BY <1>2, <1>3, DividedTables, Zenon
<1>7. u[n] = w[n]
  <2>1. ASSUME NEW k \in 1..n, u[k - 1] = w[k - 1]  PROVE u[k] = w[k]
    <3>1. k \in 1..(n + 1)
      OBVIOUS
    <3>2. QED
      BY <1>4, <1>5, <2>1, <3>1, Zenon DEF Divides
  <2>2. u[0] = w[0]
    BY <1>4, <1>5, Zenon DEF Divides
  <2>3. QED
    BY <2>1, <2>2, SameUpTo, Zenon
<1>8. w[n + 1] = w[n] \div by
  <2>1. n + 1 \in 1..(n + 1) /\ (n + 1) - 1 = n
    OBVIOUS
  <2>2. QED
    BY <1>5, <2>1, Zenon DEF Divides
<1>9. u[n] \in Nat /\ z[0] = v
  BY <1>3, <1>4, <1>6, Zenon DEF Divides
<1>10. QED
  BY <1>1, <1>2, <1>7, <1>8, <1>9, Zenon

LEMMA DivMonotone ==
  ASSUME NEW x \in Nat, NEW y \in Nat, x <= y, NEW b \in Nat \ {0}
  PROVE  x \div b <= y \div b
<1>1. PICK p \in Nat, r \in Nat : p = x \div b /\ r < b /\ x = b * p + r
  <2>1. x \div b \in Nat /\ x % b \in Nat /\ x % b < b /\ x = b * (x \div b) + (x % b)
    BY DivMod
  <2>2. QED
    BY <2>1
<1>2. PICK q \in Nat, s \in Nat : q = y \div b /\ s < b /\ y = b * q + s
  <2>1. y \div b \in Nat /\ y % b \in Nat /\ y % b < b /\ y = b * (y \div b) + (y % b)
    BY DivMod
  <2>2. QED
    BY <2>1
<1>3. SUFFICES ASSUME ~(p <= q) PROVE FALSE
  BY <1>1, <1>2, Zenon
<1>4. PICK d \in Nat : p = (q + 1) + d
  <2>1. p - (q + 1) \in Nat /\ p = (q + 1) + (p - (q + 1))
    BY <1>3
  <2>2. QED
    BY <2>1
<1>5. b * ((q + 1) + d) = b * q + b + b * d /\ b * d \in Nat /\ b * q \in Nat
  BY SMT
<1>6. PICK e \in Nat, g \in Nat : e = b * d /\ g = b * q
  BY <1>5
<1>7. x = (g + b + e) + r /\ y = g + s /\ s < b
  BY <1>1, <1>2, <1>4, <1>5, <1>6, Zenon
<1>8. QED
  BY <1>7

LEMMA DividedMonotone ==
  ASSUME NEW v \in Nat, NEW w \in Nat, v <= w, NEW by \in Nat \ {0}, NEW n \in Nat
  PROVE  Divided(v, by, n) <= Divided(w, by, n)
<1> DEFINE S == {k \in 0..n : Divided(v, by, k) <= Divided(w, by, k)}
<1>1. 0 \in S
  <2>1. 0 \in Nat /\ 0 \in 0..n
    OBVIOUS
  <2>2. Divided(v, by, 0) = v /\ Divided(w, by, 0) = w
    BY <2>1, DividedIs, Zenon
  <2>3. QED
    BY <2>1, <2>2
<1>2. ASSUME NEW k \in 0..(n - 1), k \in S  PROVE k + 1 \in S
  <2>1. k \in Nat /\ k + 1 \in 0..n
    OBVIOUS
  <2>2. PICK x \in Nat, y \in Nat : x = Divided(v, by, k) /\ y = Divided(w, by, k)
    <3>1. Divided(v, by, k) \in Nat /\ Divided(w, by, k) \in Nat
      BY <2>1, DividedIs, Zenon
    <3>2. QED
      BY <3>1
  <2>3. x <= y
    BY <1>2, <2>2
  <2>4. x \div by <= y \div by
    BY <2>3, DivMonotone
  <2>5. Divided(v, by, k + 1) = x \div by /\ Divided(w, by, k + 1) = y \div by
    <3>1. Divided(v, by, k + 1) = Divided(v, by, k) \div by
      BY <2>1, DividedIs, Zenon
    <3>2. Divided(w, by, k + 1) = Divided(w, by, k) \div by
      BY <2>1, DividedIs, ZenonT(60)
    <3>3. QED
      BY <2>2, <3>1, <3>2, Zenon
  <2>6. QED
    BY <2>1, <2>4, <2>5
<1>3. n \in S
  <2> HIDE DEF S
  <2>1. \A k \in 0..n : k \in S
    BY <1>1, <1>2, InductionUpTo
  <2>2. QED
    BY <2>1
<1>4. QED
  BY <1>3

(* It never grows.                                                            *)
LEMMA DividedAtMost ==
  ASSUME NEW v \in Nat, NEW by \in Nat \ {0}, NEW n \in Nat
  PROVE  Divided(v, by, n) <= v
<1> DEFINE S == {k \in 0..n : Divided(v, by, k) <= v}
<1>1. 0 \in S
  <2>1. 0 \in Nat /\ 0 \in 0..n
    OBVIOUS
  <2>2. Divided(v, by, 0) = v
    BY <2>1, DividedIs, Zenon
  <2>3. QED
    BY <2>1, <2>2
<1>2. ASSUME NEW k \in 0..(n - 1), k \in S  PROVE k + 1 \in S
  <2>1. k \in Nat /\ k + 1 \in 0..n
    OBVIOUS
  <2>2. PICK x \in Nat : x = Divided(v, by, k)
    BY <2>1, DividedIs
  <2>3. PICK q \in Nat, r \in Nat : q = x \div by /\ x = by * q + r
    <3>1. x \div by \in Nat /\ x % by \in Nat /\ x = by * (x \div by) + (x % by)
      BY DivMod
    <3>2. QED
      BY <3>1
  <2>4. q <= x
    <3>1. PICK b \in Nat : by = b + 1
      <4>1. by - 1 \in Nat /\ by = (by - 1) + 1
        OBVIOUS
      <4>2. QED
        BY <4>1
    <3>2. (b + 1) * q = b * q + q /\ b * q \in Nat
      BY SMT
    <3>3. PICK a \in Nat : a = b * q
      BY <3>2
    <3>4. x = (a + q) + r
      BY <2>3, <3>1, <3>2, <3>3, Zenon
    <3>5. QED
      BY <3>4
  <2>5. Divided(v, by, k + 1) = q
    <3>1. Divided(v, by, k + 1) = Divided(v, by, k) \div by
      BY <2>1, DividedIs, Zenon
    <3>2. QED
      BY <2>2, <2>3, <3>1, Zenon
  <2>6. x <= v
    BY <1>2, <2>2
  <2>7. QED
    BY <2>1, <2>4, <2>5, <2>6
<1>3. n \in S
  <2> HIDE DEF S
  <2>1. \A k \in 0..n : k \in S
    BY <1>1, <1>2, InductionUpTo
  <2>2. QED
    BY <2>1
<1>4. QED
  BY <1>3

-----------------------------------------------------------------------------
(* A fragment read back from its letters.                                     *)
FragmentTable(z, i) ==
  CHOOSE w : w = [n \in 0..FragmentLetters |->
    IF n = 0 THEN 0
    ELSE (w[n - 1] * Base + z[i * FragmentLetters - n + 1].digit) % FragmentSize]

(* The letters of fragment i are those of v.                                  *)
Spells(z, i, v) ==
  \A j \in 1..FragmentLetters :
    z[(i - 1) * FragmentLetters + j].digit = Divided(v, Base, j - 1) % Base

LEMMA IdentityNumbers ==
  /\ Base \in Nat \ {0} /\ FragmentSize \in Nat \ {0} /\ ChecksumSize \in Nat \ {0}
  /\ FragmentLetters \in Nat /\ ChecksumLetters \in Nat
BY IdentityAssumption

LEMMA FragmentReadBack ==
  ASSUME NEW z, NEW i \in 1..4, NEW v \in Fragments, Spells(z, i, v)
  PROVE  FragmentOf(z, i) = v
<1>0. PICK l \in Nat, b \in Nat \ {0}, size \in Nat \ {0} :
        l = FragmentLetters /\ b = Base /\ size = FragmentSize
  BY IdentityNumbers
<1>1. v \in Nat /\ v < size
  BY <1>0 DEF Fragments
<1>2. PICK f : f = [n \in 0..l |-> Divided(v, b, l - n)]
  OBVIOUS
<1>3. f[0] = 0 /\ f[l] = v
  <2>1. f[0] = Divided(v, b, l) /\ f[l] = Divided(v, b, 0)
    <3>1. 0 \in 0..l /\ l \in 0..l /\ l - 0 = l /\ l - l = 0
      OBVIOUS
    <3>2. \A n \in 0..l : f[n] = Divided(v, b, l - n)
      BY <1>2
    <3>3. QED
      BY <3>1, <3>2, Zenon
  <2>2. Divided(v, b, l) = 0
    <3>1. PICK top \in Nat : top = size - 1 /\ v <= top
      <4>1. size - 1 \in Nat /\ v <= size - 1
        BY <1>1
      <4>2. QED
        BY <4>1
    <3>2. Divided(v, b, l) <= Divided(top, b, l)
      BY <1>1, <3>1, DividedMonotone
    <3>3. Divided(top, b, l) = 0
      BY <1>0, <3>1, IdentityAssumption, Zenon
    <3>4. Divided(v, b, l) \in Nat
      BY <1>1, DividedIs
    <3>5. QED
      BY <3>2, <3>3, <3>4
  <2>3. Divided(v, b, 0) = v
    <3>1. 0 \in Nat
      OBVIOUS
    <3>2. QED
      BY <1>1, <3>1, DividedIs, Zenon
  <2>4. QED
    BY <2>1, <2>2, <2>3, Zenon
<1>4. ASSUME NEW n \in 1..l
      PROVE  f[n] = (f[n - 1] * Base + z[i * FragmentLetters - n + 1].digit) % FragmentSize
  <2>1. PICK k \in Nat : /\ k = l - n /\ k + 1 = l - (n - 1) /\ n \in 0..l /\ n - 1 \in 0..l
                         /\ k + 1 \in 1..l /\ (k + 1) - 1 = k
    <3>1. /\ l - n \in Nat /\ (l - n) + 1 = l - (n - 1) /\ n \in 0..l /\ n - 1 \in 0..l
          /\ (l - n) + 1 \in 1..l /\ ((l - n) + 1) - 1 = l - n
      OBVIOUS
    <3>2. QED
      BY <3>1
  <2>2. PICK x \in Nat : x = Divided(v, b, k)
    BY <1>1, DividedIs
  <2>3. Divided(v, b, k + 1) = x \div b
    <3>1. Divided(v, b, k + 1) = Divided(v, b, k) \div b
      BY <1>1, DividedIs, Zenon
    <3>2. QED
      BY <2>2, <3>1, Zenon
  <2>4. f[n] = x /\ f[n - 1] = x \div b
    <3>1. \A m \in 0..l : f[m] = Divided(v, b, l - m)
      BY <1>2
    <3>2. QED
      BY <2>1, <2>2, <2>3, <3>1, Zenon
  <2>5. z[i * FragmentLetters - n + 1].digit = x % b
    <3>1. (i - 1) * l + (k + 1) = i * l - n + 1
      <4>1. PICK a \in Int : a = i * l /\ (i - 1) * l = a - l
        <5>1. i * l \in Int /\ (i - 1) * l = i * l - l
          BY SMT
        <5>2. QED
          BY <5>1
      <4>2. (a - l) + (k + 1) = a - n + 1
        BY <2>1
      <4>3. QED
        BY <4>1, <4>2, Zenon
    <3>2. z[(i - 1) * l + (k + 1)].digit = Divided(v, b, (k + 1) - 1) % b
      BY <1>0, <2>1, Zenon DEF Spells
    <3>3. QED
      BY <1>0, <2>1, <2>2, <3>1, <3>2, Zenon
  <2>6. (x \div b) * b + (x % b) = x
    <3>1. PICK q \in Nat, r \in Nat : q = x \div b /\ r = x % b /\ x = b * q + r
      <4>1. x \div b \in Nat /\ x % b \in Nat /\ x = b * (x \div b) + (x % b)
        BY DivMod
      <4>2. QED
        BY <4>1
    <3>2. q * b + r = b * q + r
      BY SMT
    <3>3. QED
      BY <3>1, <3>2, Zenon
  <2>7. x % size = x
    <3>1. x <= v
      BY <1>1, <2>2, DividedAtMost
    <3>2. x < size /\ x = size * 0 + x
      BY <1>1, <3>1
    <3>3. QED
      BY <3>2, DivModUnique
  <2>8. QED
    BY <1>0, <2>4, <2>5, <2>6, <2>7, Zenon
<1>5. PICK w : w = FragmentTable(z, i)
  OBVIOUS
<1>6. f = [n \in 0..FragmentLetters |->
             IF n = 0 THEN 0
             ELSE (f[n - 1] * Base + z[i * FragmentLetters - n + 1].digit) % FragmentSize]
  <2>1. f = [n \in 0..l |-> f[n]]
    BY <1>2
  <2>2. ASSUME NEW n \in 0..l
        PROVE  f[n] = IF n = 0 THEN 0
                      ELSE (f[n - 1] * Base + z[i * FragmentLetters - n + 1].digit) % FragmentSize
    <3>1. n # 0 => n \in 1..l
      OBVIOUS
    <3>2. QED
      BY <1>3, <1>4, <3>1, Zenon
  <2>3. QED
    BY <1>0, <2>1, <2>2
<1>7. w = [n \in 0..FragmentLetters |->
             IF n = 0 THEN 0
             ELSE (w[n - 1] * Base + z[i * FragmentLetters - n + 1].digit) % FragmentSize]
  BY <1>5, <1>6, Zenon DEF FragmentTable
<1>8. w[l] = f[l]
  <2>1. \A n \in 0..l : w[n] = IF n = 0 THEN 0
                  ELSE (w[n - 1] * Base + z[i * FragmentLetters - n + 1].digit) % FragmentSize
    BY <1>0, <1>7
  <2>2. ASSUME NEW n \in 1..l, w[n - 1] = f[n - 1]  PROVE w[n] = f[n]
    <3>1. n \in 0..l /\ n # 0
      OBVIOUS
    <3>2. QED
      BY <1>4, <2>1, <2>2, <3>1, Zenon
  <2>3. w[0] = f[0]
    <3>1. 0 \in 0..l
      OBVIOUS
    <3>2. QED
      BY <1>3, <2>1, <3>1, Zenon
  <2>4. QED
    BY <2>2, <2>3, SameUpTo, Zenon
<1>9. FragmentOf(z, i) = w[l]
  BY <1>0, <1>5, Zenon DEF FragmentOf, FragmentTable
<1>10. QED
  BY <1>3, <1>8, <1>9, Zenon

-----------------------------------------------------------------------------
(* Sequences of letters.                                                      *)
Letter == [lower : BOOLEAN, digit : Nat]
JoinOf(u, a, b) ==
  /\ u \in Seq(Letter) /\ Len(u) = Len(a) + Len(b)
  /\ (\A i \in 1..Len(a) : u[i] = a[i]) /\ \A i \in 1..Len(b) : u[Len(a) + i] = b[i]

LEMMA LettersJoin ==
  ASSUME NEW a \in Seq(Letter), NEW b \in Seq(Letter), NEW u, u = a \o b
  PROVE  JoinOf(u, a, b)
<1>1. PICK L : L = Letter
  OBVIOUS
<1>2. a \in Seq(L) /\ b \in Seq(L)
  BY <1>1
<1>3. u \in Seq(L) /\ Len(u) = Len(a) + Len(b)
  BY <1>2
<1>4. \A i \in 1..Len(a) : u[i] = a[i]
  BY <1>2
<1>5. \A i \in 1..Len(b) : u[Len(a) + i] = b[i]
  BY <1>2
<1>6. QED
  BY <1>1, <1>3, <1>4, <1>5, Zenon DEF JoinOf

LEMMA LettersBehind ==
  ASSUME NEW a \in Seq(Letter), NEW b \in Seq(Letter), NEW u, u = a \o b,
         NEW m \in Nat, m = Len(a)
  PROVE  SubSeq(u, m + 1, Len(u)) = b
<1>1. PICK L : L = Letter
  OBVIOUS
<1>2. a \in Seq(L) /\ b \in Seq(L)
  BY <1>1
<1>3. PICK n \in Nat, k \in Nat : n = Len(b) /\ k = m + n
  BY <1>2
<1>4. u \in Seq(L) /\ Len(u) = k /\ \A i \in 1..n : u[m + i] = b[i]
  BY <1>2, <1>3
<1>5. PICK s : s = SubSeq(u, m + 1, Len(u))
  OBVIOUS
<1>6. s \in Seq(L) /\ Len(s) = n /\ \A i \in 1..n : s[i] = u[m + i]
  <2>1. m \in 0..Len(u) /\ Len(u) - m = n
    BY <1>3, <1>4
  <2>2. s \in Seq(L) /\ Len(s) = Len(u) - m /\ \A i \in 1..(Len(u) - m) : s[i] = u[m + i]
    <3>1. u \in Seq(L)
      BY <1>4
    <3>2. SubSeq(u, m + 1, Len(u)) \in Seq(L) /\ Len(SubSeq(u, m + 1, Len(u))) = Len(u) - m
      BY <2>1, <3>1, SMT
    <3>3. \A i \in 1..(Len(u) - m) : SubSeq(u, m + 1, Len(u))[i] = u[m + i]
      BY <2>1, <3>1, SMT
    <3>4. QED
      BY <1>5, <3>2, <3>3, Zenon
  <2>3. QED
    BY <2>1, <2>2, Zenon
<1>7. s = b
  <2>1. Len(s) = Len(b) /\ \A i \in 1..Len(s) : s[i] = b[i]
    BY <1>3, <1>4, <1>6, Zenon
  <2>2. QED
    BY <1>2, <1>6, <2>1
<1>8. QED
  BY <1>4, <1>5, <1>7, Zenon

LettersOf(z, v, n, lower) ==
  /\ z \in Seq(Letter) /\ Len(z) = n
  /\ \A j \in 1..n : z[j].lower = lower /\ z[j].digit = Divided(v, Base, j - 1) % Base

LEMMA LettersAre ==
  ASSUME NEW v \in Nat, NEW n \in Nat, NEW lower \in BOOLEAN, NEW z, z = Letters(v, n, lower)
  PROVE  LettersOf(z, v, n, lower)
<1>1. z = [j \in 1..n |-> [lower |-> lower, digit |-> Divided(v, Base, j - 1) % Base]]
  BY Zenon DEF Letters
<1>2. ASSUME NEW j \in 1..n
      PROVE  z[j] \in Letter /\ z[j].lower = lower /\ z[j].digit = Divided(v, Base, j - 1) % Base
  <2>1. PICK x \in Nat : x = Divided(v, Base, j - 1) % Base
    <3>1. j - 1 \in Nat /\ Base \in Nat \ {0}
      BY IdentityNumbers
    <3>2. Divided(v, Base, j - 1) \in Nat
      BY <3>1, DividedIs
    <3>3. Divided(v, Base, j - 1) % Base \in Nat
      BY <3>1, <3>2, DivMod
    <3>4. QED
      BY <3>3
  <2>2. z[j] = [lower |-> lower, digit |-> x]
    BY <1>1, <2>1
  <2>3. [lower |-> lower, digit |-> x] \in Letter
    BY DEF Letter
  <2>4. QED
    BY <2>1, <2>2, <2>3
<1>3. z \in Seq(Letter) /\ Len(z) = n
  <2>1. PICK L : L = Letter
    OBVIOUS
  <2>2. \A j \in 1..n : z[j] \in L
    BY <1>2, <2>1, Zenon
  <2>3. z = [j \in 1..n |-> z[j]]
    BY <1>1
  <2>4. z \in [1..n -> L]
    BY <2>2, <2>3
  <2>5. z \in Seq(L) /\ Len(z) = n
    BY <2>4
  <2>6. QED
    BY <2>1, <2>5, Zenon
<1>4. QED
  BY <1>2, <1>3, Zenon DEF LettersOf

(* What an identity consists of.                                              *)
IdentityOf(z, key, lower) ==
  /\ \A i \in 1..4 : Spells(z, i, key[i])
  /\ \A n \in 1..(4 * FragmentLetters) : z[n].lower = lower
  /\ SubSeq(z, 4 * FragmentLetters + 1, Len(z)) = Letters(ChecksumOf(key), ChecksumLetters, lower)

LEMMA KeysAre ==
  ASSUME NEW key \in PublicKeys
  PROVE  /\ \A i \in 1..4 : key[i] \in Fragments /\ key[i] \in Nat
         /\ key = <<key[1], key[2], key[3], key[4]>> /\ ChecksumOf(key) \in Nat
<1>1. key \in Fragments \X Fragments \X Fragments \X Fragments
  BY IdentityAssumption
<1>2. PICK F : F = Fragments
  OBVIOUS
<1>3. key = <<key[1], key[2], key[3], key[4]>> /\ \A i \in 1..4 : key[i] \in F
  BY <1>1, <1>2
<1>4. \A x \in Fragments : x \in Nat
  BY IdentityNumbers DEF Fragments
<1>5. ChecksumOf(key) \in Nat
  <2>1. ChecksumOf(key) \in 0..(ChecksumSize - 1)
    BY IdentityAssumption
  <2>2. QED
    BY <2>1, IdentityNumbers
<1>6. QED
  BY <1>2, <1>3, <1>4, <1>5, Zenon

LEMMA IdentityIs ==
  ASSUME NEW key \in PublicKeys, NEW lower \in BOOLEAN, NEW z, z = getIdentityFromPublicKey(key, lower)
  PROVE  IdentityOf(z, key, lower)
<1>0. PICK l \in Nat, m \in Nat : l = FragmentLetters /\ m = ChecksumLetters
  BY IdentityNumbers
<1>1. PICK a, b, c, d, e :
        /\ a = Letters(key[1], l, lower) /\ b = Letters(key[2], l, lower)
        /\ c = Letters(key[3], l, lower) /\ d = Letters(key[4], l, lower)
        /\ e = Letters(ChecksumOf(key), m, lower)
  OBVIOUS
<1>2. key[1] \in Nat /\ key[2] \in Nat /\ key[3] \in Nat /\ key[4] \in Nat /\ ChecksumOf(key) \in Nat
  BY KeysAre
<1>3. /\ LettersOf(a, key[1], l, lower) /\ LettersOf(b, key[2], l, lower)
      /\ LettersOf(c, key[3], l, lower) /\ LettersOf(d, key[4], l, lower)
  <2>1. LettersOf(a, key[1], l, lower)
    BY <1>1, <1>2, LettersAre, Zenon
  <2>2. LettersOf(b, key[2], l, lower)
    BY <1>1, <1>2, LettersAre, Zenon
  <2>3. LettersOf(c, key[3], l, lower)
    BY <1>1, <1>2, LettersAre, Zenon
  <2>4. LettersOf(d, key[4], l, lower)
    BY <1>1, <1>2, LettersAre, Zenon
  <2>5. QED
    BY <2>1, <2>2, <2>3, <2>4
<1>4. e \in Seq(Letter)
  <2>1. LettersOf(e, ChecksumOf(key), m, lower)
    BY <1>1, <1>2, LettersAre, Zenon
  <2>2. QED
    BY <2>1, Zenon DEF LettersOf
<1>5. /\ a \in Seq(Letter) /\ b \in Seq(Letter) /\ c \in Seq(Letter) /\ d \in Seq(Letter)
      /\ Len(a) = l /\ Len(b) = l /\ Len(c) = l /\ Len(d) = l
  BY <1>3, Zenon DEF LettersOf
<1>6. PICK l2 \in Nat, l3 \in Nat, l4 \in Nat :
        l2 = l + l /\ l3 = l2 + l /\ l4 = l3 + l /\ l2 = 2 * l /\ l3 = 3 * l /\ l4 = 4 * l
  OBVIOUS
<1>7. PICK u, v, w : u = a \o b /\ v = u \o c /\ w = v \o d
  OBVIOUS
<1>8. /\ u \in Seq(Letter) /\ Len(u) = l2
      /\ \A j \in 1..l : u[j] = a[j] /\ u[l + j] = b[j]
  <2>1. JoinOf(u, a, b)
    BY <1>5, <1>7, LettersJoin, Zenon
  <2>2. QED
    BY <1>5, <1>6, <2>1, Zenon DEF JoinOf
<1>9. /\ v \in Seq(Letter) /\ Len(v) = l3
      /\ (\A j \in 1..l2 : v[j] = u[j]) /\ \A j \in 1..l : v[l2 + j] = c[j]
  <2>1. u \in Seq(Letter) /\ c \in Seq(Letter) /\ v = u \o c
    BY <1>5, <1>7, <1>8, Zenon
  <2>2. JoinOf(v, u, c)
    BY <2>1, LettersJoin, Zenon
  <2>3. QED
    BY <1>5, <1>6, <1>8, <2>2, Zenon DEF JoinOf
<1>10. /\ w \in Seq(Letter) /\ Len(w) = l4
       /\ (\A j \in 1..l3 : w[j] = v[j]) /\ \A j \in 1..l : w[l3 + j] = d[j]
  <2>1. v \in Seq(Letter) /\ d \in Seq(Letter) /\ w = v \o d
    BY <1>5, <1>7, <1>9, Zenon
  <2>2. JoinOf(w, v, d)
    BY <2>1, LettersJoin, Zenon
  <2>3. QED
    BY <1>5, <1>6, <1>9, <2>2, Zenon DEF JoinOf
<1>11. z = w \o e
  BY <1>0, <1>1, <1>7, Zenon DEF getIdentityFromPublicKey
<1>12. \A j \in 1..l4 : z[j] = w[j]
  <2>1. w \in Seq(Letter)
    BY <1>10, Zenon
  <2>2. JoinOf(z, w, e)
    BY <1>4, <1>11, <2>1, LettersJoin
  <2>3. QED
    BY <1>10, <2>2, Zenon DEF JoinOf
<1>13. \A j \in 1..l : z[j] = a[j] /\ z[l + j] = b[j] /\ z[l2 + j] = c[j] /\ z[l3 + j] = d[j]
  <2>1. ASSUME NEW j \in 1..l
        PROVE  z[j] = a[j] /\ z[l + j] = b[j] /\ z[l2 + j] = c[j] /\ z[l3 + j] = d[j]
    <3>1. /\ j \in 1..l2 /\ j \in 1..l3 /\ j \in 1..l4
          /\ l + j \in 1..l2 /\ l + j \in 1..l3 /\ l + j \in 1..l4
          /\ l2 + j \in 1..l3 /\ l2 + j \in 1..l4 /\ l3 + j \in 1..l4
      BY <1>6
    <3>2. z[j] = a[j]
      BY <1>8, <1>9, <1>10, <1>12, <3>1, ZenonT(60)
    <3>3. z[l + j] = b[j]
      <4>1. u[l + j] = b[j]
        BY <1>8, Zenon
      <4>2. v[l + j] = u[l + j]
        BY <1>9, <3>1, Zenon
      <4>3. w[l + j] = v[l + j]
        BY <1>10, <3>1, Zenon
      <4>4. z[l + j] = w[l + j]
        BY <1>12, <3>1, Zenon
      <4>5. QED
        BY <4>1, <4>2, <4>3, <4>4, Zenon
    <3>4. z[l2 + j] = c[j]
      BY <1>9, <1>10, <1>12, <3>1, Zenon
    <3>5. z[l3 + j] = d[j]
      BY <1>10, <1>12, <3>1, Zenon
    <3>6. QED
      BY <3>2, <3>3, <3>4, <3>5
  <2>2. QED
    BY <2>1
<1>14. \A i \in 1..4 : Spells(z, i, key[i])
  <2>1. \A j \in 1..l : /\ (1 - 1) * l + j = j /\ (2 - 1) * l + j = l + j
                        /\ (3 - 1) * l + j = l2 + j /\ (4 - 1) * l + j = l3 + j
    BY <1>6
  <2>2. Spells(z, 1, key[1]) /\ Spells(z, 2, key[2]) /\ Spells(z, 3, key[3]) /\ Spells(z, 4, key[4])
    <3>1. \A j \in 1..l : /\ a[j].digit = Divided(key[1], Base, j - 1) % Base
                          /\ b[j].digit = Divided(key[2], Base, j - 1) % Base
                          /\ c[j].digit = Divided(key[3], Base, j - 1) % Base
                          /\ d[j].digit = Divided(key[4], Base, j - 1) % Base
      BY <1>3, Zenon DEF LettersOf
    <3>2. Spells(z, 1, key[1])
      BY <1>0, <1>13, <2>1, <3>1, ZenonT(60) DEF Spells
    <3>3. Spells(z, 2, key[2])
      BY <1>0, <1>13, <2>1, <3>1, ZenonT(60) DEF Spells
    <3>4. Spells(z, 3, key[3])
      BY <1>0, <1>13, <2>1, <3>1, ZenonT(60) DEF Spells
    <3>5. Spells(z, 4, key[4])
      BY <1>0, <1>13, <2>1, <3>1, ZenonT(60) DEF Spells
    <3>6. QED
      BY <3>2, <3>3, <3>4, <3>5
  <2>3. \A i \in 1..4 : i = 1 \/ i = 2 \/ i = 3 \/ i = 4
    OBVIOUS
  <2>4. QED
    BY <2>2, <2>3, Zenon
<1>15. ASSUME NEW n \in 1..(4 * FragmentLetters)  PROVE z[n].lower = lower
  <2>1. n \in 1..l4
    BY <1>0, <1>6
  <2>2. \/ n \in 1..l \/ (\E j \in 1..l : n = l + j)
        \/ (\E j \in 1..l : n = l2 + j) \/ (\E j \in 1..l : n = l3 + j)
    <3>1. CASE n <= l
      BY <2>1, <3>1
    <3>2. CASE n > l /\ n <= l2
      <4>1. n - l \in 1..l /\ n = l + (n - l)
        BY <1>6, <2>1, <3>2
      <4>2. QED
        BY <4>1
    <3>3. CASE n > l2 /\ n <= l3
      <4>1. n - l2 \in 1..l /\ n = l2 + (n - l2)
        BY <1>6, <2>1, <3>3
      <4>2. QED
        BY <4>1
    <3>4. CASE n > l3
      <4>1. n - l3 \in 1..l /\ n = l3 + (n - l3)
        BY <1>6, <2>1, <3>4
      <4>2. QED
        BY <4>1
    <3>5. QED
      BY <2>1, <3>1, <3>2, <3>3, <3>4
  <2>3. QED
    <3>1. \A j \in 1..l : a[j].lower = lower /\ b[j].lower = lower /\ c[j].lower = lower /\ d[j].lower = lower
      BY <1>3, Zenon DEF LettersOf
    <3>2. \A j \in 1..l : /\ z[j].lower = lower /\ z[l + j].lower = lower
                          /\ z[l2 + j].lower = lower /\ z[l3 + j].lower = lower
      BY <1>13, <3>1, Zenon
    <3>3. QED
      BY <2>2, <3>2, Zenon
<1>16. SubSeq(z, 4 * FragmentLetters + 1, Len(z)) = Letters(ChecksumOf(key), ChecksumLetters, lower)
  <2>1. w \in Seq(Letter) /\ l4 = Len(w)
    BY <1>10, Zenon
  <2>2. SubSeq(z, l4 + 1, Len(z)) = e
    BY <1>4, <1>11, <2>1, LettersBehind
  <2>3. 4 * FragmentLetters = l4
    BY <1>0, <1>6
  <2>4. QED
    BY <1>0, <1>1, <2>2, <2>3, Zenon
<1>17. QED
  BY <1>14, <1>15, <1>16, Zenon DEF IdentityOf

(* Both readers of an identity.                                               *)
LEMMA IdentityReadBack ==
  ASSUME NEW key \in PublicKeys, NEW lower \in BOOLEAN, NEW z, z = getIdentityFromPublicKey(key, lower)
  PROVE  /\ getPublicKeyFromIdentity(z, <<0, 0, 0, 0>>) = IF lower THEN <<0, 0, 0, 0>> ELSE key
         /\ checkSumIdentity(z) <=> ~lower
<1>1. IdentityOf(z, key, lower)
  BY IdentityIs, Zenon
<1>2. KeyOf(z) = key
  <2>1. ASSUME NEW i \in 1..4  PROVE FragmentOf(z, i) = key[i]
    <3>1. key[i] \in Fragments /\ Spells(z, i, key[i])
      BY <1>1, KeysAre, Zenon DEF IdentityOf
    <3>2. QED
      BY <3>1, FragmentReadBack, Zenon
  <2>2. 1 \in 1..4 /\ 2 \in 1..4 /\ 3 \in 1..4 /\ 4 \in 1..4
    OBVIOUS
  <2>3. key = <<key[1], key[2], key[3], key[4]>>
    BY KeysAre
  <2>4. QED
    BY <2>1, <2>2, <2>3, Zenon DEF KeyOf
<1>3. CASE lower = FALSE
  <2>1. UpperCase(z)
    BY <1>1, <1>3, Zenon DEF IdentityOf, UpperCase
  <2>2. SubSeq(z, 4 * FragmentLetters + 1, Len(z)) = Letters(ChecksumOf(KeyOf(z)), ChecksumLetters, FALSE)
    BY <1>1, <1>2, <1>3, Zenon DEF IdentityOf
  <2>3. QED
    BY <1>2, <1>3, <2>1, <2>2, Zenon DEF getPublicKeyFromIdentity, checkSumIdentity
<1>4. CASE lower = TRUE
  <2>1. ~UpperCase(z)
    <3>1. 1 \in 1..(4 * FragmentLetters)
      BY IdentityNumbers, IdentityAssumption
    <3>2. QED
      BY <1>1, <1>4, <3>1, Zenon DEF IdentityOf, UpperCase
  <2>2. QED
    BY <1>4, <2>1, Zenon DEF getPublicKeyFromIdentity, checkSumIdentity
<1>5. QED
  BY <1>3, <1>4

-----------------------------------------------------------------------------
(* Levels of a tree.  Nodes are terms of any kind, so that a level is known   *)
(* by its length and its items.                                               *)
Nodes(s, n) == s = [i \in 1..n |-> s[i]] /\ Len(s) = n /\ s \o << >> = s

LEMMA NodesAre ==
  ASSUME NEW n \in Nat, NEW s, s = [i \in 1..n |-> s[i]]
  PROVE  Nodes(s, n)
<1>1. PICK S : S = {s[i] : i \in 1..n}
  OBVIOUS
<1>2. s \in [1..n -> S]
  BY <1>1
<1>3. s \in Seq(S) /\ Len(s) = n
  BY <1>2
<1>4. s \o << >> = s
  BY <1>3, ConcatEmptySeq
<1>5. QED
  BY <1>3, <1>4, Zenon DEF Nodes

Pairs(z, s, n) ==
  \A i \in 1..((n + 1) \div 2) :
    z[i] = <<s[2 * i - 1], IF 2 * i <= n THEN s[2 * i] ELSE s[2 * i - 1]>>

LEMMA NextLevelIs ==
  ASSUME NEW n \in Nat \ {0}, NEW s, Nodes(s, n), NEW z, z = NextLevel(s)
  PROVE  /\ (n + 1) \div 2 \in Nat \ {0} /\ Nodes(z, (n + 1) \div 2) /\ Pairs(z, s, n)
         /\ n > 1 => (n + 1) \div 2 < n
<1>1. PICK h \in Nat \ {0} : h = (n + 1) \div 2 /\ (n > 1 => h < n)
  <2>1. (n + 1) \div 2 \in Nat \ {0} /\ (n > 1 => (n + 1) \div 2 < n)
    BY SMT
  <2>2. QED
    BY <2>1
<1>2. PICK f : f = [i \in 1..h |-> <<s[2 * i - 1], IF 2 * i <= n THEN s[2 * i] ELSE s[2 * i - 1]>>]
  OBVIOUS
<1>3. f = [i \in 1..h |-> f[i]]
  BY <1>2
<1>4. Nodes(f, h)
  BY <1>3, NodesAre
<1>5. Len(s) = n
  BY Zenon DEF Nodes
<1>6. z = f \o << >>
  BY <1>1, <1>2, <1>5, Zenon DEF NextLevel
<1>7. z = f
  BY <1>4, <1>6, Zenon DEF Nodes
<1>8. Pairs(f, s, n)
  BY <1>1, <1>2 DEF Pairs
<1>9. QED
  BY <1>1, <1>4, <1>7, <1>8, Zenon

(* The levels above some leaves.                                              *)
Above(s) == IF Len(s) = 1 THEN s ELSE NextLevel(s)
LevelTable(leaves) ==
  CHOOSE f : f = [i \in 0..Len(leaves) |->
    IF i = 0 THEN leaves ELSE IF Len(f[i - 1]) = 1 THEN f[i - 1] ELSE NextLevel(f[i - 1])]
Climbs(f, leaves, n) ==
  /\ f = [i \in 0..n |-> f[i]] /\ f[0] = leaves
  /\ \A k \in 1..n : f[k] = Above(f[k - 1])

LEMMA LevelsClimb ==
  ASSUME NEW n \in Nat, NEW leaves, Len(leaves) = n, NEW level, level = Levels(leaves)
  PROVE  Climbs(level, leaves, n)
<1> DEFINE D == {m \in Nat : \E f : Climbs(f, leaves, m)}
<1>1. 0 \in D
  <2>1. PICK f : f = [k \in 0..0 |-> leaves]
    OBVIOUS
  <2>2. f[0] = leaves /\ f = [k \in 0..0 |-> f[k]]
    BY <2>1
  <2>3. \A k \in 1..0 : f[k] = Above(f[k - 1])
    OBVIOUS
  <2>4. Climbs(f, leaves, 0)
    BY <2>2, <2>3, Zenon DEF Climbs
  <2>5. QED
    BY <2>4
<1>2. ASSUME NEW m \in 0..(n - 1), m \in D  PROVE m + 1 \in D
  <2>1. m \in Nat /\ m + 1 \in Nat
    OBVIOUS
  <2>2. PICK f : Climbs(f, leaves, m)
    BY <1>2, Zenon
  <2>3. PICK x : x = Above(f[m])
    OBVIOUS
  <2>4. PICK h : h = [k \in 0..(m + 1) |-> IF k = m + 1 THEN x ELSE f[k]]
    OBVIOUS
  <2>5. h = [k \in 0..(m + 1) |-> h[k]]
    BY <2>4
  <2>6. h[0] = leaves
    <3>1. h[0] = f[0]
      BY <2>1, <2>4
    <3>2. QED
      BY <2>2, <3>1, Zenon DEF Climbs
  <2>7. ASSUME NEW k \in 1..(m + 1)  PROVE h[k] = Above(h[k - 1])
    <3>1. CASE k = m + 1
      <4>1. h[k] = x /\ h[k - 1] = f[m]
        BY <2>1, <2>4, <3>1
      <4>2. QED
        BY <2>3, <4>1, Zenon
    <3>2. CASE k # m + 1
      <4>1. k \in 1..m /\ h[k] = f[k] /\ h[k - 1] = f[k - 1]
        BY <2>1, <2>4, <3>2
      <4>2. f[k] = Above(f[k - 1])
        BY <2>2, <4>1, Zenon DEF Climbs
      <4>3. QED
        BY <4>1, <4>2, Zenon
    <3>3. QED
      BY <3>1, <3>2
  <2>8. Climbs(h, leaves, m + 1)
    BY <2>5, <2>6, <2>7, Zenon DEF Climbs
  <2>9. QED
    BY <2>1, <2>8
<1>3. n \in D
  <2> HIDE DEF D
  <2>1. \A k \in 0..n : k \in D
    BY <1>1, <1>2, InductionUpTo
  <2>2. QED
    BY <2>1
<1>4. PICK f : Climbs(f, leaves, n)
  BY <1>3, Zenon
<1>5. f = [i \in 0..Len(leaves) |-> IF i = 0 THEN leaves ELSE IF Len(f[i - 1]) = 1 THEN f[i - 1] ELSE NextLevel(f[i - 1])]
  <2>1. f = [i \in 0..n |-> f[i]]
    BY <1>4, Zenon DEF Climbs
  <2>2. ASSUME NEW i \in 0..n
        PROVE  f[i] = IF i = 0 THEN leaves ELSE IF Len(f[i - 1]) = 1 THEN f[i - 1] ELSE NextLevel(f[i - 1])
    <3>1. i # 0 => i \in 1..n
      OBVIOUS
    <3>2. QED
      BY <1>4, <3>1, Zenon DEF Climbs, Above
  <2>3. QED
    BY <2>1, <2>2
<1>6. level = [i \in 0..Len(leaves) |-> IF i = 0 THEN leaves
                              ELSE IF Len(level[i - 1]) = 1 THEN level[i - 1] ELSE NextLevel(level[i - 1])]
  <2>1. level = LevelTable(leaves)
    BY DEF Levels, LevelTable
  <2>2. QED
    BY <1>5, <2>1, Zenon DEF LevelTable
<1>7. \A i \in 0..n : level[i] = IF i = 0 THEN leaves
                              ELSE IF Len(level[i - 1]) = 1 THEN level[i - 1] ELSE NextLevel(level[i - 1])
  BY <1>6, Zenon
<1>8. 0 \in 0..n /\ \A k \in 1..n : k \in 0..n /\ k # 0
  OBVIOUS
<1>9. level[0] = leaves /\ \A k \in 1..n : level[k] = Above(level[k - 1])
  BY <1>7, <1>8, Zenon DEF Above
<1>10. level = [i \in 0..n |-> level[i]]
  BY <1>6
<1>11. QED
  BY <1>9, <1>10, Zenon DEF Climbs

(* A level is shorter than the one below it, until it has one node.           *)
Shrinks(level, n, k) == \E l \in Nat \ {0} : Nodes(level[k], l) /\ (l = 1 \/ l + k <= n)

LEMMA LevelsShrink ==
  ASSUME NEW n \in Nat \ {0}, NEW leaves, Nodes(leaves, n), NEW level, Climbs(level, leaves, n)
  PROVE  \A k \in 0..n : Shrinks(level, n, k)
<1> DEFINE S == {k \in 0..n : Shrinks(level, n, k)}
<1>1. 0 \in S
  <2>1. 0 \in 0..n /\ n + 0 <= n
    OBVIOUS
  <2>2. Nodes(level[0], n)
    BY Zenon DEF Climbs
  <2>3. Shrinks(level, n, 0)
    BY <2>1, <2>2, Zenon DEF Shrinks
  <2>4. QED
    BY <2>1, <2>3
<1>2. ASSUME NEW k \in 0..(n - 1), k \in S  PROVE k + 1 \in S
  <2>1. k + 1 \in 1..n /\ k + 1 \in 0..n /\ (k + 1) - 1 = k
    OBVIOUS
  <2>2. PICK l \in Nat \ {0} : Nodes(level[k], l) /\ (l = 1 \/ l + k <= n)
    BY <1>2, Zenon DEF Shrinks
  <2>3. level[k + 1] = Above(level[k])
    BY <2>1, Zenon DEF Climbs
  <2>4. Len(level[k]) = l
    BY <2>2, Zenon DEF Nodes
  <2>5. CASE l = 1
    <3>1. level[k + 1] = level[k]
      BY <2>3, <2>4, <2>5, Zenon DEF Above
    <3>2. Shrinks(level, n, k + 1)
      BY <2>2, <2>5, <3>1, Zenon DEF Shrinks
    <3>3. QED
      BY <2>1, <3>2
  <2>6. CASE l # 1
    <3>1. level[k + 1] = NextLevel(level[k])
      BY <2>3, <2>4, <2>6, Zenon DEF Above
    <3>2. PICK h \in Nat \ {0} : h = (l + 1) \div 2 /\ h < l /\ Nodes(level[k + 1], h)
      <4>1. l > 1
        BY <2>6
      <4>2. PICK s, z : s = level[k] /\ z = level[k + 1]
        OBVIOUS
      <4>3. /\ (l + 1) \div 2 \in Nat \ {0} /\ Nodes(z, (l + 1) \div 2)
            /\ l > 1 => (l + 1) \div 2 < l
        BY <2>2, <3>1, <4>2, NextLevelIs, Zenon
      <4>4. QED
        BY <4>1, <4>2, <4>3, Zenon
    <3>3. h + (k + 1) <= n
      BY <2>2, <2>6, <3>2
    <3>4. Shrinks(level, n, k + 1)
      BY <3>2, <3>3, Zenon DEF Shrinks
    <3>5. QED
      BY <2>1, <3>4
  <2>7. QED
    BY <2>5, <2>6
<1>3. \A k \in 0..n : k \in S
  <2> HIDE DEF S
  <2>1. QED
    BY <1>1, <1>2, InductionUpTo
<1>4. QED
  BY <1>3

(* The level of the root.                                                     *)
IsDepth(d, level, n) ==
  d \in 0..n /\ Len(level[d]) = 1 /\ \A m \in 0..(d - 1) : Len(level[m]) > 1

LEMMA DepthIs ==
  ASSUME NEW n \in Nat \ {0}, NEW leaves, Nodes(leaves, n), NEW level, level = Levels(leaves),
         NEW d, d = Depth(leaves)
  PROVE  Climbs(level, leaves, n) /\ (\A k \in 0..n : Shrinks(level, n, k)) /\ IsDepth(d, level, n)
<1>1. n \in Nat /\ Len(leaves) = n
  BY DEF Nodes
<1>2. Climbs(level, leaves, n)
  BY <1>1, LevelsClimb, Zenon
<1>3. \A k \in 0..n : Shrinks(level, n, k)
  BY <1>2, LevelsShrink, Zenon
<1>4. \A k \in 0..n : Len(level[k]) \in Nat \ {0}
  BY <1>3, Zenon DEF Shrinks, Nodes
<1>5. Len(level[n]) = 1
  <2>1. n \in 0..n
    OBVIOUS
  <2>2. PICK l \in Nat \ {0} : Nodes(level[n], l) /\ (l = 1 \/ l + n <= n)
    BY <1>3, <2>1, Zenon DEF Shrinks
  <2>3. l = 1
    BY <2>2
  <2>4. QED
    BY <2>2, <2>3, Zenon DEF Nodes
<1>6. PICK S : S = {k \in 0..n : Len(level[k]) = 1}
  OBVIOUS
<1>7. PICK e \in S : \A k \in S : e <= k
  <2>1. S \subseteq Nat
    BY <1>6
  <2>2. n \in S
    BY <1>5, <1>6
  <2>3. QED
    BY <2>1, <2>2, LeastMember
<1>8. IsDepth(e, level, n)
  <2>1. e \in 0..n /\ Len(level[e]) = 1
    BY <1>6, <1>7
  <2>2. ASSUME NEW m \in 0..(e - 1)  PROVE Len(level[m]) > 1
    <3>1. m \in 0..n /\ ~(e <= m)
      BY <2>1
    <3>2. Len(level[m]) # 1
      BY <1>6, <1>7, <3>1, Zenon
    <3>3. Len(level[m]) \in Nat \ {0}
      BY <1>4, <3>1, Zenon
    <3>4. \A x \in Nat \ {0} : x # 1 => x > 1
      OBVIOUS
    <3>5. QED
      BY <3>2, <3>3, <3>4, Zenon
  <2>3. QED
    BY <2>1, <2>2, Zenon DEF IsDepth
<1>9. d = CHOOSE k \in 0..n : Len(level[k]) = 1 /\ \A m \in 0..(k - 1) : Len(level[m]) > 1
  BY <1>1 DEF Depth
<1>10. \E k \in 0..n : Len(level[k]) = 1 /\ \A m \in 0..(k - 1) : Len(level[m]) > 1
  BY <1>8, Zenon DEF IsDepth
<1>11. IsDepth(d, level, n)
  BY <1>9, <1>10, Zenon DEF IsDepth
<1>12. QED
  BY <1>2, <1>3, <1>11

-----------------------------------------------------------------------------
(* The path of a leaf leads to the root.                                      *)
PathTable(depth, input, index, siblings) ==
  CHOOSE f : f = [i \in 0..depth |->
    IF i = 0 THEN input
    ELSE IF Divided(index, 2, i - 1) % 2 = 1 THEN <<siblings[i], f[i - 1]>>
    ELSE <<f[i - 1], siblings[i]>>]

(* One level: the pair of a node and its sibling is the node above.           *)
SiblingPair(z, s, x) ==
  z[(x \div 2) + 1] = IF x % 2 = 1 THEN <<Sibling(s, x), s[x + 1]>>
                      ELSE <<s[x + 1], Sibling(s, x)>>

LEMMA PairWithSibling ==
  ASSUME NEW l \in Nat \ {0}, NEW s, Nodes(s, l), NEW z, Pairs(z, s, l), NEW x \in Nat, x < l,
         l > 1
  PROVE  SiblingPair(z, s, x)
<1>1. PICK q \in Nat, h \in Nat : q = x \div 2 /\ h = (l + 1) \div 2 /\ q < h /\ q + 1 \in 1..h
  <2>1. x \div 2 \in Nat /\ (l + 1) \div 2 \in Nat /\ x \div 2 < (l + 1) \div 2
        /\ (x \div 2) + 1 \in 1..((l + 1) \div 2)
    BY SMT
  <2>2. QED
    BY <2>1
<1>2. z[q + 1] = <<s[2 * (q + 1) - 1], IF 2 * (q + 1) <= l THEN s[2 * (q + 1)] ELSE s[2 * (q + 1) - 1]>>
  BY <1>1, Zenon DEF Pairs
<1>3. Len(s) = l
  BY Zenon DEF Nodes
<1>4. CASE x % 2 = 1
  <2>1. 2 * (q + 1) - 1 = x /\ 2 * (q + 1) = x + 1 /\ 2 * (q + 1) <= l
    BY <1>1, <1>4
  <2>2. z[q + 1] = <<s[x], s[x + 1]>>
    BY <1>2, <2>1, Zenon
  <2>3. Sibling(s, x) = s[x]
    BY <1>4, Zenon DEF Sibling
  <2>4. QED
    BY <1>1, <1>4, <2>2, <2>3, Zenon DEF SiblingPair
<1>5. CASE x % 2 # 1
  <2>1. 2 * (q + 1) - 1 = x + 1 /\ 2 * (q + 1) = x + 2
    BY <1>1, <1>5
  <2>2. z[q + 1] = <<s[x + 1], IF x + 2 <= l THEN s[x + 2] ELSE s[x + 1]>>
    BY <1>2, <2>1, Zenon
  <2>3. Sibling(s, x) = IF x + 2 <= l THEN s[x + 2] ELSE s[x + 1]
    BY <1>3, <1>5, Zenon DEF Sibling
  <2>4. QED
    BY <1>1, <1>5, <2>2, <2>3, Zenon DEF SiblingPair
<1>6. QED
  BY <1>4, <1>5

(* Below the root a level is paired up.                                       *)
Paired(level, k) ==
  \E l \in Nat \ {0} : /\ l > 1 /\ Nodes(level[k], l) /\ Pairs(level[k + 1], level[k], l)
                       /\ Nodes(level[k + 1], (l + 1) \div 2)

LEMMA LevelsPair ==
  ASSUME NEW n \in Nat \ {0}, NEW leaves, NEW level, Climbs(level, leaves, n),
         \A k \in 0..n : Shrinks(level, n, k), NEW d, IsDepth(d, level, n), NEW k \in 0..(d - 1)
  PROVE  Paired(level, k)
<1>1. d \in 0..n
  BY Zenon DEF IsDepth
<1>2. k \in 0..n /\ k + 1 \in 1..n /\ (k + 1) - 1 = k
  BY <1>1
<1>3. PICK l \in Nat \ {0} : Nodes(level[k], l)
  BY <1>2, Zenon DEF Shrinks
<1>4. Len(level[k]) = l /\ Len(level[k]) > 1
  BY <1>3, Zenon DEF Nodes, IsDepth
<1>5. l > 1 /\ l # 1
  BY <1>4
<1>6. level[k + 1] = NextLevel(level[k])
  <2>1. level[k + 1] = Above(level[k])
    BY <1>2, Zenon DEF Climbs
  <2>2. QED
    BY <1>4, <1>5, <2>1, Zenon DEF Above
<1>7. PICK s, z : s = level[k] /\ z = level[k + 1]
  OBVIOUS
<1>8. Nodes(z, (l + 1) \div 2) /\ Pairs(z, s, l)
  BY <1>3, <1>6, <1>7, NextLevelIs, Zenon
<1>9. QED
  BY <1>3, <1>5, <1>7, <1>8, Zenon DEF Paired

LEMMA PathLeadsToRoot ==
  ASSUME NEW n \in Nat \ {0}, NEW leaves, Nodes(leaves, n), NEW index \in Nat, index < n
  PROVE  getDigestFromSiblings(Depth(leaves), leaves[index + 1], index, PathOf(leaves, index))
           = MerkleRoot(leaves)
<1>0. PICK level, d : level = Levels(leaves) /\ d = Depth(leaves)
  OBVIOUS
<1>1. Climbs(level, leaves, n) /\ (\A k \in 0..n : Shrinks(level, n, k)) /\ IsDepth(d, level, n)
  BY <1>0, DepthIs, Zenon
<1>2. d \in Nat /\ d \in 0..n
  <2>1. d \in 0..n
    BY <1>1, Zenon DEF IsDepth
  <2>2. QED
    BY <2>1
<1>3. \A k \in Nat : Divided(index, 2, k) \in Nat /\ Divided(index, 2, k + 1) = Divided(index, 2, k) \div 2
  <2>1. 2 \in Nat \ {0}
    OBVIOUS
  <2>2. QED
    BY <2>1, DividedIs, Zenon
<1>4. Divided(index, 2, 0) = index
  <2>1. 2 \in Nat \ {0} /\ 0 \in Nat
    OBVIOUS
  <2>2. QED
    BY <2>1, DividedIs, Zenon
(* The node above the leaf on every level.                                    *)
<1> DEFINE At(k) == \E l \in Nat : Nodes(level[k], l) /\ Divided(index, 2, k) < l
           S == {k \in 0..d : At(k)}
<1>5. \A k \in 0..d : At(k)
  <2>1. 0 \in S
    <3>1. At(0)
      BY <1>1, <1>4, Zenon DEF Climbs
    <3>2. QED
      BY <1>2, <3>1
  <2>2. ASSUME NEW k \in 0..(d - 1), k \in S  PROVE k + 1 \in S
    <3>1. k \in Nat /\ k + 1 \in 0..d
      BY <1>2
    <3>2. PICK x \in Nat : x = Divided(index, 2, k)
      BY <1>3, <3>1
    <3>3. Paired(level, k)
      BY <1>1, LevelsPair, Zenon
    <3>4. PICK l \in Nat \ {0} : /\ l > 1 /\ Nodes(level[k], l) /\ Pairs(level[k + 1], level[k], l)
                                 /\ Nodes(level[k + 1], (l + 1) \div 2)
      BY <3>3, Zenon DEF Paired
    <3>5. x < l
      BY <2>2, <3>2, <3>4, Zenon DEF Nodes
    <3>6. x \div 2 < (l + 1) \div 2 /\ (l + 1) \div 2 \in Nat
      BY <3>5, SMT
    <3>7. Divided(index, 2, k + 1) = x \div 2
      BY <1>3, <3>1, <3>2, Zenon
    <3>8. At(k + 1)
      BY <3>4, <3>6, <3>7, Zenon
    <3>9. QED
      BY <3>1, <3>8
  <2>3. \A k \in 0..d : k \in S
    <3> HIDE DEF S
    <3>1. QED
      BY <1>2, <2>1, <2>2, InductionUpTo
  <2>4. QED
    BY <2>3
<1>6. PICK sib : sib = PathOf(leaves, index)
  OBVIOUS
<1>7. \A i \in 1..d : sib[i] = Sibling(level[i - 1], Divided(index, 2, i - 1))
  <2>1. PICK g : g = [i \in 1..d |-> Sibling(level[i - 1], Divided(index, 2, i - 1))]
    OBVIOUS
  <2>2. g = [i \in 1..d |-> g[i]] /\ \A i \in 1..d : g[i] = Sibling(level[i - 1], Divided(index, 2, i - 1))
    BY <2>1
  <2>3. g \o << >> = g
    BY <1>2, <2>2, NodesAre DEF Nodes
  <2>4. sib = g \o << >>
    BY <1>0, <1>6, <2>1, Zenon DEF PathOf
  <2>5. QED
    BY <2>2, <2>3, <2>4, Zenon
<1>8. PICK f : f = [i \in 0..d |-> level[i][Divided(index, 2, i) + 1]]
  OBVIOUS
<1>9. \A i \in 0..d : f[i] = level[i][Divided(index, 2, i) + 1]
  BY <1>8
<1>10. PICK input : input = leaves[index + 1]
  OBVIOUS
<1>11. f[0] = input
  <2>1. 0 \in 0..d
    BY <1>2
  <2>2. level[0] = leaves
    BY <1>1, Zenon DEF Climbs
  <2>3. QED
    BY <1>4, <1>9, <1>10, <2>1, <2>2, Zenon
<1>12. ASSUME NEW i \in 1..d
       PROVE  f[i] = IF Divided(index, 2, i - 1) % 2 = 1 THEN <<sib[i], f[i - 1]>>
                     ELSE <<f[i - 1], sib[i]>>
  <2>1. PICK k \in Nat : k = i - 1 /\ k + 1 = i /\ k \in 0..(d - 1) /\ k \in 0..d /\ i \in 0..d
    <3>1. i - 1 \in Nat /\ (i - 1) + 1 = i /\ i - 1 \in 0..(d - 1) /\ i - 1 \in 0..d /\ i \in 0..d
      BY <1>2
    <3>2. QED
      BY <3>1
  <2>2. PICK x \in Nat : x = Divided(index, 2, k)
    BY <1>3
  <2>3. PICK l \in Nat \ {0} : l > 1 /\ Nodes(level[k], l) /\ Pairs(level[k + 1], level[k], l)
    <3>1. Paired(level, k)
      BY <1>1, <2>1, LevelsPair, Zenon
    <3>2. QED
      BY <3>1, Zenon DEF Paired
  <2>4. x < l
    BY <1>5, <2>1, <2>2, <2>3, Zenon DEF Nodes
  <2>5. PICK s, z : s = level[k] /\ z = level[k + 1]
    OBVIOUS
  <2>6. z[(x \div 2) + 1] = IF x % 2 = 1 THEN <<Sibling(s, x), s[x + 1]>>
                            ELSE <<s[x + 1], Sibling(s, x)>>
    <3>1. Nodes(s, l) /\ Pairs(z, s, l) /\ l > 1
      BY <2>3, <2>5, Zenon
    <3>2. SiblingPair(z, s, x)
      BY <2>4, <3>1, PairWithSibling, Zenon
    <3>3. QED
      BY <3>2, Zenon DEF SiblingPair
  <2>7. Divided(index, 2, i) = x \div 2
    BY <1>3, <2>1, <2>2, Zenon
  <2>8. f[i] = z[(x \div 2) + 1] /\ f[i - 1] = s[x + 1]
    BY <1>9, <2>1, <2>2, <2>5, <2>7, Zenon
  <2>9. sib[i] = Sibling(s, x)
    BY <1>7, <2>1, <2>2, <2>5, Zenon
  <2>10. QED
    BY <2>1, <2>2, <2>6, <2>8, <2>9, Zenon
<1>13. f = [i \in 0..d |-> IF i = 0 THEN input
                           ELSE IF Divided(index, 2, i - 1) % 2 = 1 THEN <<sib[i], f[i - 1]>>
                           ELSE <<f[i - 1], sib[i]>>]
  <2>1. f = [i \in 0..d |-> f[i]]
    BY <1>8
  <2>2. ASSUME NEW i \in 0..d
        PROVE  f[i] = IF i = 0 THEN input
                      ELSE IF Divided(index, 2, i - 1) % 2 = 1 THEN <<sib[i], f[i - 1]>>
                      ELSE <<f[i - 1], sib[i]>>
    <3>1. i # 0 => i \in 1..d
      BY <1>2
    <3>2. QED
      BY <1>11, <1>12, <3>1, Zenon
  <2>3. QED
    BY <2>1, <2>2
<1>14. PICK w : w = PathTable(d, input, index, sib)
  OBVIOUS
<1>15. w = [i \in 0..d |-> IF i = 0 THEN input
                           ELSE IF Divided(index, 2, i - 1) % 2 = 1 THEN <<sib[i], w[i - 1]>>
                           ELSE <<w[i - 1], sib[i]>>]
  BY <1>13, <1>14, Zenon DEF PathTable
<1>16. w[d] = f[d]
  <2>1. \A i \in 0..d : w[i] = IF i = 0 THEN input
                               ELSE IF Divided(index, 2, i - 1) % 2 = 1 THEN <<sib[i], w[i - 1]>>
                               ELSE <<w[i - 1], sib[i]>>
    BY <1>15, Zenon
  <2>2. 0 \in 0..d /\ \A i \in 1..d : i \in 0..d /\ i # 0
    BY <1>2
  <2>3. w[0] = f[0]
    BY <1>11, <2>1, <2>2, Zenon
  <2>4. ASSUME NEW i \in 1..d, w[i - 1] = f[i - 1]  PROVE w[i] = f[i]
    BY <1>12, <2>1, <2>2, <2>4, Zenon
  <2>5. QED
    BY <1>2, <2>3, <2>4, SameUpTo, Zenon
<1>17. Divided(index, 2, d) = 0
  <2>1. PICK x \in Nat : x = Divided(index, 2, d)
    BY <1>2, <1>3
  <2>2. d \in 0..d
    BY <1>2
  <2>3. PICK l \in Nat : Nodes(level[d], l) /\ x < l
    BY <1>5, <2>1, <2>2, Zenon
  <2>4. l = 1
    BY <1>1, <2>3, Zenon DEF Nodes, IsDepth
  <2>5. x = 0
    BY <2>3, <2>4
  <2>6. QED
    BY <2>1, <2>5, Zenon
<1>18. f[d] = level[d][1]
  <2>1. d \in 0..d /\ 0 + 1 = 1
    BY <1>2
  <2>2. QED
    BY <1>9, <1>17, <2>1, Zenon
<1>19. getDigestFromSiblings(d, input, index, sib) = w[d]
  BY <1>14, Zenon DEF getDigestFromSiblings, PathTable
<1>20. MerkleRoot(leaves) = level[d][1]
  BY <1>0, Zenon DEF MerkleRoot
<1>21. QED
  BY <1>0, <1>6, <1>10, <1>16, <1>18, <1>19, <1>20, Zenon

-----------------------------------------------------------------------------
(* The branches of the pool.  Its tree has a placeholder for the coinbase.    *)
Prefixed(z, x, t, n) ==
  Nodes(z, n + 1) /\ z[1] = x /\ \A i \in 2..(n + 1) : z[i] = t[i - 1]

LEMMA PrefixedIs ==
  ASSUME NEW n \in Nat, NEW t, Nodes(t, n), NEW x, NEW z, z = <<x>> \o t
  PROVE  Prefixed(z, x, t, n)
<1>1. PICK S : S = {x} \cup {t[i] : i \in 1..n}
  OBVIOUS
<1>2. t \in [1..n -> S]
  <2>1. t = [i \in 1..n |-> t[i]]
    BY Zenon DEF Nodes
  <2>2. QED
    BY <1>1, <2>1
<1>3. t \in Seq(S) /\ Len(t) = n
  BY <1>2
<1>4. x \in S
  BY <1>1
<1>5. <<x>> \in Seq(S) /\ Len(<<x>>) = 1 /\ <<x>>[1] = x
  BY <1>4
<1>6. z \in Seq(S) /\ Len(z) = n + 1
  BY <1>3, <1>5
<1>7. z[1] = x /\ \A i \in 2..(n + 1) : z[i] = t[i - 1]
  BY <1>3, <1>5
<1>8. z = [i \in 1..(n + 1) |-> z[i]]
  <2>1. z \in [1..Len(z) -> S]
    BY <1>6, LenProperties, Zenon
  <2>2. z = [i \in 1..Len(z) |-> z[i]]
    BY <2>1
  <2>3. QED
    BY <1>6, <2>2, Zenon
<1>9. Nodes(z, n + 1)
  <2>1. n + 1 \in Nat
    OBVIOUS
  <2>2. QED
    BY <1>8, <2>1, NodesAre, Zenon
<1>10. QED
  BY <1>7, <1>9, Zenon DEF Prefixed

(* Two levels that agree but for their first nodes.                           *)
Twins(a, b, l) == Nodes(a, l) /\ Nodes(b, l) /\ \A i \in 2..l : a[i] = b[i]
TwinLevels(A, B, k) == \E l \in Nat \ {0} : Twins(A[k], B[k], l)

LEMMA TwinsAbove ==
  ASSUME NEW l \in Nat \ {0}, NEW a, NEW b, Twins(a, b, l),
         NEW y, y = Above(a), NEW z, z = Above(b)
  PROVE  \E h \in Nat \ {0} : Twins(y, z, h)
<1>1. Nodes(a, l) /\ Nodes(b, l) /\ Len(a) = l /\ Len(b) = l
  BY Zenon DEF Twins, Nodes
<1>2. CASE l = 1
  <2>1. y = a /\ z = b
    BY <1>1, <1>2, Zenon DEF Above
  <2>2. QED
    BY <2>1, Zenon
<1>3. CASE l # 1
  <2>1. y = NextLevel(a) /\ z = NextLevel(b)
    BY <1>1, <1>3, Zenon DEF Above
  <2>2. (l + 1) \div 2 \in Nat \ {0} /\ Nodes(y, (l + 1) \div 2) /\ Pairs(y, a, l)
    BY <1>1, <2>1, NextLevelIs, Zenon
  <2>3. Nodes(z, (l + 1) \div 2) /\ Pairs(z, b, l)
    BY <1>1, <2>1, NextLevelIs, Zenon
  <2>4. ASSUME NEW i \in 2..((l + 1) \div 2)  PROVE y[i] = z[i]
    <3>1. i \in 1..((l + 1) \div 2)
      BY <2>2
    <3>2. 2 * i - 1 \in 2..l /\ (2 * i <= l => 2 * i \in 2..l)
      BY SMT
    <3>3. a[2 * i - 1] = b[2 * i - 1] /\ (2 * i <= l => a[2 * i] = b[2 * i])
      BY <3>2, Zenon DEF Twins
    <3>4. /\ y[i] = <<a[2 * i - 1], IF 2 * i <= l THEN a[2 * i] ELSE a[2 * i - 1]>>
          /\ z[i] = <<b[2 * i - 1], IF 2 * i <= l THEN b[2 * i] ELSE b[2 * i - 1]>>
      BY <2>2, <2>3, <3>1, Zenon DEF Pairs
    <3>5. QED
      BY <3>3, <3>4, Zenon
  <2>5. Twins(y, z, (l + 1) \div 2)
    BY <2>2, <2>3, <2>4, Zenon DEF Twins
  <2>6. QED
    BY <2>2, <2>5, Zenon
<1>4. QED
  BY <1>2, <1>3

LEMMA TreesTwin ==
  ASSUME NEW n \in Nat \ {0}, NEW a, NEW b, Twins(a, b, n),
         NEW A, Climbs(A, a, n), NEW B, Climbs(B, b, n)
  PROVE  \A k \in 0..n : TwinLevels(A, B, k)
<1> DEFINE S == {k \in 0..n : TwinLevels(A, B, k)}
<1>1. 0 \in S
  <2>1. TwinLevels(A, B, 0)
    BY Zenon DEF TwinLevels, Climbs
  <2>2. QED
    BY <2>1
<1>2. ASSUME NEW k \in 0..(n - 1), k \in S  PROVE k + 1 \in S
  <2>1. k + 1 \in 1..n /\ k + 1 \in 0..n /\ (k + 1) - 1 = k
    OBVIOUS
  <2>2. PICK l \in Nat \ {0} : Twins(A[k], B[k], l)
    BY <1>2, Zenon DEF TwinLevels
  <2>3. A[k + 1] = Above(A[k]) /\ B[k + 1] = Above(B[k])
    BY <2>1, Zenon DEF Climbs
  <2>4. \E h \in Nat \ {0} : Twins(A[k + 1], B[k + 1], h)
    BY <2>2, <2>3, TwinsAbove, Zenon
  <2>5. TwinLevels(A, B, k + 1)
    BY <2>4, Zenon DEF TwinLevels
  <2>6. QED
    BY <2>1, <2>5
<1>3. \A k \in 0..n : k \in S
  <2> HIDE DEF S
  <2>1. QED
    BY <1>1, <1>2, InductionUpTo
<1>4. QED
  BY <1>3

LEMMA TwinDepths ==
  ASSUME NEW n \in Nat \ {0}, NEW A, NEW B, \A k \in 0..n : TwinLevels(A, B, k),
         NEW d, IsDepth(d, A, n), NEW e, IsDepth(e, B, n)
  PROVE  d = e
<1>1. \A k \in 0..n : Len(A[k]) = Len(B[k])
  BY Zenon DEF TwinLevels, Twins, Nodes
<1>2. d \in 0..n /\ e \in 0..n /\ Len(A[d]) = 1 /\ Len(B[e]) = 1
  BY Zenon DEF IsDepth
<1>3. CASE d < e
  <2>1. d \in 0..(e - 1)
    BY <1>2, <1>3
  <2>2. Len(B[d]) > 1 /\ Len(B[d]) = 1
    BY <1>1, <1>2, <2>1, Zenon DEF IsDepth
  <2>3. QED
    BY <2>2
<1>4. CASE e < d
  <2>1. e \in 0..(d - 1)
    BY <1>2, <1>4
  <2>2. Len(A[e]) > 1 /\ Len(A[e]) = 1
    BY <1>1, <1>2, <2>1, Zenon DEF IsDepth
  <2>3. QED
    BY <2>2
<1>5. QED
  BY <1>2, <1>3, <1>4

BranchTable(coinbase, steps, d) ==
  CHOOSE f : f = [i \in 0..d |-> IF i = 0 THEN coinbase ELSE <<f[i - 1], steps[i]>>]

LEMMA BranchesLeadToRoot ==
  ASSUME NEW m \in Nat, NEW t, Nodes(t, m), NEW c1, NEW c2, NEW n1, NEW n2
  PROVE  calculateMerkleRoot(c1, c2, n1, n2, getMerkleSteps(t)) = MerkleRoot(<<<<c1, n1, n2, c2>>>> \o t)
<1>0. PICK a, b, A, B, d, e, steps, coinbase :
        /\ coinbase = <<c1, n1, n2, c2>>
        /\ a = <<"placeholder">> \o t /\ b = <<coinbase>> \o t
        /\ A = Levels(a) /\ B = Levels(b) /\ d = Depth(a) /\ e = Depth(b) /\ steps = getMerkleSteps(t)
  OBVIOUS
<1>1. PICK n \in Nat \ {0} : n = m + 1
  OBVIOUS
<1>2. Prefixed(a, "placeholder", t, m) /\ Prefixed(b, coinbase, t, m)
  BY <1>0, PrefixedIs, Zenon
<1>3. Nodes(a, n) /\ Nodes(b, n) /\ Twins(a, b, n) /\ b[1] = coinbase
  <2>1. \A i \in 2..n : a[i] = b[i]
    BY <1>1, <1>2, Zenon DEF Prefixed
  <2>2. QED
    BY <1>1, <1>2, <2>1, Zenon DEF Prefixed, Twins
<1>4. Climbs(A, a, n) /\ IsDepth(d, A, n)
  BY <1>0, <1>3, DepthIs, Zenon
<1>5. Climbs(B, b, n) /\ (\A k \in 0..n : Shrinks(B, n, k)) /\ IsDepth(e, B, n)
  BY <1>0, <1>3, DepthIs, Zenon
<1>6. \A k \in 0..n : TwinLevels(A, B, k)
  BY <1>3, <1>4, <1>5, TreesTwin, Zenon
<1>7. d = e
  BY <1>4, <1>5, <1>6, TwinDepths, Zenon
<1>8. d \in 0..n /\ d \in Nat
  <2>1. d \in 0..n
    BY <1>4, Zenon DEF IsDepth
  <2>2. QED
    BY <2>1
<1>9. Len(steps) = d /\ \A i \in 1..d : steps[i] = A[i - 1][2]
  <2>1. PICK g : g = [i \in 1..d |-> A[i - 1][2]]
    OBVIOUS
  <2>2. g = [i \in 1..d |-> g[i]] /\ \A i \in 1..d : g[i] = A[i - 1][2]
    BY <2>1
  <2>3. Nodes(g, d)
    BY <1>8, <2>2, NodesAre
  <2>4. steps = g \o << >>
    BY <1>0, <2>1, Zenon DEF getMerkleSteps
  <2>5. QED
    BY <2>2, <2>3, <2>4, Zenon DEF Nodes
<1>10. PICK f : f = [i \in 0..d |-> B[i][1]]
  OBVIOUS
<1>11. f = [i \in 0..d |-> f[i]] /\ \A i \in 0..d : f[i] = B[i][1]
  BY <1>10
<1>12. f[0] = coinbase
  <2>1. 0 \in 0..d
    BY <1>8
  <2>2. QED
    BY <1>3, <1>5, <1>11, <2>1, Zenon DEF Climbs
<1>13. ASSUME NEW i \in 1..d  PROVE f[i] = <<f[i - 1], steps[i]>>
  <2>1. PICK k \in Nat : k = i - 1 /\ k + 1 = i /\ k \in 0..(d - 1) /\ k \in 0..d /\ i \in 0..d /\ k \in 0..n
    <3>1. /\ i - 1 \in Nat /\ (i - 1) + 1 = i /\ i - 1 \in 0..(d - 1) /\ i - 1 \in 0..d
          /\ i \in 0..d /\ i - 1 \in 0..n
      BY <1>8
    <3>2. QED
      BY <3>1
  <2>2. Paired(B, k)
    BY <1>5, <1>7, <2>1, LevelsPair, Zenon
  <2>3. PICK l \in Nat \ {0} : l > 1 /\ Nodes(B[k], l) /\ Pairs(B[k + 1], B[k], l)
    BY <2>2, Zenon DEF Paired
  <2>4. 1 \in 1..((l + 1) \div 2) /\ 2 * 1 - 1 = 1 /\ 2 * 1 = 2 /\ 2 <= l /\ 2 \in 2..l
    BY <2>3, SMT
  <2>5. B[k + 1][1] = <<B[k][1], B[k][2]>>
    <3>1. B[k + 1][1] = <<B[k][2 * 1 - 1], IF 2 * 1 <= l THEN B[k][2 * 1] ELSE B[k][2 * 1 - 1]>>
      BY <2>3, <2>4, Zenon DEF Pairs
    <3>2. QED
      BY <2>4, <3>1, Zenon
  <2>6. A[k][2] = B[k][2]
    <3>1. PICK h \in Nat \ {0} : Twins(A[k], B[k], h)
      BY <1>6, <2>1, Zenon DEF TwinLevels
    <3>2. h = l
      BY <2>3, <3>1, Zenon DEF Twins, Nodes
    <3>3. QED
      BY <2>4, <3>1, <3>2, Zenon DEF Twins
  <2>7. f[i] = B[k + 1][1] /\ f[i - 1] = B[k][1] /\ steps[i] = A[k][2]
    BY <1>9, <1>11, <2>1, Zenon
  <2>8. QED
    BY <2>5, <2>6, <2>7, Zenon
<1>14. f = [i \in 0..d |-> IF i = 0 THEN coinbase ELSE <<f[i - 1], steps[i]>>]
  <2>1. ASSUME NEW i \in 0..d  PROVE f[i] = IF i = 0 THEN coinbase ELSE <<f[i - 1], steps[i]>>
    <3>1. i # 0 => i \in 1..d
      BY <1>8
    <3>2. QED
      BY <1>12, <1>13, <3>1, Zenon
  <2>2. QED
    BY <1>11, <2>1
<1>15. PICK w : w = BranchTable(coinbase, steps, d)
  OBVIOUS
<1>16. w = [i \in 0..d |-> IF i = 0 THEN coinbase ELSE <<w[i - 1], steps[i]>>]
  BY <1>14, <1>15, Zenon DEF BranchTable
<1>17. w[d] = f[d]
  <2>1. \A i \in 0..d : w[i] = IF i = 0 THEN coinbase ELSE <<w[i - 1], steps[i]>>
    BY <1>16, Zenon
  <2>2. 0 \in 0..d /\ \A i \in 1..d : i \in 0..d /\ i # 0
    BY <1>8
  <2>3. w[0] = f[0]
    BY <1>12, <2>1, <2>2, Zenon
  <2>4. ASSUME NEW i \in 1..d, w[i - 1] = f[i - 1]  PROVE w[i] = f[i]
    BY <1>13, <2>1, <2>2, <2>4, Zenon
  <2>5. QED
    BY <1>8, <2>3, <2>4, SameUpTo, Zenon
<1>18. f[d] = B[d][1]
  <2>1. d \in 0..d
    BY <1>8
  <2>2. QED
    BY <1>11, <2>1, Zenon
<1>19. calculateMerkleRoot(c1, c2, n1, n2, steps) = w[d]
  BY <1>0, <1>9, <1>15, ZenonT(60) DEF calculateMerkleRoot, BranchTable
<1>20. MerkleRoot(b) = B[d][1]
  BY <1>0, <1>7, Zenon DEF MerkleRoot
<1>21. QED
  BY <1>0, <1>17, <1>18, <1>19, <1>20, Zenon

-----------------------------------------------------------------------------
(* The inductive invariant: a call that returned, returned what it should.    *)
KeyInv ==
  /\ conversion \in Conversions
  /\ ConversionsExact

LEMMA LeavesAre ==
  ASSUME NEW n \in Nat, NEW s, s = [i \in 1..n |-> i] \o << >>
  PROVE  Nodes(s, n)
<1>1. PICK f : f = [i \in 1..n |-> i]
  OBVIOUS
<1>2. f = [i \in 1..n |-> f[i]]
  BY <1>1
<1>3. Nodes(f, n)
  BY <1>2, NodesAre
<1>4. QED
  BY <1>1, <1>3, Zenon DEF Nodes

(* What a conversion is called with.                                          *)
LEMMA CalledWith ==
  ASSUME NEW c \in Conversions
  PROVE  /\ c.fun = "identity" => c.key \in PublicKeys /\ c.lower \in BOOLEAN
         /\ c.fun = "branches" => \E n \in Nat : Nodes(c.transactions, n)
         /\ c.fun = "path" => \E n \in Nat \ {0} : Nodes(c.leaves, n) /\ c.index \in Nat
<1>1. CASE c \in [fun : {"identity"}, key : PublicKeys, lower : BOOLEAN]
  BY <1>1
<1>2. CASE c \in [fun : {"branches"}, transactions : {[i \in 1..n |-> i] \o << >> : n \in 0..(MaxLeaves - 1)}]
  <2>1. c.fun = "branches" /\ c.transactions \in {[i \in 1..n |-> i] \o << >> : n \in 0..(MaxLeaves - 1)}
    BY <1>2
  <2>2. PICK n \in 0..(MaxLeaves - 1) : c.transactions = [i \in 1..n |-> i] \o << >>
    BY <2>1, Zenon
  <2>3. n \in Nat
    BY IdentityAssumption
  <2>4. Nodes(c.transactions, n)
    BY <2>2, <2>3, LeavesAre, Zenon
  <2>5. QED
    BY <2>1, <2>3, <2>4
<1>3. CASE c \in [fun : {"path"}, leaves : {[i \in 1..n |-> i] \o << >> : n \in 1..MaxLeaves}, index : 0..(MaxLeaves - 1)]
  <2>1. /\ c.fun = "path" /\ c.leaves \in {[i \in 1..n |-> i] \o << >> : n \in 1..MaxLeaves}
        /\ c.index \in 0..(MaxLeaves - 1)
    BY <1>3
  <2>2. PICK n \in 1..MaxLeaves : c.leaves = [i \in 1..n |-> i] \o << >>
    BY <2>1, Zenon
  <2>3. n \in Nat /\ n \in Nat \ {0} /\ c.index \in Nat
    BY <2>1, IdentityAssumption
  <2>4. Nodes(c.leaves, n)
    BY <2>2, <2>3, LeavesAre, Zenon
  <2>5. QED
    BY <2>1, <2>3, <2>4
<1>4. QED
  BY <1>1, <1>2, <1>3, Zenon DEF Conversions

LEMMA KeyInvInit == ASSUME \E c \in Conversions : KeyStart(c) PROVE KeyInv
  BY Zenon DEF KeyStart, KeyInv, ConversionsExact, IdentitiesRoundTrip, MerklePathsMeet

LEMMA KeyInvNext ==
  ASSUME KeyInv, [KeyNext]_keyVars
  PROVE  KeyInv'
<1>1. conversion \in Conversions
  BY Zenon DEF KeyInv
<1>2. conversion' = conversion
  BY Zenon DEF KeyNext, keyVars, ConvertKey, FollowBranches, FollowPath
<1>3. CASE ConvertKey
  <2>1. conversion.fun = "identity" /\ conversion.key \in PublicKeys /\ conversion.lower \in BOOLEAN
    BY <1>1, <1>3, CalledWith, Zenon DEF ConvertKey
  <2>2. PICK key, lower, z : /\ key = conversion.key /\ lower = conversion.lower
                             /\ z = getIdentityFromPublicKey(key, lower)
    OBVIOUS
  <2>3. /\ getPublicKeyFromIdentity(z, <<0, 0, 0, 0>>) = IF lower THEN <<0, 0, 0, 0>> ELSE key
        /\ checkSumIdentity(z) <=> ~lower
    BY <2>1, <2>2, IdentityReadBack, Zenon
  <2>4. checkSumIdentity(z) \in BOOLEAN
    BY Zenon DEF checkSumIdentity, UpperCase
  <2>5. converted' = <<getPublicKeyFromIdentity(z, <<0, 0, 0, 0>>), checkSumIdentity(z)>>
    BY <1>3, <2>2, Zenon DEF ConvertKey
  <2>6. converted' = IF lower THEN <<<<0, 0, 0, 0>>, FALSE>> ELSE <<key, TRUE>>
    <3>1. CASE lower = TRUE
      <4>1. checkSumIdentity(z) = FALSE
        BY <2>3, <2>4, <3>1, Zenon
      <4>2. QED
        BY <2>3, <2>5, <3>1, <4>1, Zenon
    <3>2. CASE lower = FALSE
      <4>1. checkSumIdentity(z) = TRUE
        BY <2>3, <2>4, <3>2, Zenon
      <4>2. QED
        BY <2>3, <2>5, <3>2, <4>1, Zenon
    <3>3. QED
      BY <2>1, <2>2, <3>1, <3>2, Zenon
  <2>7. conversion'.fun # "branches" /\ conversion'.fun # "path"
    BY <1>2, <2>1
  <2>8. QED
    BY <1>1, <1>2, <2>2, <2>6, <2>7, Zenon DEF KeyInv, ConversionsExact, IdentitiesRoundTrip, MerklePathsMeet
<1>4. CASE FollowBranches
  <2>1. conversion.fun = "branches"
    BY <1>4, Zenon DEF FollowBranches
  <2>2. PICK n \in Nat : Nodes(conversion.transactions, n)
    BY <1>1, <2>1, CalledWith, Zenon
  <2>3. converted' = <<calculateMerkleRoot("c1", "c2", "n1", "n2", getMerkleSteps(conversion.transactions))>>
    BY <1>4, Zenon DEF FollowBranches
  <2>4. PICK t : t = conversion.transactions
    OBVIOUS
  <2>5. calculateMerkleRoot("c1", "c2", "n1", "n2", getMerkleSteps(t)) = MerkleRoot(<<<<"c1", "n1", "n2", "c2">>>> \o t)
    BY <2>2, <2>4, BranchesLeadToRoot, Zenon
  <2>6. converted'[1] = MerkleRoot(<<<<"c1", "n1", "n2", "c2">>>> \o conversion'.transactions)
    <3>1. PICK r : r = calculateMerkleRoot("c1", "c2", "n1", "n2", getMerkleSteps(t))
      OBVIOUS
    <3>2. converted' = <<r>>
      BY <2>3, <2>4, <3>1, Zenon
    <3>3. converted'[1] = r
      BY <3>2
    <3>4. QED
      BY <1>2, <2>4, <2>5, <3>1, <3>3, Zenon
  <2>7. conversion'.fun # "identity" /\ conversion'.fun # "path"
    BY <1>2, <2>1
  <2>8. QED
    BY <1>1, <1>2, <2>6, <2>7, Zenon DEF KeyInv, ConversionsExact, IdentitiesRoundTrip, MerklePathsMeet
<1>5. CASE FollowPath
  <2>1. conversion.fun = "path" /\ conversion.index < Len(conversion.leaves)
    BY <1>5, Zenon DEF FollowPath
  <2>2. PICK n \in Nat \ {0} : Nodes(conversion.leaves, n) /\ conversion.index \in Nat
    BY <1>1, <2>1, CalledWith, Zenon
  <2>3. PICK leaves, index : leaves = conversion.leaves /\ index = conversion.index
    OBVIOUS
  <2>4. index \in Nat /\ index < n /\ Nodes(leaves, n)
    BY <2>1, <2>2, <2>3, Zenon DEF Nodes
  <2>5. PICK r : r = getDigestFromSiblings(Depth(leaves), leaves[index + 1], index, PathOf(leaves, index))
    OBVIOUS
  <2>6. r = MerkleRoot(leaves)
    BY <2>4, <2>5, PathLeadsToRoot, Zenon
  <2>7. converted' = <<r>>
    BY <1>5, <2>3, <2>5, Zenon DEF FollowPath
  <2>8. converted'[1] = r
    BY <2>7
  <2>9. conversion'.fun # "identity" /\ conversion'.fun # "branches"
    BY <1>2, <2>1
  <2>10. QED
    BY <1>1, <1>2, <2>3, <2>6, <2>8, <2>9, Zenon DEF KeyInv, ConversionsExact, IdentitiesRoundTrip, MerklePathsMeet
<1>6. CASE UNCHANGED keyVars
  BY <1>6, Zenon DEF KeyInv, ConversionsExact, IdentitiesRoundTrip, MerklePathsMeet, keyVars
<1>7. QED
  BY <1>3, <1>4, <1>5, <1>6, Zenon DEF KeyNext

(* Whatever the keys, the base and the size of the block: an identity leads   *)
(* back to the key it was made from and its checksum holds, a lower-case one  *)
(* is refused, and the branches the pool sends and the path of any leaf lead  *)
(* to the root of the whole tree (getPublicKeyFromIdentity, checkSumIdentity, *)
(* calculateMerkleRoot, getMerkleSteps, getDigestFromSiblings).               *)
THEOREM ConversionsAreExact == KeySpec => []ConversionsExact
<1>1. (\E c \in Conversions : KeyStart(c)) => KeyInv
  BY KeyInvInit
<1>2. KeyInv /\ [KeyNext]_keyVars => KeyInv'
  BY KeyInvNext
<1>3. KeyInv => ConversionsExact
  BY DEF KeyInv
<1>4. QED
  BY <1>1, <1>2, <1>3, PTL DEF KeySpec

=============================================================================
