---------------------------- MODULE InductionLemmas ----------------------------
(***************************************************************************)
(* Induction over the naturals in terms of sets instead of predicates, and   *)
(* what recursive functions on sequences compute.                            *)
(***************************************************************************)
EXTENDS Integers, TLAPS, WellFoundedInduction

(* A nonempty set of naturals has a least member.                             *)
LEMMA LeastMember ==
  ASSUME NEW S, S \subseteq Nat, S # {}
  PROVE  \E n \in S : \A m \in S : n <= m
<1> DEFINE Less == {ss \in Nat \X Nat : ss[1] < ss[2]}
<1>1. IsWellFoundedOn(Less, Nat)
  BY NatLessThanWellFounded, Zenon DEF OpToRel
<1>2. PICK n \in S : \A m \in S : ~(<<m, n>> \in Less)
  <2> HIDE DEF Less
  <2> QED
    BY <1>1, WFMin, Zenon
<1>3. ASSUME NEW m \in S, ~(n <= m)  PROVE FALSE
  <2>1. m \in Nat /\ n \in Nat
    OBVIOUS
  <2>2. <<m, n>> \in Less
    BY <1>3, <2>1, SMT
  <2>3. QED
    BY <1>2, <2>2
<1>4. QED
  BY <1>2, <1>3

(* A set with 0 and, up to n, the successor of every member holds 0..n.       *)
LEMMA InductionUpTo ==
  ASSUME NEW n \in Nat, NEW S, 0 \in S,
         \A k \in 0..(n - 1) : k \in S => k + 1 \in S
  PROVE  \A k \in 0..n : k \in S
<1> DEFINE Rest == {k \in 0..n : k \notin S}
<1>1. SUFFICES ASSUME Rest # {}  PROVE FALSE
  OBVIOUS
<1>2. PICK m \in Rest : \A k \in Rest : m <= k
  <2>1. Rest \subseteq Nat
    BY SMT
  <2> HIDE DEF Rest
  <2>2. QED
    BY <1>1, <2>1, LeastMember
<1>3. m # 0 /\ m \in 0..n /\ m \notin S
  OBVIOUS
<1>4. m - 1 \in 0..(n - 1) /\ m - 1 \in 0..n /\ (m - 1) + 1 = m /\ ~(m <= m - 1)
  BY <1>3, SMT
<1>5. m - 1 \in S
  BY <1>2, <1>4
<1>6. QED
  BY <1>3, <1>4, <1>5

(* A function given by its value at 0 and by each value in terms of the one   *)
(* before: there is one, ...                                                  *)
Linear(f, n, c, a, t) == f[0] = c /\ \A k \in 1..n : f[k] = a * f[k - 1] + t[k]

LEMMA LinearRecursion ==
  ASSUME NEW n \in Nat, NEW c \in Nat, NEW a \in Nat, NEW t, \A k \in 1..n : t[k] \in Nat
  PROVE  \E f \in [0..n -> Nat] : Linear(f, n, c, a, t)
<1> DEFINE Rec(f, m) == f[0] = c /\ \A k \in 1..m : f[k] = a * f[k - 1] + t[k]
<1> DEFINE D == {m \in Nat : \E f \in [0..m -> Nat] : Rec(f, m)}
<1>1. 0 \in D
  <2>1. [k \in 0..0 |-> c] \in [0..0 -> Nat] /\ Rec([k \in 0..0 |-> c], 0)
    BY SMT
  <2>2. QED
    BY <2>1
<1>2. ASSUME NEW m \in 0..(n - 1), m \in D  PROVE m + 1 \in D
  <2>1. m \in Nat /\ m + 1 \in Nat /\ m + 1 \in 1..n /\ t[m + 1] \in Nat
    OBVIOUS
  <2>2. PICK f \in [0..m -> Nat] : Rec(f, m)
    BY <1>2, Zenon
  <2>3. PICK x \in Nat : x = a * f[m] + t[m + 1]
    <3>1. PICK y \in Nat, z \in Nat : y = f[m] /\ z = t[m + 1]
      BY <2>1
    <3>2. a * y + z \in Nat
      OBVIOUS
    <3>3. QED
      BY <3>1, <3>2
  <2> DEFINE h == [k \in 0..(m + 1) |-> IF k = m + 1 THEN x ELSE f[k]]
  <2>4. h \in [0..(m + 1) -> Nat]
    BY <2>1, SMT
  <2>5. Rec(h, m + 1)
    <3>1. h[0] = c
      BY <2>1, <2>2
    <3>2. ASSUME NEW k \in 1..(m + 1)  PROVE h[k] = a * h[k - 1] + t[k]
      <4>1. CASE k = m + 1
        <5>1. h[k] = x /\ h[k - 1] = f[m] /\ t[k] = t[m + 1]
          BY <2>1, <4>1
        <5>2. QED
          BY <2>3, <5>1
      <4>2. CASE k # m + 1
        <5>1. k \in 1..m /\ h[k] = f[k] /\ h[k - 1] = f[k - 1]
          BY <2>1, <4>2
        <5>2. QED
          BY <2>2, <5>1
      <4>3. QED
        BY <4>1, <4>2
    <3>3. QED
      BY <3>1, <3>2
  <2>6. QED
    BY <2>1, <2>4, <2>5
<1>3. n \in D
  <2> HIDE DEF D
  <2>1. \A k \in 0..n : k \in D
    BY <1>1, <1>2, InductionUpTo
  <2>2. QED
    BY <2>1
<1>4. QED
  BY <1>3 DEF Linear

(* ... and any two agree.                                                     *)
LEMMA SameUpTo ==
  ASSUME NEW n \in Nat, NEW f, NEW g, f[0] = g[0],
         \A k \in 1..n : f[k - 1] = g[k - 1] => f[k] = g[k]
  PROVE  f[n] = g[n]
<1> DEFINE S == {k \in 0..n : f[k] = g[k]}
<1>1. 0 \in S
  BY SMT
<1>2. ASSUME NEW k \in 0..(n - 1), k \in S  PROVE k + 1 \in S
  <2>1. k + 1 \in 1..n /\ (k + 1) - 1 = k /\ k + 1 \in 0..n
    OBVIOUS
  <2>2. f[(k + 1) - 1] = g[(k + 1) - 1]
    BY <1>2, <2>1
  <2>3. f[k + 1] = g[k + 1]
    BY <2>1, <2>2, Zenon
  <2>4. QED
    BY <2>1, <2>3
<1>3. n \in S
  <2> HIDE DEF S
  <2>1. \A k \in 0..n : k \in S
    BY <1>1, <1>2, InductionUpTo
  <2>2. QED
    BY <2>1
<1>4. QED
  BY <1>3

=============================================================================
