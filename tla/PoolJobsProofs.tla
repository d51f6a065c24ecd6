----------------------------- MODULE PoolJobsProofs -----------------------------
(***************************************************************************)
(* Proofs about PoolJobs and PoolBlocks, for every configuration of          *)
(* setupBlockPolling, every chain of blocks and any number of failures, and  *)
(* about DaemonInterface, for any number of daemons and calls.               *)
(***************************************************************************)
EXTENDS MCPoolJobs, FiniteSetTheorems, FunctionTheorems, TLAPS

-----------------------------------------------------------------------------
(* The filter of checkOnline.                                                 *)

LEMMA DaemonsFinite ==
    /\ IsFiniteSet(Daemons) /\ Cardinality(Daemons) = N
    /\ \A S \in SUBSET Daemons : IsFiniteSet(S) /\ Cardinality(S) \in Nat /\ Cardinality(S) <= N
<1>1. IsFiniteSet(1..N) /\ Cardinality(1..N) = N
  BY InstancesAssumption, FS_Interval
<1>2. ASSUME NEW S \in SUBSET (1..N)
      PROVE  IsFiniteSet(S) /\ Cardinality(S) \in Nat /\ Cardinality(S) <= N
  BY <1>1, FS_Subset, FS_CardinalityType
<1>3. QED
  BY <1>1, <1>2 DEF Daemons

(* A set of indices has exactly one element of each rank up to its size.      *)
LEMMA Ranks ==
    ASSUME NEW n \in Nat, NEW K \in SUBSET (1..n)
    PROVE  /\ IsFiniteSet(K) /\ Cardinality(K) \in Nat
           /\ \A k \in 1..Cardinality(K) : \E i \in K : Cardinality({j \in K : j <= i}) = k
<1>1. IsFiniteSet(1..n) /\ 1..n \in SUBSET Int
  BY FS_Interval
<1>2. IsFiniteSet(K) /\ Cardinality(K) \in Nat
  BY <1>1, FS_Subset, FS_CardinalityType
<1> DEFINE Below(i) == {j \in K : j <= i}
           c == Cardinality(K)
           f == [i \in K |-> Cardinality(Below(i))]
<1>3. \A i \in K : /\ IsFiniteSet(Below(i)) /\ Cardinality(Below(i)) \in Nat
                   /\ Cardinality(Below(i)) <= c
  <2>1. \A i \in K : Below(i) \in SUBSET K
    OBVIOUS
  <2>2. QED
    BY <1>2, <2>1, FS_Subset, FS_CardinalityType
<1>4. ASSUME NEW i \in K PROVE Cardinality(Below(i)) \in 1..c
  <2>1. i \in Below(i)
    OBVIOUS
  <2>2. Below(i) # {}
    BY <2>1
  <2> HIDE DEF Below
  <2>3. Cardinality(Below(i)) # 0
    BY <1>3, <2>2, FS_EmptySet
  <2>4. QED
    BY <1>2, <1>3, <2>3
<1>5. ASSUME NEW i \in K, NEW j \in K, i < j
      PROVE  Cardinality(Below(i)) # Cardinality(Below(j))
  <2>1. Below(i) \in SUBSET Below(j)
    <3>1. i \in Int /\ j \in Int /\ \A x \in K : x \in Int
      BY <1>1
    <3>2. \A x \in K : x <= i => x <= j
      BY <1>5, <3>1
    <3>3. QED
      BY <3>2
  <2>2. j \in Below(j) /\ j \notin Below(i)
    BY <1>5
  <2> HIDE DEF Below
  <2>3. QED
    BY <1>3, <2>1, <2>2, FS_Subset
<1> HIDE DEF Below, c
<1>6. f \in [K -> 1..c] /\ \A i, j \in K : f[i] = f[j] => i = j
  <2>1. \A i, j \in K : i = j \/ i < j \/ j < i
    BY <1>1
  <2>2. \A i \in K : f[i] = Cardinality(Below(i))
    OBVIOUS
  <2>3. QED
    BY <1>4, <1>5, <2>1, <2>2
<1> HIDE DEF f
<1>7. f \in Injection(K, 1..c)
  BY <1>6, Fun_IsInj
<1>8. IsFiniteSet(1..c) /\ Cardinality(1..c) = c /\ c = Cardinality(K)
  <2>1. c \in Nat /\ c = Cardinality(K)
    BY <1>2 DEF c
  <2>2. QED
    BY <2>1, FS_Interval
<1>9. f \in Surjection(K, 1..c)
  BY <1>7, <1>8, FS_Injection
<1>10. \A k \in 1..c : \E i \in K : f[i] = k
  BY <1>9, Fun_SurjectionProperties
<1>11. \A i \in K : f[i] = Cardinality({j \in K : j <= i})
  BY DEF f, Below
<1>12. QED
  BY <1>2, <1>8, <1>10, <1>11

(* checkOnline keeps distinct instances, one for each result without error.   *)
LEMMA FilterKeeps ==
    ASSUME NEW list \in Seq(Daemons), IsInjective(list), NEW res,
           NEW kept, kept = {i \in DOMAIN list : ~res[i].error}
    PROVE  /\ FilterOnline(list, res) \in Seq(Daemons)
           /\ IsInjective(FilterOnline(list, res))
           /\ Len(FilterOnline(list, res)) = Cardinality(kept)
<1> DEFINE c     == Cardinality(kept)
           Rank(i) == Cardinality({j \in kept : j <= i})
           At(k) == CHOOSE i \in kept : Rank(i) = k
           out   == [k \in 1..c |-> list[At(k)]]
<1>1. FilterOnline(list, res) = out
  BY DEF FilterOnline
<1>2. /\ c \in Nat
      /\ \A k \in 1..c : \E i \in kept : Rank(i) = k
  <2>1. Len(list) \in Nat /\ kept \in SUBSET (1..Len(list))
    OBVIOUS
  <2>2. QED
    BY <2>1, Ranks
<1> HIDE DEF c, Rank
<1>3. ASSUME NEW k \in 1..c PROVE At(k) \in kept /\ Rank(At(k)) = k
  <2>1. \E i \in kept : Rank(i) = k
    BY <1>2
  <2>2. QED
    BY <2>1, Zenon
<1> HIDE DEF At
<1>4. \A k \in 1..c : At(k) \in DOMAIN list /\ list[At(k)] \in Daemons
  BY <1>3
<1>5. out \in Seq(Daemons) /\ Len(out) = c /\ DOMAIN out = 1..c
  BY <1>2, <1>4
<1>6. IsInjective(out)
  <2>1. ASSUME NEW a \in 1..c, NEW b \in 1..c, out[a] = out[b]
        PROVE  a = b
    <3>1. list[At(a)] = list[At(b)]
      BY <2>1
    <3>2. At(a) = At(b)
      BY <1>4, <3>1 DEF IsInjective
    <3>3. QED
      BY <1>3, <3>2
  <2>2. QED
    BY <1>5, <2>1 DEF IsInjective
<1> HIDE DEF out
<1>7. QED
  BY <1>1, <1>5, <1>6 DEF c

-----------------------------------------------------------------------------
(* Counting answers.                                                          *)

(* No daemon has two of the results q, and S is the set of those that have    *)
(* one.                                                                       *)
OnePerDaemon(q, S) ==
    /\ \A i, k \in DOMAIN q : q[i].from = q[k].from => i = k
    /\ S = {q[k].from : k \in DOMAIN q}

LEMMA ResultsCount ==
    ASSUME NEW q \in Seq(Result), NEW S, OnePerDaemon(q, S)
    PROVE  Cardinality(S) = Len(q)
<1> DEFINE f == [k \in 1..Len(q) |-> q[k].from]
<1>1. DOMAIN q = 1..Len(q) /\ Len(q) \in Nat
  OBVIOUS
<1>2. f \in [1..Len(q) -> S] /\ \A k \in 1..Len(q) : f[k] = q[k].from
  BY <1>1 DEF OnePerDaemon
<1> HIDE DEF f
<1>3. /\ \A a, b \in 1..Len(q) : f[a] = f[b] => a = b
      /\ \A s \in S : \E k \in 1..Len(q) : f[k] = s
  BY <1>1, <1>2 DEF OnePerDaemon
<1>4. f \in Bijection(1..Len(q), S)
  BY <1>2, <1>3, Fun_IsBij
<1>5. ExistsBijection(1..Len(q), S)
  BY <1>4 DEF ExistsBijection
<1>6. QED
  BY <1>1, <1>5, FS_CountingElements

LEMMA InstancesCount ==
    ASSUME NEW list \in Seq(Daemons), IsInjective(list)
    PROVE  Cardinality(Range(list)) = Len(list)
<1>1. /\ DOMAIN list = 1..Len(list) /\ Len(list) \in Nat
      /\ list \in [1..Len(list) -> Range(list)]
  BY DEF Range
<1>2. /\ \A a, b \in 1..Len(list) : list[a] = list[b] => a = b
      /\ \A s \in Range(list) : \E k \in 1..Len(list) : list[k] = s
  BY <1>1 DEF IsInjective, Range
<1>3. list \in Bijection(1..Len(list), Range(list))
  BY <1>1, <1>2, Fun_IsBij
<1>4. ExistsBijection(1..Len(list), Range(list))
  BY <1>3 DEF ExistsBijection
<1>5. QED
  BY <1>1, <1>4, FS_CountingElements

(* When every daemon has answered, the results without error are as many as   *)
(* the daemons that are online, in whatever order they came.                  *)
LEMMA OnlineCount ==
    ASSUME NEW q \in Seq(Result), OnePerDaemon(q, Daemons), NEW S \in SUBSET Daemons,
           \A k \in DOMAIN q : q[k].error <=> q[k].from \notin S
    PROVE  Len(q) = N /\ Cardinality({i \in 1..N : ~q[i].error}) = Cardinality(S)
<1>1. Len(q) = N /\ DOMAIN q = 1..N
  BY ResultsCount, DaemonsFinite
<1> DEFINE K == {i \in 1..N : ~q[i].error}
           f == [i \in K |-> q[i].from]
<1>2. \A i \in K : i \in DOMAIN q /\ q[i].from \in S
  BY <1>1
<1>3. f \in [K -> S] /\ \A i \in K : f[i] = q[i].from
  BY <1>2
<1>4. \A a, b \in K : f[a] = f[b] => a = b
  BY <1>2, <1>3 DEF OnePerDaemon
<1>5. \A s \in S : \E i \in K : f[i] = s
  <2> SUFFICES ASSUME NEW s \in S PROVE \E i \in K : f[i] = s
    OBVIOUS
  <2>1. PICK k \in DOMAIN q : s = q[k].from
    BY DEF OnePerDaemon
  <2>2. ~q[k].error
    BY <2>1
  <2>3. k \in K
    BY <1>1, <2>2
  <2>4. QED
    BY <1>3, <2>1, <2>3
<1>6. IsFiniteSet(K)
  <2>1. K \in SUBSET Daemons
    BY DEF Daemons
  <2>2. QED
    BY <2>1, DaemonsFinite
<1> HIDE DEF K, f
<1>7. f \in Bijection(K, S)
  BY <1>3, <1>4, <1>5, Fun_IsBij
<1>8. ExistsBijection(K, S)
  BY <1>7 DEF ExistsBijection
<1>9. Cardinality(S) = Cardinality(K)
  BY <1>6, <1>8, FS_Bijection
<1>10. QED
  BY <1>1, <1>9 DEF K

-----------------------------------------------------------------------------
(* The inductive invariant.                                                   *)
Answering == {d \in Daemons : answered[d]}
Pending(d) == events[d] # <<>> /\ ~answered[d]

DaemonTypes ==
    /\ online \subseteq Daemons
    /\ instances \in Seq(Daemons) /\ IsInjective(instances)
    /\ purpose \in {"none", "online", "all", "streaming"}
    /\ events \in [Daemons -> Seq(BOOLEAN)]
    /\ answered \in [Daemons -> BOOLEAN]
    /\ completed \subseteq Daemons
    /\ results \in Seq(Result)
    /\ responded \in BOOLEAN
    /\ delivered \in Seq(Seq(Result))
    /\ calls \in 0..MaxCalls

(* Every daemon that has answered has one result, and the others are asked    *)
(* instances.                                                                 *)
AnswersInv ==
    /\ OnePerDaemon(results, Answering)
    /\ \A d \in Daemons : Pending(d) => d \in Range(instances)

(* async.each: the winner of a streaming command never completes; otherwise   *)
(* every answer does.                                                         *)
CompletionInv ==
    /\ responded =>
         /\ purpose = "streaming"
         /\ \E w \in Range(instances) : answered[w] /\ w \notin completed
         /\ Len(delivered) = 1 /\ ~delivered[1][1].error
    /\ ~responded => completed = Answering

(* Without a winner the callback waits for every instance.                    *)
DeliveryInv ==
    ~responded =>
      /\ purpose = "streaming" => \A k \in DOMAIN results : results[k].error
      /\ delivered # <<>> =>
           /\ Len(delivered) = 1
           /\ \A d \in Daemons : ~Pending(d)
           /\ purpose = "streaming" => Len(results) = Len(instances)

(* checkOnline asks every configured daemon and hears who is online.          *)
OnlineInv ==
    /\ purpose \in {"none", "online"} /\ delivered = <<>> =>
         Len(instances) = N /\ Range(instances) = Daemons
    /\ purpose = "none" => delivered = <<>> /\ \A d \in Daemons : ~Pending(d)
    /\ purpose = "online" =>
         /\ \A k \in DOMAIN results : results[k].error <=> results[k].from \notin online
         /\ \A d \in Daemons : Pending(d) => (Head(events[d]) <=> d \notin online)
    /\ CountsOnlineDaemons

DaemonInv == DaemonTypes /\ AnswersInv /\ CompletionInv /\ DeliveryInv /\ OnlineInv

LEMMA InvImpliesAnswers ==
    DaemonInv => DaemonTypeOK /\ AnsweredOnce /\ FirstSuccessWins /\ CountsOnlineDaemons
<1> SUFFICES ASSUME DaemonInv
             PROVE  DaemonTypeOK /\ AnsweredOnce /\ FirstSuccessWins /\ CountsOnlineDaemons
    OBVIOUS
<1> USE DEF DaemonInv
<1>1. Len(results) <= N
  <2>1. Cardinality(Answering) = Len(results)
    BY ResultsCount DEF DaemonTypes, AnswersInv
  <2>2. Answering \in SUBSET Daemons
    BY DEF Answering
  <2>3. QED
    BY <2>1, <2>2, DaemonsFinite
<1>2. DaemonTypeOK
  BY <1>1 DEF DaemonTypes, DaemonTypeOK
<1>3. delivered = <<>> \/ Len(delivered) = 1
  BY DEF DaemonTypes, CompletionInv, DeliveryInv
<1>4. AnsweredOnce
  <2>1. Len(delivered) \in {0, 1}
    BY <1>3
  <2>2. \A x \in {0, 1} : x <= 1
    OBVIOUS
  <2>3. QED
    BY <2>1, <2>2, Zenon DEF AnsweredOnce
<1>5. FirstSuccessWins
  <2> SUFFICES ASSUME NEW i \in 1..Len(delivered), purpose = "streaming", delivered[i][1].error
               PROVE  Len(results) = Len(instances) /\ \A k \in 1..Len(results) : results[k].error
    BY DEF FirstSuccessWins
  <2>1. delivered # <<>> /\ i = 1
    BY <1>3
  <2>2. ~responded
    BY <2>1 DEF CompletionInv
  <2>3. DOMAIN results = 1..Len(results)
    BY DEF DaemonTypes
  <2>4. QED
    BY <2>1, <2>2, <2>3 DEF DeliveryInv
<1>6. QED
  BY <1>2, <1>4, <1>5 DEF OnlineInv

-----------------------------------------------------------------------------
(* A new call.                                                                *)
LEMMA ShortQueues ==
    ASSUME NEW S, NEW a \in S, NEW b \in S
    PROVE  /\ <<a>> \in Seq(S) /\ Head(<<a>>) = a
           /\ <<a, b>> \in Seq(S) /\ Head(<<a, b>>) = a
OBVIOUS

LEMMA EmptyQueues ==
    <<>> \in Seq(Result) /\ <<>> \in Seq(Seq(Result)) /\ <<>> \in Seq(BOOLEAN)
OBVIOUS

LEMMA DeliveriesType ==
    ASSUME NEW d, NEW why, NEW e \in Deliveries(d, why)
    PROVE  e \in Seq(BOOLEAN) /\ (why = "online" /\ e # <<>> => (Head(e) <=> d \notin online))
<1>1. ASSUME NEW r \in HandleResponse(TRUE)
      PROVE  r \in Seq(BOOLEAN) /\ Head(r) = FALSE
  <2>1. r = <<FALSE>> \/ r = <<FALSE, TRUE>>
    <3>1. (~TRUE) = FALSE
      OBVIOUS
    <3>2. QED
      BY <1>1, <3>1, Zenon DEF HandleResponse
  <2>2. FALSE \in BOOLEAN /\ TRUE \in BOOLEAN
    OBVIOUS
  <2>3. QED
    BY <2>1, <2>2, ShortQueues, Zenon
<1>0. ASSUME NEW r \in HandleResponse(FALSE)
      PROVE  r \in Seq(BOOLEAN) /\ Head(r) = TRUE
  <2>1. r = <<TRUE>> \/ r = <<TRUE, TRUE>>
    <3>1. (~FALSE) = TRUE
      OBVIOUS
    <3>2. QED
      BY <1>0, <3>1, Zenon DEF HandleResponse
  <2>2. TRUE \in BOOLEAN
    OBVIOUS
  <2>3. QED
    BY <2>1, <2>2, ShortQueues, Zenon
<1>4. CASE e = Interrupted
  BY <1>4, EmptyQueues DEF Interrupted
<1>2. CASE why = "online" /\ e # Interrupted
  <2>1. e \in HandleResponse(d \in online)
    BY <1>2 DEF Deliveries
  <2>2. CASE d \in online
    <3>1. e \in HandleResponse(TRUE)
      BY <2>1, <2>2, Zenon
    <3>2. QED
      BY <1>1, <2>2, <3>1
  <2>3. CASE d \notin online
    <3>1. e \in HandleResponse(FALSE)
      <4>1. (d \in online) = FALSE
        BY <2>3
      <4>2. QED
        BY <2>1, <4>1, Zenon
    <3>2. QED
      BY <1>0, <2>3, <3>1
  <2>4. QED
    BY <2>2, <2>3
<1>3. CASE why # "online" /\ e # Interrupted
  <2>1. e \in HandleResponse(TRUE) \/ e \in HandleResponse(FALSE)
    BY <1>3 DEF Deliveries
  <2>2. QED
    BY <1>0, <1>1, <1>3, <2>1
<1>5. QED
  BY <1>2, <1>3, <1>4

LEMMA NothingAnswered == OnePerDaemon(<<>>, {})
BY DEF OnePerDaemon

LEMMA CallStarts ==
    ASSUME DaemonInv, NEW why \in {"online", "all", "streaming"}, SendCommands(why),
           why = "online" => purpose = "none",
           UNCHANGED <<online, instances>>, calls' \in 0..MaxCalls
    PROVE  DaemonInv'
<1>1. PICK e \in [Daemons -> UNION {Deliveries(d, why) : d \in Daemons}] :
         /\ \A d \in Range(instances) : e[d] \in Deliveries(d, why)
         /\ events' = [d \in Daemons |-> IF d \in Range(instances) THEN e[d] ELSE <<>>]
  BY DEF SendCommands
<1>2. Range(instances) \subseteq Daemons
  BY DEF DaemonInv, DaemonTypes, Range
<1>3. \A d \in Daemons :
        /\ events'[d] \in Seq(BOOLEAN)
        /\ events'[d] # <<>> => d \in Range(instances)
        /\ events'[d] # <<>> /\ why = "online" => (Head(events'[d]) <=> d \notin online)
  <2> SUFFICES ASSUME NEW d \in Daemons
               PROVE  /\ events'[d] \in Seq(BOOLEAN)
                      /\ events'[d] # <<>> => d \in Range(instances)
                      /\ events'[d] # <<>> /\ why = "online" =>
                           (Head(events'[d]) <=> d \notin online)
    OBVIOUS
  <2>1. CASE d \in Range(instances)
    <3>1. events'[d] = e[d] /\ e[d] \in Deliveries(d, why)
      BY <1>1, <2>1
    <3>2. QED
      BY <2>1, <3>1, DeliveriesType
  <2>2. CASE d \notin Range(instances)
    <3>1. events'[d] = <<>>
      BY <1>1, <2>2
    <3>2. <<>> \in Seq(BOOLEAN)
      OBVIOUS
    <3>3. QED
      BY <3>1, <3>2, Zenon
  <2>3. QED
    BY <2>1, <2>2
<1>4. /\ purpose' = why /\ answered' = [d \in Daemons |-> FALSE] /\ completed' = {}
      /\ results' = <<>> /\ responded' = FALSE /\ delivered' = <<>>
  BY DEF SendCommands
<1>5. Answering' = {}
  BY <1>4 DEF Answering
<1>6. events' \in [Daemons -> Seq(BOOLEAN)]
  BY <1>1, <1>3
<1>7. DaemonTypes'
  <2>1. /\ answered' \in [Daemons -> BOOLEAN] /\ completed' \subseteq Daemons
        /\ responded' \in BOOLEAN /\ purpose' \in {"none", "online", "all", "streaming"}
    BY <1>4
  <2>2. results' \in Seq(Result) /\ delivered' \in Seq(Seq(Result))
    BY <1>4, EmptyQueues
  <2>3. QED
    BY <1>6, <2>1, <2>2, Zenon DEF DaemonInv, DaemonTypes
<1>8. AnswersInv'
  BY <1>3, <1>4, <1>5, NothingAnswered DEF AnswersInv, Pending
<1>9. CompletionInv' /\ DeliveryInv'
  BY <1>4, <1>5 DEF CompletionInv, DeliveryInv
<1>10. OnlineInv'
  <2>1. why = "online" => Len(instances) = N /\ Range(instances) = Daemons
    BY DEF DaemonInv, OnlineInv
  <2>2. CountsOnlineDaemons'
    BY <1>4 DEF CountsOnlineDaemons
  <2>3. \A k \in DOMAIN results' : FALSE
    BY <1>4
  <2>4. QED
    BY <1>3, <1>4, <2>1, <2>2, <2>3, Zenon DEF OnlineInv, Pending
<1>11. QED
  BY <1>7, <1>8, <1>9, <1>10 DEF DaemonInv

LEMMA DaemonInvInit == DaemonInit => DaemonInv
<1> SUFFICES ASSUME DaemonInit PROVE DaemonInv
    OBVIOUS
<1> USE DEF DaemonInit, NoCall
<1>1. /\ instances \in Seq(Daemons) /\ Len(instances) = N /\ DOMAIN instances = 1..N
      /\ \A i \in 1..N : instances[i] = i
  BY InstancesAssumption DEF Daemons
<1>2. IsInjective(instances) /\ Range(instances) = Daemons
  BY <1>1 DEF IsInjective, Range, Daemons
<1>3. Answering = {}
  BY DEF Answering
<1>4. DaemonTypes
  <2>1. /\ answered \in [Daemons -> BOOLEAN] /\ events \in [Daemons -> Seq(BOOLEAN)]
        /\ calls \in 0..MaxCalls
    BY CallsAssumption, EmptyQueues
  <2>2. QED
    BY <1>1, <1>2, <2>1, EmptyQueues, Zenon DEF DaemonTypes
<1>5. AnswersInv
  BY <1>3, NothingAnswered DEF AnswersInv, Pending
<1>6. CompletionInv /\ DeliveryInv
  BY <1>3 DEF CompletionInv, DeliveryInv
<1>7. OnlineInv
  BY <1>1, <1>2 DEF OnlineInv, Pending, CountsOnlineDaemons
<1>8. QED
  BY <1>4, <1>5, <1>6, <1>7 DEF DaemonInv

-----------------------------------------------------------------------------
(* An answer.                                                                 *)

(* A callback after the first of its request changes nothing but the events.  *)
LEMMA LaterCallback ==
    ASSUME DaemonInv, NEW d \in Daemons, events[d] # <<>>, answered[d],
           events' = [events EXCEPT ![d] = Tail(@)],
           answered' = [answered EXCEPT ![d] = TRUE],
           UNCHANGED <<results, responded, delivered, completed, instances, online, purpose, calls>>
    PROVE  DaemonInv'
<1>1. events \in [Daemons -> Seq(BOOLEAN)] /\ answered \in [Daemons -> BOOLEAN]
  BY DEF DaemonInv, DaemonTypes
<1>2. answered' = answered
  BY <1>1
<1>3. Tail(events[d]) \in Seq(BOOLEAN)
  BY <1>1
<1>4. events' \in [Daemons -> Seq(BOOLEAN)] /\ \A x \in Daemons : x # d => events'[x] = events[x]
  BY <1>1, <1>3
<1>5. \A x \in Daemons : Pending(x)' => Pending(x) /\ events'[x] = events[x]
  BY <1>2, <1>4 DEF Pending
<1>6. Answering' = Answering
  BY <1>2 DEF Answering
<1>7. DaemonTypes'
  BY <1>1, <1>2, <1>4 DEF DaemonInv, DaemonTypes
<1>8. AnswersInv'
  BY <1>5, <1>6 DEF DaemonInv, AnswersInv
<1>9. CompletionInv' /\ DeliveryInv'
  BY <1>2, <1>5, <1>6 DEF DaemonInv, CompletionInv, DeliveryInv
<1>10. OnlineInv'
  BY <1>5 DEF DaemonInv, OnlineInv, CountsOnlineDaemons
<1>11. QED
  BY <1>7, <1>8, <1>9, <1>10 DEF DaemonInv

(* What the first callback of a request does in every case.                   *)
FirstAnswer(d, r) ==
    /\ r \in Result /\ r.from = d /\ r.error = Head(events[d])
    /\ Pending(d) /\ d \in Range(instances)
    /\ answered' \in [Daemons -> BOOLEAN] /\ events' \in [Daemons -> Seq(BOOLEAN)]
    /\ results' \in Seq(Result) /\ results' # <<>>
    /\ Answering' = Answering \cup {d}
    /\ OnePerDaemon(results', Answering')
    /\ \A x \in Daemons : Pending(x)' => Pending(x) /\ x # d /\ events'[x] = events[x]
    /\ \A k \in DOMAIN results' :
         \/ results'[k] = r
         \/ k \in DOMAIN results /\ results'[k] = results[k]

LEMMA AppendNotEmpty ==
    ASSUME NEW S, NEW q \in Seq(S), NEW e \in S
    PROVE  Append(q, e) # <<>>
<1>1. Len(Append(q, e)) = Len(q) + 1 /\ Len(q) \in Nat
  OBVIOUS
<1>2. Len(<<>>) = 0
  OBVIOUS
<1>3. QED
  BY <1>1, <1>2

LEMMA FirstAnswerFacts ==
    ASSUME DaemonInv, NEW d \in Daemons, events[d] # <<>>, ~answered[d],
           NEW r, r = [from |-> d, error |-> Head(events[d])],
           events' = [events EXCEPT ![d] = Tail(@)],
           answered' = [answered EXCEPT ![d] = TRUE],
           results' = Append(results, r)
    PROVE  FirstAnswer(d, r)
<1>1. /\ events \in [Daemons -> Seq(BOOLEAN)] /\ answered \in [Daemons -> BOOLEAN]
      /\ results \in Seq(Result)
  BY DEF DaemonInv, DaemonTypes
<1>2. Head(events[d]) \in BOOLEAN /\ Tail(events[d]) \in Seq(BOOLEAN)
  BY <1>1
<1>3. r \in Result /\ r.from = d /\ r.error = Head(events[d])
  BY <1>2 DEF Result
<1>4. /\ answered' \in [Daemons -> BOOLEAN] /\ events' \in [Daemons -> Seq(BOOLEAN)]
      /\ answered'[d]
      /\ \A x \in Daemons \ {d} : events'[x] = events[x] /\ answered'[x] = answered[x]
  BY <1>1, <1>2
<1>5. Answering' = Answering \cup {d}
  BY <1>4 DEF Answering
<1>6. \A x \in Daemons : Pending(x)' => Pending(x) /\ x # d /\ events'[x] = events[x]
  BY <1>4 DEF Pending
<1>7. /\ results' \in Seq(Result) /\ DOMAIN results' = 1..(Len(results) + 1)
      /\ DOMAIN results = 1..Len(results) /\ Len(results) \in Nat
      /\ \A k \in 1..Len(results) : results'[k] = results[k]
      /\ results'[Len(results) + 1] = r
  BY <1>1, <1>3
<1>8. /\ results' # <<>>
      /\ \A k \in DOMAIN results' :
           \/ results'[k] = r /\ k = Len(results) + 1
           \/ k \in DOMAIN results /\ results'[k] = results[k]
  <2>1. results' # <<>>
    BY <1>1, <1>3, AppendNotEmpty
  <2>2. \A k \in DOMAIN results' : k = Len(results) + 1 \/ k \in 1..Len(results)
    BY <1>7
  <2>3. ASSUME NEW k \in DOMAIN results'
        PROVE  \/ results'[k] = r /\ k = Len(results) + 1
               \/ k \in DOMAIN results /\ results'[k] = results[k]
    <3>1. CASE k = Len(results) + 1
      <4>1. results'[Len(results) + 1] = r
        BY <1>7, Zenon
      <4>2. QED
        BY <3>1, <4>1
    <3>2. CASE k \in 1..Len(results)
      BY <1>7, <3>2
    <3>3. QED
      BY <2>2, <3>1, <3>2
  <2>4. QED
    BY <2>1, <2>3
<1>9. OnePerDaemon(results, Answering) /\ d \notin Answering
  BY DEF DaemonInv, AnswersInv, Answering
<1>10. OnePerDaemon(results', Answering')
  <2>1. \A k \in DOMAIN results : results[k].from \in Answering
    BY <1>9 DEF OnePerDaemon
  <2>2. \A i, k \in DOMAIN results' : results'[i].from = results'[k].from => i = k
    BY <1>3, <1>8, <1>9, <2>1 DEF OnePerDaemon
  <2>3. \A k \in DOMAIN results' : results'[k].from \in Answering'
    BY <1>3, <1>5, <1>8, <2>1
  <2>4. \A x \in Answering' : \E k \in DOMAIN results' : x = results'[k].from
    <3>1. \A x \in Answering : \E k \in DOMAIN results : x = results[k].from
      BY <1>9 DEF OnePerDaemon
    <3>2. \A k \in DOMAIN results : k \in DOMAIN results' /\ results'[k] = results[k]
      BY <1>7
    <3>3. Len(results) + 1 \in DOMAIN results'
      BY <1>7
    <3>4. QED
      BY <1>3, <1>5, <1>7, <3>1, <3>2, <3>3
  <2>5. QED
    BY <2>2, <2>3, <2>4 DEF OnePerDaemon
<1>11. Pending(d) /\ d \in Range(instances)
  BY DEF Pending, DaemonInv, AnswersInv
<1>12. QED
  BY <1>3, <1>4, <1>5, <1>6, <1>7, <1>8, <1>10, <1>11, Zenon DEF FirstAnswer

(* While a daemon has not answered, nothing has been delivered without a      *)
(* winner.                                                                    *)
LEMMA NotYetDelivered ==
    ASSUME DaemonInv, NEW d \in Daemons, Pending(d), ~responded
    PROVE  delivered = <<>>
BY DEF DaemonInv, DeliveryInv

LEMMA OneDelivery ==
    ASSUME NEW q \in Seq(Result), NEW p, p = Append(<<>>, q)
    PROVE  p \in Seq(Seq(Result)) /\ Len(p) = 1 /\ p[1] = q
OBVIOUS

LEMMA StreamWon ==
    ASSUME DaemonInv, NEW d \in Daemons, NEW r, FirstAnswer(d, r), WinsStream(r),
           responded' = TRUE, delivered' = Append(delivered, <<r>>),
           UNCHANGED <<completed, instances, online, purpose, calls>>
    PROVE  DaemonInv'
<1>1. purpose = "streaming" /\ ~responded /\ ~r.error
  BY DEF WinsStream
<1>2. delivered = <<>>
  BY <1>1, NotYetDelivered DEF FirstAnswer
<1>3. r \in Result /\ <<r>> \in Seq(Result) /\ <<r>>[1] = r
  BY DEF FirstAnswer
<1>4. delivered' \in Seq(Seq(Result)) /\ Len(delivered') = 1 /\ delivered'[1] = <<r>>
  BY <1>2, <1>3, OneDelivery
<1>5. DaemonTypes'
  BY <1>4, Zenon DEF DaemonInv, DaemonTypes, FirstAnswer
<1>6. AnswersInv'
  BY Zenon DEF DaemonInv, AnswersInv, FirstAnswer
<1>7. d \in Answering' /\ d \notin completed
  <2>1. completed = Answering
    BY <1>1 DEF DaemonInv, CompletionInv
  <2>2. QED
    BY <2>1 DEF FirstAnswer, Pending, Answering
<1>8. CompletionInv'
  <2>1. answered'[d] /\ d \in Range(instances')
    BY <1>7 DEF Answering, FirstAnswer
  <2>2. ~delivered'[1][1].error
    BY <1>1, <1>3, <1>4
  <2>3. QED
    BY <1>1, <1>4, <1>7, <2>1, <2>2, Zenon DEF CompletionInv
<1>9. DeliveryInv'
  BY DEF DeliveryInv
<1>10. OnlineInv'
  BY <1>1 DEF OnlineInv, CountsOnlineDaemons
<1>11. QED
  BY <1>5, <1>6, <1>8, <1>9, <1>10 DEF DaemonInv

(* An answer that completes and is not the last to do so.                     *)
LEMMA NotLast ==
    ASSUME DaemonInv, NEW d \in Daemons, NEW r, FirstAnswer(d, r), ~WinsStream(r),
           completed' = completed \cup {d},
           UNCHANGED <<responded, delivered, instances, online, purpose, calls>>
    PROVE  DaemonInv'
<1>1. responded \in BOOLEAN
  BY DEF DaemonInv, DaemonTypes
<1>2. ~responded => delivered = <<>>
  BY NotYetDelivered DEF FirstAnswer
<1>3. DaemonTypes'
  <2>1. completed' \subseteq Daemons
    BY DEF DaemonInv, DaemonTypes
  <2>2. QED
    BY <2>1, Zenon DEF DaemonInv, DaemonTypes, FirstAnswer
<1>4. AnswersInv'
  BY Zenon DEF DaemonInv, AnswersInv, FirstAnswer
<1>5. CompletionInv'
  <2>1. CASE responded
    <3>1. PICK w \in Range(instances) : answered[w] /\ w \notin completed
      BY <2>1 DEF DaemonInv, CompletionInv
    <3>2. w \in Daemons /\ w # d
      BY <3>1 DEF FirstAnswer, Pending, DaemonInv, DaemonTypes, Range
    <3>3. w \in Answering'
      BY <3>1, <3>2 DEF FirstAnswer, Answering
    <3>4. answered'[w] /\ w \notin completed'
      BY <3>1, <3>2, <3>3 DEF Answering
    <3>5. QED
      BY <2>1, <3>4, Zenon DEF DaemonInv, CompletionInv
  <2>2. CASE ~responded
    BY <2>2 DEF DaemonInv, CompletionInv, FirstAnswer
  <2>3. QED
    BY <2>1, <2>2
<1>6. DeliveryInv'
  <2>1. ~responded /\ purpose = "streaming" => \A k \in DOMAIN results' : results'[k].error
    <3> SUFFICES ASSUME ~responded, purpose = "streaming", NEW k \in DOMAIN results'
                 PROVE  results'[k].error
      OBVIOUS
    <3>1. r.error
      BY DEF WinsStream
    <3>2. QED
      BY <3>1 DEF FirstAnswer, DaemonInv, DeliveryInv
  <2>2. QED
    BY <1>2, <2>1 DEF DeliveryInv
<1>7. OnlineInv'
  <2>1. purpose = "online" => ~responded
    BY <1>1 DEF DaemonInv, CompletionInv
  <2>2. purpose # "none"
    BY DEF FirstAnswer, DaemonInv, OnlineInv
  <2>3. purpose = "online" =>
          /\ \A k \in DOMAIN results' : results'[k].error <=> results'[k].from \notin online
          /\ \A x \in Daemons : Pending(x)' => (Head(events'[x]) <=> x \notin online)
    BY DEF FirstAnswer, DaemonInv, OnlineInv
  <2>4. CountsOnlineDaemons'
    BY <1>2, <2>1 DEF CountsOnlineDaemons
  <2>5. QED
    BY <2>2, <2>3, <2>4 DEF DaemonInv, OnlineInv
<1>8. QED
  BY <1>3, <1>4, <1>5, <1>6, <1>7 DEF DaemonInv

(* The last answer to complete: every instance has answered, and the callback *)
(* gets the results, or the first of them if a stream has no winner.          *)
LEMMA LastCompletes ==
    ASSUME DaemonInv, NEW d \in Daemons, NEW r, FirstAnswer(d, r), ~WinsStream(r),
           completed \cup {d} = Range(instances), completed' = Range(instances),
           NEW q, q = results' \/ q = <<Head(results')>>, delivered' = Append(delivered, q),
           instances' = IF purpose = "online"
                          THEN FilterOnline(instances, results') ELSE instances,
           UNCHANGED <<responded, online, purpose, calls>>
    PROVE  DaemonInv'
<1>0. /\ responded \in BOOLEAN /\ instances \in Seq(Daemons) /\ IsInjective(instances)
      /\ completed \subseteq Daemons /\ online \subseteq Daemons
  BY DEF DaemonInv, DaemonTypes
<1>1. ~responded
  <2> SUFFICES ASSUME responded PROVE FALSE
    BY <1>0
  <2>1. PICK w \in Range(instances) : answered[w] /\ w \notin completed
    BY DEF DaemonInv, CompletionInv
  <2>2. w # d
    BY <2>1 DEF FirstAnswer, Pending
  <2>3. QED
    BY <2>1, <2>2
<1>2. delivered = <<>>
  BY <1>1, NotYetDelivered DEF FirstAnswer
<1>3. Answering' = Range(instances)
  BY <1>1 DEF DaemonInv, CompletionInv, FirstAnswer
<1>4. q \in Seq(Result)
  <2>1. results' \in Seq(Result) /\ results' # <<>>
    BY DEF FirstAnswer
  <2>2. Head(results') \in Result
    BY <2>1
  <2>3. <<Head(results')>> \in Seq(Result)
    BY <2>2
  <2>4. QED
    BY <2>1, <2>3
<1>5. delivered' \in Seq(Seq(Result)) /\ Len(delivered') = 1
  BY <1>2, <1>4, OneDelivery
<1>6. delivered' # <<>>
  <2>1. Len(<<>>) = 0
    OBVIOUS
  <2>2. QED
    BY <1>5, <2>1
<1>7. \A x \in Daemons : ~Pending(x)'
  <2> SUFFICES ASSUME NEW x \in Daemons, Pending(x)' PROVE FALSE
    OBVIOUS
  <2>1. Pending(x) /\ x \in Range(instances)
    BY DEF FirstAnswer, DaemonInv, AnswersInv
  <2>2. answered'[x]
    BY <1>3, <2>1 DEF Answering
  <2>3. QED
    BY <2>2 DEF Pending
<1>8. instances' \in Seq(Daemons) /\ IsInjective(instances')
  BY <1>0, FilterKeeps
<1>9. DaemonTypes'
  <2>1. Range(instances) \subseteq Daemons
    BY <1>0 DEF Range
  <2>2. QED
    BY <1>5, <1>8, <2>1, Zenon DEF DaemonInv, DaemonTypes, FirstAnswer
<1>10. AnswersInv'
  BY <1>7, Zenon DEF AnswersInv, FirstAnswer
<1>11. CompletionInv'
  BY <1>1, <1>3, Zenon DEF CompletionInv
<1>12. DeliveryInv'
  <2>1. purpose = "streaming" => \A k \in DOMAIN results' : results'[k].error
    <3> SUFFICES ASSUME purpose = "streaming", NEW k \in DOMAIN results'
                 PROVE  results'[k].error
      OBVIOUS
    <3>1. r.error
      BY <1>1 DEF WinsStream
    <3>2. QED
      BY <1>1, <3>1 DEF FirstAnswer, DaemonInv, DeliveryInv
  <2>2. Len(results') = Len(instances)
    <3>1. Cardinality(Answering') = Len(results')
      BY ResultsCount DEF FirstAnswer
    <3>2. Cardinality(Range(instances)) = Len(instances)
      BY <1>0, InstancesCount
    <3>3. QED
      BY <1>3, <3>1, <3>2
  <2>3. QED
    BY <1>5, <1>7, <2>1, <2>2 DEF DeliveryInv
<1>13. OnlineInv'
  <2>1. purpose # "none"
    BY DEF FirstAnswer, DaemonInv, OnlineInv
  <2>2. ASSUME purpose = "online"
        PROVE  \A k \in DOMAIN results' : results'[k].error <=> results'[k].from \notin online
    BY <2>2 DEF FirstAnswer, DaemonInv, OnlineInv
  <2>3. ASSUME purpose = "online"
        PROVE  Len(instances') = Cardinality(online)
    <3>1. Len(instances) = N /\ Range(instances) = Daemons
      BY <1>2, <2>3 DEF DaemonInv, OnlineInv
    <3>2. DOMAIN instances = 1..N
      BY <1>0, <3>1
    <3>3. results' \in Seq(Result) /\ OnePerDaemon(results', Daemons)
      BY <1>3, <3>1 DEF FirstAnswer
    <3> DEFINE kept == {i \in 1..N : ~results'[i].error}
    <3>4. Cardinality(kept) = Cardinality(online)
      BY <1>0, <2>2, <2>3, <3>3, OnlineCount
    <3>5. kept = {i \in DOMAIN instances : ~results'[i].error}
      BY <3>2
    <3> HIDE DEF kept
    <3>6. Len(FilterOnline(instances, results')) = Cardinality(kept)
      BY <1>0, <3>5, FilterKeeps
    <3>7. QED
      BY <2>3, <3>4, <3>6
  <2>4. CountsOnlineDaemons'
    BY <2>3 DEF CountsOnlineDaemons
  <2>5. QED
    BY <1>6, <1>7, <2>1, <2>2, <2>4 DEF OnlineInv
<1>14. QED
  BY <1>9, <1>10, <1>11, <1>12, <1>13 DEF DaemonInv

LEMMA DaemonInvNext == DaemonInv /\ [DaemonNext]_daemonVars => DaemonInv'
<1> SUFFICES ASSUME DaemonInv, [DaemonNext]_daemonVars PROVE DaemonInv'
    OBVIOUS
<1>0. calls \in 0..MaxCalls
  BY DEF DaemonInv, DaemonTypes
<1>1. CASE CheckOnline
  <2>1. calls' \in 0..MaxCalls
    BY <1>0, <1>1 DEF CheckOnline
  <2>2. QED
    BY <1>1, <2>1, CallStarts DEF CheckOnline
<1>2. ASSUME NEW why \in {"all", "streaming"}, Call(why)
      PROVE  DaemonInv'
  <2>1. calls' \in 0..MaxCalls
    BY <1>0, <1>2, CallsAssumption DEF Call
  <2>2. QED
    BY <1>2, <2>1, CallStarts DEF Call
<1>3. ASSUME NEW d \in Daemons, RequestEvent(d)
      PROVE  DaemonInv'
  <2>1. CASE answered[d]
    BY <1>3, <2>1, LaterCallback DEF RequestEvent, FirstCallback
  <2>2. CASE ~answered[d]
    <3> DEFINE r == [from |-> d, error |-> Head(events[d])]
    <3>1. HandleResult(r)
      BY <1>3, <2>2, Zenon DEF RequestEvent, FirstCallback
    <3>2. FirstAnswer(d, r)
      BY <1>3, <2>2, <3>1, FirstAnswerFacts, Zenon DEF RequestEvent, HandleResult
    <3>3. UNCHANGED <<online, purpose, calls>> /\ r.from = d
      BY <1>3 DEF RequestEvent
    <3> HIDE DEF r
    <3>4. CASE WinsStream(r)
      BY <3>1, <3>2, <3>3, <3>4, StreamWon, Zenon DEF HandleResult
    <3>5. CASE ~WinsStream(r) /\ completed \cup {d} # Range(instances)
      <4>1. /\ completed' = completed \cup {d}
            /\ UNCHANGED <<responded, delivered, instances>>
        BY <3>1, <3>3, <3>5 DEF HandleResult, Completed
      <4>2. QED
        BY <3>2, <3>3, <3>5, <4>1, NotLast
    <3>6. CASE ~WinsStream(r) /\ completed \cup {d} = Range(instances)
      <4>1. /\ completed' = Range(instances) /\ UNCHANGED responded
            /\ instances' = IF purpose = "online"
                              THEN FilterOnline(instances, results') ELSE instances
            /\ \E q : /\ q = results' \/ q = <<Head(results')>>
                      /\ delivered' = Append(delivered, q)
        BY <3>1, <3>3, <3>6 DEF HandleResult, Completed
      <4>2. QED
        BY <3>2, <3>3, <3>6, <4>1, LastCompletes
    <3>7. QED
      BY <3>4, <3>5, <3>6
  <2>3. QED
    BY <2>1, <2>2
<1>4. CASE UNCHANGED daemonVars
  BY <1>4, Zenon DEF daemonVars, callVars, DaemonInv, DaemonTypes, AnswersInv, CompletionInv,
     DeliveryInv, OnlineInv, CountsOnlineDaemons, Answering, Pending
<1>5. QED
  BY <1>1, <1>2, <1>3, <1>4 DEF DaemonNext

-----------------------------------------------------------------------------
(* The job manager.                                                           *)

(* What a handler's request can be: its answer fits the chain it asks, the    *)
(* update flag is carried from the auxiliary template to the primary one, and *)
(* a failure has been counted.                                                *)
AuxSteps  == {"checkAux", "auxTemplate"}
FlagSteps == {"checkPrimary", "template"}

HandlerOK(c, e) ==
    /\ c \in Chain
    /\ c.reply \in {Waiting, Failed} \cup (IF c.step \in AuxSteps THEN 1..MaxAux ELSE Blocks)
    /\ c.auxUpdate => c.step \in FlagSteps
    /\ c.reply = Failed => e # 0

JobsInv == TypeOK /\ \A h \in Handlers : HandlerOK(chain[h], errors)

LEMMA BlocksAreNumbers == Blocks = 1..Len(Height) /\ Len(Height) \in Nat \ {0}
BY HeightAssumption DEF Blocks

LEMMA NewRequest ==
    ASSUME NEW s \in {"checkAux", "auxTemplate", "checkPrimary", "template", "dropped"},
           NEW u \in BOOLEAN, u => s \in FlagSteps, NEW e
    PROVE  /\ HandlerOK(Ask(s, u), e) /\ Ask(s, u).auxUpdate = u
           /\ Ask(s, u).reply = Waiting /\ Ask(s, u).step = s
<1> DEFINE c == Ask(s, u)
<1>1. c.step = s /\ c.auxUpdate = u /\ c.reply = Waiting /\ c \in Chain
  BY DEF Ask, Chain, Waiting
<1> HIDE DEF c
<1>2. HandlerOK(c, e)
  BY <1>1 DEF HandlerOK, Waiting, Failed
<1>3. QED
  BY <1>1, <1>2 DEF c

LEMMA IdleOK == ~Idle.auxUpdate /\ \A e : HandlerOK(Idle, e)
<1>1. Idle \in Chain /\ Idle.step = "idle" /\ Idle.auxUpdate = FALSE /\ Idle.reply = Waiting
  BY DEF Idle, Chain, Waiting
<1>2. QED
  BY <1>1 DEF HandlerOK, Waiting, Failed

LEMMA JobsInit == Init => JobsInv
<1> SUFFICES ASSUME Init PROVE JobsInv
    OBVIOUS
<1>1. mode.aux \in BOOLEAN
  BY ModesAssumption DEF Init
<1>2. auxData \in 0..MaxAux /\ 1 \in 1..MaxAux
  BY BoundsAssumption DEF Init
<1>3. 1 \in Blocks
  BY BlocksAreNumbers
<1>4. currentJob \in Job
  BY <1>2, <1>3 DEF Init, Job
<1>5. \A h \in Handlers : HandlerOK(chain[h], errors)
  BY IdleOK DEF Init
<1>6. chain \in [Handlers -> Chain]
  BY IdleOK DEF Init, HandlerOK
<1>7. QED
  BY <1>2, <1>3, <1>4, <1>5, <1>6, BoundsAssumption DEF Init, JobsInv, TypeOK

(* One request is replaced and no failure is forgotten.                       *)
LEMMA RequestReplaced ==
    ASSUME JobsInv, NEW g \in Handlers, NEW c, HandlerOK(c, errors'),
           chain' = [chain EXCEPT ![g] = c], errors = 0 \/ errors' # 0
    PROVE  /\ chain' \in [Handlers -> Chain] /\ \A h \in Handlers : HandlerOK(chain'[h], errors')
<1>1. c \in Chain /\ chain \in [Handlers -> Chain]
  BY DEF HandlerOK, JobsInv, TypeOK
<1>2. ASSUME NEW h \in Handlers PROVE HandlerOK(chain'[h], errors')
  <2>1. CASE h = g
    BY <1>1, <2>1
  <2>2. CASE h # g
    <3>1. chain'[h] = chain[h]
      BY <1>1, <2>2
    <3>2. HandlerOK(chain[h], errors)
      BY DEF JobsInv
    <3>3. QED
      BY <3>1, <3>2 DEF HandlerOK
  <2>3. QED
    BY <2>1, <2>2
<1>3. QED
  BY <1>1, <1>2

(* A job that is installed is built from the auxiliary data at hand.          *)
LEMMA JobInstalled ==
    ASSUME JobsInv, NEW b \in Blocks, NEW kept \in SUBSET Job, InstallJob(b, kept)
    PROVE  /\ currentJob' \in Job /\ validJobs' \subseteq Job /\ timer' \in BOOLEAN
           /\ currentJob'.aux = auxData
<1>1. auxData \in 0..MaxAux
  BY DEF JobsInv, TypeOK
<1>2. QED
  BY <1>1 DEF InstallJob, Job

LEMMA JobsNext == JobsInv /\ [Next]_vars => JobsInv'
<1> SUFFICES ASSUME JobsInv, [Next]_vars PROVE JobsInv'
    OBVIOUS
<1>0. /\ tip \in Blocks /\ auxTip \in 1..MaxAux /\ errors \in 0..MaxErrors
      /\ seen \in {0} \cup Blocks /\ auxData \in 0..MaxAux
      /\ currentJob \in Job /\ validJobs \subseteq Job /\ timer \in BOOLEAN
      /\ chain \in [Handlers -> Chain] /\ mode \in Modes
  BY DEF JobsInv, TypeOK
<1>1. CASE NewPrimaryBlock
  <2>1. tip' \in Blocks
    BY <1>1 DEF NewPrimaryBlock
  <2>2. /\ chain' \in [Handlers -> Chain]
        /\ \A h \in Handlers : HandlerOK(chain'[h], errors')
    <3>1. HandlerOK(Ask("template", FALSE), errors')
      BY NewRequest
    <3>2. ASSUME NEW h \in {"zmq1", "zmq2"},
                 chain' = [chain EXCEPT ![h] = Ask("template", FALSE)]
          PROVE  /\ chain' \in [Handlers -> Chain]
                 /\ \A g \in Handlers : HandlerOK(chain'[g], errors')
      BY <1>1, <3>1, <3>2, RequestReplaced DEF NewPrimaryBlock, Handlers
    <3>3. CASE UNCHANGED chain
      BY <1>0, <1>1, <3>3 DEF NewPrimaryBlock, JobsInv
    <3>4. QED
      BY <1>1, <3>2, <3>3 DEF NewPrimaryBlock
  <2>3. QED
    BY <1>0, <1>1, <2>1, <2>2 DEF NewPrimaryBlock, JobsInv, TypeOK
<1>2. CASE NewAuxiliaryBlock
  <2>1. auxTip' \in 1..MaxAux
    BY <1>0, <1>2, BoundsAssumption DEF NewAuxiliaryBlock
  <2>2. /\ chain' \in [Handlers -> Chain]
        /\ \A h \in Handlers : HandlerOK(chain'[h], errors')
    <3>1. HandlerOK(Ask("auxTemplate", FALSE), errors')
      BY NewRequest
    <3>2. CASE chain' = [chain EXCEPT !["auxZmq"] = Ask("auxTemplate", FALSE)]
      BY <1>2, <3>1, <3>2, RequestReplaced DEF NewAuxiliaryBlock, Handlers
    <3>3. CASE UNCHANGED chain
      BY <1>0, <1>2, <3>3 DEF NewAuxiliaryBlock, JobsInv
    <3>4. QED
      BY <1>2, <3>2, <3>3 DEF NewAuxiliaryBlock
  <2>3. QED
    BY <1>0, <1>2, <2>1, <2>2 DEF NewAuxiliaryBlock, JobsInv, TypeOK
<1>3. ASSUME NEW h \in Handlers, DaemonAnswers(h)
      PROVE  JobsInv'
  <2>1. errors' \in 0..MaxErrors /\ (errors = 0 \/ errors' # 0)
    BY <1>0, <1>3, BoundsAssumption DEF DaemonAnswers
  <2>2. HandlerOK(chain[h], errors)
    BY DEF JobsInv
  <2>3. PICK r \in Int :
          /\ chain' = [chain EXCEPT ![h].reply = r]
          /\ \/ r = (IF chain[h].step \in AuxSteps THEN auxTip ELSE tip)
             \/ r = Failed /\ errors' # 0
    <3>1. tip \in Int /\ auxTip \in Int /\ Failed \in Int
      BY <1>0, BlocksAreNumbers DEF Failed
    <3>2. errors < MaxErrors /\ errors' = errors + 1 => errors' # 0
      BY <1>0
    <3>3. QED
      BY <1>3, <3>1, <3>2 DEF DaemonAnswers, AuxSteps
  <2> DEFINE c == [chain[h] EXCEPT !.reply = r]
  <2>4. chain' = [chain EXCEPT ![h] = c]
    BY <1>0, <2>3
  <2>5. c \in Chain /\ c.reply = r /\ c.step = chain[h].step /\ c.auxUpdate = chain[h].auxUpdate
    BY <1>0 DEF Chain
  <2> HIDE DEF c
  <2>6. HandlerOK(c, errors')
    BY <1>0, <2>2, <2>3, <2>5, BlocksAreNumbers DEF HandlerOK, Failed
  <2>7. /\ chain' \in [Handlers -> Chain]
        /\ \A g \in Handlers : HandlerOK(chain'[g], errors')
    BY <2>1, <2>4, <2>6, RequestReplaced
  <2>8. QED
    BY <1>0, <1>3, <2>1, <2>7 DEF DaemonAnswers, JobsInv, TypeOK
<1>4. ASSUME NEW h \in Handlers, NEW c, HandlerOK(c, errors'), Continue(h, c),
             UNCHANGED <<mode, tip, auxTip, errors>>,
             seen' \in {0} \cup Blocks, auxData' \in 0..MaxAux, currentJob' \in Job,
             validJobs' \subseteq Job, timer' \in BOOLEAN
      PROVE  JobsInv'
  <2>1. /\ chain' \in [Handlers -> Chain]
        /\ \A g \in Handlers : HandlerOK(chain'[g], errors')
    BY <1>4, RequestReplaced DEF Continue
  <2>2. QED
    BY <1>0, <1>4, <2>1 DEF JobsInv, TypeOK
<1>5. CASE PollTick
  <2> DEFINE s == IF PollsAuxiliary THEN "checkAux" ELSE "checkPrimary"
  <2>1. s \in {"checkAux", "auxTemplate", "checkPrimary", "template", "dropped"}
    OBVIOUS
  <2> HIDE DEF s
  <2>2. HandlerOK(Ask(s, FALSE), errors')
    BY <2>1, NewRequest
  <2>3. Continue("poll", Ask(s, FALSE)) /\ "poll" \in Handlers
    BY <1>5 DEF PollTick, s, Handlers
  <2>4. QED
    BY <1>0, <1>4, <1>5, <2>2, <2>3 DEF PollTick
<1>6. CASE CheckAuxiliaryDone
  <2> DEFINE s == IF Ok("poll") THEN "auxTemplate" ELSE "dropped"
  <2>1. s \in {"checkAux", "auxTemplate", "checkPrimary", "template", "dropped"}
    OBVIOUS
  <2> HIDE DEF s
  <2>2. HandlerOK(Ask(s, FALSE), errors')
    BY <2>1, NewRequest
  <2>3. Continue("poll", Ask(s, FALSE)) /\ "poll" \in Handlers
    BY <1>6 DEF CheckAuxiliaryDone, s, Handlers
  <2>4. QED
    BY <1>0, <1>4, <1>6, <2>2, <2>3 DEF CheckAuxiliaryDone
<1>7. CASE CheckPrimaryDone
  <2>1. HandlerOK(chain["poll"], errors) /\ "poll" \in Handlers
    BY DEF JobsInv, Handlers
  <2>2. seen' \in {0} \cup Blocks
    BY <1>0, <1>7, <2>1 DEF CheckPrimaryDone, HandlerOK, Answered, Ok, AuxSteps
  <2>3. chain["poll"].auxUpdate \in BOOLEAN
    BY <2>1 DEF HandlerOK, Chain
  <2>4. HandlerOK(Ask("template", chain["poll"].auxUpdate), errors')
    BY <2>3, NewRequest DEF FlagSteps
  <2>5. CASE Ok("poll") /\ PrimaryUpdate("poll")
    <3>1. Continue("poll", Ask("template", chain["poll"].auxUpdate))
      BY <1>7, <2>5 DEF CheckPrimaryDone
    <3>2. QED
      BY <1>0, <1>4, <1>7, <2>1, <2>2, <2>4, <3>1 DEF CheckPrimaryDone
  <2>6. CASE ~(Ok("poll") /\ PrimaryUpdate("poll"))
    <3>1. Continue("poll", Idle)
      BY <1>7, <2>6 DEF CheckPrimaryDone
    <3>2. QED
      BY <1>0, <1>4, <1>7, <2>1, <2>2, <3>1, IdleOK DEF CheckPrimaryDone
  <2>7. QED
    BY <2>5, <2>6
<1>8. CASE RebroadcastTimeout
  <2>1. HandlerOK(Ask("template", FALSE), errors') /\ "timeout" \in Handlers
    BY NewRequest DEF Handlers
  <2>2. QED
    BY <1>0, <1>4, <1>8, <2>1 DEF RebroadcastTimeout
<1>9. ASSUME NEW h \in Handlers, AuxiliaryTemplateDone(h)
      PROVE  JobsInv'
  <2>1. HandlerOK(chain[h], errors)
    BY DEF JobsInv
  <2>2. auxData' \in 0..MaxAux
    BY <1>0, <1>9, <2>1 DEF AuxiliaryTemplateDone, HandlerOK, Answered, Ok, AuxSteps
  <2> DEFINE s == IF h = "poll" THEN "checkPrimary" ELSE "template"
             u == auxData' # auxData
  <2>3. /\ s \in {"checkAux", "auxTemplate", "checkPrimary", "template", "dropped"}
        /\ s \in FlagSteps
    BY DEF FlagSteps
  <2>4. u \in BOOLEAN
    OBVIOUS
  <2>5. Continue(h, Ask(s, u))
    BY <1>9, Zenon DEF AuxiliaryTemplateDone
  <2> HIDE DEF s, u
  <2>6. HandlerOK(Ask(s, u), errors')
    BY <2>3, <2>4, NewRequest
  <2>7. QED
    BY <1>0, <1>4, <1>9, <2>2, <2>5, <2>6 DEF AuxiliaryTemplateDone
<1>10. ASSUME NEW h \in Handlers, TemplateDone(h)
       PROVE  JobsInv'
  <2>1. HandlerOK(chain[h], errors) /\ Answered(h, "template")
    BY <1>10 DEF JobsInv, TemplateDone
  <2>2. Ok(h) => chain[h].reply \in Blocks
    BY <2>1 DEF HandlerOK, Answered, Ok, AuxSteps
  <2>3. currentJob' \in Job /\ validJobs' \subseteq Job /\ timer' \in BOOLEAN
    <3>1. \/ UNCHANGED <<currentJob, validJobs, timer>>
          \/ Ok(h) /\ \E kept \in SUBSET Job : InstallJob(chain[h].reply, kept)
      BY <1>0, <1>10 DEF TemplateDone, HandleTemplate, HandleUpdates
    <3>2. QED
      BY <1>0, <2>2, <3>1, JobInstalled
  <2>4. QED
    BY <1>0, <1>4, <1>10, <2>3, IdleOK DEF TemplateDone
<1>11. CASE UNCHANGED vars
  BY <1>11 DEF vars, JobsInv, TypeOK
<1>12. QED
  BY <1>1, <1>2, <1>3, <1>5, <1>6, <1>7, <1>8, <1>9, <1>10, <1>11 DEF Next, Callbacks

(* A request takes the place of one whose update flag it keeps.               *)
LEMMA FlagKept ==
    ASSUME JobsInv, AuxUpdateReachesJob, errors = 0, NEW g \in Handlers, NEW c,
           chain' = [chain EXCEPT ![g] = c], chain[g].auxUpdate => c.auxUpdate,
           UNCHANGED <<auxData, currentJob>>
    PROVE  AuxUpdateReachesJob'
<1>1. chain \in [Handlers -> Chain]
  BY DEF JobsInv, TypeOK
<1>2. CASE currentJob.aux = auxData
  BY <1>2 DEF AuxUpdateReachesJob
<1>3. ASSUME NEW h \in Handlers, chain[h].auxUpdate
      PROVE  AuxUpdateReachesJob'
  <2>1. chain'[h].auxUpdate
    BY <1>1, <1>3
  <2>2. QED
    BY <2>1 DEF AuxUpdateReachesJob
<1>4. QED
  BY <1>2, <1>3 DEF AuxUpdateReachesJob

LEMMA AuxUpdateNext ==
    ASSUME JobsInv, AuxUpdateReachesJob, [Next]_vars
    PROVE  AuxUpdateReachesJob'
<1> SUFFICES ASSUME errors' = 0 PROVE AuxUpdateReachesJob'
    BY DEF AuxUpdateReachesJob
<1>0. /\ chain \in [Handlers -> Chain] /\ errors \in 0..MaxErrors
      /\ \A h \in Handlers : HandlerOK(chain[h], errors) /\ chain[h].auxUpdate \in BOOLEAN
  BY DEF JobsInv, TypeOK, HandlerOK, Chain
<1>1. ASSUME errors = 0, UNCHANGED <<auxData, currentJob, chain>>
      PROVE  AuxUpdateReachesJob'
  BY <1>1 DEF AuxUpdateReachesJob
<1>2. CASE NewPrimaryBlock
  <2>1. errors = 0 /\ UNCHANGED <<auxData, currentJob>>
    BY <1>2 DEF NewPrimaryBlock
  <2>2. ASSUME NEW h \in {"zmq1", "zmq2"}, chain[h] = Idle,
               chain' = [chain EXCEPT ![h] = Ask("template", FALSE)]
        PROVE  AuxUpdateReachesJob'
    BY <2>1, <2>2, FlagKept, IdleOK DEF Handlers
  <2>3. QED
    BY <1>1, <1>2, <2>1, <2>2 DEF NewPrimaryBlock
<1>3. CASE NewAuxiliaryBlock
  <2>1. errors = 0 /\ UNCHANGED <<auxData, currentJob>>
    BY <1>3 DEF NewAuxiliaryBlock
  <2>2. ASSUME chain["auxZmq"] = Idle,
               chain' = [chain EXCEPT !["auxZmq"] = Ask("auxTemplate", FALSE)]
        PROVE  AuxUpdateReachesJob'
    BY <2>1, <2>2, FlagKept, IdleOK DEF Handlers
  <2>3. QED
    BY <1>1, <1>3, <2>1, <2>2 DEF NewAuxiliaryBlock
<1>4. ASSUME NEW h \in Handlers, DaemonAnswers(h)
      PROVE  AuxUpdateReachesJob'
  <2>1. errors = 0 /\ UNCHANGED <<auxData, currentJob>>
    BY <1>0, <1>4 DEF DaemonAnswers
  <2>2. PICK r : chain' = [chain EXCEPT ![h].reply = r]
    BY <1>4 DEF DaemonAnswers
  <2> DEFINE c == [chain[h] EXCEPT !.reply = r]
  <2>3. chain' = [chain EXCEPT ![h] = c] /\ c.auxUpdate = chain[h].auxUpdate
    BY <1>0, <2>2 DEF Chain
  <2> HIDE DEF c
  <2>4. QED
    BY <2>1, <2>3, FlagKept
<1>5. CASE PollTick
  <2>1. /\ errors = 0 /\ UNCHANGED <<auxData, currentJob>>
        /\ "poll" \in Handlers /\ chain["poll"] = Idle
        /\ \E c : chain' = [chain EXCEPT !["poll"] = c]
    BY <1>5 DEF PollTick, Continue, Handlers
  <2>2. QED
    BY <2>1, FlagKept, IdleOK
<1>6. CASE CheckAuxiliaryDone
  <2>1. /\ errors = 0 /\ UNCHANGED <<auxData, currentJob>>
        /\ "poll" \in Handlers /\ chain["poll"].step = "checkAux"
        /\ \E c : chain' = [chain EXCEPT !["poll"] = c]
    BY <1>6 DEF CheckAuxiliaryDone, Continue, Handlers, Answered
  <2>2. ~chain["poll"].auxUpdate
    BY <1>0, <2>1 DEF HandlerOK, FlagSteps
  <2>3. QED
    BY <2>1, <2>2, FlagKept
<1>7. CASE CheckPrimaryDone
  <2>1. errors = 0 /\ UNCHANGED <<auxData, currentJob>> /\ "poll" \in Handlers
    BY <1>7 DEF CheckPrimaryDone, Handlers
  <2>2. Ok("poll")
    BY <1>0, <2>1 DEF HandlerOK, Ok
  <2>3. CASE chain["poll"].auxUpdate
    <3>1. chain' = [chain EXCEPT !["poll"] = Ask("template", chain["poll"].auxUpdate)]
      BY <1>7, <2>2, <2>3 DEF CheckPrimaryDone, Continue, PrimaryUpdate
    <3>2. Ask("template", chain["poll"].auxUpdate).auxUpdate
      BY <2>3 DEF Ask
    <3>3. QED
      BY <2>1, <3>1, <3>2, FlagKept
  <2>4. CASE ~chain["poll"].auxUpdate
    <3>1. \E c : chain' = [chain EXCEPT !["poll"] = c]
      BY <1>7 DEF CheckPrimaryDone, Continue
    <3>2. QED
      BY <2>1, <2>4, <3>1, FlagKept
  <2>5. QED
    BY <2>3, <2>4
<1>8. CASE RebroadcastTimeout
  <2>1. /\ errors = 0 /\ UNCHANGED <<auxData, currentJob>>
        /\ "timeout" \in Handlers /\ chain["timeout"] = Idle
        /\ \E c : chain' = [chain EXCEPT !["timeout"] = c]
    BY <1>8 DEF RebroadcastTimeout, Continue, Handlers
  <2>2. QED
    BY <2>1, FlagKept, IdleOK
<1>9. ASSUME NEW h \in Handlers, AuxiliaryTemplateDone(h)
      PROVE  AuxUpdateReachesJob'
  <2>1. errors = 0 /\ UNCHANGED currentJob /\ chain[h].step = "auxTemplate"
    BY <1>9 DEF AuxiliaryTemplateDone, Answered
  <2>2. ~chain[h].auxUpdate
    BY <1>0, <2>1 DEF HandlerOK, FlagSteps
  <2>3. CASE auxData' = auxData
    <3>1. \E c : chain' = [chain EXCEPT ![h] = c]
      BY <1>9 DEF AuxiliaryTemplateDone, Continue
    <3>2. QED
      BY <2>1, <2>2, <2>3, <3>1, FlagKept
  <2>4. CASE auxData' # auxData
    <3> DEFINE s == IF h = "poll" THEN "checkPrimary" ELSE "template"
    <3>1. chain' = [chain EXCEPT ![h] = Ask(s, auxData' # auxData)]
      BY <1>9, Zenon DEF AuxiliaryTemplateDone, Continue
    <3>2. Ask(s, auxData' # auxData).auxUpdate
      BY <2>4 DEF Ask
    <3> HIDE DEF s
    <3>3. chain'[h].auxUpdate
      BY <1>0, <3>1, <3>2
    <3>4. QED
      BY <3>3 DEF AuxUpdateReachesJob
  <2>5. QED
    BY <2>3, <2>4
<1>10. ASSUME NEW h \in Handlers, TemplateDone(h)
       PROVE  AuxUpdateReachesJob'
  <2>1. errors = 0 /\ UNCHANGED auxData /\ chain' = [chain EXCEPT ![h] = Idle]
    BY <1>10 DEF TemplateDone, Continue
  <2>2. Ok(h)
    BY <1>0, <2>1 DEF HandlerOK, Ok
  <2>3. CASE \E b, kept : InstallJob(b, kept)
    <3>1. currentJob'.aux = auxData
      BY <2>3 DEF InstallJob
    <3>2. QED
      BY <2>1, <3>1 DEF AuxUpdateReachesJob
  <2>4. CASE ~ \E b, kept : InstallJob(b, kept)
    <3>1. ~MakesJob(chain[h].reply, chain[h].auxUpdate) /\ UNCHANGED currentJob
      BY <1>10, <2>2, <2>4 DEF TemplateDone, HandleTemplate, HandleUpdates
    <3>2. ~chain[h].auxUpdate
      BY <3>1 DEF MakesJob
    <3>3. QED
      BY <2>1, <3>1, <3>2, FlagKept
  <2>5. QED
    BY <2>3, <2>4
<1>11. CASE UNCHANGED vars
  BY <1>1, <1>11 DEF vars
<1>12. QED
  BY <1>2, <1>3, <1>4, <1>5, <1>6, <1>7, <1>8, <1>9, <1>10, <1>11 DEF Next, Callbacks

(* Every change of the auxiliary data reaches the current job or is still     *)
(* carried there by the chain of requests that fetched it, however the        *)
(* handlers of the configuration interleave, as long as no request failed.    *)
THEOREM AuxUpdatesReachJobs == Spec => []AuxUpdateReachesJob
<1>1. Init => AuxUpdateReachesJob
  BY DEF Init, AuxUpdateReachesJob
<1>2. QED
  BY <1>1, JobsInit, JobsNext, AuxUpdateNext, PTL DEF Spec

-----------------------------------------------------------------------------
(* Shares and blocks.                                                         *)

(* A record is submitted, then checked, then emitted, each at most once.      *)
RecordOK(r) ==
    /\ r \in Record
    /\ r.submitting => r.checks = 0 /\ r.emitted = 0
    /\ r.checks + r.emitted <= 1

RecordsInv == records \in Seq(Record) /\ \A i \in DOMAIN records : RecordOK(records[i])

LEMMA NewRecordOK ==
    ASSUME JobsInv, NEW kind \in {"primary", "auxiliary"}, NEW job \in validJobs,
           NEW isBlock \in BOOLEAN
    PROVE  RecordOK(NewRecord(kind, job, isBlock))
<1> DEFINE r == NewRecord(kind, job, isBlock)
<1>1. job \in Job /\ currentJob \in Job /\ auxData \in 0..MaxAux
  BY DEF JobsInv, TypeOK
<1>2. /\ r \in Record /\ r.submitting = isBlock /\ r.checks = 0
      /\ r.emitted = IF isBlock THEN 0 ELSE 1
  BY <1>1, BoundsAssumption DEF NewRecord, Record
<1> HIDE DEF r
<1>3. RecordOK(r)
  BY <1>2 DEF RecordOK
<1>4. QED
  BY <1>3 DEF r

(* However a submission ends, one of its callbacks asks for the block.        *)
LEMMA OneCheck ==
    ASSUME NEW outcome \in {"accepted", "rejected", "orphan"}
    PROVE  ChecksStarted(SubmitCallbacks(outcome)) = 1
<1> DEFINE q  == SubmitCallbacks(outcome)
           ks == {k \in DOMAIN q : q[k] = "ok"}
<1>1. CASE outcome = "accepted"
  <2>1. DOMAIN q = {1} /\ q[1] = "ok"
    BY <1>1 DEF SubmitCallbacks
  <2>2. ks = {1}
    BY <2>1
  <2>3. QED
    BY <2>2, FS_Singleton, Zenon DEF ChecksStarted
<1>2. CASE outcome # "accepted"
  <2>1. DOMAIN q = {1, 2} /\ q[1] = "error" /\ q[2] = "ok"
    BY <1>2 DEF SubmitCallbacks
  <2>2. ks = {2}
    BY <2>1
  <2>3. QED
    BY <2>2, FS_Singleton, Zenon DEF ChecksStarted
<1>3. QED
  BY <1>1, <1>2

LEMMA ConcatElements ==
    ASSUME NEW S, NEW p \in Seq(S), NEW q \in Seq(S), NEW pq, pq = p \o q
    PROVE  /\ pq \in Seq(S)
           /\ \A i \in DOMAIN pq :
                (\E k \in DOMAIN p : pq[i] = p[k]) \/ (\E k \in DOMAIN q : pq[i] = q[k])
<1>1. /\ pq \in Seq(S) /\ Len(pq) = Len(p) + Len(q) /\ DOMAIN pq = 1..Len(pq)
      /\ DOMAIN p = 1..Len(p) /\ DOMAIN q = 1..Len(q) /\ Len(p) \in Nat /\ Len(q) \in Nat
  OBVIOUS
<1>2. ASSUME NEW i \in 1..Len(pq)
      PROVE  (\E k \in 1..Len(p) : pq[i] = p[k]) \/ (\E k \in 1..Len(q) : pq[i] = q[k])
  <2>1. CASE i <= Len(p)
    BY <1>1, <2>1
  <2>2. CASE i > Len(p)
    <3>1. i - Len(p) \in 1..Len(q) /\ pq[i] = q[i - Len(p)]
      BY <1>1, <2>2
    <3>2. QED
      BY <3>1
  <2>3. QED
    BY <1>1, <2>1, <2>2
<1>3. QED
  BY <1>1, <1>2

LEMMA RecordsNext ==
    ASSUME JobsInv, RecordsInv, ShareStep
    PROVE  RecordsInv'
<1>0. records \in Seq(Record)
  BY DEF RecordsInv
<1>1. ASSUME NEW job \in validJobs, NEW isBlock \in BOOLEAN, NEW isAux \in BOOLEAN,
             ShareFound(job, isBlock, isAux)
      PROVE  RecordsInv'
  <2> DEFINE p == NewRecord("primary", job, isBlock)
             a == NewRecord("auxiliary", job, TRUE)
             q == IF isAux THEN <<a>> ELSE <<>>
  <2>1. RecordOK(p) /\ RecordOK(a)
    BY NewRecordOK
  <2>2. records' = records \o <<p>> \o q
    BY <1>1 DEF ShareFound
  <2> HIDE DEF p, a
  <2>3. p \in Record /\ a \in Record
    BY <2>1 DEF RecordOK
  <2>4. /\ q \in Seq(Record) /\ \A i \in DOMAIN q : q[i] = a
    BY <2>3
  <2> HIDE DEF q
  <2> DEFINE rp == records \o <<p>>
  <2>5. <<p>> \in Seq(Record) /\ \A i \in DOMAIN <<p>> : <<p>>[i] = p
    BY <2>3
  <2>6. /\ rp \in Seq(Record)
        /\ \A i \in DOMAIN rp : rp[i] = p \/ \E k \in DOMAIN records : rp[i] = records[k]
    BY <1>0, <2>5, ConcatElements
  <2> HIDE DEF rp
  <2>7. records' = rp \o q
    BY <2>2 DEF rp
  <2>8. /\ records' \in Seq(Record)
        /\ \A i \in DOMAIN records' :
             (\E k \in DOMAIN rp : records'[i] = rp[k]) \/ (\E k \in DOMAIN q : records'[i] = q[k])
    <3>1. rp \in Seq(Record) /\ q \in Seq(Record)
      BY <2>4, <2>6
    <3>2. QED
      BY <2>7, <3>1, ConcatElements
  <2>9. QED
    BY <2>1, <2>4, <2>6, <2>8 DEF RecordsInv
<1>2. ASSUME NEW i \in DOMAIN records, NEW r, RecordOK(r), records' = [records EXCEPT ![i] = r]
      PROVE  RecordsInv'
  <2>1. r \in Record
    BY <1>2 DEF RecordOK
  <2>2. records' \in Seq(Record) /\ DOMAIN records' = DOMAIN records
    BY <1>0, <1>2, <2>1
  <2>3. \A k \in DOMAIN records : records'[k] = IF k = i THEN r ELSE records[k]
    BY <1>0, <1>2
  <2>4. QED
    BY <1>2, <2>2, <2>3 DEF RecordsInv
<1>3. ASSUME NEW i \in DOMAIN records, SubmissionDone(i)
      PROVE  RecordsInv'
  <2> DEFINE r == [records[i] EXCEPT !.submitting = FALSE, !.checks = 1]
  <2>1. records' = [records EXCEPT ![i].submitting = FALSE, ![i].checks = 1]
    BY <1>3, OneCheck DEF SubmissionDone
  <2>2. records' = [records EXCEPT ![i] = r]
    BY <1>0, <2>1
  <2>3. RecordOK(records[i]) /\ records[i].submitting
    BY <1>3 DEF RecordsInv, SubmissionDone
  <2>4. r \in Record /\ r.submitting = FALSE /\ r.checks = 1 /\ r.emitted = records[i].emitted
    <3>1. records[i] \in Record /\ 1 \in 0..1
      BY <2>3 DEF RecordOK
    <3>2. r \in Record
      BY <3>1 DEF Record
    <3>3. QED
      BY <3>1 DEF Record
  <2> HIDE DEF r
  <2>5. RecordOK(r)
    BY <2>3, <2>4 DEF RecordOK
  <2>6. QED
    BY <1>2, <2>2, <2>5
<1>4. ASSUME NEW i \in DOMAIN records, CheckDone(i)
      PROVE  RecordsInv'
  <2> DEFINE r == [records[i] EXCEPT !.checks = @ - 1, !.emitted = @ + 1]
  <2>1. records' = [records EXCEPT ![i] = r]
    BY <1>0, <1>4 DEF CheckDone
  <2>2. RecordOK(records[i]) /\ records[i].checks > 0
    BY <1>4 DEF RecordsInv, CheckDone
  <2>3. /\ records[i].checks = 1 /\ records[i].emitted = 0 /\ records[i] \in Record
        /\ ~records[i].submitting
    BY <2>2 DEF RecordOK, Record
  <2>4. /\ r \in Record /\ r.checks = 0 /\ r.emitted = 1
        /\ r.submitting = records[i].submitting
    <3> DEFINE u == [records[i] EXCEPT !.checks = 0, !.emitted = 1]
    <3>1. r = u
      BY <2>3 DEF Record
    <3>2. 0 \in 0..1 /\ 1 \in 0..1
      OBVIOUS
    <3>3. u \in Record
      BY <2>3, <3>2 DEF Record
    <3>4. u.checks = 0 /\ u.emitted = 1 /\ u.submitting = records[i].submitting
      BY <2>3 DEF Record
    <3>5. QED
      BY <3>1, <3>3, <3>4
  <2> HIDE DEF r
  <2>5. RecordOK(r)
    BY <2>3, <2>4 DEF RecordOK
  <2>6. QED
    BY <1>2, <2>1, <2>5
<1>5. QED
  BY <1>1, <1>3, <1>4 DEF ShareStep

-----------------------------------------------------------------------------
(* The pool and its daemons.                                                  *)
PoolInv == JobsInv /\ RecordsInv /\ DaemonInv

LEMMA PoolInvInit == PoolInit => PoolInv
<1> SUFFICES ASSUME PoolInit PROVE PoolInv
    OBVIOUS
<1>1. JobsInv
  BY JobsInit DEF PoolInit, BlocksInit
<1>2. RecordsInv
  <2>1. records = <<>>
    BY DEF PoolInit, BlocksInit
  <2>2. QED
    BY <2>1 DEF RecordsInv
<1>3. DaemonInv
  BY DaemonInvInit DEF PoolInit
<1>4. QED
  BY <1>1, <1>2, <1>3 DEF PoolInv

LEMMA PoolInvNext == PoolInv /\ [PoolNext]_poolVars => PoolInv'
<1> SUFFICES ASSUME PoolInv, [PoolNext]_poolVars PROVE PoolInv'
    OBVIOUS
<1> USE DEF PoolInv
<1>1. ASSUME UNCHANGED daemonVars PROVE DaemonInv'
  BY <1>1, DaemonInvNext
<1>2. ASSUME UNCHANGED vars PROVE JobsInv'
  BY <1>2, JobsNext
<1>3. ASSUME UNCHANGED records PROVE RecordsInv'
  BY <1>3 DEF RecordsInv
<1>4. CASE JobsStep(Next)
  <2>1. Next /\ UNCHANGED records /\ UNCHANGED daemonVars
    BY <1>4, Zenon DEF JobsStep
  <2>2. JobsInv'
    BY <2>1, JobsNext
  <2>3. QED
    BY <1>1, <1>3, <2>1, <2>2
<1>5. CASE BlocksStep(ShareStep)
  <2>1. ShareStep /\ UNCHANGED daemonVars
    BY <1>5, Zenon DEF BlocksStep
  <2>2. UNCHANGED vars
    BY <2>1, Zenon DEF ShareStep, ShareFound, SubmissionDone, CheckDone
  <2>3. RecordsInv'
    BY <2>1, RecordsNext
  <2>4. QED
    BY <1>1, <1>2, <2>1, <2>2, <2>3
<1>6. CASE DaemonsStep(DaemonNext)
  <2>1. DaemonNext /\ UNCHANGED vars /\ UNCHANGED records
    BY <1>6, Zenon DEF DaemonsStep, blockVars
  <2>2. DaemonInv'
    BY <2>1, DaemonInvNext
  <2>3. QED
    BY <1>2, <1>3, <2>1, <2>2
<1>7. CASE UNCHANGED poolVars
  <2>1. UNCHANGED daemonVars /\ UNCHANGED vars /\ UNCHANGED records
    BY <1>7, Zenon DEF poolVars, blockVars
  <2>2. QED
    BY <1>1, <1>2, <1>3, <2>1
<1>8. QED
  BY <1>4, <1>5, <1>6, <1>7, Zenon DEF PoolNext

LEMMA PoolAlways == PoolSpec => []PoolInv
<1>1. PoolSpec => PoolInit /\ [][PoolNext]_poolVars
  BY PTL DEF PoolSpec
<1>2. QED
  BY <1>1, PoolInvInit, PoolInvNext, PTL

(* Types of the pool's state: in particular no share and no block is checked  *)
(* or emitted twice although the callbacks of a failed submission run twice,  *)
(* and no daemon contributes two results to a command.                        *)
THEOREM PoolTypeCorrect == PoolSpec => []PoolTypeOK
<1>1. PoolInv => PoolTypeOK
  BY InvImpliesAnswers DEF PoolInv, JobsInv, RecordsInv, PoolTypeOK, BlocksTypeOK
<1>2. QED
  BY <1>1, PoolAlways, PTL

(* The caller of a command hears once: the first success of a streaming       *)
(* command or, when every daemon failed, an error; and checkOnline keeps as   *)
(* many instances as there are daemons online, for any number of daemons and  *)
(* any order of their answers.                                                *)
THEOREM CallersGetTheirAnswer == PoolSpec => []CallersAnsweredRightly
<1>1. PoolInv => CallersAnsweredRightly
  BY InvImpliesAnswers DEF PoolInv, CallersAnsweredRightly
<1>2. QED
  BY <1>1, PoolAlways, PTL

=============================================================================
