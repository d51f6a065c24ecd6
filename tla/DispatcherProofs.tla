---------------------------- MODULE DispatcherProofs ----------------------------
(***************************************************************************)
(* Proofs about Dispatcher, for every value of its constants: the types, what *)
(* the distribution thread has sent, and what is submitted to the pool, that  *)
(* is the counters of the solutions, the dedup set, and the difficulty and the *)
(* session a submitted share belongs to.                                      *)
(***************************************************************************)
EXTENDS Dispatcher, FiniteSetTheorems, TLAPS

(* An element pushed on a queue is behind those waiting on it.                *)
LEMMA PushKeepsMessages ==
    ASSUME NEW S, NEW q \in Seq(S), NEW e \in S
    PROVE  /\ Append(q, e) \in Seq(S)
           /\ Len(Append(q, e)) = Len(q) + 1
           /\ \A i \in 1..Len(q) : Append(q, e)[i] = q[i]
OBVIOUS

LEMMA TypeInit == Init => TypeOK
<1> SUFFICES ASSUME Init PROVE TypeOK
    OBVIOUS
<1>1. SharedTypeOK
  BY BoundsAssumption DEF Init, SharedTypeOK, StratumInit, EmptyMap, Task
<1>2. StratumTypeOK
  BY MaxDelayAssumption DEF Init, StratumInit, StratumTypeOK
<1>3. TaskDistTypeOK
  <2>1. cleanJobQueue \in BOOLEAN
    BY DEF Init, TaskDistInit
  <2>2. dispatcherTask \in SentTask
    BY DEF Init, TaskDistInit, SentTask, NoJob, NoTask, Task
  <2>3. QED
    BY <2>1, <2>2 DEF Init, TaskDistInit, TaskDistTypeOK
<1>4. ShareValidTypeOK
  BY DEF Init, ShareValidInit, ShareValidTypeOK, NoTask, Task
<1>5. QED
  BY <1>1, <1>2, <1>3, <1>4 DEF Init, TypeOK

-----------------------------------------------------------------------------
(* A part whose variables do not change keeps its type.                       *)
LEMMA UnchangedTypes ==
    /\ SharedTypeOK /\ UNCHANGED sharedVars => SharedTypeOK'
    /\ StratumTypeOK /\ UNCHANGED srVars => StratumTypeOK'
    /\ TaskDistTypeOK /\ UNCHANGED <<taken, tdVars>> => TaskDistTypeOK'
    /\ ShareValidTypeOK /\ UNCHANGED svVars => ShareValidTypeOK'
<1>1. SharedTypeOK /\ UNCHANGED sharedVars => SharedTypeOK'
  BY DEF SharedTypeOK, sharedVars
<1>2. StratumTypeOK /\ UNCHANGED srVars => StratumTypeOK'
  BY DEF StratumTypeOK, srVars
<1>3. TaskDistTypeOK /\ UNCHANGED <<taken, tdVars>> => TaskDistTypeOK'
  BY DEF TaskDistTypeOK, tdVars
<1>4. ShareValidTypeOK /\ UNCHANGED svVars => ShareValidTypeOK'
  BY DEF ShareValidTypeOK, svVars
<1>5. QED
  BY <1>1, <1>2, <1>3, <1>4

(* The stratum thread only pushes messages and moves the connection state.    *)
LEMMA PushMessageType ==
    ASSUME SharedTypeOK, NEW m \in Message, PushMessage(m),
           UNCHANGED <<taken, solutions, solTaken, activeTasks, connected, session,
                       extraNonce1, stopRequested>>
    PROVE  SharedTypeOK'
<1>1. received' \in Seq(Message) /\ taken' \in 0..Len(received')
  BY PushKeepsMessages DEF SharedTypeOK, PushMessage
<1>2. QED
  BY <1>1 DEF SharedTypeOK

LEMMA PushSolutionType ==
    ASSUME SharedTypeOK, NEW s \in Solution, PushSolution(s),
           UNCHANGED <<received, taken, solTaken, activeTasks, connected, session,
                       extraNonce1, stopRequested>>
    PROVE  SharedTypeOK'
<1>1. solutions' \in Seq(Solution) /\ solTaken' \in 0..Len(solutions')
  BY PushKeepsMessages DEF SharedTypeOK, PushSolution
<1>2. QED
  BY <1>1 DEF SharedTypeOK

LEMMA ZeroSolutionType == ZeroSolution \in Solution
BY SharesAssumption DEF ZeroSolution, Solution, MerkleRoot, OtherBytes

(* Steps of stratumRecvThread that do not push a message.                     *)
LEMMA ConnectionType ==
    ASSUME SharedTypeOK, StratumTypeOK,
           \/ StratumCheckStop \/ StratumCheck \/ StratumNotConnected
           \/ StratumReadLost \/ StratumReadClosed \/ StratumBackoffStop
           \/ StratumOpenFailed \/ StratumOpen \/ StratumSubscribed
           \/ StratumWrongNonceSize \/ StratumSubscribeClosed
    PROVE  SharedTypeOK' /\ StratumTypeOK' /\ taken' = taken
<1>1. /\ received' = received /\ taken' = taken /\ solutions' = solutions
      /\ solTaken' = solTaken /\ activeTasks' = activeTasks
      /\ stopRequested' = stopRequested
  BY DEF StratumCheckStop, StratumCheck, StratumNotConnected, StratumReadLost,
         StratumReadClosed, StratumBackoffStop, StratumOpenFailed, StratumOpen,
         StratumSubscribed, StratumWrongNonceSize,
         StratumSubscribeClosed, sharedVars
<1>2. connected' \in BOOLEAN
  BY DEF StratumCheckStop, StratumCheck, StratumNotConnected, StratumReadLost,
         StratumReadClosed, StratumBackoffStop, StratumOpenFailed, StratumOpen,
         StratumSubscribed, StratumWrongNonceSize,
         StratumSubscribeClosed, sharedVars, ConnectionLost, ReconnectFailed, SharedTypeOK
<1>3. session' \in Nat /\ extraNonce1' \in Nat
  BY DEF StratumCheckStop, StratumCheck, StratumNotConnected, StratumReadLost,
         StratumReadClosed, StratumBackoffStop, StratumOpenFailed, StratumOpen,
         StratumSubscribed, StratumWrongNonceSize,
         StratumSubscribeClosed, sharedVars, SharedTypeOK
<1>4. StratumTypeOK'
  BY MaxDelayAssumption
     DEF StratumCheckStop, StratumCheck, StratumNotConnected, StratumReadLost,
         StratumReadClosed, StratumBackoffStop, StratumOpenFailed, StratumOpen,
         StratumSubscribed, StratumWrongNonceSize,
         StratumSubscribeClosed, ConnectionLost, ReconnectFailed, StratumTypeOK
<1>5. QED
  BY <1>1, <1>2, <1>3, <1>4 DEF SharedTypeOK

LEMMA StratumReadType ==
    ASSUME SharedTypeOK, StratumTypeOK, NEW m \in Message, StratumRead(m)
    PROVE  SharedTypeOK' /\ StratumTypeOK' /\ taken' = taken
BY PushMessageType DEF StratumRead, StratumTypeOK

LEMMA StratumAuthorizedType ==
    ASSUME SharedTypeOK, StratumTypeOK, NEW ms \in Seq(Message), StratumAuthorized(ms)
    PROVE  SharedTypeOK' /\ StratumTypeOK' /\ taken' = taken
<1>1. received' \in Seq(Message) /\ taken' \in 0..Len(received')
  BY DEF SharedTypeOK, StratumAuthorized
<1>2. StratumTypeOK'
  BY MaxDelayAssumption DEF StratumTypeOK, StratumAuthorized
<1>3. QED
  BY <1>1, <1>2 DEF SharedTypeOK, StratumAuthorized

LEMMA StratumInitFailedType ==
    ASSUME SharedTypeOK, StratumTypeOK, NEW ms \in Seq(Message), StratumInitFailed(ms)
    PROVE  SharedTypeOK' /\ StratumTypeOK' /\ taken' = taken
<1>1. received' \in Seq(Message) /\ taken' \in 0..Len(received')
  BY DEF SharedTypeOK, StratumInitFailed
<1>2. ReconnectFailed
  BY DEF StratumInitFailed
<1>3. connected' \in BOOLEAN /\ srPc' = "backoff"
  BY <1>2 DEF ReconnectFailed
<1>4. delaySec' \in 1..MaxDelay
  BY <1>2, MaxDelayAssumption DEF StratumTypeOK, ReconnectFailed
<1>5. QED
  BY <1>1, <1>3, <1>4 DEF SharedTypeOK, StratumTypeOK, StratumInitFailed

(* A popped message is a message, and checkShareResponse keeps the counters.  *)
LEMMA PoppedMessageType ==
    ASSUME SharedTypeOK, TaskDistTypeOK, PopMessage, ApplyMessage(FrontMessage)
    PROVE  /\ FrontMessage \in Message /\ taken + 1 \in 1..Len(received)
           /\ taken' = taken + 1
           /\ currentPoolDifficulty' \in Nat
           /\ poolShares' \in [accepted : Nat, rejected : Nat]
<1>1. taken \in Nat /\ Len(received) \in Nat /\ taken < Len(received) /\ taken' = taken + 1
  BY DEF SharedTypeOK, PopMessage, MessagesWaiting
<1>2. taken + 1 \in 1..Len(received) /\ FrontMessage \in Message
  BY <1>1 DEF SharedTypeOK, FrontMessage
<1>3. currentPoolDifficulty' \in Nat
  BY <1>2, DifficultiesAssumption
     DEF ApplyMessage, TaskDistTypeOK, Message, Notify, SetDifficulty, Response, Ignored
<1>4. poolShares' \in [accepted : Nat, rejected : Nat]
  BY DEF ApplyMessage, CheckShareResponse, TaskDistTypeOK
<1>5. QED
  BY <1>1, <1>2, <1>3, <1>4

LEMMA PopKeepsShared ==
    ASSUME SharedTypeOK, taken' = taken + 1, taken + 1 \in 1..Len(received),
           UNCHANGED <<received, solutions, solTaken, activeTasks, connected, session,
                       extraNonce1, stopRequested>>
    PROVE  SharedTypeOK'
BY DEF SharedTypeOK

LEMMA TaskDistType ==
    ASSUME SharedTypeOK, TaskDistTypeOK, TaskDistStep
    PROVE  SharedTypeOK' /\ TaskDistTypeOK'
<1>1. CASE TaskDistCheck
  <2>1. SharedTypeOK'
    BY <1>1, UnchangedTypes DEF TaskDistCheck
  <2>2. TaskDistTypeOK'
    BY <1>1 DEF TaskDistCheck, TaskDistTypeOK, sharedVars
  <2>3. QED
    BY <2>1, <2>2
<1>2. CASE TaskDistPop
  <2>1. /\ FrontMessage \in Message /\ taken + 1 \in 1..Len(received)
        /\ taken' = taken + 1 /\ taken \in Nat
        /\ currentPoolDifficulty' \in Nat
        /\ poolShares' \in [accepted : Nat, rejected : Nat]
    BY <1>2, PoppedMessageType DEF TaskDistPop, SharedTypeOK
  <2>2. SharedTypeOK'
    BY <1>2, <2>1, PopKeepsShared DEF TaskDistPop
  <2>3. cleanJobQueue' \in BOOLEAN
    BY <1>2, <2>1
       DEF TaskDistPop, TaskDistTypeOK, Message, Notify, SetDifficulty, Response, Ignored
  <2>4. latestNotify' \in 0..taken' /\ tdPc' \in {"drain", "check"}
    BY <1>2, <2>1 DEF TaskDistPop, TaskDistTypeOK
  <2>5. QED
    BY <1>2, <2>1, <2>2, <2>3, <2>4 DEF TaskDistPop, TaskDistTypeOK
<1>3. CASE TaskDistDrain
  <2>1. /\ FrontMessage \in Message /\ taken + 1 \in 1..Len(received)
        /\ taken' = taken + 1 /\ taken \in Nat
        /\ currentPoolDifficulty' \in Nat
        /\ poolShares' \in [accepted : Nat, rejected : Nat]
    BY <1>3, PoppedMessageType DEF TaskDistDrain, SharedTypeOK
  <2>2. SharedTypeOK'
    BY <1>3, <2>1, PopKeepsShared DEF TaskDistDrain
  <2>3. cleanJobQueue' \in BOOLEAN
    BY <1>3, Zenon DEF TaskDistDrain, DrainedClean
  <2>4. latestNotify' \in 0..taken'
    BY <1>3, <2>1 DEF TaskDistDrain, DrainedNotify, TaskDistTypeOK
  <2>5. QED
    BY <1>3, <2>1, <2>2, <2>3, <2>4 DEF TaskDistDrain, TaskDistTypeOK
<1>4. CASE TaskDistDrained
  <2>1. SharedTypeOK'
    BY <1>4, UnchangedTypes DEF TaskDistDrained
  <2>2. TaskDistTypeOK'
    BY <1>4 DEF TaskDistDrained, TaskDistTypeOK, sharedVars
  <2>3. QED
    BY <2>1, <2>2
<1>5. CASE DistributeClear
  <2>1. activeTasks' \in [DOMAIN activeTasks' -> Task] /\ DOMAIN activeTasks' \subseteq Nat
    BY <1>5 DEF DistributeClear, EmptyMap, SharedTypeOK
  <2>2. SharedTypeOK'
    BY <1>5, <2>1 DEF DistributeClear, SharedTypeOK
  <2>3. cleanJobQueue' \in BOOLEAN
    BY <1>5 DEF DistributeClear
  <2>4. latestNotify' \in 0..taken' /\ tdPc' \in {"send", "check"}
    BY <1>5 DEF DistributeClear, TaskDistTypeOK, SharedTypeOK
  <2>5. QED
    BY <1>5, <2>2, <2>3, <2>4 DEF DistributeClear, TaskDistTypeOK
<1>6. CASE DistributeSend
  <2>1. SharedTypeOK'
    BY <1>6, UnchangedTypes DEF DistributeSend
  <2>2. TargetOf(currentPoolDifficulty) \in Nat
    BY DEF TargetOf, TaskDistTypeOK
  <2>3. latestNotify \in Nat /\ taken \in Nat
    BY DEF TaskDistTypeOK, SharedTypeOK
  <2>4. dispatcherTask' \in SentTask
    BY <1>6, <2>2, <2>3 DEF DistributeSend, SentTask, Task, TaskDistTypeOK, SharedTypeOK
  <2>5. network' \subseteq SentTask
    BY <1>6, <2>4 DEF DistributeSend, TaskDistTypeOK
  <2>6. QED
    BY <1>6, <2>1, <2>3, <2>4, <2>5 DEF DistributeSend, TaskDistTypeOK, sharedVars
<1>7. CASE DistributeInsert
  <2>1. activeTasks' \in [DOMAIN activeTasks' -> Task] /\ DOMAIN activeTasks' \subseteq Nat
    <3> DEFINE D == DOMAIN activeTasks
    <3>1. /\ D \in SUBSET Nat /\ activeTasks \in [D -> Task]
          /\ dispatcherTask.jobId \in Nat /\ dispatcherTask.task \in Task
      BY DEF SharedTypeOK, TaskDistTypeOK, SentTask
    <3>2. activeTasks' = [j \in D \cup {dispatcherTask.jobId} |->
                            IF j = dispatcherTask.jobId THEN dispatcherTask.task
                                                        ELSE activeTasks[j]]
      BY <1>7 DEF DistributeInsert, Insert
    <3>3. QED
      BY <3>1, <3>2
  <2>2. SharedTypeOK'
    BY <1>7, <2>1 DEF DistributeInsert, SharedTypeOK
  <2>3. dispatcherTask' \in SentTask
    BY <1>7 DEF DistributeInsert, NoJob, NoTask, SentTask, Task
  <2>4. QED
    BY <1>7, <2>2, <2>3 DEF DistributeInsert, TaskDistTypeOK
<1>8. QED
  BY <1>1, <1>2, <1>3, <1>4, <1>5, <1>6, <1>7 DEF TaskDistStep

(* sol, the solution popped last, exists while it is processed.               *)
SolutionPopped == svPc \in {"get", "verify", "send"} => solTaken >= 1

LEMMA PopKeepsSolutions ==
    ASSUME SharedTypeOK, PopSolution,
           UNCHANGED <<received, taken, solutions, activeTasks, connected, session,
                       extraNonce1, stopRequested>>
    PROVE  /\ SharedTypeOK'
           /\ solTaken' = solTaken + 1 /\ solTaken' \in 1..Len(solutions)
           /\ FrontSolution \in Solution
<1>1. solTaken \in Nat /\ solTaken < Len(solutions) /\ Len(solutions) \in Nat
  BY DEF PopSolution, SharedTypeOK
<1>2. solTaken' = solTaken + 1 /\ solTaken' \in 1..Len(solutions)
  BY <1>1 DEF PopSolution
<1>3. FrontSolution \in Solution
  BY <1>1 DEF FrontSolution, SharedTypeOK
<1>4. QED
  BY <1>1, <1>2, <1>3 DEF SharedTypeOK

LEMMA ShareValidType ==
    ASSUME SharedTypeOK, ShareValidTypeOK, SolutionPopped, ShareValidStep
    PROVE  SharedTypeOK' /\ ShareValidTypeOK' /\ SolutionPopped' /\ taken' = taken
<1>1. CASE ShareValidCheck
  <2>1. SharedTypeOK'
    BY <1>1, UnchangedTypes DEF ShareValidCheck
  <2>2. QED
    BY <1>1, <2>1 DEF ShareValidCheck, ShareValidTypeOK, SolutionPopped, sharedVars
<1>2. CASE ShareValidSkipDuplicate
  <2>1. SharedTypeOK'
    BY <1>2, PopKeepsSolutions DEF ShareValidSkipDuplicate
  <2>2. QED
    BY <1>2, <2>1 DEF ShareValidSkipDuplicate, ShareValidTypeOK, SolutionPopped
<1>3. CASE ShareValidPop
  <2>1. SharedTypeOK' /\ solTaken' >= 1 /\ FrontSolution \in Solution
    BY <1>3, PopKeepsSolutions DEF ShareValidPop, SharedTypeOK
  <2>2. svStats' \in [received : Nat, accepted : Nat, rejected : Nat, stale : Nat,
                      passedPoolDiff : Nat]
    BY <1>3 DEF ShareValidPop, ShareValidTypeOK
  <2>3. recentSubmits' \subseteq Nat \X Keys /\ lastCleanJobId' \in Nat
    BY <1>3, <2>1 DEF ShareValidPop, ShareValidTypeOK, Solution
  <2>4. QED
    BY <1>3, <2>1, <2>2, <2>3 DEF ShareValidPop, ShareValidTypeOK, SolutionPopped
<1>4. CASE ShareValidStale
  <2>1. SharedTypeOK'
    BY <1>4, UnchangedTypes DEF ShareValidStale
  <2>2. svStats' \in [received : Nat, accepted : Nat, rejected : Nat, stale : Nat,
                      passedPoolDiff : Nat]
    BY <1>4 DEF ShareValidStale, ShareValidTypeOK
  <2>3. QED
    BY <1>4, <2>1, <2>2 DEF ShareValidStale, ShareValidTypeOK, SolutionPopped, sharedVars
<1>5. CASE ShareValidGet
  <2>1. SharedTypeOK'
    BY <1>5, UnchangedTypes DEF ShareValidGet
  <2>2. task' \in Task
    BY <1>5 DEF ShareValidGet, SharedTypeOK
  <2>3. QED
    BY <1>5, <2>1, <2>2 DEF ShareValidGet, ShareValidTypeOK, SolutionPopped, sharedVars
<1>6. CASE ShareValidReject
  <2>1. SharedTypeOK'
    BY <1>6, UnchangedTypes DEF ShareValidReject
  <2>2. svStats' \in [received : Nat, accepted : Nat, rejected : Nat, stale : Nat,
                      passedPoolDiff : Nat]
    BY <1>6 DEF ShareValidReject, ShareValidTypeOK
  <2>3. task' \in Task
    BY <1>6 DEF ShareValidReject, NoTask, Task
  <2>4. QED
    BY <1>6, <2>1, <2>2, <2>3 DEF ShareValidReject, ShareValidTypeOK, SolutionPopped, sharedVars
<1>7. CASE ShareValidAccept
  <2>1. SharedTypeOK'
    BY <1>7, UnchangedTypes DEF ShareValidAccept
  <2>2. svStats' \in [received : Nat, accepted : Nat, rejected : Nat, stale : Nat,
                      passedPoolDiff : Nat]
    <3>1. svStats \in [received : Nat, accepted : Nat, rejected : Nat, stale : Nat,
                       passedPoolDiff : Nat]
      BY DEF ShareValidTypeOK
    <3>2. svStats' = [svStats EXCEPT !.accepted = @ + 1, !.passedPoolDiff = @ + 1]
      BY <1>7 DEF ShareValidAccept
    <3>3. svStats.accepted + 1 \in Nat /\ svStats.passedPoolDiff + 1 \in Nat
      BY <3>1
    <3>4. QED
      BY <3>1, <3>2, <3>3
  <2>3. task' \in Task
    BY <1>7 DEF ShareValidAccept, NoTask, Task, ShareValidTypeOK
  <2>4. sol \in Solution
    BY <1>7 DEF ShareValidAccept, SolutionPopped, SharedTypeOK, sol
  <2>5. recentSubmits' \subseteq Nat \X Keys
    BY <1>7, <2>4 DEF ShareValidAccept, Remembered, ShareValidTypeOK, DedupeKey, Solution
  <2>6. QED
    BY <1>7, <2>1, <2>2, <2>3, <2>5
       DEF ShareValidAccept, ShareValidTypeOK, SolutionPopped, sharedVars
<1>8. CASE ShareValidSend
  <2>1. connected' \in BOOLEAN
    BY <1>8 DEF ShareValidSend
  <2>2. SharedTypeOK'
    BY <1>8, <2>1 DEF ShareValidSend, SharedTypeOK
  <2>3. task' \in Task
    BY <1>8 DEF ShareValidSend, NoTask, Task
  <2>4. sol \in Solution
    BY <1>8 DEF ShareValidSend, SolutionPopped, SharedTypeOK, sol
  <2>5. solTaken \in Nat /\ session \in Nat
    BY DEF SharedTypeOK
  <2>6. [id |-> nextStratumSendId, jobId |-> sol.jobId, key |-> sol.key,
         nTime |-> sol.nTime, task |-> task, at |-> solTaken, session |-> session]
           \in Submission
    BY <2>4, <2>5 DEF Submission, Solution, ShareValidTypeOK
  <2>7. submitted' \in Seq(Submission)
    BY <1>8, <2>6, PushKeepsMessages DEF ShareValidSend, ShareValidTypeOK
  <2>8. QED
    BY <1>8, <2>2, <2>3, <2>7
       DEF ShareValidSend, ShareValidTypeOK, SolutionPopped, NextSendId
<1>9. QED
  BY <1>1, <1>2, <1>3, <1>4, <1>5, <1>6, <1>7, <1>8 DEF ShareValidStep
-----------------------------------------------------------------------------
TypeInv == TypeOK /\ SolutionPopped

LEMMA AuthorizeLinesType == AuthorizeLines \subseteq Seq(Message)
<1>1. ASSUME NEW ms \in (PoolMessages \cap SetDifficulty) \X (PoolMessages \cap Notify)
      PROVE  ms \in Seq(Message)
  <2>1. PICK d \in Message, n \in Message : ms = <<d, n>>
    BY DEF Message
  <2>2. QED
    BY <2>1
<1>2. <<>> \in Seq(Message)
  OBVIOUS
<1>3. ASSUME NEW ms \in AuthorizeLines
      PROVE  ms \in Seq(Message)
  BY <1>1, <1>2, Zenon DEF AuthorizeLines
<1>4. QED
  BY <1>3, Zenon

LEMMA AuthorizesMessages ==
    ASSUME PoolAuthorizes
    PROVE  \E ms \in Seq(Message) : StratumAuthorized(ms)
BY AuthorizeLinesType DEF PoolAuthorizes

LEMMA RefusesMessages ==
    ASSUME PoolRefuses
    PROVE  \E ms \in Seq(Message) : StratumInitFailed(ms)
BY AuthorizeLinesType DEF PoolRefuses

LEMMA PoolType ==
    ASSUME TypeInv, Pool
    PROVE  /\ SharedTypeOK' /\ StratumTypeOK' /\ taken' = taken /\ solTaken' = solTaken
           /\ UNCHANGED <<tdVars, svVars, mainPc, qrPc>> /\ answered' \subseteq Nat
<1> USE DEF TypeInv, TypeOK
<1>1. CASE PoolSends
  <2>1. PICK m \in PoolMessages : StratumRead(m)
    BY <1>1 DEF PoolSends
  <2>2. m \in Message
    BY PoolMessagesAssumption DEF Message
  <2>3. QED
    BY <1>1, <2>1, <2>2, StratumReadType DEF PoolSends, StratumRead, mainVars
<1>2. CASE PoolAnswers
  <2>1. PICK i \in Unanswered, v \in {"accepted", "rejected", "other"} :
          /\ StratumRead([kind |-> "response", id |-> submitted[i].id, verdict |-> v])
          /\ answered' = answered \cup {submitted[i].id}
    BY <1>2 DEF PoolAnswers
  <2>2. submitted[i].id \in Nat
    <3>1. submitted \in Seq(Submission) /\ i \in 1..Len(submitted)
      BY <2>1 DEF Unanswered, ShareValidTypeOK
    <3>2. submitted[i] \in Submission
      BY <3>1
    <3>3. QED
      BY <3>2 DEF Submission
  <2>3. [kind |-> "response", id |-> submitted[i].id, verdict |-> v] \in Message
    BY <2>2 DEF Message, Response
  <2>4. SharedTypeOK' /\ StratumTypeOK'
    BY <2>1, <2>3, StratumReadType
  <2>5. QED
    BY <1>2, <2>1, <2>2, <2>4 DEF PoolAnswers, StratumRead
<1>3. CASE PoolAuthorizes
  <2>1. PICK ms \in Seq(Message) : StratumAuthorized(ms)
    BY <1>3, AuthorizesMessages
  <2>2. QED
    BY <1>3, <2>1, StratumAuthorizedType DEF PoolAuthorizes, StratumAuthorized, mainVars
<1>4. CASE PoolHandshake
  <2>1. SharedTypeOK' /\ StratumTypeOK' /\ taken' = taken
    BY <1>4, ConnectionType DEF PoolHandshake
  <2>2. QED
    BY <1>4, <2>1 DEF PoolHandshake, StratumSubscribed, StratumWrongNonceSize, mainVars
<1>5. CASE PoolConnection
  <2>1. SharedTypeOK' /\ StratumTypeOK' /\ taken' = taken
    BY <1>5, ConnectionType DEF PoolConnection
  <2>2. QED
    BY <1>5, <2>1 DEF PoolConnection, StratumReadLost, StratumOpenFailed, StratumOpen, mainVars
<1>6. CASE PoolRefuses
  <2>1. PICK ms \in Seq(Message) : StratumInitFailed(ms)
    BY <1>6, RefusesMessages
  <2>2. QED
    BY <1>6, <2>1, StratumInitFailedType DEF PoolRefuses, StratumInitFailed, mainVars
<1>7. QED
  BY <1>1, <1>2, <1>3, <1>4, <1>5, <1>6 DEF Pool

LEMMA StratumRecvThreadType ==
    ASSUME TypeInv, StratumRecvThread
    PROVE  /\ SharedTypeOK' /\ StratumTypeOK' /\ taken' = taken /\ solTaken' = solTaken
           /\ UNCHANGED <<tdVars, svVars, mainVars>>
<1> USE DEF TypeInv, TypeOK
<1>1. CASE StratumAuthorizeClosed
  <2>1. <<>> \in Seq(Message)
    OBVIOUS
  <2>2. StratumAuthorized(<<>>)
    BY <1>1 DEF StratumAuthorizeClosed
  <2>3. SharedTypeOK' /\ StratumTypeOK' /\ taken' = taken
    BY <2>1, <2>2, StratumAuthorizedType
  <2>4. QED
    BY <2>2, <2>3 DEF StratumAuthorized, StratumRecvThread
<1>2. CASE \/ StratumCheckStop \/ StratumCheck \/ StratumNotConnected \/ StratumReadClosed
           \/ StratumSubscribeClosed \/ StratumBackoffStop
  <2>1. SharedTypeOK' /\ StratumTypeOK' /\ taken' = taken
    BY <1>2, ConnectionType
  <2>2. solTaken' = solTaken
    BY <1>2 DEF StratumCheckStop, StratumCheck, StratumNotConnected, StratumReadClosed,
                StratumSubscribeClosed, StratumBackoffStop, sharedVars
  <2>3. QED
    BY <2>1, <2>2 DEF StratumRecvThread
<1>3. QED
  BY <1>1, <1>2 DEF StratumRecvThread, StratumOwnStep

LEMMA MainType ==
    ASSUME TypeInv, MainQuit \/ MainShutdown
    PROVE  /\ SharedTypeOK' /\ taken' = taken /\ solTaken' = solTaken
           /\ UNCHANGED <<srVars, tdVars, svVars, qrPc, answered>>
           /\ mainPc' \in {"close", "stopTaskDist", "wakeTaskDist", "stopShareValid",
                            "wakeShareValid", "joinShareValid", "joinQubicRecv",
                            "joinTaskDist", "joinStratumRecv", "exited"}
<1> USE DEF TypeInv, TypeOK, MainGoto
<1>1. CASE MainQuit \/ MainJoinQubicRecv \/ MainJoinStratumRecv
  BY <1>1, UnchangedTypes DEF MainQuit, MainJoinQubicRecv, MainJoinStratumRecv, sharedVars
<1>2. CASE MainClose
  <2>1. connected' \in BOOLEAN
    BY <1>2 DEF MainClose
  <2>2. QED
    BY <1>2, <2>1 DEF MainClose, SharedTypeOK
<1>3. CASE MainStopTaskDist \/ MainStopShareValid \/ MainJoinShareValid \/ MainJoinTaskDist
  BY <1>3 DEF MainStopTaskDist, MainStopShareValid, MainJoinShareValid, MainJoinTaskDist,
              MainRequestStop, SharedTypeOK, Threads
<1>4. CASE MainWakeTaskDist
  <2>1. [kind |-> "ignored"] \in Message
    BY DEF Message, Ignored
  <2>2. QED
    BY <1>4, <2>1, PushMessageType DEF MainWakeTaskDist
<1>5. CASE MainWakeShareValid
  BY <1>5, ZeroSolutionType, PushSolutionType DEF MainWakeShareValid
<1>6. QED
  BY <1>1, <1>2, <1>3, <1>4, <1>5 DEF MainShutdown

(* What is received for a task that reached the network is a solution.        *)
LEMMA QubicRecvReceives ==
    ASSUME TaskDistTypeOK, QubicRecvSolution
    PROVE  \E s \in Solution : PushSolution(s)
<1>1. PICK d \in network, k \in Keys, t \in NTimes : \E r \in {RootOf(d.task)} \cup OtherRoots :
        PushSolution([jobId |-> d.jobId, key |-> k, nTime |-> t, root |-> r])
  BY DEF QubicRecvSolution
<1>2. PICK r \in {RootOf(d.task)} \cup OtherRoots :
        PushSolution([jobId |-> d.jobId, key |-> k, nTime |-> t, root |-> r])
  BY <1>1
<1>3. d \in SentTask
  BY DEF TaskDistTypeOK
<1>4. r \in MerkleRoot
  BY <1>3, OtherRootsAssumption DEF SentTask, Task, RootOf, MerkleRoot
<1>5. [jobId |-> d.jobId, key |-> k, nTime |-> t, root |-> r] \in Solution
  BY <1>3, <1>4 DEF SentTask, Solution
<1>6. QED
  BY <1>2, <1>5

LEMMA QubicRecvType ==
    ASSUME TypeInv, QubicRecvSolution
    PROVE  SharedTypeOK' /\ UNCHANGED <<taken, solTaken, srVars, tdVars, svVars, mainVars>>
<1> USE DEF TypeInv, TypeOK
<1>1. PICK s \in Solution : PushSolution(s)
  BY QubicRecvReceives
<1>2. QED
  BY <1>1, PushSolutionType DEF QubicRecvSolution

LEMMA TypeNext == TypeInv /\ [Next]_vars => TypeInv'
<1> SUFFICES ASSUME TypeInv, [Next]_vars PROVE TypeInv'
    OBVIOUS
<1> USE DEF TypeInv, TypeOK
<1>1. CASE Pool
  BY <1>1, PoolType, UnchangedTypes DEF SolutionPopped, svVars
<1>2. CASE StratumRecvThread
  BY <1>2, StratumRecvThreadType, UnchangedTypes DEF SolutionPopped, svVars, mainVars
<1>3. CASE TaskDistThread
  <2>1. SharedTypeOK' /\ TaskDistTypeOK'
    BY <1>3, TaskDistType DEF TaskDistThread
  <2>2. solTaken' = solTaken
    BY <1>3 DEF TaskDistThread, TaskDistStep, TaskDistCheck, TaskDistPop, TaskDistDrain,
                TaskDistDrained, DistributeClear, DistributeSend, DistributeInsert, sharedVars
  <2>3. QED
    BY <1>3, <2>1, <2>2, UnchangedTypes DEF TaskDistThread, SolutionPopped, svVars, mainVars
<1>4. CASE QubicRecvSolution
  BY <1>4, QubicRecvType, UnchangedTypes DEF SolutionPopped, svVars, mainVars
<1>5. CASE QubicRecvStop
  BY <1>5, UnchangedTypes DEF QubicRecvStop, SolutionPopped, svVars, sharedVars
<1>6. CASE ShareValidThread
  <2>1. SharedTypeOK' /\ ShareValidTypeOK' /\ SolutionPopped' /\ taken' = taken
    BY <1>6, ShareValidType DEF ShareValidThread
  <2>2. QED
    BY <1>6, <2>1, UnchangedTypes DEF ShareValidThread, mainVars
<1>7. CASE Clock
  <2>1. UNCHANGED <<sharedVars, srVars, svVars, mainVars>>
    BY <1>7 DEF Clock, ClockTick
  <2>2. TaskDistTypeOK'
    BY <1>7 DEF Clock, ClockTick, TaskDistTypeOK, sharedVars
  <2>3. QED
    BY <2>1, <2>2, UnchangedTypes DEF SolutionPopped, sharedVars, svVars, mainVars
<1>8. CASE MainQuit \/ MainShutdown
  BY <1>8, MainType, UnchangedTypes DEF SolutionPopped, svVars
<1>9. CASE UNCHANGED vars
  BY <1>9, UnchangedTypes DEF vars, SolutionPopped, sharedVars, svVars, mainVars
<1>10. QED
  BY <1>1, <1>2, <1>3, <1>4, <1>5, <1>6, <1>7, <1>8, <1>9 DEF Next, Exited

(* In every behaviour of the dispatcher every variable keeps its type; in     *)
(* particular shareValidThread never works on a solution it did not pop.      *)
THEOREM TypeCorrect == Spec => []TypeOK
<1>1. Init => TypeInv
  BY TypeInit DEF Init, TypeInv, SolutionPopped, ShareValidInit
<1>2. TypeInv /\ [Next]_vars => TypeInv'
  BY TypeNext
<1>3. TypeInv => TypeOK
  BY DEF TypeInv
<1>4. QED
  BY <1>1, <1>2, <1>3, PTL DEF Spec

-----------------------------------------------------------------------------
(* No clean notify that was taken is younger than the notify n.               *)
NotCleanedSince(n) == \A i \in (n + 1)..taken : ~IsCleanNotify(i)

(* CleanFlagHonoured is not inductive: between the pop of a clean notify and  *)
(* activeTasks.clear() the flag must be carried by cleanJobQueue, and the     *)
(* task about to be inserted must be young enough itself.                     *)
DistributionInv ==
    /\ DistributesLatest
    /\ \/ tdPc \in {"drain", "clear"} /\ cleanJobQueue
       \/ \A j \in DOMAIN activeTasks : NotCleanedSince(activeTasks[j].notify)
    /\ tdPc = "insert" => NotCleanedSince(dispatcherTask.task.notify)

(* The steps of every other thread leave alone what taskDistThread has taken. *)
OthersStep ==
    /\ UNCHANGED <<taken, activeTasks, tdPc, latestNotify, cleanJobQueue, dispatcherTask>>
    /\ \A i \in 1..taken : received'[i] = received[i]

LEMMA OthersNeverDisturb ==
    ASSUME TypeInv, [Next]_vars
    PROVE  TaskDistThread \/ OthersStep
<1> USE DEF TypeInv, TypeOK
<1>1. taken \in Nat /\ taken <= Len(received) /\ received \in Seq(Message)
  BY DEF SharedTypeOK
<1>2. ASSUME received' = received,
             UNCHANGED <<taken, activeTasks, tdPc, latestNotify, cleanJobQueue, dispatcherTask>>
      PROVE  OthersStep
  BY <1>2 DEF OthersStep
<1>3. CASE Pool
  <2>1. UNCHANGED <<taken, activeTasks, tdPc, latestNotify, cleanJobQueue, dispatcherTask>>
    <3>1. taken' = taken /\ UNCHANGED tdVars
      BY <1>3, PoolType
    <3>2. activeTasks' = activeTasks
      BY <1>3 DEF Pool, PoolSends, PoolAnswers, PoolAuthorizes, PoolHandshake, PoolRefuses,
                  PoolConnection, StratumRead, StratumAuthorized, StratumSubscribed,
                  StratumWrongNonceSize,
                  StratumInitFailed, StratumReadLost, StratumOpenFailed, StratumOpen
    <3>3. QED
      BY <3>1, <3>2 DEF tdVars
  <2>2. CASE PoolSends \/ PoolAnswers
    <3>1. \E m \in Message : received' = Append(received, m)
      <4>1. CASE PoolSends
        BY <4>1, PoolMessagesAssumption DEF PoolSends, StratumRead, PushMessage, Message
      <4>2. CASE PoolAnswers
        <5>1. PICK i \in Unanswered, v \in {"accepted", "rejected", "other"} :
                StratumRead([kind |-> "response", id |-> submitted[i].id, verdict |-> v])
          BY <4>2 DEF PoolAnswers
        <5>2. submitted \in Seq(Submission) /\ i \in 1..Len(submitted)
          BY <5>1 DEF Unanswered, ShareValidTypeOK
        <5>3. submitted[i] \in Submission
          BY <5>2
        <5>4. [kind |-> "response", id |-> submitted[i].id, verdict |-> v] \in Message
          BY <5>3 DEF Submission, Message, Response
        <5>5. QED
          BY <5>1, <5>4 DEF StratumRead, PushMessage
      <4>3. QED
        BY <2>2, <4>1, <4>2
    <3>2. QED
      BY <1>1, <2>1, <3>1 DEF OthersStep
  <2>3. CASE PoolAuthorizes
    <3>1. PICK ms \in Seq(Message) : StratumAuthorized(ms)
      BY <2>3, AuthorizesMessages
    <3>2. received' = received \o ms
      BY <3>1 DEF StratumAuthorized
    <3>3. \A i \in 1..taken : received'[i] = received[i]
      BY <1>1, <3>2
    <3>4. QED
      BY <2>1, <3>3 DEF OthersStep
  <2>4. CASE PoolHandshake \/ PoolConnection
    <3>1. received' = received
      BY <2>4 DEF PoolHandshake, PoolConnection, StratumSubscribed, StratumWrongNonceSize,
                  StratumReadLost, StratumOpenFailed, StratumOpen
    <3>2. QED
      BY <1>2, <2>1, <3>1
  <2>5. CASE PoolRefuses
    <3>1. PICK ms \in Seq(Message) : StratumInitFailed(ms)
      BY <2>5, RefusesMessages
    <3>2. received' = received \o ms
      BY <3>1 DEF StratumInitFailed
    <3>3. \A i \in 1..taken : received'[i] = received[i]
      BY <1>1, <3>2
    <3>4. QED
      BY <2>1, <3>3 DEF OthersStep
  <2>6. QED
    BY <1>3, <2>2, <2>3, <2>4, <2>5 DEF Pool
<1>4. CASE StratumRecvThread
  <2>1. UNCHANGED tdVars
    BY <1>4 DEF StratumRecvThread
  <2>2. CASE StratumAuthorizeClosed
    <3>1. received' = received \o <<>> /\ UNCHANGED <<taken, activeTasks>>
      BY <2>2 DEF StratumAuthorizeClosed, StratumAuthorized
    <3>2. received' = received
      BY <1>1, <3>1
    <3>3. QED
      BY <1>2, <2>1, <3>1, <3>2 DEF tdVars
  <2>3. CASE \/ StratumCheckStop \/ StratumCheck \/ StratumNotConnected \/ StratumReadClosed
             \/ StratumSubscribeClosed \/ StratumBackoffStop
    <3>1. UNCHANGED <<received, taken, activeTasks>>
      BY <2>3 DEF StratumCheckStop, StratumCheck, StratumNotConnected, StratumReadClosed,
                  StratumSubscribeClosed, StratumBackoffStop, sharedVars
    <3>2. QED
      BY <1>2, <2>1, <3>1 DEF tdVars
  <2>4. QED
    BY <1>4, <2>2, <2>3 DEF StratumRecvThread, StratumOwnStep
<1>5. CASE QubicRecvSolution \/ QubicRecvStop
  BY <1>2, <1>5 DEF QubicRecvSolution, QubicRecvStop, tdVars, sharedVars
<1>6. CASE ShareValidThread
  <2>1. UNCHANGED <<received, taken, activeTasks>>
    BY <1>6 DEF ShareValidThread, ShareValidStep, ShareValidCheck, ShareValidSkipDuplicate,
                ShareValidPop, ShareValidStale, ShareValidGet, ShareValidReject,
                ShareValidAccept, ShareValidSend, sharedVars
  <2>2. QED
    BY <1>2, <1>6, <2>1 DEF ShareValidThread, tdVars
<1>7. CASE Clock
  BY <1>2, <1>7 DEF Clock, ClockTick, sharedVars
<1>8. CASE MainQuit \/ MainShutdown
  <2>1. UNCHANGED <<tdVars, taken>>
    BY <1>8, MainType
  <2>2. CASE MainWakeTaskDist
    <3>1. received' = Append(received, [kind |-> "ignored"]) /\ activeTasks' = activeTasks
      BY <2>2 DEF MainWakeTaskDist, PushMessage
    <3>2. QED
      BY <1>1, <2>1, <3>1 DEF OthersStep, tdVars
  <2>3. CASE ~MainWakeTaskDist
    <3>1. UNCHANGED <<received, activeTasks>>
      BY <1>8, <2>3 DEF MainQuit, MainShutdown, MainClose, MainStopTaskDist,
                MainStopShareValid, MainWakeShareValid, MainJoinShareValid, MainJoinQubicRecv,
                MainJoinTaskDist, MainJoinStratumRecv, MainRequestStop, sharedVars
    <3>2. QED
      BY <1>2, <2>1, <3>1 DEF tdVars
  <2>4. QED
    BY <2>2, <2>3
<1>9. CASE UNCHANGED vars
  BY <1>2, <1>9 DEF vars, sharedVars, tdVars
<1>10. QED
  BY <1>3, <1>4, <1>5, <1>6, <1>7, <1>8, <1>9 DEF Next, Exited

LEMMA DistributionInit == Init => DistributionInv
BY DEF Init, TaskDistInit, DistributionInv, DistributesLatest, EmptyMap

LEMMA DistributionNext == TypeInv /\ DistributionInv /\ [Next]_vars => DistributionInv'
<1> SUFFICES ASSUME TypeInv, DistributionInv, [Next]_vars
             PROVE  DistributionInv'
    OBVIOUS
<1>1. taken \in Nat /\ taken <= Len(received) /\ received \in Seq(Message)
  BY DEF TypeInv, TypeOK, SharedTypeOK
<1>2. latestNotify \in 0..taken /\ activeTasks \in [DOMAIN activeTasks -> Task]
  BY DEF TypeInv, TypeOK, SharedTypeOK, TaskDistTypeOK
<1>3. CASE OthersStep
  <2>1. \A i \in 1..taken : /\ IsNotify(i)' <=> IsNotify(i)
                            /\ IsCleanNotify(i)' <=> IsCleanNotify(i)
    BY <1>3 DEF OthersStep, IsNotify, IsCleanNotify
  <2>2. \A n \in Nat : NotCleanedSince(n)' <=> NotCleanedSince(n)
    BY <1>1, <1>3, <2>1 DEF OthersStep, NotCleanedSince
  <2>3. DistributesLatest'
    BY <1>1, <1>2, <1>3, <2>1 DEF OthersStep, DistributesLatest, DistributionInv
  <2>4. \A j \in DOMAIN activeTasks : activeTasks[j].notify \in Nat
    BY <1>2 DEF Task
  <2>5. dispatcherTask.task.notify \in Nat
    BY DEF TypeInv, TypeOK, TaskDistTypeOK, SentTask, Task
  <2>6. QED
    BY <1>3, <2>2, <2>3, <2>4, <2>5 DEF OthersStep, DistributionInv
<1>4. CASE TaskDistThread
  <2>1. CASE TaskDistCheck
    BY <2>1 DEF TaskDistCheck, DistributionInv, DistributesLatest, NotCleanedSince, IsNotify,
                IsCleanNotify, sharedVars
  <2>2. CASE TaskDistPop \/ TaskDistDrain
    <3>1. taken' = taken + 1 /\ received' = received /\ activeTasks' = activeTasks
      BY <2>2 DEF TaskDistPop, TaskDistDrain, PopMessage
    <3>2. FrontMessage = received[taken + 1] /\ FrontMessage \in Message
      BY <2>2, PoppedMessageType DEF TaskDistPop, TaskDistDrain, FrontMessage, TypeInv, TypeOK
    <3>3. ASSUME NEW n \in Nat, NotCleanedSince(n), ~IsCleanNotify(taken + 1)
          PROVE  NotCleanedSince(n)'
      BY <1>1, <3>1, <3>3 DEF NotCleanedSince, IsCleanNotify, IsNotify
    <3>4. \A j \in DOMAIN activeTasks : activeTasks[j].notify \in Nat
      BY <1>2 DEF Task
    <3>5. DistributesLatest'
      <4>1. CASE TaskDistPop
        BY <1>1, <3>1, <3>2, <4>1 DEF TaskDistPop, DistributesLatest, IsNotify
      <4>2. CASE TaskDistDrain
        BY <1>1, <1>2, <3>1, <3>2, <4>2
           DEF TaskDistDrain, DrainedNotify, DistributesLatest, DistributionInv, IsNotify
      <4>3. QED
        BY <2>2, <4>1, <4>2
    <3>6. \/ tdPc' \in {"drain", "clear"} /\ cleanJobQueue'
          \/ \A j \in DOMAIN activeTasks' : NotCleanedSince(activeTasks[j].notify)'
      <4>1. CASE IsCleanNotify(taken + 1)
        BY <2>2, <3>2, <4>1
           DEF IsCleanNotify, IsNotify, TaskDistPop, TaskDistDrain, DrainedClean
      <4>2. CASE ~IsCleanNotify(taken + 1)
        <5>1. CASE \A j \in DOMAIN activeTasks : NotCleanedSince(activeTasks[j].notify)
          BY <3>1, <3>3, <3>4, <4>2, <5>1
        <5>2. CASE tdPc \in {"drain", "clear"} /\ cleanJobQueue
          BY <2>2, <5>2 DEF TaskDistPop, TaskDistDrain, DrainedClean
        <5>3. QED
          BY <5>1, <5>2 DEF DistributionInv
      <4>3. QED
        BY <4>1, <4>2
    <3>7. tdPc' # "insert"
      BY <2>2 DEF TaskDistPop, TaskDistDrain
    <3>8. QED
      BY <3>1, <3>5, <3>6, <3>7 DEF DistributionInv
  <2>3. CASE TaskDistDrained
    BY <2>3 DEF TaskDistDrained, DistributionInv, DistributesLatest, NotCleanedSince, IsNotify,
                IsCleanNotify, sharedVars
  <2>4. CASE DistributeClear
    <3>1. UNCHANGED <<received, taken>>
      BY <2>4 DEF DistributeClear
    <3>2. DistributesLatest'
      BY <2>4, <3>1 DEF DistributeClear, DistributesLatest, DistributionInv, IsNotify
    <3>3. \A j \in DOMAIN activeTasks' : NotCleanedSince(activeTasks'[j].notify)
      <4>1. CASE cleanJobQueue \/ received[latestNotify].clean
        BY <2>4, <4>1 DEF DistributeClear, EmptyMap
      <4>2. CASE ~(cleanJobQueue \/ received[latestNotify].clean)
        BY <2>4, <4>2 DEF DistributeClear, DistributionInv
      <4>3. QED
        BY <4>1, <4>2
    <3>4. QED
      BY <2>4, <3>1, <3>2, <3>3
         DEF DistributeClear, DistributionInv, NotCleanedSince, IsCleanNotify, IsNotify
  <2>5. CASE DistributeSend
    <3>1. UNCHANGED <<received, taken, activeTasks>> /\ tdPc = "send" /\ tdPc' = "insert"
      BY <2>5 DEF DistributeSend, sharedVars
    <3>2. NotCleanedSince(dispatcherTask'.task.notify)
      BY <2>5, <3>1
         DEF DistributeSend, DistributionInv, DistributesLatest, NotCleanedSince, IsCleanNotify
    <3>3. QED
      BY <3>1, <3>2
         DEF DistributionInv, DistributesLatest, NotCleanedSince, IsCleanNotify, IsNotify
  <2>6. CASE DistributeInsert
    <3>1. UNCHANGED <<received, taken>> /\ tdPc = "insert" /\ tdPc' = "check"
      BY <2>6 DEF DistributeInsert
    <3>2. \A j \in DOMAIN activeTasks' : NotCleanedSince(activeTasks'[j].notify)
      BY <2>6, <3>1 DEF DistributeInsert, Insert, DistributionInv
    <3>3. QED
      BY <3>1, <3>2
         DEF DistributionInv, DistributesLatest, NotCleanedSince, IsCleanNotify, IsNotify
  <2>7. QED
    BY <1>4, <2>1, <2>2, <2>3, <2>4, <2>5, <2>6 DEF TaskDistThread, TaskDistStep
<1>5. QED
  BY <1>3, <1>4, OthersNeverDisturb

LEMMA DistributionAlways == Spec => [](TypeInv /\ DistributionInv)
<1>1. Init => TypeInv /\ DistributionInv
  BY TypeInit, DistributionInit DEF Init, TypeInv, SolutionPopped, ShareValidInit
<1>2. TypeInv /\ DistributionInv /\ [Next]_vars => TypeInv' /\ DistributionInv'
  BY TypeNext, DistributionNext
<1>3. QED
  BY <1>1, <1>2, PTL DEF Spec

(* Whatever the pool sends and however the threads interleave, a clean flag   *)
(* empties the table of every older task before the next job is handled.      *)
THEOREM DistributionCorrect == Spec => []CleanFlagHonoured
<1>1. DistributionInv => CleanFlagHonoured
  BY DEF DistributionInv, CleanFlagHonoured, NotCleanedSince
<1>2. QED
  BY <1>1, DistributionAlways, PTL

(* The job that taskDistThread distributes is the last one it has taken off   *)
(* the queue: draining never leaves an older one in its place.                *)
THEOREM LatestDistributed == Spec => []DistributesLatest
<1>1. DistributionInv => DistributesLatest
  BY DEF DistributionInv
<1>2. QED
  BY <1>1, DistributionAlways, PTL


-----------------------------------------------------------------------------
(* The steps of every other thread leave alone what shareValidThread has      *)
(* taken off its queue and what it keeps for itself.                          *)
OthersQueueSolutions ==
    /\ UNCHANGED <<svVars, solTaken>>
    /\ \A i \in 1..solTaken : solutions'[i] = solutions[i]

LEMMA ValidationUndisturbed ==
    ASSUME TypeInv, [Next]_vars
    PROVE  ShareValidThread \/ OthersQueueSolutions
<1> USE DEF TypeInv, TypeOK
<1>1. solTaken \in Nat /\ solTaken <= Len(solutions) /\ solutions \in Seq(Solution)
  BY DEF SharedTypeOK
<1>2. ASSUME UNCHANGED <<svVars, solTaken, solutions>>
      PROVE  OthersQueueSolutions
  BY <1>2 DEF OthersQueueSolutions
<1>3. ASSUME NEW s \in Solution, PushSolution(s), UNCHANGED <<svVars, solTaken>>
      PROVE  OthersQueueSolutions
  BY <1>1, <1>3, PushKeepsMessages DEF OthersQueueSolutions, PushSolution
<1>4. CASE Pool
  <2>1. UNCHANGED <<svVars, solTaken>>
    BY <1>4, PoolType
  <2>2. solutions' = solutions
    BY <1>4 DEF Pool, PoolSends, PoolAnswers, PoolAuthorizes, PoolHandshake, PoolRefuses,
                PoolConnection, StratumRead, StratumAuthorized, StratumSubscribed,
                StratumWrongNonceSize,
                StratumInitFailed, StratumReadLost, StratumOpenFailed, StratumOpen
  <2>3. QED
    BY <1>2, <2>1, <2>2
<1>5. CASE StratumRecvThread
  <2>1. UNCHANGED <<svVars, solTaken>>
    BY <1>5, StratumRecvThreadType
  <2>2. solutions' = solutions
    BY <1>5 DEF StratumRecvThread, StratumOwnStep, StratumCheckStop, StratumCheck,
                StratumNotConnected, StratumReadClosed, StratumSubscribeClosed,
                StratumAuthorizeClosed, StratumAuthorized, StratumBackoffStop, sharedVars
  <2>3. QED
    BY <1>2, <2>1, <2>2
<1>6. CASE TaskDistThread
  <2>1. UNCHANGED <<solTaken, solutions>>
    BY <1>6 DEF TaskDistThread, TaskDistStep, TaskDistCheck, TaskDistPop, TaskDistDrain,
                TaskDistDrained, DistributeClear, DistributeSend, DistributeInsert, sharedVars
  <2>2. QED
    BY <1>2, <1>6, <2>1 DEF TaskDistThread
<1>7. CASE QubicRecvSolution
  <2>1. PICK s \in Solution : PushSolution(s)
    BY <1>7, QubicRecvReceives
  <2>2. QED
    BY <1>3, <1>7, <2>1 DEF QubicRecvSolution
<1>8. CASE QubicRecvStop \/ Clock
  BY <1>2, <1>8 DEF QubicRecvStop, Clock, ClockTick, sharedVars
<1>9. CASE MainQuit \/ MainShutdown
  <2>1. UNCHANGED <<svVars, solTaken>>
    BY <1>9, MainType
  <2>2. CASE MainWakeShareValid
    BY <1>3, <2>1, <2>2, ZeroSolutionType DEF MainWakeShareValid
  <2>3. CASE ~MainWakeShareValid
    <3>1. solutions' = solutions
      BY <1>9, <2>3 DEF MainQuit, MainShutdown, MainClose, MainStopTaskDist,
                MainStopShareValid, MainWakeTaskDist, MainJoinShareValid, MainJoinQubicRecv,
                MainJoinTaskDist, MainJoinStratumRecv, MainRequestStop, sharedVars
    <3>2. QED
      BY <1>2, <2>1, <3>1
  <2>4. QED
    BY <2>2, <2>3
<1>10. CASE UNCHANGED vars
  BY <1>2, <1>10 DEF vars, sharedVars
<1>11. QED
  BY <1>4, <1>5, <1>6, <1>7, <1>8, <1>9, <1>10 DEF Next, Exited

-----------------------------------------------------------------------------
LEMMA AccountedNext == TypeInv /\ SolutionsAccounted /\ [Next]_vars => SolutionsAccounted'
<1> SUFFICES ASSUME TypeInv, SolutionsAccounted, [Next]_vars
             PROVE  SolutionsAccounted'
    OBVIOUS
<1>1. /\ solTaken \in Nat /\ nextStratumSendId \in Nat
      /\ svStats \in [received : Nat, accepted : Nat, rejected : Nat, stale : Nat,
                      passedPoolDiff : Nat]
      /\ submitted \in Seq(Submission) /\ Len(submitted) \in Nat
  BY DEF TypeInv, TypeOK, SharedTypeOK, ShareValidTypeOK
<1>2. /\ svStats.received \in Nat /\ svStats.accepted \in Nat
      /\ svStats.rejected \in Nat /\ svStats.stale \in Nat
  BY <1>1
<1>3. CASE OthersQueueSolutions
  BY <1>3 DEF OthersQueueSolutions, SolutionsAccounted, svVars
<1>4. CASE ShareValidThread
  <2>1. CASE ShareValidCheck
    BY <2>1 DEF ShareValidCheck, SolutionsAccounted, sharedVars
  <2>2. CASE ShareValidSkipDuplicate
    BY <1>1, <1>2, <2>2 DEF ShareValidSkipDuplicate, PopSolution, SolutionsAccounted
  <2>3. CASE ShareValidPop
    BY <1>1, <1>2, <2>3 DEF ShareValidPop, PopSolution, SolutionsAccounted
  <2>4. CASE ShareValidStale
    BY <1>1, <1>2, <2>4 DEF ShareValidStale, SolutionsAccounted, sharedVars
  <2>5. CASE ShareValidGet
    BY <2>5 DEF ShareValidGet, SolutionsAccounted, sharedVars
  <2>6. CASE ShareValidReject
    BY <1>1, <1>2, <2>6 DEF ShareValidReject, SolutionsAccounted, sharedVars
  <2>7. CASE ShareValidAccept
    <3>1. /\ svStats'.received = svStats.received /\ svStats'.rejected = svStats.rejected
          /\ svStats'.stale = svStats.stale /\ svStats'.accepted = svStats.accepted + 1
      BY <1>1, <2>7 DEF ShareValidAccept
    <3>2. svPc = "verify" /\ svPc' \in {"send", "check"}
      BY <2>7 DEF ShareValidAccept
    <3>3. UNCHANGED <<solTaken, nextStratumSendId, submitted>>
      BY <2>7 DEF ShareValidAccept, sharedVars
    <3>4. QED
      BY <1>1, <1>2, <3>1, <3>2, <3>3 DEF SolutionsAccounted
  <2>8. CASE ShareValidSend
    <3>1. Len(submitted') <= Len(submitted) + 1 /\ Len(submitted') \in Nat
      BY <1>1, <2>8 DEF ShareValidSend
    <3>2. QED
      BY <1>1, <1>2, <2>8, <3>1 DEF ShareValidSend, NextSendId, SolutionsAccounted
  <2>9. QED
    BY <1>4, <2>1, <2>2, <2>3, <2>4, <2>5, <2>6, <2>7, <2>8
       DEF ShareValidThread, ShareValidStep
<1>5. QED
  BY <1>3, <1>4, ValidationUndisturbed

(* However the threads interleave and wherever the connection breaks, every   *)
(* counted solution ends as exactly one of accepted, rejected and stale, and  *)
(* no more shares are submitted than were accepted.                           *)
THEOREM SolutionsBalance == Spec => []SolutionsAccounted
<1>1. Init => TypeInv
  BY TypeInit DEF Init, TypeInv, SolutionPopped, ShareValidInit
<1>2. Init => SolutionsAccounted
  BY DEF Init, ShareValidInit, SolutionsAccounted
<1>3. QED
  BY <1>1, <1>2, TypeNext, AccountedNext, PTL DEF Spec

-----------------------------------------------------------------------------
InFlight == svPc \in {"get", "verify", "send"}

(* A solution for another job was taken off the queue since submission i.     *)
OtherJobSince(i) ==
    \E k \in submitted[i].at..solTaken : solutions[k].jobId # submitted[i].jobId

(* DuplicatesOnlyAcrossJobs is not inductive: it rests on the dedup set,      *)
(* which holds keys of one job only, and on every submission being in it      *)
(* until a solution for another job is taken.                                 *)
DedupInv ==
    /\ DuplicatesOnlyAcrossJobs
    /\ \A i \in 1..Len(submitted) : submitted[i].at \in 1..solTaken
    /\ \A r \in recentSubmits : r[1] = lastCleanJobId
    /\ InFlight => sol.jobId = lastCleanJobId
    /\ svPc \in {"get", "verify"} => DedupeKey(sol) \notin recentSubmits
    /\ \A i \in 1..Len(submitted) :
         DedupeKey(submitted[i]) \in recentSubmits \/ OtherJobSince(i)
    /\ svPc = "send" =>
         /\ DedupeKey(sol) \in recentSubmits
         /\ \A i \in 1..Len(submitted) :
              DedupeKey(submitted[i]) = DedupeKey(sol) => OtherJobSince(i)

(* What was said of the solutions taken stays true when more are taken.       *)
LEMMA OtherJobRemains ==
    ASSUME TypeInv, DedupInv, submitted' = submitted, solTaken' \in Nat, solTaken <= solTaken',
           \A i \in 1..solTaken : solutions'[i] = solutions[i]
    PROVE  /\ \A i \in 1..Len(submitted) : OtherJobSince(i) => OtherJobSince(i)'
           /\ \A i \in 1..Len(submitted) : submitted[i].at \in 1..solTaken'
           /\ DuplicatesOnlyAcrossJobs'
<1>1. solTaken \in Nat /\ Len(submitted) \in Nat
  BY DEF TypeInv, TypeOK, SharedTypeOK, ShareValidTypeOK
<1>2. \A i \in 1..Len(submitted) : submitted[i].at \in 1..solTaken
  BY DEF DedupInv
<1>3. \A i \in 1..Len(submitted) : OtherJobSince(i) => OtherJobSince(i)'
  BY <1>1, <1>2 DEF OtherJobSince
<1>4. \A i, j \in 1..Len(submitted) : \A k \in submitted[i].at..submitted[j].at :
        solutions'[k] = solutions[k]
  BY <1>1, <1>2
<1>5. DuplicatesOnlyAcrossJobs'
  BY <1>4 DEF DuplicatesOnlyAcrossJobs, DedupInv, DedupeKey
<1>6. QED
  BY <1>1, <1>2, <1>3, <1>5

LEMMA DedupNext == TypeInv /\ DedupInv /\ [Next]_vars => DedupInv'
<1> SUFFICES ASSUME TypeInv, DedupInv, [Next]_vars
             PROVE  DedupInv'
    OBVIOUS
<1>1. /\ solTaken \in Nat /\ Len(submitted) \in Nat /\ submitted \in Seq(Submission)
      /\ solTaken <= Len(solutions) /\ solutions \in Seq(Solution)
      /\ Len(solutions) \in Nat
  BY DEF TypeInv, TypeOK, SharedTypeOK, ShareValidTypeOK
<1>2. InFlight => solTaken \in 1..Len(solutions)
  BY <1>1 DEF InFlight, TypeInv, SolutionPopped
<1>3. CASE OthersQueueSolutions
  <2>1. UNCHANGED <<svPc, recentSubmits, lastCleanJobId, submitted, solTaken>>
    BY <1>3 DEF OthersQueueSolutions, svVars
  <2>2. /\ \A i \in 1..Len(submitted) : OtherJobSince(i) => OtherJobSince(i)'
        /\ DuplicatesOnlyAcrossJobs'
    BY <1>1, <1>3, <2>1, OtherJobRemains DEF OthersQueueSolutions
  <2>3. InFlight => sol' = sol
    BY <1>1, <1>2, <1>3, <2>1 DEF OthersQueueSolutions, sol
  <2>4. QED
    BY <2>1, <2>2, <2>3 DEF DedupInv, InFlight, DedupeKey
<1>4. CASE ShareValidThread
  <2>1. ASSUME ShareValidCheck \/ ShareValidStale \/ ShareValidGet \/ ShareValidReject
        PROVE  DedupInv'
    <3>1. UNCHANGED <<recentSubmits, lastCleanJobId, submitted, solTaken, solutions>>
      BY <2>1 DEF ShareValidCheck, ShareValidStale, ShareValidGet, ShareValidReject, sharedVars
    <3>2. \/ svPc' \notin {"get", "verify", "send"}
          \/ svPc = "get" /\ svPc' = "verify"
      BY <2>1 DEF ShareValidCheck, ShareValidStale, ShareValidGet, ShareValidReject
    <3>3. QED
      BY <3>1, <3>2 DEF DedupInv, InFlight, DuplicatesOnlyAcrossJobs, OtherJobSince, sol,
                        DedupeKey
  <2>2. ASSUME ShareValidSkipDuplicate
        PROVE  DedupInv'
    <3>1. /\ UNCHANGED <<recentSubmits, lastCleanJobId, submitted, solutions>>
          /\ solTaken' = solTaken + 1 /\ svPc' = "check"
      BY <2>2 DEF ShareValidSkipDuplicate, PopSolution
    <3>2. QED
      BY <1>1, <3>1, OtherJobRemains DEF DedupInv, InFlight
  <2>3. ASSUME ShareValidPop
        PROVE  DedupInv'
    <3>1. /\ UNCHANGED <<submitted, solutions>>
          /\ solTaken' = solTaken + 1 /\ svPc' = "get" /\ lastCleanJobId' = FrontSolution.jobId
          /\ recentSubmits' = IF ForgetsSubmits(FrontSolution) THEN {} ELSE recentSubmits
          /\ DedupeKey(FrontSolution) \notin recentSubmits
      BY <2>3 DEF ShareValidPop, PopSolution
    <3>2. sol' = FrontSolution
      BY <3>1 DEF sol, FrontSolution
    <3>3. /\ \A i \in 1..Len(submitted) : OtherJobSince(i) => OtherJobSince(i)'
          /\ \A i \in 1..Len(submitted) : submitted[i].at \in 1..solTaken'
          /\ DuplicatesOnlyAcrossJobs'
      BY <1>1, <3>1, OtherJobRemains
    <3>4. \A i \in 1..Len(submitted) :
            DedupeKey(submitted[i]) \in recentSubmits' \/ OtherJobSince(i)'
      <4> SUFFICES ASSUME NEW i \in 1..Len(submitted)
                   PROVE  DedupeKey(submitted[i]) \in recentSubmits' \/ OtherJobSince(i)'
          OBVIOUS
      <4>1. CASE OtherJobSince(i)
        BY <3>3, <4>1
      <4>2. CASE DedupeKey(submitted[i]) \in recentSubmits /\ ~ForgetsSubmits(FrontSolution)
        BY <3>1, <4>2
      <4>3. CASE DedupeKey(submitted[i]) \in recentSubmits /\ ForgetsSubmits(FrontSolution)
        <5>1. submitted[i].jobId = lastCleanJobId
          BY <4>3 DEF DedupInv, DedupeKey
        <5>2. solutions'[solTaken'].jobId # submitted[i].jobId
          BY <3>1, <4>3, <5>1 DEF ForgetsSubmits, FrontSolution
        <5>3. solTaken' \in submitted[i].at..solTaken'
          BY <1>1, <3>1, <3>3
        <5>4. QED
          BY <3>1, <5>2, <5>3 DEF OtherJobSince
      <4>4. QED
        BY <4>1, <4>2, <4>3 DEF DedupInv
    <3>5. \A r \in recentSubmits' : r[1] = lastCleanJobId'
      BY <3>1 DEF DedupInv, ForgetsSubmits
    <3>6. QED
      BY <3>1, <3>2, <3>3, <3>4, <3>5 DEF DedupInv, InFlight, DedupeKey
  <2>4. ASSUME ShareValidAccept
        PROVE  DedupInv'
    <3>1. /\ UNCHANGED <<submitted, solutions, solTaken, lastCleanJobId>>
          /\ svPc = "verify" /\ svPc' \in {"send", "check"}
          /\ recentSubmits' = recentSubmits \cup {DedupeKey(sol)}
      BY <2>4 DEF ShareValidAccept, Remembered, sharedVars
    <3>2. sol' = sol
      BY <3>1 DEF sol
    <3>3. \A i \in 1..Len(submitted) :
            DedupeKey(submitted[i]) = DedupeKey(sol) => OtherJobSince(i)
      BY <3>1 DEF DedupInv
    <3>4. \A r \in recentSubmits' : r[1] = lastCleanJobId'
      BY <3>1 DEF DedupInv, InFlight, DedupeKey
    <3>5. QED
      BY <3>1, <3>2, <3>3, <3>4
         DEF DedupInv, InFlight, DuplicatesOnlyAcrossJobs, OtherJobSince, DedupeKey
  <2>5. ASSUME ShareValidSend
        PROVE  DedupInv'
    <3> DEFINE new == [id |-> nextStratumSendId, jobId |-> sol.jobId, key |-> sol.key,
                       nTime |-> sol.nTime, task |-> task, at |-> solTaken,
                       session |-> session]
    <3>1. /\ UNCHANGED <<solutions, solTaken, lastCleanJobId, recentSubmits>>
          /\ svPc = "send" /\ svPc' = "check"
          /\ submitted' = submitted \/ submitted' = Append(submitted, new)
      BY <2>5 DEF ShareValidSend
    <3>2. CASE submitted' = submitted
      BY <3>1, <3>2 DEF DedupInv, InFlight, DuplicatesOnlyAcrossJobs, OtherJobSince, DedupeKey
    <3>3. CASE submitted' = Append(submitted, new)
      <4> DEFINE n == Len(submitted) + 1
      <4>1. /\ Len(submitted') = n /\ submitted'[n] = new
            /\ \A i \in 1..Len(submitted) : submitted'[i] = submitted[i]
        BY <1>1, <3>3
      <4>2. \A i \in 1..n : i = n \/ i \in 1..Len(submitted)
        BY <1>1
      <4>3. new.at = solTaken /\ DedupeKey(new) = DedupeKey(sol) /\ new.jobId = sol.jobId
        BY DEF DedupeKey
      <4>4. solTaken \in 1..solTaken
        BY <1>1, <1>2, <3>1 DEF InFlight
      <4>5. \A i \in 1..n : submitted'[i].at \in 1..solTaken
        BY <4>1, <4>2, <4>3, <4>4 DEF DedupInv
      <4>6. \A i \in 1..n : DedupeKey(submitted'[i]) \in recentSubmits \/ OtherJobSince(i)'
        <5>1. \A i \in 1..Len(submitted) : OtherJobSince(i) => OtherJobSince(i)'
          BY <3>1, <4>1 DEF OtherJobSince
        <5>2. QED
          BY <3>1, <4>1, <4>2, <4>3, <5>1 DEF DedupInv, DedupeKey
      <4>7. DuplicatesOnlyAcrossJobs'
        <5> SUFFICES ASSUME NEW i \in 1..n, NEW j \in 1..n, i < j,
                            DedupeKey(submitted'[i]) = DedupeKey(submitted'[j])
                     PROVE  \E k \in submitted'[i].at..submitted'[j].at :
                              solutions[k].jobId # submitted'[i].jobId
            BY <3>1, <4>1 DEF DuplicatesOnlyAcrossJobs, DedupeKey
        <5>1. i \in 1..Len(submitted)
          BY <1>1
        <5>2. CASE j = n
          <6>1. OtherJobSince(i)
            BY <3>1, <4>1, <4>3, <5>1, <5>2 DEF DedupInv, DedupeKey
          <6>2. QED
            BY <4>1, <4>3, <5>1, <5>2, <6>1 DEF OtherJobSince
        <5>3. CASE j \in 1..Len(submitted)
          BY <4>1, <5>1, <5>3 DEF DedupInv, DuplicatesOnlyAcrossJobs, DedupeKey
        <5>4. QED
          BY <4>2, <5>2, <5>3
      <4>8. QED
        BY <3>1, <4>1, <4>5, <4>6, <4>7 DEF DedupInv, InFlight, DedupeKey
    <3>4. QED
      BY <3>1, <3>2, <3>3
  <2>6. QED
    BY <1>4, <2>1, <2>2, <2>3, <2>4, <2>5 DEF ShareValidThread, ShareValidStep
<1>5. QED
  BY <1>3, <1>4, ValidationUndisturbed

(* A share reaches the pool twice only if the network sent a solution for     *)
(* another job in between, for any number of jobs, keys and reconnections.    *)
THEOREM DedupHolds == Spec => []DuplicatesOnlyAcrossJobs
<1>1. Init => TypeInv
  BY TypeInit DEF Init, TypeInv, SolutionPopped, ShareValidInit
<1>2. Init => DedupInv
  BY DEF Init, ShareValidInit, DedupInv, InFlight, DuplicatesOnlyAcrossJobs
<1>3. DedupInv => DuplicatesOnlyAcrossJobs
  BY DEF DedupInv
<1>4. QED
  BY <1>1, <1>2, <1>3, TypeNext, DedupNext, PTL DEF Spec

-----------------------------------------------------------------------------
(* What taskDistThread keeps comes from the pool: the difficulty is the one   *)
(* in force, a notify about to be sent is well formed, and every task that is *)
(* active or about to be was built from them.                                 *)
TasksBuilt ==
    /\ currentPoolDifficulty \in Difficulties \cup {1}
    /\ InForce(currentPoolDifficulty, taken)
    /\ tdPc = "send" => received[latestNotify].wellFormed
    /\ tdPc = "insert" => BuiltFromPool(dispatcherTask.task)
    /\ \A j \in DOMAIN activeTasks : BuiltFromPool(activeTasks[j])

(* SubmittedSharesMeetDifficulty with what it rests on in shareValidThread:   *)
(* the copy of the task outlives its removal from activeTasks.                *)
SharesBuilt ==
    /\ SubmittedSharesMeetDifficulty
    /\ svPc \in {"verify", "send"} => BuiltFromPool(task)
    /\ svPc = "send" => VerifyHashVsTarget(task, sol)

(* The messages taken so far are still there, perhaps followed by more.       *)
MoreMessages ==
    /\ taken' \in Nat /\ taken <= taken'
    /\ \A i \in 1..taken : received'[i] = received[i]

LEMMA InForceRemains ==
    ASSUME taken \in Nat, MoreMessages, NEW d, NEW p \in 0..taken, InForce(d, p)
    PROVE  InForce(d, p)'
<1>1. \A i \in 1..p : received'[i] = received[i]
  BY DEF MoreMessages
<1>2. PICK i \in 0..p :
        /\ \A j \in (i + 1)..p : ~IsSetDifficulty(j)
        /\ IF i = 0 THEN d = 1 ELSE IsSetDifficulty(i) /\ d = received[i].diff
  BY DEF InForce
<1>3. \A j \in (i + 1)..p : ~IsSetDifficulty(j)'
  BY <1>1, <1>2 DEF IsSetDifficulty
<1>4. IF i = 0 THEN d = 1 ELSE IsSetDifficulty(i)' /\ d = received'[i].diff
  BY <1>1, <1>2 DEF IsSetDifficulty
<1>5. QED
  BY <1>2, <1>3, <1>4 DEF InForce

(* A task built from the messages taken so far stays so.                      *)
LEMMA BuiltRemains ==
    ASSUME taken \in Nat, MoreMessages, NEW t, BuiltFromPool(t)
    PROVE  BuiltFromPool(t)'
<1>1. t.notify \in 1..taken /\ t.notify \in 1..taken'
  BY DEF BuiltFromPool, MoreMessages
<1>2. IsNotify(t.notify)' /\ received'[t.notify].wellFormed
  BY <1>1 DEF BuiltFromPool, MoreMessages, IsNotify
<1>3. PICK p \in t.notify..taken, d \in Difficulties \cup {1} :
        InForce(d, p) /\ t.target = TargetOf(d)
  BY DEF BuiltFromPool
<1>4. InForce(d, p)'
  BY <1>1, <1>3, InForceRemains
<1>5. p \in t.notify..taken'
  BY <1>1, <1>3 DEF MoreMessages
<1>6. QED
  BY <1>1, <1>2, <1>3, <1>4, <1>5 DEF BuiltFromPool

(* The difficulty of a popped set_difficulty is the one in force.             *)
LEMMA AppliedInForce ==
    ASSUME TypeInv, TasksBuilt, PopMessage, ApplyMessage(FrontMessage), received' = received
    PROVE  /\ MoreMessages
           /\ currentPoolDifficulty' \in Difficulties \cup {1}
           /\ InForce(currentPoolDifficulty, taken)'
<1>1. taken \in Nat /\ taken' = taken + 1 /\ FrontMessage \in Message
  BY PoppedMessageType DEF TypeInv, TypeOK, SharedTypeOK
<1>2. MoreMessages
  BY <1>1 DEF MoreMessages
<1>3. CASE FrontMessage.kind = "set_difficulty"
  <2>1. currentPoolDifficulty' = FrontMessage.diff /\ FrontMessage.diff \in Difficulties
    BY <1>1, <1>3 DEF ApplyMessage, Message, Notify, SetDifficulty, Response, Ignored
  <2>2. IsSetDifficulty(taken)' /\ currentPoolDifficulty' = received'[taken'].diff
    BY <1>1, <1>3, <2>1 DEF IsSetDifficulty, FrontMessage
  <2>3. InForce(currentPoolDifficulty, taken)'
    BY <1>1, <2>2 DEF InForce
  <2>4. QED
    BY <1>2, <2>1, <2>3
<1>4. CASE FrontMessage.kind # "set_difficulty"
  <2>1. currentPoolDifficulty' = currentPoolDifficulty
    BY <1>4 DEF ApplyMessage
  <2>2. PICK i \in 0..taken :
          /\ \A j \in (i + 1)..taken : ~IsSetDifficulty(j)
          /\ IF i = 0 THEN currentPoolDifficulty = 1
                      ELSE IsSetDifficulty(i) /\ currentPoolDifficulty = received[i].diff
    BY DEF TasksBuilt, InForce
  <2>3. \A j \in (i + 1)..(taken + 1) : ~IsSetDifficulty(j)'
    BY <1>1, <1>4, <2>2 DEF IsSetDifficulty, FrontMessage
  <2>4. i \in 0..(taken + 1)
    BY <1>1, <2>2
  <2>5. InForce(currentPoolDifficulty, taken)'
    BY <1>1, <2>1, <2>2, <2>3, <2>4 DEF InForce, IsSetDifficulty
  <2>6. QED
    BY <1>2, <2>1, <2>5 DEF TasksBuilt
<1>5. QED
  BY <1>3, <1>4

(* A solution's answer: all its fields but the root are in the submission.    *)
Answers(s, a) ==
    a = [jobId |-> s.jobId, key |-> s.key, nTime |-> s.nTime, root |-> a.root]

(* What SubmittedSharesMeetDifficulty rests on for one submission.            *)
MeetsDifficulty(s) ==
    /\ BuiltFromPool(s.task)
    /\ HeaderMeets(s.task, solutions[s.at].root, s)
    /\ s.at \in 1..solTaken
    /\ Answers(s, solutions[s.at])

(* A share mined for one task carries the pool's root.                        *)
LEMMA OneTaskRoot ==
    ASSUME NEW s, MinedForOneTask(s)
    PROVE  solutions[s.at].root = PoolRoot(s)
BY DEF MinedForOneTask, RootOf, PoolRoot

LEMMA AllMeetDifficulty ==
    SubmittedSharesMeetDifficulty <=> \A i \in 1..Len(submitted) : MeetsDifficulty(submitted[i])
<1>1. ASSUME NEW i \in 1..Len(submitted), MinedForOneTask(submitted[i]),
             HeaderMeets(submitted[i].task, solutions[submitted[i].at].root, submitted[i])
      PROVE  HeaderMeets(submitted[i].task, PoolRoot(submitted[i]), submitted[i])
  BY <1>1, OneTaskRoot
<1>2. QED
  BY <1>1 DEF SubmittedSharesMeetDifficulty, MeetsDifficulty, Answers

LEMMA AllMeetDifficultyNext ==
    SubmittedSharesMeetDifficulty' <=>
        \A i \in 1..Len(submitted') :
            LET s == submitted'[i]
                a == solutions'[s.at]
            IN  /\ BuiltFromPool(submitted[i].task)'
                /\ HeaderMeets(s.task, a.root, s)
                /\ s.at \in 1..solTaken'
                /\ Answers(s, a)
<1>1. ASSUME NEW i \in 1..Len(submitted'), MinedForOneTask(submitted[i])'
      PROVE  solutions'[submitted'[i].at].root = PoolRoot(submitted'[i])
  BY <1>1 DEF MinedForOneTask, RootOf, PoolRoot
<1>2. QED
  BY <1>1 DEF SubmittedSharesMeetDifficulty, Answers, HeaderMeets, PoolRoot

(* Submitted shares are past: nothing that is received later changes them.    *)
LEMMA SubmittedRemain ==
    ASSUME TypeInv, SubmittedSharesMeetDifficulty, MoreMessages, submitted' = submitted,
           solTaken' \in Nat, solTaken <= solTaken',
           \A i \in 1..solTaken : solutions'[i] = solutions[i]
    PROVE  SubmittedSharesMeetDifficulty'
<1>1. taken \in Nat /\ solTaken \in Nat
  BY DEF TypeInv, TypeOK, SharedTypeOK
<1>2. ASSUME NEW i \in 1..Len(submitted)
      PROVE  /\ BuiltFromPool(submitted[i].task)'
             /\ HeaderMeets(submitted[i].task, solutions'[submitted[i].at].root, submitted[i])
             /\ submitted[i].at \in 1..solTaken'
             /\ Answers(submitted[i], solutions'[submitted[i].at])
  <2>1. MeetsDifficulty(submitted[i])
    BY AllMeetDifficulty
  <2>2. BuiltFromPool(submitted[i].task)
    BY <2>1 DEF MeetsDifficulty
  <2>3. BuiltFromPool(submitted[i].task)'
    BY <1>1, <2>2, BuiltRemains
  <2>4. QED
    BY <1>1, <2>1, <2>3 DEF MeetsDifficulty
<1>3. QED
  BY <1>2, AllMeetDifficultyNext

(* Only taskDistThread applies the pool's messages and sends tasks out.       *)
LEMMA DistributionUndisturbed ==
    ASSUME TypeInv, [Next]_vars
    PROVE  TaskDistThread \/ UNCHANGED <<currentPoolDifficulty, poolShares, network>>
<1>1. CASE Pool
  BY <1>1, PoolType DEF tdVars
<1>2. CASE StratumRecvThread \/ ShareValidThread \/ QubicRecvSolution \/ QubicRecvStop
  BY <1>2 DEF StratumRecvThread, ShareValidThread, QubicRecvSolution, QubicRecvStop, tdVars
<1>3. CASE Clock
  BY <1>3 DEF Clock, ClockTick
<1>4. CASE MainQuit \/ MainShutdown
  BY <1>4, MainType DEF tdVars
<1>5. CASE UNCHANGED vars
  BY <1>5 DEF vars, tdVars
<1>6. QED
  BY <1>1, <1>2, <1>3, <1>4, <1>5 DEF Next, Exited

LEMMA TasksBuiltNext ==
    TypeInv /\ DistributionInv /\ TasksBuilt /\ [Next]_vars => TasksBuilt' /\ MoreMessages
<1> SUFFICES ASSUME TypeInv, DistributionInv, TasksBuilt, [Next]_vars
             PROVE  TasksBuilt' /\ MoreMessages
    OBVIOUS
<1>1. taken \in Nat /\ latestNotify \in 0..taken
  BY DEF TypeInv, TypeOK, SharedTypeOK, TaskDistTypeOK
<1>2. ASSUME MoreMessages, activeTasks' = activeTasks
      PROVE  \A j \in DOMAIN activeTasks' : BuiltFromPool(activeTasks[j])'
  <2> SUFFICES ASSUME NEW j \in DOMAIN activeTasks
               PROVE  BuiltFromPool(activeTasks[j])'
      BY <1>2
  <2>1. BuiltFromPool(activeTasks[j])
    BY DEF TasksBuilt
  <2>2. QED
    BY <1>1, <1>2, <2>1, BuiltRemains
<1>3. ASSUME OthersStep, currentPoolDifficulty' = currentPoolDifficulty
      PROVE  TasksBuilt' /\ MoreMessages
  <2>1. MoreMessages /\ UNCHANGED <<taken, tdPc, latestNotify, dispatcherTask, activeTasks>>
    BY <1>1, <1>3 DEF OthersStep, MoreMessages
  <2>2. InForce(currentPoolDifficulty, taken)'
    <3>1. taken \in 0..taken /\ InForce(currentPoolDifficulty, taken)
      BY <1>1 DEF TasksBuilt
    <3>2. QED
      BY <1>1, <1>3, <2>1, <3>1, InForceRemains
  <2>3. tdPc' = "send" => received'[latestNotify'].wellFormed
    BY <1>1, <2>1 DEF TasksBuilt, MoreMessages, DistributionInv, DistributesLatest
  <2>4. tdPc' = "insert" => BuiltFromPool(dispatcherTask.task)'
    BY <1>1, <2>1, BuiltRemains DEF TasksBuilt
  <2>5. \A j \in DOMAIN activeTasks' : BuiltFromPool(activeTasks[j])'
    BY <1>2, <2>1
  <2>6. QED
    BY <1>3, <2>1, <2>2, <2>3, <2>4, <2>5 DEF TasksBuilt
<1>4. ASSUME TaskDistStep
      PROVE  TasksBuilt' /\ MoreMessages
  <2>1. CASE TaskDistCheck \/ TaskDistDrained
    <3>1. /\ UNCHANGED <<received, taken, activeTasks, currentPoolDifficulty>>
          /\ tdPc' \notin {"send", "insert"}
      BY <2>1 DEF TaskDistCheck, TaskDistDrained, sharedVars
    <3>2. MoreMessages
      BY <1>1, <3>1 DEF MoreMessages
    <3>3. \A j \in DOMAIN activeTasks' : BuiltFromPool(activeTasks[j])'
      BY <1>2, <3>1, <3>2
    <3>4. InForce(currentPoolDifficulty, taken)'
      BY <3>1 DEF TasksBuilt, InForce, IsSetDifficulty
    <3>5. QED
      BY <3>1, <3>2, <3>3, <3>4 DEF TasksBuilt
  <2>2. CASE TaskDistPop \/ TaskDistDrain
    <3>1. /\ PopMessage /\ ApplyMessage(FrontMessage)
          /\ UNCHANGED <<received, activeTasks>> /\ tdPc' \notin {"send", "insert"}
      BY <2>2 DEF TaskDistPop, TaskDistDrain
    <3>2. /\ MoreMessages
          /\ currentPoolDifficulty' \in Difficulties \cup {1}
          /\ InForce(currentPoolDifficulty, taken)'
      BY <3>1, AppliedInForce
    <3>3. \A j \in DOMAIN activeTasks' : BuiltFromPool(activeTasks[j])'
      BY <1>2, <3>1, <3>2
    <3>4. QED
      BY <3>1, <3>2, <3>3 DEF TasksBuilt
  <2>3. CASE DistributeClear
    <3>1. /\ UNCHANGED <<received, taken, currentPoolDifficulty>>
          /\ tdPc' # "insert"
          /\ tdPc' = "send" => received'[latestNotify'].wellFormed
          /\ activeTasks' = activeTasks \/ activeTasks' = EmptyMap
      BY <2>3 DEF DistributeClear
    <3>2. MoreMessages
      BY <1>1, <3>1 DEF MoreMessages
    <3>3. \A j \in DOMAIN activeTasks' : BuiltFromPool(activeTasks[j])'
      BY <1>2, <3>1, <3>2 DEF EmptyMap
    <3>4. InForce(currentPoolDifficulty, taken)'
      BY <3>1 DEF TasksBuilt, InForce, IsSetDifficulty
    <3>5. QED
      BY <3>1, <3>2, <3>3, <3>4 DEF TasksBuilt
  <2>4. CASE DistributeSend
    <3>1. /\ UNCHANGED <<received, taken, activeTasks, currentPoolDifficulty>>
          /\ tdPc = "send" /\ tdPc' = "insert"
          /\ dispatcherTask'.task = [notify |-> latestNotify,
                                     target |-> TargetOf(currentPoolDifficulty),
                                     extraNonce1 |-> extraNonce1]
      BY <2>4 DEF DistributeSend, sharedVars
    <3>2. MoreMessages
      BY <1>1, <3>1 DEF MoreMessages
    <3>3. \A j \in DOMAIN activeTasks' : BuiltFromPool(activeTasks[j])'
      BY <1>2, <3>1, <3>2
    <3>4. InForce(currentPoolDifficulty, taken)'
      BY <3>1 DEF TasksBuilt, InForce, IsSetDifficulty
    <3>5. BuiltFromPool(dispatcherTask'.task)
      <4>1. /\ latestNotify \in 1..taken /\ IsNotify(latestNotify)
            /\ received[latestNotify].wellFormed
        BY <3>1 DEF DistributionInv, DistributesLatest, TasksBuilt
      <4>2. taken \in latestNotify..taken
        BY <1>1, <4>1
      <4>3. /\ dispatcherTask'.task.notify = latestNotify
            /\ dispatcherTask'.task.target = TargetOf(currentPoolDifficulty)
        BY <3>1
      <4>4. \E p \in latestNotify..taken : \E d \in Difficulties \cup {1} :
              InForce(d, p) /\ dispatcherTask'.task.target = TargetOf(d)
        BY <4>2, <4>3 DEF TasksBuilt
      <4>5. QED
        BY <4>1, <4>3, <4>4 DEF BuiltFromPool
    <3>6. BuiltFromPool(dispatcherTask.task)'
      BY <3>1, <3>5 DEF BuiltFromPool, InForce, IsNotify, IsSetDifficulty
    <3>7. QED
      BY <3>1, <3>2, <3>3, <3>4, <3>6 DEF TasksBuilt
  <2>5. CASE DistributeInsert
    <3>1. /\ UNCHANGED <<received, taken, currentPoolDifficulty>>
          /\ tdPc = "insert" /\ tdPc' = "check"
          /\ activeTasks' = Insert(activeTasks, dispatcherTask.jobId, dispatcherTask.task)
      BY <2>5 DEF DistributeInsert
    <3>2. MoreMessages
      BY <1>1, <3>1 DEF MoreMessages
    <3>3. \A j \in DOMAIN activeTasks' : BuiltFromPool(activeTasks'[j])
      BY <3>1 DEF Insert, TasksBuilt
    <3>4. \A j \in DOMAIN activeTasks' : BuiltFromPool(activeTasks[j])'
      BY <3>1, <3>3 DEF BuiltFromPool, InForce, IsNotify, IsSetDifficulty
    <3>5. InForce(currentPoolDifficulty, taken)'
      BY <3>1 DEF TasksBuilt, InForce, IsSetDifficulty
    <3>6. QED
      BY <3>1, <3>2, <3>4, <3>5 DEF TasksBuilt
  <2>6. QED
    BY <1>4, <2>1, <2>2, <2>3, <2>4, <2>5 DEF TaskDistStep
<1>5. QED
  BY <1>3, <1>4, OthersNeverDisturb, DistributionUndisturbed DEF TaskDistThread

LEMMA SharesBuiltNext ==
    TypeInv /\ TasksBuilt /\ SharesBuilt /\ MoreMessages /\ [Next]_vars => SharesBuilt'
<1> SUFFICES ASSUME TypeInv, TasksBuilt, SharesBuilt, MoreMessages, [Next]_vars
             PROVE  SharesBuilt'
    OBVIOUS
<1>1. /\ taken \in Nat /\ solTaken \in Nat /\ solTaken <= Len(solutions)
      /\ solutions \in Seq(Solution)
      /\ submitted \in Seq(Submission) /\ Len(submitted) \in Nat
  BY DEF TypeInv, TypeOK, SharedTypeOK, ShareValidTypeOK
<1>2. svPc \in {"get", "verify", "send"} => solTaken \in 1..Len(solutions)
  BY <1>1 DEF TypeInv, SolutionPopped
<1>3. ASSUME UNCHANGED <<submitted, solutions>>, solTaken' \in Nat, solTaken <= solTaken'
      PROVE  SubmittedSharesMeetDifficulty'
  BY <1>1, <1>3, SubmittedRemain DEF SharesBuilt
<1>4. ASSUME svPc \in {"verify", "send"}, task' = task
      PROVE  BuiltFromPool(task)'
  BY <1>1, <1>4, BuiltRemains DEF SharesBuilt
<1>5. CASE OthersQueueSolutions
  <2>1. UNCHANGED <<svPc, task, submitted, solTaken>>
    BY <1>5 DEF OthersQueueSolutions, svVars
  <2>2. SubmittedSharesMeetDifficulty'
    BY <1>1, <1>5, <2>1, SubmittedRemain DEF OthersQueueSolutions, SharesBuilt
  <2>3. svPc = "send" => sol' = sol
    BY <1>1, <1>2, <1>5, <2>1 DEF OthersQueueSolutions, sol
  <2>4. svPc' = "send" => VerifyHashVsTarget(task, sol)'
    <3>1. VerifyHashVsTarget(task, sol)' <=> VerifyHashVsTarget(task', sol')
      BY DEF VerifyHashVsTarget, HeaderMeets
    <3>2. QED
      BY <2>1, <2>3, <3>1 DEF SharesBuilt
  <2>5. QED
    BY <1>4, <2>1, <2>2, <2>4 DEF SharesBuilt
<1>6. CASE ShareValidThread
  <2>1. CASE ShareValidCheck \/ ShareValidStale \/ ShareValidReject
    <3>1. UNCHANGED <<submitted, solutions, solTaken>> /\ svPc' \notin {"verify", "send"}
      BY <2>1 DEF ShareValidCheck, ShareValidStale, ShareValidReject, sharedVars
    <3>2. QED
      BY <1>1, <1>3, <3>1 DEF SharesBuilt
  <2>2. CASE ShareValidSkipDuplicate \/ ShareValidPop
    <3>1. /\ UNCHANGED <<submitted, solutions>> /\ solTaken' = solTaken + 1
          /\ svPc' \notin {"verify", "send"}
      BY <2>2 DEF ShareValidSkipDuplicate, ShareValidPop, PopSolution
    <3>2. QED
      BY <1>1, <1>3, <3>1 DEF SharesBuilt
  <2>3. CASE ShareValidGet
    <3>1. /\ UNCHANGED <<submitted, solutions, solTaken>> /\ svPc' = "verify"
          /\ \E j \in DOMAIN activeTasks : task' = activeTasks[j]
      BY <2>3 DEF ShareValidGet, sharedVars
    <3>2. BuiltFromPool(task')
      BY <3>1 DEF TasksBuilt
    <3>3. UNCHANGED <<received, taken>>
      BY <2>3 DEF ShareValidGet, sharedVars
    <3>4. BuiltFromPool(task)'
      BY <3>2, <3>3 DEF BuiltFromPool, InForce, IsNotify, IsSetDifficulty
    <3>5. QED
      BY <1>1, <1>3, <3>1, <3>4 DEF SharesBuilt
  <2>4. CASE ShareValidAccept
    <3>1. /\ UNCHANGED <<submitted, solutions, solTaken>>
          /\ svPc = "verify" /\ svPc' \in {"send", "check"}
          /\ svPc' = "send" => task' = task
          /\ VerifyHashVsTarget(task, sol)
      BY <2>4 DEF ShareValidAccept, sharedVars
    <3>2. svPc' = "send" => VerifyHashVsTarget(task, sol)'
      <4>1. VerifyHashVsTarget(task, sol)' <=> VerifyHashVsTarget(task', sol')
        BY DEF VerifyHashVsTarget, HeaderMeets
      <4>2. sol' = sol
        BY <3>1 DEF sol
      <4>3. QED
        BY <3>1, <4>1, <4>2
    <3>3. QED
      BY <1>1, <1>3, <1>4, <3>1, <3>2 DEF SharesBuilt
  <2>5. CASE ShareValidSend
    <3> DEFINE new == [id |-> nextStratumSendId, jobId |-> sol.jobId, key |-> sol.key,
                       nTime |-> sol.nTime, task |-> task, at |-> solTaken,
                       session |-> session]
    <3>1. /\ UNCHANGED <<solutions, solTaken, received, taken>>
          /\ svPc = "send" /\ svPc' = "check"
          /\ submitted' = submitted \/ submitted' = Append(submitted, new)
      BY <2>5 DEF ShareValidSend
    <3>2. CASE submitted' = submitted
      BY <1>1, <1>3, <3>1, <3>2 DEF SharesBuilt
    <3>3. CASE submitted' = Append(submitted, new)
      <4> DEFINE n == Len(submitted) + 1
      <4>1. /\ Len(submitted') = n /\ submitted'[n] = new
            /\ \A i \in 1..Len(submitted) : submitted'[i] = submitted[i]
        BY <1>1, <3>3
      <4>2. \A i \in 1..n : i = n \/ i \in 1..Len(submitted)
        BY <1>1
      <4>3. sol \in Solution
        BY <1>1, <1>2, <3>1 DEF sol
      <4>4. MeetsDifficulty(new)
        <5>1. HeaderMeets(task, sol.root, new) <=> VerifyHashVsTarget(task, sol)
          <6>1. new.key = sol.key /\ new.nTime = sol.nTime
            OBVIOUS
          <6>2. QED
            BY <6>1, Zenon DEF VerifyHashVsTarget, HeaderMeets
        <5>2. BuiltFromPool(task) /\ VerifyHashVsTarget(task, sol)
          BY <3>1 DEF SharesBuilt
        <5>3. solutions[solTaken] = sol /\ Answers(sol, sol)
          BY <4>3 DEF sol, Solution, Answers
        <5>4. /\ new.task = task /\ new.at = solTaken /\ new.jobId = sol.jobId
              /\ new.key = sol.key /\ new.nTime = sol.nTime
          OBVIOUS
        <5>5. solTaken \in 1..solTaken
          BY <1>1, <1>2, <3>1
        <5> HIDE DEF new
        <5>6. QED
          BY <5>1, <5>2, <5>3, <5>4, <5>5 DEF MeetsDifficulty, Answers
      <4>5. \A i \in 1..n : MeetsDifficulty(submitted'[i])
        <5>1. \A i \in 1..Len(submitted) : MeetsDifficulty(submitted[i])
          BY AllMeetDifficulty DEF SharesBuilt
        <5> HIDE DEF new
        <5>2. QED
          BY <4>1, <4>2, <4>4, <5>1
      <4>6. ASSUME NEW i \in 1..n
            PROVE  /\ BuiltFromPool(submitted[i].task)'
                   /\ HeaderMeets(submitted'[i].task, solutions'[submitted'[i].at].root,
                                  submitted'[i])
                   /\ submitted'[i].at \in 1..solTaken'
                   /\ Answers(submitted'[i], solutions'[submitted'[i].at])
        <5>1. MeetsDifficulty(submitted'[i])
          BY <4>5
        <5>2. BuiltFromPool(submitted'[i].task)
          BY <5>1 DEF MeetsDifficulty
        <5>3. BuiltFromPool(submitted[i].task)'
          BY <3>1, <5>2 DEF BuiltFromPool, InForce, IsNotify, IsSetDifficulty
        <5>4. QED
          BY <3>1, <5>1, <5>3 DEF MeetsDifficulty
      <4>7. SubmittedSharesMeetDifficulty'
        BY <4>1, <4>6, AllMeetDifficultyNext
      <4>8. QED
        BY <3>1, <4>7 DEF SharesBuilt
    <3>4. QED
      BY <3>1, <3>2, <3>3
  <2>6. QED
    BY <1>6, <2>1, <2>2, <2>3, <2>4, <2>5 DEF ShareValidThread, ShareValidStep
<1>7. QED
  BY <1>5, <1>6, ValidationUndisturbed

(* Whatever the order in which difficulties, jobs and solutions arrive, and   *)
(* however the two threads interleave at activeTasks, every share handed to   *)
(* the pool answers a solution that was received, is for a well-formed job of *)
(* the pool, and the header hashed for it, with the root its sender claims,   *)
(* meets a difficulty in force at that job or later.  The pool's own header   *)
(* does, too, if the share was mined for the one task sent under its job id   *)
(* in the session it is submitted on (shareValidationLoop).                   *)
THEOREM SharesMeetDifficulty == Spec => []SubmittedSharesMeetDifficulty
<1>1. Init => TypeInv
  BY TypeInit DEF Init, TypeInv, SolutionPopped, ShareValidInit
<1>2. Init => TasksBuilt
  BY DEF Init, TaskDistInit, TasksBuilt, EmptyMap, InForce
<1>3. Init => SharesBuilt
  BY DEF Init, ShareValidInit, SharesBuilt, SubmittedSharesMeetDifficulty
<1>4. SharesBuilt => SubmittedSharesMeetDifficulty
  BY DEF SharesBuilt
<1>5. QED
  BY <1>1, <1>2, <1>3, <1>4, DistributionInit, TypeNext, DistributionNext, TasksBuiltNext,
     SharesBuiltNext, PTL DEF Spec

-----------------------------------------------------------------------------
(* ExtraNonceOfSession also has to hold before the first read of a session,   *)
(* and the shared vector always holds an extraNonce1 some session was given.  *)
NonceInv ==
    /\ srPc \in {"check", "authorize", "read"} => extraNonce1 = session
    /\ extraNonce1 \in 1..session
    /\ \A d \in network : d.task.extraNonce1 \in 1..session

(* What the steps that touch the connection do to the session.                *)
SessionStep ==
    \/ UNCHANGED <<session, extraNonce1>> /\ srPc' \in {"backoff", "done"}
    \/ UNCHANGED <<session, extraNonce1>> /\ srPc \in {"check", "authorize", "read"}
    \/ srPc' = "subscribe" /\ session' = session + 1 /\ extraNonce1' = extraNonce1
    \/ extraNonce1' = session /\ session' = session

LEMMA SessionChanges ==
    ASSUME TypeInv, [Next]_vars
    PROVE  \/ UNCHANGED <<srPc, session, extraNonce1>>
           \/ network' = network /\ SessionStep
<1>1. CASE Pool
  <2>1. network' = network
    BY <1>1, PoolType DEF tdVars
  <2>2. CASE PoolSends \/ PoolAnswers \/ PoolAuthorizes
    BY <2>1, <2>2 DEF PoolSends, PoolAnswers, PoolAuthorizes, StratumRead, StratumAuthorized,
                      SessionStep
  <2>3. CASE PoolHandshake
    BY <2>1, <2>3 DEF PoolHandshake, StratumSubscribed, StratumWrongNonceSize,
                      ReconnectFailed, SessionStep
  <2>4. CASE PoolConnection
    BY <2>1, <2>4 DEF PoolConnection, StratumReadLost, StratumOpenFailed, StratumOpen,
                      ConnectionLost, ReconnectFailed, SessionStep
  <2>5. CASE PoolRefuses
    BY <2>1, <2>5 DEF PoolRefuses, StratumInitFailed, ReconnectFailed, SessionStep
  <2>6. QED
    BY <1>1, <2>2, <2>3, <2>4, <2>5 DEF Pool
<1>2. CASE StratumRecvThread
  <2>1. network' = network
    BY <1>2 DEF StratumRecvThread, tdVars
  <2>2. UNCHANGED <<session, extraNonce1>>
    BY <1>2 DEF StratumRecvThread, StratumOwnStep, StratumCheckStop, StratumCheck,
                StratumNotConnected, StratumReadClosed, StratumSubscribeClosed,
                StratumAuthorizeClosed, StratumAuthorized, StratumBackoffStop, sharedVars
  <2>3. srPc' \in {"backoff", "done"} \/ srPc \in {"check", "authorize", "read"}
    BY <1>2 DEF StratumRecvThread, StratumOwnStep, StratumCheckStop, StratumCheck,
                StratumNotConnected, StratumReadClosed, StratumSubscribeClosed,
                StratumAuthorizeClosed, StratumAuthorized, StratumBackoffStop,
                ConnectionLost, ReconnectFailed
  <2>4. QED
    BY <2>1, <2>2, <2>3 DEF SessionStep
<1>3. CASE TaskDistThread
  BY <1>3 DEF TaskDistThread, TaskDistStep, TaskDistCheck, TaskDistPop, TaskDistDrain,
              TaskDistDrained, DistributeClear, DistributeSend, DistributeInsert, sharedVars,
              srVars
<1>4. CASE ShareValidThread
  BY <1>4 DEF ShareValidThread, ShareValidStep, ShareValidCheck, ShareValidSkipDuplicate,
              ShareValidPop, ShareValidStale, ShareValidGet, ShareValidReject,
              ShareValidAccept, ShareValidSend, sharedVars, srVars
<1>5. CASE QubicRecvSolution \/ QubicRecvStop \/ Clock
  BY <1>5 DEF QubicRecvSolution, QubicRecvStop, Clock, ClockTick, sharedVars, srVars
<1>6. CASE MainQuit \/ MainShutdown
  BY <1>6 DEF MainQuit, MainShutdown, MainClose, MainStopTaskDist, MainWakeTaskDist,
              MainStopShareValid, MainWakeShareValid, MainJoinShareValid, MainJoinQubicRecv,
              MainJoinTaskDist, MainJoinStratumRecv, MainRequestStop, MainGoto, sharedVars,
              srVars
<1>7. CASE UNCHANGED vars
  BY <1>7 DEF vars, sharedVars, srVars
<1>8. QED
  BY <1>1, <1>2, <1>3, <1>4, <1>5, <1>6, <1>7 DEF Next, Exited

LEMMA NonceNext == TypeInv /\ NonceInv /\ [Next]_vars => NonceInv'
<1> SUFFICES ASSUME TypeInv, NonceInv, [Next]_vars
             PROVE  NonceInv'
    OBVIOUS
<1>1. session \in Nat /\ extraNonce1 \in Nat
  BY DEF TypeInv, TypeOK, SharedTypeOK
<1>2. network' = network \/ \E d : network' = network \cup {d} /\ d.task.extraNonce1 = extraNonce1
  <2>1. CASE TaskDistThread
    <3>1. CASE DistributeSend
      <4>1. dispatcherTask'.task.extraNonce1 = extraNonce1
        BY <3>1 DEF DistributeSend
      <4>2. network' \in {network, network \cup {dispatcherTask'}}
        BY <3>1 DEF DistributeSend
      <4>3. QED
        BY <4>1, <4>2
    <3>2. CASE ~DistributeSend
      BY <2>1, <3>2 DEF TaskDistThread, TaskDistStep, TaskDistCheck, TaskDistPop,
                        TaskDistDrain, TaskDistDrained, DistributeClear, DistributeInsert
    <3>3. QED
      BY <3>1, <3>2
  <2>2. QED
    BY <2>1, DistributionUndisturbed
<1>3. CASE UNCHANGED <<srPc, session, extraNonce1>>
  BY <1>1, <1>2, <1>3 DEF NonceInv
<1>4. CASE network' = network /\ SessionStep
  BY <1>1, <1>4 DEF NonceInv, SessionStep
<1>5. QED
  BY <1>3, <1>4, SessionChanges

(* However many connections and handshakes fail halfway, the lines of a       *)
(* session are read with the extraNonce1 of that session in place, and no     *)
(* task leaves with an extraNonce1 that the pool never assigned.              *)
THEOREM NonceOfSession == Spec => []ExtraNonceOfSession
<1>1. Init => TypeInv
  BY TypeInit DEF Init, TypeInv, SolutionPopped, ShareValidInit
<1>2. Init => NonceInv
  BY DEF Init, StratumInit, TaskDistInit, NonceInv
<1>3. NonceInv => ExtraNonceOfSession
  BY DEF NonceInv, ExtraNonceOfSession
<1>4. QED
  BY <1>1, <1>2, <1>3, TypeNext, NonceNext, PTL DEF Spec

-----------------------------------------------------------------------------
(* Positions of the answers with verdict v among the messages taken.          *)
AnswersTaken(v) == {i \in 1..taken : received[i].kind = "response" /\ received[i].verdict = v}

(* Ids go up from 3 and a submission has the id of its moment.                *)
IdsInv ==
    /\ nextStratumSendId >= 3
    /\ \A i \in 1..Len(submitted) : submitted[i].id \in 3..(nextStratumSendId - 1)
    /\ \A i, j \in 1..Len(submitted) : i < j => submitted[i].id < submitted[j].id

CountsInv ==
    /\ poolShares.accepted = Cardinality(AnswersTaken("accepted"))
    /\ poolShares.rejected = Cardinality(AnswersTaken("rejected"))

LEMMA IdsNext == TypeInv /\ IdsInv /\ [Next]_vars => IdsInv'
<1> SUFFICES ASSUME TypeInv, IdsInv, [Next]_vars
             PROVE  IdsInv'
    OBVIOUS
<1>1. /\ submitted \in Seq(Submission) /\ Len(submitted) \in Nat
      /\ nextStratumSendId \in Nat
  BY DEF TypeInv, TypeOK, ShareValidTypeOK
<1>2. CASE UNCHANGED <<submitted, nextStratumSendId>>
  BY <1>2 DEF IdsInv
<1>3. CASE ShareValidSend
  <2> DEFINE new == [id |-> nextStratumSendId, jobId |-> sol.jobId, key |-> sol.key,
                     nTime |-> sol.nTime, task |-> task, at |-> solTaken,
                     session |-> session]
  <2>1. /\ nextStratumSendId' = nextStratumSendId + 1
        /\ submitted' = submitted \/ submitted' = Append(submitted, new)
    BY <1>3 DEF ShareValidSend, NextSendId
  <2>2. CASE submitted' = submitted
    BY <1>1, <2>1, <2>2 DEF IdsInv
  <2>3. CASE submitted' = Append(submitted, new)
    <3>1. /\ Len(submitted') = Len(submitted) + 1
          /\ submitted'[Len(submitted) + 1].id = nextStratumSendId
          /\ \A i \in 1..Len(submitted) : submitted'[i] = submitted[i]
      BY <1>1, <2>3
    <3>2. \A i \in 1..Len(submitted) :
            submitted[i].id \in 3..(nextStratumSendId - 1) /\ submitted[i].id < nextStratumSendId
      BY <1>1 DEF IdsInv
    <3>3. \A i \in 1..Len(submitted') : submitted'[i].id \in 3..(nextStratumSendId' - 1)
      <4>1. nextStratumSendId >= 3
        BY DEF IdsInv
      <4> SUFFICES ASSUME NEW i \in 1..(Len(submitted) + 1)
                   PROVE  submitted'[i].id \in 3..nextStratumSendId
          BY <1>1, <2>1, <3>1
      <4>2. CASE i \in 1..Len(submitted)
        BY <1>1, <3>1, <3>2, <4>2
      <4>3. CASE i = Len(submitted) + 1
        BY <1>1, <3>1, <4>1, <4>3
      <4>4. QED
        BY <1>1, <4>2, <4>3
    <3>4. ASSUME NEW i \in 1..Len(submitted'), NEW j \in 1..Len(submitted'), i < j
          PROVE  submitted'[i].id < submitted'[j].id
      <4>1. i \in 1..Len(submitted)
        BY <1>1, <3>1, <3>4
      <4>2. CASE j \in 1..Len(submitted)
        BY <3>1, <3>4, <4>1, <4>2 DEF IdsInv
      <4>3. CASE j = Len(submitted) + 1
        BY <3>1, <3>2, <4>1, <4>3
      <4>4. QED
        BY <1>1, <3>1, <4>2, <4>3
    <3>5. nextStratumSendId' >= 3
      BY <1>1, <2>1 DEF IdsInv
    <3>6. QED
      BY <3>3, <3>4, <3>5 DEF IdsInv
  <2>4. QED
    BY <2>1, <2>2, <2>3
<1>4. CASE ShareValidThread /\ ~ShareValidSend
  BY <1>2, <1>4 DEF ShareValidThread, ShareValidStep, ShareValidCheck,
              ShareValidSkipDuplicate, ShareValidPop, ShareValidStale, ShareValidGet,
              ShareValidReject, ShareValidAccept
<1>5. CASE OthersQueueSolutions
  BY <1>2, <1>5 DEF OthersQueueSolutions, svVars
<1>6. QED
  BY <1>3, <1>4, <1>5, ValidationUndisturbed

(* Taking one more message adds it to the answers with its verdict, and to no *)
(* others.                                                                    *)
LEMMA OneMoreAnswer ==
    ASSUME TypeInv, NEW v, taken' = taken + 1, received' = received
    PROVE  /\ Cardinality(AnswersTaken(v)) \in Nat
           /\ IF FrontMessage.kind = "response" /\ FrontMessage.verdict = v
                THEN Cardinality(AnswersTaken(v)') = Cardinality(AnswersTaken(v)) + 1
                ELSE AnswersTaken(v)' = AnswersTaken(v)
<1>1. taken \in Nat
  BY DEF TypeInv, TypeOK, SharedTypeOK
<1>2. IsFiniteSet(AnswersTaken(v))
  <2>1. IsFiniteSet(1..taken)
    BY <1>1, FS_Interval
  <2>2. AnswersTaken(v) \in SUBSET (1..taken)
    BY DEF AnswersTaken
  <2>3. QED
    BY <2>1, <2>2, FS_Subset
<1>3. Cardinality(AnswersTaken(v)) \in Nat
  BY <1>2, FS_CardinalityType
<1>4. CASE FrontMessage.kind = "response" /\ FrontMessage.verdict = v
  <2>1. AnswersTaken(v)' = AnswersTaken(v) \cup {taken + 1}
    BY <1>1, <1>4 DEF AnswersTaken, FrontMessage
  <2>2. taken + 1 \notin AnswersTaken(v)
    BY <1>1 DEF AnswersTaken
  <2>3. Cardinality(AnswersTaken(v) \cup {taken + 1}) = Cardinality(AnswersTaken(v)) + 1
    BY <1>2, <2>2, FS_AddElement
  <2>4. QED
    BY <1>3, <1>4, <2>1, <2>3
<1>5. CASE ~(FrontMessage.kind = "response" /\ FrontMessage.verdict = v)
  <2>1. AnswersTaken(v)' = AnswersTaken(v)
    BY <1>1, <1>5 DEF AnswersTaken, FrontMessage
  <2>2. QED
    BY <1>3, <1>5, <2>1
<1>6. QED
  BY <1>4, <1>5

LEMMA CountsNext == TypeInv /\ CountsInv /\ [Next]_vars => CountsInv'
<1> SUFFICES ASSUME TypeInv, CountsInv, [Next]_vars
             PROVE  CountsInv'
    OBVIOUS
<1>1. /\ taken \in Nat /\ poolShares \in [accepted : Nat, rejected : Nat]
  BY DEF TypeInv, TypeOK, SharedTypeOK, TaskDistTypeOK
<1>2. ASSUME taken' = taken, \A i \in 1..taken : received'[i] = received[i],
             poolShares' = poolShares
      PROVE  CountsInv'
  <2>1. /\ AnswersTaken("accepted")' = AnswersTaken("accepted")
        /\ AnswersTaken("rejected")' = AnswersTaken("rejected")
    BY <1>2 DEF AnswersTaken
  <2>2. QED
    BY <1>2, <2>1 DEF CountsInv
<1>3. CASE OthersStep /\ poolShares' = poolShares
  BY <1>2, <1>3 DEF OthersStep
<1>4. CASE TaskDistPop \/ TaskDistDrain
  <2>1. taken' = taken + 1 /\ received' = received /\ poolShares' = CheckShareResponse(FrontMessage)
    BY <1>4 DEF TaskDistPop, TaskDistDrain, PopMessage, ApplyMessage
  <2>2. \A v \in {"accepted", "rejected"} :
          /\ Cardinality(AnswersTaken(v)) \in Nat
          /\ IF FrontMessage.kind = "response" /\ FrontMessage.verdict = v
               THEN Cardinality(AnswersTaken(v)') = Cardinality(AnswersTaken(v)) + 1
               ELSE AnswersTaken(v)' = AnswersTaken(v)
    BY <2>1, OneMoreAnswer
  <2>3. CASE FrontMessage.kind # "response"
    <3>1. poolShares' = poolShares
      BY <2>1, <2>3 DEF CheckShareResponse
    <3>2. QED
      BY <2>2, <2>3, <3>1 DEF CountsInv
  <2>4. CASE FrontMessage.kind = "response"
    <3>1. CASE FrontMessage.verdict = "accepted"
      <4>1. poolShares' = [poolShares EXCEPT !.accepted = @ + 1]
        BY <2>1, <2>4, <3>1 DEF CheckShareResponse
      <4>2. /\ poolShares'.accepted = poolShares.accepted + 1
            /\ poolShares'.rejected = poolShares.rejected
        BY <1>1, <4>1
      <4>3. QED
        BY <2>2, <2>4, <3>1, <4>2 DEF CountsInv
    <3>2. CASE FrontMessage.verdict = "rejected"
      <4>1. poolShares' = [poolShares EXCEPT !.rejected = @ + 1]
        BY <2>1, <2>4, <3>2 DEF CheckShareResponse
      <4>2. /\ poolShares'.rejected = poolShares.rejected + 1
            /\ poolShares'.accepted = poolShares.accepted
        BY <1>1, <4>1
      <4>3. QED
        BY <2>2, <2>4, <3>2, <4>2 DEF CountsInv
    <3>3. CASE FrontMessage.verdict \notin {"accepted", "rejected"}
      <4>1. poolShares' = poolShares
        BY <2>1, <2>4, <3>3 DEF CheckShareResponse
      <4>2. QED
        BY <2>2, <3>3, <4>1 DEF CountsInv
    <3>4. QED
      BY <3>1, <3>2, <3>3
  <2>5. QED
    BY <2>3, <2>4
<1>5. CASE TaskDistStep /\ ~(TaskDistPop \/ TaskDistDrain)
  <2>1. UNCHANGED <<taken, received, poolShares>>
    BY <1>5 DEF TaskDistStep, TaskDistCheck, TaskDistDrained, DistributeClear, DistributeSend,
                DistributeInsert, sharedVars
  <2>2. QED
    BY <1>2, <2>1
<1>6. QED
  BY <1>3, <1>4, <1>5, OthersNeverDisturb, DistributionUndisturbed DEF TaskDistThread

(* Each answer of the pool is counted once whichever loop takes it, and ids   *)
(* of submissions are never reused, for any number of reconnections.          *)
THEOREM AnswersCounted == Spec => []ResponsesCounted
<1>1. Init => TypeInv
  BY TypeInit DEF Init, TypeInv, SolutionPopped, ShareValidInit
<1>2. Init => IdsInv
  BY DEF Init, ShareValidInit, IdsInv
<1>3. Init => CountsInv
  <2> SUFFICES ASSUME Init PROVE CountsInv
      OBVIOUS
  <2>1. \A v \in {"accepted", "rejected"} : AnswersTaken(v) = {}
    BY DEF Init, AnswersTaken
  <2>2. Cardinality({}) = 0
    BY FS_EmptySet
  <2>3. QED
    BY <2>1, <2>2 DEF Init, TaskDistInit, CountsInv
<1>4. IdsInv /\ CountsInv => ResponsesCounted
  BY DEF IdsInv, CountsInv, AnswersTaken, ResponsesCounted
<1>5. QED
  BY <1>1, <1>2, <1>3, <1>4, TypeNext, IdsNext, CountsNext, PTL DEF Spec

=============================================================================
