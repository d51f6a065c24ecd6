------------------------------- MODULE Dispatcher -------------------------------
(***************************************************************************)
(* The Qubic Doge Dispatcher (dispatcher.cpp): main() with the threads       *)
(* stratumRecv, taskDist, qubicRecv and shareValid, between a stratum pool   *)
(* and the Qubic network.                                                    *)
(*                                                                           *)
(* The pool sends difficulties, jobs and answers to submitted shares; the    *)
(* network gossips solutions of the tasks it was sent, any number of times   *)
(* and in any order; main() shuts everything down after 'q'.                 *)
(***************************************************************************)
EXTENDS StratumSession, TaskDistribution, ShareValidation

VARIABLES
    mainPc,     \* where main() is in its shutdown sequence
    qrPc,       \* where qubicRecvThread is
    answered    \* ids of the submissions the pool has answered

mainVars == <<mainPc, qrPc, answered>>
vars == <<sharedVars, srVars, tdVars, svVars, mainVars>>

-----------------------------------------------------------------------------
Init ==
    /\ received = <<>> /\ taken = 0
    /\ solutions = <<>> /\ solTaken = 0
    /\ activeTasks = EmptyMap
    /\ stopRequested = {}
    /\ StratumInit
    /\ TaskDistInit
    /\ ShareValidInit
    /\ mainPc = "run"
    /\ qrPc = "run"
    /\ answered = {}

-----------------------------------------------------------------------------
(* The pool.                                                                  *)

(* Submissions of the current session the pool has not answered yet.          *)
Unanswered == {i \in 1..Len(submitted) : /\ submitted[i].id \notin answered
                                         /\ submitted[i].session = session}

PoolSends ==
    /\ Len(received) < MaxReceived
    /\ \E m \in PoolMessages : StratumRead(m)
    /\ UNCHANGED <<tdVars, svVars, mainVars>>

PoolAnswers ==
    /\ Len(received) < MaxReceived
    /\ \E i \in Unanswered, v \in {"accepted", "rejected", "other"} :
         /\ StratumRead([kind |-> "response", id |-> submitted[i].id, verdict |-> v])
         /\ answered' = answered \cup {submitted[i].id}
    /\ UNCHANGED <<tdVars, svVars, mainPc, qrPc>>

(* With the authorize response come a difficulty and a job, or nothing.       *)
AuthorizeLines ==
    {<<>>} \cup (PoolMessages \cap SetDifficulty) \X (PoolMessages \cap Notify)

PoolAuthorizes ==
    /\ \E ms \in AuthorizeLines :
         /\ ms # <<>> => Len(received) + Len(ms) <= MaxReceived
         /\ StratumAuthorized(ms)
    /\ UNCHANGED <<tdVars, svVars, mainVars>>

PoolHandshake ==
    /\ StratumSubscribed \/ StratumWrongNonceSize
    /\ UNCHANGED <<tdVars, svVars, mainVars>>

PoolRefuses ==
    /\ \E ms \in AuthorizeLines :
         /\ ms # <<>> => Len(received) + Len(ms) <= MaxReceived
         /\ StratumInitFailed(ms)
    /\ UNCHANGED <<tdVars, svVars, mainVars>>

PoolConnection ==
    /\ StratumReadLost \/ StratumOpenFailed \/ StratumOpen
    /\ UNCHANGED <<tdVars, svVars, mainVars>>

-----------------------------------------------------------------------------
(* qubicRecvThread queues a solution received from a peer: mined for a task   *)
(* of the network, with the root of that task or with another one.            *)
QubicRecvSolution ==
    /\ qrPc = "run"
    /\ Len(solutions) < MaxSolutions
    /\ \E d \in network, k \in Keys, t \in NTimes : \E r \in {RootOf(d.task)} \cup OtherRoots :
         PushSolution([jobId |-> d.jobId, key |-> k, nTime |-> t, root |-> r])
    /\ UNCHANGED <<received, taken, solTaken, activeTasks, connected, session,
                   extraNonce1, stopRequested, srVars, tdVars, svVars, mainVars>>

(* Its poll has a timeout, so a stop request is noticed.                      *)
QubicRecvStop ==
    /\ qrPc = "run"
    /\ StopRequested("qubicRecv")
    /\ qrPc' = "done"
    /\ UNCHANGED <<sharedVars, srVars, tdVars, svVars, mainPc, answered>>

-----------------------------------------------------------------------------
(* main(): 'q', close the connections, stop each queue consumer and wake it   *)
(* with a dummy element, then the destructors of the jthreads, which request  *)
(* a stop and join, in reverse order of declaration.                          *)
MainGoto(from, to) ==
    /\ mainPc = from
    /\ mainPc' = to
    /\ UNCHANGED <<qrPc, answered, srVars, tdVars, svVars>>

MainQuit ==
    /\ MayQuit
    /\ MainGoto("run", "close")
    /\ UNCHANGED sharedVars

MainClose ==
    /\ MainGoto("close", "stopTaskDist")
    /\ connected' = FALSE
    /\ UNCHANGED <<received, taken, solutions, solTaken, activeTasks, session,
                   extraNonce1, stopRequested>>

MainRequestStop(t) ==
    /\ stopRequested' = stopRequested \cup {t}
    /\ UNCHANGED <<received, taken, solutions, solTaken, activeTasks, connected,
                   session, extraNonce1>>

(* Mutant: the stop request is left to the destructor.                        *)
MainStopTaskDistLate == MainGoto("stopTaskDist", "wakeTaskDist") /\ UNCHANGED sharedVars

MainStopTaskDist == MainGoto("stopTaskDist", "wakeTaskDist") /\ MainRequestStop("taskDist")

MainWakeTaskDist ==
    /\ MainGoto("wakeTaskDist", "stopShareValid")
    /\ PushMessage([kind |-> "ignored"])
    /\ UNCHANGED <<taken, solutions, solTaken, activeTasks, connected, session,
                   extraNonce1, stopRequested>>

MainStopShareValid == MainGoto("stopShareValid", "wakeShareValid") /\ MainRequestStop("shareValid")

MainWakeShareValid ==
    /\ MainGoto("wakeShareValid", "joinShareValid")
    /\ PushSolution(ZeroSolution)
    /\ UNCHANGED <<received, taken, solTaken, activeTasks, connected, session,
                   extraNonce1, stopRequested>>

MainJoinShareValid ==
    /\ svPc = "done"
    /\ MainGoto("joinShareValid", "joinQubicRecv") /\ MainRequestStop("qubicRecv")

MainJoinQubicRecv ==
    /\ qrPc = "done"
    /\ MainGoto("joinQubicRecv", "joinTaskDist")
    /\ UNCHANGED sharedVars

MainJoinTaskDist ==
    /\ tdPc = "done"
    /\ MainGoto("joinTaskDist", "joinStratumRecv") /\ MainRequestStop("stratumRecv")

MainJoinStratumRecv ==
    /\ srPc = "done"
    /\ MainGoto("joinStratumRecv", "exited")
    /\ UNCHANGED sharedVars

MainShutdown ==
    \/ MainClose
    \/ MainStopTaskDist
    \/ MainWakeTaskDist
    \/ MainStopShareValid
    \/ MainWakeShareValid
    \/ MainJoinShareValid
    \/ MainJoinQubicRecv
    \/ MainJoinTaskDist
    \/ MainJoinStratumRecv

(* The process has ended.                                                     *)
Exited == mainPc = "exited" /\ UNCHANGED vars

-----------------------------------------------------------------------------
StratumRecvThread == StratumOwnStep /\ UNCHANGED <<tdVars, svVars, mainVars>>
TaskDistThread    == TaskDistStep /\ UNCHANGED <<srVars, svVars, mainVars>>
ShareValidThread  == ShareValidStep /\ UNCHANGED <<srVars, tdVars, mainVars>>
Clock             == ClockTick /\ UNCHANGED <<srVars, svVars, mainVars>>

Pool ==
    \/ PoolSends
    \/ PoolAnswers
    \/ PoolAuthorizes
    \/ PoolHandshake
    \/ PoolRefuses
    \/ PoolConnection

Next ==
    \/ Pool
    \/ StratumRecvThread
    \/ TaskDistThread
    \/ QubicRecvSolution
    \/ QubicRecvStop
    \/ ShareValidThread
    \/ Clock
    \/ MainQuit
    \/ MainShutdown
    \/ Exited

Spec == Init /\ [][Next]_vars

(* Every thread that is not blocked keeps running, main() included; the pool, *)
(* the network and the user promise nothing.                                  *)
Fairness ==
    /\ WF_vars(StratumRecvThread)
    /\ WF_vars(TaskDistThread)
    /\ WF_vars(QubicRecvStop)
    /\ WF_vars(ShareValidThread)
    /\ WF_vars(MainShutdown)

FairSpec == Spec /\ Fairness

(* A pool that answers every handshake: it hangs up or stays silent only      *)
(* afterwards.                                                                *)
HandshakeAnswered ==
    /\ StratumSubscribed \/ StratumAuthorized(<<>>)
    /\ UNCHANGED <<tdVars, svVars, mainVars>>

ResponsivePoolSpec == FairSpec /\ WF_vars(HandshakeAnswered)

-----------------------------------------------------------------------------
(* Type invariant: that of each part, and of main() and the environment.      *)
TypeOK ==
    /\ SharedTypeOK
    /\ StratumTypeOK
    /\ TaskDistTypeOK
    /\ ShareValidTypeOK
    /\ mainPc \in {"run", "close", "stopTaskDist", "wakeTaskDist", "stopShareValid",
                   "wakeShareValid", "joinShareValid", "joinQubicRecv", "joinTaskDist",
                   "joinStratumRecv", "exited"}
    /\ qrPc \in {"run", "done"}
    /\ answered \subseteq Nat

-----------------------------------------------------------------------------
IsNotify(i)        == received[i].kind = "notify"
IsCleanNotify(i)   == IsNotify(i) /\ received[i].clean
IsSetDifficulty(i) == received[i].kind = "set_difficulty"

(* d is the difficulty the pool has in force after its first p messages.      *)
InForce(d, p) ==
    \E i \in 0..p :
        /\ \A j \in (i + 1)..p : ~IsSetDifficulty(j)
        /\ IF i = 0 THEN d = 1 ELSE IsSetDifficulty(i) /\ d = received[i].diff

(* t was built from a well-formed notify and from a difficulty that was in    *)
(* force when the pool sent that notify or at a later moment.                 *)
BuiltFromPool(t) ==
    /\ t.notify \in 1..taken
    /\ IsNotify(t.notify) /\ received[t.notify].wellFormed
    /\ \E p \in t.notify..taken : \E d \in Difficulties \cup {1} :
         InForce(d, p) /\ t.target = TargetOf(d)

(* The root in the header the pool builds from a mining.submit: its own job's *)
(* coinbase with the extraNonce1 of the session the submission arrives on.    *)
PoolRoot(s) == [notify |-> s.task.notify, extraNonce1 |-> s.session]

(* The share was mined as the protocol has it: with the root of the one task  *)
(* that was sent out under its job id, in the session it is submitted on.     *)
MinedForOneTask(s) ==
    /\ \E d \in network : d.jobId = s.jobId /\ solutions[s.at].root = RootOf(d.task)
    /\ \A d \in network : d.jobId = s.jobId => d.task = s.task
    /\ s.task.extraNonce1 = s.session

(* Every mining.submit names a job the pool sent and answers a solution that  *)
(* was received, and the header hashed for it, with the root its sender       *)
(* claims, meets a difficulty not older than the job: a set_difficulty that   *)
(* overtakes or follows jobs in the drained queue is never lost.  So does the *)
(* pool's own header when the share was mined for one task of this session;   *)
(* it may not when two tasks share a job id or the root is another one, since *)
(* nothing compares the root with the task's coinbase, and it is not          *)
(* submitted (taskDistributionLoop, distributeTask, shareValidationLoop).     *)
SubmittedSharesMeetDifficulty ==
    \A i \in 1..Len(submitted) :
        LET s == submitted[i]
            a == solutions[s.at]
        IN  /\ BuiltFromPool(s.task)
            /\ s.at \in 1..solTaken
            /\ a = [jobId |-> s.jobId, key |-> s.key, nTime |-> s.nTime, root |-> a.root]
            /\ HeaderMeets(s.task, a.root, s)
            /\ MinedForOneTask(s) => HeaderMeets(s.task, PoolRoot(s), s)

(* A clean_jobs flag is never lost, not even when its notify is skipped in    *)
(* the drain loop or rejected as malformed: once taskDistThread is past       *)
(* activeTasks.clear(), no task older than a clean notify it took is active.  *)
CleanFlagHonoured ==
    tdPc \notin {"drain", "clear"} =>
        \A j \in DOMAIN activeTasks :
            \A i \in (activeTasks[j].notify + 1)..taken : ~IsCleanNotify(i)

(* "Drain any additional queued messages so we only distribute the latest     *)
(* job": the job being distributed is the last notify taken off the queue.    *)
DistributesLatest ==
    tdPc \in {"drain", "clear", "send"} =>
        /\ latestNotify \in 1..taken /\ IsNotify(latestNotify)
        /\ \A i \in (latestNotify + 1)..taken : ~IsNotify(i)

(* While stratumRecvThread reads the lines of a session, the shared vector    *)
(* holds the extraNonce1 of that session, however many handshakes failed      *)
(* halfway before it (initStratumProtocol, stratumReceiveLoop).               *)
ExtraNonceOfSession ==
    /\ srPc \in {"authorize", "read"} => extraNonce1 = session
    /\ \A d \in network : d.task.extraNonce1 \in 1..session

(* Each answer of the pool to a share is counted exactly once, whichever of   *)
(* the two loops takes it off the queue (checkShareResponse); and the answers *)
(* can be told apart, since no two submissions share an id and none has one   *)
(* of the handshake's.                                                        *)
ResponsesCounted ==
    LET Taken(v) == {i \in 1..taken : received[i].kind = "response" /\ received[i].verdict = v}
    IN  /\ poolShares.accepted = Cardinality(Taken("accepted"))
        /\ poolShares.rejected = Cardinality(Taken("rejected"))
        /\ \A i, j \in 1..Len(submitted) :
             /\ submitted[i].id \in 3..(nextStratumSendId - 1)
             /\ i < j => submitted[i].id < submitted[j].id

(* The solution counters balance: every counted solution ends as exactly one  *)
(* of accepted, rejected or stale, except the one in flight; no share is      *)
(* submitted that was not counted as accepted.                                *)
SolutionsAccounted ==
    /\ svStats.received = svStats.accepted + svStats.rejected + svStats.stale
                          + (IF svPc \in {"get", "verify"} THEN 1 ELSE 0)
    /\ svStats.received <= solTaken
    /\ nextStratumSendId - 3 + (IF svPc = "send" THEN 1 ELSE 0) <= svStats.accepted
    /\ Len(submitted) <= nextStratumSendId - 3

(* What the dedup set does guarantee: a share is submitted twice only if a    *)
(* solution for another job was received in between (shareValidationLoop).    *)
DuplicatesOnlyAcrossJobs ==
    \A i, j \in 1..Len(submitted) :
        (i < j /\ DedupeKey(submitted[i]) = DedupeKey(submitted[j])) =>
            \E k \in submitted[i].at..submitted[j].at :
                solutions[k].jobId # submitted[i].jobId

(* "track recently submitted (jobId, nonce) pairs to avoid duplicate pool     *)
(* submissions" (shareValidationLoop): no share is submitted twice.           *)
NoDuplicateSubmission ==
    \A i, j \in 1..Len(submitted) :
        i < j => DedupeKey(submitted[i]) # DedupeKey(submitted[j])

-----------------------------------------------------------------------------
(* Once main() has asked for the end, both queue consumers end: the dummy     *)
(* element pushed after request_stop always finds a consumer that then sees   *)
(* the stop request.                                                          *)
ConsumersStop == mainPc # "run" ~> (tdPc = "done" /\ svPc = "done")

(* "Close connection so that recv does not block the stratumRecvThread": after *)
(* 'q' the process ends (main).                                               *)
QuitTerminates == mainPc # "run" ~> mainPc = "exited"

(* The last job of the pool reaches activeTasks unless it is malformed or the *)
(* dispatcher is being stopped (taskDistributionLoop, distributeTask).        *)
JobsBecomeActive ==
    \A n \in 1..MaxReceived :
        (n <= Len(received) /\ IsNotify(n) /\ received[n].wellFormed)
            ~> \/ \E j \in DOMAIN activeTasks : activeTasks[j].notify >= n
               \/ \E i \in (n + 1)..Len(received) : IsNotify(i)
               \/ mainPc # "run"

=============================================================================
