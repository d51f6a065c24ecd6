---------------------------- MODULE TaskDistribution ----------------------------
(***************************************************************************)
(* taskDistThread: taskDistributionLoop, distributeTask, checkShareResponse  *)
(* (threads/task_dist_thread.cpp).  One step per access to a shared object:  *)
(* a pop, a try_pop, activeTasks.clear, the sends, activeTasks.insert.       *)
(***************************************************************************)
EXTENDS DispatcherState

VARIABLES
    tdPc,                   \* where taskDistThread is
    latestNotify,           \* position of the notify to distribute, 0 if none yet
    cleanJobQueue,          \* clean flag accumulated over the drained notifies
    currentPoolDifficulty,  \* parameter of the last set_difficulty applied
    dispatcherTask,         \* the task between its send and its insertion
    clock,                  \* system_clock in milliseconds
    network,                \* tasks that reached the Qubic network, with job id
    tasksDistributed,       \* stats.tasksDistributed
    poolShares              \* stats.poolSharesAccepted / poolSharesRejected

tdVars == <<tdPc, latestNotify, cleanJobQueue, currentPoolDifficulty,
            dispatcherTask, clock, network, tasksDistributed, poolShares>>

NoJob     == [jobId |-> 0, task |-> NoTask]
SentTask  == [jobId : Nat, task : Task]

TaskDistTypeOK ==
    /\ tdPc \in {"check", "pop", "drain", "clear", "send", "insert", "done"}
    /\ latestNotify \in 0..taken
    /\ cleanJobQueue \in BOOLEAN
    /\ currentPoolDifficulty \in Nat
    /\ dispatcherTask \in SentTask
    /\ clock \in Nat
    /\ network \subseteq SentTask
    /\ tasksDistributed \in Nat
    /\ poolShares \in [accepted : Nat, rejected : Nat]

TaskDistInit ==
    /\ tdPc = "check"
    /\ latestNotify = 0
    /\ cleanJobQueue = FALSE
    /\ currentPoolDifficulty = 1
    /\ dispatcherTask = NoJob
    /\ clock = 1
    /\ network = {}
    /\ tasksDistributed = 0
    /\ poolShares = [accepted |-> 0, rejected |-> 0]

-----------------------------------------------------------------------------
(* divideTarget leaves the base target alone for a difficulty of 0 or 1.      *)
TargetOf(diff) == IF diff <= 1 THEN 1 ELSE diff

(* Mutant: only the outer loop counts the pool's answers.                     *)
CheckShareResponseNotDrained(m) ==
    IF m.kind # "response" \/ tdPc = "drain" THEN poolShares
    ELSE CASE m.verdict = "rejected" -> [poolShares EXCEPT !.rejected = @ + 1]
           [] m.verdict = "accepted" -> [poolShares EXCEPT !.accepted = @ + 1]
           [] OTHER                  -> poolShares

CheckShareResponse(m) ==
    IF m.kind # "response" THEN poolShares
    ELSE CASE m.verdict = "rejected" -> [poolShares EXCEPT !.rejected = @ + 1]
           [] m.verdict = "accepted" -> [poolShares EXCEPT !.accepted = @ + 1]
           [] OTHER                  -> poolShares

(* Mutant: the drain loop skips set_difficulty.                               *)
ApplyMessageNotDrained(m) ==
    /\ currentPoolDifficulty' =
           IF m.kind = "set_difficulty" /\ tdPc # "drain" THEN m.diff ELSE currentPoolDifficulty
    /\ poolShares' = CheckShareResponse(m)

(* What both loops do with a message that is not a notify.                    *)
ApplyMessage(m) ==
    /\ currentPoolDifficulty' =
           IF m.kind = "set_difficulty" THEN m.diff ELSE currentPoolDifficulty
    /\ poolShares' = CheckShareResponse(m)

(* Mutant: the drain loop keeps the first notify.                             *)
DrainedNotifyFirst(m) == latestNotify

(* The drain loop: a later notify replaces the earlier one, and its clean     *)
(* flag is or-ed into the accumulated one.                                    *)
DrainedNotify(m) == IF m.kind = "notify" THEN taken + 1 ELSE latestNotify

(* Mutant: only the clean flag of the notify that is distributed counts.      *)
DrainedCleanLast(m) == IF m.kind = "notify" THEN m.clean ELSE cleanJobQueue

DrainedClean(m) == cleanJobQueue \/ (m.kind = "notify" /\ m.clean)

-----------------------------------------------------------------------------
(* while (!st.stop_requested())                                               *)
TaskDistCheck ==
    /\ tdPc = "check"
    /\ tdPc' = IF StopRequested("taskDist") THEN "done" ELSE "pop"
    /\ UNCHANGED <<sharedVars, latestNotify, cleanJobQueue, currentPoolDifficulty,
                   dispatcherTask, clock, network, tasksDistributed, poolShares>>

(* queue.pop() blocks while the queue is empty.                               *)
TaskDistPop ==
    /\ tdPc = "pop"
    /\ PopMessage
    /\ LET m == FrontMessage IN
         /\ ApplyMessage(m)
         /\ IF m.kind = "notify"
            THEN /\ latestNotify' = taken + 1
                 /\ cleanJobQueue' = m.clean
                 /\ tdPc' = "drain"
            ELSE /\ tdPc' = "check"
                 /\ UNCHANGED <<latestNotify, cleanJobQueue>>
    /\ UNCHANGED <<received, solutions, solTaken, activeTasks, connected, session,
                   extraNonce1, stopRequested, dispatcherTask, clock, network,
                   tasksDistributed>>

(* try_pop() of the drain loop.                                               *)
TaskDistDrain ==
    /\ tdPc = "drain"
    /\ PopMessage
    /\ ApplyMessage(FrontMessage)
    /\ latestNotify' = DrainedNotify(FrontMessage)
    /\ cleanJobQueue' = DrainedClean(FrontMessage)
    /\ UNCHANGED <<received, solutions, solTaken, activeTasks, connected, session,
                   extraNonce1, stopRequested, tdPc, dispatcherTask, clock, network,
                   tasksDistributed>>

TaskDistDrained ==
    /\ tdPc = "drain"
    /\ ~MessagesWaiting
    /\ tdPc' = "clear"
    /\ UNCHANGED <<sharedVars, latestNotify, cleanJobQueue, currentPoolDifficulty,
                   dispatcherTask, clock, network, tasksDistributed, poolShares>>

(* distributeTask up to its size checks: the table is cleared before the      *)
(* notify is found to be malformed.  Locals are reset when they leave scope.  *)
DistributeClear ==
    /\ tdPc = "clear"
    /\ activeTasks' = IF received[latestNotify].clean \/ cleanJobQueue
                      THEN EmptyMap ELSE activeTasks
    /\ cleanJobQueue' = FALSE
    /\ IF received[latestNotify].wellFormed
       THEN tdPc' = "send" /\ latestNotify' = latestNotify
       ELSE tdPc' = "check" /\ latestNotify' = 0
    /\ UNCHANGED <<received, taken, solutions, solTaken, connected, session,
                   extraNonce1, stopRequested, currentPoolDifficulty, dispatcherTask, clock, network,
                   tasksDistributed, poolShares>>

(* The packet is built from the difficulty and the extraNonce1 of the moment, *)
(* named by the clock, signed and sent to every peer: it reaches the network  *)
(* unless every send fails.                                                   *)
DistributeSend ==
    /\ tdPc = "send"
    /\ dispatcherTask' = [jobId |-> clock,
                          task |-> [notify |-> latestNotify,
                                    target |-> TargetOf(currentPoolDifficulty),
                                    extraNonce1 |-> extraNonce1]]
    /\ network' \in {network, network \cup {dispatcherTask'}}
    /\ tdPc' = "insert"
    /\ latestNotify' = 0
    /\ UNCHANGED <<sharedVars, cleanJobQueue, currentPoolDifficulty,
                   clock, tasksDistributed, poolShares>>

(* Only after the sends does the task become active.                          *)
DistributeInsert ==
    /\ tdPc = "insert"
    /\ activeTasks' = Insert(activeTasks, dispatcherTask.jobId, dispatcherTask.task)
    /\ tasksDistributed' = tasksDistributed + 1
    /\ dispatcherTask' = NoJob
    /\ tdPc' = "check"
    /\ UNCHANGED <<received, taken, solutions, solTaken, connected, session,
                   extraNonce1, stopRequested, latestNotify, cleanJobQueue,
                   currentPoolDifficulty, clock, network, poolShares>>

(* Time passes; several tasks may be distributed within one millisecond.      *)
ClockTick ==
    /\ clock < MaxClock
    /\ clock' = clock + 1
    /\ UNCHANGED <<sharedVars, tdPc, latestNotify, cleanJobQueue, currentPoolDifficulty,
                   dispatcherTask, network, tasksDistributed, poolShares>>

TaskDistStep ==
    \/ TaskDistCheck
    \/ TaskDistPop
    \/ TaskDistDrain
    \/ TaskDistDrained
    \/ DistributeClear
    \/ DistributeSend
    \/ DistributeInsert

=============================================================================
