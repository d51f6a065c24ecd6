---------------------------- MODULE ShareValidation ----------------------------
(***************************************************************************)
(* shareValidThread: shareValidationLoop (threads/share_valid_thread.cpp).   *)
(* The thread takes a solution, drops it if it is a recent duplicate, looks  *)
(* its task up, validates the hash and submits it to the pool.  One step per *)
(* access to a shared object: the pop, activeTasks.get, isConnected, send.   *)
(***************************************************************************)
EXTENDS DispatcherState

VARIABLES
    svPc,               \* where shareValidThread is
    task,               \* the copy of the solution's task taken from activeTasks
    recentSubmits,      \* dedup set of (job id, key)
    lastCleanJobId,     \* job id of the last solution that was not a duplicate
    nextStratumSendId,  \* id of the next mining.submit
    svStats,            \* solution counters of DispatcherStats
    submitted           \* history: the mining.submit messages handed to the pool

svVars == <<svPc, task, recentSubmits, lastCleanJobId, nextStratumSendId,
            svStats, submitted>>

Submission == [id : Nat, jobId : Nat, key : Keys, nTime : NTimes, task : Task,
               at : Nat, session : Nat]

ShareValidTypeOK ==
    /\ svPc \in {"check", "pop", "get", "verify", "send", "done"}
    /\ task \in Task
    /\ recentSubmits \subseteq Nat \X Keys
    /\ lastCleanJobId \in Nat
    /\ nextStratumSendId \in Nat
    /\ svStats \in [received : Nat, accepted : Nat, rejected : Nat, stale : Nat,
                    passedPoolDiff : Nat]
    /\ submitted \in Seq(Submission)

ShareValidInit ==
    /\ svPc = "check"
    /\ task = NoTask
    /\ recentSubmits = {}
    /\ lastCleanJobId = 0
    /\ nextStratumSendId = 3
    /\ svStats = [received |-> 0, accepted |-> 0, rejected |-> 0, stale |-> 0,
                  passedPoolDiff |-> 0]
    /\ submitted = <<>>

-----------------------------------------------------------------------------
(* The solution being processed is the one popped last.                       *)
sol == solutions[solTaken]

(* jobId + nonce + extraNonce2; the timestamp is not part of it.              *)
DedupeKey(s) == <<s.jobId, s.key>>

(* The header of task t with merkle root r, completed from the solution, has  *)
(* a hash <= base target / target, i.e. it meets at least that difficulty.    *)
HeaderMeets(t, r, s) == Hash[t.notify, r, s.key, s.nTime] >= t.target

(* verifyHashVsTarget: the header that is hashed has the root the solution    *)
(* claims, which nothing compares with the coinbase of the task.              *)
VerifyHashVsTarget(t, s) == HeaderMeets(t, s.root, s)

(* Mutant: a submitted share is not remembered.                               *)
RememberedNot(s) == recentSubmits

Remembered(s) == recentSubmits \cup {DedupeKey(s)}

(* The dedup set is emptied whenever the job of a solution is not the job of  *)
(* the solution before.                                                       *)
ForgetsSubmits(s) == s.jobId # lastCleanJobId

NextSendId == nextStratumSendId + 1

-----------------------------------------------------------------------------
ShareValidCheck ==
    /\ svPc = "check"
    /\ svPc' = IF StopRequested("shareValid") THEN "done" ELSE "pop"
    /\ UNCHANGED <<sharedVars, task, recentSubmits, lastCleanJobId,
                   nextStratumSendId, svStats, submitted>>

(* A duplicate is skipped before it is counted.                               *)
ShareValidSkipDuplicate ==
    /\ svPc = "pop"
    /\ PopSolution
    /\ DedupeKey(FrontSolution) \in recentSubmits
    /\ svPc' = "check"
    /\ UNCHANGED <<received, taken, solutions, activeTasks, connected, session,
                   extraNonce1, stopRequested, task, recentSubmits, lastCleanJobId,
                   nextStratumSendId, svStats, submitted>>

(* Any other solution is counted.                                             *)
ShareValidPop ==
    /\ svPc = "pop"
    /\ PopSolution
    /\ DedupeKey(FrontSolution) \notin recentSubmits
    /\ svStats' = [svStats EXCEPT !.received = @ + 1]
    /\ recentSubmits' = IF ForgetsSubmits(FrontSolution) THEN {} ELSE recentSubmits
    /\ lastCleanJobId' = FrontSolution.jobId
    /\ svPc' = "get"
    /\ UNCHANGED <<received, taken, solutions, activeTasks, connected, session,
                   extraNonce1, stopRequested, task, nextStratumSendId, submitted>>

(* Mutant: a stale solution is not counted as such.                           *)
ShareValidStaleUncounted ==
    /\ svPc = "get"
    /\ sol.jobId \notin DOMAIN activeTasks
    /\ svPc' = "check"
    /\ UNCHANGED <<sharedVars, task, recentSubmits, lastCleanJobId,
                   nextStratumSendId, svStats, submitted>>

(* activeTasks.get(sol.jobId) finds nothing.                                  *)
ShareValidStale ==
    /\ svPc = "get"
    /\ sol.jobId \notin DOMAIN activeTasks
    /\ svStats' = [svStats EXCEPT !.stale = @ + 1]
    /\ svPc' = "check"
    /\ UNCHANGED <<sharedVars, task, recentSubmits, lastCleanJobId,
                   nextStratumSendId, submitted>>

(* activeTasks.get(sol.jobId) returns a copy, used from here on.              *)
ShareValidGet ==
    /\ svPc = "get"
    /\ sol.jobId \in DOMAIN activeTasks
    /\ task' = activeTasks[sol.jobId]
    /\ svPc' = "verify"
    /\ UNCHANGED <<sharedVars, recentSubmits, lastCleanJobId,
                   nextStratumSendId, svStats, submitted>>

ShareValidReject ==
    /\ svPc = "verify"
    /\ ~VerifyHashVsTarget(task, sol)
    /\ svStats' = [svStats EXCEPT !.rejected = @ + 1]
    /\ svPc' = "check"
    /\ task' = NoTask
    /\ UNCHANGED <<sharedVars, recentSubmits, lastCleanJobId,
                   nextStratumSendId, submitted>>

(* The share counts as accepted and enters the dedup set before it is known   *)
(* whether the pool connection is up; when it is down the share is dropped.   *)
ShareValidAccept ==
    /\ svPc = "verify"
    /\ VerifyHashVsTarget(task, sol)
    /\ svStats' = [svStats EXCEPT !.accepted = @ + 1, !.passedPoolDiff = @ + 1]
    /\ recentSubmits' = Remembered(sol)
    /\ IF connected THEN svPc' = "send" /\ task' = task
                    ELSE svPc' = "check" /\ task' = NoTask
    /\ UNCHANGED <<sharedVars, lastCleanJobId, nextStratumSendId, submitted>>

(* The id is used up even if the send fails or the connection went away.      *)
ShareValidSend ==
    /\ svPc = "send"
    /\ nextStratumSendId' = NextSendId
    /\ \E o \in SendOutcomes :
         /\ submitted' = IF o = "sent"
              THEN Append(submitted, [id |-> nextStratumSendId, jobId |-> sol.jobId,
                                      key |-> sol.key, nTime |-> sol.nTime, task |-> task,
                                      at |-> solTaken, session |-> session])
              ELSE submitted
         /\ connected' = (o = "sent")
    /\ svPc' = "check"
    /\ task' = NoTask
    /\ UNCHANGED <<received, taken, solutions, solTaken, activeTasks, session,
                   extraNonce1, stopRequested, recentSubmits, lastCleanJobId, svStats>>

ShareValidStep ==
    \/ ShareValidCheck
    \/ ShareValidSkipDuplicate
    \/ ShareValidPop
    \/ ShareValidStale
    \/ ShareValidGet
    \/ ShareValidReject
    \/ ShareValidAccept
    \/ ShareValidSend

=============================================================================
