-------------------------------- MODULE PoolJobs --------------------------------
(***************************************************************************)
(* How the stratum pool follows its coin daemons (stratum/main/pool.js,      *)
(* manager.js, network.js): block polling and ZMQ notifications of the       *)
(* primary and the auxiliary chain, the rebroadcast timeout, and the job     *)
(* manager they all feed.                                                    *)
(*                                                                           *)
(* Every handler is a chain of requests to a daemon and of callbacks, and    *)
(* chains overlap freely: the answer to a request is fixed when the daemon   *)
(* gives it and applied when its callback runs, so answers can be applied    *)
(* late and out of order.                                                    *)
(***************************************************************************)
EXTENDS Integers, Sequences

CONSTANTS
    Modes,      \* configurations: records of aux, primaryZmq, auxZmq
    Height,     \* height of each primary block; blocks are 1, 2, ... in the
                \* order in which they become the tip
    MaxAux,     \* bound on the auxiliary blocks
    MaxErrors   \* bound on the failed requests

Blocks == DOMAIN Height

ASSUME ModesAssumption ==
    Modes \subseteq [aux : BOOLEAN, primaryZmq : BOOLEAN, auxZmq : BOOLEAN]
ASSUME HeightAssumption ==
    /\ Height \in Seq(Nat) /\ Height # <<>>
    /\ \A b, c \in Blocks : b <= c => Height[b] <= Height[c]
ASSUME BoundsAssumption ==
    MaxAux \in Nat \ {0} /\ MaxErrors \in Nat

VARIABLES
    mode,       \* the configuration
    tip,        \* tip of the primary chain
    auxTip,     \* tip of the auxiliary chain
    errors,     \* number of requests that failed
    seen,       \* primary.height and primary.previousblockhash; 0 when unset
    auxData,    \* auxiliary.rpcData; 0 without an auxiliary chain
    currentJob, \* manager.currentJob
    validJobs,  \* manager.validJobs
    timer,      \* whether network.timeoutInterval is running
    chain       \* the request under way in each handler

vars == <<mode, tip, auxTip, errors, seen, auxData, currentJob,
          validJobs, timer, chain>>

(* The handlers; two ZMQ messages of the primary chain may overlap.           *)
Handlers == {"poll", "zmq1", "zmq2", "auxZmq", "timeout"}

Waiting == 0
Failed  == -1

(* A job by the blocks it is built on; its id comes from a 16-bit counter.    *)
Job == [block : Blocks, aux : 0..MaxAux]

Chain == [step : {"idle", "checkAux", "auxTemplate", "checkPrimary", "template", "dropped"},
          auxUpdate : BOOLEAN, reply : Int]

Idle     == [step |-> "idle", auxUpdate |-> FALSE, reply |-> Waiting]
Ask(s,u) == [step |-> s, auxUpdate |-> u, reply |-> Waiting]

(* The pool after setupFirstJob, setupBlockPolling and network.started.       *)
Init ==
    /\ mode \in Modes
    /\ tip = 1 /\ auxTip = 1
    /\ errors = 0
    /\ seen = 0
    /\ auxData = IF mode.aux THEN 1 ELSE 0
    /\ currentJob = [block |-> 1, aux |-> auxData]
    /\ validJobs = {currentJob}
    /\ timer = TRUE
    /\ chain = [h \in Handlers |-> Idle]

-----------------------------------------------------------------------------
(* setupBlockPolling: which handlers a configuration starts.                  *)
PollsAuxiliary == mode.aux /\ ~mode.auxZmq
Polls          == ~mode.primaryZmq \/ PollsAuxiliary
CombinedPoll   == PollsAuxiliary /\ ~mode.primaryZmq

(* The newBroadcast argument each handler passes to handlePrimaryTemplate.    *)
NewBroadcast(h) == h # "auxZmq" /\ (h = "poll" => ~PollsAuxiliary \/ CombinedPoll)

(* Mutant: the job is built from the template of the previous one.            *)
InstallJobStale(block, kept) ==
    LET job == [currentJob EXCEPT !.aux = auxData] IN
      /\ currentJob' = job
      /\ validJobs' = kept \cup {job}
      /\ timer' = TRUE

(* A new job becomes the current one and is broadcast to the clients, which   *)
(* restarts the rebroadcast timeout.                                          *)
InstallJob(block, kept) ==
    LET job == [block |-> block, aux |-> auxData] IN
      /\ currentJob' = job
      /\ validJobs' = kept \cup {job}
      /\ timer' = TRUE

IsNewBlock(block) ==
    Height[block] >= Height[currentJob.block] /\ currentJob.block # block

(* Mutant: only a new primary block makes a new job.                          *)
MakesJobForPrimary(block, newBlock) == IsNewBlock(block)

(* What manager.handleTemplate returns.                                       *)
MakesJob(block, newBlock) == IsNewBlock(block) \/ newBlock

(* manager.handleTemplate when it makes a job.                                *)
HandleTemplate(block, newBroadcast) ==
    InstallJob(block, IF newBroadcast THEN {} ELSE validJobs)

(* manager.handleUpdates.                                                     *)
HandleUpdates(block) == InstallJob(block, validJobs)

-----------------------------------------------------------------------------
(* The daemons and the chains.                                                *)

(* A block message of ZMQ starts its handler, or is lost.                     *)
NewPrimaryBlock ==
    /\ tip + 1 \in Blocks
    /\ tip' = tip + 1
    /\ \/ /\ mode.primaryZmq
          /\ \E h \in {"zmq1", "zmq2"} :
               /\ chain[h] = Idle
               /\ chain' = [chain EXCEPT ![h] = Ask("template", FALSE)]
       \/ UNCHANGED chain
    /\ UNCHANGED <<mode, auxTip, errors, seen, auxData, currentJob,
                   validJobs, timer>>

NewAuxiliaryBlock ==
    /\ mode.aux /\ auxTip < MaxAux
    /\ auxTip' = auxTip + 1
    /\ \/ /\ mode.auxZmq /\ chain["auxZmq"] = Idle
          /\ chain' = [chain EXCEPT !["auxZmq"] = Ask("auxTemplate", FALSE)]
       \/ UNCHANGED chain
    /\ UNCHANGED <<mode, tip, errors, seen, auxData, currentJob,
                   validJobs, timer>>

(* A daemon answers, or the request fails or times out.                       *)
DaemonAnswers(h) ==
    /\ chain[h].step \notin {"idle", "dropped"} /\ chain[h].reply = Waiting
    /\ \/ /\ chain' = [chain EXCEPT ![h].reply =
                          IF chain[h].step \in {"checkAux", "auxTemplate"} THEN auxTip ELSE tip]
          /\ UNCHANGED errors
       \/ /\ errors < MaxErrors
          /\ errors' = errors + 1
          /\ chain' = [chain EXCEPT ![h].reply = Failed]
    /\ UNCHANGED <<mode, tip, auxTip, seen, auxData, currentJob,
                   validJobs, timer>>

-----------------------------------------------------------------------------
(* The callbacks.                                                             *)
Answered(h, step) == chain[h].step = step /\ chain[h].reply # Waiting
Ok(h) == chain[h].reply # Failed

Continue(h, c) == chain' = [chain EXCEPT ![h] = c]

(* The interval handler: nothing while pollingFlag is set.                    *)
PollTick ==
    /\ Polls /\ chain["poll"] = Idle
    /\ Continue("poll", Ask(IF PollsAuxiliary THEN "checkAux" ELSE "checkPrimary", FALSE))
    /\ UNCHANGED <<mode, tip, auxTip, errors, seen, auxData, currentJob,
                   validJobs, timer>>

(* Mutant: the chain is checked and its template not fetched.                 *)
CheckAuxiliaryDoneNoTemplate ==
    /\ Answered("poll", "checkAux")
    /\ Continue("poll", Ask(IF Ok("poll") THEN "checkPrimary" ELSE "dropped", FALSE))
    /\ UNCHANGED <<mode, tip, auxTip, errors, seen, auxData, currentJob,
                   validJobs, timer>>

(* An error of checkAuxiliaryTemplate ends the chain without resetting        *)
(* pollingFlag.                                                               *)
CheckAuxiliaryDone ==
    /\ Answered("poll", "checkAux")
    /\ Continue("poll", Ask(IF Ok("poll") THEN "auxTemplate" ELSE "dropped", FALSE))
    /\ UNCHANGED <<mode, tip, auxTip, errors, seen, auxData, currentJob,
                   validJobs, timer>>

(* handleAuxiliaryTemplate; after an error the chain goes on without update.  *)
AuxiliaryTemplateDone(h) ==
    /\ Answered(h, "auxTemplate")
    /\ auxData' = IF Ok(h) THEN chain[h].reply ELSE auxData
    /\ Continue(h, Ask(IF h = "poll" THEN "checkPrimary" ELSE "template", auxData' # auxData))
    /\ UNCHANGED <<mode, tip, auxTip, errors, seen, currentJob,
                   validJobs, timer>>

PrimaryUpdate(h) == seen # chain[h].reply \/ chain[h].auxUpdate

(* checkPrimaryTemplate: the block counts as seen before its template has     *)
(* been fetched.                                                              *)
CheckPrimaryDone ==
    /\ Answered("poll", "checkPrimary")
    /\ seen' = IF Ok("poll") THEN chain["poll"].reply ELSE seen
    /\ Continue("poll", IF Ok("poll") /\ PrimaryUpdate("poll")
                          THEN Ask("template", chain["poll"].auxUpdate) ELSE Idle)
    /\ UNCHANGED <<mode, tip, auxTip, errors, auxData, currentJob,
                   validJobs, timer>>

(* handlePrimaryTemplate: an error, a new job, no change, or (timeout only)   *)
(* an updated job for what handleTemplate did not take for a new block.       *)
TemplateDone(h) ==
    LET block == chain[h].reply
        made  == Ok(h) /\ MakesJob(block, chain[h].auxUpdate)
    IN
      /\ Answered(h, "template")
      /\ \/ made /\ HandleTemplate(block, NewBroadcast(h))
         \/ ~made /\ Ok(h) /\ h = "timeout" /\ HandleUpdates(block)
         \/ /\ ~made /\ (Ok(h) => h # "timeout")
            /\ UNCHANGED <<currentJob, validJobs, timer>>
      /\ Continue(h, Idle)
      /\ UNCHANGED <<mode, tip, auxTip, errors, seen, auxData>>

(* network.timeout.  A request gives up after 3 s, long before the next one.  *)
RebroadcastTimeout ==
    /\ timer /\ chain["timeout"] = Idle
    /\ timer' = FALSE
    /\ Continue("timeout", Ask("template", FALSE))
    /\ UNCHANGED <<mode, tip, auxTip, errors, seen, auxData, currentJob,
                   validJobs>>

Callbacks(h) ==
    \/ AuxiliaryTemplateDone(h)
    \/ TemplateDone(h)

Next ==
    \/ NewPrimaryBlock
    \/ NewAuxiliaryBlock
    \/ PollTick
    \/ CheckAuxiliaryDone
    \/ CheckPrimaryDone
    \/ RebroadcastTimeout
    \/ \E h \in Handlers : DaemonAnswers(h) \/ Callbacks(h)

Spec == Init /\ [][Next]_vars

-----------------------------------------------------------------------------
(* Type invariant.                                                            *)
TypeOK ==
    /\ mode \in Modes
    /\ tip \in Blocks /\ auxTip \in 1..MaxAux
    /\ errors \in 0..MaxErrors
    /\ seen \in {0} \cup Blocks
    /\ auxData \in 0..MaxAux
    /\ currentJob \in Job
    /\ validJobs \subseteq Job
    /\ timer \in BOOLEAN
    /\ chain \in [Handlers -> Chain]

(* Work is still rebroadcast: the timeout is running, or its handler is.  An  *)
(* error in the handler ends this for good; only a broadcast starts the timer.*)
Rebroadcasting == timer \/ chain["timeout"] # Idle

(***************************************************************************)
(* A new auxiliary block is never forgotten between its template and the     *)
(* job: unless a request failed, when auxiliary.rpcData has changed, either  *)
(* the current job was built from it or the chain that fetched it still      *)
(* carries the update flag to handleTemplate, whatever else installs a job   *)
(* meanwhile.                                                                *)
(***************************************************************************)
AuxUpdateReachesJob ==
    errors = 0 => currentJob.aux = auxData \/ \E h \in Handlers : chain[h].auxUpdate

(***************************************************************************)
(* The pool's work follows the primary chain: a tip that stays is eventually *)
(* the block the current job builds on, although polling counts a block as   *)
(* seen before its template has arrived, ZMQ messages get lost and late      *)
(* answers undo a job; for as long as rebroadcasts go on.                    *)
(***************************************************************************)
JobFollowsChain ==
    \A b \in Blocks :
      tip = b ~> (tip # b \/ currentJob.block = b \/ ~Rebroadcasting)

(***************************************************************************)
(* The same for an auxiliary chain that is polled                            *)
(* (handleCombinedBlockPolling, handleAuxiliaryBlockPolling), also when a    *)
(* request fails after auxiliary.rpcData was replaced.  A failed             *)
(* checkAuxiliaryTemplate is the exception: pollingFlag stays set and the    *)
(* chain is not looked at again.                                             *)
(***************************************************************************)
AuxFollowsChain ==
    \A a \in 1..MaxAux :
      PollsAuxiliary /\ auxTip = a
        ~> \/ auxTip # a \/ currentJob.aux = a
           \/ ~Rebroadcasting \/ chain["poll"].step = "dropped"

=============================================================================
