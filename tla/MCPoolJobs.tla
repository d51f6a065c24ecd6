------------------------------- MODULE MCPoolJobs -------------------------------
(***************************************************************************)
(* The pool and its daemons.  Three parts of the work are explored each by   *)
(* itself, while the rest of the state keeps its initial value:              *)
(*   "jobs"     the job manager follows the chains, in the six               *)
(*              configurations of setupBlockPolling, and requests may fail;  *)
(*   "blocks"   blocks are found while the job manager works, in the         *)
(*              configuration that polls both chains, without failures;      *)
(*   "daemons"  commands to the daemons of one coin.                         *)
(***************************************************************************)
EXTENDS PoolBlocks, DaemonInterface

VARIABLE part

Combined == [aux |-> TRUE, primaryZmq |-> FALSE, auxZmq |-> FALSE]
AllModes == {m \in [aux : BOOLEAN, primaryZmq : BOOLEAN, auxZmq : BOOLEAN] : m.auxZmq => m.aux}
OnlyCombined == {Combined}
OneBlock == <<1>>
TwoBlocks == <<1, 2>>

poolVars == <<blockVars, daemonVars, part>>

PoolInit ==
    /\ part \in {"jobs", "blocks", "daemons"}
    /\ BlocksInit /\ DaemonInit
    /\ part # "jobs" => mode = Combined
    /\ part # "daemons" => online = {}

JobsStep(A) ==
    /\ part \in {"jobs", "blocks"} /\ A /\ UNCHANGED <<records, daemonVars, part>>
    /\ part = "blocks" => errors' = errors
BlocksStep(A) == part = "blocks" /\ A /\ UNCHANGED <<daemonVars, part>>
DaemonsStep(A) == part = "daemons" /\ A /\ UNCHANGED <<blockVars, part>>

PoolNext ==
    \/ JobsStep(Next)
    \/ BlocksStep(ShareStep)
    \/ DaemonsStep(DaemonNext)

(* Timers fire, requests are answered or time out, and callbacks run.         *)
PoolSpec ==
    /\ PoolInit /\ [][PoolNext]_poolVars
    /\ WF_poolVars(JobsStep(PollTick))
    /\ WF_poolVars(JobsStep(CheckAuxiliaryDone))
    /\ WF_poolVars(JobsStep(CheckPrimaryDone))
    /\ WF_poolVars(JobsStep(RebroadcastTimeout))
    /\ \A h \in Handlers :
         WF_poolVars(JobsStep(DaemonAnswers(h))) /\ WF_poolVars(JobsStep(Callbacks(h)))
    /\ \A i \in 1..(2 * MaxShares) :
         WF_poolVars(BlocksStep(i \in DOMAIN records /\ (SubmissionDone(i) \/ CheckDone(i))))
    /\ \A d \in Daemons : WF_poolVars(DaemonsStep(RequestEvent(d)))

-----------------------------------------------------------------------------
(* Types of the pool's state; in particular no share starts two checks.       *)
PoolTypeOK == BlocksTypeOK /\ DaemonTypeOK

(* The caller of a command gets one answer and the right one, however the     *)
(* daemons' answers are ordered: a streaming command fails only when every    *)
(* daemon did, and checkOnline keeps as many instances as are online          *)
(* (sendCommands, checkOnline).                                               *)
CallersAnsweredRightly == AnsweredOnce /\ FirstSuccessWins /\ CountsOnlineDaemons

=============================================================================
