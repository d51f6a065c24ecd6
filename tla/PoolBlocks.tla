-------------------------------- MODULE PoolBlocks --------------------------------
(***************************************************************************)
(* What the pool does with an accepted share (stratum/main/pool.js,          *)
(* 'manager.share'): it records the share, submits the primary and the       *)
(* auxiliary block a share may solve to the daemons, asks whether the block  *)
(* was accepted, and only then records the block.                            *)
(*                                                                           *)
(* Composed with PoolJobs: templates and auxiliary data change between a     *)
(* submission's requests.                                                    *)
(***************************************************************************)
EXTENDS PoolJobs, FiniteSets

CONSTANT MaxShares      \* bound on the shares

ASSUME SharesAssumption == MaxShares \in Nat

VARIABLE records        \* what became of each share and each auxiliary block

blockVars == <<vars, records>>

-----------------------------------------------------------------------------
(* Mutant: submitPrimary returns after an error.                              *)
SubmitCallbacksReturn(outcome) == IF outcome = "accepted" THEN <<"ok">> ELSE <<"error">>

(* How submitPrimary and submitAuxiliary call back: after every error a       *)
(* second time, without one.                                                  *)
SubmitCallbacks(outcome) == IF outcome = "accepted" THEN <<"ok">> ELSE <<"error", "ok">>

(* Mutant: handlePrimary goes on after an error.                              *)
ChecksStartedAnyway(callbacks) == Len(callbacks)

(* handlePrimary and handleAuxiliary log an error and ask for the block       *)
(* otherwise (checkAccepted).                                                 *)
ChecksStarted(callbacks) == Cardinality({k \in DOMAIN callbacks : callbacks[k] = "ok"})

(* A record: the job of the share; the hash submitted (of auxiliary blocks    *)
(* their number, of primary blocks 0); the job whose merkle steps went into   *)
(* the auxiliary proof; whether the submission is under way; the number of    *)
(* checkAccepted requests under way; and how often 'pool.share' was emitted.  *)
NewRecord(kind, job, isBlock) ==
    [kind |-> kind, job |-> job,
     hash |-> IF kind = "auxiliary" THEN auxData ELSE 0,
     proof |-> IF kind = "auxiliary" THEN currentJob ELSE job,
     submitting |-> isBlock, checks |-> 0, emitted |-> IF isBlock THEN 0 ELSE 1]

Record ==
    [kind : {"primary", "auxiliary"}, job : Job, hash : 0..MaxAux, proof : Job,
     submitting : BOOLEAN, checks : 0..1, emitted : 0..1]

(* 'manager.share' for a share of a valid job: a plain share is recorded at   *)
(* once (handlePrimary), a primary block and an auxiliary block are           *)
(* submitted.  A share in error (shareError) takes the way of a plain one; the *)
(* job it names is not looked at again and stands for any, known or not.      *)
ShareFound(job, isBlock, isAux) ==
    /\ Len(records) < MaxShares
    /\ isAux => mode.aux
    /\ records' = records
         \o <<NewRecord("primary", job, isBlock)>>
         \o (IF isAux THEN <<NewRecord("auxiliary", job, TRUE)>> ELSE <<>>)
    /\ UNCHANGED vars

(* The daemons have answered submitblock or getauxblock.                      *)
SubmissionDone(i) ==
    /\ records[i].submitting
    /\ \E outcome \in {"accepted", "rejected", "orphan"} :
         records' = [records EXCEPT ![i].submitting = FALSE,
                                    ![i].checks = ChecksStarted(SubmitCallbacks(outcome))]
    /\ UNCHANGED vars

(* checkAccepted has its answer and the block is recorded.                    *)
CheckDone(i) ==
    /\ records[i].checks > 0
    /\ records' = [records EXCEPT ![i].checks = @ - 1, ![i].emitted = @ + 1]
    /\ UNCHANGED vars

BlocksInit == Init /\ records = <<>>

(* The steps that follow a share; those of PoolJobs interleave with them.     *)
ShareStep ==
    \/ \E job \in validJobs, isBlock, isAux \in BOOLEAN : ShareFound(job, isBlock, isAux)
    \/ \E i \in DOMAIN records : SubmissionDone(i) \/ CheckDone(i)

-----------------------------------------------------------------------------
(* Type invariant; no share and no block is checked or recorded twice,        *)
(* although the callback of a failed submission runs twice.                   *)
BlocksTypeOK == TypeOK /\ records \in Seq(Record)

(***************************************************************************)
(* Every share and every block found is eventually recorded, also when the   *)
(* daemons reject the submission: 'pool.share' carries the miner's work.     *)
(***************************************************************************)
EveryShareRecorded ==
    \A i \in 1..(2 * MaxShares) :
      (i \in DOMAIN records) ~> (i \in DOMAIN records /\ records[i].emitted = 1)

(***************************************************************************)
(* The auxiliary proof of work fits the share it is made from: the block     *)
(* that is submitted is the one the share's coinbase commits to, and the     *)
(* merkle steps are those of the share's job ("Submit Valid Block            *)
(* Candidate", handleAuxiliary and submitAuxiliary).                         *)
(***************************************************************************)
ProofFitsShare ==
    \A i \in DOMAIN records :
      LET r == records[i] IN
        r.kind = "auxiliary" => r.hash = r.job.aux /\ r.proof = r.job

=============================================================================
