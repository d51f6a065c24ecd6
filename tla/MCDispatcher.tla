------------------------------ MODULE MCDispatcher ------------------------------
(***************************************************************************)
(* Instances of Dispatcher for TLC.                                          *)
(***************************************************************************)
EXTENDS Dispatcher

CONSTANT StrongKey   \* the key whose hash is the best on every job

(* The strong key meets difficulty 3, every other key difficulty 2; for the   *)
(* second message each meets one less with the job's own root.                *)
MCHash == [x \in (1..MaxReceived) \X [notify : 0..MaxReceived, extraNonce1 : 0..MaxSession]
                 \X Keys \X NTimes |->
             (IF x[3] = StrongKey THEN 3 ELSE 2)
               - (IF x[1] = 2 /\ x[2].notify = 2 THEN 1 ELSE 0)]

Job(clean, wellFormed) == [kind |-> "notify", clean |-> clean, wellFormed |-> wellFormed]
Diff(d)                == [kind |-> "set_difficulty", diff |-> d]
Unknown                == [kind |-> "ignored"]

(* Every kind of message; the difficulty 0 counts as 1.                       *)
AllMessages   == {Job(c, w) : c, w \in BOOLEAN} \cup {Diff(0), Unknown}
(* Jobs and difficulties without the malformed ones.                          *)
PlainMessages == {Job(TRUE, TRUE), Job(FALSE, TRUE), Diff(3)}
(* Jobs only.                                                                 *)
JobsOnly      == {Job(TRUE, TRUE), Job(FALSE, TRUE)}

-----------------------------------------------------------------------------
(* A root that no task was sent with.                                         *)
ForeignRoots == {OtherBytes}

(* With such a root, one solution and two messages of the pool are followed.  *)
FewForeignRoots ==
    (\E i \in DOMAIN solutions : solutions[i].root \in OtherRoots) =>
      /\ Len(solutions) = 1
      /\ Cardinality({i \in DOMAIN received : received[i].kind # "response"}) <= 2

================================================================================
