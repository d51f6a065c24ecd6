----------------------------- MODULE DaemonInterface -----------------------------
(***************************************************************************)
(* The pool's interface to the daemons of one coin                           *)
(* (daemon/main/interface.js): a command is sent to every instance at once,  *)
(* the answers come back in any order, and the caller's callback gets the    *)
(* first success ("streaming") or all results.  At start-up checkOnline      *)
(* drops the instances that do not answer.                                   *)
(*                                                                           *)
(* Calls share nothing but the list of instances, so one call at a time is   *)
(* modelled.                                                                 *)
(***************************************************************************)
EXTENDS Integers, Sequences, FiniteSets, SequencesExt

CONSTANTS
    N,          \* number of configured daemons
    MaxCalls    \* bound on the calls

ASSUME InstancesAssumption == N \in Nat \ {0}
ASSUME CallsAssumption == MaxCalls \in Nat

Daemons == 1..N

VARIABLES
    online,     \* the daemons that were up when checkOnline asked
    instances,  \* interface.instances
    purpose,    \* the call under way: "none", "online", "all" or "streaming"
    events,     \* per daemon: what its request has still to deliver
    answered,   \* per daemon: `responded` of handleRequest
    completed,  \* per daemon: eachCallback has been called
    results,    \* `results` of sendCommands, in the order of arrival
    responded,  \* `responded` of sendCommands
    delivered,  \* what the caller's callback was called with, in order
    calls       \* number of calls made

callVars == <<purpose, events, answered, completed, results, responded, delivered>>
daemonVars == <<online, instances, callVars, calls>>

(* The result of a request: whose it is and whether it is an error.           *)
Result == [from : Daemons, error : BOOLEAN]

(* What an HTTP request can deliver to handleRequest, as the sequence of its  *)
(* callbacks, TRUE for an error.  A refused login (401, 403) calls back       *)
(* twice, the second time for the body that cannot be parsed; a request may   *)
(* also be aborted by its timeout after its response has ended.               *)
HandleResponse(success) == {<<~success>>, <<~success, TRUE>>}

(* A response that has begun and is then aborted, by the timeout of an idle   *)
(* socket, or cut by the daemon: neither 'end' of the response nor 'error' of *)
(* the request is emitted, so nothing calls back.                             *)
Interrupted == <<>>

(* An instance that is down never succeeds; one that is up answers the check, *)
(* and may reject or fail a later command.  Any request may fall silent.      *)
Deliveries(daemon, why) ==
    {Interrupted} \cup
    (IF why = "online" THEN HandleResponse(daemon \in online)
     ELSE HandleResponse(TRUE) \cup HandleResponse(FALSE))

NoCall ==
    /\ purpose = "none"
    /\ events = [d \in Daemons |-> <<>>]
    /\ answered = [d \in Daemons |-> FALSE]
    /\ completed = {}
    /\ results = <<>>
    /\ responded = FALSE
    /\ delivered = <<>>

DaemonInit ==
    /\ online \in SUBSET Daemons
    /\ instances = [i \in 1..N |-> i]
    /\ NoCall
    /\ calls = 0

-----------------------------------------------------------------------------
(* sendCommands: the request goes to all instances.                           *)
SendCommands(why) ==
    /\ purpose' = why
    /\ \E e \in [Daemons -> UNION {Deliveries(d, why) : d \in Daemons}] :
         /\ \A d \in Range(instances) : e[d] \in Deliveries(d, why)
         /\ events' = [d \in Daemons |-> IF d \in Range(instances) THEN e[d] ELSE <<>>]
    /\ answered' = [d \in Daemons |-> FALSE]
    /\ completed' = {}
    /\ results' = <<>>
    /\ responded' = FALSE
    /\ delivered' = <<>>

CheckOnline ==
    /\ calls = 0 /\ purpose = "none"
    /\ SendCommands("online")
    /\ UNCHANGED <<online, instances, calls>>

(* A command of the pool, once the interface is online.                       *)
Call(why) ==
    /\ purpose # "none" /\ delivered # <<>>
    /\ instances # <<>>
    /\ calls < MaxCalls
    /\ calls' = calls + 1
    /\ SendCommands(why)
    /\ UNCHANGED <<online, instances>>

(* Mutant: every success of a streaming command is handed to the caller.      *)
EverySuccessWins(result) == purpose = "streaming" /\ ~result.error

WinsStream(result) == purpose = "streaming" /\ ~responded /\ ~result.error

(* What checkOnline's callback does: filters the instances by the result at   *)
(* the instance's index.  The k-th to be kept is the one of rank k.           *)
FilterOnline(list, res) ==
    LET kept    == {i \in DOMAIN list : ~res[i].error}
        Rank(i) == Cardinality({j \in kept : j <= i})
    IN  [k \in 1..Cardinality(kept) |-> list[CHOOSE i \in kept : Rank(i) = k]]

(* Mutant: eachCallback is not called after an error.                         *)
CompletedBySuccess(result) ==
    IF result.error THEN completed ELSE completed \cup {result.from}

(* eachCallback.                                                              *)
Completed(result) == completed \cup {result.from}

(* The callback of handleRequest inside sendCommands.  A streaming command's  *)
(* first success does not call eachCallback, so async.each never finishes.    *)
HandleResult(result) ==
    LET done == Completed(result)
        last == done = Range(instances)
    IN
      /\ results' = Append(results, result)
      /\ \/ /\ WinsStream(result)
            /\ responded' = TRUE
            /\ delivered' = Append(delivered, <<result>>)
            /\ UNCHANGED <<completed, instances>>
         \/ /\ ~WinsStream(result)
            /\ completed' = done
            /\ delivered' = IF ~last THEN delivered
                            ELSE IF purpose = "streaming" /\ ~responded
                              THEN Append(delivered, <<Head(results')>>)
                              ELSE Append(delivered, results')
            /\ instances' = IF last /\ purpose = "online"
                              THEN FilterOnline(instances, results') ELSE instances
            /\ UNCHANGED responded

FirstCallback(d) == ~answered[d]

(* The next callback of a request's response, error or timeout arrives.       *)
RequestEvent(d) ==
    /\ events[d] # <<>>
    /\ events' = [events EXCEPT ![d] = Tail(@)]
    /\ answered' = [answered EXCEPT ![d] = TRUE]
    /\ \/ FirstCallback(d) /\ HandleResult([from |-> d, error |-> Head(events[d])])
       \/ ~FirstCallback(d) /\ UNCHANGED <<results, responded, delivered, completed, instances>>
    /\ UNCHANGED <<online, purpose, calls>>

DaemonNext ==
    \/ CheckOnline
    \/ \E why \in {"all", "streaming"} : Call(why)
    \/ \E d \in Daemons : RequestEvent(d)

DaemonSpec == DaemonInit /\ [][DaemonNext]_daemonVars

-----------------------------------------------------------------------------
(* Type invariant; no daemon contributes two results to a call.               *)
DaemonTypeOK ==
    /\ online \subseteq Daemons
    /\ instances \in Seq(Daemons) /\ IsInjective(instances)
    /\ purpose \in {"none", "online", "all", "streaming"}
    /\ events \in [Daemons -> Seq(BOOLEAN)]
    /\ answered \in [Daemons -> BOOLEAN]
    /\ completed \subseteq Daemons
    /\ results \in Seq(Result) /\ Len(results) <= N
    /\ responded \in BOOLEAN
    /\ delivered \in Seq(Seq(Result))
    /\ calls \in 0..MaxCalls

(***************************************************************************)
(* The caller's callback runs at most once for a command, although every     *)
(* instance answers: a second run would apply a template, or count a         *)
(* submitted block, twice (sendCommands, streaming or not).                  *)
(***************************************************************************)
AnsweredOnce == Len(delivered) <= 1

(***************************************************************************)
(* A streaming command fails only when every instance failed: a success that *)
(* arrives after errors of other daemons still reaches the caller.           *)
(***************************************************************************)
FirstSuccessWins ==
    \A i \in 1..Len(delivered) :
      purpose = "streaming" /\ delivered[i][1].error =>
        Len(results) = Len(instances) /\ \A k \in 1..Len(results) : results[k].error

(* The request to d of the call under way has not fallen silent: it has       *)
(* called back or still will.                                                 *)
CallsBack(d) == answered[d] \/ events[d] # <<>>

(* A success of d is still to arrive.                                         *)
SuccessToCome(d) == ~answered[d] /\ events[d] # <<>> /\ ~Head(events[d])

(***************************************************************************)
(* A command is answered, whichever daemons fail and however often           *)
(* handleResponse calls back, if all requests call back; a streaming one     *)
(* also if one succeeds, though other requests fall silent (sendCommands).   *)
(* A request that falls silent otherwise leaves its command unanswered: the  *)
(* "HTTP Timeout Handling" aborts it, and nothing listens for that.          *)
(***************************************************************************)
EveryCallAnswered ==
    /\ (purpose # "none" /\ \A d \in Range(instances) : CallsBack(d)) ~> (delivered # <<>>)
    /\ (purpose = "streaming" /\ \E d \in Daemons : SuccessToCome(d)) ~> (delivered # <<>>)

(***************************************************************************)
(* "Check if All Daemons are Online": checkOnline keeps as many instances as *)
(* are online, so checkInitialized fails exactly when there is none.  Which  *)
(* ones it keeps depends on the order of arrival, since results are pushed   *)
(* as they come and filtered by the instance's index.                        *)
(***************************************************************************)
CountsOnlineDaemons ==
    purpose = "online" /\ delivered # <<>> => Len(instances) = Cardinality(online)

=============================================================================
