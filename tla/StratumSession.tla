---------------------------- MODULE StratumSession ----------------------------
(***************************************************************************)
(* stratumRecvThread: stratumReceiveLoop and, on a reconnect,                *)
(* initStratumProtocol (threads/stratum_recv_thread.cpp), over Connection    *)
(* (connection/connection.cpp).  The flag isConnected is set as soon as the  *)
(* TCP connection is up, before the subscribe/authorize handshake.           *)
(***************************************************************************)
EXTENDS DispatcherState

CONSTANT MaxDelay   \* stratumReconnectMaxDelaySec, in units of the base delay

ASSUME MaxDelayAssumption == MaxDelay \in Nat \ {0}

VARIABLES
    srPc,           \* where stratumRecvThread is
    delaySec        \* reconnect delay, in units of stratumReconnectBaseDelaySec

srVars == <<srPc, delaySec>>

StratumTypeOK ==
    /\ srPc \in {"check", "read", "backoff", "subscribe", "authorize", "done"}
    /\ delaySec \in 1..MaxDelay

(* main() has opened the connection and run the first handshake itself.       *)
StratumInit ==
    /\ srPc = "check"
    /\ delaySec = 1
    /\ connected = TRUE
    /\ session = 1
    /\ extraNonce1 = 1

-----------------------------------------------------------------------------
(* bytesRead <= 0, at once when the flag is down: close, clear the buffer,    *)
(* start over with the base delay.                                            *)
ConnectionLost ==
    /\ connected' = FALSE
    /\ delaySec' = 1
    /\ srPc' = "backoff"

StratumCheckStop ==
    /\ srPc = "check" /\ StopRequested("stratumRecv")
    /\ srPc' = "done"
    /\ UNCHANGED <<sharedVars, delaySec>>

StratumCheck ==
    /\ srPc = "check" /\ ~StopRequested("stratumRecv") /\ connected
    /\ srPc' = "read"
    /\ UNCHANGED <<sharedVars, delaySec>>

StratumNotConnected ==
    /\ srPc = "check" /\ ~StopRequested("stratumRecv") /\ ~connected
    /\ ConnectionLost
    /\ UNCHANGED <<received, taken, solutions, solTaken, activeTasks, session,
                   extraNonce1, stopRequested>>

(* read() returns with a line of the pool, whatever became of the flag while  *)
(* it was blocked.                                                            *)
StratumRead(m) ==
    /\ srPc = "read"
    /\ PushMessage(m)
    /\ srPc' = "check"
    /\ UNCHANGED <<taken, solutions, solTaken, activeTasks, connected, session,
                   extraNonce1, stopRequested, delaySec>>

(* read() returns 0 or an error: the pool hung up ...                         *)
StratumReadLost ==
    /\ srPc = "read" /\ connected
    /\ ConnectionLost
    /\ UNCHANGED <<received, taken, solutions, solTaken, activeTasks, session,
                   extraNonce1, stopRequested>>

(* ... or the flag went down under the blocked read: main() closed the socket *)
(* or a send failed.                                                          *)
StratumReadClosed ==
    /\ srPc = "read" /\ ~connected
    /\ ConnectionLost
    /\ UNCHANGED <<received, taken, solutions, solTaken, activeTasks, session,
                   extraNonce1, stopRequested>>

(* The sleep is cut short by a stop request.                                  *)
StratumBackoffStop ==
    /\ srPc = "backoff" /\ StopRequested("stratumRecv")
    /\ srPc' = "done"
    /\ UNCHANGED <<sharedVars, delaySec>>

(* Mutant: the delay is doubled without a limit.                              *)
ReconnectFailedUnlimited ==
    /\ delaySec' = 2 * delaySec
    /\ connected' = FALSE
    /\ srPc' = "backoff"

(* Exponential backoff after a failed attempt.                                *)
ReconnectFailed ==
    /\ delaySec' = IF 2 * delaySec < MaxDelay THEN 2 * delaySec ELSE MaxDelay
    /\ connected' = FALSE
    /\ srPc' = "backoff"

StratumOpenFailed ==
    /\ srPc = "backoff" /\ ~StopRequested("stratumRecv")
    /\ ReconnectFailed
    /\ UNCHANGED <<received, taken, solutions, solTaken, activeTasks, session,
                   extraNonce1, stopRequested>>

(* openConnection succeeds and mining.subscribe is sent.                      *)
StratumOpen ==
    /\ srPc = "backoff" /\ ~StopRequested("stratumRecv")
    /\ session < MaxSession
    /\ session' = session + 1
    /\ connected' = TRUE
    /\ srPc' = "subscribe"
    /\ UNCHANGED <<received, taken, solutions, solTaken, activeTasks, extraNonce1,
                   stopRequested, delaySec>>

(* Mutant: the extraNonce1 of the first session is kept.                      *)
StratumSubscribedOldNonce ==
    /\ srPc = "subscribe"
    /\ srPc' = "authorize"
    /\ UNCHANGED <<sharedVars, delaySec>>

(* The subscribe response: the new extraNonce1 overwrites the shared vector.  *)
StratumSubscribed ==
    /\ srPc = "subscribe"
    /\ extraNonce1' = session
    /\ srPc' = "authorize"
    /\ UNCHANGED <<received, taken, solutions, solTaken, activeTasks, connected,
                   session, stopRequested, delaySec>>

(* ... also when the handshake is then given up for its extraNonce2 size.     *)
StratumWrongNonceSize ==
    /\ srPc = "subscribe"
    /\ extraNonce1' = session
    /\ ReconnectFailed
    /\ UNCHANGED <<received, taken, solutions, solTaken, activeTasks, session,
                   stopRequested>>

(* No response, a response with another id, or a refused authorization, when  *)
(* the lines before the refusal that carry no id are queued already (ms).     *)
StratumInitFailed(ms) ==
    /\ srPc \in {"subscribe", "authorize"}
    /\ srPc = "subscribe" => ms = <<>>
    /\ received' = received \o ms
    /\ ReconnectFailed
    /\ UNCHANGED <<taken, solutions, solTaken, activeTasks, session, extraNonce1,
                   stopRequested>>

(* The lines of the authorize response that carry no id are queued (ms);      *)
(* a read that returns nothing also counts as success.                        *)
StratumAuthorized(ms) ==
    /\ srPc = "authorize"
    /\ received' = received \o ms
    /\ srPc' = "check"
    /\ delaySec' = 1
    /\ UNCHANGED <<taken, solutions, solTaken, activeTasks, connected, session,
                   extraNonce1, stopRequested>>

(* The connection was closed under the handshake: its reads return nothing.   *)
StratumSubscribeClosed ==
    /\ srPc = "subscribe" /\ ~connected
    /\ ReconnectFailed
    /\ UNCHANGED <<received, taken, solutions, solTaken, activeTasks, session,
                   extraNonce1, stopRequested>>

StratumAuthorizeClosed ==
    /\ ~connected
    /\ StratumAuthorized(<<>>)

(* The steps the thread takes without the pool having to send anything.       *)
StratumOwnStep ==
    \/ StratumCheckStop
    \/ StratumCheck
    \/ StratumNotConnected
    \/ StratumReadClosed
    \/ StratumSubscribeClosed
    \/ StratumAuthorizeClosed
    \/ StratumBackoffStop

=============================================================================
