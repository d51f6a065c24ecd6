------------------------------- MODULE QubicPeers -------------------------------
(***************************************************************************)
(* qubicRecvThread's management of the connections to the Qubic peers        *)
(* (qubicReceiveLoop, tryOneReconnect, markDisconnected, buildPollList in    *)
(* threads/qubic_recv_thread.cpp, QubicConnection::openQubicConnection), and *)
(* taskDistThread sending tasks over the same connections.                   *)
(*                                                                           *)
(* The thread polls the sockets of its poll list, schedules a retry with     *)
(* exponential backoff for a connection it finds dead, and makes at most one *)
(* due attempt per cycle, round robin.  Delays are counted in units of       *)
(* reconnectBaseDelaySec.                                                    *)
(***************************************************************************)
EXTENDS Integers, FiniteSets

CONSTANTS
    N,              \* number of configured peers
    Reachable,      \* peers that accept every connection
    Flaky,          \* peers on whose open connection sendMessage may fail
    MaxDelay        \* reconnectMaxDelaySec

Peers == 0..(N - 1)

ASSUME PeersAssumption == N \in Nat \ {0} /\ Reachable \subseteq Peers
ASSUME FlakyAssumption == Flaky \subseteq Peers
ASSUME DelayAssumption == MaxDelay \in Nat \ {0}

VARIABLES
    pc,             \* where qubicRecvThread is
    isConnected,    \* flag of each connection, shared with taskDistThread
    retry,          \* per peer: "none" (not pending), "waiting" or "ready"
    delaySec,       \* per peer: current backoff delay
    polled,         \* peers on the poll list
    nextReconnIdx,  \* where the next scan for a due retry starts
    attempt         \* the peer whose handshake is under way

vars == <<pc, isConnected, retry, delaySec, polled, nextReconnIdx, attempt>>

(* Type invariant.                                                            *)
PeersTypeOK ==
    /\ pc \in {"reconnect", "handshake", "computors", "poll"}
    /\ isConnected \in [Peers -> BOOLEAN]
    /\ retry \in [Peers -> {"none", "waiting", "ready"}]
    /\ delaySec \in [Peers -> 0..MaxDelay]
    /\ polled \subseteq Peers
    /\ nextReconnIdx \in Peers
    /\ attempt \in Peers

(* main() has tried every peer once; the others are due at once.              *)
PeersInit ==
    /\ pc = "reconnect"
    /\ isConnected \in [Peers -> BOOLEAN]
    /\ retry = [i \in Peers |-> IF isConnected[i] THEN "none" ELSE "ready"]
    /\ delaySec = [i \in Peers |-> IF isConnected[i] THEN 1 ELSE 0]
    /\ polled = {i \in Peers : isConnected[i]}
    /\ nextReconnIdx = 0
    /\ attempt = 0

-----------------------------------------------------------------------------
BuildPollList(flags) == {i \in Peers : flags[i]}

(* Mutant: the poll list is not rebuilt.                                      *)
PollListKept == polled

(* What qubicReceiveLoop does when tryOneReconnect returns true.              *)
PollListReconnected == BuildPollList(isConnected)

Backoff(d) == IF d < 1 THEN 1 ELSE IF 2 * d < MaxDelay THEN 2 * d ELSE MaxDelay

(* Distance of peer i from the start of the scan; a mutant always starts at   *)
(* the first peer.                                                            *)
ScanDistanceFromFirst(i) == i
ScanDistance(i) == (i - nextReconnIdx + N) % N

Due == {i \in Peers : retry[i] = "ready"}

NextDue == CHOOSE i \in Due : \A k \in Due : ScanDistance(i) <= ScanDistance(k)

(* tryOneReconnect: no retry is due.                                          *)
NothingDue ==
    /\ pc = "reconnect" /\ Due = {}
    /\ pc' = "poll"
    /\ UNCHANGED <<isConnected, retry, delaySec, polled, nextReconnIdx, attempt>>

(* The attempt for the next due peer fails: back off and reschedule.          *)
ReconnectFailed ==
    /\ pc = "reconnect" /\ Due # {}
    /\ NextDue \notin Reachable
    /\ isConnected' = [isConnected EXCEPT ![NextDue] = FALSE]
    /\ delaySec' = [delaySec EXCEPT ![NextDue] = Backoff(@)]
    /\ retry' = [retry EXCEPT ![NextDue] = "waiting"]
    /\ nextReconnIdx' = (NextDue + 1) % N
    /\ pc' = "poll"
    /\ UNCHANGED <<polled, attempt>>

(* The TCP connection is up: the flag is set before the handshake.            *)
Connected ==
    /\ pc = "reconnect" /\ Due # {}
    /\ isConnected' = [isConnected EXCEPT ![NextDue] = TRUE]
    /\ attempt' = NextDue
    /\ nextReconnIdx' = (NextDue + 1) % N
    /\ pc' = "handshake"
    /\ UNCHANGED <<retry, delaySec, polled>>

ResetRetry(r, i) == [r EXCEPT ![i] = "none"]

(* ExchangePublicPeers has been received, or not; the own packet is sent, and *)
(* nobody looks whether it could be.                                          *)
PeersExchanged ==
    /\ pc = "handshake"
    /\ \E ok \in BOOLEAN :
         /\ ~ok => attempt \in Flaky
         /\ isConnected' = [isConnected EXCEPT ![attempt] = @ /\ ok]
    /\ pc' = "computors"
    /\ UNCHANGED <<retry, delaySec, polled, nextReconnIdx, attempt>>

(* RequestComputors has been received, or not; openQubicConnection returns    *)
(* true in any case.                                                          *)
HandshakeDone ==
    /\ pc = "computors"
    /\ retry' = ResetRetry(retry, attempt)
    /\ delaySec' = [delaySec EXCEPT ![attempt] = 1]
    /\ polled' = PollListReconnected
    /\ pc' = "poll"
    /\ UNCHANGED <<isConnected, nextReconnIdx, attempt>>

(* Mutant: markDisconnected leaves the retry time.                            *)
ScheduleRetryNot(r, down) == r

(* markDisconnected: a retry after the current delay.                         *)
ScheduleRetry(r, down) == [i \in Peers |-> IF i \in down THEN "waiting" ELSE r[i]]

(* poll() and the loop over its results: the connections in down are found    *)
(* dead (read returns 0 or an error, POLLERR, POLLHUP) and marked             *)
(* disconnected; the others time out or deliver data.                         *)
PollSockets(down) ==
    /\ pc = "poll"
    /\ isConnected' = [i \in Peers |-> isConnected[i] /\ i \notin down]
    /\ retry' = ScheduleRetry(retry, down)
    /\ polled' = IF down = {} THEN polled ELSE BuildPollList(isConnected')
    /\ pc' = "reconnect"
    /\ UNCHANGED <<delaySec, nextReconnIdx, attempt>>

(* poll() itself fails: the list is rebuilt.                                  *)
PollError ==
    /\ pc = "poll" /\ polled # {}
    /\ polled' = BuildPollList(isConnected)
    /\ pc' = "reconnect"
    /\ UNCHANGED <<isConnected, retry, delaySec, nextReconnIdx, attempt>>

(* Time passes.                                                               *)
RetryDue(i) ==
    /\ retry[i] = "waiting"
    /\ retry' = [retry EXCEPT ![i] = "ready"]
    /\ UNCHANGED <<pc, isConnected, delaySec, polled, nextReconnIdx, attempt>>

(* taskDistThread: a send fails, which only clears the flag.                  *)
TaskSendFails(i) ==
    /\ i \in Flaky /\ isConnected[i]
    /\ isConnected' = [isConnected EXCEPT ![i] = FALSE]
    /\ UNCHANGED <<pc, retry, delaySec, polled, nextReconnIdx, attempt>>

QubicRecvStep ==
    \/ NothingDue
    \/ ReconnectFailed
    \/ Connected
    \/ PeersExchanged
    \/ HandshakeDone
    \/ \E down \in SUBSET polled : PollSockets(down)
    \/ PollError

PeersNext ==
    \/ QubicRecvStep
    \/ \E i \in Peers : RetryDue(i) \/ TaskSendFails(i)

PeersSpec == PeersInit /\ [][PeersNext]_vars

-----------------------------------------------------------------------------
Handshaking(i) == pc \in {"handshake", "computors"} /\ i = attempt

(* Whatever poll() is given covers every open connection: a solution sent by  *)
(* a connected peer is never left unread, however connections come and go     *)
(* (buildPollList after tryOneReconnect and after markDisconnected).  Only a  *)
(* connection whose handshake is still under way is not yet listed.           *)
ConnectedArePolled ==
    \A i \in Peers : isConnected[i] =>
        i \in polled \/ Handshaking(i)

(* A peer with a pending retry is neither connected nor polled (except during *)
(* its own handshake), so tryOneReconnect never closes a working connection.  *)
PendingNotConnected ==
    \A i \in Peers : retry[i] # "none" =>
        \/ ~isConnected[i] /\ i \notin polled
        \/ Handshaking(i)

(* At the head of the loop every disconnected peer has a retry pending, or is *)
(* still polled and so can still be found dead ("Handles automatic            *)
(* reconnection with exponential backoff for disconnected peers").  It holds  *)
(* only of a peer on which no send fails: a failed send clears the flag and   *)
(* schedules nothing (Connection::sendMessage, openQubicConnection).          *)
DisconnectedWillRetry ==
    \A i \in Peers \ Flaky : pc = "reconnect" /\ ~isConnected[i] =>
        retry[i] # "none" \/ i \in polled

=============================================================================
