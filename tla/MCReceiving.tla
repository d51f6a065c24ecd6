------------------------------ MODULE MCReceiving ------------------------------
(***************************************************************************)
(* The two receiving threads of the dispatcher, each with the byte streams   *)
(* it reads.  They share no state here, so each is explored by itself while  *)
(* the other rests in its initial state.                                     *)
(***************************************************************************)
EXTENDS PeerPackets, StratumLines

VARIABLE thread     \* the thread that runs

(* An ExchangePublicPeers packet, a solution, and headers of size zero and of *)
(* a size that does not cover them.                                           *)
FourPackets == {<<3, 0, 7>>, <<4, 69, 1, 1>>, <<0, 68>>, <<1, 0>>}

(* For the handshake alone: another packet, and a solution.                   *)
TwoPackets == {<<3, 68, 4>>, <<4, 69, 1, 1>>}

receivingVars == <<allVars, lineVars, thread>>

QubicInit == thread = "qubic" /\ PacketsInit /\ LinesInit

StratumInit ==
    /\ thread = "stratum" /\ PacketsInit /\ LinesInit
    /\ isConnected = [i \in Peers |-> FALSE]

ReceivingInit == QubicInit \/ StratumInit

QubicStep(A) == thread = "qubic" /\ A /\ UNCHANGED <<lineVars, thread>>

ReceivingNext ==
    \/ QubicStep(PacketsNext)
    \/ thread = "stratum" /\ LinesNext /\ UNCHANGED <<allVars, thread>>

(* qubicRecvThread keeps running, time passes, and a reachable peer accepts.  *)
ReceivingSpec ==
    /\ ReceivingInit /\ [][ReceivingNext]_receivingVars
    /\ WF_receivingVars(QubicStep(PacketsRecvStep))
    /\ \A i \in Peers : WF_receivingVars(QubicStep(RetryDue(i) /\ UNCHANGED packetVars))

(* A peer that accepts connections and never fails a send is connected again  *)
(* after every loss, even while other peers fail all the time                 *)
(* (tryOneReconnect's round robin) and while packets flow.                    *)
ReachablePeersReconnect ==
    \A i \in Reachable \ Flaky :
      (thread = "qubic" /\ ~isConnected[i]) ~> (thread = "qubic" /\ isConnected[i])

=============================================================================
