--------------------------- MODULE PeerPacketsProofs ---------------------------
(***************************************************************************)
(* Proofs about qubicRecvThread, for every number of peers, every set of     *)
(* reachable ones, every limit of the backoff delay and whatever the peers   *)
(* send.  Of its connections (QubicPeers): the types are kept, every open    *)
(* one is polled, a peer with a pending retry is never an open connection,   *)
(* and a lost peer has one.  Of their streams (PeerPackets): they leave the  *)
(* connections alone, every reconnection starts with an empty buffer, and    *)
(* the solutions queued are those sent.                                      *)
(***************************************************************************)
EXTENDS PeerPackets, InductionLemmas, SequenceTheorems

-----------------------------------------------------------------------------
(* Connections.                                                               *)

(* Distances of the scan are natural numbers.                                 *)
LEMMA DistanceNat ==
  ASSUME nextReconnIdx \in Peers, NEW i \in Peers
  PROVE  ScanDistance(i) \in Nat
  BY PeersAssumption DEF ScanDistance, Peers

(* The scan of tryOneReconnect ends at a peer that is due: a nonempty set of  *)
(* distances has a least element.                                             *)
LEMMA NextDueIsDue ==
  ASSUME nextReconnIdx \in Peers, Due # {}
  PROVE  NextDue \in Due
<1> DEFINE D == {ScanDistance(i) : i \in Due}
<1>1. D \subseteq Nat /\ D # {}
  BY DistanceNat DEF Due
<1>2. PICK m \in D : \A d \in D : m <= d
  <2> HIDE DEF D
  <2> QED  BY <1>1, LeastMember
<1>3. PICK i \in Due : ScanDistance(i) = m
  OBVIOUS
<1>4. \A k \in Due : ScanDistance(i) <= ScanDistance(k)
  BY <1>2, <1>3
<1> QED
  BY <1>3, <1>4 DEF NextDue

-----------------------------------------------------------------------------
(* Of a peer on which no send fails the flag, the poll list and the retry     *)
(* agree: polled means connected, disconnected means a retry is pending, and  *)
(* a handshake keeps the flag.                                                *)
OnlySendsDesync ==
    \A i \in Peers \ Flaky :
      /\ i \in polled => isConnected[i]
      /\ ~isConnected[i] => retry[i] # "none"
      /\ Handshaking(i) => isConnected[i]

(* What every reachable state satisfies.  The two safety invariants hold each *)
(* other up: tryOneReconnect may set the flag of a due peer only because a    *)
(* pending peer is not polled, and the rebuilt poll list has no pending peer  *)
(* only because such a peer is not connected.                                 *)
PeersInv ==
    /\ PeersTypeOK
    /\ ConnectedArePolled
    /\ PendingNotConnected
    /\ OnlySendsDesync

(* main() hands over the flags, the retries and a poll list that agree.       *)
LEMMA PeersInitially ==
  PeersInit => PeersInv
  BY PeersAssumption, DelayAssumption
  DEF PeersInit, PeersInv, PeersTypeOK, ConnectedArePolled, PendingNotConnected,
      OnlySendsDesync, Handshaking, Peers

(* The backoff never exceeds reconnectMaxDelaySec.                            *)
LEMMA BackoffLimited ==
  ASSUME NEW d \in 0..MaxDelay
  PROVE  Backoff(d) \in 0..MaxDelay
  BY DelayAssumption DEF Backoff

(* A peer whose retry is due is neither connected nor polled at the head of   *)
(* the loop, and the scan continues behind it.                                *)
LEMMA DuePeer ==
  ASSUME PeersInv, pc = "reconnect", Due # {}
  PROVE  /\ NextDue \in Peers
         /\ retry[NextDue] = "ready"
         /\ ~isConnected[NextDue]
         /\ NextDue \notin polled
         /\ (NextDue + 1) % N \in Peers
<1>1. NextDue \in Due
  BY NextDueIsDue DEF PeersInv, PeersTypeOK
<1>2. NextDue \in Peers /\ retry[NextDue] = "ready"
  BY <1>1 DEF Due
<1>3. ~isConnected[NextDue] /\ NextDue \notin polled
  BY <1>2 DEF PeersInv, PendingNotConnected, Handshaking
<1>4. ASSUME NEW i \in Peers  PROVE (i + 1) % N \in Peers
  BY PeersAssumption DEF Peers
<1> QED
  BY <1>2, <1>3, <1>4

(* Every step of qubicRecvThread keeps the invariant.                         *)
LEMMA RecvStepPreserves ==
  ASSUME PeersInv, QubicRecvStep
  PROVE  PeersInv'
<1> USE DEF PeersInv, PeersTypeOK, ConnectedArePolled, PendingNotConnected, OnlySendsDesync, Handshaking
<1>1. CASE NothingDue
  BY <1>1 DEF NothingDue
<1>2. CASE ReconnectFailed
  <2> DEFINE due == NextDue
  <2>1. /\ due \in Peers /\ retry[due] = "ready"
        /\ ~isConnected[due] /\ due \notin polled /\ (due + 1) % N \in Peers
    BY <1>2, DuePeer DEF ReconnectFailed
  <2>2. /\ pc = "reconnect" /\ pc' = "poll"
        /\ isConnected' = [isConnected EXCEPT ![due] = FALSE]
        /\ delaySec' = [delaySec EXCEPT ![due] = Backoff(@)]
        /\ retry' = [retry EXCEPT ![due] = "waiting"]
        /\ nextReconnIdx' = (due + 1) % N
        /\ UNCHANGED <<polled, attempt>>
    BY <1>2 DEF ReconnectFailed
  <2>3. Backoff(delaySec[due]) \in 0..MaxDelay
    BY <2>1, BackoffLimited
  <2> HIDE DEF due
  <2>4. PeersTypeOK'
    BY <2>1, <2>2, <2>3
  <2>5. ConnectedArePolled'
    BY <2>1, <2>2
  <2>6. PendingNotConnected'
    BY <2>1, <2>2
  <2>7. OnlySendsDesync'
    BY <2>1, <2>2
  <2> QED  BY <2>4, <2>5, <2>6, <2>7
<1>3. CASE Connected
  <2> DEFINE due == NextDue
  <2>1. /\ due \in Peers /\ retry[due] = "ready"
        /\ ~isConnected[due] /\ due \notin polled /\ (due + 1) % N \in Peers
    BY <1>3, DuePeer DEF Connected
  <2>2. /\ pc = "reconnect" /\ pc' = "handshake"
        /\ isConnected' = [isConnected EXCEPT ![due] = TRUE]
        /\ attempt' = due
        /\ nextReconnIdx' = (due + 1) % N
        /\ UNCHANGED <<retry, delaySec, polled>>
    BY <1>3 DEF Connected
  <2> HIDE DEF due
  <2>3. PeersTypeOK'
    BY <2>1, <2>2
  <2>4. ConnectedArePolled'
    BY <2>1, <2>2
  <2>5. PendingNotConnected'
    BY <2>1, <2>2
  <2>6. OnlySendsDesync'
    BY <2>1, <2>2
  <2> QED  BY <2>3, <2>4, <2>5, <2>6
<1>4. CASE PeersExchanged
  <2>1. PICK ok \in BOOLEAN :
          /\ ~ok => attempt \in Flaky
          /\ isConnected' = [isConnected EXCEPT ![attempt] = @ /\ ok]
    BY <1>4 DEF PeersExchanged
  <2>2. /\ pc = "handshake" /\ pc' = "computors"
        /\ UNCHANGED <<retry, delaySec, polled, nextReconnIdx, attempt>>
    BY <1>4 DEF PeersExchanged
  <2>3. PeersTypeOK'
    BY <2>1, <2>2
  <2>4. ConnectedArePolled'
    BY <2>1, <2>2
  <2>5. PendingNotConnected'
    BY <2>1, <2>2
  <2>6. OnlySendsDesync'
    BY <2>1, <2>2
  <2> QED  BY <2>3, <2>4, <2>5, <2>6
<1>5. CASE HandshakeDone
  <2>1. /\ pc = "computors" /\ pc' = "poll"
        /\ retry' = [retry EXCEPT ![attempt] = "none"]
        /\ delaySec' = [delaySec EXCEPT ![attempt] = 1]
        /\ polled' = {i \in Peers : isConnected[i]}
        /\ UNCHANGED <<isConnected, nextReconnIdx, attempt>>
    BY <1>5 DEF HandshakeDone, ResetRetry, PollListReconnected, BuildPollList
  <2>2. PeersTypeOK'
    BY <2>1, DelayAssumption
  <2>3. ConnectedArePolled'
    BY <2>1
  <2>4. PendingNotConnected'
    BY <2>1
  <2>5. OnlySendsDesync'
    BY <2>1
  <2> QED  BY <2>2, <2>3, <2>4, <2>5
<1>6. ASSUME NEW down \in SUBSET polled, PollSockets(down)  PROVE PeersInv'
  <2>1. /\ isConnected' = [i \in Peers |-> isConnected[i] /\ i \notin down]
        /\ retry' = [i \in Peers |-> IF i \in down THEN "waiting" ELSE retry[i]]
        /\ polled' = IF down = {} THEN polled ELSE {i \in Peers : isConnected'[i]}
        /\ pc = "poll" /\ pc' = "reconnect"
        /\ UNCHANGED <<delaySec, nextReconnIdx, attempt>>
    BY <1>6 DEF PollSockets, BuildPollList, ScheduleRetry
  <2>2. PeersTypeOK'
    BY <2>1
  <2>3. ConnectedArePolled'
    BY <2>1
  <2>4. PendingNotConnected'
    BY <2>1
  <2>5. OnlySendsDesync'
    BY <2>1
  <2> QED  BY <2>2, <2>3, <2>4, <2>5
<1>7. CASE PollError
  BY <1>7 DEF PollError, BuildPollList
<1> QED
  BY <1>1, <1>2, <1>3, <1>4, <1>5, <1>6, <1>7 DEF QubicRecvStep

(* So does every step of the specification: time only moves a waiting retry,  *)
(* and taskDistThread only clears a flag.                                     *)
LEMMA PeersStepPreserves ==
  ASSUME PeersInv, [PeersNext]_vars
  PROVE  PeersInv'
<1>1. CASE QubicRecvStep
  BY <1>1, RecvStepPreserves
<1>2. ASSUME NEW i \in Peers, RetryDue(i)  PROVE PeersInv'
  BY <1>2 DEF RetryDue, PeersInv, PeersTypeOK, ConnectedArePolled, PendingNotConnected,
    OnlySendsDesync, Handshaking
<1>3. ASSUME NEW i \in Peers, TaskSendFails(i)  PROVE PeersInv'
  BY <1>3 DEF TaskSendFails, PeersInv, PeersTypeOK, ConnectedArePolled, PendingNotConnected,
    OnlySendsDesync, Handshaking
<1>4. CASE UNCHANGED vars
  BY <1>4 DEF vars, PeersInv, PeersTypeOK, ConnectedArePolled, PendingNotConnected,
    OnlySendsDesync, Handshaking
<1> QED
  BY <1>1, <1>2, <1>3, <1>4 DEF PeersNext

(* For every number of peers, whatever connections fail and whenever sends    *)
(* fail: every open connection is on qubicRecvThread's poll list.             *)
THEOREM OpenConnectionsPolled ==
  PeersSpec => []ConnectedArePolled
<1>1. PeersInv => ConnectedArePolled
  BY DEF PeersInv
<1> QED
  BY PeersInitially, PeersStepPreserves, <1>1, PTL DEF PeersSpec

(* For every number of peers: a peer that waits for a retry is not an open    *)
(* connection, so tryOneReconnect never replaces a socket in use.             *)
THEOREM RetriesOnlyClosed ==
  PeersSpec => []PendingNotConnected
<1>1. PeersInv => PendingNotConnected
  BY DEF PeersInv
<1> QED
  BY PeersInitially, PeersStepPreserves, <1>1, PTL DEF PeersSpec

(* For every number of peers: a peer on which no send fails and which is down *)
(* always has a retry pending, so qubicRecvThread never forgets one.          *)
THEOREM LostPeersRetried ==
  PeersSpec => []DisconnectedWillRetry
<1>1. PeersInv => DisconnectedWillRetry
  BY DEF PeersInv, OnlySendsDesync, DisconnectedWillRetry
<1> QED
  BY PeersInitially, PeersStepPreserves, <1>1, PTL DEF PeersSpec

(* Types are kept; in particular no delay exceeds reconnectMaxDelaySec.       *)
THEOREM PeersTypeCorrect ==
  PeersSpec => []PeersTypeOK
<1>1. PeersInv => PeersTypeOK
  BY DEF PeersInv
<1> QED
  BY PeersInitially, PeersStepPreserves, <1>1, PTL DEF PeersSpec

-----------------------------------------------------------------------------
(* Streams and buffers.                                                       *)

(* Reading and framing leave the connections alone: every step of PeerPackets *)
(* is a step of QubicPeers or none.                                           *)
LEMMA PacketStepIsPeerStep ==
  ASSUME [PacketsNext]_allVars
  PROVE  [PeersNext]_vars
<1>1. CASE PacketsRecvStep
  BY <1>1, Zenon DEF PacketsRecvStep, OpenStream, HandshakeRead, NextReceive, EndHandshake,
    ReadSocket, ProcessRecvBuffer, WaitForRest, DropBuffer, ProcessPacket, EndCycle,
    OtherRecvStep, PeersNext, QubicRecvStep
<1>2. CASE \E i \in Peers : (RetryDue(i) \/ TaskSendFails(i)) /\ UNCHANGED packetVars
  BY <1>2, Zenon DEF PeersNext
<1>3. CASE \E i \in Senders : SendPacket(i)
  BY <1>3, Zenon DEF SendPacket
<1>4. CASE UNCHANGED allVars
  BY <1>4 DEF allVars
<1> QED
  BY <1>1, <1>2, <1>3, <1>4 DEF PacketsNext

(* The invariants of QubicPeers, and the buffers.                             *)
PacketsInv ==
    /\ PeersInv
    /\ DOMAIN recvBuffers = Peers
    /\ RetriesWithEmptyBuffer

LEMMA PacketsInitially ==
  PacketsInit => PacketsInv
  BY PeersInitially, SMT DEF PacketsInit, PacketsInv, RetriesWithEmptyBuffer

(* A socket on the poll list belongs to a peer without a pending retry, so    *)
(* only such a peer's buffer ever grows.                                      *)
LEMMA ReadsOnlyOpen ==
  ASSUME PeersInv, pc = "poll", NEW i \in polled
  PROVE  i \in Peers /\ retry[i] = "none"
  BY DEF PeersInv, PeersTypeOK, PendingNotConnected, Handshaking

(* Every step keeps the buffers of waiting peers empty.                       *)
LEMMA PacketsStepPreserves ==
  ASSUME PacketsInv, [PacketsNext]_allVars
  PROVE  PacketsInv'
<1>1. PeersInv'
  BY PacketStepIsPeerStep, PeersStepPreserves DEF PacketsInv
<1> USE DEF PacketsInv, RetriesWithEmptyBuffer
<1>2. CASE OpenStream
  BY <1>1, <1>2 DEF OpenStream, Connected
<1>3. ASSUME NEW n \in Nat, HandshakeRead(n)  PROVE PacketsInv'
  BY <1>1, <1>3 DEF HandshakeRead, vars
<1>4. CASE NextReceive
  BY <1>1, <1>4 DEF NextReceive, PeersExchanged
<1>5. CASE EndHandshake
  BY <1>1, <1>5 DEF EndHandshake, HandshakeDone, ResetRetry, PeersInv, PeersTypeOK
<1>6. ASSUME NEW i \in polled, NEW n \in Nat, ReadSocket(i, n)  PROVE PacketsInv'
  <2>1. i \in Peers /\ retry[i] = "none"
    BY <1>6, ReadsOnlyOpen DEF ReadSocket
  <2>2. /\ UNCHANGED retry
        /\ DOMAIN recvBuffers' = DOMAIN recvBuffers
        /\ \A k \in Peers \ {i} : recvBuffers'[k] = recvBuffers[k]
    BY <1>6 DEF ReadSocket, BufferIndex, vars
  <2> QED  BY <1>1, <2>1, <2>2
<1>7. CASE WaitForRest
  BY <1>1, <1>7 DEF WaitForRest, vars
<1>8. CASE DropBuffer
  <2>1. /\ UNCHANGED retry
        /\ DOMAIN recvBuffers' = DOMAIN recvBuffers
        /\ \A k \in Peers : recvBuffers'[k] = recvBuffers[k] \/ recvBuffers'[k] = <<>>
    BY <1>8 DEF DropBuffer, vars
  <2> QED  BY <1>1, <2>1
<1>9. CASE ProcessPacket
  <2>1. recvBuffers[framing] # <<>>
    BY <1>9 DEF ProcessPacket, HasHeader, HeaderSize
  <2>2. /\ UNCHANGED retry
        /\ DOMAIN recvBuffers' = DOMAIN recvBuffers
        /\ \A k \in Peers : k # framing => recvBuffers'[k] = recvBuffers[k]
    BY <1>9 DEF ProcessPacket, vars
  <2> QED  BY <1>1, <2>1, <2>2
<1>10. ASSUME NEW down \in SUBSET polled, EndCycle(down)  PROVE PacketsInv'
  <2>1. /\ recvBuffers' = [i \in Peers |-> IF i \in down THEN <<>> ELSE recvBuffers[i]]
        /\ retry' = [i \in Peers |-> IF i \in down THEN "waiting" ELSE retry[i]]
    BY <1>10 DEF EndCycle, PollSockets, ScheduleRetry, ClearBuffers
  <2> QED  BY <1>1, <2>1
<1>11. CASE OtherRecvStep
  <2>1. UNCHANGED recvBuffers
    BY <1>11 DEF OtherRecvStep, packetVars
  <2>2. CASE NothingDue \/ PollError
    BY <1>1, <2>1, <2>2 DEF NothingDue, PollError
  <2>3. CASE ReconnectFailed
    <3>1. NextDue \in Peers /\ retry[NextDue] = "ready"
      BY <2>3, DuePeer DEF ReconnectFailed
    <3>2. \A i \in Peers : retry'[i] # "none" => retry[i] # "none"
      BY <2>3, <3>1 DEF ReconnectFailed, PeersInv, PeersTypeOK
    <3> QED  BY <1>1, <2>1, <3>2
  <2> QED  BY <1>11, <2>2, <2>3 DEF OtherRecvStep
<1>12. ASSUME NEW i \in Peers, (RetryDue(i) \/ TaskSendFails(i)) /\ UNCHANGED packetVars
       PROVE  PacketsInv'
  <2>1. UNCHANGED recvBuffers
    BY <1>12 DEF packetVars
  <2>2. \A k \in Peers : retry'[k] # "none" => retry[k] # "none"
    BY <1>12 DEF RetryDue, TaskSendFails, PeersInv, PeersTypeOK
  <2> QED  BY <1>1, <2>1, <2>2
<1>13. ASSUME NEW i \in Senders, SendPacket(i)  PROVE PacketsInv'
  BY <1>1, <1>13 DEF SendPacket, vars
<1>14. CASE UNCHANGED allVars
  BY <1>1, <1>14 DEF allVars, vars, packetVars
<1>15. CASE PacketsRecvStep
  <2>1. \A i : 1..Len(Unread(i)) \subseteq Nat
    BY DEF Unread
  <2> QED
    BY <1>15, <2>1, <1>2, <1>3, <1>4, <1>5, <1>6, <1>7, <1>8, <1>9, <1>10, <1>11
    DEF PacketsRecvStep, ProcessRecvBuffer
<1> QED
  BY <1>12, <1>13, <1>14, <1>15 DEF PacketsNext

(* For every number of peers and whatever they send: qubicRecvThread opens a  *)
(* connection only with an empty buffer, so no packet is put together from    *)
(* the bytes of two connections.                                              *)
THEOREM ReconnectsWithEmptyBuffer ==
  PacketsSpec => []RetriesWithEmptyBuffer
<1>1. PacketsInv => RetriesWithEmptyBuffer
  BY DEF PacketsInv
<1> QED
  BY PacketsInitially, PacketsStepPreserves, <1>1, PTL DEF PacketsSpec

(* The connections of PeerPackets behave as QubicPeers specifies, so all that *)
(* is proved of QubicPeers holds of the composition.                          *)
THEOREM PacketsRefinePeers ==
  PacketsSpec => PeersSpec
<1>1. PacketsInit => PeersInit
  BY DEF PacketsInit
<1> QED
  BY <1>1, PacketStepIsPeerStep, PTL DEF PacketsSpec, PeersSpec

(* In particular every open connection is polled while packets flow.          *)
THEOREM OpenConnectionsPolledWithPackets ==
  PacketsSpec => []ConnectedArePolled
  BY PacketsRefinePeers, OpenConnectionsPolled, PTL

-----------------------------------------------------------------------------
(* Bytes and packets.                                                         *)

(* The prefixes of a flattened sequence: a function that adds one element at  *)
(* a time exists ...                                                          *)
Concatenates(s, g) == g[0] = <<>> /\ \A k \in 1..Len(s) : g[k] = g[k - 1] \o s[k]

LEMMA ConcatenationExists ==
  ASSUME NEW T, NEW s \in Seq(Seq(T))
  PROVE  \E g \in [0..Len(s) -> Seq(T)] : Concatenates(s, g)
<1> DEFINE upTo(g, n) == g[0] = <<>> /\ \A k \in 1..n : g[k] = g[k - 1] \o s[k]
           D == {n \in Nat : \E g \in [0..n -> Seq(T)] : upTo(g, n)}
<1>0. Len(s) \in Nat
  OBVIOUS
<1>1. 0 \in D
  <2> DEFINE g == [k \in 0..0 |-> <<>>]
  <2>1. g \in [0..0 -> Seq(T)] /\ g[0] = <<>> /\ 1..0 = {}
    BY SMT
  <2>2. QED
    BY <2>1
<1>2. ASSUME NEW n \in 0..(Len(s) - 1), n \in D  PROVE n + 1 \in D
  <2>1. n \in Nat /\ n + 1 \in 1..Len(s) /\ s[n + 1] \in Seq(T)
    BY <1>0
  <2>2. PICK g \in [0..n -> Seq(T)] : upTo(g, n)
    BY <1>2, Zenon
  <2> DEFINE h == [k \in 0..(n + 1) |-> IF k = n + 1 THEN g[n] \o s[n + 1] ELSE g[k]]
  <2>3. g[n] \in Seq(T) /\ g[n] \o s[n + 1] \in Seq(T)
    BY <2>1, ConcatProperties
  <2>4. h \in [0..(n + 1) -> Seq(T)]
    BY <2>1, <2>3
  <2>5. \A k \in 0..n : h[k] = g[k]
    BY <2>1, SMT
  <2>6. h[n + 1] = h[n] \o s[n + 1] /\ (n + 1) - 1 = n
    <3>1. n + 1 \in 0..(n + 1) /\ n \in 0..n /\ (n + 1) - 1 = n
      BY <2>1, SMT
    <3>2. h[n + 1] = g[n] \o s[n + 1]
      BY <3>1, Zenon
    <3> HIDE DEF h
    <3>3. QED
      BY <2>5, <3>1, <3>2
  <2> HIDE DEF h
  <2>7. ASSUME NEW k \in 1..(n + 1)  PROVE h[k] = h[k - 1] \o s[k]
    <3>1. CASE k = n + 1
      BY <2>6, <3>1
    <3>2. CASE k # n + 1
      <4>1. k \in 1..n /\ k \in 0..n /\ k - 1 \in 0..n
        BY <2>1, <3>2, SMT
      <4>2. QED
        BY <2>2, <2>5, <4>1
    <3>3. QED
      BY <3>1, <3>2
  <2>8. h[0] = <<>>
    <3>1. 0 \in 0..n
      BY <2>1, SMT
    <3>2. QED
      BY <2>2, <2>5, <3>1
  <2>9. n + 1 \in Nat
    BY <2>1, SMT
  <2>10. QED
    BY <2>4, <2>7, <2>8, <2>9, Zenon
<1>3. Len(s) \in D
  <2> HIDE DEF D
  <2>1. \A k \in 0..Len(s) : k \in D
    BY <1>0, <1>1, <1>2, InductionUpTo
  <2>2. QED
    BY <1>0, <2>1
<1>4. QED
  BY <1>3 DEF Concatenates

(* ... and it is what FlattenSeq computes.                                    *)
LEMMA FlattenIs ==
  ASSUME NEW T, NEW s \in Seq(Seq(T)),
         NEW g \in [0..Len(s) -> Seq(T)], Concatenates(s, g)
  PROVE  FlattenSeq(s) = g[Len(s)]
<1>0. Len(s) \in Nat
  OBVIOUS
<1>1. CASE Len(s) = 0
  BY <1>1 DEF FlattenSeq, Concatenates
<1>2. CASE Len(s) # 0
  <2> DEFINE fl == CHOOSE f : f = [i \in 1..Len(s) |-> IF i = 1 THEN s[i] ELSE f[i - 1] \o s[i]]
             w == [i \in 1..Len(s) |-> g[i]]
  <2>1. FlattenSeq(s) = fl[Len(s)]
    BY <1>2 DEF FlattenSeq
  <2>2. g[1] = s[1]
    <3>1. 1 \in 1..Len(s) /\ s[1] \in Seq(T) /\ 1 - 1 = 0
      BY <1>0, <1>2
    <3>2. g[1] = <<>> \o s[1]
      BY <3>1 DEF Concatenates
    <3>3. QED
      BY <3>1, <3>2, ConcatEmptySeq
  <2>3. ASSUME NEW i \in 1..Len(s)
        PROVE  w[i] = IF i = 1 THEN s[i] ELSE w[i - 1] \o s[i]
    <3>1. CASE i = 1
      BY <2>2, <3>1
    <3>2. CASE i # 1
      <4>1. i - 1 \in 1..Len(s)
        BY <1>0, <3>2, SMT
      <4>2. QED
        BY <3>2, <4>1 DEF Concatenates
    <3>3. QED
      BY <3>1, <3>2
  <2>4. w = [i \in 1..Len(s) |-> IF i = 1 THEN s[i] ELSE w[i - 1] \o s[i]]
    <3>1. w = [i \in 1..Len(s) |-> w[i]]
      OBVIOUS
    <3> HIDE DEF w
    <3>2. QED
      BY <2>3, <3>1, Zenon
  <2>5. fl = [i \in 1..Len(s) |-> IF i = 1 THEN s[i] ELSE fl[i - 1] \o s[i]]
    <3> HIDE DEF w
    <3> QED
      BY <2>4, Zenon
  <2> DEFINE D == {k \in Nat : k = 0 \/ fl[k] = g[k]}
  <2> HIDE DEF fl
  <2>6. 0 \in D
    OBVIOUS
  <2>7. ASSUME NEW k \in 0..(Len(s) - 1), k \in D  PROVE k + 1 \in D
    <3>1. k \in Nat /\ k + 1 \in Nat /\ k + 1 \in 1..Len(s) /\ (k + 1) - 1 = k
      BY <1>0, SMT
    <3>2. fl[k + 1] = IF k + 1 = 1 THEN s[k + 1] ELSE fl[k] \o s[k + 1]
      BY <2>5, <3>1
    <3>3. CASE k = 0
      BY <2>2, <3>1, <3>2, <3>3
    <3>4. CASE k # 0
      <4>1. fl[k] = g[k] /\ k + 1 # 1
        BY <2>7, <3>1, <3>4
      <4>2. g[k + 1] = g[k] \o s[k + 1]
        BY <3>1 DEF Concatenates
      <4>3. fl[k + 1] = g[k + 1] /\ k + 1 \in Nat
        BY <3>1, <3>2, <4>1, <4>2, Zenon
      <4>4. QED
        BY <4>3
    <3>5. QED
      BY <3>3, <3>4
  <2>8. Len(s) \in D
    <3> HIDE DEF D
    <3>1. \A k \in 0..Len(s) : k \in D
      BY <1>0, <2>6, <2>7, InductionUpTo
    <3>2. QED
      BY <1>0, <3>1
  <2>9. QED
    BY <1>2, <2>1, <2>8
<1>3. QED
  BY <1>1, <1>2

(* The k-th prefix of the packets, and the next.                              *)
LEMMA FlattenPrefixes ==
  ASSUME NEW T, NEW s \in Seq(Seq(T))
  PROVE  \E g \in [0..Len(s) -> Seq(T)] :
            /\ Concatenates(s, g)
            /\ \A k \in 0..Len(s) : FlattenSeq(SubSeq(s, 1, k)) = g[k]
<1>0. Len(s) \in Nat
  OBVIOUS
<1>1. PICK g \in [0..Len(s) -> Seq(T)] : Concatenates(s, g)
  BY ConcatenationExists
<1>2. ASSUME NEW k \in 0..Len(s)
      PROVE  FlattenSeq(SubSeq(s, 1, k)) = g[k]
  <2> DEFINE t == SubSeq(s, 1, k)
             h == [j \in 0..k |-> g[j]]
  <2>1. t \in Seq(Seq(T)) /\ Len(t) = k /\ \A j \in 1..k : t[j] = s[j]
    BY <1>0
  <2>2. h \in [0..k -> Seq(T)] /\ \A j \in 0..k : h[j] = g[j]
    BY <1>0
  <2>3. k \in 0..k /\ 0 \in 0..k /\ k \in Nat
    BY <1>0, SMT
  <2> HIDE DEF t, h
  <2>4. ASSUME NEW j \in 1..k  PROVE h[j] = h[j - 1] \o t[j]
    <3>1. j \in 1..Len(s) /\ j \in 0..k /\ j - 1 \in 0..k
      BY <1>0, SMT
    <3>2. QED
      BY <1>1, <2>1, <2>2, <3>1 DEF Concatenates
  <2>5. Concatenates(t, h)
    BY <1>1, <2>1, <2>2, <2>3, <2>4 DEF Concatenates
  <2>6. FlattenSeq(t) = h[k]
    BY <2>1, <2>2, <2>5, FlattenIs
  <2>7. QED
    BY <2>2, <2>3, <2>6 DEF t
<1>3. QED
  BY <1>1, <1>2

(* The bytes of the first k packets begin the bytes of more packets.          *)
LEMMA PrefixBytes ==
  ASSUME NEW T, NEW s \in Seq(Seq(T)), NEW k \in 0..Len(s)
  PROVE  /\ FlattenSeq(s) \in Seq(T)
         /\ FlattenSeq(SubSeq(s, 1, k)) \in Seq(T)
         /\ Len(FlattenSeq(SubSeq(s, 1, k))) <= Len(FlattenSeq(s))
         /\ \A j \in 1..Len(FlattenSeq(SubSeq(s, 1, k))) :
               FlattenSeq(s)[j] = FlattenSeq(SubSeq(s, 1, k))[j]
<1>0. Len(s) \in Nat /\ k \in Nat /\ Len(s) - k \in Nat
  <2>1. Len(s) \in Nat
    OBVIOUS
  <2>2. QED
    BY <2>1, SMT
<1>1. PICK g \in [0..Len(s) -> Seq(T)] :
        /\ Concatenates(s, g)
        /\ \A m \in 0..Len(s) : FlattenSeq(SubSeq(s, 1, m)) = g[m]
  BY FlattenPrefixes
<1>2. FlattenSeq(s) = g[Len(s)]
  BY <1>1, FlattenIs
<1> DEFINE D == {m \in Nat : /\ Len(g[k]) <= Len(g[k + m])
                             /\ \A j \in 1..Len(g[k]) : g[k + m][j] = g[k][j]}
<1>3. 0 \in D
  <2>1. k + 0 = k /\ g[k] \in Seq(T)
    BY <1>0
  <2>2. QED
    BY <2>1
<1>4. ASSUME NEW m \in 0..(Len(s) - k - 1), m \in D  PROVE m + 1 \in D
  <2>1. /\ m \in Nat /\ m + 1 \in Nat /\ k + (m + 1) \in 1..Len(s)
        /\ (k + (m + 1)) - 1 = k + m /\ k + m \in 0..Len(s)
    BY <1>0, SMT
  <2> DEFINE a == g[k]
             b == g[k + m]
             c == s[k + (m + 1)]
  <2>2. g[k + (m + 1)] = b \o c
    BY <1>1, <2>1 DEF Concatenates
  <2>3. a \in Seq(T) /\ b \in Seq(T) /\ c \in Seq(T)
    <3>1. c \in Seq(T)
      BY <2>1, ElementOfSeq
    <3>2. a \in Seq(T) /\ b \in Seq(T)
      BY <2>1, Zenon
    <3>3. QED
      BY <3>1, <3>2
  <2>4. Len(a) <= Len(b) /\ \A j \in 1..Len(a) : b[j] = a[j]
    BY <1>4
  <2> HIDE DEF a, b, c
  <2>5. Len(a) <= Len(b \o c) /\ \A j \in 1..Len(a) : (b \o c)[j] = a[j]
    BY <2>3, <2>4
  <2>6. QED
    BY <2>1, <2>2, <2>5 DEF a
<1>5. Len(s) - k \in D
  <2>1. Len(s) - k \in 0..(Len(s) - k)
    BY <1>0, SMT
  <2> HIDE DEF D
  <2>2. \A m \in 0..(Len(s) - k) : m \in D
    BY <1>0, <1>3, <1>4, InductionUpTo
  <2>3. QED
    BY <2>1, <2>2
<1>6. k + (Len(s) - k) = Len(s) /\ Len(s) \in 0..Len(s)
  BY <1>0, SMT
<1>7. QED
  BY <1>1, <1>2, <1>5, <1>6

(* Packet k + 1 follows the first k.                                          *)
LEMMA NextPacketBytes ==
  ASSUME NEW T, NEW s \in Seq(Seq(T)), NEW k \in 0..(Len(s) - 1)
  PROVE  /\ s[k + 1] \in Seq(T) /\ k + 1 \in 1..Len(s)
         /\ EndOf(s, k + 1) = EndOf(s, k) + Len(s[k + 1])
         /\ EndOf(s, k) + Len(s[k + 1]) <= Len(FlattenSeq(s))
         /\ \A j \in 1..Len(s[k + 1]) : FlattenSeq(s)[EndOf(s, k) + j] = s[k + 1][j]
<1>0. /\ Len(s) \in Nat /\ k + 1 \in 1..Len(s) /\ k + 1 \in 0..Len(s) /\ k \in 0..Len(s)
      /\ (k + 1) - 1 = k
  <2>1. Len(s) \in Nat
    OBVIOUS
  <2>2. QED
    BY <2>1, SMT
<1>1. PICK g \in [0..Len(s) -> Seq(T)] :
        /\ Concatenates(s, g)
        /\ \A m \in 0..Len(s) : FlattenSeq(SubSeq(s, 1, m)) = g[m]
  BY FlattenPrefixes
<1> DEFINE a == g[k]
           b == s[k + 1]
           c == g[k + 1]
           f == FlattenSeq(s)
<1>2. a \in Seq(T) /\ b \in Seq(T) /\ c = a \o b
  <2>1. a \in Seq(T)
    BY <1>0
  <2>2. b \in Seq(T)
    BY <1>0
  <2>3. c = g[(k + 1) - 1] \o b
    BY <1>0, <1>1, Zenon DEF Concatenates
  <2>4. QED
    BY <1>0, <2>1, <2>2, <2>3
<1>3. EndOf(s, k) = Len(a) /\ EndOf(s, k + 1) = Len(c)
  BY <1>0, <1>1 DEF EndOf
<1>4. f \in Seq(T) /\ Len(c) <= Len(f) /\ \A j \in 1..Len(c) : f[j] = c[j]
  BY <1>0, <1>1, PrefixBytes
<1> HIDE DEF a, b, c, f
<1>5. /\ Len(a) \in Nat /\ Len(b) \in Nat /\ Len(c) = Len(a) + Len(b)
      /\ \A j \in 1..Len(b) : c[Len(a) + j] = b[j] /\ Len(a) + j \in 1..Len(c)
  BY <1>2
<1>6. \A j \in 1..Len(b) : f[Len(a) + j] = b[j]
  BY <1>4, <1>5
<1>7. QED
  BY <1>0, <1>2, <1>3, <1>4, <1>5, <1>6 DEF b, f

(* The bytes of the packets do not change when another packet follows.        *)
Lengthened(s, x, t) ==
    /\ t \in Seq(Seq(Nat)) /\ Len(t) = Len(s) + 1
    /\ \A k \in 1..Len(s) : t[k] = s[k]
    /\ t[Len(s) + 1] = x
    /\ \A k \in 0..Len(s) : EndOf(t, k) = EndOf(s, k)
    /\ EndOf(s, Len(s)) = Len(FlattenSeq(s))
    /\ EndOf(t, Len(t)) = Len(FlattenSeq(s)) + Len(x)
    /\ Len(FlattenSeq(t)) = Len(FlattenSeq(s)) + Len(x)
    /\ \A j \in 1..Len(FlattenSeq(s)) : FlattenSeq(t)[j] = FlattenSeq(s)[j]

LEMMA AppendedPacket ==
  ASSUME NEW s \in Seq(Seq(Nat)), NEW x \in Seq(Nat), NEW t, t = Append(s, x)
  PROVE  Lengthened(s, x, t)
<1>1. /\ t \in Seq(Seq(Nat)) /\ Len(t) = Len(s) + 1 /\ t[Len(s) + 1] = x
      /\ \A k \in 1..Len(s) : t[k] = s[k]
  BY AppendProperties
<1>2. Len(s) \in Nat /\ Len(s) \in 0..Len(t) /\ Len(s) \in 0..(Len(t) - 1)
      /\ Len(s) \in 0..Len(s)
  BY <1>1
<1>3. ASSUME NEW k \in 0..Len(s)  PROVE SubSeq(t, 1, k) = SubSeq(s, 1, k)
  BY <1>1, <1>2
<1>4. SubSeq(t, 1, Len(s)) = s
  <2>1. SubSeq(s, 1, Len(s)) = s
    BY SubSeqFull
  <2>2. QED
    BY <1>2, <1>3, <2>1
<1>5. SubSeq(s, 1, Len(s)) = s /\ SubSeq(t, 1, Len(t)) = t
  BY <1>1, SubSeqFull
<1>6. \A k \in 0..Len(s) : EndOf(t, k) = EndOf(s, k)
  BY <1>3 DEF EndOf
<1>7. EndOf(t, Len(s)) = Len(FlattenSeq(s)) /\ EndOf(t, Len(t)) = Len(FlattenSeq(t))
      /\ EndOf(s, Len(s)) = Len(FlattenSeq(s))
  BY <1>4, <1>5, Zenon DEF EndOf
<1>8. EndOf(t, Len(s) + 1) = EndOf(t, Len(s)) + Len(x)
  <2>1. EndOf(t, Len(s) + 1) = EndOf(t, Len(s)) + Len(t[Len(s) + 1])
    BY <1>1, <1>2, NextPacketBytes, Zenon
  <2>2. QED
    BY <1>1, <2>1, Zenon
<1>9. \A j \in 1..Len(FlattenSeq(s)) : FlattenSeq(t)[j] = FlattenSeq(s)[j]
  BY <1>1, <1>2, <1>4, PrefixBytes
<1>10. QED
  BY <1>1, <1>6, <1>7, <1>8, <1>9 DEF Lengthened

(* SolutionsIn takes one packet at a time.                                    *)
Collects(s, g) ==
    /\ g[0] = <<>>
    /\ \A k \in 1..Len(s) :
          g[k] = IF IsSolution(s[k]) THEN Append(g[k - 1], s[k]) ELSE g[k - 1]

LEMMA CollectionExists ==
  ASSUME NEW T, NEW s \in Seq(T)
  PROVE  \E g \in [0..Len(s) -> Seq(T)] : Collects(s, g)
<1> DEFINE step(a, x) == IF IsSolution(x) THEN Append(a, x) ELSE a
           upTo(g, n) == g[0] = <<>> /\ \A k \in 1..n : g[k] = step(g[k - 1], s[k])
           D == {n \in Nat : \E g \in [0..n -> Seq(T)] : upTo(g, n)}
<1>0. Len(s) \in Nat
  OBVIOUS
<1>1. 0 \in D
  <2> DEFINE g == [k \in 0..0 |-> <<>>]
  <2>1. g \in [0..0 -> Seq(T)] /\ g[0] = <<>> /\ 1..0 = {}
    BY SMT
  <2>2. QED
    BY <2>1
<1>2. ASSUME NEW n \in 0..(Len(s) - 1), n \in D  PROVE n + 1 \in D
  <2>1. n \in Nat /\ n + 1 \in 1..Len(s) /\ s[n + 1] \in T
    BY <1>0
  <2>2. PICK g \in [0..n -> Seq(T)] : upTo(g, n)
    BY <1>2, Zenon
  <2> DEFINE h == [k \in 0..(n + 1) |-> IF k = n + 1 THEN step(g[n], s[n + 1]) ELSE g[k]]
  <2>3. g[n] \in Seq(T) /\ step(g[n], s[n + 1]) \in Seq(T)
    BY <2>1, AppendProperties
  <2> HIDE DEF step
  <2>4. h \in [0..(n + 1) -> Seq(T)]
    BY <2>1, <2>3
  <2>5. \A k \in 0..n : h[k] = g[k]
    BY <2>1, SMT
  <2>6. h[n + 1] = step(h[n], s[n + 1]) /\ (n + 1) - 1 = n
    <3>1. n + 1 \in 0..(n + 1) /\ n \in 0..n /\ (n + 1) - 1 = n
      BY <2>1, SMT
    <3>2. h[n + 1] = step(g[n], s[n + 1])
      BY <3>1, Zenon
    <3> HIDE DEF h
    <3>3. QED
      BY <2>5, <3>1, <3>2
  <2> HIDE DEF h
  <2>7. ASSUME NEW k \in 1..(n + 1)  PROVE h[k] = step(h[k - 1], s[k])
    <3>1. CASE k = n + 1
      BY <2>6, <3>1
    <3>2. CASE k # n + 1
      <4>1. k \in 1..n /\ k \in 0..n /\ k - 1 \in 0..n
        BY <2>1, <3>2, SMT
      <4>2. QED
        BY <2>2, <2>5, <4>1
    <3>3. QED
      BY <3>1, <3>2
  <2>8. h[0] = <<>>
    <3>1. 0 \in 0..n
      BY <2>1, SMT
    <3>2. QED
      BY <2>2, <2>5, <3>1
  <2>9. n + 1 \in Nat
    BY <2>1, SMT
  <2>10. QED
    BY <2>4, <2>7, <2>8, <2>9, Zenon
<1>3. Len(s) \in D
  <2> HIDE DEF D
  <2>1. \A k \in 0..Len(s) : k \in D
    BY <1>0, <1>1, <1>2, InductionUpTo
  <2>2. QED
    BY <1>0, <2>1
<1>4. QED
  BY <1>3 DEF Collects

LEMMA CollectionIs ==
  ASSUME NEW T, NEW s \in Seq(T), NEW g \in [0..Len(s) -> Seq(T)], Collects(s, g)
  PROVE  SolutionsIn(s) = g[Len(s)]
<1> DEFINE step(a, x) == IF IsSolution(x) THEN Append(a, x) ELSE a
<1> DEFINE fl == CHOOSE f : f = [k \in 0..Len(s) |->
                                   IF k = 0 THEN <<>>
                                   ELSE IF IsSolution(s[k]) THEN Append(f[k - 1], s[k])
                                   ELSE f[k - 1]]
<1>0. Len(s) \in Nat
  OBVIOUS
<1>1. SolutionsIn(s) = fl[Len(s)]
  BY DEF SolutionsIn
<1>2. ASSUME NEW k \in 0..Len(s)
      PROVE  g[k] = IF k = 0 THEN <<>>
                    ELSE IF IsSolution(s[k]) THEN Append(g[k - 1], s[k])
                    ELSE g[k - 1]
  <2>1. k = 0 \/ k \in 1..Len(s)
    BY <1>0, SMT
  <2>2. QED
    BY <2>1, Zenon DEF Collects
<1>3. g = [k \in 0..Len(s) |-> IF k = 0 THEN <<>>
                                ELSE IF IsSolution(s[k]) THEN Append(g[k - 1], s[k])
                                ELSE g[k - 1]]
  <2>1. g = [k \in 0..Len(s) |-> g[k]]
    OBVIOUS
  <2>2. QED
    BY <1>2, <2>1, Zenon
<1>4. fl = [k \in 0..Len(s) |-> IF k = 0 THEN <<>>
                                 ELSE IF IsSolution(s[k]) THEN Append(fl[k - 1], s[k])
                                 ELSE fl[k - 1]]
  BY <1>3, Zenon
<1> HIDE DEF fl
<1> DEFINE D == {k \in Nat : fl[k] = g[k]}
<1>5. 0 \in D
  <2>1. 0 \in 0..Len(s)
    BY <1>0, SMT
  <2>2. fl[0] = <<>>
    BY <1>4, <2>1, Zenon
  <2>3. QED
    BY <2>2 DEF Collects
<1>6. ASSUME NEW k \in 0..(Len(s) - 1), k \in D  PROVE k + 1 \in D
  <2>1. /\ k + 1 \in Nat /\ k + 1 # 0 /\ k + 1 \in 0..Len(s) /\ k + 1 \in 1..Len(s)
        /\ (k + 1) - 1 = k
    BY <1>0, SMT
  <2>2. fl[k] = g[k]
    BY <1>6
  <2>3. fl[k + 1] = step(fl[(k + 1) - 1], s[k + 1])
    BY <1>4, <2>1, Zenon
  <2>4. g[k + 1] = step(g[(k + 1) - 1], s[k + 1])
    BY <2>1, Zenon DEF Collects
  <2> HIDE DEF step
  <2>5. fl[k + 1] = g[k + 1]
    BY <2>1, <2>2, <2>3, <2>4
  <2>6. QED
    BY <2>1, <2>5
<1>7. Len(s) \in D
  <2> HIDE DEF D
  <2>1. \A k \in 0..Len(s) : k \in D
    BY <1>0, <1>5, <1>6, InductionUpTo
  <2>2. QED
    BY <1>0, <2>1
<1>8. QED
  BY <1>1, <1>7

LEMMA SolutionsStep ==
  ASSUME NEW T, NEW s \in Seq(T), NEW x \in T
  PROVE  /\ SolutionsIn(s) \in Seq(T)
         /\ s = <<>> => SolutionsIn(s) = <<>>
         /\ SolutionsIn(Append(s, x)) =
               IF IsSolution(x) THEN Append(SolutionsIn(s), x) ELSE SolutionsIn(s)
<1> DEFINE step(a, y) == IF IsSolution(y) THEN Append(a, y) ELSE a
           t == Append(s, x)
<1>1. /\ t \in Seq(T) /\ Len(t) = Len(s) + 1 /\ Len(s) \in Nat
      /\ t[Len(s) + 1] = x /\ \A k \in 1..Len(s) : t[k] = s[k]
  BY AppendProperties
<1> HIDE DEF t
<1>2. PICK g \in [0..Len(t) -> Seq(T)] : Collects(t, g)
  BY <1>1, CollectionExists
<1>3. SolutionsIn(t) = g[Len(t)]
  BY <1>1, <1>2, CollectionIs
<1> DEFINE h == [k \in 0..Len(s) |-> g[k]]
<1>4. h \in [0..Len(s) -> Seq(T)] /\ \A k \in 0..Len(s) : h[k] = g[k]
  BY <1>1
<1>5. 0 \in 0..Len(s) /\ Len(s) \in 0..Len(s) /\ Len(t) \in 1..Len(t) /\ Len(t) - 1 = Len(s)
  BY <1>1, SMT
<1> HIDE DEF h
<1>6. Collects(s, h)
  <2>1. h[0] = <<>>
    BY <1>2, <1>4, <1>5 DEF Collects
  <2>2. ASSUME NEW k \in 1..Len(s)  PROVE h[k] = step(h[k - 1], s[k])
    <3>1. k \in 1..Len(t) /\ k \in 0..Len(s) /\ k - 1 \in 0..Len(s)
      BY <1>1, SMT
    <3>2. g[k] = step(g[k - 1], t[k])
      BY <1>2, <3>1, Zenon DEF Collects
    <3> HIDE DEF step
    <3>3. QED
      BY <1>1, <1>4, <3>1, <3>2
  <2>3. QED
    BY <2>1, <2>2, Zenon DEF Collects
<1>7. SolutionsIn(s) = h[Len(s)]
  BY <1>4, <1>6, CollectionIs
<1>8. SolutionsIn(s) \in Seq(T)
  BY <1>4, <1>5, <1>7
<1>9. s = <<>> => SolutionsIn(s) = <<>>
  BY <1>6, <1>7 DEF Collects
<1>10. g[Len(t)] = step(g[Len(t) - 1], t[Len(t)])
  BY <1>2, <1>5, Zenon DEF Collects
<1>11. SolutionsIn(t) = step(SolutionsIn(s), x)
  <2> HIDE DEF step
  <2> QED
    BY <1>1, <1>3, <1>4, <1>5, <1>7, <1>10
<1>12. QED
  BY <1>8, <1>9, <1>11 DEF t

-----------------------------------------------------------------------------
(* Framing, for one stream s of packets of which n bytes have been read, h    *)
(* packets by the handshake: the first k packets have been processed, and     *)
(* found are the solutions among them.                                        *)
Processed(s, n, found, h, k) ==
    EndOf(s, k) <= n /\ found = SolutionsIn(SubSeq(s, h + 1, k))

(* The bytes behind the first k packets are in the buffer b.                  *)
Holds(s, n, b, k) == b = SubSeq(FlattenSeq(s), EndOf(s, k) + 1, n)

Streams == {s \in Seq(Seq(Nat)) : \A k \in DOMAIN s : Len(s[k]) >= HeaderSize}

AllSound(s) == \A k \in DOMAIN s : Sound(s[k])

LEMMA StreamFacts ==
  ASSUME NEW s \in Streams
  PROVE  /\ s \in Seq(Seq(Nat)) /\ Len(s) \in Nat /\ DOMAIN s = 1..Len(s)
         /\ FlattenSeq(s) \in Seq(Nat) /\ Len(FlattenSeq(s)) \in Nat
         /\ EndOf(s, Len(s)) = Len(FlattenSeq(s))
         /\ \A k \in 0..Len(s) : EndOf(s, k) \in Nat
         /\ \A k \in 0..(Len(s) - 1) :
               /\ s[k + 1] \in Seq(Nat) /\ Len(s[k + 1]) \in Nat /\ Len(s[k + 1]) >= 2
               /\ EndOf(s, k + 1) = EndOf(s, k) + Len(s[k + 1])
<1>1. s \in Seq(Seq(Nat)) /\ \A k \in DOMAIN s : Len(s[k]) >= 2
  BY DEF Streams, HeaderSize
<1>2. Len(s) \in Nat /\ DOMAIN s = 1..Len(s) /\ 0 \in 0..Len(s) /\ Len(s) \in 0..Len(s)
  BY <1>1
<1>3. FlattenSeq(s) \in Seq(Nat)
  BY <1>1, <1>2, PrefixBytes
<1>4. ASSUME NEW k \in 0..Len(s)  PROVE EndOf(s, k) \in Nat
  <2>1. FlattenSeq(SubSeq(s, 1, k)) \in Seq(Nat)
    BY <1>1, PrefixBytes
  <2>2. QED
    BY <2>1, LenProperties DEF EndOf
<1>5. SubSeq(s, 1, Len(s)) = s
  BY <1>1, SubSeqFull
<1>6. EndOf(s, Len(s)) = Len(FlattenSeq(s))
  BY <1>5 DEF EndOf
<1>7. ASSUME NEW k \in 0..(Len(s) - 1)
      PROVE  /\ s[k + 1] \in Seq(Nat) /\ Len(s[k + 1]) \in Nat /\ Len(s[k + 1]) >= 2
             /\ EndOf(s, k + 1) = EndOf(s, k) + Len(s[k + 1])
  <2>1. /\ s[k + 1] \in Seq(Nat) /\ k + 1 \in 1..Len(s)
        /\ EndOf(s, k + 1) = EndOf(s, k) + Len(s[k + 1])
    BY <1>1, NextPacketBytes
  <2>2. QED
    BY <1>1, <1>2, <2>1, LenProperties
<1>8. QED
  BY <1>1, <1>2, <1>3, <1>4, <1>6, <1>7, LenProperties

(* After a handshake that ended behind the h-th packet.                       *)
LEMMA FramedAfterHandshake ==
  ASSUME NEW s \in Streams, NEW h \in 0..Len(s), NEW n, n = EndOf(s, h)
  PROVE  h \in h..Len(s) /\ Processed(s, n, <<>>, h, h) /\ Holds(s, n, <<>>, h) /\ WhollyRead(s, n, h)
<1> DEFINE e == EndOf(s, h)
<1>1. Len(s) \in Nat /\ h \in h..Len(s) /\ e \in Nat /\ s \in Seq(Seq(Nat))
  BY StreamFacts
<1>2. SubSeq(s, h + 1, h) = <<>> /\ SubSeq(FlattenSeq(s), e + 1, e) = <<>>
  <2> HIDE DEF e
  <2> QED
    BY <1>1, SubSeqEmpty
<1>3. SolutionsIn(<<>>) = <<>>
  <2>1. <<>> \in Seq(Nat) /\ 0 \in Nat
    OBVIOUS
  <2>2. QED
    BY <2>1, SolutionsStep
<1>4. WhollyRead(s, e, h)
  <2>1. SUFFICES ASSUME h < Len(s)  PROVE e < EndOf(s, h + 1)
    BY <1>1 DEF WhollyRead
  <2>2. h \in 0..(Len(s) - 1)
    BY <1>1, <2>1, SMT
  <2>3. Len(s[h + 1]) \in Nat /\ Len(s[h + 1]) >= 2 /\ EndOf(s, h + 1) = e + Len(s[h + 1])
    BY <2>2, StreamFacts
  <2> HIDE DEF e
  <2>4. QED
    BY <1>1, <2>3, SMT
<1>5. e <= e
  BY <1>1, SMT
<1>6. QED
  BY <1>1, <1>2, <1>3, <1>4, <1>5 DEF Processed, Holds

(* Another packet is sent.                                                    *)
LEMMA FramedWhenSent ==
  ASSUME NEW s \in Streams, NEW x \in Seq(Nat), Len(x) >= HeaderSize,
         NEW t, t = Append(s, x),
         NEW n \in Nat, n <= Len(FlattenSeq(s)), NEW h \in 0..Len(s), NEW k \in h..Len(s),
         NEW b, NEW found, Processed(s, n, found, h, k)
  PROVE  /\ k \in h..Len(t) /\ Processed(t, n, found, h, k)
         /\ Holds(s, n, b, k) => Holds(t, n, b, k)
         /\ WhollyRead(s, n, k) => WhollyRead(t, n, k)
<1>1. /\ s \in Seq(Seq(Nat)) /\ Len(s) \in Nat /\ FlattenSeq(s) \in Seq(Nat)
      /\ Len(FlattenSeq(s)) \in Nat /\ Len(x) \in Nat /\ Len(x) >= 2
      /\ \A j \in 0..Len(s) : EndOf(s, j) \in Nat
  BY StreamFacts, LenProperties DEF HeaderSize
<1>2. /\ t \in Seq(Seq(Nat)) /\ Len(t) = Len(s) + 1
      /\ \A j \in 1..Len(s) : t[j] = s[j]
      /\ \A j \in 0..Len(s) : EndOf(t, j) = EndOf(s, j)
      /\ EndOf(t, Len(t)) = Len(FlattenSeq(s)) + Len(x)
      /\ Len(FlattenSeq(t)) = Len(FlattenSeq(s)) + Len(x)
      /\ \A j \in 1..Len(FlattenSeq(s)) : FlattenSeq(t)[j] = FlattenSeq(s)[j]
  <2>1. Lengthened(s, x, t)
    BY <1>1, AppendedPacket
  <2>2. QED
    BY <2>1 DEF Lengthened
<1>3. EndOf(s, k) <= n /\ found = SolutionsIn(SubSeq(s, h + 1, k))
  BY DEF Processed
<1>4. k \in h..Len(t) /\ k \in 0..Len(s) /\ k \in Nat
  BY <1>1, <1>2, SMT
<1>5. EndOf(t, k) = EndOf(s, k) /\ EndOf(s, k) \in Nat
  BY <1>1, <1>2, <1>4
<1>6. SubSeq(t, h + 1, k) = SubSeq(s, h + 1, k)
  BY <1>1, <1>2, <1>4
<1>7. SubSeq(FlattenSeq(t), EndOf(s, k) + 1, n) = SubSeq(FlattenSeq(s), EndOf(s, k) + 1, n)
  <2> DEFINE f == FlattenSeq(s)
             g == FlattenSeq(t)
             m == EndOf(s, k) + 1
  <2>1. f \in Seq(Nat) /\ g \in Seq(Nat)
    <3>1. 0 \in 0..Len(t)
      BY <1>1, <1>2, SMT
    <3>2. QED
      BY <1>1, <1>2, <3>1, PrefixBytes
  <2>2. m \in Nat /\ m >= 1 /\ n <= Len(f) /\ Len(f) <= Len(g)
    BY <1>1, <1>2, <1>5, SMT
  <2>3. \A j \in 1..Len(f) : g[j] = f[j]
    BY <1>2
  <2> HIDE DEF f, g, m
  <2>4. SubSeq(g, m, n) = SubSeq(f, m, n)
    BY <2>1, <2>2, <2>3
  <2>5. QED
    BY <2>4 DEF f, g, m
<1>8. WhollyRead(s, n, k) => WhollyRead(t, n, k)
  <2>1. SUFFICES ASSUME WhollyRead(s, n, k)  PROVE WhollyRead(t, n, k)
    OBVIOUS
  <2>2. CASE k < Len(s)
    <3>1. k + 1 \in 0..Len(s)
      BY <1>1, <1>4, <2>2, SMT
    <3>2. EndOf(t, k + 1) = EndOf(s, k + 1)
      BY <1>2, <3>1
    <3>3. QED
      BY <1>5, <2>1, <2>2, <3>2 DEF WhollyRead
  <2>3. CASE k = Len(s)
    <3>1. EndOf(t, k + 1) = Len(FlattenSeq(s)) + Len(x)
      BY <1>2, <2>3
    <3>2. n < EndOf(t, k + 1)
      BY <1>1, <3>1, SMT
    <3>3. QED
      BY <1>3, <1>5, <3>2 DEF WhollyRead
  <2>4. QED
    BY <1>1, <1>4, <2>2, <2>3, SMT
<1>9. QED
  BY <1>3, <1>4, <1>5, <1>6, <1>7, <1>8 DEF Processed, Holds

(* The next m bytes are read.                                                 *)
LEMMA FramedWhenRead ==
  ASSUME NEW s \in Streams, NEW n \in Nat, NEW m \in Nat, n + m <= Len(FlattenSeq(s)),
         NEW h \in 0..Len(s), NEW k \in h..Len(s), NEW b, NEW found,
         Processed(s, n, found, h, k), Holds(s, n, b, k),
         NEW u, u = SubSeq(FlattenSeq(s), n + 1, Len(FlattenSeq(s)))
  PROVE  Processed(s, n + m, found, h, k) /\ Holds(s, n + m, b \o SubSeq(u, 1, m), k)
<1> DEFINE f == FlattenSeq(s)
<1>1. /\ s \in Seq(Seq(Nat)) /\ Len(s) \in Nat /\ f \in Seq(Nat) /\ Len(f) \in Nat
      /\ \A j \in 0..Len(s) : EndOf(s, j) \in Nat
  BY StreamFacts
<1>2. /\ EndOf(s, k) <= n /\ found = SolutionsIn(SubSeq(s, h + 1, k))
      /\ b = SubSeq(f, EndOf(s, k) + 1, n)
  BY DEF Processed, Holds
<1> DEFINE e == EndOf(s, k)
<1>3. k \in 0..Len(s) /\ e \in Nat /\ e <= n
  <2>1. k \in 0..Len(s)
    BY <1>1, SMT
  <2>2. QED
    BY <1>1, <1>2, <2>1
<1>4. b \o SubSeq(u, 1, m) = SubSeq(f, e + 1, n + m)
  <2>1. n + m <= Len(f) /\ u = SubSeq(f, n + 1, Len(f)) /\ b = SubSeq(f, e + 1, n)
    BY <1>2
  <2> HIDE DEF f, e
  <2>2. SubSeq(u, 1, m) = SubSeq(f, n + 1, n + m)
    BY <1>1, <2>1
  <2>3. e + 1 \in 1..(Len(f) + 1) /\ n \in ((e + 1) - 1)..Len(f) /\ n + m \in n..Len(f)
    <3> DEFINE l == Len(f)
    <3>1. l \in Nat /\ e \in Nat /\ e <= n /\ n + m <= l
      BY <1>1, <1>3, <2>1
    <3> HIDE DEF l
    <3>2. e + 1 \in 1..(l + 1) /\ n \in ((e + 1) - 1)..l /\ n + m \in n..l
      BY <3>1, SMT
    <3>3. QED
      BY <3>2 DEF l
  <2>4. SubSeq(f, e + 1, n) \o SubSeq(f, n + 1, n + m) = SubSeq(f, e + 1, n + m)
    BY <1>1, <2>3, ConcatAdjacentSubSeq
  <2>5. QED
    BY <2>1, <2>2, <2>4
<1>5. e <= n + m
  <2> HIDE DEF e
  <2> QED
    BY <1>3, SMT
<1>6. QED
  BY <1>2, <1>4, <1>5 DEF Processed, Holds

(* A part of a sequence.                                                      *)
IsPart(f, e, n, b) ==
    b \in Seq(Nat) /\ Len(b) = n - e /\ Len(b) \in Nat /\ \A j \in 1..Len(b) : b[j] = f[e + j]

LEMMA MiddlePart ==
  ASSUME NEW f \in Seq(Nat), NEW e \in Nat, NEW n \in Nat, e <= n, n <= Len(f),
         NEW b, b = SubSeq(f, e + 1, n)
  PROVE  IsPart(f, e, n, b)
<1>1. \A j \in (e + 1)..n : f[j] \in Nat
  OBVIOUS
<1>2. /\ b \in Seq(Nat) /\ Len(b) = (IF e + 1 <= n THEN n - (e + 1) + 1 ELSE 0)
      /\ \A j \in 1..(n - (e + 1) + 1) : b[j] = f[(e + 1) + j - 1]
  <2> DEFINE m == e + 1
             c == SubSeq(f, m, n)
  <2>1. m \in Int /\ n \in Int /\ \A j \in m..n : f[j] \in Nat
    BY <1>1, SMT
  <2> HIDE DEF m
  <2>2. /\ c \in Seq(Nat) /\ Len(c) = (IF m <= n THEN n - m + 1 ELSE 0)
        /\ \A j \in 1..(n - m + 1) : c[j] = f[m + j - 1]
    BY <2>1, SubSeqProperties
  <2>3. b = c
    BY DEF m
  <2>4. QED
    BY <2>2, <2>3 DEF m
<1>3. Len(b) = n - e
  BY <1>2, SMT
<1>4. n - e \in Nat
  BY SMT
<1>5. ASSUME NEW j \in 1..Len(b)  PROVE b[j] = f[e + j]
  <2>1. j \in 1..(n - e)
    BY <1>3
  <2>2. j \in 1..(n - (e + 1) + 1) /\ (e + 1) + j - 1 = e + j
    BY <2>1, SMT
  <2>3. QED
    BY <1>2, <2>2
<1>6. QED
  BY <1>2, <1>3, <1>4, <1>5 DEF IsPart

LEMMA BackPart ==
  ASSUME NEW f \in Seq(Nat), NEW e \in Nat, NEW n \in Nat, e <= n, n <= Len(f),
         NEW l \in Nat, l <= n - e
  PROVE  SubSeq(SubSeq(f, e + 1, n), l + 1, n - e) = SubSeq(f, (e + l) + 1, n)
OBVIOUS

(* The header in the buffer is that of the next packet.                       *)
BufferAt(s, n, k, b) ==
    /\ b \in Seq(Nat) /\ Len(b) = n - EndOf(s, k) /\ Len(b) \in Nat /\ EndOf(s, k) \in Nat
    /\ \A j \in 1..Len(b) : b[j] = FlattenSeq(s)[EndOf(s, k) + j]
    /\ b # <<>> /\ AllSound(s) =>
         k \in 0..(Len(s) - 1) /\ Size(b) = Len(s[k + 1]) /\ ~Broken(b)
    /\ k < Len(s) =>
         /\ s[k + 1] \in Seq(Nat) /\ Len(s[k + 1]) \in Nat /\ Len(s[k + 1]) >= 2
         /\ EndOf(s, k + 1) = EndOf(s, k) + Len(s[k + 1])
         /\ EndOf(s, k) + Len(s[k + 1]) <= Len(FlattenSeq(s))
         /\ \A j \in 1..Len(s[k + 1]) : FlattenSeq(s)[EndOf(s, k) + j] = s[k + 1][j]

LEMMA BufferFront ==
  ASSUME NEW s \in Streams, NEW n \in Nat, n <= Len(FlattenSeq(s)),
         NEW k \in 0..Len(s), EndOf(s, k) <= n,
         NEW b, b = SubSeq(FlattenSeq(s), EndOf(s, k) + 1, n)
  PROVE  BufferAt(s, n, k, b)
<1> DEFINE e == EndOf(s, k)
<1> DEFINE f == FlattenSeq(s)
<1>1. /\ s \in Seq(Seq(Nat)) /\ Len(s) \in Nat /\ f \in Seq(Nat) /\ Len(f) \in Nat
      /\ e \in Nat /\ EndOf(s, Len(s)) = Len(f) /\ DOMAIN s = 1..Len(s)
  BY StreamFacts
<1>2. b \in Seq(Nat) /\ Len(b) = n - e /\ Len(b) \in Nat /\ \A j \in 1..Len(b) : b[j] = f[e + j]
  <2>1. n <= Len(f) /\ b = SubSeq(f, e + 1, n) /\ e <= n
    OBVIOUS
  <2> HIDE DEF f, e
  <2>2. f \in Seq(Nat) /\ e \in Nat
    BY <1>1
  <2>3. IsPart(f, e, n, b)
    BY <2>1, <2>2, MiddlePart, Zenon
  <2>4. QED
    BY <2>3, Zenon DEF IsPart
<1>3. k = Len(s) => b = <<>>
  <2>1. SUFFICES ASSUME k = Len(s)  PROVE b = <<>>
    OBVIOUS
  <2>2. e = Len(f) /\ n <= Len(f)
    BY <1>1, <2>1
  <2>3. Len(b) = 0
    <3> HIDE DEF f
    <3> QED
      BY <1>1, <1>2, <2>2, SMT
  <2>4. QED
    BY <1>2, <2>3
<1>4. ASSUME k < Len(s)
      PROVE  /\ k \in 0..(Len(s) - 1) /\ k + 1 \in 1..Len(s)
             /\ s[k + 1] \in Seq(Nat) /\ Len(s[k + 1]) \in Nat
             /\ Len(s[k + 1]) >= 2
             /\ EndOf(s, k + 1) = e + Len(s[k + 1])
             /\ e + Len(s[k + 1]) <= Len(f)
             /\ \A j \in 1..Len(s[k + 1]) : f[e + j] = s[k + 1][j]
  <2>1. k \in 0..(Len(s) - 1) /\ k + 1 \in 1..Len(s)
    BY <1>1, <1>4, SMT
  <2>2. /\ s[k + 1] \in Seq(Nat)
        /\ EndOf(s, k + 1) = e + Len(s[k + 1])
        /\ e + Len(s[k + 1]) <= Len(f)
        /\ \A j \in 1..Len(s[k + 1]) : f[e + j] = s[k + 1][j]
    BY <1>1, <2>1, NextPacketBytes, Zenon
  <2>3. Len(s[k + 1]) \in Nat /\ Len(s[k + 1]) >= 2
    BY <2>1, StreamFacts
  <2>4. QED
    BY <2>1, <2>2, <2>3
<1>5. ASSUME b # <<>>, AllSound(s)
      PROVE  k \in 0..(Len(s) - 1) /\ Size(b) = Len(s[k + 1]) /\ ~Broken(b)
  <2>1. k < Len(s)
    <3> DEFINE l == Len(s)
    <3>1. k # l /\ l \in Nat /\ k \in 0..l
      BY <1>1, <1>3, <1>5
    <3> HIDE DEF l
    <3>2. k < l
      BY <3>1, SMT
    <3>3. QED
      BY <3>2 DEF l
  <2>2. 1 \in 1..Len(b)
    <3>1. Len(b) # 0
      BY <1>2, <1>5
    <3>2. QED
      BY <1>2, <3>1, SMT
  <2>3. 1 \in 1..Len(s[k + 1])
    BY <1>4, <2>1, SMT
  <2>4. b[1] = s[k + 1][1]
    BY <1>2, <1>4, <2>1, <2>2, <2>3
  <2>5. Size(b) = Size(s[k + 1])
    BY <2>4 DEF Size
  <2>6. Sound(s[k + 1])
    BY <1>1, <1>4, <1>5, <2>1 DEF AllSound
  <2>7. QED
    BY <1>4, <2>1, <2>5, <2>6 DEF Sound, Broken
<1>6. QED
  <2> HIDE DEF f
  <2>1. \A j \in 1..Len(b) : b[j] = FlattenSeq(s)[EndOf(s, k) + j]
    BY <1>2 DEF f
  <2>2. k < Len(s) =>
          /\ s[k + 1] \in Seq(Nat) /\ Len(s[k + 1]) \in Nat /\ Len(s[k + 1]) >= 2
          /\ EndOf(s, k + 1) = EndOf(s, k) + Len(s[k + 1])
          /\ EndOf(s, k) + Len(s[k + 1]) <= Len(FlattenSeq(s))
          /\ \A j \in 1..Len(s[k + 1]) : FlattenSeq(s)[EndOf(s, k) + j] = s[k + 1][j]
    BY <1>4 DEF f
  <2>3. QED
    BY <1>1, <1>2, <1>5, <2>1, <2>2, Zenon DEF BufferAt

(* processRecvBuffer finds no whole packet and waits for the rest.            *)
LEMMA FramedWhenWaiting ==
  ASSUME NEW s \in Streams, AllSound(s), NEW n \in Nat, n <= Len(FlattenSeq(s)),
         NEW h \in 0..Len(s), NEW k \in h..Len(s), NEW b, NEW found,
         Processed(s, n, found, h, k), Holds(s, n, b, k),
         HasHeader(b) => ~Broken(b) /\ ~Complete(b)
  PROVE  WhollyRead(s, n, k)
<1>1. Len(s) \in Nat
  BY StreamFacts
<1>2. /\ EndOf(s, k) <= n /\ b = SubSeq(FlattenSeq(s), EndOf(s, k) + 1, n)
  BY DEF Processed, Holds
<1>3. k \in 0..Len(s)
  BY <1>1, SMT
<1> DEFINE e == EndOf(s, k)
<1>4. /\ b \in Seq(Nat) /\ Len(b) = n - e /\ Len(b) \in Nat /\ e \in Nat
      /\ b # <<>> => Size(b) = Len(s[k + 1])
      /\ k < Len(s) => /\ Len(s[k + 1]) \in Nat /\ Len(s[k + 1]) >= 2
                       /\ EndOf(s, k + 1) = e + Len(s[k + 1])
  <2>1. BufferAt(s, n, k, b)
    BY <1>2, <1>3, BufferFront
  <2>2. QED
    BY <2>1, Zenon DEF BufferAt
<1>5. ASSUME k < Len(s)  PROVE n < EndOf(s, k + 1)
  <2> DEFINE l == Len(s[k + 1])
  <2>1. Len(b) < l
    <3>1. CASE HasHeader(b)
      <4>1. b # <<>>
        BY <1>4, <3>1 DEF HasHeader, HeaderSize
      <4>2. ~(l <= Len(b))
        BY <1>4, <3>1, <4>1 DEF Complete
      <4>3. l \in Nat
        BY <1>4, <1>5
      <4> HIDE DEF l
      <4>4. QED
        BY <1>4, <4>2, <4>3, SMT
    <3>2. CASE ~HasHeader(b)
      <4>1. l \in Nat /\ l >= 2
        BY <1>4, <1>5
      <4> HIDE DEF l
      <4>2. QED
        BY <1>4, <3>2, <4>1, SMT DEF HasHeader, HeaderSize
    <3>3. QED
      BY <3>1, <3>2
  <2>2. l \in Nat /\ EndOf(s, k + 1) = e + l
    BY <1>4, <1>5
  <2> HIDE DEF l, e
  <2>3. QED
    BY <1>4, <2>1, <2>2, SMT
<1>6. QED
  BY <1>2, <1>5 DEF WhollyRead

(* The header in the buffer is never broken.                                  *)
LEMMA FramedNeverBroken ==
  ASSUME NEW s \in Streams, AllSound(s), NEW n \in Nat, n <= Len(FlattenSeq(s)),
         NEW h \in 0..Len(s), NEW k \in h..Len(s), NEW b, NEW found,
         Processed(s, n, found, h, k), Holds(s, n, b, k), HasHeader(b)
  PROVE  ~Broken(b)
<1>1. Len(s) \in Nat
  BY StreamFacts
<1>2. /\ EndOf(s, k) <= n /\ b = SubSeq(FlattenSeq(s), EndOf(s, k) + 1, n)
  BY DEF Processed, Holds
<1>3. k \in 0..Len(s)
  BY <1>1, SMT
<1>4. b # <<>>
  BY DEF HasHeader, HeaderSize
<1>5. BufferAt(s, n, k, b)
  BY <1>2, <1>3, BufferFront
<1>6. QED
  BY <1>4, <1>5, Zenon DEF BufferAt

(* processRecvBuffer processes the packet at the front of the buffer.         *)
LEMMA FramedWhenProcessed ==
  ASSUME NEW s \in Streams, AllSound(s), NEW n \in Nat, n <= Len(FlattenSeq(s)),
         NEW h \in 0..Len(s), NEW k \in h..Len(s), NEW b, NEW found,
         Processed(s, n, found, h, k), Holds(s, n, b, k),
         HasHeader(b), Complete(b),
         NEW p, p = SubSeq(b, 1, Size(b)),
         NEW more, more = IF IsSolution(p) THEN Append(found, p) ELSE found
  PROVE  k + 1 \in h..Len(s) /\ Processed(s, n, more, h, k + 1) /\ Holds(s, n, Removed(b), k + 1)
<1> DEFINE f == FlattenSeq(s)
<1>1. Len(s) \in Nat /\ s \in Seq(Seq(Nat)) /\ f \in Seq(Nat) /\ Len(f) \in Nat
  BY StreamFacts
<1>2. /\ EndOf(s, k) <= n /\ found = SolutionsIn(SubSeq(s, h + 1, k))
      /\ b = SubSeq(f, EndOf(s, k) + 1, n)
  BY DEF Processed, Holds
<1>3. k \in 0..Len(s)
  BY <1>1, SMT
<1> DEFINE e == EndOf(s, k)
           x == s[k + 1]
<1>4. b # <<>>
  BY DEF HasHeader, HeaderSize
<1>0. BufferAt(s, n, k, b)
  BY <1>2, <1>3, BufferFront
<1>5. /\ b \in Seq(Nat) /\ Len(b) = n - e /\ Len(b) \in Nat /\ e \in Nat
      /\ Size(b) = Len(x) /\ k \in 0..(Len(s) - 1)
  BY <1>0, <1>4, Zenon DEF BufferAt
<1>6. k < Len(s) /\ k + 1 \in h..Len(s) /\ k + 1 \in 1..Len(s) /\ k \in Nat /\ h \in Nat
  BY <1>1, <1>5, SMT
<1>7. /\ x \in Seq(Nat) /\ Len(x) \in Nat
      /\ EndOf(s, k + 1) = e + Len(x) /\ e + Len(x) <= Len(f)
      /\ \A j \in 1..Len(x) : f[e + j] = x[j]
  BY <1>0, <1>6, Zenon DEF BufferAt
<1>8. Len(x) <= Len(b)
  BY <1>5 DEF Complete
<1>9. p = x
  <2>1. p = SubSeq(b, 1, Len(x)) /\ b = SubSeq(f, e + 1, n) /\ n <= Len(f)
    BY <1>2, <1>5
  <2> HIDE DEF x, e, f
  <2>2. \A j \in 1..Len(b) : b[j] = f[e + j]
    BY <1>0 DEF BufferAt, e, f
  <2>3. p \in Seq(Nat) /\ Len(p) = Len(x) /\ \A j \in 1..Len(x) : p[j] = b[j]
    <3>1. Len(x) \in Nat /\ Len(x) <= Len(b) /\ b \in Seq(Nat)
      BY <1>5, <1>7, <1>8
    <3> DEFINE l == Len(x)
    <3> HIDE DEF l
    <3>2. l \in Nat /\ 0 <= l /\ l <= Len(b) /\ p = SubSeq(b, 0 + 1, l) /\ 0 \in Nat
      <4>1. l \in Nat /\ l <= Len(b) /\ p = SubSeq(b, 1, l)
        BY <2>1, <3>1 DEF l
      <4>2. 0 <= l /\ 0 + 1 = 1
        BY <4>1, SMT
      <4>3. QED
        BY <4>1, <4>2
    <3>3. IsPart(b, 0, l, p)
      BY <3>1, <3>2, MiddlePart, Zenon
    <3>4. p \in Seq(Nat) /\ Len(p) = l - 0 /\ \A j \in 1..Len(p) : p[j] = b[0 + j]
      BY <3>3, Zenon DEF IsPart
    <3>5. Len(p) = l
      BY <3>2, <3>4, SMT
    <3>6. ASSUME NEW j \in 1..l  PROVE p[j] = b[j]
      <4>1. 0 + j = j
        BY <3>2, SMT
      <4>2. QED
        BY <3>4, <3>5, <4>1
    <3>7. QED
      BY <3>4, <3>5, <3>6 DEF l
  <2>4. ASSUME NEW j \in 1..Len(x)  PROVE p[j] = x[j]
    <3>1. j \in 1..Len(b)
      BY <1>5, <1>7, <1>8, SMT
    <3>2. QED
      BY <1>7, <2>2, <2>3, <3>1
  <2>5. QED
    BY <1>7, <2>3, <2>4, SeqEqual
<1>10. Removed(b) = SubSeq(f, (e + Len(x)) + 1, n)
  <2>1. Removed(b) = SubSeq(b, Len(x) + 1, Len(b)) /\ b = SubSeq(f, e + 1, n) /\ n <= Len(f)
    BY <1>2, <1>5 DEF Removed
  <2> DEFINE l == Len(x)
  <2>2. l \in Nat /\ l <= n - e /\ Len(b) = n - e
    BY <1>5, <1>7, <1>8
  <2> HIDE DEF x, e, f, l
  <2>3. SubSeq(SubSeq(f, e + 1, n), l + 1, n - e) = SubSeq(f, (e + l) + 1, n)
    BY <1>1, <1>5, <2>1, <2>2, BackPart
  <2>4. QED
    BY <2>1, <2>2, <2>3 DEF l
<1>11. e + Len(x) <= n
  <2> HIDE DEF x, e, f
  <2> QED
    BY <1>5, <1>7, <1>8, SMT
<1>12. SubSeq(s, h + 1, k + 1) = Append(SubSeq(s, h + 1, k), x) /\ SubSeq(s, h + 1, k) \in Seq(Seq(Nat))
  BY <1>1, <1>6, <1>3
<1>13. SolutionsIn(SubSeq(s, h + 1, k + 1)) = IF IsSolution(p) THEN Append(found, p) ELSE found
  <2> DEFINE q == SubSeq(s, h + 1, k)
  <2>1. SolutionsIn(Append(q, x)) = IF IsSolution(x) THEN Append(SolutionsIn(q), x) ELSE SolutionsIn(q)
    <3> HIDE DEF q, x
    <3>1. q \in Seq(Seq(Nat)) /\ x \in Seq(Nat)
      BY <1>7, <1>12 DEF q
    <3>2. QED
      BY <3>1, SolutionsStep
  <2>2. QED
    BY <1>2, <1>9, <1>12, <2>1
<1>14. QED
  <2>1. EndOf(s, k + 1) <= n
    BY <1>7, <1>11
  <2>2. Removed(b) = SubSeq(f, EndOf(s, k + 1) + 1, n)
    BY <1>7, <1>10
  <2>3. QED
    BY <1>6, <1>13, <2>1, <2>2, Zenon DEF Processed, Holds

-----------------------------------------------------------------------------
(* The invariant of one stream, of which n bytes have been read, e of them by *)
(* the handshake: after a handshake between two packets the first k packets   *)
(* have been processed, the rest of what was read is in the buffer of the     *)
(* open connection, and outside of processRecvBuffer it is no whole packet.   *)
Framed(s, n, e, b, found, r, i, f) ==
    AllSound(s) => \A h \in 0..Len(s) : e = EndOf(s, h) =>
      \E k \in h..Len(s) :
        /\ Processed(s, n, found, h, k)
        /\ r = "none" => Holds(s, n, b, k)
        /\ i # f => WhollyRead(s, n, k)

(* The stream is left alone; only a lost connection loses its buffer.         *)
LEMMA FramedKept ==
  ASSUME NEW s, NEW n, NEW e, NEW b, NEW found, NEW r, NEW i, NEW f,
         Framed(s, n, e, b, found, r, i, f),
         NEW b2, NEW r2, NEW f2, r2 = "none" => r = "none" /\ b2 = b, i # f2 => i # f
  PROVE  Framed(s, n, e, b2, found, r2, i, f2)
<1> SUFFICES ASSUME AllSound(s), NEW h \in 0..Len(s), e = EndOf(s, h)
             PROVE  \E k \in h..Len(s) :
                      /\ Processed(s, n, found, h, k)
                      /\ r2 = "none" => Holds(s, n, b2, k)
                      /\ i # f2 => WhollyRead(s, n, k)
  BY Zenon DEF Framed
<1>1. PICK k \in h..Len(s) : /\ Processed(s, n, found, h, k)
                             /\ r = "none" => Holds(s, n, b, k)
                             /\ i # f => WhollyRead(s, n, k)
  BY Zenon DEF Framed
<1>2. r2 = "none" => Holds(s, n, b2, k)
  BY <1>1, Zenon
<1>3. QED
  BY <1>1, <1>2, Zenon

(* The handshake is over.                                                     *)
LEMMA FramedStart ==
  ASSUME NEW s \in Streams, NEW n, NEW r, NEW i, NEW f
  PROVE  Framed(s, n, n, <<>>, <<>>, r, i, f)
<1> SUFFICES ASSUME NEW h \in 0..Len(s), n = EndOf(s, h)
             PROVE  \E k \in h..Len(s) :
                      /\ Processed(s, n, <<>>, h, k)
                      /\ r = "none" => Holds(s, n, <<>>, k)
                      /\ i # f => WhollyRead(s, n, k)
  BY Zenon DEF Framed
<1>1. /\ h \in h..Len(s) /\ Processed(s, n, <<>>, h, h) /\ Holds(s, n, <<>>, h)
      /\ WhollyRead(s, n, h)
  BY FramedAfterHandshake, Zenon
<1>2. QED
  BY <1>1, Zenon

(* ReadSocket.                                                                *)
LEMMA FramedRead ==
  ASSUME NEW s \in Streams, NEW n \in Nat, NEW m \in Nat, n + m <= Len(FlattenSeq(s)),
         NEW e, NEW b, NEW found, NEW r, r = "none", NEW i, NEW f,
         Framed(s, n, e, b, found, r, i, f),
         NEW u, u = SubSeq(FlattenSeq(s), n + 1, Len(FlattenSeq(s)))
  PROVE  Framed(s, n + m, e, b \o SubSeq(u, 1, m), found, r, i, i)
<1> SUFFICES ASSUME AllSound(s), NEW h \in 0..Len(s), e = EndOf(s, h)
             PROVE  \E k \in h..Len(s) : /\ Processed(s, n + m, found, h, k)
                                         /\ Holds(s, n + m, b \o SubSeq(u, 1, m), k)
  BY Zenon DEF Framed
<1>1. PICK k \in h..Len(s) : Processed(s, n, found, h, k) /\ Holds(s, n, b, k)
  BY Zenon DEF Framed
<1>2. Processed(s, n + m, found, h, k) /\ Holds(s, n + m, b \o SubSeq(u, 1, m), k)
  BY <1>1, FramedWhenRead, Zenon
<1>3. QED
  BY <1>2, Zenon

(* WaitForRest.                                                               *)
LEMMA FramedWait ==
  ASSUME NEW s \in Streams, NEW n \in Nat, n <= Len(FlattenSeq(s)),
         NEW e, NEW b, NEW found, NEW r, r = "none", NEW i, NEW f,
         Framed(s, n, e, b, found, r, i, f),
         HasHeader(b) => ~Broken(b) /\ ~Complete(b), NEW f2
  PROVE  Framed(s, n, e, b, found, r, i, f2)
<1> SUFFICES ASSUME AllSound(s), NEW h \in 0..Len(s), e = EndOf(s, h)
             PROVE  \E k \in h..Len(s) : /\ Processed(s, n, found, h, k)
                                         /\ Holds(s, n, b, k) /\ WhollyRead(s, n, k)
  BY Zenon DEF Framed
<1>1. PICK k \in h..Len(s) : Processed(s, n, found, h, k) /\ Holds(s, n, b, k)
  BY Zenon DEF Framed
<1>2. WhollyRead(s, n, k)
  BY <1>1, FramedWhenWaiting, Zenon
<1>3. QED
  BY <1>1, <1>2, Zenon

(* DropBuffer happens only when a header of the stream is wrong.              *)
LEMMA FramedDrop ==
  ASSUME NEW s \in Streams, NEW n \in Nat, n <= Len(FlattenSeq(s)),
         NEW e, NEW b, NEW found, NEW r, r = "none", NEW i, NEW f,
         Framed(s, n, e, b, found, r, i, f),
         HasHeader(b), Broken(b), NEW b2, NEW f2
  PROVE  Framed(s, n, e, b2, found, r, i, f2)
<1> SUFFICES ASSUME AllSound(s), NEW h \in 0..Len(s), e = EndOf(s, h)
             PROVE  FALSE
  BY Zenon DEF Framed
<1>1. PICK k \in h..Len(s) : Processed(s, n, found, h, k) /\ Holds(s, n, b, k)
  BY Zenon DEF Framed
<1>2. QED
  BY <1>1, FramedNeverBroken, Zenon

(* ProcessPacket.                                                             *)
LEMMA FramedNext ==
  ASSUME NEW s \in Streams, NEW n \in Nat, n <= Len(FlattenSeq(s)),
         NEW e, NEW b, NEW found, NEW r, r = "none", NEW i,
         Framed(s, n, e, b, found, r, i, i),
         HasHeader(b), Complete(b),
         NEW p, p = SubSeq(b, 1, Size(b)),
         NEW more, more = IF IsSolution(p) THEN Append(found, p) ELSE found
  PROVE  Framed(s, n, e, Removed(b), more, r, i, i)
<1> SUFFICES ASSUME AllSound(s), NEW h \in 0..Len(s), e = EndOf(s, h)
             PROVE  \E k \in h..Len(s) : /\ Processed(s, n, more, h, k)
                                         /\ Holds(s, n, Removed(b), k)
  BY Zenon DEF Framed
<1>1. PICK k \in h..Len(s) : Processed(s, n, found, h, k) /\ Holds(s, n, b, k)
  BY Zenon DEF Framed
<1>2. /\ k + 1 \in h..Len(s) /\ Processed(s, n, more, h, k + 1)
      /\ Holds(s, n, Removed(b), k + 1)
  BY <1>1, FramedWhenProcessed, Zenon
<1>3. QED
  BY <1>2, Zenon

(* SendPacket: the handshake cannot have ended behind a packet not yet read.  *)
LEMMA FramedLonger ==
  ASSUME NEW s \in Streams, NEW x \in Seq(Nat), Len(x) >= HeaderSize,
         NEW t, t = Append(s, x),
         NEW n \in Nat, n <= Len(FlattenSeq(s)), NEW e \in Nat, e <= n,
         NEW b, NEW found, NEW r, NEW i, NEW f,
         Framed(s, n, e, b, found, r, i, f)
  PROVE  Framed(t, n, e, b, found, r, i, f)
<1>0. /\ s \in Seq(Seq(Nat)) /\ Len(s) \in Nat /\ DOMAIN s = 1..Len(s)
      /\ Len(FlattenSeq(s)) \in Nat /\ Len(x) \in Nat /\ Len(x) >= 2
  BY StreamFacts, LenProperties DEF HeaderSize
<1>1. /\ t \in Seq(Seq(Nat)) /\ Len(t) = Len(s) + 1
      /\ \A j \in 1..Len(s) : t[j] = s[j]
      /\ \A j \in 0..Len(s) : EndOf(t, j) = EndOf(s, j)
      /\ EndOf(t, Len(t)) = Len(FlattenSeq(s)) + Len(x)
  <2>1. Lengthened(s, x, t)
    BY <1>0, AppendedPacket
  <2>2. QED
    BY <2>1, Zenon DEF Lengthened
<1> SUFFICES ASSUME AllSound(t), NEW h \in 0..Len(t), e = EndOf(t, h)
             PROVE  \E k \in h..Len(t) :
                      /\ Processed(t, n, found, h, k)
                      /\ r = "none" => Holds(t, n, b, k)
                      /\ i # f => WhollyRead(t, n, k)
  BY Zenon DEF Framed
<1>2. AllSound(s)
  <2>1. DOMAIN t = 1..Len(t)
    BY <1>1
  <2>2. ASSUME NEW j \in 1..Len(s)  PROVE j \in 1..Len(t)
    BY <1>0, <1>1, SMT
  <2>3. QED
    BY <1>0, <1>1, <2>1, <2>2, Zenon DEF AllSound
<1>3. h # Len(t)
  <2> DEFINE m == Len(FlattenSeq(s))
             l == Len(x)
  <2>1. m \in Nat /\ l \in Nat /\ l >= 2 /\ e <= n /\ n <= m
    BY <1>0
  <2> HIDE DEF m, l
  <2>2. e # m + l
    BY <2>1, SMT
  <2>3. QED
    BY <1>1, <2>2 DEF m, l
<1>4. h \in 0..Len(s)
  BY <1>0, <1>1, <1>3, SMT
<1>5. e = EndOf(s, h)
  BY <1>1, <1>4, Zenon
<1>6. PICK k \in h..Len(s) : /\ Processed(s, n, found, h, k)
                             /\ r = "none" => Holds(s, n, b, k)
                             /\ i # f => WhollyRead(s, n, k)
  BY <1>2, <1>4, <1>5, Zenon DEF Framed
<1>7. /\ k \in h..Len(t) /\ Processed(t, n, found, h, k)
      /\ Holds(s, n, b, k) => Holds(t, n, b, k)
      /\ WhollyRead(s, n, k) => WhollyRead(t, n, k)
  BY <1>4, <1>6, FramedWhenSent, Zenon
<1>8. QED
  BY <1>6, <1>7, Zenon

-----------------------------------------------------------------------------
(* What the variables of the streams hold: no more is read than was sent, and *)
(* a buffer is processed only between poll() and the end of the cycle.        *)
StreamTypes ==
    /\ sent \in [Peers -> Streams]
    /\ taken \in [Peers -> Nat] /\ handshaken \in [Peers -> Nat]
    /\ DOMAIN solutions = Peers
    /\ \A i \in Peers : handshaken[i] <= taken[i] /\ taken[i] <= Len(FlattenSeq(sent[i]))
    /\ framing # N => framing \in polled /\ pc = "poll"

StreamInv(i) ==
    Framed(sent[i], taken[i], handshaken[i], recvBuffers[i], solutions[i], retry[i], i, framing)

(* A connection whose handshake is under way has processed nothing; every     *)
(* other one is framed.                                                       *)
StreamsFramed ==
    \A i \in Peers :
      /\ Handshaking(i) => recvBuffers[i] = <<>> /\ solutions[i] = <<>>
      /\ ~Handshaking(i) => StreamInv(i)

FramingInv == PacketsInv /\ StreamTypes /\ StreamsFramed

LEMMA PacketFacts ==
  ASSUME NEW p \in Packets
  PROVE  p \in Seq(Nat) /\ Len(p) >= HeaderSize
  BY PacketsAssumption

LEMMA EmptyStream == <<>> \in Streams /\ FlattenSeq(<<>>) = <<>>
  BY DEF Streams, FlattenSeq

(* The bytes not yet read.                                                    *)
LEMMA UnreadBytes ==
  ASSUME StreamTypes, NEW i \in Peers
  PROVE  /\ Unread(i) \in Seq(Nat)
         /\ Len(Unread(i)) = Len(FlattenSeq(sent[i])) - taken[i]
         /\ Len(Unread(i)) \in Nat
<1> DEFINE f == FlattenSeq(sent[i])
           n == taken[i]
           u == Unread(i)
<1>1. sent[i] \in Streams /\ n \in Nat /\ n <= Len(f)
  BY DEF StreamTypes
<1>2. f \in Seq(Nat) /\ Len(f) \in Nat
  BY <1>1, StreamFacts
<1>3. u = SubSeq(f, n + 1, Len(f)) /\ Len(f) <= Len(f)
  <2>1. u = SubSeq(f, n + 1, Len(f))
    BY Zenon DEF Unread
  <2> HIDE DEF f, u
  <2>2. QED
    BY <1>2, <2>1, SMT
<1> HIDE DEF f, n, u
<1>4. IsPart(f, n, Len(f), u)
  BY <1>1, <1>2, <1>3, MiddlePart, Zenon
<1>5. QED
  BY <1>4 DEF IsPart, f, n, u

LEMMA FramingInitially == PacketsInit => FramingInv
<1> SUFFICES ASSUME PacketsInit  PROVE FramingInv
  OBVIOUS
<1>1. PacketsInv
  BY PacketsInitially
<1>2. /\ sent = [i \in Peers |-> <<>>] /\ taken = [i \in Peers |-> 0]
      /\ handshaken = [i \in Peers |-> 0] /\ recvBuffers = [i \in Peers |-> <<>>]
      /\ framing = N /\ solutions = [i \in Peers |-> <<>>] /\ pc = "reconnect"
  BY Zenon DEF PacketsInit, PeersInit
<1>3. StreamTypes
  BY <1>2, EmptyStream DEF StreamTypes
<1>4. ASSUME NEW i \in Peers  PROVE ~Handshaking(i) /\ StreamInv(i)
  <2>1. ~Handshaking(i)
    BY <1>2 DEF Handshaking
  <2>2. Framed(<<>>, 0, 0, <<>>, <<>>, retry[i], i, framing)
    BY EmptyStream, FramedStart, Zenon
  <2>3. /\ sent[i] = <<>> /\ taken[i] = 0 /\ handshaken[i] = 0 /\ recvBuffers[i] = <<>>
        /\ solutions[i] = <<>>
    BY <1>2
  <2>4. QED
    BY <2>1, <2>2, <2>3, Zenon DEF StreamInv
<1>5. QED
  BY <1>1, <1>3, <1>4, Zenon DEF FramingInv, StreamsFramed

(* A step that leaves stream i alone keeps its invariant.                     *)
LEMMA StreamKept ==
  ASSUME NEW i, StreamInv(i),
         sent'[i] = sent[i], taken'[i] = taken[i], handshaken'[i] = handshaken[i],
         solutions'[i] = solutions[i],
         retry'[i] = "none" => retry[i] = "none" /\ recvBuffers'[i] = recvBuffers[i],
         i # framing' => i # framing
  PROVE  StreamInv(i)'
<1> DEFINE s == sent[i]
           n == taken[i]
           e == handshaken[i]
           b == recvBuffers[i]
           found == solutions[i]
           r == retry[i]
           f == framing
           b2 == recvBuffers'[i]
           r2 == retry'[i]
           f2 == framing'
<1>1. Framed(s, n, e, b, found, r, i, f)
  BY Zenon DEF StreamInv
<1>2. (r2 = "none" => r = "none" /\ b2 = b) /\ (i # f2 => i # f)
  OBVIOUS
<1>3. Framed(s, n, e, b2, found, r2, i, f2)
  <2> HIDE DEF s, n, e, b, found, r, f, b2, r2, f2
  <2> QED
    BY <1>1, <1>2, FramedKept, Zenon
<1>4. QED
  BY <1>3, Zenon DEF StreamInv

(* The steps that leave every stream alone: if any handshake is under way, it *)
(* was and has received nothing else.                                         *)
LEMMA AllStreamsKept ==
  ASSUME FramingInv, UNCHANGED <<sent, taken, handshaken, solutions>>,
         framing' = framing \/ framing' = N,
         framing # N => pc' = pc /\ polled' = polled,
         \A i \in Peers : /\ Handshaking(i)' <=> Handshaking(i)
                          /\ Handshaking(i) => recvBuffers'[i] = recvBuffers[i]
                          /\ retry'[i] = "none" =>
                               retry[i] = "none" /\ recvBuffers'[i] = recvBuffers[i]
                          /\ i # framing' => i # framing
  PROVE  StreamTypes' /\ StreamsFramed'
<1>1. StreamTypes /\ StreamsFramed
  BY DEF FramingInv
<1>2. StreamTypes'
  <2>1. framing' # N => framing' \in polled' /\ pc' = "poll"
    BY <1>1 DEF StreamTypes
  <2>2. QED
    BY <1>1, <2>1 DEF StreamTypes
<1>3. ASSUME NEW i \in Peers
      PROVE  /\ Handshaking(i)' => recvBuffers'[i] = <<>> /\ solutions'[i] = <<>>
             /\ ~Handshaking(i)' => StreamInv(i)'
  <2>1. CASE Handshaking(i)
    BY <1>1, <2>1, Zenon DEF StreamsFramed
  <2>2. CASE ~Handshaking(i)
    <3>1. StreamInv(i)
      BY <1>1, <2>2, Zenon DEF StreamsFramed
    <3>2. StreamInv(i)'
      BY <3>1, StreamKept
    <3>3. QED
      BY <2>2, <3>2, Zenon
  <2>3. QED
    BY <2>1, <2>2
<1>4. QED
  BY <1>2, <1>3, Zenon DEF StreamsFramed

(* What the invariants say of the parts that a step reads.                    *)
LEMMA FramingFacts ==
  ASSUME FramingInv
  PROVE  /\ PeersInv /\ PacketsInv /\ StreamTypes /\ StreamsFramed
         /\ attempt \in Peers /\ polled \subseteq Peers
         /\ DOMAIN retry = Peers /\ DOMAIN recvBuffers = Peers /\ DOMAIN sent = Peers
         /\ DOMAIN taken = Peers /\ DOMAIN handshaken = Peers /\ DOMAIN solutions = Peers
         /\ framing # N => framing \in Peers /\ retry[framing] = "none" /\ pc = "poll"
         /\ N \notin Peers
<1>1. PeersInv /\ PacketsInv /\ StreamTypes /\ StreamsFramed
  BY DEF FramingInv, PacketsInv
<1>2. attempt \in Peers /\ polled \subseteq Peers /\ DOMAIN retry = Peers
  BY <1>1 DEF PeersInv, PeersTypeOK
<1>3. framing # N => framing \in Peers /\ retry[framing] = "none" /\ pc = "poll"
  BY <1>1, ReadsOnlyOpen DEF StreamTypes
<1>4. N \notin Peers
  BY PeersAssumption DEF Peers
<1>5. QED
  BY <1>1, <1>2, <1>3, <1>4 DEF PacketsInv, StreamTypes

LEMMA FramingOpenStream ==
  ASSUME FramingInv, OpenStream
  PROVE  StreamTypes' /\ StreamsFramed'
<1> DEFINE due == NextDue
<1>1. /\ PeersInv /\ PacketsInv /\ StreamTypes /\ StreamsFramed /\ polled \subseteq Peers
      /\ DOMAIN recvBuffers = Peers /\ DOMAIN sent = Peers
      /\ DOMAIN taken = Peers /\ DOMAIN handshaken = Peers /\ DOMAIN solutions = Peers
      /\ framing # N => pc = "poll"
  BY FramingFacts
<1>2. /\ pc = "reconnect" /\ Due # {} /\ pc' = "handshake" /\ attempt' = due
      /\ sent' = [sent EXCEPT ![due] = <<>>]
      /\ taken' = [taken EXCEPT ![due] = 0]
      /\ handshaken' = [handshaken EXCEPT ![due] = 0]
      /\ solutions' = [solutions EXCEPT ![due] = <<>>]
      /\ UNCHANGED <<recvBuffers, framing, retry, polled>>
  BY Zenon DEF OpenStream, Connected
<1>3. due \in Peers /\ retry[due] = "ready"
  BY <1>1, <1>2, DuePeer
<1>4. recvBuffers[due] = <<>>
  BY <1>1, <1>3 DEF PacketsInv, RetriesWithEmptyBuffer
<1> HIDE DEF due
<1>5. StreamTypes'
  <2>1. framing' = N
    BY <1>1, <1>2
  <2>2. sent' \in [Peers -> Streams] /\ taken' \in [Peers -> Nat] /\ handshaken' \in [Peers -> Nat]
    BY <1>1, <1>2, EmptyStream DEF StreamTypes
  <2>3. ASSUME NEW i \in Peers
        PROVE  handshaken'[i] <= taken'[i] /\ taken'[i] <= Len(FlattenSeq(sent'[i]))
    <3>1. CASE i = due
      <4>1. sent'[i] = <<>> /\ taken'[i] = 0 /\ handshaken'[i] = 0
        BY <1>1, <1>2, <1>3, <3>1
      <4>2. Len(FlattenSeq(sent'[i])) = 0
        BY <4>1, EmptyStream
      <4>3. QED
        BY <4>1, <4>2
    <3>2. CASE i # due
      BY <1>1, <1>2, <3>2 DEF StreamTypes
    <3>3. QED
      BY <3>1, <3>2
  <2>4. DOMAIN solutions' = Peers
    BY <1>1, <1>2
  <2>5. QED
    BY <2>1, <2>2, <2>3, <2>4 DEF StreamTypes
<1>6. ASSUME NEW i \in Peers
      PROVE  /\ Handshaking(i)' => recvBuffers'[i] = <<>> /\ solutions'[i] = <<>>
             /\ ~Handshaking(i)' => StreamInv(i)'
  <2>1. CASE i = due
    <3>1. Handshaking(i)'
      BY <1>2, <2>1 DEF Handshaking
    <3>2. recvBuffers'[i] = <<>> /\ solutions'[i] = <<>>
      BY <1>1, <1>2, <1>3, <1>4, <2>1
    <3>3. QED
      BY <3>1, <3>2
  <2>2. CASE i # due
    <3>1. ~Handshaking(i) /\ ~Handshaking(i)'
      BY <1>2, <2>2 DEF Handshaking
    <3>2. StreamInv(i)
      BY <1>1, <3>1, Zenon DEF StreamsFramed
    <3>3. /\ sent'[i] = sent[i] /\ taken'[i] = taken[i] /\ handshaken'[i] = handshaken[i]
          /\ solutions'[i] = solutions[i] /\ retry'[i] = retry[i]
          /\ recvBuffers'[i] = recvBuffers[i] /\ framing' = framing
      BY <1>1, <1>2, <2>2
    <3>4. StreamInv(i)'
      BY <3>2, <3>3, StreamKept, Zenon
    <3>5. QED
      BY <3>1, <3>4
  <2>3. QED
    BY <2>1, <2>2
<1>7. QED
  BY <1>5, <1>6, Zenon DEF StreamsFramed

(* The bytes that a receive of the handshake takes have been sent.            *)
LEMMA LeastOfTwo ==
  ASSUME NEW n \in Nat, NEW m \in Nat
  PROVE  Min({n, m}) \in Nat /\ Min({n, m}) <= n
<1> DEFINE c == CHOOSE x \in {n, m} : \A y \in {n, m} : x <= y
<1>1. \E x \in {n, m} : \A y \in {n, m} : x <= y
  <2>1. CASE n <= m
    BY <2>1
  <2>2. CASE ~(n <= m)
    BY <2>2
  <2>3. QED
    BY <2>1, <2>2
<1>2. c \in {n, m} /\ \A y \in {n, m} : c <= y
  BY <1>1, Zenon
<1>3. Min({n, m}) = c
  BY Zenon DEF Min
<1> HIDE DEF c
<1>4. QED
  BY <1>2, <1>3

LEMMA GreatestOfTwo ==
  ASSUME NEW m \in Int
  PROVE  Max({m, 0}) \in Nat
<1> DEFINE c == CHOOSE x \in {m, 0} : \A y \in {m, 0} : x >= y
<1>1. \E x \in {m, 0} : \A y \in {m, 0} : x >= y
  <2>1. CASE m >= 0
    BY <2>1
  <2>2. CASE ~(m >= 0)
    BY <2>2
  <2>3. QED
    BY <2>1, <2>2
<1>2. c \in {m, 0} /\ \A y \in {m, 0} : c >= y
  BY <1>1, Zenon
<1>3. Max({m, 0}) = c
  BY Zenon DEF Max
<1> HIDE DEF c
<1>4. QED
  BY <1>2, <1>3

LEMMA TakenWithin ==
  ASSUME FramingInv, NEW n \in 1..Len(Unread(attempt)), HandshakeRead(n)
  PROVE  \E d \in 0..n : taken' = [taken EXCEPT ![attempt] = @ + d]
<1> DEFINE u == Unread(attempt)
           left == Size(u) - HeaderSize
           m == n - HeaderSize
           d == HeaderSize + ReadBehind(u, left, m)
<1>1. attempt \in Peers /\ StreamTypes
  BY FramingFacts
<1>2. u \in Seq(Nat) /\ Len(u) \in Nat
  BY <1>1, UnreadBytes
<1>3. n \in Nat /\ n <= Len(u) /\ n >= 1
  <2> DEFINE l == Len(u)
  <2>1. l \in Nat /\ n \in 1..l
    BY <1>2
  <2> HIDE DEF l
  <2>2. QED
    BY <2>1, SMT DEF l
<1>4. CASE n < HeaderSize
  <2>1. taken' = [taken EXCEPT ![attempt] = @ + n]
    BY <1>4, Zenon DEF HandshakeRead
  <2>2. n \in 0..n
    BY <1>3, SMT
  <2>3. QED
    BY <2>1, <2>2, Zenon
<1>5. CASE ~(n < HeaderSize)
  <2>1. AfterHeader(u, left, m)
    BY <1>5, Zenon DEF HandshakeRead
  <2>2. u[1] \in Nat
    BY <1>2, <1>3
  <2>3. left \in Int /\ m \in Nat
    <3>1. Size(u) \in Nat
      <4> HIDE DEF u
      <4> QED
        BY <2>2, PacketsAssumption DEF Size
    <3> HIDE DEF u
    <3>2. QED
      BY <1>3, <1>5, <3>1, SMT DEF HeaderSize
  <2> HIDE DEF u, left
  <2>4. Max({left, 0}) \in Nat
    BY <2>3, GreatestOfTwo
  <2> DEFINE c == ReadBehind(u, left, m)
  <2>5. c \in Nat /\ c <= m
    <3> HIDE DEF m
    <3>1. Min({m, Max({left, 0})}) \in Nat /\ Min({m, Max({left, 0})}) <= m
      BY <2>3, <2>4, LeastOfTwo
    <3>2. CASE Type(u) = Expected /\ left < 0
      BY <2>3, <3>2 DEF ReadBehind
    <3>3. CASE ~(Type(u) = Expected /\ left < 0)
      <4>1. c = Min({m, Max({left, 0})})
        BY <3>3, Zenon DEF ReadBehind
      <4>2. QED
        BY <3>1, <4>1
    <3>4. QED
      BY <3>2, <3>3
  <2>6. c \in Nat /\ c <= n - 2 /\ d = 2 + c
    BY <2>5 DEF HeaderSize
  <2> HIDE DEF c
  <2>7. HeaderSize \in 0..n /\ d \in 0..n
    <3>1. 2 \in 0..n /\ 2 + c \in 0..n
      BY <1>3, <1>5, <2>6, SMT DEF HeaderSize
    <3>2. QED
      BY <2>6, <3>1 DEF HeaderSize
  <2>8. CASE EndsReceive(u, left)
    <3>1. taken' = [taken EXCEPT ![attempt] = @ + HeaderSize]
      BY <2>1, <2>8, Zenon DEF AfterHeader
    <3>2. QED
      BY <2>7, <3>1, Zenon
  <2>9. CASE ~EndsReceive(u, left)
    <3>1. taken' = [taken EXCEPT ![attempt] = @ + HeaderSize + ReadBehind(u, left, m)]
      BY <2>1, <2>9, Zenon DEF AfterHeader
    <3>2. taken[attempt] \in Nat
      BY <1>1 DEF StreamTypes
    <3>3. taken[attempt] + HeaderSize + ReadBehind(u, left, m) = taken[attempt] + d
      <4> DEFINE q == taken[attempt]
      <4>1. q \in Nat
        BY <3>2
      <4> HIDE DEF q
      <4>2. q + 2 + c = q + (2 + c)
        BY <2>6, <4>1, SMT
      <4>3. QED
        BY <4>2 DEF HeaderSize, q, c
    <3> HIDE DEF d
    <3>4. taken' = [taken EXCEPT ![attempt] = @ + d]
      BY <3>1, <3>3, Zenon
    <3>5. QED
      BY <2>7, <3>4, Zenon
  <2>10. QED
    BY <2>8, <2>9
<1>6. QED
  BY <1>4, <1>5

LEMMA FramingHandshakeRead ==
  ASSUME FramingInv, NEW n \in 1..Len(Unread(attempt)), HandshakeRead(n)
  PROVE  StreamTypes' /\ StreamsFramed'
<1>1. /\ StreamTypes /\ StreamsFramed /\ attempt \in Peers
      /\ DOMAIN taken = Peers
  BY FramingFacts
<1>2. /\ Handshaking(attempt)
      /\ UNCHANGED <<pc, retry, polled, attempt, sent, handshaken, recvBuffers, framing, solutions>>
  BY Zenon DEF HandshakeRead, vars
<1>3. PICK d \in 0..n : taken' = [taken EXCEPT ![attempt] = @ + d]
  BY TakenWithin
<1>4. /\ taken[attempt] \in Nat /\ d \in Nat
      /\ taken[attempt] + d <= Len(FlattenSeq(sent[attempt]))
  <2> DEFINE l == Len(Unread(attempt))
             m == Len(FlattenSeq(sent[attempt]))
             q == taken[attempt]
  <2>1. l \in Nat /\ l = m - q
    BY <1>1, UnreadBytes
  <2>2. n \in 1..l /\ d \in 0..n
    OBVIOUS
  <2>3. q \in Nat /\ m \in Nat
    BY <1>1, StreamFacts DEF StreamTypes
  <2> HIDE DEF l, m, q
  <2>4. q + d <= m /\ d \in Nat
    BY <2>1, <2>2, <2>3, SMT
  <2>5. QED
    BY <2>3, <2>4 DEF m, q
<1>5. taken' \in [Peers -> Nat]
  <2>1. taken[attempt] + d \in Nat
    BY <1>4, SMT
  <2>2. QED
    BY <1>1, <1>3, <2>1 DEF StreamTypes
<1>6. ASSUME NEW i \in Peers
      PROVE  handshaken[i] <= taken'[i] /\ taken'[i] <= Len(FlattenSeq(sent[i]))
  <2>0. handshaken[i] \in Nat /\ handshaken[i] <= taken[i] /\ taken[i] <= Len(FlattenSeq(sent[i]))
    BY <1>1 DEF StreamTypes
  <2>1. CASE i = attempt
    <3>1. taken'[i] = taken[i] + d
      BY <1>1, <1>3, <2>1
    <3>2. handshaken[i] <= taken[i] + d
      BY <1>4, <2>0, <2>1, SMT
    <3>3. QED
      BY <1>4, <2>1, <3>1, <3>2
  <2>2. CASE i # attempt
    BY <1>1, <1>3, <2>0, <2>2
  <2>3. QED
    BY <2>1, <2>2
<1>7. StreamTypes'
  BY <1>1, <1>2, <1>5, <1>6 DEF StreamTypes
<1>8. ASSUME NEW i \in Peers
      PROVE  /\ Handshaking(i)' => recvBuffers'[i] = <<>> /\ solutions'[i] = <<>>
             /\ ~Handshaking(i)' => StreamInv(i)'
  <2>1. CASE i = attempt
    <3>1. Handshaking(i) /\ Handshaking(i)'
      BY <1>2, <2>1 DEF Handshaking
    <3>2. QED
      BY <1>1, <1>2, <3>1, Zenon DEF StreamsFramed
  <2>2. CASE i # attempt
    <3>1. ~Handshaking(i) /\ ~Handshaking(i)'
      BY <1>2, <2>2 DEF Handshaking
    <3>2. StreamInv(i)
      BY <1>1, <3>1, Zenon DEF StreamsFramed
    <3>3. /\ sent'[i] = sent[i] /\ taken'[i] = taken[i] /\ handshaken'[i] = handshaken[i]
          /\ solutions'[i] = solutions[i] /\ retry'[i] = retry[i]
          /\ recvBuffers'[i] = recvBuffers[i] /\ framing' = framing
      BY <1>1, <1>2, <1>3, <2>2
    <3>4. StreamInv(i)'
      BY <3>2, <3>3, StreamKept, Zenon
    <3>5. QED
      BY <3>1, <3>4
  <2>3. QED
    BY <2>1, <2>2
<1>9. QED
  BY <1>7, <1>8, Zenon DEF StreamsFramed

LEMMA FramingEndHandshake ==
  ASSUME FramingInv, EndHandshake
  PROVE  StreamTypes' /\ StreamsFramed'
<1>1. /\ StreamTypes /\ StreamsFramed /\ attempt \in Peers
      /\ DOMAIN handshaken = Peers /\ DOMAIN retry = Peers
      /\ framing # N => pc = "poll"
  BY FramingFacts
<1>2. /\ pc = "computors" /\ pc' = "poll"
      /\ retry' = [retry EXCEPT ![attempt] = "none"]
      /\ handshaken' = [handshaken EXCEPT ![attempt] = taken[attempt]]
      /\ UNCHANGED <<sent, taken, recvBuffers, framing, solutions, attempt>>
  BY Zenon DEF EndHandshake, HandshakeDone, ResetRetry
<1>3. framing = N /\ Handshaking(attempt) /\ \A i : ~Handshaking(i)'
  BY <1>1, <1>2 DEF Handshaking
<1>4. StreamTypes'
  <2>1. taken[attempt] \in Nat /\ sent[attempt] \in Streams
    BY <1>1 DEF StreamTypes
  <2>2. handshaken' \in [Peers -> Nat]
    BY <1>1, <1>2, <2>1 DEF StreamTypes
  <2>3. ASSUME NEW i \in Peers  PROVE handshaken'[i] <= taken[i] /\ taken[i] <= Len(FlattenSeq(sent[i]))
    <3>0. /\ handshaken[i] <= taken[i] /\ taken[i] <= Len(FlattenSeq(sent[i]))
          /\ taken[i] \in Nat
      BY <1>1 DEF StreamTypes
    <3>1. handshaken'[i] = taken[i] \/ handshaken'[i] = handshaken[i]
      BY <1>1, <1>2
    <3>2. taken[i] <= taken[i]
      BY <3>0, SMT
    <3>3. QED
      BY <3>0, <3>1, <3>2
  <2>4. QED
    BY <1>1, <1>2, <1>3, <2>2, <2>3 DEF StreamTypes
<1>5. ASSUME NEW i \in Peers  PROVE StreamInv(i)'
  <2>1. CASE i = attempt
    <3>1. recvBuffers[i] = <<>> /\ solutions[i] = <<>> /\ sent[i] \in Streams
      BY <1>1, <1>3, <2>1 DEF StreamsFramed, StreamTypes
    <3>2. /\ handshaken'[i] = taken[i] /\ sent'[i] = sent[i] /\ taken'[i] = taken[i]
          /\ recvBuffers'[i] = <<>> /\ solutions'[i] = <<>>
      BY <1>1, <1>2, <2>1, <3>1
    <3> DEFINE r2 == retry'[i]
               f2 == framing'
               s == sent[i]
               n == taken[i]
    <3>3. Framed(s, n, n, <<>>, <<>>, r2, i, f2)
      <4>1. s \in Streams
        BY <3>1
      <4> HIDE DEF r2, f2, s, n
      <4>2. QED
        BY <4>1, FramedStart, Zenon
    <3>4. QED
      BY <3>2, <3>3, Zenon DEF StreamInv
  <2>2. CASE i # attempt
    <3>1. ~Handshaking(i)
      BY <2>2 DEF Handshaking
    <3>2. StreamInv(i)
      BY <1>1, <3>1, Zenon DEF StreamsFramed
    <3>3. /\ sent'[i] = sent[i] /\ taken'[i] = taken[i] /\ handshaken'[i] = handshaken[i]
          /\ solutions'[i] = solutions[i] /\ retry'[i] = retry[i]
          /\ recvBuffers'[i] = recvBuffers[i] /\ framing' = framing
      BY <1>1, <1>2, <2>2
    <3>4. QED
      BY <3>2, <3>3, StreamKept, Zenon
  <2>3. QED
    BY <2>1, <2>2
<1>6. QED
  BY <1>3, <1>4, <1>5, Zenon DEF StreamsFramed

(* The steps of processRecvBuffer and the read before it change one stream.   *)
LEMMA OtherStreamsKept ==
  ASSUME FramingInv, NEW j \in Peers, pc = "poll",
         UNCHANGED <<pc, attempt, retry, sent, handshaken>>,
         StreamInv(j)',
         \A i \in Peers \ {j} :
            /\ taken'[i] = taken[i] /\ solutions'[i] = solutions[i]
            /\ recvBuffers'[i] = recvBuffers[i]
            /\ i # framing' => i # framing
  PROVE  StreamsFramed'
<1>1. StreamsFramed
  BY FramingFacts
<1>2. ASSUME NEW i  PROVE ~Handshaking(i) /\ ~Handshaking(i)'
  BY DEF Handshaking
<1>3. ASSUME NEW i \in Peers  PROVE StreamInv(i)'
  <2>1. CASE i = j
    BY <2>1, Zenon
  <2>2. CASE i # j
    <3>1. StreamInv(i)
      BY <1>1, <1>2, Zenon DEF StreamsFramed
    <3>2. /\ sent'[i] = sent[i] /\ taken'[i] = taken[i] /\ handshaken'[i] = handshaken[i]
          /\ solutions'[i] = solutions[i] /\ retry'[i] = retry[i]
          /\ recvBuffers'[i] = recvBuffers[i] /\ (i # framing' => i # framing)
      BY <2>2
    <3>3. QED
      BY <3>1, <3>2, StreamKept, Zenon
  <2>3. QED
    BY <2>1, <2>2
<1>4. QED
  BY <1>2, <1>3, Zenon DEF StreamsFramed

LEMMA FramingReadSocket ==
  ASSUME FramingInv, NEW i \in polled, NEW m \in 1..Len(Unread(i)), ReadSocket(i, m)
  PROVE  StreamTypes' /\ StreamsFramed'
<1> DEFINE u == Unread(i)
           s == sent[i]
           n == taken[i]
           b == recvBuffers[i]
           l == Len(FlattenSeq(s))
<1>1. /\ StreamTypes /\ StreamsFramed /\ PeersInv /\ i \in Peers
      /\ DOMAIN recvBuffers = Peers /\ DOMAIN taken = Peers
  BY FramingFacts
<1>2. /\ pc = "poll" /\ framing = N /\ framing' = i
      /\ recvBuffers' = [recvBuffers EXCEPT ![i] = @ \o SubSeq(u, 1, m)]
      /\ taken' = [taken EXCEPT ![i] = @ + m]
      /\ UNCHANGED <<pc, retry, polled, attempt, sent, handshaken, solutions>>
  BY Zenon DEF ReadSocket, BufferIndex, vars
<1>3. retry[i] = "none"
  BY <1>1, <1>2, ReadsOnlyOpen
<1>4. n \in Nat /\ m \in Nat /\ n + m <= l /\ n + m \in Nat /\ s \in Streams
  <2> DEFINE v == Len(u)
  <2>1. v \in Nat /\ v = l - n
    BY <1>1, UnreadBytes
  <2>2. m \in 1..v
    OBVIOUS
  <2>3. n \in Nat /\ l \in Nat /\ s \in Streams
    BY <1>1, StreamFacts DEF StreamTypes
  <2> HIDE DEF v, l, n, s
  <2>4. QED
    BY <2>1, <2>2, <2>3, SMT
<1>5. StreamTypes'
  <2>1. taken' \in [Peers -> Nat]
    <3> HIDE DEF n
    <3>1. taken' = [taken EXCEPT ![i] = n + m]
      BY <1>2 DEF n
    <3>2. QED
      BY <1>1, <1>4, <3>1 DEF StreamTypes
  <2>2. ASSUME NEW j \in Peers
        PROVE  handshaken[j] <= taken'[j] /\ taken'[j] <= Len(FlattenSeq(sent[j]))
    <3>0. handshaken[j] \in Nat /\ handshaken[j] <= taken[j] /\ taken[j] <= Len(FlattenSeq(sent[j]))
      BY <1>1 DEF StreamTypes
    <3>1. CASE j = i
      <4>1. taken'[j] = n + m
        BY <1>1, <1>2, <3>1
      <4>2. handshaken[j] <= n
        BY <3>0, <3>1
      <4>3. handshaken[j] <= n + m
        <5> HIDE DEF n, l, s
        <5> QED
          BY <1>4, <3>0, <4>2, SMT
      <4>4. QED
        BY <1>4, <3>1, <4>1, <4>3
    <3>2. CASE j # i
      BY <1>1, <1>2, <3>0, <3>2
    <3>3. QED
      BY <3>1, <3>2
  <2>3. QED
    BY <1>1, <1>2, <2>1, <2>2 DEF StreamTypes
<1>6. StreamInv(i)
  <2>1. ~Handshaking(i)
    BY <1>2 DEF Handshaking
  <2>2. QED
    BY <1>1, <2>1, Zenon DEF StreamsFramed
<1>7. StreamInv(i)'
  <2> DEFINE e == handshaken[i]
             found == solutions[i]
             r == retry[i]
             f == framing
  <2>1. Framed(s, n, e, b, found, r, i, f)
    BY <1>6, Zenon DEF StreamInv
  <2>2. n + m <= Len(FlattenSeq(s)) /\ u = SubSeq(FlattenSeq(s), n + 1, Len(FlattenSeq(s)))
    BY <1>4 DEF Unread
  <2>3. r = "none"
    BY <1>3
  <2>4. Framed(s, n + m, e, b \o SubSeq(u, 1, m), found, r, i, i)
    <3> HIDE DEF s, n, e, b, found, r, f, u
    <3> QED
      BY <1>4, <2>1, <2>2, <2>3, FramedRead, Zenon
  <2>5. /\ sent'[i] = s /\ taken'[i] = n + m /\ handshaken'[i] = e
        /\ recvBuffers'[i] = b \o SubSeq(u, 1, m) /\ solutions'[i] = found /\ retry'[i] = r
        /\ framing' = i
    <3> HIDE DEF u
    <3> QED
      BY <1>1, <1>2
  <2> HIDE DEF s, n, e, b, found, r, f, u
  <2>6. QED
    BY <2>4, <2>5, Zenon DEF StreamInv
<1>8. \A j \in Peers \ {i} :
         /\ taken'[j] = taken[j] /\ solutions'[j] = solutions[j]
         /\ recvBuffers'[j] = recvBuffers[j]
         /\ j # framing' => j # framing
  <2>1. ASSUME NEW j \in Peers \ {i}
        PROVE  taken'[j] = taken[j] /\ recvBuffers'[j] = recvBuffers[j] /\ j # framing
    <3> HIDE DEF u
    <3>1. N \notin Peers
      BY FramingFacts
    <3>2. QED
      BY <1>1, <1>2, <3>1
  <2>2. QED
    BY <1>2, <2>1, Zenon
<1>9. StreamsFramed'
  BY <1>1, <1>2, <1>7, <1>8, OtherStreamsKept, Zenon
<1>10. QED
  BY <1>5, <1>9

LEMMA FramingProcess ==
  ASSUME FramingInv, ProcessRecvBuffer
  PROVE  StreamTypes' /\ StreamsFramed'
<1>1. /\ framing # N
      /\ UNCHANGED <<pc, retry, polled, attempt, sent, taken, handshaken>>
  BY Zenon DEF ProcessRecvBuffer, WaitForRest, DropBuffer, ProcessPacket, vars
<1>0. PICK i \in Peers : i = framing
  BY <1>1, FramingFacts
<1> DEFINE s == sent[i]
           n == taken[i]
           e == handshaken[i]
           b == recvBuffers[i]
           found == solutions[i]
           r == retry[i]
<1>2. /\ StreamTypes /\ StreamsFramed /\ retry[i] = "none" /\ pc = "poll"
      /\ DOMAIN recvBuffers = Peers /\ DOMAIN solutions = Peers
  BY <1>0, <1>1, FramingFacts
<1>3. s \in Streams /\ n \in Nat /\ n <= Len(FlattenSeq(s)) /\ r = "none"
  BY <1>2 DEF StreamTypes
<1>4. StreamInv(i)
  <2>1. ~Handshaking(i)
    BY <1>2 DEF Handshaking
  <2>2. QED
    BY <1>2, <2>1, Zenon DEF StreamsFramed
<1>5. Framed(s, n, e, b, found, r, i, i)
  BY <1>0, <1>4, Zenon DEF StreamInv
<1>6. /\ sent'[i] = s /\ taken'[i] = n /\ handshaken'[i] = e /\ retry'[i] = r
  BY <1>1
<1>7. CASE WaitForRest
  <2>1. /\ HasHeader(b) => ~Broken(b) /\ ~Complete(b)
        /\ UNCHANGED <<recvBuffers, solutions>> /\ framing' = N
    BY <1>0, <1>7, Zenon DEF WaitForRest
  <2>2. StreamTypes'
    BY <1>1, <1>2, <2>1 DEF StreamTypes
  <2>3. recvBuffers'[i] = b /\ solutions'[i] = found
    BY <2>1
  <2>4. StreamInv(i)'
    <3> DEFINE f2 == framing'
    <3> HIDE DEF f2, s, n, e, b, found, r
    <3>1. Framed(s, n, e, b, found, r, i, f2)
      BY <1>3, <1>5, <2>1, FramedWait, Zenon
    <3>2. QED
      BY <1>6, <2>3, <3>1, Zenon DEF StreamInv, f2
  <2>5. \A j \in Peers \ {i} :
           /\ taken'[j] = taken[j] /\ solutions'[j] = solutions[j]
           /\ recvBuffers'[j] = recvBuffers[j]
           /\ j # framing' => j # framing
    BY <1>0, <1>1, <2>1
  <2>6. StreamsFramed'
    <3> QED
      BY <1>1, <1>2, <2>4, <2>5, OtherStreamsKept, Zenon
  <2>7. QED
    BY <2>2, <2>6
<1>8. CASE DropBuffer
  <2>1. /\ HasHeader(b) /\ Broken(b) /\ framing' = N /\ UNCHANGED solutions
        /\ recvBuffers' = [recvBuffers EXCEPT ![i] = <<>>]
    BY <1>0, <1>8, Zenon DEF DropBuffer
  <2>2. StreamTypes'
    BY <1>1, <1>2, <2>1 DEF StreamTypes
  <2>3. solutions'[i] = found
    BY <2>1
  <2>4. StreamInv(i)'
    <3> DEFINE f2 == framing'
               b2 == recvBuffers'[i]
    <3> HIDE DEF f2, b2, s, n, e, b, found, r
    <3>1. Framed(s, n, e, b2, found, r, i, f2)
      BY <1>3, <1>5, <2>1, FramedDrop, Zenon
    <3>2. QED
      BY <1>6, <2>3, <3>1, Zenon DEF StreamInv, f2, b2
  <2>5. \A j \in Peers \ {i} :
           /\ taken'[j] = taken[j] /\ solutions'[j] = solutions[j]
           /\ recvBuffers'[j] = recvBuffers[j]
           /\ j # framing' => j # framing
    BY <1>0, <1>1, <1>2, <2>1
  <2>6. StreamsFramed'
    <3> QED
      BY <1>1, <1>2, <2>4, <2>5, OtherStreamsKept, Zenon
  <2>7. QED
    BY <2>2, <2>6
<1>9. CASE ProcessPacket
  <2> DEFINE p == SubSeq(b, 1, Size(b))
             more == IF IsSolution(p) THEN Append(found, p) ELSE found
  <2>1. /\ HasHeader(b) /\ Complete(b) /\ framing' = i
        /\ recvBuffers' = [recvBuffers EXCEPT ![i] = Removed(b)]
        /\ solutions' = [solutions EXCEPT ![i] = IF IsSolution(p) THEN Append(@, p) ELSE @]
    BY <1>0, <1>9, Zenon DEF ProcessPacket
  <2>2. solutions' = [solutions EXCEPT ![i] = more]
    BY <2>1, Zenon
  <2>3. recvBuffers'[i] = Removed(b) /\ solutions'[i] = more
    <3> HIDE DEF p, more, b
    <3> QED
      BY <1>2, <2>1, <2>2
  <2>4. StreamTypes'
    <3>1. DOMAIN solutions' = Peers
      <4> HIDE DEF more
      <4> QED
        BY <1>2, <2>2
    <3> HIDE DEF p, more
    <3>2. QED
      BY <1>0, <1>1, <1>2, <2>1, <3>1 DEF StreamTypes
  <2>5. StreamInv(i)'
    <3>1. p = SubSeq(b, 1, Size(b)) /\ more = IF IsSolution(p) THEN Append(found, p) ELSE found
      OBVIOUS
    <3> HIDE DEF s, n, e, b, found, r, p, more
    <3>2. Framed(s, n, e, Removed(b), more, r, i, i)
      BY <1>3, <1>5, <2>1, <3>1, FramedNext, Zenon
    <3>3. QED
      BY <1>6, <2>1, <2>3, <3>2, Zenon DEF StreamInv
  <2>6. ASSUME NEW j \in Peers \ {i}
        PROVE  /\ taken'[j] = taken[j] /\ solutions'[j] = solutions[j]
               /\ recvBuffers'[j] = recvBuffers[j]
               /\ j # framing' => j # framing
    <3> HIDE DEF p, more, b
    <3> QED
      BY <1>0, <1>1, <1>2, <2>1, <2>2
  <2>7. StreamsFramed'
    <3> HIDE DEF p, more
    <3> QED
      BY <1>1, <1>2, <2>5, <2>6, OtherStreamsKept, Zenon
  <2>8. QED
    BY <2>4, <2>7
<1>10. QED
  BY <1>7, <1>8, <1>9, Zenon DEF ProcessRecvBuffer

LEMMA FramingSendPacket ==
  ASSUME FramingInv, NEW j \in Senders, SendPacket(j)
  PROVE  StreamTypes' /\ StreamsFramed'
<1>1. StreamTypes /\ StreamsFramed /\ DOMAIN sent = Peers /\ j \in Peers
  BY FramingFacts, PacketsAssumption
<1>2. UNCHANGED <<pc, retry, polled, attempt, taken, handshaken, recvBuffers, framing, solutions>>
  BY Zenon DEF SendPacket, vars
<1>3. PICK x \in Packets : sent' = [sent EXCEPT ![j] = Append(@, x)]
  BY Zenon DEF SendPacket
<1>4. x \in Seq(Nat) /\ Len(x) >= HeaderSize
  BY PacketFacts
<1> DEFINE s == sent[j]
           t == Append(s, x)
           n == taken[j]
<1>5. /\ s \in Streams /\ n \in Nat /\ n <= Len(FlattenSeq(s))
      /\ handshaken[j] \in Nat /\ handshaken[j] <= n
  BY <1>1 DEF StreamTypes
<1>6. s \in Seq(Seq(Nat)) /\ Len(s) \in Nat /\ DOMAIN s = 1..Len(s) /\ Len(FlattenSeq(s)) \in Nat
  BY <1>5, StreamFacts
<1>7. /\ t \in Seq(Seq(Nat)) /\ Len(t) = Len(s) + 1 /\ t[Len(s) + 1] = x
      /\ \A k \in 1..Len(s) : t[k] = s[k]
      /\ Len(FlattenSeq(t)) = Len(FlattenSeq(s)) + Len(x)
  <2>1. t = Append(s, x)
    OBVIOUS
  <2> HIDE DEF s, t
  <2>2. Lengthened(s, x, t)
    BY <1>4, <1>6, <2>1, AppendedPacket
  <2>3. QED
    BY <2>2, Zenon DEF Lengthened
<1>8. sent' = [sent EXCEPT ![j] = t]
  BY <1>3, Zenon
<1> HIDE DEF t
<1>9. t \in Streams
  <2>1. ASSUME NEW k \in DOMAIN t  PROVE Len(t[k]) >= HeaderSize
    <3>1. k \in 1..(Len(s) + 1)
      BY <1>7
    <3>2. CASE k = Len(s) + 1
      BY <1>4, <1>7, <3>2
    <3>3. CASE k # Len(s) + 1
      <4>1. k \in 1..Len(s)
        <5> HIDE DEF s
        <5> QED
          BY <1>6, <3>1, <3>3, SMT
      <4>2. QED
        BY <1>5, <1>6, <1>7, <4>1 DEF Streams
    <3>4. QED
      BY <3>2, <3>3
  <2>2. QED
    BY <1>7, <2>1 DEF Streams
<1>10. StreamTypes'
  <2>1. sent' \in [Peers -> Streams]
    BY <1>1, <1>8, <1>9 DEF StreamTypes
  <2>2. ASSUME NEW i \in Peers  PROVE taken[i] <= Len(FlattenSeq(sent'[i]))
    <3>1. CASE i = j
      <4>1. sent'[i] = t
        BY <1>1, <1>8, <3>1
      <4>2. Len(x) \in Nat
        BY <1>4, LenProperties
      <4> DEFINE l == Len(FlattenSeq(s))
                 m == Len(x)
      <4>3. l \in Nat /\ m \in Nat /\ n \in Nat /\ n <= l
        BY <1>5, <1>6, <4>2
      <4> HIDE DEF l, m, n
      <4>4. n <= l + m
        BY <4>3, SMT
      <4>5. QED
        BY <1>7, <3>1, <4>1, <4>4 DEF l, m, n
    <3>2. CASE i # j
      BY <1>1, <1>8, <3>2 DEF StreamTypes
    <3>3. QED
      BY <3>1, <3>2
  <2>3. QED
    BY <1>1, <1>2, <2>1, <2>2 DEF StreamTypes
<1>11. ASSUME NEW i \in Peers
       PROVE  /\ Handshaking(i)' => recvBuffers'[i] = <<>> /\ solutions'[i] = <<>>
              /\ ~Handshaking(i)' => StreamInv(i)'
  <2>0. Handshaking(i)' <=> Handshaking(i)
    BY <1>2 DEF Handshaking
  <2>1. CASE Handshaking(i)
    BY <1>1, <1>2, <2>0, <2>1, Zenon DEF StreamsFramed
  <2>2. CASE ~Handshaking(i)
    <3>1. StreamInv(i)
      BY <1>1, <2>2, Zenon DEF StreamsFramed
    <3>2. CASE i # j
      <4>1. /\ sent'[i] = sent[i] /\ taken'[i] = taken[i] /\ handshaken'[i] = handshaken[i]
            /\ solutions'[i] = solutions[i] /\ retry'[i] = retry[i]
            /\ recvBuffers'[i] = recvBuffers[i] /\ framing' = framing
        BY <1>1, <1>2, <1>8, <3>2
      <4>2. StreamInv(i)'
        BY <3>1, <4>1, StreamKept, Zenon
      <4>3. QED
        BY <2>0, <2>2, <4>2
    <3>3. CASE i = j
      <4> DEFINE e == handshaken[j]
                 b == recvBuffers[j]
                 found == solutions[j]
                 r == retry[j]
                 f == framing
      <4>1. Framed(s, n, e, b, found, r, j, f)
        BY <3>1, <3>3, Zenon DEF StreamInv
      <4>2. e \in Nat /\ e <= n /\ t = Append(s, x)
        BY <1>5 DEF t
      <4>3. /\ sent'[j] = t /\ taken'[j] = n /\ handshaken'[j] = e /\ recvBuffers'[j] = b
            /\ solutions'[j] = found /\ retry'[j] = r /\ framing' = f
        BY <1>1, <1>2, <1>8
      <4> HIDE DEF s, n, e, b, found, r, f
      <4>4. Framed(t, n, e, b, found, r, j, f)
        BY <1>4, <1>5, <4>1, <4>2, FramedLonger, Zenon
      <4>5. StreamInv(j)'
        BY <4>3, <4>4, Zenon DEF StreamInv
      <4>6. QED
        BY <2>0, <2>2, <3>3, <4>5, Zenon
    <3>4. QED
      BY <3>2, <3>3
  <2>3. QED
    BY <2>1, <2>2
<1>12. QED
  BY <1>10, <1>11, Zenon DEF StreamsFramed

(* Steps that change only the connections and, of a lost one, the buffer.     *)
LEMMA FramingConnections ==
  ASSUME FramingInv,
         \/ NextReceive \/ OtherRecvStep \/ \E down \in SUBSET polled : EndCycle(down)
         \/ \E i \in Peers : (RetryDue(i) \/ TaskSendFails(i)) /\ UNCHANGED packetVars
         \/ UNCHANGED allVars
  PROVE  StreamTypes' /\ StreamsFramed'
<1>1. PeersInv /\ DOMAIN retry = Peers /\ (framing # N => pc = "poll")
  BY FramingFacts
<1>2. CASE NextReceive
  <2>1. /\ UNCHANGED <<sent, taken, handshaken, recvBuffers, framing, solutions>>
        /\ UNCHANGED <<retry, polled, attempt>> /\ pc = "handshake" /\ pc' = "computors"
    BY <1>2, Zenon DEF NextReceive, PeersExchanged
  <2>2. framing = N
    BY <1>1, <2>1
  <2>3. \A i : Handshaking(i)' <=> Handshaking(i)
    BY <2>1 DEF Handshaking
  <2>4. QED
    BY <2>1, <2>2, <2>3, AllStreamsKept, Zenon
<1>3. CASE OtherRecvStep
  <2>1. UNCHANGED <<sent, taken, handshaken, recvBuffers, framing, solutions>> /\ framing = N
    BY <1>3, Zenon DEF OtherRecvStep, packetVars
  <2>2. /\ pc \in {"reconnect", "poll"} /\ pc' \in {"reconnect", "poll"}
    BY <1>3, SMT DEF OtherRecvStep, NothingDue, ReconnectFailed, PollError
  <2>3. ASSUME NEW i \in Peers  PROVE retry'[i] = "none" => retry[i] = "none"
    <3>1. CASE NothingDue \/ PollError
      BY <3>1 DEF NothingDue, PollError
    <3>2. CASE ReconnectFailed
      <4>1. NextDue \in Peers /\ retry' = [retry EXCEPT ![NextDue] = "waiting"]
        BY <1>1, <3>2, DuePeer DEF ReconnectFailed
      <4>2. QED
        BY <1>1, <4>1
    <3>3. QED
      BY <1>3, <3>1, <3>2 DEF OtherRecvStep
  <2>4. \A i : ~Handshaking(i) /\ ~Handshaking(i)'
    BY <2>2 DEF Handshaking
  <2>5. QED
    BY <2>1, <2>3, <2>4, AllStreamsKept, Zenon
<1>4. ASSUME NEW down \in SUBSET polled, EndCycle(down)  PROVE StreamTypes' /\ StreamsFramed'
  <2>1. /\ framing = N /\ UNCHANGED <<sent, taken, handshaken, framing, solutions>>
        /\ recvBuffers' = [i \in Peers |-> IF i \in down THEN <<>> ELSE recvBuffers[i]]
        /\ retry' = [i \in Peers |-> IF i \in down THEN "waiting" ELSE retry[i]]
        /\ pc = "poll" /\ pc' = "reconnect"
    BY <1>4, Zenon DEF EndCycle, PollSockets, ScheduleRetry, ClearBuffers
  <2>2. ASSUME NEW i \in Peers
        PROVE  retry'[i] = "none" => retry[i] = "none" /\ recvBuffers'[i] = recvBuffers[i]
    BY <2>1
  <2>3. \A i : ~Handshaking(i) /\ ~Handshaking(i)'
    BY <2>1 DEF Handshaking
  <2>4. QED
    BY <2>1, <2>2, <2>3, AllStreamsKept, Zenon
<1>5. ASSUME NEW j \in Peers, RetryDue(j) \/ TaskSendFails(j), UNCHANGED packetVars
      PROVE  StreamTypes' /\ StreamsFramed'
  <2>1. /\ UNCHANGED <<sent, taken, handshaken, recvBuffers, framing, solutions>>
        /\ UNCHANGED <<pc, polled, attempt>>
    BY <1>5, Zenon DEF packetVars, RetryDue, TaskSendFails
  <2>2. ASSUME NEW i \in Peers  PROVE retry'[i] = "none" => retry[i] = "none"
    BY <1>1, <1>5 DEF RetryDue, TaskSendFails
  <2>3. \A i : Handshaking(i)' <=> Handshaking(i)
    BY <2>1 DEF Handshaking
  <2>4. QED
    BY <2>1, <2>2, <2>3, AllStreamsKept, Zenon
<1>6. CASE UNCHANGED allVars
  <2>1. /\ UNCHANGED <<sent, taken, handshaken, recvBuffers, framing, solutions>>
        /\ UNCHANGED <<pc, polled, attempt, retry>>
    BY <1>6, Zenon DEF allVars, vars, packetVars
  <2>2. \A i : Handshaking(i)' <=> Handshaking(i)
    BY <2>1 DEF Handshaking
  <2>3. QED
    BY <2>1, <2>2, AllStreamsKept, Zenon
<1>7. QED
  BY <1>2, <1>3, <1>4, <1>5, <1>6, Zenon

LEMMA FramingStep ==
  ASSUME FramingInv, [PacketsNext]_allVars
  PROVE  FramingInv'
<1>1. PacketsInv'
  BY PacketsStepPreserves DEF FramingInv
<1>2. StreamTypes' /\ StreamsFramed'
  <2>1. CASE PacketsRecvStep
    BY <2>1, FramingOpenStream, FramingHandshakeRead, FramingEndHandshake, FramingReadSocket,
       FramingProcess, FramingConnections, Zenon DEF PacketsRecvStep
  <2>2. CASE \E i \in Senders : SendPacket(i)
    BY <2>2, FramingSendPacket, Zenon
  <2>3. CASE \E i \in Peers : (RetryDue(i) \/ TaskSendFails(i)) /\ UNCHANGED packetVars
    BY <2>3, FramingConnections, Zenon
  <2>4. CASE UNCHANGED allVars
    BY <2>4, FramingConnections, Zenon
  <2>5. QED
    BY <2>1, <2>2, <2>3, <2>4, Zenon DEF PacketsNext
<1>3. QED
  BY <1>1, <1>2 DEF FramingInv

LEMMA FramedDelivers == FramingInv => SolutionsAsSent
<1> SUFFICES ASSUME FramingInv, NEW i \in Senders, NEW h \in 0..Len(sent[i]),
                    handshaken[i] = EndOf(sent[i], h), ~Handshaking(i),
                    \A k \in DOMAIN sent[i] : Sound(sent[i][k]), i # framing
             PROVE  \E k \in h..Len(sent[i]) :
                      /\ WhollyRead(sent[i], taken[i], k)
                      /\ solutions[i] = SolutionsIn(SubSeq(sent[i], h + 1, k))
  BY Zenon DEF SolutionsAsSent
<1>1. i \in Peers
  BY PacketsAssumption
<1>2. StreamInv(i)
  BY <1>1, Zenon DEF FramingInv, StreamsFramed
<1>3. AllSound(sent[i])
  BY Zenon DEF AllSound
<1>4. \E k \in h..Len(sent[i]) : /\ Processed(sent[i], taken[i], solutions[i], h, k)
                                 /\ WhollyRead(sent[i], taken[i], k)
  BY <1>2, <1>3, Zenon DEF StreamInv, Framed
<1>5. QED
  BY <1>4, Zenon DEF Processed

(* For every number of peers, every set of packets, every read size and every *)
(* way TCP may cut the streams: the solutions that processRecvBuffer queues   *)
(* are exactly those among the packets read so far, in order, none lost and   *)
(* none twice.                                                                *)
THEOREM SolutionsCorrect ==
  PacketsSpec => []SolutionsAsSent
  BY FramingInitially, FramingStep, FramedDelivers, PTL DEF PacketsSpec

=============================================================================
