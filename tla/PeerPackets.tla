------------------------------ MODULE PeerPackets ------------------------------
(***************************************************************************)
(* The byte streams of the Qubic peers, composed with QubicPeers: what       *)
(* openQubicConnection reads during its handshake                            *)
(* (QubicConnection::receivePacketWithHeaderAs), and how qubicRecvThread     *)
(* reassembles the rest into packets (processRecvBuffer) and picks the       *)
(* solutions (processSolution).                                              *)
(*                                                                           *)
(* A packet is a sequence of bytes of which the first is its size and the    *)
(* second its type: a header of two bytes instead of eight.  TCP delivers    *)
(* the bytes of a connection in order and in pieces of any length.           *)
(***************************************************************************)
EXTENDS QubicPeers, SequencesExt

CONSTANTS
    Senders,        \* peers that send packets
    Packets,        \* the packets they send
    MaxPackets,     \* bound on the packets of a connection
    ReadSize,       \* bytes of one read (4096)
    MaxSize,        \* packets above it are broken (10 MB)
    SolutionSize,   \* size of a signed DOGE solution
    MaxSkip         \* packets a receive of the handshake may skip

HeaderSize == 2

ASSUME PacketsAssumption ==
    /\ Senders \subseteq Peers
    /\ Packets \subseteq Seq(Nat)
    /\ \A p \in Packets : Len(p) >= HeaderSize
    /\ MaxPackets \in Nat /\ ReadSize \in Nat \ {0}
    /\ MaxSize \in Nat /\ SolutionSize \in Nat /\ MaxSkip \in Nat

VARIABLES
    sent,           \* per peer: the packets it sent on this connection
    taken,          \* per peer: how many bytes of them have been read
    handshaken,     \* per peer: how many of those the handshake read
    skipped,        \* packets skipped by the receive under way; MaxSkip + 1 after it
    recvBuffers,    \* per peer: bytes waiting for the rest of their packet
    framing,        \* the peer whose buffer is processed, or N
    solutions       \* per peer: the solutions of this connection pushed to the queue

packetVars == <<sent, taken, handshaken, skipped, recvBuffers, framing, solutions>>
allVars == <<vars, packetVars>>

PacketsInit ==
    /\ PeersInit
    /\ sent = [i \in Peers |-> <<>>]
    /\ taken = [i \in Peers |-> 0]
    /\ handshaken = [i \in Peers |-> 0]
    /\ skipped = MaxSkip + 1
    /\ recvBuffers = [i \in Peers |-> <<>>]
    /\ framing = N
    /\ solutions = [i \in Peers |-> <<>>]

-----------------------------------------------------------------------------
(* header.size(): zero means a broken packet and counts as a huge one.        *)
Size(bytes) == IF bytes[1] = 0 THEN MaxSize + 1 ELSE bytes[1]
Type(bytes) == bytes[2]

ExchangePublicPeers == 0
RequestComputors    == 11
EndResponse         == 35
Solution            == 69

(* processSolution pushes a packet of the right size and type, for DOGE,      *)
(* whose signature (here its last byte) verifies.                             *)
IsSolution(packet) ==
    /\ Len(packet) = SolutionSize
    /\ Type(packet) = Solution
    /\ packet[3] = 1
    /\ Last(packet) = 1

Unread(i) == SubSeq(FlattenSeq(sent[i]), taken[i] + 1, Len(FlattenSeq(sent[i])))

-----------------------------------------------------------------------------
(* A peer sends a packet on its open connection.                              *)
SendPacket(i) ==
    /\ isConnected[i]
    /\ Len(sent[i]) < MaxPackets
    /\ \E p \in Packets : sent' = [sent EXCEPT ![i] = Append(@, p)]
    /\ UNCHANGED <<vars, taken, handshaken, skipped, recvBuffers, framing, solutions>>

(* A new connection carries nothing yet.                                      *)
OpenStream ==
    /\ Connected
    /\ sent' = [sent EXCEPT ![NextDue] = <<>>]
    /\ taken' = [taken EXCEPT ![NextDue] = 0]
    /\ handshaken' = [handshaken EXCEPT ![NextDue] = 0]
    /\ solutions' = [solutions EXCEPT ![NextDue] = <<>>]
    /\ skipped' = 0
    /\ UNCHANGED <<recvBuffers, framing>>

Expected == IF pc = "handshake" THEN ExchangePublicPeers ELSE RequestComputors

(* The receive has got a header; `left` bytes of its packet follow, and n     *)
(* bytes have arrived.  The receive ends at once with an end response, with   *)
(* the packet after MaxSkip skipped ones, and with an expected packet that is *)
(* too long; any other packet is read to its end or until the timeout.        *)
EndsReceive(header, left) ==
    \/ Type(header) = EndResponse
    \/ Type(header) # Expected /\ skipped = MaxSkip
    \/ Type(header) = Expected /\ left > ReadSize

(* An expected packet that claims to be shorter than its header has a         *)
(* negative rest, which receiveAllData takes for a huge one: it reads all     *)
(* that arrives.                                                              *)
ReadBehind(header, left, n) ==
    IF Type(header) = Expected /\ left < 0 THEN n ELSE Min({n, Max({left, 0})})

AfterHeader(header, left, n) ==
    IF EndsReceive(header, left)
    THEN /\ taken' = [taken EXCEPT ![attempt] = @ + HeaderSize]
         /\ skipped' = MaxSkip + 1
    ELSE /\ taken' = [taken EXCEPT ![attempt] = @ + HeaderSize + ReadBehind(header, left, n)]
         /\ skipped' = IF Type(header) = Expected \/ n < left THEN MaxSkip + 1 ELSE skipped + 1

(* One round of receivePacketWithHeaderAs, with n of the unread bytes         *)
(* arriving in time.  A short read of the header ends the receive.            *)
HandshakeRead(n) ==
    /\ Handshaking(attempt) /\ isConnected[attempt] /\ skipped <= MaxSkip
    /\ IF n < HeaderSize
         THEN taken' = [taken EXCEPT ![attempt] = @ + n] /\ skipped' = MaxSkip + 1
         ELSE AfterHeader(Unread(attempt), Size(Unread(attempt)) - HeaderSize, n - HeaderSize)
    /\ UNCHANGED <<vars, sent, handshaken, recvBuffers, framing, solutions>>

(* The receive of RequestComputors follows the one of ExchangePublicPeers.    *)
NextReceive ==
    /\ PeersExchanged
    /\ skipped' = 0
    /\ UNCHANGED <<sent, taken, handshaken, recvBuffers, framing, solutions>>

EndHandshake ==
    /\ HandshakeDone
    /\ handshaken' = [handshaken EXCEPT ![attempt] = taken[attempt]]
    /\ skipped' = MaxSkip + 1
    /\ UNCHANGED <<sent, taken, recvBuffers, framing, solutions>>

(* pollToConnIdx: the buffer of a socket is that of its connection.           *)
BufferIndex(i) == i

(* poll() reports data: one read of at most ReadSize bytes.                   *)
ReadSocket(i, n) ==
    /\ pc = "poll" /\ framing = N /\ i \in polled
    /\ n <= ReadSize
    /\ recvBuffers' = [recvBuffers EXCEPT ![BufferIndex(i)] = @ \o SubSeq(Unread(i), 1, n)]
    /\ taken' = [taken EXCEPT ![i] = @ + n]
    /\ framing' = BufferIndex(i)
    /\ UNCHANGED <<vars, sent, handshaken, skipped, solutions>>

Broken(buf)   == Size(buf) < HeaderSize \/ Size(buf) > MaxSize
Complete(buf) == Size(buf) <= Len(buf)

(* Mutant: a packet is removed without its last byte.                         *)
RemovedShort(buf) == SubSeq(buf, Size(buf), Len(buf))

Removed(buf) == SubSeq(buf, Size(buf) + 1, Len(buf))

HasHeader(buf) == Len(buf) >= HeaderSize

(* processRecvBuffer, one iteration: not enough data yet for the full packet. *)
WaitForRest ==
    LET buf == recvBuffers[framing] IN
      /\ framing # N
      /\ HasHeader(buf) => ~Broken(buf) /\ ~Complete(buf)
      /\ framing' = N
      /\ UNCHANGED <<vars, sent, taken, handshaken, skipped, recvBuffers, solutions>>

(* A broken header empties the buffer.                                        *)
DropBuffer ==
    LET buf == recvBuffers[framing] IN
      /\ framing # N
      /\ HasHeader(buf) /\ Broken(buf)
      /\ recvBuffers' = [recvBuffers EXCEPT ![framing] = <<>>]
      /\ framing' = N
      /\ UNCHANGED <<vars, sent, taken, handshaken, skipped, solutions>>

(* A complete packet is processed and removed.                                *)
ProcessPacket ==
    LET buf == recvBuffers[framing]
        packet == SubSeq(buf, 1, Size(buf))
    IN
      /\ framing # N
      /\ HasHeader(buf) /\ ~Broken(buf) /\ Complete(buf)
      /\ recvBuffers' = [recvBuffers EXCEPT ![framing] = Removed(buf)]
      /\ solutions' = [solutions EXCEPT ![framing] =
                          IF IsSolution(packet) THEN Append(@, packet) ELSE @]
      /\ UNCHANGED <<vars, sent, taken, handshaken, skipped, framing>>

ProcessRecvBuffer == WaitForRest \/ DropBuffer \/ ProcessPacket

(* Mutant: markDisconnected leaves the buffer.                                *)
ClearBuffersNot(down) == recvBuffers

ClearBuffers(down) == [i \in Peers |-> IF i \in down THEN <<>> ELSE recvBuffers[i]]

(* The end of a poll cycle: markDisconnected also empties the buffer.         *)
EndCycle(down) ==
    /\ framing = N
    /\ PollSockets(down)
    /\ recvBuffers' = ClearBuffers(down)
    /\ UNCHANGED <<sent, taken, handshaken, skipped, framing, solutions>>

(* The steps of qubicRecvThread that touch no stream.                         *)
OtherRecvStep ==
    /\ framing = N
    /\ NothingDue \/ ReconnectFailed \/ PollError
    /\ UNCHANGED packetVars

PacketsRecvStep ==
    \/ OpenStream
    \/ \E n \in 1..Len(Unread(attempt)) : HandshakeRead(n)
    \/ NextReceive
    \/ EndHandshake
    \/ \E i \in polled : \E n \in 1..Len(Unread(i)) : ReadSocket(i, n)
    \/ ProcessRecvBuffer
    \/ \E down \in SUBSET polled : EndCycle(down)
    \/ OtherRecvStep

PacketsNext ==
    \/ PacketsRecvStep
    \/ \E i \in Peers : (RetryDue(i) \/ TaskSendFails(i)) /\ UNCHANGED packetVars
    \/ \E i \in Senders : SendPacket(i)

PacketsSpec == PacketsInit /\ [][PacketsNext]_allVars

-----------------------------------------------------------------------------
(* The offset at which the k-th of a sequence of packets ends.                *)
EndOf(packets, k) == Len(FlattenSeq(SubSeq(packets, 1, k)))
Ends(i) == {EndOf(sent[i], k) : k \in 0..Len(sent[i])}

(* The first k packets, and no more, are among the first n bytes.             *)
WhollyRead(packets, n, k) ==
    EndOf(packets, k) <= n /\ (k < Len(packets) => n < EndOf(packets, k + 1))

(* The solutions among a sequence of packets, in order.                       *)
SolutionsIn(packets) ==
    LET found[k \in 0..Len(packets)] ==
          IF k = 0 THEN <<>>
          ELSE IF IsSolution(packets[k]) THEN Append(found[k - 1], packets[k])
          ELSE found[k - 1]
    IN  found[Len(packets)]

Sound(packet) == Size(packet) = Len(packet) /\ ~Broken(packet)

(***************************************************************************)
(* However TCP cuts the stream, the queue gets exactly the valid solutions   *)
(* among the packets read so far, in order, none twice and none late         *)
(* (processRecvBuffer), on every connection whose handshake ended between    *)
(* two packets (after the h-th) and as long as the peer's headers are right. *)
(***************************************************************************)
SolutionsAsSent ==
    \A i \in Senders : \A h \in 0..Len(sent[i]) :
      /\ handshaken[i] = EndOf(sent[i], h) /\ ~Handshaking(i)
      /\ \A k \in DOMAIN sent[i] : Sound(sent[i][k])
      /\ i # framing
      => \E k \in h..Len(sent[i]) :
           /\ WhollyRead(sent[i], taken[i], k)
           /\ solutions[i] = SolutionsIn(SubSeq(sent[i], h + 1, k))

(* A peer that waits for a reconnection has nothing left in its buffer, so    *)
(* openQubicConnection always starts with an empty one, and the first half of *)
(* a packet whose connection was lost never runs into the first packet of the *)
(* next one (markDisconnected clears the buffer).                             *)
RetriesWithEmptyBuffer ==
    \A i \in Peers : retry[i] # "none" => recvBuffers[i] = <<>>

(***************************************************************************)
(* "Skip this packet by draining its bytes in chunks": the handshake leaves  *)
(* the stream between two packets.                                           *)
(***************************************************************************)
HandshakeEndsBetweenPackets ==
    \A i \in Senders : ~Handshaking(i) => handshaken[i] \in Ends(i)

=============================================================================
