------------------------------ MODULE StratumLines ------------------------------
(***************************************************************************)
(* The byte stream from the stratum pool: initStratumProtocol takes one read *)
(* for the whole answer to each of its two requests, and stratumReceiveLoop  *)
(* cuts the rest into lines (threads/stratum_recv_thread.cpp).               *)
(*                                                                           *)
(* A message is two bytes and a newline; a line can be parsed exactly when   *)
(* it is the two bytes of one message.  An exception thrown by the parser in *)
(* initStratumProtocol is caught nowhere and ends the process.               *)
(***************************************************************************)
EXTENDS Integers, Sequences

CONSTANTS
    MaxMessages,    \* bound on the messages of a connection
    TempSize        \* bytes of one read of stratumReceiveLoop (256)

ASSUME LinesAssumption == MaxMessages \in Nat /\ TempSize \in Nat \ {0}

VARIABLES
    phase,          \* "closed", "subscribe", "authorize", "response", "loop", "terminated"
    written,        \* the messages the pool wrote on this connection
    consumed,       \* how many bytes of them have been read
    initial,        \* how many of those initStratumProtocol read
    response,       \* responseString from pos on
    networkBuffer,  \* what stratumReceiveLoop has read and not yet cut off
    messages        \* what has been pushed to the queue, from this connection

lineVars == <<phase, written, consumed, initial, response, networkBuffer, messages>>

(* The kinds of message: the two answers, a refusal, and notifications.       *)
Kinds == {"subscribed", "authorized", "refused", "notify"}
Newline == <<"newline">>
Byte(message, half) == <<message, half>>
Text(message) == <<Byte(message, 1), Byte(message, 2)>>
LineOf(message) == <<Byte(message, 1), Byte(message, 2), Newline>>

IsMessage(line) == \E k \in DOMAIN written : line = Text(written[k])
ParsedLine(line) == line[1][1]

(* The bytes of the connection, three for each message, and the next n.       *)
StreamByte(j) == LineOf(written[((j - 1) \div 3) + 1])[((j - 1) % 3) + 1]
UnreadBytes == 3 * Len(written) - consumed
Incoming(n) == [i \in 1..n |-> StreamByte(consumed + i)]

LinesInit ==
    /\ phase = "closed"
    /\ written = <<>> /\ consumed = 0 /\ initial = 0
    /\ response = <<>> /\ networkBuffer = <<>>
    /\ messages = <<>>

-----------------------------------------------------------------------------
(* The first line of some bytes, without its newline, and what is behind it.  *)
HasNewline(bytes) == \E k \in DOMAIN bytes : bytes[k] = Newline
LineLength(bytes) ==
    IF HasNewline(bytes)
    THEN (CHOOSE k \in DOMAIN bytes :
            bytes[k] = Newline /\ \A j \in 1..(k - 1) : bytes[j] # Newline) - 1
    ELSE Len(bytes)
FirstLine(bytes) == SubSeq(bytes, 1, LineLength(bytes))

(* Mutant: everything behind the line is lost.                                *)
RestDropped(bytes) == <<>>

Rest(bytes) == SubSeq(bytes, LineLength(bytes) + 2, Len(bytes))

Consume(n) == consumed' = consumed + n /\ initial' = initial + n

(* openConnection succeeds and mining.subscribe is sent.                      *)
OpenPool ==
    /\ phase = "closed"
    /\ phase' = "subscribe"
    /\ written' = <<>> /\ consumed' = 0 /\ initial' = 0
    /\ messages' = <<>>
    /\ UNCHANGED <<response, networkBuffer>>

(* The pool answers each request once, and notifies when it likes.            *)
PoolWrites(kind) ==
    /\ phase \in {"subscribe", "authorize", "response", "loop"}
    /\ Len(written) < MaxMessages
    /\ kind = "subscribed" => \A k \in DOMAIN written : written[k][1] # "subscribed"
    /\ kind \in {"authorized", "refused"} =>
         /\ phase # "subscribe"
         /\ \A k \in DOMAIN written : written[k][1] \notin {"authorized", "refused"}
    /\ written' = Append(written, <<kind, Len(written)>>)
    /\ UNCHANGED <<phase, consumed, initial, response, networkBuffer, messages>>

(* The one read for mining.subscribe: the whole of it is parsed as one        *)
(* message, which may have its newline.                                       *)
SubscribedPhase(bytes) ==
    IF \E k \in DOMAIN written : bytes \in {Text(written[k]), LineOf(written[k])}
    THEN IF ParsedLine(bytes)[1] = "subscribed" THEN "authorize" ELSE "closed"
    ELSE "terminated"

ReadSubscribed(n) ==
    /\ phase = "subscribe"
    /\ phase' = SubscribedPhase(Incoming(n))
    /\ Consume(n)
    /\ UNCHANGED <<written, response, networkBuffer, messages>>

(* The one read for mining.authorize.                                         *)
ReadAuthorized(n) ==
    /\ phase = "authorize"
    /\ phase' = "response"
    /\ response' = Incoming(n)
    /\ Consume(n)
    /\ UNCHANGED <<written, networkBuffer, messages>>

(* Mutant: empty lines are parsed too.                                        *)
SkippedNever(line) == FALSE

Skipped(line) == line = <<>>

(* A notification is queued, a refusal ends the attempt, an answer is taken.  *)
HandleResponse(message) ==
    /\ phase' = IF message[1] = "refused" THEN "closed" ELSE phase
    /\ messages' = IF message[1] = "notify" THEN Append(messages, message) ELSE messages

(* One iteration over the lines of the response; the last may have no newline.*)
(* A line that cannot be parsed ends the process.                             *)
ParseResponse ==
    LET line == FirstLine(response) IN
      /\ phase = "response" /\ response # <<>>
      /\ response' = Rest(response)
      /\ \/ Skipped(line) /\ UNCHANGED <<phase, messages>>
         \/ ~Skipped(line) /\ ~IsMessage(line) /\ phase' = "terminated" /\ UNCHANGED messages
         \/ ~Skipped(line) /\ IsMessage(line) /\ HandleResponse(ParsedLine(line))
      /\ UNCHANGED <<written, consumed, initial, networkBuffer>>

(* initStratumProtocol returns true.                                          *)
EndOfResponse ==
    /\ phase = "response" /\ response = <<>>
    /\ phase' = "loop"
    /\ UNCHANGED <<written, consumed, initial, response, networkBuffer, messages>>

(* stratumReceiveLoop reads once every line of the buffer has been cut off.   *)
ReceiveLines(n) ==
    /\ phase = "loop" /\ ~HasNewline(networkBuffer) /\ n <= TempSize
    /\ networkBuffer' = networkBuffer \o Incoming(n)
    /\ consumed' = consumed + n
    /\ UNCHANGED <<phase, written, initial, response, messages>>

(* One iteration over the lines of the buffer: a line that cannot be parsed,  *)
(* like an empty one, is dropped.                                             *)
QueueLine ==
    LET line == FirstLine(networkBuffer) IN
      /\ phase = "loop" /\ HasNewline(networkBuffer)
      /\ messages' = IF IsMessage(line) THEN Append(messages, ParsedLine(line)) ELSE messages
      /\ networkBuffer' = Rest(networkBuffer)
      /\ UNCHANGED <<phase, written, consumed, initial, response>>

BufferAfterLoss == <<>>

(* A read finds the connection lost.  Without an answer to mining.subscribe   *)
(* the attempt fails; an empty answer to mining.authorize goes unnoticed, but *)
(* then the loop finds the connection lost.                                   *)
ConnectionLost ==
    /\ phase \in {"subscribe", "authorize", "loop"} /\ ~HasNewline(networkBuffer)
    /\ phase' = "closed"
    /\ networkBuffer' = IF phase = "subscribe" THEN networkBuffer ELSE BufferAfterLoss
    /\ UNCHANGED <<written, consumed, initial, response, messages>>

LinesNext ==
    \/ OpenPool
    \/ \E kind \in Kinds : PoolWrites(kind)
    \/ \E n \in 1..UnreadBytes :
         ReadSubscribed(n) \/ ReadAuthorized(n) \/ ReceiveLines(n)
    \/ ParseResponse \/ EndOfResponse
    \/ QueueLine
    \/ ConnectionLost

LinesSpec == LinesInit /\ [][LinesNext]_lineVars

-----------------------------------------------------------------------------
(* The messages the queue must have been given: those whose line has been     *)
(* read (initStratumProtocol needs no newline behind the last one), but for   *)
(* the answers initStratumProtocol takes for itself.                          *)
LineRead(k) == 3 * k <= consumed \/ 3 * k - 1 <= initial
TakenForItself(k) ==
    \/ written[k][1] = "subscribed"
    \/ written[k][1] = "authorized" /\ 3 * k - 1 <= initial
Delivered == {k \in DOMAIN written : LineRead(k) /\ ~TakenForItself(k)}

(***************************************************************************)
(* However TCP cuts the stream, and whatever the pool interleaves with its   *)
(* answers, at every read of stratumReceiveLoop the queue has been given     *)
(* every message of this connection whose line was read, once and in the     *)
(* order sent, and nothing else, but for the answers initStratumProtocol     *)
(* takes for itself: the two parsers share the stream without losing a       *)
(* newline between them.  (A message's second component is its place in the  *)
(* order sent.)                                                              *)
(***************************************************************************)
MessagesAsSent ==
    phase = "loop" /\ ~HasNewline(networkBuffer) =>
      /\ {messages[i] : i \in DOMAIN messages} = {written[k] : k \in Delivered}
      /\ \A i, j \in DOMAIN messages : i < j => messages[i][2] < messages[j][2]

(***************************************************************************)
(* The process ends with an uncaught parse error only when a read of the     *)
(* initialization stops inside a message, or when the pool writes more       *)
(* before the dispatcher has read the answer to mining.subscribe: an answer  *)
(* whose newline comes later, and notifications after it, are survived.      *)
(***************************************************************************)
SurvivesWholeAnswers ==
    [][phase' = "terminated" =>
         consumed' % 3 = 1 \/ (phase = "subscribe" /\ consumed' > 3)]_lineVars

=============================================================================
