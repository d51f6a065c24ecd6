---------------------------- MODULE DispatcherState ----------------------------
(***************************************************************************)
(* What the threads of the Qubic Doge Dispatcher share: the two queues, the  *)
(* table of active tasks, the state of the stratum connection and the stop   *)
(* tokens, all created in main() and passed to the threads by reference.     *)
(*                                                                           *)
(* A ConcurrentQueue is represented by the append-only log of everything     *)
(* that was pushed on it and the number of elements taken off: its contents  *)
(* are the suffix of the log behind that number.  Log positions then name    *)
(* the messages, so "the job of notify 3" or "the difficulty in force at     *)
(* message 5" can be said without numbering the messages themselves.         *)
(***************************************************************************)
EXTENDS Integers, Sequences, FiniteSets

CONSTANTS
    Difficulties,   \* values the pool sends in mining.set_difficulty
    Keys,           \* the (nonce, extraNonce2) pairs miners find
    NTimes,         \* the miners' rolling block timestamps
    OtherRoots,     \* merkle roots a solution may carry beside that of its task
    Hash,           \* Hash[n, r, k, t]: difficulty met by the scrypt hash of the
                    \* header of notify n with merkle root r, key k, timestamp t
    PoolMessages,   \* messages the pool sends of its own accord
    MayQuit,        \* whether the user may press 'q'
    MaxReceived,    \* bound on messages the pool sends
    MaxSolutions,   \* bound on solutions the Qubic network sends
    MaxClock,       \* bound on the millisecond clock
    MaxSession      \* bound on TCP connections opened to the pool

ASSUME DifficultiesAssumption == Difficulties \subseteq Nat
ASSUME BoundsAssumption ==
    /\ MaxReceived \in Nat /\ MaxSolutions \in Nat
    /\ MaxClock \in Nat \ {0} /\ MaxSession \in Nat \ {0}
ASSUME SharesAssumption == Keys # {} /\ NTimes # {}

VARIABLES
    received,       \* recvStratumMessages: every message pushed on it ...
    taken,          \* ... and how many of them were popped
    solutions,      \* recvQubicSolutions: every solution pushed on it ...
    solTaken,       \* ... and how many of them were popped
    activeTasks,    \* job id -> task, for the tasks solutions are accepted for
    connected,      \* stratumConnection.isConnected()
    session,        \* number of TCP connections opened to the pool so far
    extraNonce1,    \* session whose extraNonce1 the shared vector holds
    stopRequested   \* threads whose stop token was triggered

sharedVars == <<received, taken, solutions, solTaken, activeTasks,
                connected, session, extraNonce1, stopRequested>>

-----------------------------------------------------------------------------
(* Stratum messages.  "wellFormed" is the outcome of distributeTask's checks  *)
(* of the field sizes and of the total size; a message without id, with a      *)
(* string id or with an unknown method is "ignored".                           *)
Notify        == [kind : {"notify"}, clean : BOOLEAN, wellFormed : BOOLEAN]
SetDifficulty == [kind : {"set_difficulty"}, diff : Difficulties]
Response      == [kind : {"response"}, id : Nat, verdict : {"accepted", "rejected", "other"}]
Ignored       == [kind : {"ignored"}]

Message == Notify \cup SetDifficulty \cup Response \cup Ignored

ASSUME PoolMessagesAssumption ==
    PoolMessages \subseteq Notify \cup SetDifficulty \cup Ignored
ASSUME MayQuitAssumption == MayQuit \in BOOLEAN

(* DispatcherMiningTask: the pool's job (named by its notify's position),     *)
(* the share difficulty it is validated against and the session whose          *)
(* extraNonce1 went into its coinbase.                                         *)
Task   == [notify : Nat, target : Nat, extraNonce1 : Nat]
NoTask == [notify |-> 0, target |-> 0, extraNonce1 |-> 0]

(* A merkle root, named by what it is computed from beside the key: the job   *)
(* and the session whose extraNonce1 is in the coinbase.  Other bytes that a  *)
(* sender may put into the field name no job.                                 *)
MerkleRoot == [notify : Nat, extraNonce1 : Nat]
OtherBytes == [notify |-> 0, extraNonce1 |-> 0]

(* The root a miner computes from the task it was sent.                       *)
RootOf(t) == [notify |-> t.notify, extraNonce1 |-> t.extraNonce1]

ASSUME OtherRootsAssumption == OtherRoots \subseteq MerkleRoot
ASSUME HashAssumption ==
    Hash \in [(1..MaxReceived) \X [notify : 0..MaxReceived, extraNonce1 : 0..MaxSession]
                 \X Keys \X NTimes -> Nat]

(* DispatcherMiningSolution, with the root its sender claims.  The            *)
(* default-constructed one carries job id 0.                                  *)
Solution == [jobId : Nat, key : Keys, nTime : NTimes, root : MerkleRoot]

ZeroSolution == [jobId |-> 0, key |-> CHOOSE k \in Keys : TRUE,
                 nTime |-> CHOOSE t \in NTimes : TRUE, root |-> OtherBytes]

Threads == {"stratumRecv", "taskDist", "qubicRecv", "shareValid"}

SharedTypeOK ==
    /\ received \in Seq(Message) /\ taken \in 0..Len(received)
    /\ solutions \in Seq(Solution) /\ solTaken \in 0..Len(solutions)
    /\ activeTasks \in [DOMAIN activeTasks -> Task] /\ DOMAIN activeTasks \subseteq Nat
    /\ connected \in BOOLEAN
    /\ session \in Nat /\ extraNonce1 \in Nat
    /\ stopRequested \subseteq Threads

-----------------------------------------------------------------------------
(* ConcurrentQueue::push, pop and try_pop on the two queues.                   *)
PushMessage(m)    == received' = Append(received, m)
MessagesWaiting   == taken < Len(received)
PopMessage        == MessagesWaiting /\ taken' = taken + 1
FrontMessage      == received[taken + 1]

PushSolution(s)   == solutions' = Append(solutions, s)
PopSolution       == solTaken < Len(solutions) /\ solTaken' = solTaken + 1
FrontSolution     == solutions[solTaken + 1]

(* ConcurrentHashMap::insert overwrites, as the program's m_map[key] = value. *)
Insert(map, k, v) == [j \in DOMAIN map \cup {k} |-> IF j = k THEN v ELSE map[j]]
EmptyMap          == [j \in {} |-> 0]

StopRequested(t)  == t \in stopRequested

(* Connection::sendMessage on the stratum socket.  Not connected: nothing is   *)
(* sent.  A failing send only clears isConnected; the stratum thread finds out *)
(* at its next read.                                                           *)
SendOutcomes == IF connected THEN {"sent", "failed"} ELSE {"failed"}

=============================================================================
