--------------------------------- MODULE VarDiff ---------------------------------
(***************************************************************************)
(* Variable difficulty of one pool port (stratum/main/difficulty.js) and the *)
(* part of client.js that hands a difficulty to the miner: a retarget queues *)
(* a difficulty, and the next job broadcast makes it the client's.           *)
(*                                                                           *)
(* Times are in seconds.  Difficulties are integers, in units of the last    *)
(* decimal that toFixed(8) keeps.                                            *)
(***************************************************************************)
EXTENDS Integers, Sequences

CONSTANTS
    Miners,        \* connected clients
    InitialDifficulty, Minimum, Maximum,  \* difficulty limits of the port
    TargetTime, RetargetTime,
    Variance,       \* in percent
    Flags,          \* difficulties a password may ask for
    MaxTime         \* bound on the clock

ASSUME LimitsAssumption ==
    /\ Minimum \in Nat \ {0} /\ Maximum \in Nat /\ InitialDifficulty \in Minimum..Maximum
    /\ Flags \subseteq Nat \ {0}
ASSUME TimesAssumption ==
    /\ TargetTime \in Nat \ {0} /\ RetargetTime \in Nat \ {0}
    /\ Variance \in 0..99 /\ MaxTime \in Nat

None == -1

(* Before any time that a first share sets lastRetargetTime to.               *)
Never == -RetargetTime

VARIABLES
    now,                \* Date.now()
    lastRetargetTime,   \* Never before the first share of the port
    lastSavedTime,      \* None before it
    queue,              \* clients[id]: the recorded intervals
    difficulty,         \* client.difficulty; 0 before the subscription
    pendingDifficulty,  \* client.pendingDifficulty, or None
    staticDifficulty    \* client.staticDifficulty

difficultyVars == <<now, lastRetargetTime, lastSavedTime, queue, difficulty,
          pendingDifficulty, staticDifficulty>>

VarDiffInit ==
    /\ now = 0
    /\ lastRetargetTime = Never /\ lastSavedTime = None
    /\ queue = [c \in Miners |-> <<>>]
    /\ difficulty = [c \in Miners |-> 0]
    /\ pendingDifficulty = [c \in Miners |-> None]
    /\ staticDifficulty = [c \in Miners |-> FALSE]

-----------------------------------------------------------------------------
(* queue.reduce: the sum of the intervals.                                    *)
Total(q) ==
    LET sum[k \in 0..Len(q)] == IF k = 0 THEN 0 ELSE sum[k - 1] + q[k]
    IN  sum[Len(q)]

(* Comparisons of the average interval with maxTime and minTime; the code     *)
(* calls the lower limit maxTime and the upper one minTime.                   *)
AboveMaxTime(q) == 100 * Total(q) > Len(q) * TargetTime * (100 - Variance)
BelowMinTime(q) == 100 * Total(q) < Len(q) * TargetTime * (100 + Variance)

(* Mutant: the ratio of average and target is turned around.                  *)
ScaledInverse(d, q) == (2 * d * Total(q) + TargetTime * Len(q)) \div (2 * TargetTime * Len(q))

(* client.difficulty * targetTime / average, rounded; Total(q) # 0.           *)
Scaled(d, q) == (2 * d * TargetTime * Len(q) + Total(q)) \div (2 * Total(q))

ShiftsDown(d, q) == AboveMaxTime(q) /\ d > Minimum
ShiftsUp(d, q)   == ~ShiftsDown(d, q) /\ BelowMinTime(q) /\ d < Maximum

(* checkDifficulty: the new difficulty, or None.  The limits are only applied *)
(* in the direction the branch is named for; an average of 0 gives Maximum.   *)
CheckDifficulty(d, q) ==
    CASE ShiftsDown(d, q) -> IF Scaled(d, q) < Minimum THEN Minimum ELSE Scaled(d, q)
      [] ShiftsUp(d, q)   -> IF Total(q) = 0 \/ Scaled(d, q) > Maximum THEN Maximum ELSE Scaled(d, q)
      [] OTHER            -> None

(* The window holds retargetTime / targetTime * 4 intervals.                  *)
Appended(q, x) ==
    Append(IF Len(q) * TargetTime >= 4 * RetargetTime THEN Tail(q) ELSE q, x)

(* client.enqueueDifficulty.                                                  *)
Enqueued(c, d) ==
    IF staticDifficulty[c] THEN pendingDifficulty
    ELSE [pendingDifficulty EXCEPT ![c] = d]

-----------------------------------------------------------------------------
(* The first share on the port only starts its clocks.                        *)
FirstShare(c) ==
    /\ lastRetargetTime = Never
    /\ lastRetargetTime' = now - RetargetTime \div 2
    /\ UNCHANGED <<queue, pendingDifficulty>>

LaterShare(c) ==
    LET q == Appended(queue[c], now - lastSavedTime)
        d == CheckDifficulty(difficulty[c], q)
    IN
      /\ lastRetargetTime # Never
      /\ queue' = [queue EXCEPT ![c] = q]
      /\ \/ /\ now - lastRetargetTime < RetargetTime
            /\ UNCHANGED <<lastRetargetTime, pendingDifficulty>>
         \/ /\ now - lastRetargetTime >= RetargetTime
            /\ lastRetargetTime' = now
            /\ pendingDifficulty' = IF d = None THEN pendingDifficulty ELSE Enqueued(c, d)

(* handleDifficulty, for every share a subscribed client submits.             *)
Submit(c) ==
    /\ difficulty[c] # 0
    /\ FirstShare(c) \/ LaterShare(c)
    /\ lastSavedTime' = now
    /\ UNCHANGED <<now, difficulty, staticDifficulty>>

(* broadcastMiningJob: a pending difficulty that differs becomes current and  *)
(* empties the window.                                                        *)
BroadcastMiningJob(c) ==
    /\ difficulty[c] # 0 /\ pendingDifficulty[c] # None
    /\ difficulty' = [difficulty EXCEPT ![c] = pendingDifficulty[c]]
    /\ queue' = [queue EXCEPT ![c] = IF difficulty'[c] # difficulty[c] THEN <<>> ELSE @]
    /\ pendingDifficulty' = [pendingDifficulty EXCEPT ![c] = None]
    /\ UNCHANGED <<now, lastRetargetTime, lastSavedTime, staticDifficulty>>

(* client.subscription: the initial difficulty, then a job with what is       *)
(* pending.  The window survives a new subscription unless a pending          *)
(* difficulty replaces the initial one.                                       *)
Subscription(c) ==
    LET d == pendingDifficulty[c] IN
      /\ difficulty' = [difficulty EXCEPT ![c] = IF d # None THEN d ELSE InitialDifficulty]
      /\ queue' = [queue EXCEPT ![c] = IF d \notin {None, InitialDifficulty} THEN <<>> ELSE @]
      /\ pendingDifficulty' = [pendingDifficulty EXCEPT ![c] = None]
      /\ UNCHANGED <<now, lastRetargetTime, lastSavedTime, staticDifficulty>>

(* handleAuthorize with a difficulty in the password.                         *)
AuthorizeWithFlag(c) ==
    /\ \E d \in Flags : pendingDifficulty' = Enqueued(c, d)
    /\ staticDifficulty' = [staticDifficulty EXCEPT ![c] = TRUE]
    /\ UNCHANGED <<now, lastRetargetTime, lastSavedTime, queue, difficulty>>

Tick ==
    /\ now < MaxTime
    /\ now' = now + 1
    /\ UNCHANGED <<lastRetargetTime, lastSavedTime, queue, difficulty,
                   pendingDifficulty, staticDifficulty>>

VarDiffNext ==
    \/ Tick
    \/ \E c \in Miners :
         \/ Submit(c)
         \/ BroadcastMiningJob(c)
         \/ Subscription(c)
         \/ AuthorizeWithFlag(c)

VarDiffSpec == VarDiffInit /\ [][VarDiffNext]_difficultyVars

-----------------------------------------------------------------------------
(* Type invariant; the window never outgrows maxSize.                         *)
VarDiffTypeOK ==
    /\ now \in 0..MaxTime
    /\ lastRetargetTime \in Int /\ lastSavedTime \in {None} \cup 0..MaxTime
    /\ \A c \in Miners : /\ queue[c] \in Seq(0..MaxTime)
                          /\ Len(queue[c]) * TargetTime < 4 * RetargetTime + TargetTime
    /\ difficulty \in [Miners -> Nat]
    /\ pendingDifficulty \in [Miners -> Nat \cup {None}]
    /\ staticDifficulty \in [Miners -> BOOLEAN]

(***************************************************************************)
(* A retarget moves the right way, and not beyond the port's limit, whenever *)
(* the window is outside the variance: intervals that are too long never     *)
(* raise a difficulty, and intervals that are too short never lower one      *)
(* (checkDifficulty, both branches).  Inside the variance either branch may  *)
(* move the difficulty either way, and beyond the limit it does not apply.   *)
(***************************************************************************)
RetargetsTowardsTarget ==
    [][\A c \in Miners :
         pendingDifficulty'[c] # pendingDifficulty[c] /\ queue'[c] # queue[c]
           /\ pendingDifficulty'[c] # None =>
             /\ ~BelowMinTime(queue'[c]) => pendingDifficulty'[c] \in Minimum..difficulty[c]
             /\ ~AboveMaxTime(queue'[c]) => pendingDifficulty'[c] \in difficulty[c]..Maximum]_difficultyVars

=============================================================================
