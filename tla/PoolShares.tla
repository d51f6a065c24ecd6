-------------------------------- MODULE PoolShares --------------------------------
(***************************************************************************)
(* The stratum sessions of the pool (stratum/main/client.js, network.js) and *)
(* the validation of shares (manager.js, handleShare): subscription,         *)
(* authorization by the daemons, difficulties on their way to the miner,     *)
(* shares on their way to the pool, duplicate detection, and bans.           *)
(*                                                                           *)
(* A share is the job it was mined for and the text submitted: extraNonce2,  *)
(* nTime and nonce as strings.  Duplicates are looked up among the texts, in *)
(* lower case; the header is built from what the texts decode to, which here *)
(* is a nonce, and its difficulty is given by Weight.                        *)
(***************************************************************************)
EXTENDS Integers, Sequences, SequencesExt

CONSTANTS
    Clients,            \* miners, each with an address of its own
    Difficulties,       \* difficulties a retarget may choose
    Initial,            \* initial difficulty of the port
    Nonces, Weight,     \* contents of a header and the difficulty each one meets
    BlockNonces,        \* those that solve a block
    Texts,              \* texts a share may be submitted as
    HexTexts,           \* those of hexadecimal digits only
    LowerCase,          \* toLowerCase of a text
    Decoded,            \* the nonce that hex decoding makes of a text
    Addresses,          \* wallet addresses a worker name may carry
    ValidAddresses,     \* those the daemon finds valid
    MaxAuthorize,       \* bound on the authorize requests of a session
    MaxJobs,            \* bound on the jobs
    MaxConnects,        \* bound on the connections of a miner
    MaxInFlight,        \* bound on the shares on their way
    MaxCredits,         \* bound on the shares accepted
    CheckThreshold, InvalidPercent  \* banning configuration

Jobs  == 1..MaxJobs
Levels == Difficulties \cup {Initial}

ASSUME SharesAssumption ==
    /\ Initial \in Nat \ {0} /\ Difficulties \subseteq Nat \ {0}
    /\ Weight \in [Nonces -> Nat] /\ BlockNonces \subseteq Nonces
    /\ ValidAddresses \subseteq Addresses
(* Decoding ends at the first character that is not a hexadecimal digit, so   *)
(* it tells only the texts of digits apart, and those up to their case.       *)
ASSUME TextsAssumption ==
    /\ HexTexts \subseteq Texts
    /\ LowerCase \in [Texts -> Texts] /\ Decoded \in [Texts -> Nonces]
    /\ \A x, y \in HexTexts : Decoded[x] = Decoded[y] => LowerCase[x] = LowerCase[y]
ASSUME BoundsAssumption ==
    /\ MaxAuthorize \in Nat /\ MaxJobs \in Nat \ {0} /\ MaxConnects \in Nat
    /\ MaxInFlight \in Nat /\ MaxCredits \in Nat
    /\ CheckThreshold \in Nat \ {0} /\ InvalidPercent \in 0..100

NoAddress == "none"
ASSUME NoAddressAssumption == NoAddress \notin Addresses

VARIABLES
    validJobs,  \* manager.validJobs; the newest is the current job
    newestJob,
    submissions,\* per job: what handleSubmissions has seen
    connected,  \* whether the miner's socket is open
    connects,   \* number of connections each miner made
    banned,     \* network.bannedIPs
    session,    \* the client object of each miner
    asked,      \* per miner: the authorizations asked for, and whether answered
    toMiner,    \* per miner: difficulties sent and not received
    known,      \* per miner: the difficulty it mines at
    toPool,     \* per miner: shares sent and not handled
    credits,    \* shares the manager accepted, in order
    refused     \* miners refused a share that meets the difficulty they know

vars == <<validJobs, newestJob, submissions, connected, connects, banned,
          session, asked, toMiner, known, toPool, credits, refused>>

NewSession ==
    [authorized |-> FALSE, addrPrimary |-> NoAddress, extraNonce1 |-> <<>>,
     difficulty |-> 0, previousDifficulty |-> 0, valid |-> 0, invalid |-> 0]

Init ==
    /\ validJobs = {1} /\ newestJob = 1
    /\ submissions = [j \in Jobs |-> {}]
    /\ connected = [c \in Clients |-> FALSE]
    /\ connects = [c \in Clients |-> 0]
    /\ banned = {}
    /\ session = [c \in Clients |-> NewSession]
    /\ asked = [c \in Clients |-> <<>>]
    /\ toMiner = [c \in Clients |-> <<>>]
    /\ known = [c \in Clients |-> 0]
    /\ toPool = [c \in Clients |-> <<>>]
    /\ credits = <<>>
    /\ refused = {}

-----------------------------------------------------------------------------
(* Sessions.                                                                  *)
(* handleClient and setupClient: a banned address is kicked at once.          *)
Connect(c) ==
    /\ ~connected[c] /\ c \notin banned /\ connects[c] < MaxConnects
    /\ connected' = [connected EXCEPT ![c] = TRUE]
    /\ connects' = [connects EXCEPT ![c] = @ + 1]
    /\ session' = [session EXCEPT ![c] = NewSession]
    /\ asked' = [asked EXCEPT ![c] = <<>>]
    /\ toMiner' = [toMiner EXCEPT ![c] = <<>>]
    /\ known' = [known EXCEPT ![c] = 0]
    /\ toPool' = [toPool EXCEPT ![c] = <<>>]
    /\ UNCHANGED <<validJobs, newestJob, submissions, banned, credits, refused>>

(* The ban has been served: checkBan or the purge interval forgets it.        *)
Forgive(c) ==
    /\ c \in banned
    /\ banned' = banned \ {c}
    /\ UNCHANGED <<validJobs, newestJob, submissions, connected, connects, session,
                   asked, toMiner, known, toPool, credits, refused>>

Disconnect(c) ==
    /\ connected[c]
    /\ connected' = [connected EXCEPT ![c] = FALSE]
    /\ UNCHANGED <<validJobs, newestJob, submissions, connects, banned, session,
                   asked, toMiner, known, toPool, credits, refused>>

(* Mutant: the previous difficulty is not remembered.                         *)
WithDifficultyOnly(s, d) == [s EXCEPT !.difficulty = d]

(* broadcastDifficulty of a difficulty that differs.                          *)
WithDifficulty(s, d) == [s EXCEPT !.previousDifficulty = s.difficulty, !.difficulty = d]

(* extraNonceCounter.next: four random bytes, taken to be fresh.              *)
NextExtraNonce(c) == <<c, connects[c]>>

(* handleSubscribe and client.subscription; a miner does it once a session.   *)
Subscribe(c) ==
    /\ connected[c] /\ session[c].extraNonce1 = <<>>
    /\ session' = [session EXCEPT ![c] =
                     WithDifficulty([@ EXCEPT !.extraNonce1 = NextExtraNonce(c)], Initial)]
    /\ toMiner' = [toMiner EXCEPT ![c] = Append(@, Initial)]
    /\ UNCHANGED <<validJobs, newestJob, submissions, connected, connects, banned,
                   asked, known, toPool, credits, refused>>

(* handleAuthorize: the address is taken over before the daemon is asked.     *)
Authorize(c, a) ==
    /\ connected[c] /\ Len(asked[c]) < MaxAuthorize
    /\ session' = [session EXCEPT ![c].addrPrimary = a]
    /\ asked' = [asked EXCEPT ![c] = Append(@, [address |-> a, answered |-> FALSE])]
    /\ UNCHANGED <<validJobs, newestJob, submissions, connected, connects, banned,
                   toMiner, known, toPool, credits, refused>>

(* The callback of authorizeFn, for any request under way; a daemon that      *)
(* fails counts as an invalid address.                                        *)
Authorized(c, i) ==
    /\ ~asked[c][i].answered
    /\ \E ok \in {asked[c][i].address \in ValidAddresses, FALSE} :
         session' = [session EXCEPT ![c].authorized = ok]
    /\ asked' = [asked EXCEPT ![c][i].answered = TRUE]
    /\ UNCHANGED <<validJobs, newestJob, submissions, connected, connects, banned,
                   toMiner, known, toPool, credits, refused>>

(* A retarget reaches the client with a job.  Retargets are retargetTime      *)
(* apart (90 s), so the previous one is no longer under way.                  *)
Settled(c) ==
    /\ toMiner[c] = <<>>
    /\ \A i \in DOMAIN toPool[c] : toPool[c][i].told \in {0, session[c].difficulty}

Retarget(c, d) ==
    /\ connected[c] /\ session[c].extraNonce1 # <<>> /\ session[c].difficulty # d
    /\ Settled(c)
    /\ session' = [session EXCEPT ![c] = WithDifficulty(@, d)]
    /\ toMiner' = [toMiner EXCEPT ![c] = Append(@, d)]
    /\ UNCHANGED <<validJobs, newestJob, submissions, connected, connects, banned,
                   asked, known, toPool, credits, refused>>

(* handleTemplate or handleUpdates: the old jobs are dropped or stay valid.   *)
NewJob(newBroadcast) ==
    /\ newestJob < MaxJobs
    /\ newestJob' = newestJob + 1
    /\ validJobs' = (IF newBroadcast THEN {} ELSE validJobs) \cup {newestJob'}
    /\ UNCHANGED <<submissions, connected, connects, banned, session, asked, toMiner,
                   known, toPool, credits, refused>>

-----------------------------------------------------------------------------
(* The miner (external).                                                      *)
MinerHears(c) ==
    /\ connected[c] /\ toMiner[c] # <<>>
    /\ known' = [known EXCEPT ![c] = Head(toMiner[c])]
    /\ toMiner' = [toMiner EXCEPT ![c] = Tail(@)]
    /\ UNCHANGED <<validJobs, newestJob, submissions, connected, connects, banned,
                   session, asked, toPool, credits, refused>>

(* Sends a share, possibly one it has sent before or for an old job; `told`   *)
(* is the difficulty the miner knows if the share meets it, and 0 otherwise.  *)
MinerSends(c, j, x) ==
    /\ connected[c] /\ Len(toPool[c]) < MaxInFlight
    /\ j <= newestJob
    /\ toPool' = [toPool EXCEPT ![c] =
                    Append(@, [job |-> j, text |-> x,
                               told |-> IF Weight[Decoded[x]] >= known[c]
                                          THEN known[c] ELSE 0])]
    /\ UNCHANGED <<validJobs, newestJob, submissions, connected, connects, banned,
                   session, asked, toMiner, known, credits, refused>>

-----------------------------------------------------------------------------
(* Submission.                                                                *)

(* shareDiff / difficulty < 0.99 does not hold.                               *)
Meets(n, d) == 100 * Weight[n] >= 99 * d

(* Mutant: a share that is too easy is credited with the previous difficulty. *)
CreditedAnyPrevious(s, n) ==
    IF n \in BlockNonces \/ Meets(n, s.difficulty) THEN s.difficulty ELSE s.previousDifficulty

(* The difficulty handleShare credits, or 0 for a share that is too easy: the *)
(* current one, with a tolerance, or the previous one, without, for a share   *)
(* mined before a change.                                                     *)
CreditedDifficulty(s, n) ==
    IF n \in BlockNonces \/ Meets(n, s.difficulty) THEN s.difficulty
    ELSE IF s.previousDifficulty # 0 /\ Weight[n] >= s.previousDifficulty THEN s.previousDifficulty
    ELSE 0

(* Mutant: the texts are compared as they were sent.                          *)
SubmissionAsSent(s, share) == <<s.extraNonce1, share.text>>

(* The key of template.handleSubmissions.                                     *)
SubmissionKey(s, share) == <<s.extraNonce1, LowerCase[share.text]>>

(* Mutant: submissions of unauthorized workers are handled.                   *)
MaySubmitUnauthorized(s) == s.extraNonce1 # <<>>

(* handleSubmit: authorized and subscribed.                                   *)
MaySubmit(s) == s.authorized /\ s.extraNonce1 # <<>>

(* The checks of handleSubmit and handleShare before the difficulty, those of *)
(* the lengths and the time passed or not; a share that passes all of them is *)
(* remembered even if it is too easy.                                         *)
Fresh(s, share, wellFormed) ==
    /\ MaySubmit(s)
    /\ share.job \in validJobs /\ wellFormed
    /\ SubmissionKey(s, share) \notin submissions[share.job]

(* considerBan: TRUE when the window is full and too many were invalid.       *)
Bans(s) ==
    /\ s.valid + s.invalid >= CheckThreshold
    /\ 100 * s.invalid >= InvalidPercent * (s.valid + s.invalid)

(* Mutant: the window is never closed.                                        *)
CountedForever(s, ok) ==
    IF ok THEN [s EXCEPT !.valid = @ + 1] ELSE [s EXCEPT !.invalid = @ + 1]

(* considerBan's counters after one more share.                               *)
Counted(s, ok) ==
    LET t == IF ok THEN [s EXCEPT !.valid = @ + 1] ELSE [s EXCEPT !.invalid = @ + 1]
    IN  IF t.valid + t.invalid >= CheckThreshold /\ ~Bans(t)
          THEN [t EXCEPT !.valid = 0, !.invalid = 0] ELSE t

(* Without an address from an authorization, that of the submission is used.  *)
Named(s, a) == IF s.addrPrimary = NoAddress THEN [s EXCEPT !.addrPrimary = a] ELSE s

(* The addresses the session of c asked to be authorized.                     *)
NamedBy(c) == {asked[c][i].address : i \in DOMAIN asked[c]}

(* handleSubmit, handleShare and considerBan.  A ban destroys the socket, but *)
(* messages that arrived in the same chunk are still handled.                 *)
HandleSubmit(c, a, wellFormed) ==
    LET share == Head(toPool[c])
        s     == Named(session[c], a)
        fresh == Fresh(s, share, wellFormed)
        d     == CreditedDifficulty(s, Decoded[share.text])
        ok    == fresh /\ d # 0
        t     == Counted(s, ok)
    IN
      /\ toPool[c] # <<>>
      /\ session[c].addrPrimary = NoAddress \/ a = session[c].addrPrimary
      /\ submissions' = IF fresh
                          THEN [submissions EXCEPT ![share.job] = @ \cup {SubmissionKey(s, share)}]
                          ELSE submissions
      /\ credits' = IF ~ok THEN credits
                    ELSE Append(credits, [client |-> c, addrPrimary |-> s.addrPrimary,
                                          difficulty |-> d, extraNonce1 |-> s.extraNonce1,
                                          job |-> share.job, text |-> share.text,
                                          named |-> NamedBy(c)])
      /\ ok => Len(credits) < MaxCredits
      /\ refused' = IF fresh /\ ~ok /\ share.told # 0 THEN refused \cup {c} ELSE refused
      /\ session' = [session EXCEPT ![c] = t]
      /\ \/ /\ Bans(t)
            /\ banned' = banned \cup {c}
            /\ connected' = [connected EXCEPT ![c] = FALSE]
            /\ \E rest \in {Tail(toPool[c]), <<>>} : toPool' = [toPool EXCEPT ![c] = rest]
         \/ /\ ~Bans(t)
            /\ toPool' = [toPool EXCEPT ![c] = Tail(@)]
            /\ UNCHANGED <<banned, connected>>
      /\ UNCHANGED <<validJobs, newestJob, connects, asked, toMiner, known>>

Next ==
    \/ \E newBroadcast \in BOOLEAN : NewJob(newBroadcast)
    \/ \E c \in Clients :
         \/ Connect(c) \/ Forgive(c) \/ Disconnect(c)
         \/ Subscribe(c)
         \/ \E a \in Addresses : Authorize(c, a)
         \/ \E a \in Addresses, ok \in BOOLEAN : HandleSubmit(c, a, ok)
         \/ \E i \in DOMAIN asked[c] : Authorized(c, i)
         \/ \E d \in Difficulties : Retarget(c, d)
         \/ MinerHears(c)
         \/ \E j \in Jobs, x \in Texts : MinerSends(c, j, x)

Spec == Init /\ [][Next]_vars

-----------------------------------------------------------------------------
Share == [job : Jobs, text : Texts, told : {0} \cup Levels]
Asked == [address : Addresses, answered : BOOLEAN]

(* Type invariant; the ban window of an open connection is never full.        *)
TypeOK ==
    /\ validJobs \subseteq Jobs /\ newestJob \in validJobs
    /\ connected \in [Clients -> BOOLEAN]
    /\ connects \in [Clients -> 0..MaxConnects]
    /\ banned \subseteq Clients /\ refused \subseteq Clients
    /\ \A c \in Clients :
         /\ session[c].authorized \in BOOLEAN
         /\ session[c].addrPrimary \in Addresses \cup {NoAddress}
         /\ session[c].difficulty \in {0} \cup Levels
         /\ session[c].previousDifficulty \in {0} \cup Levels
         /\ connected[c] => session[c].valid + session[c].invalid < CheckThreshold
         /\ asked[c] \in Seq(Asked)
         /\ toMiner[c] \in Seq(Levels)
         /\ known[c] \in {0} \cup Levels
         /\ toPool[c] \in Seq(Share)

(* Two credits for one header.                                                *)
SameHeader(r, q) ==
    /\ r.job = q.job /\ r.extraNonce1 = q.extraNonce1
    /\ Decoded[r.text] = Decoded[q.text]

(***************************************************************************)
(* No work is paid twice to miners that submit hexadecimal digits: two such  *)
(* credits are never for the same header, in whichever case it is written,   *)
(* whatever is resent, for whichever of the valid jobs, over whichever       *)
(* connections, before and after bans (handleSubmissions).  Other texts of   *)
(* the right length may decode to the header of another share and are then   *)
(* credited again, since texts are what the code compares.                   *)
(***************************************************************************)
CreditedOnce ==
    \A i, k \in DOMAIN credits :
      SameHeader(credits[i], credits[k]) /\ {credits[i].text, credits[k].text} \subseteq HexTexts
        => i = k

(***************************************************************************)
(* No share but a block is credited with more than it meets by more than the *)
(* tolerance of handleShare, also in the window in which the previous        *)
(* difficulty is still honoured.                                             *)
(***************************************************************************)
CreditIsCovered ==
    \A i \in DOMAIN credits :
      LET n == Decoded[credits[i].text]
      IN  n \notin BlockNonces => 100 * Weight[n] >= 99 * credits[i].difficulty

(***************************************************************************)
(* A miner is never refused a share for its difficulty while a retarget is   *)
(* on its way to it: shares mined at the difficulty it still knows meet the  *)
(* previousDifficulty (broadcastDifficulty, handleShare).                    *)
(***************************************************************************)
HonestSharesAccepted == refused = {}

(***************************************************************************)
(* "Check that Client is Authorized": shares are credited to an address that *)
(* the daemon found valid (handleAuthorize, handleSubmit).  A session that   *)
(* authorizes again has its address replaced before the daemon has answered, *)
(* and stays authorized meanwhile.                                           *)
(***************************************************************************)
CreditsValidAddress ==
    \A i \in DOMAIN credits : credits[i].addrPrimary \in ValidAddresses

(***************************************************************************)
(* Whatever order the daemon's answers arrive in, a credit goes to an        *)
(* address its session asked to be authorized, and the daemon found one of   *)
(* those valid: a session that names a single address is credited to a valid *)
(* one or not at all (handleAuthorize, handleSubmit).                        *)
(***************************************************************************)
CreditsNamedAddress ==
    \A i \in DOMAIN credits :
      /\ credits[i].addrPrimary \in credits[i].named
      /\ credits[i].named \cap ValidAddresses # {}

=============================================================================
