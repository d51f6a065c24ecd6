---------------------------- MODULE PoolSharesProofs ----------------------------
(***************************************************************************)
(* Proofs about PoolShares, for every value of its constants: any number of   *)
(* miners, jobs, nonces and difficulties, and any banning configuration; and  *)
(* about the variable difficulty of a port: the types of its state, the bound *)
(* on its windows, and the direction of every retarget, for every             *)
(* configuration, number of miners and timing of their shares.                *)
(***************************************************************************)
EXTENDS MCPoolShares, InductionLemmas, SequenceTheorems, TLAPS

-----------------------------------------------------------------------------
(* Types.                                                                     *)
Names == Addresses \cup {NoAddress}
ExtraNonces == {<<>>} \cup (Clients \X Nat)
KnownLevels == {0} \cup Levels

Session ==
    [authorized : BOOLEAN, addrPrimary : Names, extraNonce1 : ExtraNonces,
     difficulty : KnownLevels, previousDifficulty : KnownLevels, valid : Nat, invalid : Nat]

Credit ==
    [client : Clients, addrPrimary : Names, difficulty : KnownLevels,
     extraNonce1 : ExtraNonces, job : Jobs, text : Texts, named : SUBSET Addresses]

LEMMA LevelsNatural == KnownLevels \subseteq Nat
BY SharesAssumption DEF KnownLevels, Levels

(* The types of TypeOK, per variable, and those it leaves out.                *)
VariableTypes ==
    /\ validJobs \subseteq Jobs /\ newestJob \in validJobs
    /\ submissions \in [Jobs -> SUBSET (ExtraNonces \X Texts)]
    /\ connected \in [Clients -> BOOLEAN]
    /\ connects \in [Clients -> 0..MaxConnects]
    /\ banned \subseteq Clients /\ refused \subseteq Clients
    /\ session \in [Clients -> Session]
    /\ asked \in [Clients -> Seq(Asked)]
    /\ toMiner \in [Clients -> Seq(Levels)]
    /\ known \in [Clients -> KnownLevels]
    /\ toPool \in [Clients -> Seq(Share)]
    /\ credits \in Seq(Credit)

(* The ban window of an open connection is never full: considerBan has closed *)
(* it or the connection.                                                      *)
WindowOpen ==
    \A c \in Clients : connected[c] => session[c].valid + session[c].invalid < CheckThreshold

TypeInv == VariableTypes /\ WindowOpen

LEMMA TypeInvImpliesTypeOK == TypeInv => TypeOK
BY DEF TypeInv, VariableTypes, WindowOpen, TypeOK, Session, Names, KnownLevels

LEMMA NewSessionType == NewSession \in Session
BY DEF NewSession, Session, Names, ExtraNonces, KnownLevels

LEMMA TypeInit == Init => TypeInv
<1> SUFFICES ASSUME Init PROVE TypeInv
    OBVIOUS
<1>1. VariableTypes
  <2>1. session \in [Clients -> Session]
    BY NewSessionType DEF Init
  <2>2. 1 \in Jobs
    BY BoundsAssumption DEF Jobs
  <2>3. connects \in [Clients -> 0..MaxConnects]
    BY BoundsAssumption DEF Init
  <2>4. QED
    BY <2>1, <2>2, <2>3 DEF Init, VariableTypes, KnownLevels
<1>2. WindowOpen
  BY BoundsAssumption DEF Init, WindowOpen
<1>3. QED
  BY <1>1, <1>2 DEF TypeInv

(* A queue keeps its type when an element is added or the first is taken.     *)
LEMMA QueueTypes ==
    ASSUME NEW S, NEW q \in Seq(S)
    PROVE  /\ \A e \in S : Append(q, e) \in Seq(S)
           /\ q # <<>> => /\ Head(q) \in S /\ Tail(q) \in Seq(S)
                          /\ Len(q) \in Nat \ {0} /\ Head(q) = q[1]
                          /\ Len(Tail(q)) = Len(q) - 1
                          /\ \A i \in 1..(Len(q) - 1) : Tail(q)[i] = q[i + 1]
OBVIOUS

(* What a callback of authorizeFn does to the requests of its session.        *)
Answered(q, i) == [q EXCEPT ![i].answered = TRUE]

LEMMA AnsweredType ==
    ASSUME NEW q \in Seq(Asked), NEW i \in DOMAIN q
    PROVE  /\ Answered(q, i) \in Seq(Asked) /\ DOMAIN Answered(q, i) = DOMAIN q
           /\ \A k \in DOMAIN q : Answered(q, i)[k].address = q[k].address
<1>1. \A k \in DOMAIN q : q[k] \in Asked
  OBVIOUS
<1>2. [q[i] EXCEPT !.answered = TRUE] \in Asked
      /\ [q[i] EXCEPT !.answered = TRUE].address = q[i].address
  BY <1>1 DEF Asked
<1>3. QED
  BY <1>1, <1>2 DEF Answered

LEMMA WithDifficultyType ==
    ASSUME NEW s \in Session, NEW d \in Levels
    PROVE  /\ WithDifficulty(s, d) \in Session
           /\ WithDifficulty(s, d).valid = s.valid /\ WithDifficulty(s, d).invalid = s.invalid
           /\ WithDifficulty(s, d).difficulty = d
           /\ WithDifficulty(s, d).previousDifficulty = s.difficulty
           /\ WithDifficulty(s, d).extraNonce1 = s.extraNonce1
           /\ WithDifficulty(s, d).authorized = s.authorized
           /\ WithDifficulty(s, d).addrPrimary = s.addrPrimary
<1> DEFINE t == [s EXCEPT !.previousDifficulty = s.difficulty, !.difficulty = d]
<1>1. s.difficulty \in KnownLevels /\ d \in KnownLevels
  BY DEF Session, KnownLevels
<1>2. t \in Session
  BY <1>1 DEF Session
<1>3. /\ t.valid = s.valid /\ t.invalid = s.invalid /\ t.difficulty = d
      /\ t.previousDifficulty = s.difficulty /\ t.extraNonce1 = s.extraNonce1
      /\ t.authorized = s.authorized /\ t.addrPrimary = s.addrPrimary
  BY DEF Session
<1>4. t = WithDifficulty(s, d)
  BY DEF WithDifficulty
<1>5. QED
  BY <1>2, <1>3, <1>4

(* What handleSubmit may change in a session: the address if there is none,   *)
(* and the ban window.                                                        *)
LEMMA SubmitSession ==
    ASSUME NEW s \in Session, NEW a \in Addresses, NEW ok \in BOOLEAN,
           NEW n, n = Named(s, a), NEW t, t = Counted(n, ok)
    PROVE  /\ n \in Session /\ t \in Session
           /\ n.extraNonce1 = s.extraNonce1 /\ t.extraNonce1 = n.extraNonce1
           /\ n.authorized = s.authorized /\ t.authorized = n.authorized
           /\ n.difficulty = s.difficulty /\ t.difficulty = n.difficulty
           /\ n.previousDifficulty = s.previousDifficulty
           /\ t.previousDifficulty = n.previousDifficulty
           /\ t.addrPrimary = n.addrPrimary
           /\ n.addrPrimary = IF s.addrPrimary = NoAddress THEN a ELSE s.addrPrimary
           /\ ~Bans(t) => t.valid + t.invalid < CheckThreshold
<1> DEFINE u == IF ok THEN [n EXCEPT !.valid = @ + 1] ELSE [n EXCEPT !.invalid = @ + 1]
<1>1. /\ n \in Session
      /\ n.extraNonce1 = s.extraNonce1 /\ n.authorized = s.authorized
      /\ n.difficulty = s.difficulty /\ n.previousDifficulty = s.previousDifficulty
      /\ n.addrPrimary = IF s.addrPrimary = NoAddress THEN a ELSE s.addrPrimary
  BY DEF Named, Session, Names
<1>2. /\ u \in Session
      /\ u.extraNonce1 = n.extraNonce1 /\ u.authorized = n.authorized
      /\ u.difficulty = n.difficulty /\ u.previousDifficulty = n.previousDifficulty
      /\ u.addrPrimary = n.addrPrimary
  BY <1>1 DEF Session
<1>3. t = IF u.valid + u.invalid >= CheckThreshold /\ ~Bans(u)
            THEN [u EXCEPT !.valid = 0, !.invalid = 0] ELSE u
  BY DEF Counted
<1> HIDE DEF u
<1>4. CASE u.valid + u.invalid >= CheckThreshold /\ ~Bans(u)
  <2>1. t = [u EXCEPT !.valid = 0, !.invalid = 0]
    BY <1>3, <1>4
  <2>2. 0 \in Nat
    OBVIOUS
  <2>3. t \in Session
    BY <1>2, <2>1, <2>2 DEF Session
  <2>4. /\ t.extraNonce1 = u.extraNonce1 /\ t.authorized = u.authorized
        /\ t.difficulty = u.difficulty /\ t.previousDifficulty = u.previousDifficulty
        /\ t.addrPrimary = u.addrPrimary
    BY <1>2, <2>1 DEF Session
  <2>5. t.valid = 0 /\ t.invalid = 0
    BY <1>2, <2>1 DEF Session
  <2>6. t.valid + t.invalid < CheckThreshold
    BY <2>5, BoundsAssumption
  <2>7. QED
    BY <1>1, <1>2, <2>3, <2>4, <2>6
<1>5. CASE ~(u.valid + u.invalid >= CheckThreshold /\ ~Bans(u))
  <2>1. t = u
    BY <1>3, <1>5
  <2>2. u.valid \in Nat /\ u.invalid \in Nat
    BY <1>2 DEF Session
  <2>3. ~Bans(t) => t.valid + t.invalid < CheckThreshold
    BY <1>5, <2>1, <2>2, BoundsAssumption
  <2>4. QED
    BY <1>1, <1>2, <2>1, <2>3
<1>6. QED
  BY <1>4, <1>5

LEMMA NamedType ==
    ASSUME asked \in [Clients -> Seq(Asked)], NEW c \in Clients
    PROVE  NamedBy(c) \subseteq Addresses
<1>1. \A i \in DOMAIN asked[c] : asked[c][i] \in Asked
  OBVIOUS
<1>2. QED
  BY <1>1 DEF NamedBy, Asked

LEMMA CreditedType ==
    ASSUME NEW s \in Session, NEW n \in Nonces
    PROVE  CreditedDifficulty(s, n) \in KnownLevels
BY DEF CreditedDifficulty, Session, KnownLevels

(* The parts of HandleSubmit by the names its definition gives them.          *)
SubmitEffect(c, a, w, share, s, t, d, fresh, ok) ==
    /\ toPool[c] # <<>> /\ share = Head(toPool[c])
    /\ s.extraNonce1 = session[c].extraNonce1
    /\ s.authorized = session[c].authorized
    /\ s.difficulty = session[c].difficulty
    /\ s.previousDifficulty = session[c].previousDifficulty
    /\ s.addrPrimary = IF session[c].addrPrimary = NoAddress
                         THEN a ELSE session[c].addrPrimary
    /\ t.extraNonce1 = s.extraNonce1 /\ t.authorized = s.authorized
    /\ t.difficulty = s.difficulty /\ t.previousDifficulty = s.previousDifficulty
    /\ t.addrPrimary = s.addrPrimary
    /\ fresh <=> Fresh(s, share, w)
    /\ d = CreditedDifficulty(s, Decoded[share.text])
    /\ ok <=> fresh /\ d # 0
    /\ submissions' = IF fresh
         THEN [submissions EXCEPT ![share.job] = @ \cup {SubmissionKey(s, share)}]
         ELSE submissions
    /\ credits' = IF ~ok THEN credits
         ELSE Append(credits, [client |-> c, addrPrimary |-> s.addrPrimary,
                               difficulty |-> d, extraNonce1 |-> s.extraNonce1,
                               job |-> share.job, text |-> share.text,
                               named |-> NamedBy(c)])
    /\ refused' = IF fresh /\ ~ok /\ share.told # 0 THEN refused \cup {c} ELSE refused
    /\ session' = [session EXCEPT ![c] = t]
    /\ \/ /\ connected' = [connected EXCEPT ![c] = FALSE]
          /\ banned' = banned \cup {c}
       \/ /\ UNCHANGED <<banned, connected>>
          /\ t.valid + t.invalid < CheckThreshold
    /\ \E rest \in {Tail(toPool[c]), <<>>} : toPool' = [toPool EXCEPT ![c] = rest]
    /\ UNCHANGED <<validJobs, newestJob, connects, asked, toMiner, known>>

LEMMA SubmitParts ==
    ASSUME TypeInv, NEW c \in Clients, NEW a \in Addresses, NEW w \in BOOLEAN,
           HandleSubmit(c, a, w)
    PROVE  \E share \in Share, s \in Session, t \in Session, d \in KnownLevels,
              fresh \in BOOLEAN, ok \in BOOLEAN : SubmitEffect(c, a, w, share, s, t, d, fresh, ok)
<1> DEFINE share == Head(toPool[c])
           s     == Named(session[c], a)
           fresh == Fresh(s, share, w)
           d     == CreditedDifficulty(s, Decoded[share.text])
           ok    == fresh /\ d # 0
           t     == Counted(s, ok)
<1>1. session[c] \in Session /\ toPool[c] \in Seq(Share) /\ toPool[c] # <<>>
  BY DEF TypeInv, VariableTypes, HandleSubmit
<1>2. share \in Share /\ Decoded[share.text] \in Nonces
  <2>1. share \in Share
    BY <1>1, QueueTypes
  <2>2. QED
    BY <2>1, TextsAssumption DEF Share
<1>3. fresh \in BOOLEAN /\ ok \in BOOLEAN
  BY Zenon DEF Fresh
<1>4. /\ s \in Session /\ t \in Session
      /\ s.extraNonce1 = session[c].extraNonce1 /\ t.extraNonce1 = s.extraNonce1
      /\ s.authorized = session[c].authorized /\ t.authorized = s.authorized
      /\ s.difficulty = session[c].difficulty /\ t.difficulty = s.difficulty
      /\ s.previousDifficulty = session[c].previousDifficulty
      /\ t.previousDifficulty = s.previousDifficulty
      /\ t.addrPrimary = s.addrPrimary
      /\ s.addrPrimary = IF session[c].addrPrimary = NoAddress
                           THEN a ELSE session[c].addrPrimary
      /\ ~Bans(t) => t.valid + t.invalid < CheckThreshold
  <2>1. s = Named(session[c], a) /\ t = Counted(s, ok)
    OBVIOUS
  <2> HIDE DEF ok, s, t
  <2>2. QED
    BY <1>1, <1>3, <2>1, SubmitSession
<1>5. d \in KnownLevels
  BY <1>2, <1>4, CreditedType
<1>6. /\ submissions' = IF fresh
           THEN [submissions EXCEPT ![share.job] = @ \cup {SubmissionKey(s, share)}]
           ELSE submissions
      /\ credits' = IF ~ok THEN credits
           ELSE Append(credits, [client |-> c, addrPrimary |-> s.addrPrimary,
                                 difficulty |-> d, extraNonce1 |-> s.extraNonce1,
                                 job |-> share.job, text |-> share.text,
                                 named |-> NamedBy(c)])
      /\ refused' = IF fresh /\ ~ok /\ share.told # 0 THEN refused \cup {c} ELSE refused
      /\ session' = [session EXCEPT ![c] = t]
      /\ \/ /\ Bans(t)
            /\ banned' = banned \cup {c}
            /\ connected' = [connected EXCEPT ![c] = FALSE]
            /\ \E rest \in {Tail(toPool[c]), <<>>} : toPool' = [toPool EXCEPT ![c] = rest]
         \/ /\ ~Bans(t)
            /\ toPool' = [toPool EXCEPT ![c] = Tail(@)]
            /\ UNCHANGED <<banned, connected>>
      /\ UNCHANGED <<validJobs, newestJob, connects, asked, toMiner, known>>
  BY Zenon DEF HandleSubmit
<1>7. /\ \/ connected' = [connected EXCEPT ![c] = FALSE] /\ banned' = banned \cup {c}
         \/ UNCHANGED <<banned, connected>> /\ t.valid + t.invalid < CheckThreshold
      /\ \E rest \in {Tail(toPool[c]), <<>>} : toPool' = [toPool EXCEPT ![c] = rest]
  <2>1. c \in DOMAIN toPool
    BY DEF TypeInv, VariableTypes
  <2> HIDE DEF t
  <2>2. CASE Bans(t)
    BY <1>6, <2>2
  <2>3. CASE ~Bans(t)
    <3>1. toPool' = [toPool EXCEPT ![c] = Tail(toPool[c])]
      BY <1>6, <2>1, <2>3
    <3>2. QED
      BY <1>4, <1>6, <2>3, <3>1
  <2>4. QED
    BY <2>2, <2>3
<1> HIDE DEF share, s, fresh, d, ok, t
<1>8. /\ share = Head(toPool[c]) /\ d = CreditedDifficulty(s, Decoded[share.text])
      /\ fresh <=> Fresh(s, share, w)
      /\ ok <=> fresh /\ d # 0
  BY DEF share, d, fresh, ok
<1>9. QED
  <2> USE <1>2, <1>3, <1>4, <1>5
  <2> WITNESS share \in Share, s \in Session, t \in Session, d \in KnownLevels,
              fresh \in BOOLEAN, ok \in BOOLEAN
  <2>1. QED
    BY <1>1, <1>4, <1>6, <1>7, <1>8 DEF SubmitEffect

LEMMA TypeNext == TypeInv /\ [Next]_vars => TypeInv'
<1> SUFFICES ASSUME TypeInv, [Next]_vars
             PROVE  TypeInv'
    OBVIOUS
<1> USE DEF TypeInv
<1>1. ASSUME NEW b \in BOOLEAN, NewJob(b)
      PROVE  TypeInv'
  <2>1. newestJob + 1 \in Jobs
    BY <1>1, BoundsAssumption DEF NewJob, VariableTypes, Jobs
  <2>2. validJobs' \subseteq Jobs /\ newestJob' \in validJobs'
    BY <1>1, <2>1 DEF NewJob, VariableTypes
  <2>3. QED
    BY <1>1, <2>2 DEF NewJob, VariableTypes, WindowOpen
<1>2. ASSUME NEW c \in Clients, Connect(c)
      PROVE  TypeInv'
  <2>1. session' \in [Clients -> Session]
    BY <1>2, NewSessionType DEF Connect, VariableTypes
  <2>2. connects' \in [Clients -> 0..MaxConnects]
    BY <1>2, BoundsAssumption DEF Connect, VariableTypes
  <2>3. connected' \in [Clients -> BOOLEAN]
    BY <1>2 DEF Connect, VariableTypes
  <2>4. asked' \in [Clients -> Seq(Asked)] /\ toMiner' \in [Clients -> Seq(Levels)]
    BY <1>2 DEF Connect, VariableTypes
  <2>5. known' \in [Clients -> KnownLevels]
    BY <1>2 DEF Connect, VariableTypes, KnownLevels
  <2>6. toPool' \in [Clients -> Seq(Share)]
    BY <1>2 DEF Connect, VariableTypes
  <2>7. VariableTypes'
    BY <1>2, <2>1, <2>2, <2>3, <2>4, <2>5, <2>6 DEF Connect, VariableTypes
  <2>8. WindowOpen'
    BY <1>2, BoundsAssumption DEF Connect, VariableTypes, WindowOpen, NewSession
  <2>9. QED
    BY <2>7, <2>8
<1>3. ASSUME NEW c \in Clients, Forgive(c) \/ Disconnect(c)
      PROVE  TypeInv'
  <2>1. connected' \in [Clients -> BOOLEAN]
    BY <1>3 DEF Forgive, Disconnect, VariableTypes
  <2>2. WindowOpen'
    BY <1>3 DEF Forgive, Disconnect, VariableTypes, WindowOpen
  <2>3. QED
    BY <1>3, <2>1, <2>2 DEF Forgive, Disconnect, VariableTypes
<1>4. ASSUME NEW c \in Clients, NEW s \in Session, NEW d \in Levels,
             s.valid = session[c].valid, s.invalid = session[c].invalid,
             session' = [session EXCEPT ![c] = WithDifficulty(s, d)],
             toMiner' = [toMiner EXCEPT ![c] = Append(@, d)],
             UNCHANGED <<validJobs, newestJob, submissions, connected, connects, banned,
                         asked, known, toPool, credits, refused>>
      PROVE  TypeInv'
  <2>1. /\ WithDifficulty(s, d) \in Session
        /\ WithDifficulty(s, d).valid = s.valid /\ WithDifficulty(s, d).invalid = s.invalid
    BY <1>4, WithDifficultyType
  <2>2. session' \in [Clients -> Session]
    BY <1>4, <2>1 DEF VariableTypes
  <2>3. toMiner' \in [Clients -> Seq(Levels)]
    BY <1>4, QueueTypes DEF VariableTypes
  <2>4. WindowOpen'
    BY <1>4, <2>1 DEF WindowOpen, VariableTypes
  <2>5. QED
    BY <1>4, <2>2, <2>3, <2>4 DEF VariableTypes
<1>5. ASSUME NEW c \in Clients, Subscribe(c)
      PROVE  TypeInv'
  <2> DEFINE s == [session[c] EXCEPT !.extraNonce1 = NextExtraNonce(c)]
  <2>1. NextExtraNonce(c) \in ExtraNonces
    BY BoundsAssumption DEF NextExtraNonce, ExtraNonces, VariableTypes
  <2>2. session[c] \in Session
    BY DEF VariableTypes
  <2>3. s \in Session /\ s.valid = session[c].valid /\ s.invalid = session[c].invalid
    BY <2>1, <2>2 DEF Session
  <2>4. session' = [session EXCEPT ![c] = WithDifficulty(s, Initial)]
    BY <1>5 DEF Subscribe, VariableTypes
  <2>5. Initial \in Levels
    BY DEF Levels
  <2> HIDE DEF s
  <2>6. QED
    BY <1>4, <1>5, <2>3, <2>4, <2>5 DEF Subscribe
<1>6. ASSUME NEW c \in Clients, NEW d \in Difficulties, Retarget(c, d)
      PROVE  TypeInv'
  <2>1. session[c] \in Session /\ d \in Levels
    BY DEF VariableTypes, Levels
  <2>2. session' = [session EXCEPT ![c] = WithDifficulty(session[c], d)]
    BY <1>6 DEF Retarget, VariableTypes
  <2>3. QED
    BY <1>4, <1>6, <2>1, <2>2 DEF Retarget
<1>7. ASSUME NEW c \in Clients, NEW a \in Addresses, Authorize(c, a)
      PROVE  TypeInv'
  <2>1. session' \in [Clients -> Session]
    BY <1>7 DEF Authorize, VariableTypes, Session, Names
  <2>2. asked' \in [Clients -> Seq(Asked)]
    <3>1. [address |-> a, answered |-> FALSE] \in Asked /\ asked[c] \in Seq(Asked)
      BY DEF Asked, VariableTypes
    <3>2. QED
      BY <1>7, <3>1, QueueTypes DEF Authorize, VariableTypes
  <2>3. WindowOpen'
    BY <1>7 DEF Authorize, VariableTypes, WindowOpen, Session
  <2>4. QED
    BY <1>7, <2>1, <2>2, <2>3 DEF Authorize, VariableTypes
<1>8. ASSUME NEW c \in Clients, NEW i \in DOMAIN asked[c], Authorized(c, i)
      PROVE  TypeInv'
  <2>1. PICK ok \in BOOLEAN : session' = [session EXCEPT ![c].authorized = ok]
    <3>1. PICK ok \in {asked[c][i].address \in ValidAddresses, FALSE} :
                 session' = [session EXCEPT ![c].authorized = ok]
      BY <1>8, Zenon DEF Authorized
    <3>2. CASE ok = (asked[c][i].address \in ValidAddresses)
      <4>1. CASE asked[c][i].address \in ValidAddresses
        BY <3>1, <3>2, <4>1 DEF VariableTypes
      <4>2. CASE asked[c][i].address \notin ValidAddresses
        <5>1. (asked[c][i].address \in ValidAddresses) = FALSE
          BY <4>2
        <5>2. QED
          BY <3>1, <3>2, <5>1, Zenon
      <4>3. QED
        BY <4>1, <4>2
    <3>3. CASE ok = FALSE
      BY <3>1, <3>3, Zenon
    <3>4. QED
      BY <3>2, <3>3, Zenon
  <2>2. session' \in [Clients -> Session]
    BY <2>1 DEF VariableTypes, Session
  <2>3. asked' \in [Clients -> Seq(Asked)]
    <3>1. asked' = [asked EXCEPT ![c] = Answered(asked[c], i)]
      BY <1>8 DEF Authorized, VariableTypes, Answered
    <3>2. Answered(asked[c], i) \in Seq(Asked)
      BY AnsweredType DEF VariableTypes
    <3>3. QED
      BY <3>1, <3>2 DEF VariableTypes
  <2>4. WindowOpen'
    BY <1>8, <2>1 DEF Authorized, VariableTypes, WindowOpen, Session
  <2>5. QED
    BY <1>8, <2>2, <2>3, <2>4 DEF Authorized, VariableTypes
<1>9. ASSUME NEW c \in Clients, MinerHears(c)
      PROVE  TypeInv'
  <2>1. toMiner[c] \in Seq(Levels) /\ toMiner[c] # <<>>
    BY <1>9 DEF MinerHears, VariableTypes
  <2>2. Head(toMiner[c]) \in Levels /\ Tail(toMiner[c]) \in Seq(Levels)
    BY <2>1, QueueTypes
  <2>3. known' \in [Clients -> KnownLevels] /\ toMiner' \in [Clients -> Seq(Levels)]
    BY <1>9, <2>2 DEF MinerHears, VariableTypes, KnownLevels
  <2>4. QED
    BY <1>9, <2>3 DEF MinerHears, VariableTypes, WindowOpen
<1>10. ASSUME NEW c \in Clients, NEW j \in Jobs, NEW u \in Texts, MinerSends(c, j, u)
       PROVE  TypeInv'
  <2> DEFINE sh == [job |-> j, text |-> u,
                    told |-> IF Weight[Decoded[u]] >= known[c] THEN known[c] ELSE 0]
  <2>1. sh \in Share
    BY DEF Share, VariableTypes, KnownLevels
  <2> HIDE DEF sh
  <2>2. toPool' = [toPool EXCEPT ![c] = Append(@, sh)]
    BY <1>10 DEF MinerSends, sh
  <2>3. toPool' \in [Clients -> Seq(Share)]
    BY <2>1, <2>2, QueueTypes DEF VariableTypes
  <2>4. QED
    BY <1>10, <2>3 DEF MinerSends, VariableTypes, WindowOpen
<1>11. ASSUME NEW c \in Clients, NEW a \in Addresses, NEW w \in BOOLEAN,
              HandleSubmit(c, a, w)
       PROVE  TypeInv'
  <2>1. PICK share \in Share, s \in Session, t \in Session, d \in KnownLevels,
             fresh \in BOOLEAN, ok \in BOOLEAN :
                SubmitEffect(c, a, w, share, s, t, d, fresh, ok)
    BY <1>11, SubmitParts
  <2>2. /\ share.job \in Jobs /\ share.text \in Texts /\ LowerCase[share.text] \in Texts
        /\ s.extraNonce1 \in ExtraNonces /\ s.addrPrimary \in Names
    BY TextsAssumption DEF Share, Session
  <2>3. submissions' \in [Jobs -> SUBSET (ExtraNonces \X Texts)]
    <3>1. SubmissionKey(s, share) \in ExtraNonces \X Texts
      BY <2>2 DEF SubmissionKey
    <3>2. QED
      BY <2>1, <2>2, <3>1 DEF SubmitEffect, VariableTypes
  <2>4. credits' \in Seq(Credit)
    <3> DEFINE cr == [client |-> c, addrPrimary |-> s.addrPrimary,
                      difficulty |-> d, extraNonce1 |-> s.extraNonce1,
                      job |-> share.job, text |-> share.text,
                      named |-> NamedBy(c)]
    <3>1. cr \in Credit
      BY <2>2, NamedType DEF Credit, VariableTypes
    <3> HIDE DEF cr
    <3>2. credits' = IF ~ok THEN credits ELSE Append(credits, cr)
      BY <2>1 DEF SubmitEffect, cr
    <3>3. QED
      BY <3>1, <3>2, QueueTypes DEF VariableTypes
  <2>5. session' \in [Clients -> Session]
    BY <2>1 DEF SubmitEffect, VariableTypes
  <2>6. toPool' \in [Clients -> Seq(Share)]
    <3>1. toPool[c] \in Seq(Share) /\ Tail(toPool[c]) \in Seq(Share) /\ <<>> \in Seq(Share)
      BY <2>1, QueueTypes DEF SubmitEffect, VariableTypes
    <3>2. QED
      BY <2>1, <3>1 DEF SubmitEffect, VariableTypes
  <2>7. connected' \in [Clients -> BOOLEAN] /\ banned' \subseteq Clients
    BY <2>1 DEF SubmitEffect, VariableTypes
  <2>8. WindowOpen'
    BY <2>1 DEF SubmitEffect, VariableTypes, WindowOpen
  <2>9. QED
    BY <2>1, <2>3, <2>4, <2>5, <2>6, <2>7, <2>8 DEF SubmitEffect, VariableTypes
<1>12. CASE UNCHANGED vars
  BY <1>12 DEF vars, VariableTypes, WindowOpen
<1>13. QED
  BY <1>1, <1>2, <1>3, <1>5, <1>6, <1>7, <1>8, <1>9, <1>10, <1>11, <1>12 DEF Next

(* The types, and with them that a miner is disconnected or its ban window    *)
(* closed whenever the window is full, for every banning configuration.       *)
THEOREM SharesTypeCorrect == Spec => []TypeOK
BY TypeInit, TypeNext, TypeInvImpliesTypeOK, PTL DEF Spec

-----------------------------------------------------------------------------
(* Credits.                                                                   *)

(* Only handleSubmit touches the submissions, the credits and the refusals.   *)
LEMMA CreditStep ==
    ASSUME [Next]_vars
    PROVE  \/ UNCHANGED <<submissions, credits, refused>>
           \/ \E c \in Clients, a \in Addresses, w \in BOOLEAN : HandleSubmit(c, a, w)
<1>1. CASE UNCHANGED vars
  BY <1>1 DEF vars
<1>2. CASE \E b \in BOOLEAN : NewJob(b)
  BY <1>2 DEF NewJob
<1>3. ASSUME NEW c \in Clients,
             \/ Connect(c) \/ Forgive(c) \/ Disconnect(c) \/ Subscribe(c) \/ MinerHears(c)
             \/ \E a \in Addresses : Authorize(c, a)
             \/ \E i \in DOMAIN asked[c] : Authorized(c, i)
             \/ \E d \in Difficulties : Retarget(c, d)
             \/ \E j \in Jobs, x \in Texts : MinerSends(c, j, x)
      PROVE  UNCHANGED <<submissions, credits, refused>>
  BY <1>3, Zenon DEF Connect, Forgive, Disconnect, Subscribe, MinerHears, Authorize,
                     Authorized, Retarget, MinerSends
<1>4. QED
  BY <1>1, <1>2, <1>3, Zenon DEF Next

(* One more credit at the end of the credits.                                 *)
LEMMA CreditAppended ==
    ASSUME NEW q \in Seq(Credit), NEW r \in Credit, NEW p, p = Append(q, r)
    PROVE  /\ DOMAIN p = 1..(Len(q) + 1) /\ DOMAIN q = 1..Len(q) /\ Len(q) \in Nat
           /\ \A i \in DOMAIN q : i \in DOMAIN p /\ p[i] = q[i]
           /\ p[Len(q) + 1] = r
OBVIOUS

(* A share of c is credited as r: it is Fresh and meets what it is credited   *)
(* with.                                                                      *)
CreditGiven(c, a, w, share, s, r) ==
    /\ credits' = Append(credits, r)
    /\ Fresh(s, share, w)
    /\ r.difficulty = CreditedDifficulty(s, Decoded[share.text]) /\ r.difficulty # 0
    /\ r.extraNonce1 = s.extraNonce1 /\ r.addrPrimary = s.addrPrimary
    /\ r.job = share.job /\ r.text = share.text /\ r.named = NamedBy(c)
    /\ submissions' =
         [submissions EXCEPT ![r.job] = @ \cup {<<r.extraNonce1, LowerCase[r.text]>>}]
    /\ s.authorized = session[c].authorized
    /\ s.addrPrimary = IF session[c].addrPrimary = NoAddress
                         THEN a ELSE session[c].addrPrimary

SomeCreditGiven ==
    \E c \in Clients, a \in Addresses, w \in BOOLEAN, share \in Share, s \in Session,
       r \in Credit : CreditGiven(c, a, w, share, s, r)

(* A step adds no credit or one at the end.                                   *)
LEMMA CreditCases ==
    ASSUME TypeInv, [Next]_vars
    PROVE  \/ credits' = credits /\ \A j \in Jobs : submissions[j] \subseteq submissions'[j]
           \/ SomeCreditGiven
<1>1. CASE UNCHANGED <<submissions, credits, refused>>
  BY <1>1
<1>2. CASE \E c \in Clients, a \in Addresses, w \in BOOLEAN : HandleSubmit(c, a, w)
  <2>1. PICK c \in Clients, a \in Addresses, w \in BOOLEAN : HandleSubmit(c, a, w)
    BY <1>2
  <2>2. PICK share \in Share, s \in Session, t \in Session, d \in KnownLevels,
             fresh \in BOOLEAN, ok \in BOOLEAN :
                SubmitEffect(c, a, w, share, s, t, d, fresh, ok)
    BY <2>1, SubmitParts
  <2>3. /\ share.job \in Jobs /\ share.text \in Texts
        /\ s.extraNonce1 \in ExtraNonces /\ s.addrPrimary \in Names
    BY DEF Share, Session
  <2>4. CASE ~ok
    <3>1. credits' = credits
      BY <2>2, <2>4 DEF SubmitEffect
    <3>2. \A j \in Jobs : submissions[j] \subseteq submissions'[j]
      BY <2>2, <2>3 DEF SubmitEffect, TypeInv, VariableTypes
    <3>3. QED
      BY <3>1, <3>2
  <2>5. CASE ok
    <3> DEFINE r == [client |-> c, addrPrimary |-> s.addrPrimary,
                     difficulty |-> d, extraNonce1 |-> s.extraNonce1,
                     job |-> share.job, text |-> share.text,
                     named |-> NamedBy(c)]
    <3>1. r \in Credit
      BY <2>3, NamedType DEF Credit, TypeInv, VariableTypes
    <3>2. /\ r.difficulty = d /\ r.extraNonce1 = s.extraNonce1
          /\ r.addrPrimary = s.addrPrimary /\ r.job = share.job /\ r.text = share.text
          /\ r.named = NamedBy(c)
      OBVIOUS
    <3>3. credits' = Append(credits, r)
      BY <2>2, <2>5 DEF SubmitEffect
    <3> HIDE DEF r
    <3>4. /\ fresh /\ d # 0 /\ Fresh(s, share, w)
          /\ d = CreditedDifficulty(s, Decoded[share.text])
      BY <2>2, <2>5, Zenon DEF SubmitEffect
    <3>5. submissions' =
            [submissions EXCEPT ![r.job] = @ \cup {<<r.extraNonce1, LowerCase[r.text]>>}]
      BY <2>2, <3>2, <3>4 DEF SubmitEffect, SubmissionKey
    <3>6. /\ s.authorized = session[c].authorized
          /\ s.addrPrimary = IF session[c].addrPrimary = NoAddress
                               THEN a ELSE session[c].addrPrimary
      BY <2>2, Zenon DEF SubmitEffect
    <3>7. CreditGiven(c, a, w, share, s, r)
      BY <3>2, <3>3, <3>4, <3>5, <3>6, Zenon DEF CreditGiven
    <3>8. QED
      BY <3>1, <3>7, Zenon DEF SomeCreditGiven
  <2>6. QED
    BY <2>4, <2>5
<1>3. QED
  BY <1>1, <1>2, CreditStep

(* Whatever has been credited is among the submissions of its job.            *)
CreditsRemembered ==
    \A i \in DOMAIN credits :
      <<credits[i].extraNonce1, LowerCase[credits[i].text]>> \in submissions[credits[i].job]

(* A credit names a job; so does every one that has been given.               *)
LEMMA CreditJob ==
    ASSUME NEW r \in Credit
    PROVE  r.job \in Jobs
BY DEF Credit

LEMMA CreditJobs ==
    ASSUME NEW q \in Seq(Credit)
    PROVE  \A i \in DOMAIN q : q[i].job \in Jobs
<1>1. \A i \in DOMAIN q : q[i] \in Credit
  OBVIOUS
<1>2. QED
  BY <1>1, CreditJob

LEMMA OnceNext ==
    ASSUME TypeInv, CreditsRemembered, CreditedOnce, [Next]_vars
    PROVE  CreditsRemembered' /\ CreditedOnce'
<1> USE DEF TypeInv
<1>1. ASSUME credits' = credits, \A j \in Jobs : submissions[j] \subseteq submissions'[j]
      PROVE  CreditsRemembered' /\ CreditedOnce'
  <2>1. \A i \in DOMAIN credits : credits[i].job \in Jobs
    BY CreditJobs DEF VariableTypes
  <2>2. QED
    BY <1>1, <2>1 DEF CreditsRemembered, CreditedOnce
<1>2. CASE SomeCreditGiven
  <2> PICK c \in Clients, a \in Addresses, w \in BOOLEAN, share \in Share, s \in Session,
           r \in Credit : CreditGiven(c, a, w, share, s, r)
    BY <1>2, Zenon DEF SomeCreditGiven
  <2>0. /\ credits' = Append(credits, r) /\ Fresh(s, share, w)
        /\ r.extraNonce1 = s.extraNonce1 /\ r.job = share.job /\ r.text = share.text
        /\ submissions' =
             [submissions EXCEPT ![r.job] = @ \cup {<<r.extraNonce1, LowerCase[r.text]>>}]
    BY Zenon DEF CreditGiven
  <2>1. /\ DOMAIN credits' = 1..(Len(credits) + 1)
        /\ DOMAIN credits = 1..Len(credits) /\ Len(credits) \in Nat
        /\ \A i \in DOMAIN credits : credits'[i] = credits[i]
        /\ credits'[Len(credits) + 1] = r
    BY <2>0, CreditAppended DEF VariableTypes
  <2>2. <<r.extraNonce1, LowerCase[r.text]>> \notin submissions[r.job]
    BY <2>0 DEF Fresh, SubmissionKey
  <2>3. r.job \in Jobs /\ \A i \in DOMAIN credits : credits[i].job \in Jobs
    BY CreditJob, CreditJobs DEF VariableTypes
  <2>4. /\ <<r.extraNonce1, LowerCase[r.text]>> \in submissions'[r.job]
        /\ \A j \in Jobs : submissions[j] \subseteq submissions'[j]
    BY <2>0, <2>3 DEF VariableTypes
  <2>5. \A i \in DOMAIN credits' : i \in DOMAIN credits \/ i = Len(credits) + 1
    BY <2>1
  <2>6. CreditsRemembered'
    BY <2>1, <2>3, <2>4, <2>5 DEF CreditsRemembered
  <2>7. ASSUME NEW i \in DOMAIN credits, {credits[i].text, r.text} \subseteq HexTexts
        PROVE  ~SameHeader(credits[i], r) /\ ~SameHeader(r, credits[i])
    <3>1. <<credits[i].extraNonce1, LowerCase[credits[i].text]>> \in submissions[credits[i].job]
      BY DEF CreditsRemembered
    <3>2. Decoded[credits[i].text] = Decoded[r.text]
            => LowerCase[credits[i].text] = LowerCase[r.text]
      BY <2>7, TextsAssumption
    <3>3. QED
      BY <2>2, <3>1, <3>2 DEF SameHeader
  <2>8. CreditedOnce'
    BY <2>1, <2>5, <2>7 DEF CreditedOnce
  <2>9. QED
    BY <2>6, <2>8
<1>3. QED
  BY <1>1, <1>2, CreditCases

(* No work submitted in hexadecimal digits is paid twice: the duplicates that *)
(* handleSubmissions looks up are all the submissions of a job, every         *)
(* credited share is one of them, and two texts of digits for one header      *)
(* differ in their case only.                                                 *)
THEOREM CreditsOnce == Spec => []CreditedOnce
<1>1. Init => CreditsRemembered /\ CreditedOnce
  BY DEF Init, CreditsRemembered, CreditedOnce
<1>2. QED
  BY <1>1, TypeInit, TypeNext, OnceNext, PTL DEF Spec

LEMMA CoveredNext ==
    ASSUME TypeInv, CreditIsCovered, [Next]_vars
    PROVE  CreditIsCovered'
<1> USE DEF TypeInv
<1>1. ASSUME credits' = credits
      PROVE  CreditIsCovered'
  BY <1>1 DEF CreditIsCovered
<1>2. CASE SomeCreditGiven
  <2> PICK c \in Clients, a \in Addresses, w \in BOOLEAN, share \in Share, s \in Session,
           r \in Credit : CreditGiven(c, a, w, share, s, r)
    BY <1>2, Zenon DEF SomeCreditGiven
  <2>0. /\ credits' = Append(credits, r) /\ r.text = share.text
        /\ r.difficulty = CreditedDifficulty(s, Decoded[r.text]) /\ r.difficulty # 0
    BY Zenon DEF CreditGiven
  <2>1. /\ DOMAIN credits' = 1..(Len(credits) + 1)
        /\ DOMAIN credits = 1..Len(credits) /\ Len(credits) \in Nat
        /\ \A i \in DOMAIN credits : credits'[i] = credits[i]
        /\ credits'[Len(credits) + 1] = r
    BY <2>0, CreditAppended DEF VariableTypes
  <2> DEFINE n == Decoded[r.text]
  <2> HIDE DEF n
  <2>2. n \notin BlockNonces => 100 * Weight[n] >= 99 * r.difficulty
    <3>1. n \in Nonces
      BY TextsAssumption DEF Credit, n
    <3>2. Weight[n] \in Nat /\ r.difficulty \in Nat
      BY <3>1, SharesAssumption, LevelsNatural DEF Credit
    <3>3. n \in BlockNonces \/ Meets(n, r.difficulty) \/ Weight[n] >= r.difficulty
      BY <2>0, Zenon DEF CreditedDifficulty, n
    <3>4. QED
      BY <3>2, <3>3 DEF Meets
  <2>3. \A i \in DOMAIN credits' : i \in DOMAIN credits \/ i = Len(credits) + 1
    BY <2>1
  <2>4. QED
    BY <2>1, <2>2, <2>3 DEF CreditIsCovered, n
<1>3. QED
  BY <1>1, <1>2, CreditCases

(* No share but a block is credited with more than it meets, up to the        *)
(* tolerance, whatever the difficulty changes before it arrives.              *)
THEOREM CreditsCovered == Spec => []CreditIsCovered
<1>1. Init => CreditIsCovered
  BY DEF Init, CreditIsCovered
<1>2. QED
  BY <1>1, TypeInit, TypeNext, CoveredNext, PTL DEF Spec

-----------------------------------------------------------------------------
(* Difficulties on their way.                                                 *)

(* What the miner c knows and what its shares under way were mined at: at     *)
(* most one difficulty is on its way to it, and until it arrives it mines at  *)
(* the previous one.                                                          *)
InStep(c) ==
    /\ toMiner[c] \in {<<>>, <<session[c].difficulty>>}
    /\ known[c] = IF toMiner[c] = <<>>
                    THEN session[c].difficulty ELSE session[c].previousDifficulty
    /\ IF session[c].extraNonce1 = <<>>
         THEN toMiner[c] = <<>> /\ session[c].difficulty = 0
              /\ session[c].previousDifficulty = 0
         ELSE session[c].difficulty # 0
    /\ \A i \in DOMAIN toPool[c] :
         /\ toPool[c][i].told \in {0, session[c].difficulty, session[c].previousDifficulty}
         /\ toPool[c][i].told # 0 =>
              Weight[Decoded[toPool[c][i].text]] >= toPool[c][i].told

HonestInv == refused = {} /\ \A c \in Clients : InStep(c)

(* A step that leaves the difficulties of a miner alone and brings no share   *)
(* of it under way.                                                           *)
LEMMA InStepKept ==
    ASSUME TypeInv, TypeInv', NEW c \in Clients, InStep(c),
           session'[c].difficulty = session[c].difficulty,
           session'[c].previousDifficulty = session[c].previousDifficulty,
           session'[c].extraNonce1 = session[c].extraNonce1,
           toMiner'[c] = toMiner[c], known'[c] = known[c],
           \/ toPool'[c] \in {toPool[c], <<>>}
           \/ toPool[c] # <<>> /\ toPool'[c] = Tail(toPool[c])
    PROVE  InStep(c)'
<1>1. \A i \in DOMAIN toPool'[c] : \E k \in DOMAIN toPool[c] : toPool'[c][i] = toPool[c][k]
  <2>1. toPool[c] \in Seq(Share)
    BY DEF TypeInv, VariableTypes
  <2>2. CASE toPool'[c] \in {toPool[c], <<>>}
    BY <2>2
  <2>3. CASE toPool[c] # <<>> /\ toPool'[c] = Tail(toPool[c])
    BY <2>1, <2>3, QueueTypes
  <2>4. QED
    BY <2>2, <2>3
<1>2. QED
  BY <1>1 DEF InStep

(* A difficulty is changed and sent, when the last has arrived.               *)
LEMMA InStepChanged ==
    ASSUME TypeInv, TypeInv', NEW c \in Clients, InStep(c), NEW d \in Levels,
           session'[c].difficulty = d,
           session'[c].previousDifficulty = session[c].difficulty,
           session'[c].extraNonce1 # <<>>,
           toMiner[c] = <<>>, toMiner'[c] = Append(toMiner[c], d), known'[c] = known[c],
           toPool'[c] = toPool[c],
           \A i \in DOMAIN toPool[c] : toPool[c][i].told \in {0, session[c].difficulty}
    PROVE  InStep(c)'
<1>1. toMiner'[c] = <<d>> /\ toMiner'[c] # <<>> /\ d # 0
  BY SharesAssumption DEF Levels
<1>2. QED
  BY <1>1 DEF InStep

LEMMA HonestNext ==
    ASSUME TypeInv, TypeInv', HonestInv, [Next]_vars
    PROVE  HonestInv'
<1> USE DEF TypeInv
<1>0. /\ session \in [Clients -> Session] /\ toMiner \in [Clients -> Seq(Levels)]
      /\ known \in [Clients -> KnownLevels] /\ toPool \in [Clients -> Seq(Share)]
      /\ asked \in [Clients -> Seq(Asked)]
  BY DEF VariableTypes
<1>1. ASSUME UNCHANGED <<session, toMiner, known, toPool, refused>>
      PROVE  HonestInv'
  BY <1>1 DEF HonestInv, InStep
<1>2. ASSUME NEW c \in Clients, Connect(c)
      PROVE  HonestInv'
  <2>1. ASSUME NEW x \in Clients PROVE InStep(x)'
    <3>1. CASE x = c
      BY <1>0, <1>2, <3>1 DEF Connect, InStep, NewSession
    <3>2. CASE x # c
      <4>1. /\ session'[x] = session[x] /\ toMiner'[x] = toMiner[x]
            /\ known'[x] = known[x] /\ toPool'[x] = toPool[x]
        BY <1>0, <1>2, <3>2 DEF Connect
      <4>2. QED
        BY <4>1, InStepKept DEF HonestInv
    <3>3. QED
      BY <3>1, <3>2
  <2>2. refused' = {}
    BY <1>2 DEF Connect, HonestInv
  <2>3. QED
    BY <2>1, <2>2 DEF HonestInv
<1>3. ASSUME NEW c \in Clients, NEW s \in Session, NEW d \in Levels,
             s.difficulty = session[c].difficulty, s.extraNonce1 # <<>>,
             toMiner[c] = <<>>,
             \A i \in DOMAIN toPool[c] : toPool[c][i].told \in {0, session[c].difficulty},
             session' = [session EXCEPT ![c] = WithDifficulty(s, d)],
             toMiner' = [toMiner EXCEPT ![c] = Append(@, d)],
             UNCHANGED <<known, toPool, refused>>
      PROVE  HonestInv'
  <2>1. ASSUME NEW x \in Clients PROVE InStep(x)'
    <3>1. CASE x = c
      <4>1. session'[c] = WithDifficulty(s, d) /\ toMiner'[c] = Append(toMiner[c], d)
        BY <1>0, <1>3
      <4>2. /\ session'[c].difficulty = d /\ session'[c].extraNonce1 = s.extraNonce1
            /\ session'[c].previousDifficulty = s.difficulty
        BY <4>1, WithDifficultyType
      <4>3. QED
        BY <1>3, <3>1, <4>1, <4>2, InStepChanged DEF HonestInv
    <3>2. CASE x # c
      <4>1. session'[x] = session[x] /\ toMiner'[x] = toMiner[x]
        BY <1>0, <1>3, <3>2
      <4>2. QED
        BY <1>3, <4>1, InStepKept DEF HonestInv
    <3>3. QED
      BY <3>1, <3>2
  <2>2. QED
    BY <1>3, <2>1 DEF HonestInv
<1>4. ASSUME NEW c \in Clients, Subscribe(c)
      PROVE  HonestInv'
  <2> DEFINE s == [session[c] EXCEPT !.extraNonce1 = NextExtraNonce(c)]
  <2>1. NextExtraNonce(c) \in ExtraNonces /\ NextExtraNonce(c) # <<>>
    BY BoundsAssumption DEF NextExtraNonce, ExtraNonces, VariableTypes
  <2>2. session[c] \in Session
    BY <1>0
  <2>3. s \in Session /\ s.difficulty = session[c].difficulty /\ s.extraNonce1 # <<>>
    BY <2>1, <2>2 DEF Session
  <2>4. session' = [session EXCEPT ![c] = WithDifficulty(s, Initial)]
    BY <1>0, <1>4 DEF Subscribe
  <2>5. Initial \in Levels
    BY DEF Levels
  <2>6. /\ toMiner[c] = <<>>
        /\ \A i \in DOMAIN toPool[c] : toPool[c][i].told \in {0, session[c].difficulty}
    BY <1>4 DEF Subscribe, HonestInv, InStep
  <2>7. /\ toMiner' = [toMiner EXCEPT ![c] = Append(@, Initial)]
        /\ UNCHANGED <<known, toPool, refused>>
    BY <1>4 DEF Subscribe
  <2> HIDE DEF s
  <2>8. QED
    BY <1>3, <2>3, <2>4, <2>5, <2>6, <2>7
<1>5. ASSUME NEW c \in Clients, NEW d \in Difficulties, Retarget(c, d)
      PROVE  HonestInv'
  <2>1. session[c] \in Session /\ d \in Levels /\ session[c].extraNonce1 # <<>>
    BY <1>0, <1>5 DEF Levels, Retarget
  <2>2. session' = [session EXCEPT ![c] = WithDifficulty(session[c], d)]
    BY <1>0, <1>5 DEF Retarget
  <2>3. QED
    BY <1>3, <1>5, <2>1, <2>2 DEF Retarget, Settled
<1>6. ASSUME NEW c \in Clients, NEW t \in Session,
             t.difficulty = session[c].difficulty,
             t.previousDifficulty = session[c].previousDifficulty,
             t.extraNonce1 = session[c].extraNonce1,
             session' = [session EXCEPT ![c] = t],
             UNCHANGED <<toMiner, known>>, refused' = {},
             \/ UNCHANGED toPool
             \/ /\ toPool[c] # <<>>
                /\ \E rest \in {Tail(toPool[c]), <<>>} : toPool' = [toPool EXCEPT ![c] = rest]
      PROVE  HonestInv'
  <2>1. ASSUME NEW x \in Clients PROVE InStep(x)'
    <3>1. CASE x = c
      <4>1. session'[c] = t
        BY <1>0, <1>6
      <4>2. \/ toPool'[c] \in {toPool[c], <<>>}
            \/ toPool[c] # <<>> /\ toPool'[c] = Tail(toPool[c])
        BY <1>0, <1>6
      <4>3. QED
        BY <1>6, <3>1, <4>1, <4>2, InStepKept DEF HonestInv
    <3>2. CASE x # c
      <4>1. session'[x] = session[x] /\ toPool'[x] = toPool[x]
        BY <1>0, <1>6, <3>2
      <4>2. QED
        BY <1>6, <4>1, InStepKept DEF HonestInv
    <3>3. QED
      BY <3>1, <3>2
  <2>2. QED
    BY <1>6, <2>1 DEF HonestInv
<1>7. ASSUME NEW c \in Clients, NEW a \in Addresses, Authorize(c, a)
      PROVE  HonestInv'
  <2> DEFINE t == [session[c] EXCEPT !.addrPrimary = a]
  <2>1. /\ t \in Session /\ t.difficulty = session[c].difficulty
        /\ t.previousDifficulty = session[c].previousDifficulty
        /\ t.extraNonce1 = session[c].extraNonce1
    BY <1>0 DEF Session, Names
  <2>2. session' = [session EXCEPT ![c] = t]
    BY <1>0, <1>7 DEF Authorize
  <2>3. UNCHANGED <<toMiner, known, toPool>> /\ refused' = {}
    BY <1>7 DEF Authorize, HonestInv
  <2> HIDE DEF t
  <2>4. QED
    BY <1>6, <2>1, <2>2, <2>3
<1>8. ASSUME NEW c \in Clients, NEW i \in DOMAIN asked[c], Authorized(c, i)
      PROVE  HonestInv'
  <2>1. PICK ok : session' = [session EXCEPT ![c].authorized = ok]
    BY <1>8, Zenon DEF Authorized
  <2> DEFINE t == [session[c] EXCEPT !.authorized = ok]
  <2>2. session' = [session EXCEPT ![c] = t]
    BY <1>0, <2>1
  <2>3. /\ t.difficulty = session[c].difficulty
        /\ t.previousDifficulty = session[c].previousDifficulty
        /\ t.extraNonce1 = session[c].extraNonce1
    BY <1>0 DEF Session
  <2>4. UNCHANGED <<toMiner, known, toPool>> /\ refused' = {}
    BY <1>8 DEF Authorized, HonestInv
  <2> HIDE DEF t
  <2>5. t \in Session
    BY <1>0, <2>2 DEF VariableTypes
  <2>6. QED
    BY <1>6, <2>2, <2>3, <2>4, <2>5
<1>9. ASSUME NEW c \in Clients, MinerHears(c)
      PROVE  HonestInv'
  <2>1. ASSUME NEW x \in Clients PROVE InStep(x)'
    <3>1. CASE x = c
      <4>1. toMiner[c] = <<session[c].difficulty>>
        BY <1>9 DEF MinerHears, HonestInv, InStep
      <4>2. Head(toMiner[c]) = session[c].difficulty /\ Tail(toMiner[c]) = <<>>
        BY <4>1
      <4>3. known'[c] = session[c].difficulty /\ toMiner'[c] = <<>>
        BY <1>0, <1>9, <4>2 DEF MinerHears
      <4>4. session' = session /\ toPool' = toPool
        BY <1>9 DEF MinerHears
      <4>5. session[c].extraNonce1 # <<>>
        BY <1>9 DEF MinerHears, HonestInv, InStep
      <4>6. QED
        BY <3>1, <4>3, <4>4, <4>5 DEF HonestInv, InStep
    <3>2. CASE x # c
      <4>1. /\ session'[x] = session[x] /\ toMiner'[x] = toMiner[x]
            /\ known'[x] = known[x] /\ toPool'[x] = toPool[x]
        BY <1>0, <1>9, <3>2 DEF MinerHears
      <4>2. QED
        BY <4>1, InStepKept DEF HonestInv
    <3>3. QED
      BY <3>1, <3>2
  <2>2. QED
    BY <1>9, <2>1 DEF HonestInv, MinerHears
<1>10. ASSUME NEW c \in Clients, NEW j \in Jobs, NEW u \in Texts, MinerSends(c, j, u)
       PROVE  HonestInv'
  <2> DEFINE told == IF Weight[Decoded[u]] >= known[c] THEN known[c] ELSE 0
             sh   == [job |-> j, text |-> u, told |-> told]
  <2>1. sh.told = told /\ sh.text = u /\ sh \in Share
    BY <1>0 DEF Share, KnownLevels
  <2>2. /\ told \in {0, session[c].difficulty, session[c].previousDifficulty}
        /\ told # 0 => Weight[Decoded[u]] >= told
    BY DEF HonestInv, InStep
  <2>3. toPool' = [toPool EXCEPT ![c] = Append(@, sh)]
    BY <1>10 DEF MinerSends
  <2> HIDE DEF told, sh
  <2>4. ASSUME NEW x \in Clients PROVE InStep(x)'
    <3>1. CASE x = c
      <4>1. toPool[c] \in Seq(Share) /\ toPool'[c] = Append(toPool[c], sh)
        BY <1>0, <2>3
      <4>2. \A i \in DOMAIN toPool'[c] :
              \/ i \in DOMAIN toPool[c] /\ toPool'[c][i] = toPool[c][i]
              \/ toPool'[c][i] = sh
        BY <2>1, <4>1
      <4>3. UNCHANGED <<session, toMiner, known>>
        BY <1>10 DEF MinerSends
      <4>4. QED
        BY <2>1, <2>2, <3>1, <4>2, <4>3 DEF HonestInv, InStep
    <3>2. CASE x # c
      <4>1. toPool'[x] = toPool[x]
        BY <1>0, <2>3, <3>2
      <4>2. QED
        BY <1>10, <4>1, InStepKept DEF HonestInv, MinerSends
    <3>3. QED
      BY <3>1, <3>2
  <2>5. QED
    BY <1>10, <2>4 DEF HonestInv, MinerSends
<1>11. ASSUME NEW c \in Clients, NEW a \in Addresses, NEW w \in BOOLEAN,
              HandleSubmit(c, a, w)
       PROVE  HonestInv'
  <2>1. PICK share \in Share, s \in Session, t \in Session, d \in KnownLevels,
             fresh \in BOOLEAN, ok \in BOOLEAN :
                SubmitEffect(c, a, w, share, s, t, d, fresh, ok)
    BY <1>11, SubmitParts
  <2>2. fresh /\ share.told # 0 => ok
    <3> SUFFICES ASSUME fresh, share.told # 0 PROVE ok
      OBVIOUS
    <3>1. toPool[c] # <<>> /\ toPool[c] \in Seq(Share) /\ share = Head(toPool[c])
      BY <1>0, <2>1 DEF SubmitEffect
    <3>2. 1 \in DOMAIN toPool[c] /\ share = toPool[c][1]
      BY <3>1, QueueTypes
    <3>3. /\ share.told \in {session[c].difficulty, session[c].previousDifficulty}
          /\ Weight[Decoded[share.text]] >= share.told
      BY <3>2 DEF HonestInv, InStep
    <3>4. Fresh(s, share, w)
      BY <2>1, Zenon DEF SubmitEffect
    <3>5. session[c].extraNonce1 # <<>>
      BY <2>1, <3>4 DEF Fresh, MaySubmit, SubmitEffect
    <3>6. session[c].difficulty # 0
      BY <3>5 DEF HonestInv, InStep
    <3>7. /\ s.difficulty = session[c].difficulty
          /\ s.previousDifficulty = session[c].previousDifficulty
          /\ d = CreditedDifficulty(s, Decoded[share.text])
      BY <2>1, Zenon DEF SubmitEffect
    <3>8. d # 0
      <4>1. /\ Decoded[share.text] \in Nonces /\ s.difficulty \in Nat
            /\ s.previousDifficulty \in Nat
        BY TextsAssumption, LevelsNatural DEF Share, Session
      <4>2. Weight[Decoded[share.text]] \in Nat
        BY <4>1, SharesAssumption
      <4>3. CASE Weight[Decoded[share.text]] >= s.difficulty
        <5>1. Meets(Decoded[share.text], s.difficulty)
          BY <4>1, <4>2, <4>3 DEF Meets
        <5>2. QED
          BY <3>6, <3>7, <5>1 DEF CreditedDifficulty
      <4>4. CASE Weight[Decoded[share.text]] >= s.previousDifficulty /\ s.previousDifficulty # 0
        BY <3>6, <3>7, <4>4 DEF CreditedDifficulty
      <4>5. QED
        BY <3>3, <3>7, <4>3, <4>4
    <3>9. QED
      BY <2>1, <3>8, Zenon DEF SubmitEffect
  <2>3. refused' = {}
    BY <2>1, <2>2 DEF SubmitEffect, HonestInv
  <2>4. /\ t.difficulty = session[c].difficulty
        /\ t.previousDifficulty = session[c].previousDifficulty
        /\ t.extraNonce1 = session[c].extraNonce1
        /\ session' = [session EXCEPT ![c] = t]
        /\ UNCHANGED <<toMiner, known>>
        /\ toPool[c] # <<>>
        /\ \E rest \in {Tail(toPool[c]), <<>>} : toPool' = [toPool EXCEPT ![c] = rest]
    BY <2>1 DEF SubmitEffect
  <2>5. QED
    BY <1>6, <2>3, <2>4
<1>12. ASSUME \/ UNCHANGED vars
              \/ \E b \in BOOLEAN : NewJob(b)
              \/ \E c \in Clients : Forgive(c) \/ Disconnect(c)
       PROVE  HonestInv'
  <2>1. UNCHANGED <<session, toMiner, known, toPool, refused>>
    BY <1>12, Zenon DEF vars, NewJob, Forgive, Disconnect
  <2>2. QED
    BY <1>1, <2>1
<1>13. QED
  BY <1>2, <1>4, <1>5, <1>7, <1>8, <1>9, <1>10, <1>11, <1>12 DEF Next

(* A share that meets the difficulty its miner knew is never refused for its  *)
(* difficulty: previousDifficulty covers the one change that can be under way. *)
THEOREM HonestMinersPaid == Spec => []HonestSharesAccepted
<1>1. Init => HonestInv
  BY DEF Init, HonestInv, InStep, NewSession
<1>2. HonestInv => HonestSharesAccepted
  BY DEF HonestInv, HonestSharesAccepted
<1>3. QED
  BY <1>1, <1>2, TypeInit, TypeNext, HonestNext, PTL DEF Spec

-----------------------------------------------------------------------------
(* Addresses.                                                                 *)

(* The address of a session is one of those it asked for, once it has asked,  *)
(* and one of them was valid if it is authorized.                             *)
AddressAsked(c) ==
    /\ NamedBy(c) # {} => session[c].addrPrimary \in NamedBy(c)
    /\ session[c].authorized => NamedBy(c) \cap ValidAddresses # {}

AddressInv == CreditsNamedAddress /\ \A c \in Clients : AddressAsked(c)

(* A step that asks for nothing and leaves the session's address alone, once  *)
(* there is one.                                                              *)
LEMMA AddressKept ==
    ASSUME TypeInv, NEW c \in Clients, AddressAsked(c), NamedBy(c)' = NamedBy(c),
           session'[c].authorized => session[c].authorized
                                       \/ NamedBy(c) \cap ValidAddresses # {},
           session[c].addrPrimary = NoAddress
             \/ session'[c].addrPrimary = session[c].addrPrimary
    PROVE  AddressAsked(c)'
<1>1. NamedBy(c) \subseteq Addresses
  BY NamedType DEF TypeInv, VariableTypes
<1>2. NamedBy(c) # {} => session[c].addrPrimary # NoAddress
  BY <1>1, NoAddressAssumption DEF AddressAsked
<1>3. QED
  BY <1>2 DEF AddressAsked

LEMMA AddressNext ==
    ASSUME TypeInv, TypeInv', AddressInv, [Next]_vars
    PROVE  AddressInv'
<1> USE DEF TypeInv
<1>0. /\ session \in [Clients -> Session] /\ asked \in [Clients -> Seq(Asked)]
      /\ \A c \in Clients : session[c].authorized \in BOOLEAN
  BY DEF VariableTypes, Session
<1>1. CreditsNamedAddress'
  <2>1. CASE credits' = credits
    BY <2>1 DEF AddressInv, CreditsNamedAddress
  <2>2. CASE SomeCreditGiven
    <3> PICK c \in Clients, a \in Addresses, w \in BOOLEAN, share \in Share, s \in Session,
             r \in Credit : CreditGiven(c, a, w, share, s, r)
      BY <2>2, Zenon DEF SomeCreditGiven
    <3>0. /\ credits' = Append(credits, r) /\ Fresh(s, share, w)
          /\ r.addrPrimary = s.addrPrimary /\ r.named = NamedBy(c)
          /\ s.authorized = session[c].authorized
          /\ s.addrPrimary = IF session[c].addrPrimary = NoAddress
                               THEN a ELSE session[c].addrPrimary
      BY Zenon DEF CreditGiven
    <3>1. session[c].authorized
      BY <3>0 DEF Fresh, MaySubmit
    <3>2. NamedBy(c) \cap ValidAddresses # {} /\ session[c].addrPrimary \in NamedBy(c)
      BY <3>1 DEF AddressInv, AddressAsked
    <3>3. NamedBy(c) \subseteq Addresses
      BY <1>0, NamedType
    <3>4. r.addrPrimary \in r.named /\ r.named \cap ValidAddresses # {}
      BY <3>0, <3>2, <3>3, NoAddressAssumption
    <3>5. \A i \in DOMAIN credits' :
            \/ credits'[i] = r
            \/ i \in DOMAIN credits /\ credits'[i] = credits[i]
      <4>1. /\ DOMAIN credits' = 1..(Len(credits) + 1)
            /\ DOMAIN credits = 1..Len(credits) /\ Len(credits) \in Nat
            /\ \A i \in DOMAIN credits : credits'[i] = credits[i]
            /\ credits'[Len(credits) + 1] = r
        BY <3>0, CreditAppended DEF VariableTypes
      <4>2. QED
        BY <4>1
    <3>6. QED
      BY <3>4, <3>5 DEF AddressInv, CreditsNamedAddress
  <2>3. QED
    BY <2>1, <2>2, CreditCases
<1>2. ASSUME NEW c \in Clients, NEW t, NEW q, session' = [session EXCEPT ![c] = t],
             asked' = [asked EXCEPT ![c] = q], AddressAsked(c)'
      PROVE  \A x \in Clients : AddressAsked(x)'
  <2>1. ASSUME NEW x \in Clients, x # c PROVE AddressAsked(x)'
    <3>1. session'[x] = session[x] /\ asked'[x] = asked[x]
      BY <1>0, <1>2, <2>1
    <3>2. NamedBy(x)' = NamedBy(x)
      BY <3>1 DEF NamedBy
    <3>3. QED
      BY <3>1, <3>2, AddressKept DEF AddressInv
  <2>2. QED
    BY <1>2, <2>1
<1>3. ASSUME NEW c \in Clients, Connect(c)
      PROVE  \A x \in Clients : AddressAsked(x)'
  <2>1. session'[c] = NewSession /\ asked'[c] = <<>>
    BY <1>0, <1>3 DEF Connect
  <2>2. NamedBy(c)' = {} /\ ~session'[c].authorized
    BY <2>1 DEF NamedBy, NewSession
  <2>3. AddressAsked(c)'
    BY <2>2 DEF AddressAsked
  <2>4. QED
    BY <1>2, <1>3, <2>3 DEF Connect
<1>4. ASSUME NEW c \in Clients, NEW t, session' = [session EXCEPT ![c] = t],
             t.authorized = session[c].authorized,
             session[c].addrPrimary = NoAddress \/ t.addrPrimary = session[c].addrPrimary,
             asked' = asked
      PROVE  \A x \in Clients : AddressAsked(x)'
  <2>1. session'[c] = t /\ NamedBy(c)' = NamedBy(c)
    BY <1>0, <1>4 DEF NamedBy
  <2>2. AddressAsked(c)'
    BY <1>4, <2>1, AddressKept DEF AddressInv
  <2>3. asked' = [asked EXCEPT ![c] = asked[c]]
    BY <1>0, <1>4
  <2>4. QED
    BY <1>2, <1>4, <2>2, <2>3
<1>5. ASSUME NEW c \in Clients, NEW s \in Session, NEW d \in Levels,
             s.authorized = session[c].authorized, s.addrPrimary = session[c].addrPrimary,
             session' = [session EXCEPT ![c] = WithDifficulty(s, d)], asked' = asked
      PROVE  \A x \in Clients : AddressAsked(x)'
  BY <1>4, <1>5, WithDifficultyType
<1>6. ASSUME NEW c \in Clients, Subscribe(c)
      PROVE  \A x \in Clients : AddressAsked(x)'
  <2> DEFINE s == [session[c] EXCEPT !.extraNonce1 = NextExtraNonce(c)]
  <2>1. NextExtraNonce(c) \in ExtraNonces
    BY BoundsAssumption DEF NextExtraNonce, ExtraNonces, VariableTypes
  <2>2. /\ s \in Session /\ s.authorized = session[c].authorized
        /\ s.addrPrimary = session[c].addrPrimary
    BY <1>0, <2>1 DEF Session
  <2>3. session' = [session EXCEPT ![c] = WithDifficulty(s, Initial)] /\ asked' = asked
    BY <1>0, <1>6 DEF Subscribe
  <2>4. Initial \in Levels
    BY DEF Levels
  <2> HIDE DEF s
  <2>5. QED
    BY <1>5, <2>2, <2>3, <2>4
<1>7. ASSUME NEW c \in Clients, NEW d \in Difficulties, Retarget(c, d)
      PROVE  \A x \in Clients : AddressAsked(x)'
  <2>1. session[c] \in Session /\ d \in Levels
    BY <1>0 DEF Levels
  <2>2. session' = [session EXCEPT ![c] = WithDifficulty(session[c], d)] /\ asked' = asked
    BY <1>0, <1>7 DEF Retarget
  <2>3. QED
    BY <1>5, <2>1, <2>2
<1>8. ASSUME NEW c \in Clients, NEW a \in Addresses, Authorize(c, a)
      PROVE  \A x \in Clients : AddressAsked(x)'
  <2> DEFINE t == [session[c] EXCEPT !.addrPrimary = a]
             e == [address |-> a, answered |-> FALSE]
             q == Append(asked[c], e)
  <2>1. t.authorized = session[c].authorized /\ t.addrPrimary = a
    BY <1>0 DEF Session
  <2>2. session' = [session EXCEPT ![c] = t] /\ asked' = [asked EXCEPT ![c] = q]
    BY <1>0, <1>8 DEF Authorize
  <2>3. e \in Asked /\ e.address = a /\ asked[c] \in Seq(Asked)
    BY <1>0 DEF Asked
  <2> HIDE DEF t, e
  <2>4. /\ \A i \in DOMAIN asked[c] : i \in DOMAIN q /\ q[i] = asked[c][i]
        /\ \E i \in DOMAIN q : q[i] = e
    <3>1. Len(asked[c]) + 1 \in DOMAIN q /\ q[Len(asked[c]) + 1] = e
      BY <2>3
    <3>2. QED
      BY <2>3, <3>1
  <2> HIDE DEF q
  <2>5. session'[c] = t /\ asked'[c] = q
    BY <1>0, <2>2
  <2>6. NamedBy(c) \subseteq NamedBy(c)' /\ a \in NamedBy(c)'
    BY <2>3, <2>4, <2>5 DEF NamedBy
  <2>7. AddressAsked(c)
    BY DEF AddressInv
  <2>8. AddressAsked(c)'
    BY <2>1, <2>5, <2>6, <2>7 DEF AddressAsked
  <2>9. QED
    BY <1>2, <2>2, <2>8
<1>9. ASSUME NEW c \in Clients, NEW i \in DOMAIN asked[c], Authorized(c, i)
      PROVE  \A x \in Clients : AddressAsked(x)'
  <2>1. PICK ok \in {asked[c][i].address \in ValidAddresses, FALSE} :
               session' = [session EXCEPT ![c].authorized = ok]
    BY <1>9, Zenon DEF Authorized
  <2> DEFINE t == [session[c] EXCEPT !.authorized = ok]
             q == Answered(asked[c], i)
  <2>2. session' = [session EXCEPT ![c] = t] /\ asked' = [asked EXCEPT ![c] = q]
    BY <1>0, <1>9, <2>1 DEF Authorized, Answered
  <2>3. t.authorized = ok /\ t.addrPrimary = session[c].addrPrimary
    BY <1>0 DEF Session
  <2>4. ok => asked[c][i].address \in ValidAddresses
    BY <2>1, Zenon
  <2>5. DOMAIN q = DOMAIN asked[c] /\ \A k \in DOMAIN q : q[k].address = asked[c][k].address
    BY <1>0, AnsweredType
  <2> HIDE DEF t, q
  <2>6. session'[c] = t /\ asked'[c] = q
    BY <1>0, <2>2
  <2>7. NamedBy(c)' = NamedBy(c)
    BY <2>5, <2>6 DEF NamedBy
  <2>8. asked[c][i].address \in NamedBy(c)
    BY DEF NamedBy
  <2>9. session'[c].authorized => NamedBy(c) \cap ValidAddresses # {}
    BY <2>3, <2>4, <2>6, <2>8, Zenon
  <2>10. AddressAsked(c)'
    BY <2>3, <2>6, <2>7, <2>9, AddressKept DEF AddressInv
  <2>11. QED
    BY <1>2, <2>2, <2>10
<1>10. ASSUME NEW c \in Clients, NEW a \in Addresses, NEW w \in BOOLEAN,
              HandleSubmit(c, a, w)
       PROVE  \A x \in Clients : AddressAsked(x)'
  <2>1. PICK share \in Share, s \in Session, t \in Session, d \in KnownLevels,
             fresh \in BOOLEAN, ok \in BOOLEAN :
                SubmitEffect(c, a, w, share, s, t, d, fresh, ok)
    BY <1>10, SubmitParts
  <2>2. /\ t.authorized = session[c].authorized
        /\ session[c].addrPrimary = NoAddress \/ t.addrPrimary = session[c].addrPrimary
        /\ session' = [session EXCEPT ![c] = t] /\ asked' = asked
    BY <2>1, Zenon DEF SubmitEffect
  <2>3. QED
    BY <1>4, <2>2
<1>11. ASSUME \/ UNCHANGED vars
              \/ \E b \in BOOLEAN : NewJob(b)
              \/ \E c \in Clients :
                   \/ Forgive(c) \/ Disconnect(c) \/ MinerHears(c)
                   \/ \E j \in Jobs, x \in Texts : MinerSends(c, j, x)
       PROVE  \A x \in Clients : AddressAsked(x)'
  <2>1. UNCHANGED <<session, asked>>
    BY <1>11, Zenon DEF vars, NewJob, Forgive, Disconnect, MinerHears, MinerSends
  <2>2. \A x \in Clients : NamedBy(x)' = NamedBy(x)
    BY <2>1 DEF NamedBy
  <2>3. QED
    BY <2>1, <2>2, AddressKept DEF AddressInv
<1>12. \A x \in Clients : AddressAsked(x)'
  BY <1>3, <1>6, <1>7, <1>8, <1>9, <1>10, <1>11 DEF Next
<1>13. QED
  BY <1>1, <1>12 DEF AddressInv

(* However often a session authorizes and in whatever order the daemon        *)
(* answers, a credit goes to an address the session asked for, in a session   *)
(* of which the daemon found an address valid.                                *)
THEOREM CreditedAddressesNamed == Spec => []CreditsNamedAddress
<1>1. Init => AddressInv
  BY DEF Init, AddressInv, AddressAsked, CreditsNamedAddress, NewSession, NamedBy
<1>2. AddressInv => CreditsNamedAddress
  BY DEF AddressInv
<1>3. QED
  BY <1>1, <1>2, AddressNext, TypeInit, TypeNext, PTL DEF Spec

-----------------------------------------------------------------------------
(* The variable difficulty.                                                   *)
(* The sum of a window: the recursive function exists, and is natural.        *)
LEMMA TotalIsNat ==
  ASSUME NEW q \in Seq(Nat)
  PROVE  Total(q) \in Nat
<1> DEFINE sumsTo(g, n) == \A k \in 0..n : g[k] = IF k = 0 THEN 0 ELSE g[k - 1] + q[k]
<1> DEFINE D == {n \in Nat : \E g \in [0..n -> Nat] : sumsTo(g, n)}
<1>0. Len(q) \in Nat
  OBVIOUS
<1>1. 0 \in D
  <2>1. [k \in 0..0 |-> 0] \in [0..0 -> Nat] /\ sumsTo([k \in 0..0 |-> 0], 0)
    BY SMT
  <2>2. QED
    BY <2>1
<1>2. ASSUME NEW n \in 0..(Len(q) - 1), n \in D  PROVE n + 1 \in D
  <2>1. n \in Nat /\ n + 1 \in Nat /\ n + 1 <= Len(q) /\ q[n + 1] \in Nat
    BY <1>0
  <2>2. PICK g \in [0..n -> Nat] : sumsTo(g, n)
    BY <1>2, Zenon
  <2> DEFINE h == [k \in 0..(n + 1) |-> IF k = n + 1 THEN g[n] + q[n + 1] ELSE g[k]]
  <2>3. h \in [0..(n + 1) -> Nat]
    BY <2>1, SMT
  <2>4. sumsTo(h, n + 1)
    BY <2>1, <2>2, SMT
  <2>5. QED
    BY <2>1, <2>3, <2>4
<1>3. PICK g \in [0..Len(q) -> Nat] : sumsTo(g, Len(q))
  <2>1. Len(q) \in D
    <3> HIDE DEF D
    <3>1. \A k \in 0..Len(q) : k \in D
      BY <1>0, <1>1, <1>2, InductionUpTo
    <3>2. QED
      BY <1>0, <3>1
  <2>2. QED
    BY <2>1
<1> DEFINE sum == CHOOSE f : f = [k \in 0..Len(q) |-> IF k = 0 THEN 0 ELSE f[k - 1] + q[k]]
<1>4. g = [k \in 0..Len(q) |-> IF k = 0 THEN 0 ELSE g[k - 1] + q[k]]
  BY <1>3
<1>5. sum = [k \in 0..Len(q) |-> IF k = 0 THEN 0 ELSE sum[k - 1] + q[k]]
  BY <1>4
<1>6. Total(q) = sum[Len(q)]
  BY DEF Total
<1> DEFINE E == {n \in Nat : sum[n] \in Nat}
<1> HIDE DEF sum
<1>7. 0 \in E
  BY <1>0, <1>5, SMT
<1>8. ASSUME NEW n \in 0..(Len(q) - 1), n \in E  PROVE n + 1 \in E
  <2>1. n + 1 \in Nat /\ q[n + 1] \in Nat /\ sum[n] \in Nat
    BY <1>0, <1>8
  <2>2. sum[n + 1] = sum[n] + q[n + 1]
    BY <1>0, <1>5, <2>1, SMT
  <2>3. QED
    BY <2>1, <2>2, SMT
<1>9. Len(q) \in E
  <2> HIDE DEF E
  <2>1. \A k \in 0..Len(q) : k \in E
    BY <1>0, <1>7, <1>8, InductionUpTo
  <2>2. QED
    BY <1>0, <2>1
<1>10. QED
  BY <1>6, <1>9

-----------------------------------------------------------------------------
(* Quotients by a positive number, from the rule of Euclid.                   *)
LEMMA Quotient ==
  ASSUME NEW a \in Nat, NEW b \in Nat \ {0}
  PROVE  /\ a \div b \in Nat
         /\ \A k \in Nat : k * b <= a => k <= a \div b
         /\ \A k \in Nat : a < (k + 1) * b => a \div b <= k
<1> DEFINE r == a % b
           f == a \div b
<1>1. f \in Int /\ r \in 0..(b - 1) /\ a = b * f + r
  BY SMT
<1> HIDE DEF f, r
<1>2. f >= 0
  <2>1. SUFFICES ASSUME f <= -1  PROVE FALSE
    BY <1>1, SMT
  <2>2. b * f <= b * (-1)
    BY <1>1, <2>1, SMT
  <2>3. QED
    BY <1>1, <2>2, SMT
<1>3. ASSUME NEW k \in Nat, k * b <= a  PROVE k <= f
  <2>1. SUFFICES ASSUME f + 1 <= k  PROVE FALSE
    BY <1>1, SMT
  <2>2. b * (f + 1) <= b * k
    BY <1>1, <2>1, SMT
  <2>3. b * (f + 1) = b * f + b /\ b * k = k * b
    BY <1>1, SMT
  <2>4. QED
    BY <1>1, <1>3, <2>2, <2>3, SMT
<1>4. ASSUME NEW k \in Nat, a < (k + 1) * b  PROVE f <= k
  <2>1. SUFFICES ASSUME k + 1 <= f  PROVE FALSE
    BY <1>1, SMT
  <2>2. b * (k + 1) <= b * f
    BY <1>1, <2>1, SMT
  <2>3. b * (k + 1) = (k + 1) * b
    BY SMT
  <2>4. QED
    BY <1>1, <1>4, <2>2, <2>3, SMT
<1>5. QED
  BY <1>1, <1>2, <1>3, <1>4 DEF f

(* Scaled rounds the quotient x / s of target and actual time the right way:  *)
(* up to d if the quotient is at least 1, down to d if it is at most 1.       *)
LEMMA Rounded ==
  ASSUME NEW d \in Nat, NEW x \in Nat, NEW s \in Nat \ {0}
  PROVE  /\ (2 * d * x + s) \div (2 * s) \in Nat
         /\ x <= s => (2 * d * x + s) \div (2 * s) <= d
         /\ s <= x => d <= (2 * d * x + s) \div (2 * s)
<1> DEFINE a == 2 * d * x + s
           b == 2 * s
<1>1. a \in Nat /\ b \in Nat \ {0}
  BY SMT
<1>2. x <= s => a < (d + 1) * b
  <2>1. SUFFICES ASSUME x <= s  PROVE a < (d + 1) * b
    OBVIOUS
  <2>2. (2 * d) * x <= (2 * d) * s
    BY <2>1, SMT
  <2>3. (d + 1) * b = (2 * d) * s + 2 * s
    BY SMT
  <2>4. QED
    BY <2>2, <2>3, SMT
<1>3. s <= x => d * b <= a
  <2>1. SUFFICES ASSUME s <= x  PROVE d * b <= a
    OBVIOUS
  <2>2. (2 * d) * s <= (2 * d) * x
    BY <2>1, SMT
  <2>3. d * b = (2 * d) * s
    BY SMT
  <2>4. QED
    BY <2>2, <2>3, SMT
<1>4. /\ a \div b \in Nat
      /\ a < (d + 1) * b => a \div b <= d
      /\ d * b <= a => d <= a \div b
  <2> HIDE DEF a, b
  <2> QED
    BY <1>1, Quotient
<1>5. QED
  BY <1>2, <1>3, <1>4

(* A window outside the variance is on one side of the target.                *)
LEMMA OutsideVariance ==
  ASSUME NEW q \in Seq(Nat), q # <<>>
  PROVE  /\ TargetTime * Len(q) \in Nat \ {0}
         /\ ~BelowMinTime(q) => TargetTime * Len(q) <= Total(q)
         /\ ~AboveMaxTime(q) => Total(q) <= TargetTime * Len(q)
         /\ AboveMaxTime(q) => Total(q) # 0
<1> DEFINE x == Len(q) * TargetTime
<1>1. Total(q) \in Nat
  BY TotalIsNat
<1>2. Len(q) \in Nat \ {0} /\ TargetTime \in Nat \ {0} /\ Variance \in 0..99
  BY TimesAssumption
<1>3. x \in Nat \ {0} /\ TargetTime * Len(q) = x
  BY <1>2, SMT
<1> DEFINE v == x * Variance
           low == x * (100 - Variance)
           high == x * (100 + Variance)
<1>4. low = 100 * x - v /\ high = 100 * x + v
  BY <1>2, <1>3, SMT
<1>5. v \in Nat /\ v <= 99 * x
  <2> HIDE DEF x
  <2>1. x * Variance <= x * 99 /\ x * 99 = 99 * x
    BY <1>2, <1>3, SMT
  <2>2. x * Variance \in Nat
    BY <1>2, <1>3, SMT
  <2>3. QED
    BY <2>1, <2>2
<1>6. (~BelowMinTime(q) => 100 * x <= 100 * Total(q)) /\ (~AboveMaxTime(q) => 100 * Total(q) <= 100 * x)
      /\ (AboveMaxTime(q) => 100 * Total(q) > 0)
  <2>1. BelowMinTime(q) <=> 100 * Total(q) < high
    BY DEF BelowMinTime
  <2>2. AboveMaxTime(q) <=> 100 * Total(q) > low
    BY DEF AboveMaxTime
  <2> HIDE DEF x, v, low, high
  <2>3. QED
    BY <1>1, <1>3, <1>4, <1>5, <2>1, <2>2, SMT
<1>7. QED
  <2> HIDE DEF x
  <2> QED
    BY <1>1, <1>3, <1>6, SMT

(* What a retarget chooses is a difficulty, and it moves the right way.       *)
LEMMA RetargetRight ==
  ASSUME NEW d \in Nat \ {0}, NEW q \in Seq(Nat), q # <<>>,
         CheckDifficulty(d, q) # None
  PROVE  /\ CheckDifficulty(d, q) \in Nat
         /\ ~BelowMinTime(q) => CheckDifficulty(d, q) \in Minimum..d
         /\ ~AboveMaxTime(q) => CheckDifficulty(d, q) \in d..Maximum
<1> DEFINE x == TargetTime * Len(q)
           s == Total(q)
           r == Scaled(d, q)
<1>1. s \in Nat /\ Minimum \in Nat /\ Maximum \in Nat
  BY TotalIsNat, LimitsAssumption
<1>2. /\ x \in Nat \ {0}
      /\ ~BelowMinTime(q) => x <= s
      /\ ~AboveMaxTime(q) => s <= x
      /\ AboveMaxTime(q) => s # 0
  BY OutsideVariance
<1>3. s # 0 => r \in Nat /\ (x <= s => r <= d) /\ (s <= x => d <= r)
  <2>1. SUFFICES ASSUME s # 0
                 PROVE  r \in Nat /\ (x <= s => r <= d) /\ (s <= x => d <= r)
    OBVIOUS
  <2>2. 2 * d * TargetTime * Len(q) = 2 * d * x
    <3>1. Len(q) \in Nat /\ TargetTime \in Nat
      BY TimesAssumption
    <3>2. QED
      BY <3>1, SMT
  <2>3. r = (2 * d * x + s) \div (2 * s)
    BY <2>2 DEF Scaled
  <2> HIDE DEF x, s, r
  <2>4. QED
    BY <1>1, <1>2, <2>1, <2>3, Rounded
<1>4. \/ /\ AboveMaxTime(q) /\ d > Minimum
         /\ CheckDifficulty(d, q) = IF r < Minimum THEN Minimum ELSE r
      \/ /\ BelowMinTime(q) /\ d < Maximum
         /\ CheckDifficulty(d, q) = IF s = 0 \/ r > Maximum THEN Maximum ELSE r
  BY DEF CheckDifficulty, ShiftsDown, ShiftsUp
<1>5. QED
  <2> HIDE DEF x, s, r
  <2> QED
    BY <1>1, <1>2, <1>3, <1>4, SMT

-----------------------------------------------------------------------------
(* The types, and what they need: the clocks of the port have been started    *)
(* together and lie in the past, so that no interval is negative.             *)
VarDiffInv ==
    /\ VarDiffTypeOK
    /\ DOMAIN queue = Miners
    /\ lastSavedTime <= now
    /\ lastRetargetTime # Never => lastSavedTime # None

(* A window keeps its type and its bound when an interval is appended.        *)
LEMMA AppendedBounded ==
  ASSUME NEW q \in Seq(0..MaxTime), NEW x \in 0..MaxTime,
         Len(q) * TargetTime < 4 * RetargetTime + TargetTime
  PROVE  /\ Appended(q, x) \in Seq(0..MaxTime) /\ Appended(q, x) # <<>>
         /\ Len(Appended(q, x)) * TargetTime < 4 * RetargetTime + TargetTime
<1> DEFINE n == Len(q)
           len == Len(Appended(q, x))
<1>1. n \in Nat /\ TargetTime \in Nat \ {0} /\ RetargetTime \in Nat \ {0}
  BY TimesAssumption
<1>2. CASE n * TargetTime >= 4 * RetargetTime
  <2>1. n # 0
    BY <1>1, <1>2, SMT
  <2>2. q # <<>> /\ Tail(q) \in Seq(0..MaxTime) /\ Len(Tail(q)) = n - 1
    BY <2>1
  <2>3. Appended(q, x) = Append(Tail(q), x)
    BY <1>2 DEF Appended
  <2>4. Appended(q, x) \in Seq(0..MaxTime) /\ Appended(q, x) # <<>> /\ len = n
    BY <1>1, <2>2, <2>3
  <2>5. QED
    BY <2>4
<1>3. CASE ~(n * TargetTime >= 4 * RetargetTime)
  <2>1. Appended(q, x) = Append(q, x)
    BY <1>3 DEF Appended
  <2>2. Appended(q, x) \in Seq(0..MaxTime) /\ Appended(q, x) # <<>> /\ len = n + 1
    BY <2>1
  <2> HIDE DEF n, len
  <2>3. (n + 1) * TargetTime = n * TargetTime + TargetTime /\ n * TargetTime \in Nat
    BY <1>1, SMT
  <2> DEFINE y == n * TargetTime
  <2>4. len * TargetTime = y + TargetTime
    BY <2>2, <2>3
  <2>5. y < 4 * RetargetTime /\ y \in Nat
    BY <1>1, <1>3, <2>3, SMT
  <2> HIDE DEF y
  <2>6. len * TargetTime < 4 * RetargetTime + TargetTime
    BY <1>1, <2>4, <2>5, SMT
  <2>7. QED
    BY <2>2, <2>6 DEF len
<1>4. QED
  BY <1>2, <1>3

(* The window and the retarget of a later share.                              *)
LEMMA LaterShareFacts ==
  ASSUME VarDiffInv, NEW c \in Miners, difficulty[c] # 0, lastRetargetTime # Never,
         NEW q, q = Appended(queue[c], now - lastSavedTime),
         NEW d, d = CheckDifficulty(difficulty[c], q)
  PROVE  /\ q \in Seq(0..MaxTime) /\ q # <<>>
         /\ Len(q) * TargetTime < 4 * RetargetTime + TargetTime
         /\ d # None => /\ d \in Nat
                        /\ ~BelowMinTime(q) => d \in Minimum..difficulty[c]
                        /\ ~AboveMaxTime(q) => d \in difficulty[c]..Maximum
<1>1. now - lastSavedTime \in 0..MaxTime
  BY TimesAssumption DEF VarDiffInv, VarDiffTypeOK, None
<1>2. /\ queue[c] \in Seq(0..MaxTime)
      /\ Len(queue[c]) * TargetTime < 4 * RetargetTime + TargetTime
  BY DEF VarDiffInv, VarDiffTypeOK
<1>3. /\ q \in Seq(0..MaxTime) /\ q # <<>>
      /\ Len(q) * TargetTime < 4 * RetargetTime + TargetTime
  BY <1>1, <1>2, AppendedBounded
<1>4. q \in Seq(Nat)
  <2>1. 0..MaxTime \subseteq Nat
    BY TimesAssumption, SMT
  <2>2. QED
    BY <1>3, <2>1, SeqMonotonic
<1>5. difficulty[c] \in Nat \ {0}
  BY DEF VarDiffInv, VarDiffTypeOK
<1>6. QED
  BY <1>3, <1>4, <1>5, RetargetRight

(* What handleDifficulty does to the state of the port.                       *)
LEMMA SubmitCases ==
  ASSUME VarDiffInv, NEW c \in Miners, Submit(c)
  PROVE  /\ lastSavedTime' = now /\ lastRetargetTime' \in Int
         /\ UNCHANGED <<now, difficulty, staticDifficulty>>
         /\ \/ UNCHANGED <<queue, pendingDifficulty>>
            \/ \E q \in Seq(0..MaxTime) :
                 /\ queue' = [queue EXCEPT ![c] = q]
                 /\ Len(q) * TargetTime < 4 * RetargetTime + TargetTime
                 /\ \/ UNCHANGED pendingDifficulty
                    \/ \E d \in Nat :
                         /\ pendingDifficulty' = [pendingDifficulty EXCEPT ![c] = d]
                         /\ ~BelowMinTime(q) => d \in Minimum..difficulty[c]
                         /\ ~AboveMaxTime(q) => d \in difficulty[c]..Maximum
<1>1. /\ lastSavedTime' = now /\ UNCHANGED <<now, difficulty, staticDifficulty>>
      /\ difficulty[c] # 0
  BY DEF Submit
<1>2. now \in Int /\ RetargetTime \div 2 \in Int /\ lastRetargetTime \in Int
  BY TimesAssumption DEF VarDiffInv, VarDiffTypeOK
<1>3. CASE FirstShare(c)
  BY <1>1, <1>2, <1>3 DEF FirstShare
<1>4. CASE LaterShare(c)
  <2> DEFINE q == Appended(queue[c], now - lastSavedTime)
             d == CheckDifficulty(difficulty[c], q)
  <2>1. /\ lastRetargetTime # Never
        /\ queue' = [queue EXCEPT ![c] = q]
        /\ lastRetargetTime' \in {lastRetargetTime, now}
        /\ \/ UNCHANGED pendingDifficulty
           \/ pendingDifficulty' = IF d = None THEN pendingDifficulty ELSE Enqueued(c, d)
    BY <1>4, Zenon DEF LaterShare
  <2> HIDE DEF q, d
  <2>2. \/ UNCHANGED pendingDifficulty
        \/ d # None /\ pendingDifficulty' = [pendingDifficulty EXCEPT ![c] = d]
    BY <2>1 DEF Enqueued
  <2>3. /\ q \in Seq(0..MaxTime)
        /\ Len(q) * TargetTime < 4 * RetargetTime + TargetTime
        /\ d # None => /\ d \in Nat
                       /\ ~BelowMinTime(q) => d \in Minimum..difficulty[c]
                       /\ ~AboveMaxTime(q) => d \in difficulty[c]..Maximum
    BY <1>1, <2>1, LaterShareFacts DEF q, d
  <2>4. QED
    BY <1>1, <1>2, <2>1, <2>2, <2>3
<1>5. QED
  BY <1>3, <1>4 DEF Submit

-----------------------------------------------------------------------------
LEMMA VarDiffInitially == VarDiffInit => VarDiffInv
<1> SUFFICES ASSUME VarDiffInit  PROVE VarDiffInv
  OBVIOUS
<1>1. \A c \in Miners : queue[c] = <<>>
  BY DEF VarDiffInit
<1>2. Len(<<>>) * TargetTime < 4 * RetargetTime + TargetTime
  BY TimesAssumption, SMT
<1>3. QED
  BY <1>1, <1>2, TimesAssumption, LimitsAssumption
     DEF VarDiffInit, VarDiffInv, VarDiffTypeOK, Never, None

(* The parts of the invariant that concern the difficulties and the windows.  *)
LEMMA VarDiffStep ==
  ASSUME VarDiffInv, [VarDiffNext]_difficultyVars
  PROVE  VarDiffInv'
<1>0. /\ now \in 0..MaxTime /\ MaxTime \in Nat
      /\ lastRetargetTime \in Int /\ lastSavedTime \in {None} \cup 0..MaxTime
      /\ DOMAIN queue = Miners
      /\ \A c \in Miners : /\ queue[c] \in Seq(0..MaxTime)
                            /\ Len(queue[c]) * TargetTime < 4 * RetargetTime + TargetTime
      /\ difficulty \in [Miners -> Nat]
      /\ pendingDifficulty \in [Miners -> Nat \cup {None}]
      /\ staticDifficulty \in [Miners -> BOOLEAN]
  BY TimesAssumption DEF VarDiffInv, VarDiffTypeOK
<1>1. /\ <<>> \in Seq(0..MaxTime)
      /\ Len(<<>>) * TargetTime < 4 * RetargetTime + TargetTime
  <2>1. Len(<<>>) * TargetTime < 4 * RetargetTime + TargetTime
    BY TimesAssumption, SMT
  <2>2. QED
    BY <2>1
<1>2. ASSUME NEW c \in Miners, Submit(c)
      PROVE  VarDiffInv'
  <2>1. /\ lastSavedTime' = now /\ lastRetargetTime' \in Int
        /\ UNCHANGED <<now, difficulty, staticDifficulty>>
    BY <1>2, SubmitCases
  <2>2. /\ DOMAIN queue' = Miners
        /\ \A x \in Miners : /\ queue'[x] \in Seq(0..MaxTime)
                              /\ Len(queue'[x]) * TargetTime < 4 * RetargetTime + TargetTime
        /\ pendingDifficulty' \in [Miners -> Nat \cup {None}]
    <3>1. CASE UNCHANGED <<queue, pendingDifficulty>>
      BY <1>0, <3>1
    <3>2. ASSUME NEW q \in Seq(0..MaxTime), queue' = [queue EXCEPT ![c] = q],
                 Len(q) * TargetTime < 4 * RetargetTime + TargetTime
          PROVE  /\ DOMAIN queue' = Miners
                 /\ \A x \in Miners :
                      /\ queue'[x] \in Seq(0..MaxTime)
                      /\ Len(queue'[x]) * TargetTime < 4 * RetargetTime + TargetTime
      BY <1>0, <3>2, Zenon
    <3>3. ASSUME NEW d \in Nat, pendingDifficulty' = [pendingDifficulty EXCEPT ![c] = d]
          PROVE  pendingDifficulty' \in [Miners -> Nat \cup {None}]
      BY <1>0, <3>3
    <3>4. QED
      BY <1>0, <1>2, <3>1, <3>2, <3>3, SubmitCases
  <2>3. now # None
    BY <1>0 DEF None
  <2>4. QED
    BY <1>0, <2>1, <2>2, <2>3 DEF VarDiffInv, VarDiffTypeOK
<1>3. ASSUME NEW c \in Miners,
             UNCHANGED <<now, lastRetargetTime, lastSavedTime, staticDifficulty>>,
             NEW d \in Nat, difficulty' = [difficulty EXCEPT ![c] = d],
             NEW q \in {queue[c], <<>>}, queue' = [queue EXCEPT ![c] = q],
             pendingDifficulty' = [pendingDifficulty EXCEPT ![c] = None]
      PROVE  VarDiffInv'
  <2>1. /\ q \in Seq(0..MaxTime)
        /\ Len(q) * TargetTime < 4 * RetargetTime + TargetTime
    BY <1>0, <1>1
  <2>2. /\ DOMAIN queue' = Miners
        /\ \A x \in Miners : /\ queue'[x] \in Seq(0..MaxTime)
                              /\ Len(queue'[x]) * TargetTime < 4 * RetargetTime + TargetTime
    BY <1>0, <1>3, <2>1, Zenon
  <2>3. /\ difficulty' \in [Miners -> Nat]
        /\ pendingDifficulty' \in [Miners -> Nat \cup {None}]
    BY <1>0, <1>3
  <2>4. QED
    BY <1>0, <1>3, <2>2, <2>3 DEF VarDiffInv, VarDiffTypeOK
<1>4. ASSUME NEW c \in Miners, BroadcastMiningJob(c)
      PROVE  VarDiffInv'
  <2>1. pendingDifficulty[c] \in Nat
    BY <1>0, <1>4 DEF BroadcastMiningJob
  <2>2. QED
    BY <1>0, <1>3, <1>4, <2>1 DEF BroadcastMiningJob
<1>5. ASSUME NEW c \in Miners, Subscription(c)
      PROVE  VarDiffInv'
  <2>1. (IF pendingDifficulty[c] # None THEN pendingDifficulty[c] ELSE InitialDifficulty) \in Nat
    BY <1>0, LimitsAssumption
  <2>2. QED
    BY <1>0, <1>3, <1>5, <2>1 DEF Subscription
<1>6. ASSUME NEW c \in Miners, AuthorizeWithFlag(c)
      PROVE  VarDiffInv'
  <2>1. pendingDifficulty' \in [Miners -> Nat \cup {None}]
    BY <1>0, <1>6, LimitsAssumption DEF AuthorizeWithFlag, Enqueued
  <2>2. staticDifficulty' \in [Miners -> BOOLEAN]
    BY <1>0, <1>6 DEF AuthorizeWithFlag
  <2>3. UNCHANGED <<now, lastRetargetTime, lastSavedTime, queue, difficulty>>
    BY <1>6 DEF AuthorizeWithFlag
  <2>4. QED
    BY <2>1, <2>2, <2>3 DEF VarDiffInv, VarDiffTypeOK
<1>7. CASE Tick
  BY <1>0, <1>7 DEF Tick, VarDiffInv, VarDiffTypeOK, None
<1>8. CASE UNCHANGED difficultyVars
  BY <1>8 DEF difficultyVars, VarDiffInv, VarDiffTypeOK
<1>9. QED
  BY <1>2, <1>4, <1>5, <1>6, <1>7, <1>8 DEF VarDiffNext

(* A step of the variable difficulty that both records an interval and queues *)
(* a difficulty is a retarget, and a retarget moves the right way.            *)
LEMMA RetargetStep ==
  ASSUME VarDiffInv, [VarDiffNext]_difficultyVars, NEW c \in Miners,
         pendingDifficulty'[c] # pendingDifficulty[c], queue'[c] # queue[c],
         pendingDifficulty'[c] # None
  PROVE  /\ ~BelowMinTime(queue'[c]) => pendingDifficulty'[c] \in Minimum..difficulty[c]
         /\ ~AboveMaxTime(queue'[c]) => pendingDifficulty'[c] \in difficulty[c]..Maximum
<1>0. DOMAIN queue = Miners /\ DOMAIN pendingDifficulty = Miners
  BY DEF VarDiffInv, VarDiffTypeOK
<1>1. ASSUME NEW x \in Miners, BroadcastMiningJob(x) \/ Subscription(x)
      PROVE  FALSE
  <2>1. pendingDifficulty' = [pendingDifficulty EXCEPT ![x] = None]
    BY <1>1 DEF BroadcastMiningJob, Subscription
  <2>2. QED
    BY <1>0, <2>1
<1>2. ASSUME NEW x \in Miners, AuthorizeWithFlag(x)
      PROVE  FALSE
  BY <1>2 DEF AuthorizeWithFlag
<1>3. PICK x \in Miners : Submit(x)
  BY <1>1, <1>2, Zenon DEF VarDiffNext, difficultyVars, Tick
<1>4. PICK q \in Seq(0..MaxTime) :
        /\ queue' = [queue EXCEPT ![x] = q]
        /\ \E d \in Nat :
             /\ pendingDifficulty' = [pendingDifficulty EXCEPT ![x] = d]
             /\ ~BelowMinTime(q) => d \in Minimum..difficulty[x]
             /\ ~AboveMaxTime(q) => d \in difficulty[x]..Maximum
  BY <1>3, SubmitCases
<1>5. x = c
  BY <1>0, <1>4
<1>6. QED
  BY <1>0, <1>4, <1>5

-----------------------------------------------------------------------------
(* A step of the server is a step of its shares and one of its difficulties,  *)
(* one of the two leaving everything as it is.                                *)
LEMMA ServerStep ==
  ASSUME [ServerNext]_<<vars, difficultyVars, part>>
  PROVE  [Next]_vars /\ [VarDiffNext]_difficultyVars
BY Zenon DEF ServerNext

(* Whatever the port's configuration, and however the shares of its miners    *)
(* are timed: the state of the server keeps its types; in particular the      *)
(* window of recorded intervals never outgrows maxSize, an interval is never  *)
(* negative, and what a retarget queues is a difficulty, also when the        *)
(* average interval is 0 (handleDifficulty, checkDifficulty).                 *)
THEOREM ServerTypeCorrect == ServerSpec => []ServerTypeOK
<1>1. ServerInit => TypeInv /\ VarDiffInv
  BY TypeInit, VarDiffInitially DEF ServerInit
<1>2. TypeInv /\ VarDiffInv /\ [ServerNext]_<<vars, difficultyVars, part>> => TypeInv' /\ VarDiffInv'
  BY ServerStep, TypeNext, VarDiffStep
<1>3. TypeInv /\ VarDiffInv => ServerTypeOK
  BY TypeInvImpliesTypeOK DEF VarDiffInv, ServerTypeOK
<1>4. QED
  BY <1>1, <1>2, <1>3, PTL DEF ServerSpec

(* Every retarget of checkDifficulty, for every window and difficulty: when   *)
(* the average is outside the variance, the difficulty moves towards the      *)
(* target, and never past the port's limit on that side.                      *)
THEOREM RetargetsCorrect == ServerSpec => RetargetsTowardsTarget
<1> DEFINE Right ==
      \A c \in Miners :
         pendingDifficulty'[c] # pendingDifficulty[c] /\ queue'[c] # queue[c]
           /\ pendingDifficulty'[c] # None =>
             /\ ~BelowMinTime(queue'[c]) => pendingDifficulty'[c] \in Minimum..difficulty[c]
             /\ ~AboveMaxTime(queue'[c]) => pendingDifficulty'[c] \in difficulty[c]..Maximum
<1>1. ServerInit => VarDiffInv
  BY VarDiffInitially DEF ServerInit
<1>2. VarDiffInv /\ [ServerNext]_<<vars, difficultyVars, part>> => VarDiffInv'
  BY ServerStep, VarDiffStep
<1>3. VarDiffInv /\ [ServerNext]_<<vars, difficultyVars, part>> => [Right]_difficultyVars
  BY ServerStep, RetargetStep
<1>4. QED
  BY <1>1, <1>2, <1>3, PTL DEF ServerSpec, RetargetsTowardsTarget

=============================================================================
