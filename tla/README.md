# TLA+ specifications of doge-connect

doge-connect lets Qubic miners mine Dogecoin. A **pool** (a Node.js stratum
server, `foundation-v2-dogecoin/`) turns the templates of a Dogecoin daemon, and
optionally of a merge-mined auxiliary chain, into jobs. The **dispatcher**
(C++, `dispatcher/`) is the pool's only miner: it sends each job as a signed
task to its Qubic peers, receives the solutions that the Qubic network gossips
back, validates them and submits them as shares. A relay, a statistics page and
some tools surround the two.

The modules here model the dispatcher's threads, connections and byte streams,
the hashing and signing code both programs rest on, and the pool's jobs,
shares, difficulties, block submissions and daemon requests. TLC checks them
on small instances; TLAPS proves the safety properties of the dispatcher, of
the pool and of the proof-of-work hash for every value of the constants.
`PROJECT.json` maps each definition to its source lines, lists the runs, a
mutation for each checked property, the hazards the properties are aimed at,
and the disagreements found between the code and what its comments, messages
and configuration say.

    cd tla
    tlc -workers 2 -config Distribution.cfg MCDispatcher
    tlapm DispatcherProofs.tla

## 1. Inventory

### Dispatcher (`dispatcher/src`)

Five threads share two queues, a map of active tasks, the stratum connection
with its `extraNonce1`, and the connections to the peers.

| Part | State | Operations | What is hard | What makes it correct |
|---|---|---|---|---|
| `stratumRecvThread` | connection, reconnect delay | read, subscribe, authorize, reconnect with backoff | loss at any point; a handshake that fails half way leaves its `extraNonce1` behind | the lines it pushes belong to the session of `extraNonce1`; the delay stays limited |
| `taskDistThread` | current difficulty, latest job, clean flag | pop, drain the queue, clear tasks, send to peers, insert the task | bursts of jobs, difficulties and answers; malformed jobs | no clean flag lost, newest job distributed, every answer counted |
| `qubicRecvThread` | poll list, retries, backoff delays | poll, mark disconnected, reconnect round robin, push solutions | another thread clears the flags of the connections it polls | open connections are polled, closed ones retried |
| `shareValidThread` | dedup set, last job id, counters | pop, skip duplicates, look the task up, hash, submit | gossip duplicates; the task changes while the hash is computed | what is submitted meets the target at the pool, too, is submitted once, and is counted |
| Packets (`qubic_connection.cpp`, `qubic_recv_thread.cpp`) | receive buffer of each connection | receive with a header and a timeout, skip, append a read, cut packets off | a packet in many reads or many in one; zero and oversized headers; a loss or a timeout in the middle | the solutions queued are those sent, and no stream starts with another one's bytes |
| Lines (`stratum_recv_thread.cpp`) | network buffer | two single reads for two answers, then lines | notifications coalesced with an answer; an answer in two reads | every line is queued once and in order |
| Crypto (`k12_and_key_utils.h`, `key_utils.cpp`, `dispatcher_signing.cpp`) | sponge and tree of a hash; redundant field elements; the signing context | KangarooTwelve, FourQ arithmetic, three scalar multiplications, sign, verify, identities, Merkle paths | carries, unreduced values, recodings into fixed arrays, block and chunk boundaries | each is its mathematical definition; a signature verifies for the data and key it was made with and for no other |
| Targets and hashes (`difficulty.cpp`, `hash_util.cpp`, `scrypt.c`) | SHA contexts, the scratchpad | compact and full targets, division, comparison; SHA-256, HMAC, PBKDF2, scrypt | padding at a block's end, in-place unrolled mixing, alignment | each is its definition; a target is one number in every form |
| `main`, `inputThread` | shutdown progress | 'q', close connections, stop, wake, join | consumers block in `pop`, receivers in `read` | every thread ends |
| `ConcurrentQueue`, `ConcurrentHashMap` | one mutex each | push, pop, try_pop; insert, get, clear | – | each method is atomic |

The threads interact only through these objects. The stratum lines flow
`stratumRecv -> queue -> taskDist -> peers`, the solutions
`peers -> qubicRecv -> queue -> shareValid -> pool`, and the answers to shares
come back through the first queue. `activeTasks` connects the two directions.

### Pool (`foundation-v2-dogecoin`)

A single-threaded event loop: handlers never interleave within themselves,
but every daemon request suspends a handler, and others run before its callback.

| Part | State | Operations | What is hard | What makes it correct |
|---|---|---|---|---|
| Polling (`pool.js`, `manager.js`) | current job, valid jobs, `auxiliary.rpcData`, `pollingFlag`, rebroadcast timer | polling timer, ZMQ messages, rebroadcast timeout, `handleTemplate`, `handleUpdates` | answers applied after the chain moved; one failing request of several; lost messages | jobs follow both chains and do not go back |
| Blocks (`pool.js`) | submissions under way | submit, check, record, for both chains | state read again after the submission; callbacks that run twice | each share is recorded once; what is announced was accepted |
| Sessions and shares (`client.js`, `manager.js`, `template.js`) | per session: extraNonce1, authorization, difficulty and previous difficulty, ban window; per job: submissions | connect, subscribe, authorize, submit, retarget, ban | retargets cross shares; authorization is asynchronous and may be repeated; shares are resent, or written differently | nothing credited twice, above its weight or to an address that was not validated; honest shares are accepted |
| Variable difficulty (`difficulty.js`) | per client a window of intervals, per port two clocks | share, retarget, job broadcast | windows at and inside the variance; shared clocks | difficulty moves towards the target time, within the limits |
| Daemon interface (`interface.js`) | instances, results | `sendCommands`, `checkOnline` | answers in any order, callbacks that run twice or never | one answer per call |
| Hash algorithms (`algorithms/`) | SHA context of sphlib, scrypt's scratchpad | streaming SHA-256, scrypt | calls cut anywhere; unaligned reads | the same digests as the dispatcher's |
| Rounds and payments (`pool.js`) | – | `checkRound`, `handlePrimaryRounds`, `handlePrimaryPayments` and auxiliary twins | categories change between two requests | planned (section 8) |
| Server processes (`server/main`) | statistics | forks, configuration, logging | – | not modelled |

### The rest

`foundation-v2-litecoin` is a fork of the pool that differs in a few lines of
its core. `relay` forwards Redis messages to web sockets. `stats` uploads and
shows JSON files. `tools` monitor and test the network. None is modelled yet;
`PROJECT.json` gives the reason for each.

## 2. Modules

| Module | Models | Remarks |
|---|---|---|
| `DispatcherState` | the objects the dispatcher's threads share, message and task records | constants and their assumptions |
| `TaskDistribution` | `taskDistThread` | |
| `ShareValidation` | `shareValidThread` | |
| `StratumSession` | `stratumRecvThread` | |
| `Dispatcher` | composition: the four threads, `main`, the pool and the network as environment | properties of the dispatcher |
| `QubicPeers` | `qubicRecvThread`'s connection management, with `taskDistThread`'s sends | what a peer's packets mean is in `Dispatcher` |
| `PeerPackets` | the handshake's receives and the reassembly of packets | EXTENDS `QubicPeers` and refines it |
| `StratumLines` | the lines of `stratumRecvThread`, and the answers parsed without them | |
| `PoolJobs` | polling, ZMQ, rebroadcast, jobs | |
| `PoolBlocks` | submission and checking of blocks | EXTENDS `PoolJobs`: blocks are found while templates change |
| `DaemonInterface` | one command sent to several daemons | |
| `PoolShares` | sessions, shares, credits, bans | |
| `VarDiff` | the variable-difficulty window and its way to the miner | |
| `Keccak` | the unrolled Keccak-p[1600, 12] | against the standard's step functions |
| `KangarooTwelve` | the incremental tree hash | against the tree of the whole message |
| `FieldArithmetic`, `FieldSequences` | GF(p^2) in two words an element; sequences of operations on one element | against residues |
| `FourQ`, `PointSequences` | points in three coordinate systems, encode and decode; sequences of operations on one point | against the affine addition law |
| `ScalarArithmetic`, `ScalarMultiplication` | Montgomery arithmetic modulo the order, decomposition and recodings; the three multiplications | against multiples in a cyclic group |
| `Signing` | signing context, signatures, `verify` | the hash is a random oracle |
| `KeyUtils` | identities, Merkle roots and paths | |
| `Difficulty` | compact and full targets | against integers |
| `Words32`, `Sha256` | 32-bit words; the two compression functions | against the definition, and the digest of "abc" |
| `HashSpec`, `HashStream` | an abstract hash of a message; the two streaming interfaces | refinement with INSTANCE |
| `KeyDerivation`, `Scrypt` | HMAC and PBKDF2; Salsa20/8, BlockMix, SMix and the scratchpad | against their definitions |
| `MCDispatcher`, `MCReceiving`, `MCPoolJobs`, `MCPoolShares`, `MCHashing`, `MCCrypto` | instances for TLC | `MCCrypto` EXTENDS `MCHashing`, which the proofs use, with what a signature is made of |
| `DispatcherProofs` | theorems about `Dispatcher`: types and distribution; submissions, answers and sessions | |
| `PeerPacketsProofs` | theorems about `QubicPeers` and `PeerPackets` | |
| `StratumLinesProofs` | theorems about `StratumLines` | |
| `PoolSharesProofs` | theorems about `PoolShares` and, with `VarDiff`, about `MCPoolShares` | |
| `PoolJobsProofs` | lemmas about `DaemonInterface`; theorems about `PoolJobs`, `PoolBlocks` and all of them together (`MCPoolJobs`) | |
| `HashingProofs` | theorems about `HashStream`, `Difficulty` and `KeyUtils` | |
| `ScryptProofs` | lemmas about `Sha256`, `Scrypt` and `KeyDerivation`; theorems about `MCHashing` | EXTENDS `HashingProofs` |
| `InductionLemmas` | induction up to a number, least members, recursive functions with a linear step | used where a recursive function is reasoned about |

An MC module may hold several parts that share no state, such as the two
receiving threads or the layers under a signature. Its initial states then
choose one part (`part`, `thread`), which runs alone while the others rest in
an initial state: their product would say nothing more.

### Correspondence with the code

**Dispatcher.** One step per access to a shared object: `tdPc`, `svPc`,
`srPc` and `mainPc` name the point each thread has reached. A queue is
the log of everything ever pushed (`received`, `solutions`) and the number
taken from it (`taken`, `solTaken`), which lets properties speak of the past
without extra history. A job is its position in `received`. A task records its
job, its target and the `extraNonce1` it was built with; `activeTasks` is a
function from job ids, which are clock readings, to tasks. `extraNonce1` is
the number of the session that set it. A target is a difficulty, where 0 and 1
are the same as in `divideTarget`. A solution carries its job id, a key that
stands for `nonce` and `extraNonce2`, `nTime`, and the merkle root its sender
claims, which the code hashes and does not submit. A root is named by what it
is computed from: the job and the session whose `extraNonce1` is in the
coinbase (`RootOf`), or neither (`OtherRoots`). `Hash` is an arbitrary
function of job, root, key and time, so the order in which hashes meet targets is
not prejudged, and `PoolRoot` is the root the pool computes for a submission.
`SendOutcomes` lets every send on an open connection fail.
The pool may send any message of `PoolMessages` at any time, lose the
connection, and answer each submission once and in any order; lines may
precede a refused authorization and are queued all the same. The network may
deliver any solution for a task it was sent, any number of times. Console and
JSON statistics are left out.

**QubicPeers.** A retry is `none`, `waiting` or `ready`; time passing is the
action `RetryDue`. Delays are in units of `reconnectBaseDelaySec`. A poll may
find any set of polled connections dead. `TaskSendFails` is `taskDistThread`.

**PeerPackets.** A packet is a sequence of bytes, the first its size and the
second its type, so a header has two bytes instead of eight. What a peer has
sent on a connection (`sent`) is delivered in reads of any length (`taken`
counts the bytes). The receives of `openQubicConnection` take a header with one
call and a packet until its timeout; `handshaken` remembers where they stopped.
An expected packet shorter than its header has a negative rest, which reads
everything that arrives (`ReadBehind`); what that does to memory is left out.
`processRecvBuffer` is one step per packet, its discarding of a buffer with a
broken header included. **StratumLines.** A message is two bytes and a newline,
and can be parsed only whole; the stream is the messages written and the number
of bytes consumed. Each read is a step, and so is each line cut off the answer
to `mining.authorize` or off `networkBuffer`. The parser's exception during
initialization is caught nowhere and ends the process.

**PoolJobs.** Each of the handlers (polling timer, ZMQ message of the primary
chain, twice so that two can overlap, ZMQ message of the auxiliary chain,
rebroadcast timeout) is a chain of requests. A daemon fixes its reply when it
answers (`DaemonAnswers`), and the reply is applied when the callback runs, an
arbitrary time later: that is where stale answers come from. A template is the
block it builds on, with its height; a job is a primary and an auxiliary
block. `mode` is one of the six configurations of `setupBlockPolling`.
**PoolBlocks** adds one record per share and per auxiliary block: what was
submitted for it, the requests under way, and how often it was recorded. A
failed submission calls back twice, as `submitPrimary` does. A share in error
is recorded as a plain one.

**PoolShares.** A share has a job, the text that is submitted for it, and the
difficulty its miner had been told; channels carry difficulties to the miner and
shares to the pool, and either may hold several messages. `LowerCase` is what the
duplicate check makes of a text and `Decoded` what the header is built from, a
nonce of fixed weight; of a text, hex decoding keeps only what precedes the first
other character, so the two agree on `HexTexts` only. `Meets` is the
comparison with its tolerance of 0.99. A credit remembers the
addresses its session had asked for (`asked`), each with its answer. Retargets are at least
`retargetTime` apart, so a share never outlives two of them (`Settled`, from
`difficulty.js`). **VarDiff** keeps the arithmetic of `checkDifficulty` in
integers: difficulties in units of the last decimal of `toFixed(8)`, times in
seconds, comparison with the variance without division. **DaemonInterface**
delivers the events of each daemon's request, one or two callbacks each, in
any order, or none (`Interrupted`): a response that has begun and is then
aborted or cut emits neither the 'end' nor the 'error' that the code listens to.

**Crypto.** `Keccak` works on the 25 lanes of 64 bits, a lane being the set of
its one bits; the parities a round leaves for the next one are accumulated row
by row, as its rows are written. In `KangarooTwelve` a byte is the set of things xored into
it and a permutation is a free function of the state, so two states are
equal only if the same bytes were absorbed in the same order; rate and chunk are
small. A machine word of the field has `WordBits` bits (64 in the code) and p is
2^(2 * `WordBits` - 1) - 1: with `WordBits = 2` the field has 49 elements, and every
operation keeps its carries and its single folded bit. `PARAMETER_d` is a non-square of that
field, so the curve is complete. Scalars have four words of `DigitBits` bits modulo a
prime order with the three eigenvalues and a lattice basis that play the part
of FourQ's; the precomputed tables are the multiples they stand for and the
endomorphisms multiplications by their eigenvalues. In `Signing` a digest is
chosen when a value is first hashed and remembered. **Hashing.** SHA-256 and
Salsa20/8 have words of the real size, a word being the set of its one bits;
a step is one word of the message schedule, one round of both compressions, or
one double round of the core. `HashStream` has small blocks and its state is the
concatenation of the blocks compressed; an iteration of `sha224_short` is a
step. PBKDF2 makes one block of the key a step, over digests that are terms
naming what was hashed. A block of SMix is a set of bits, mixed by an arbitrary
function. The sizes of bytes, words and targets, of key fragments and of
letters are constants: in the run a target has twelve bytes of two bits in four words.

## 3. Runs

Passing runs (distinct states in parentheses):

| Run | Shows |
|---|---|
| `distribution` (3.9 M) | four messages of every kind, clean or not, malformed or not, over two sessions with handshakes failing at each point: no clean flag is lost by the drain loop or by an early return, the newest job taken is the one distributed, and `extraNonce1` is that of the session being read |
| `validation` (3.1 M) | three messages, three solutions, job ids that collide, roots no task was sent with: solutions and answers are counted exactly once, request ids do not repeat, a second submission of a share needs a solution of another job in between, and the header that was hashed meets a difficulty not older than the job, as does the pool's own header when the share was mined for the one task under its job id |
| `shutdown` (92 k) | liveness: both consumers end after 'q' at any moment, and the newest well-formed job becomes active |
| `receiving` (807 k) | every open connection is polled, a disconnected peer is retried unless a send on it failed, and starts with an empty buffer; the solutions queued are exactly those sent, the lines queued exactly those the pool wrote, wherever the streams are cut; liveness: a reachable peer is reconnected although others always fail |
| `pool_jobs` (104 k) | six configurations, one failing request, lost ZMQ messages: no auxiliary update is lost between its template and the job; each share and each block of both chains is recorded once; a command to several daemons gets one answer, the right one; liveness: the job follows both chains while rebroadcasts and polling go on, every share is recorded, and every command is answered whose requests call back, or, for a streaming one, one of whose requests succeeds |
| `shares` (1.6 M) | retargets cross shares just inside and just outside the tolerance; two connections, two authorizations a session, one header in three texts: no credit above what the tolerance allows, no refusal of a share that meets the difficulty its miner knows, no header credited twice to texts of hexadecimal digits, and every credit goes to an address the session named, one of which the daemon found valid; outside the variance, the difficulty never moves away from the target time or beyond a limit |
| `crypto` (21 k) | the two SHA-256s agree with the definition round by round and implement one abstract hash however a message is cut into calls; scrypt is PBKDF2 around SMix and fits its scratchpad; targets, identities and Merkle paths are exact; the permutation after each round, the tree hash at every length around its boundaries, sequences of field and point operations, the scalar multiplications and their recodings are what they are defined to be; a signature verifies exactly for what was signed |

`HashAsSpecified`, `CurveExact`, `MultipliesAndRecodes`, `ShaAsStandard`,
`ScryptAsStandard` and `CallersAnsweredRightly` are conjunctions, in the MC
modules, of the properties the components state. `TargetsExact` and
`ConversionsExact` join in their own modules what `Difficulty` and `KeyUtils`
promise.

Runs in which TLC exhibits a disagreement between the code and its own words
(quoted in `PROJECT.json`, `findings`):

| Run | Shows |
|---|---|
| `duplicate_submission` | the dedup set is emptied by any solution of another job, not by a clean job as its comment says: alternating solutions of two live jobs are submitted twice |
| `quit` | the connection is closed before its thread is told to stop, so the thread may reconnect and block in `read` for ever |
| `blocks_proof` | the auxiliary proof is made from the current job and the current auxiliary data, not from those of the share's job |
| `handshake` | a receive of the handshake may stop inside a packet, although its comment says that a skipped packet's bytes are drained, and the receive loop then takes the rest for a header |
| `reauthorization` | a session that authorizes again stays authorized while its address is already the new one: a share is credited to an address that was not validated |

Several passing properties carry an exception that the code needs. Each is
stated in the property and, as a note, at its hazard in `PROJECT.json`:

- a peer on which a send failed is neither polled nor retried
  (`DisconnectedWillRetry`, `ReachablePeersReconnect`);
- after a failed `checkAuxiliaryTemplate` the auxiliary chain is not polled
  again, and after a failed rebroadcast request there are no more rebroadcasts
  (`AuxFollowsChain`, `JobFollowsChain`);
- inside the variance, each branch of `checkDifficulty` may move the
  difficulty against its name and past the limit it does not test
  (`RetargetsTowardsTarget`);
- a session that authorizes several addresses is credited at any of them once
  the daemon has found one valid (`CreditsNamedAddress`);
- duplicates are looked up by text, and hexadecimal decoding stops at the first
  character that is no digit, so texts of the right length that are not
  hexadecimal to the end decode to the header of another and are credited again:
  `CreditedOnce` is about texts of hexadecimal digits;
- a share may lack up to 1 % of the credited difficulty (`CreditIsCovered`);
- the root of a solution is hashed unchecked and is not submitted, and job ids
  are milliseconds: a share with another root, or with that of the first of two jobs
  that share an id, passes and is submitted although its header at the pool may
  miss the difficulty. The pool's own header meets it if one task has the
  share's job id, the share was mined with that task's root, and the session
  is the one the task was built in (`SubmittedSharesMeetDifficulty`);
- a response that has begun and is then ended, by the idle timeout or by the daemon,
  calls nobody back: a command with such a request is answered only if it is a
  streaming one and another request succeeds (`EveryCallAnswered`);
- `checkOnline` gets the number of daemons right, not always their identity
  (`CountsOnlineDaemons`);
- solutions are as sent on streams whose handshake ended between two packets
  and whose headers are right (`SolutionsAsSent`);
- a read of the initialization that stops inside an answer, or takes more with
  the first one, ends the process; nothing else does (`SurvivesWholeAnswers`);
- `verify` encodes a point over itself, which gives other bytes than `encode` when
  exactly one of x[0] and y[0] is zero (`EncodingsRoundTrip`).

## 4. Bounds

Every unbounded quantity has a named bound in the guard of the action that
increases it.

- `MaxReceived` (messages of the pool) is 4 where the drain loop is the
  question: one message to pop, two to drain and one that arrives during the
  distribution. It is 2 or 3 where solutions multiply the states: a job, a
  difficulty and another job are then possible in any order.
- `MaxSolutions = 3` lets a share arrive, another job's solution arrive in
  between, and the first one arrive again. Solutions with a root no task was
  sent with are followed for one solution and two messages (`FewForeignRoots`, a
  state constraint): a share's header does not depend on other shares. The second
  job's own root gives a weaker hash than any other, so a wrong root does
  pass where the right one fails, whether it is that of a job with the same id or
  belongs to none. `MaxClock = 2` gives jobs equal and different ids.
  `MaxSession = 2`, in `distribution`, counts handshakes too: a second one that
  fails or succeeds after the first session. `validation` has one session; that a
  task may outlive its session is covered by the theorems only.
- `MaxDelay = 3` reaches the backoff's limit from 0 through 1 and 2. `N = 3`
  peers are the fewest where two others compete with a failing one.
- The primary chain grows from one block to two, and two auxiliary blocks are
  the fewest for which a stale one exists. `MaxErrors = 1`: each handler is a
  chain of at most four requests, and the failure may hit any of them.
- In `PoolBlocks`, one share may be a block of either chain, of both or of
  none; shares do not interact with each other.
- In `PoolShares` one client suffices, since submissions of different
  extraNonce1 never meet. `MCPoolShares` explores it in two parts. In the first,
  `MaxInFlight = 2` lets one share overtake a retarget and another follow it, or
  follow a ban in the same chunk; of its nonces one is a block, one meets the lower
  difficulty, one lacks 1 % of it and one a little more; two jobs are the
  fewest for a share to be resent for a newer one. In the second the difficulty is
  constant and there is one job; two connections and two authorizations are
  the fewest for a share to be resent over a new connection and for two
  addresses to be asked for, one share is on its way at a time, and one
  nonce is written in three ways. `MaxCredits = 2`: the properties compare two credits.
- In `VarDiff`, the window holds four intervals and `MaxTime = 5` reaches
  averages below, inside and above the variance for both clients.
- In `PeerPackets`, a sender's two packets out of three kinds, with reads of up
  to five bytes, give packets in one, two and three reads, two in one read,
  and a header cut in half; `MaxSize = 6` is the size from which one is broken.
  One peer sends: the buffers of different peers never meet, and the others
  still fail and reconnect. In `StratumLines`, five messages of three bytes
  in reads of up to five cut each line at every place.
- `KangarooTwelve` hashes every length up to five chunks of 16 bytes with a rate of
  10, so that chunk ends and block ends fall together and apart. Every field
  element is an operand, and the multiples of a point are met in every
  representation that a sequence of operations gives them.
  Some 75 scalars below and above multiples of the order, and every sub-scalar,
  are multiplied and recoded.
- SHA blocks are those of "abc", all ones and a mixed one. Streams
  of up to 40 bytes in blocks of 8 are cut into calls in every way.
- `N = 3` daemons give a success between two failures in every order.

No symmetry reduction is used. Deadlock is checked in the dispatcher's runs: an
exited dispatcher has an explicit stuttering step, and otherwise the network
or the pool's connection always has a step. The other cfgs switch it off. The
parts of `MCPoolShares` and `MCCrypto` stop when their bounded
number of shares, seconds or operations is used up, and so do the blocks and commands of
`MCPoolJobs`, where moreover a configuration with ZMQ only whose timer is not
running really has nothing left to do. In `MCReceiving` the stratum thread ends
when an uncaught exception ends the process.

## 5. Fairness

- `Dispatcher!FairSpec`: weak fairness of each thread and of `main`'s
  shutdown, since each is an operating-system thread that runs when it can.
  Nothing is assumed of the user, the pool or the network. `quit` uses
  `ResponsivePoolSpec`, which adds that the pool answers handshakes: the
  counterexample then does not rest on a silent pool.
- `MCReceiving!ReceivingSpec`: `qubicRecvThread`'s loop goes on (`poll` and the
  handshake's receives have timeouts) and time passes. That a peer in
  `Reachable` accepts every connection is an assumption on the peer, and the
  property is about those peers only. Nothing is assumed of what peers send.
- `MCPoolJobs!PoolSpec`: timers fire, and every request of the handlers of
  `PoolJobs` and `PoolBlocks` ends and its callback runs. The interface sets a
  timeout of 3 s, but a response that has begun may still end without a
  callback. In `DaemonInterface` events are fair and a request may have none;
  `EveryCallAnswered` says what then becomes of a command. New blocks and ZMQ messages are
  not fair: messages may be lost.

## 6. Proofs

TLAPS proves, for every value of the constants that satisfies the named
assumptions (every set of messages and packets, every hash function, every
number of peers, miners, jobs and daemons, every configuration and bound):

| Theorem | States |
|---|---|
| `DispatcherProofs!TypeCorrect` | `Spec => []TypeOK` |
| `DispatcherProofs!DistributionCorrect` | `Spec => []CleanFlagHonoured` |
| `DispatcherProofs!LatestDistributed` | `Spec => []DistributesLatest` |
| `DispatcherProofs!SolutionsBalance` | `Spec => []SolutionsAccounted` |
| `DispatcherProofs!DedupHolds` | `Spec => []DuplicatesOnlyAcrossJobs` |
| `DispatcherProofs!SharesMeetDifficulty` | `Spec => []SubmittedSharesMeetDifficulty` |
| `DispatcherProofs!NonceOfSession` | `Spec => []ExtraNonceOfSession` |
| `DispatcherProofs!AnswersCounted` | `Spec => []ResponsesCounted` |
| `PeerPacketsProofs!OpenConnectionsPolled` | `PeersSpec => []ConnectedArePolled` |
| `PeerPacketsProofs!RetriesOnlyClosed` | `PeersSpec => []PendingNotConnected` |
| `PeerPacketsProofs!PeersTypeCorrect` | `PeersSpec => []PeersTypeOK` |
| `PeerPacketsProofs!LostPeersRetried` | `PeersSpec => []DisconnectedWillRetry` |
| `PeerPacketsProofs!PacketsRefinePeers` | `PacketsSpec => PeersSpec` |
| `PeerPacketsProofs!OpenConnectionsPolledWithPackets` | `PacketsSpec => []ConnectedArePolled` |
| `PeerPacketsProofs!ReconnectsWithEmptyBuffer` | `PacketsSpec => []RetriesWithEmptyBuffer` |
| `PeerPacketsProofs!SolutionsCorrect` | `PacketsSpec => []SolutionsAsSent` |
| `StratumLinesProofs!QueuedAsSent` | `LinesSpec => []MessagesAsSent` |
| `StratumLinesProofs!EndsOnlyOnSplitAnswers` | `LinesSpec => SurvivesWholeAnswers` |
| `PoolSharesProofs!SharesTypeCorrect` | `Spec => []TypeOK` |
| `PoolSharesProofs!CreditsOnce` | `Spec => []CreditedOnce` |
| `PoolSharesProofs!CreditsCovered` | `Spec => []CreditIsCovered` |
| `PoolSharesProofs!HonestMinersPaid` | `Spec => []HonestSharesAccepted` |
| `PoolSharesProofs!CreditedAddressesNamed` | `Spec => []CreditsNamedAddress` |
| `PoolSharesProofs!ServerTypeCorrect` | `ServerSpec => []ServerTypeOK` |
| `PoolSharesProofs!RetargetsCorrect` | `ServerSpec => RetargetsTowardsTarget` |
| `PoolJobsProofs!AuxUpdatesReachJobs` | `Spec => []AuxUpdateReachesJob` |
| `PoolJobsProofs!PoolTypeCorrect` | `PoolSpec => []PoolTypeOK` |
| `PoolJobsProofs!CallersGetTheirAnswer` | `PoolSpec => []CallersAnsweredRightly` |
| `HashingProofs!StreamsHash` | `StreamSpecification => StreamImplementsHash` |
| `HashingProofs!StreamsHold` | `StreamSpecification => []ContextHoldsMessage` |
| `HashingProofs!TargetsAreExact` | `TargetSpec => []TargetsExact` |
| `HashingProofs!ConversionsAreExact` | `KeySpec => []ConversionsExact` |
| `ScryptProofs!Sha256IsStandard` | `PartsSpec => []ShaAsStandard` |
| `ScryptProofs!ScryptIsStandard` | `PartsSpec => []ScryptAsStandard` |

The assumptions are those the modules name with their constants:
difficulties, times and bounds are naturals, the pool's messages are well
typed, a packet has at least a header, the backoff limit is positive, there is
at least one peer, and so on. Those of the hashing modules are what the code's
own sizes satisfy: a counter of bits wraps around where a block ends, blocks of
the compression have 64 bytes, N is a power of two above 1 (`smix` says so), 14
letters of base 26 have room for 64 bits, and a difficulty is below the size of
a word; and `TextsAssumption` says that two texts of hexadecimal digits that
decode to the same bytes differ at most in case. TLC evaluates them in the runs.

*Types of the dispatcher.* `TypeOK` alone is not inductive: `shareValidThread`
reads `solutions[solTaken]` after its pop, which is a solution only if
something was popped. `TypeInv` adds that (`SolutionPopped`). The proof has one
lemma per thread and one for the environment; lemmas on pushing to a log
keep sequences out of the rest.

*Distribution.* `CleanFlagHonoured` speaks of active tasks and
`DistributesLatest` of the job being distributed, but what makes them true is
a relation between the points of `taskDistThread` and the log:
`DistributionInv` says at each point that the latest job is the last one
taken, that the clean flag is set if a clean job was taken since the batch
began, and that no active task is older than a clean job taken earlier.
`OthersNeverDisturb` reduces the steps of all other threads to one fact:
they only append to the log and leave the state of `taskDistThread` alone.

*Submissions.* `ValidationUndisturbed` does the same for `shareValidThread`.
A second submission is found by looking at the dedup set, which is emptied, so
`DedupInv` relates three things: the set holds keys of one job only, every
submission is in it or was followed by a solution of another job, and between
check and send the key in hand is in the set. `TasksBuilt` and `SharesBuilt`
follow a task from the pool's messages through `activeTasks` into the copy that
`shareValidThread` keeps while it hashes, which outlives the task's removal. What
was hashed is the sender's root; it is the pool's when the task was
the only one under its job id and the session is still that task's.
`NonceInv` extends `ExtraNonceOfSession` to the steps of a handshake, where
the shared `extraNonce1` may already or still be another session's.
`IdsInv` says that ids ascend and `CountsInv` that the two counters are the
cardinalities of the answers taken, whichever of the two loops took them.

*Peers.* `PeersInv` is the conjunction of the type invariant and the two
safety invariants, which are inductive only together: a retry may set a
connection's flag because a pending peer is not polled, and a rebuilt poll
list holds no pending peer because such a peer is not connected. The
round-robin scan is a `CHOOSE` of the least distance; `NextDueIsDue` shows
that it exists.

*Packets.* Every step of `PeerPackets` is a step of `QubicPeers` with
something done to the streams, or leaves the connections alone; the refinement
mapping is the identity on the variables they share, so the theorems about
peers carry over. The buffer of a waiting peer is empty because the only steps
that schedule a retry clear it, and the only one that fills a buffer reads a polled
connection, which by `PendingNotConnected` has no retry.

*Solutions as sent.* `Framed` is the invariant of one stream: of the packets
sent, the first k have been processed, the solutions among them are those
queued, and the buffer holds exactly the bytes read behind the k-th packet,
unless the connection is lost; outside of `processRecvBuffer` those bytes are
no whole packet. The proof first shows what flattening a sequence of packets
gives (`NextPacketBytes`, `AppendedPacket`) and that `SolutionsIn` takes one
packet at a time, then that a read, a wait, a processed packet and a sent
one keep `Framed`, and that with right headers a buffer is never dropped. `FramingInv`
adds that a handshake has processed nothing and that a buffer is processed
only while its peer is polled and has no retry.

*Lines.* `LinesInv` says of the point reached in the stream, p bytes from its
start, what is left (`LastOf`: the bytes read behind p) and what was queued
(`QueueIs`: the messages whose lines end before p and were not the
initialization's). p never lies between the two bytes of a message, and behind
its text only where the initialization stopped. The first newline of what is
left is therefore the end of a message's line, so cutting there
keeps the invariant, whichever read brought it. A process that ends
finds by the same invariant that its read took more or less than an answer.

*Shares.* `CreditCases` lists what a step can do to the credits: nothing, or
one more for a share that is not among the submissions of its job.
`CreditedOnce` is inductive with `CreditsRemembered`, which says that whatever
was credited is among them, in lower case. `HonestInv` says
for each miner that what it knows, the difficulties on their way to it and
the session's two difficulties are in step, so that the difficulty of
every share under way is one of those two. `WindowOpen` (in `TypeInv`) says that
`considerBan` leaves no open connection with a full window. `AddressInv`
says that a session that has asked is credited at an address it asked for, and
that one of those is valid if the session is authorized.

*Variable difficulty.* `TotalIsNat` shows that the sum of a window exists;
`RetargetRight` is the arithmetic of `checkDifficulty` for all windows,
difficulties and variances: the rounded quotient moves in the direction of the
average, and the limit is applied last. `VarDiffInv` adds to the types that the
two clocks of a port are set together and lie in the past.

*Jobs, blocks and daemons.* `JobsInv` says of each handler what its request
can be, and that the update flag is carried only from the auxiliary template to the
primary one. `RecordsInv` bounds checks and emissions of a record by one
although `submitPrimary` calls back twice. `DaemonInv` relates the answered
daemons to the results collected, one each (`AnswersInv`), async's completion
count to the answers unless a streaming command has its winner
(`CompletionInv`), the delivery to the end of all requests (`DeliveryInv`), and the
filter of `checkOnline` to the number online (`OnlineInv`).

*Streams.* `Hold` says of a compression state, a buffer and a message that the
state and the used part of the buffer are the message. Copying to the buffer,
completing a block and compressing whole blocks in place each keep it
(`HoldAfterCopy`, `HoldAfterFill`, `HoldAfterBlocks`); every path of both
libraries is one or two of these. The rest is about counters:
the offset in the block can be read off a counter that has wrapped around,
because it wraps where a block ends, and the dispatcher's carry from the low
word to the high one is addition in base `CountSize`. `FinalPads` and
`ClosePads` show that two updates, or one or two blocks
written by hand, add the same padding. `StreamInv` adds the bytes that
a call of `sha224_short` has still to take, and every step maps to a step of
`HashSpec` or a stutter.

*Targets.* The value of a target is a recursive sum of weighted bytes. Values of
joined sequences add up (`ValueJoin`), so a target is four words, and one
step of the long division (`LongStep`) keeps quotient and remainder exact. The
first byte from the top in which two targets differ decides their order
(`FirstDifferenceDecides`), which is what `verifyHashVsTarget` looks for. `CompactIs`
covers the exponent at both ends and the byte of the mantissa that would be a
sign. `TargetInv` says that the full form is a target whose value is
the first one divided by the product of the difficulties so far.

*Identities and Merkle paths.* Dividing repeatedly is monotonic, so a fragment
that fits its letters leaves nothing (`DividedAtMost`), and reading the letters
back restores what each division took away. The levels of a tree shrink to one
node (`LevelsShrink`); on every level the node above a leaf is the hash of the
node below and its sibling, in the order its index's parity gives
(`PathLeadsToRoot`). The pool computes the branches in a tree with a
placeholder for the coinbase: two trees that differ in the first leaf only
differ in the first node of each level only (`TreesTwin`).

*SHA-256.* `ShaInv` says that the words prepared satisfy the schedule's
recurrence, that the ring holds the last 16 words used, and that the working
words of both compressions are those of the definition, found from the place
`At(i, 0)` on (`Rotated`). Turning the names by one place
is shifting the words by one (`RotatedRound`), and 16 words are enough because
the recurrence looks back no further (`RingGivesWord`).

*Salsa20/8.* Four assignments are a quarter round on four places
(`FourQuarter`). The four groups of a column round share no place, nor do those
of a row round, so a sequence of four changes each group as if it were
alone (`FourRound`); the table of the source and the standard's column round and
transposition name the same places (`PlacesAre`, `TransposeIs`).

*SMix.* Both loops and `BlockMix` are recursive functions, compared by the
`Recursion` lemma, which gives the table of a step that is itself given as a
function. After k turns of `blockmix_salsa8` the first k even and odd results are
in their halves (`TurnDoes`). `MixInv` says that V holds the first i iterates
and X the next one, and then that X is the standard's after i rounds: the index
taken from the data is below N, and everything below N has been written. `ScratchpadFits` is the
arithmetic of the rounding up to 64 bytes.

*PBKDF2.* A context that is updated or copied is followed with
`DispatcherHolds`: `HmacHolds` says that the inner context holds a block of
the key and the message, the outer one a block of the key, so that
`HMAC_SHA256_Final` is the formula (`HmacFinalIs`). `DerivInv`
says that the context after password and salt still holds them, and that the
bytes so far are the first of the key. `PartsInv` is the conjunction of the
invariants of the parts, each undisturbed while another one runs.

*Induction.* The library's induction theorems take an operator as a
parameter, which the installed backends cannot instantiate. `InductionLemmas`
states induction for a set of numbers, from the well-foundedness of the
naturals: a proof defines the set of numbers for which the claim holds and
hides it. Recursive functions (`Total`, `SolutionsIn`, `FlattenSeq`, the weights,
values and quotients, the levels of a tree, the chains of SMix) are
shown to exist by the same lemma, some through `LinearRecursion` or
`Recursion`; two of them are compared with `SameUpTo`. What such a
function computes is proved for every argument this way, without RECURSIVE operators.

## 7. What is only model-checked

- Liveness (`JobsBecomeActive`, `ConsumersStop`, `ReachablePeersReconnect`,
  `JobFollowsChain`, `AuxFollowsChain`, `EveryShareRecorded`,
  `EveryCallAnswered`): fairness and
  ENABLED are out of the prover's reach.
- The signing modules (`HashAsSpecified`, `CurveExact`, `MultipliesAndRecodes`,
  `SignaturesVerify`, `SignatureBindsData`): Keccak, the tree hash and the
  recodings use RECURSIVE operators, and the field, the curve and the group are
  facts about particular numbers, which TLC enumerates.
- That the definition both compressions are compared with is SHA-256: its
  constants and its digest of "abc" are evaluated by TLC (`KnownAnswer`). The
  addition of words as sets of bits is part of that definition.

`PeersTypeOK`, `PendingNotConnected` and, on its own, `PoolShares!TypeOK` are
proved and in no run.

Not modelled:

- formatting, logging and statistics, `PeerStats` among them, and sockets below
  the results of their calls;
- the constants of the precomputed tables of FourQ and the formulas of its
  endomorphisms, which are taken for what they stand for; the carry intrinsics
  for other processors; whether `char` digits are signed; the SSE2 variant of
  the Salsa core; hexadecimal conversions; SHA-224; the macros of `sph_types.h`;
- the litecoin pool, whose C files are byte-identical to the ones modelled;
- `hashDifficulty` (`share_valid_thread.cpp:33-82`), whose result is only
  logged: its dividend is below 2^56 and its divisor is not, so that it is always 0;
- the part of a queue's history that would tell whether a job belongs to the
  session whose `extraNonce1` its task is built with;
- known weaknesses for which no property holds or is stated: `nTime` is not
  in the dedup key (`share_valid_thread.cpp:109`); `extraNonce1` is written and read
  without a lock (`stratum_recv_thread.cpp:41`), also for jobs of the session before
  (`task_dist_thread.cpp:90`); a solution may arrive before its task is in
  `activeTasks` (`task_dist_thread.cpp:196`); an accepted share is lost when
  the connection is down (`share_valid_thread.cpp:204`); an expected packet
  shorter than its header overruns `m_buffer` (`qubic_connection.cpp:98`); a send may continue on a descriptor
  that was closed and reopened (`connection.cpp:123`); auxiliary data is read again
  after a submission (`pool.js:585`); a block counts as seen before its template
  arrives (`pool.js:308`); `handleResponse` catches its callback's exceptions
  (`interface.js:73`); the clocks of a port are shared by its clients
  (`difficulty.js:74`).

`PROJECT.json` has the status of every component and a note at every hazard
whose property carries an exception.

## 8. Plan

1. *Model next.* Rounds and payments of the pool; the two-step write of
   `extraNonce1`; the dry-run drain thread; the pool server's share statistics;
   the bridge's packet deduplicator and relay; the relay's client registry;
   the test miner.
2. *Compose and refine.* Task distribution as an implementation of a register
   that holds the newest job; submission as at most once per window of one
   job; `DaemonInterface` as the single request `PoolJobs` assumes; the
   dispatcher as the miner of `PoolShares`.
   Some of the exceptions listed in section 3 deserve properties of
   their own once the parts they concern are modelled further: the answer of
   `checkAccepted`, the identity of online daemons, jobs of a session that has
   ended.
3. *Prove next.* The refinements of item 2; the tree hash of `KangarooTwelve`,
   which is a stream like those of `HashStream`, once its loops are recursive
   functions; the unrolled permutation of `Keccak` against its step functions,
   as for Salsa20/8.
