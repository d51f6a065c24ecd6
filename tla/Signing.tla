------------------------------ MODULE Signing -------------------------------
(***************************************************************************)
(* SchnorrQ signatures: the signing context the dispatcher derives from    *)
(* its seed, the signature of a task packet, and verify, which miners and  *)
(* processSolution call.  The scalars go through the word arithmetic of    *)
(* ScalarArithmetic and the points through the loops of                    *)
(* ScalarMultiplication.  KangarooTwelve is a function nobody can predict: *)
(* the first time a value is hashed any digest may come out, and that      *)
(* digest ever after.  Only the digests that become scalars are numbers.   *)
(***************************************************************************)
EXTENDS ScalarMultiplication, FiniteSets
CONSTANTS Seeds,       \* [id, size, lowercase] of configured seeds
          Data,        \* payloads of task packets
          Digests,     \* numbers a digest may be, below 2^256
          ScalarBits,  \* verify refuses S from 2^246 on
          MaxSignatures, \* bound of the runs
          OtherKeys    \* encodings verify meets that no seed gave
VARIABLES ctx,         \* DispatcherSigningContext, and whether it was set up
          oracle,      \* the digests handed out so far
          signed,      \* the signatures made, with what was signed
          verdict      \* << >>, or the last call of verify and its result
signingVars == <<ctx, oracle, signed, verdict>>
NoContext == [state |-> "none"]
Failed == [state |-> "failed"]
OffCurve == -1

\* An encoded point: the bit above y[0] is zero when encode wrote it.
encodePoint(P) == [point |-> P, reserved |-> 0]
decodes(key) == key.point # OffCurve

\* One call of KangarooTwelve: v is the answer to q, now and before.
KangarooTwelveOf(known, q, v) == v \in Digests /\ (q \in DOMAIN known => known[q] = v)
Remember(known, q, v) == [p \in DOMAIN known \cup {q} |-> IF p = q THEN v ELSE known[p]]

\* The 32-byte private key is the first half of the 64 bytes k of sign.
KeyQuery(subseed) == <<"k", subseed>>
NonceQuery(subseed, data) == <<"r", subseed, data>>

\* Mutant: the challenge leaves the signed data out.
ChallengeOfKeys(R1, key, data) == <<"h", R1, key>>

ChallengeQuery(R1, key, data) == <<"h", R1, key, data>>

getSubseedFromSeed(seed) == <<"subseed", seed.id>>
getPublicKeyFromPrivateKey(k) == encodePoint(ecc_mul_fixed(WordsOf(k)))

initSigningContext(seed) ==
  /\ ctx = NoContext
  /\ \/ /\ seed.size # 55 \/ ~seed.lowercase
        /\ ctx' = Failed
        /\ UNCHANGED oracle
     \/ /\ seed.size = 55 /\ seed.lowercase
        /\ \E k \in Digests :
             LET subseed == getSubseedFromSeed(seed)
             IN  /\ KangarooTwelveOf(oracle, KeyQuery(subseed), k)
                 /\ oracle' = Remember(oracle, KeyQuery(subseed), k)
                 /\ ctx' = [state |-> "ready", subseed |-> subseed,
                            publicKey |-> getPublicKeyFromPrivateKey(k)]
  /\ UNCHANGED <<signed, verdict>>

\* S = r - k h: r, h and k into and out of Montgomery form, in the code's order.
SignatureScalar(r, h, k) ==
  LET mont(a, b) == Montgomery_multiply_mod_order(a, b)
      r1 == mont(mont(r, Montgomery_Rprime), ONE)
      h1 == mont(mont(h, Montgomery_Rprime), ONE)
      s1 == mont(k, Montgomery_Rprime)
      h2 == mont(h1, Montgomery_Rprime)
  IN  SubtractModOrder(r1, mont(mont(s1, h2), ONE))

\* signTaskPacket, sign and signWithNonceK.
signTaskPacket(data) ==
  /\ ctx.state = "ready"
  /\ \E r, h \in Digests :
       LET k == oracle[KeyQuery(ctx.subseed)]
           rq == NonceQuery(ctx.subseed, data)
           R1 == encodePoint(ecc_mul_fixed(WordsOf(r)))
           hq == ChallengeQuery(R1, ctx.publicKey, data)
       IN  /\ KangarooTwelveOf(oracle, rq, r) /\ KangarooTwelveOf(oracle, hq, h)
           /\ oracle' = Remember(Remember(oracle, rq, r), hq, h)
           /\ signed' = signed \cup
                {[data |-> data, R |-> R1,
                  S |-> SignatureScalar(WordsOf(r), WordsOf(h), WordsOf(k))]}
  /\ UNCHANGED <<ctx, verdict>>

\* The guards on the reserved bits, then S G + h A against R.
verify(key, R1, words, h) ==
  /\ key.reserved = 0 /\ R1.reserved = 0 /\ ScalarValue(words) < 2^ScalarBits
  /\ decodes(key)
  /\ encodePoint(ecc_mul_double(words, WordsOf(h), key.point)) = R1
Verify(key, data, signature) ==
  /\ \E h \in Digests :
       LET hq == ChallengeQuery(signature.R, key, data)
       IN  /\ KangarooTwelveOf(oracle, hq, h)
           /\ oracle' = Remember(oracle, hq, h)
           /\ verdict' = <<[key |-> key, data |-> data, signature |-> signature,
                           accepted |-> verify(key, signature.R, signature.S, h)]>>
  /\ UNCHANGED <<ctx, signed>>

SigningStart ==
  /\ ctx = NoContext /\ oracle = [q \in {} |-> 0] /\ signed = {} /\ verdict = << >>
\* The runs sign MaxSignatures times and verify once.
SigningNext ==
  \/ \E seed \in Seeds : initSigningContext(seed)
  \/ \E data \in Data : Cardinality(signed) < MaxSignatures /\ signTaskPacket(data)
  \/ \E data \in Data, signature \in signed :
       \E key \in OtherKeys \cup {ctx.publicKey} : verdict = << >> /\ Verify(key, data, signature)

\* What the context signs verifies under its public key, whatever the hashes
\* were: S was reduced, R was encoded and both scalars were recoded right.
SignaturesVerify ==
  \A v \in {verdict[i] : i \in DOMAIN verdict} :
    v.key = ctx.publicKey /\ v.data = v.signature.data => v.accepted

\* A signature is accepted for other data, under the key that made it, only
\* when two different values were hashed to challenges that are the same modulo
\* the order (or the private key was hashed to a multiple of the order, which
\* signs everything).
SignatureBindsData ==
  \A v \in {verdict[i] : i \in DOMAIN verdict} :
    v.key = ctx.publicKey /\ v.accepted /\ v.data # v.signature.data /\ v.key.point # 0 =>
      \E p, q \in {c \in DOMAIN oracle : c[1] = "h"} :
        p # q /\ oracle[p] % Order = oracle[q] % Order
=============================================================================
