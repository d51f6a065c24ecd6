------------------------------ MODULE HashSpec ------------------------------
(***************************************************************************)
(* What a streaming hash promises: the digest depends on the bytes added   *)
(* and not on the calls that added them.  The digest is the message padded *)
(* to whole blocks: a one bit, zeros, and the length in bits.              *)
(***************************************************************************)
EXTENDS Naturals, Sequences
CONSTANTS BlockBytes, LengthBytes, CountSize, MaxBytes
VARIABLES message, digest
hashSpecVars == <<message, digest>>

\* The length in LengthBytes = 2 digits of base CountSize.
LengthOf(n) == <<((8 * n) \div CountSize) % CountSize, (8 * n) % CountSize>>
Padded(m) ==
  LET zeros == (2 * BlockBytes - LengthBytes - 1 - (Len(m) % BlockBytes)) % BlockBytes
  IN  m \o <<128>> \o [i \in 1..zeros |-> 0] \o LengthOf(Len(m))

HashInit == message = << >> /\ digest = << >>
\* One to MaxBytes further bytes, each known by its position.
AddBytes(n) ==
  /\ digest = << >>
  /\ message' = message \o [i \in 1..n |-> Len(message) + i]
  /\ digest' = digest
Finish ==
  /\ digest = << >>
  /\ digest' = Padded(message)
  /\ message' = message
HashNext == Finish \/ \E n \in 0..MaxBytes : AddBytes(n)
HashSpecification == HashInit /\ [][HashNext]_hashSpecVars
=============================================================================
