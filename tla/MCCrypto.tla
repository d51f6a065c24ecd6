-------------------------------- MODULE MCCrypto --------------------------------
(***************************************************************************)
(* Small instances of all of the cryptography: the parts of MCHashing, and   *)
(* what a signature is made of, namely the permutation, the tree hash, the   *)
(* field, the curve, the scalar multiplications, and the signing context     *)
(* with its signatures.  Each part is explored by itself; the others rest in *)
(* an initial state.                                                         *)
(***************************************************************************)
EXTENDS MCHashing, Keccak, KangarooTwelve, FieldSequences, PointSequences, Signing

-----------------------------------------------------------------------------
(* The permutation starts from the zero state and from single bits.           *)
OneBit(i) == Evaluated([l \in 1..25 |-> IF l = i THEN {(7 * i) % 64} ELSE {}])

(* Words of two bits: the field has 7^2 elements, and all are operands.       *)
AllResidues == (0..6) \X (0..6)
NonSquare == <<2, 1>>
SomePoints == {[x |-> <<1, 0>>, y |-> <<1, 4>>]}

(* A group of order 1163 with the endomorphisms 775 and 785 and a short basis *)
(* of their lattice; scalars have four words of four bits.                    *)
TheEigenvalues == <<1, 775, 785, 126>>
TheEll == <<676, 6762, 507, 4677>>
TheBasis == << <<0, 0, -1, -3>>, <<-9, 2, 1, 0>>, <<0, 1, -12, 4>>, <<-1, -3, 0, 0>> >>
TheOffset == <<2, 6, 1, 3>>
ManyScalars == {i * 977 : i \in 0..67} \cup {1, 1162, 1163, 1164, 2326, 65534, 65535}

SomeSeeds ==
    {[id |-> 1, size |-> n, lowercase |-> l] : n \in {54, 55}, l \in BOOLEAN}
SomeKeys ==
    {[point |-> 5, reserved |-> 0], [point |-> 5, reserved |-> 1],
     [point |-> OffCurve, reserved |-> 0]}

-----------------------------------------------------------------------------
SignatureStart(p) ==
    /\ \E i \in IF p = "keccak" THEN 0..25 ELSE {0} : PermuteStart(OneBit(i))
    /\ \E l \in IF p = "k12" THEN 0..MaxLength ELSE {0} : HashStart(l)
    /\ \E v \in IF p = "field" THEN Operands ELSE {<<0, 0>>} : FieldStart(v)
    /\ PointStart
    /\ \E c \in IF p = "multiply" THEN Calls ELSE {[fun |-> "none"]} : MultiplyStart(c)
    /\ SigningStart

SignatureParts == {"field", "keccak", "k12", "point", "multiply", "sign"}

CryptoInit ==
    \/ PartsInit /\ SignatureStart(part)
    \/ \E p \in SignatureParts : Start(p) /\ SignatureStart(p)

SignatureNext ==
    /\ UNCHANGED part
    /\ \/ /\ part = "keccak" /\ (MacroRound \/ LastRound)
          /\ UNCHANGED <<k12Vars, fieldVars, pointVars, multiplyVars, signingVars>>
       \/ /\ part = "k12" /\ KangarooTwelveNext
          /\ UNCHANGED <<keccakVars, fieldVars, pointVars, multiplyVars, signingVars>>
       \/ /\ part = "field" /\ FieldNext
          /\ UNCHANGED <<keccakVars, k12Vars, pointVars, multiplyVars, signingVars>>
       \/ /\ part = "point" /\ PointNext
          /\ UNCHANGED <<keccakVars, k12Vars, fieldVars, multiplyVars, signingVars>>
       \/ /\ part = "multiply" /\ MultiplyNext
          /\ UNCHANGED <<keccakVars, k12Vars, fieldVars, pointVars, signingVars>>
       \/ /\ part = "sign" /\ SigningNext
          /\ UNCHANGED <<keccakVars, k12Vars, fieldVars, pointVars, multiplyVars>>

hashingVars == <<shaVars, streamVars, derivationVars, scryptVars, targetVars, keyVars>>
signatureVars == <<keccakVars, k12Vars, fieldVars, pointVars, multiplyVars, signingVars>>

CryptoNext ==
    \/ PartsNext /\ UNCHANGED signatureVars
    \/ SignatureNext /\ UNCHANGED hashingVars

CryptoSpec == CryptoInit /\ [][CryptoNext]_<<part, hashingVars, signatureVars>>

-----------------------------------------------------------------------------
(* KangarooTwelve is what it is specified to be: the unrolled permutation is  *)
(* Keccak-p after every round, and the sponges absorb the tree of the message *)
(* and its closing zero byte (rounds12, KangarooTwelve).                      *)
HashAsSpecified ==
    /\ part = "keccak" => PermutesAsStandard
    /\ part = "k12" => HashesTheTree

(* The arithmetic of the curve is exact through every sequence of operations: *)
(* words stand for the right residue and reduce to its canonical form, points *)
(* normalize to the sums the addition law gives, and their encodings decode   *)
(* to themselves (fp2add1271 to eccnorm, encode, decode).                     *)
CurveExact ==
    /\ part = "field" => FieldElementsExact
    /\ part = "point" => PointsAddUp /\ EncodingsRoundTrip

(* All three multiplications return the multiple of the unreduced scalar, and *)
(* the recoded sub-scalars they read fit their arrays and tables              *)
(* (ecc_mul_fixed, ecc_mul, ecc_mul_double, wNAF_recode).                     *)
MultipliesAndRecodes == MultipliesExactly /\ RecodingsFit

=============================================================================
