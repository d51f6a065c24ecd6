--------------------------- MODULE PointSequences ---------------------------
(***************************************************************************)
(* A point under an arbitrary sequence of the group operations of FourQ,   *)
(* next to the affine point it must stand for.                             *)
(***************************************************************************)
EXTENDS FourQ
VARIABLES point,   \* point_extproj: X, Y, Z, Ta, Tb
          sum      \* the affine point, by the addition law
pointVars == <<point, sum>>

PointStart == point = point_setup(Affine(Neutral)) /\ sum = Neutral

LoadEntry(Q) ==
  /\ point' = FromPrecomp(point_precomp(Affine(Q)))
  /\ sum' = Q
DoublePoint ==
  /\ point' = eccdouble(point)
  /\ sum' = PointSum(sum, sum)
AddPoint(Q) ==
  /\ point' = eccadd(R1_to_R2(point_setup(Affine(Q))), point)
  /\ sum' = PointSum(sum, Q)
SubtractPoint(Q) ==
  /\ point' = eccadd(eccneg_extproj_precomp(R1_to_R2(point_setup(Affine(Q)))), point)
  /\ sum' = PointSum(sum, Opposite(Q))
AddEntry(Q) ==
  /\ point' = eccmadd(point_precomp(Affine(Q)), point)
  /\ sum' = PointSum(sum, Q)
SubtractEntry(Q) ==
  /\ point' = eccmadd(eccneg_precomp(point_precomp(Affine(Q))), point)
  /\ sum' = PointSum(sum, Opposite(Q))
\* ecc_mul loads its first table entry as (2X, 2Y, 2Z) and doubles it.
LoadAndDouble(Q) ==
  /\ point' = eccdouble(R2_to_R4(R1_to_R2(point_setup(Affine(Q))), point))
  /\ sum' = PointSum(Q, Q)
Renormalize ==
  /\ point' = point_setup(eccnorm(point))
  /\ UNCHANGED sum

PointNext ==
  \/ \E Q \in Addends :
       \/ LoadEntry(Q) \/ AddPoint(Q) \/ SubtractPoint(Q)
       \/ AddEntry(Q) \/ SubtractEntry(Q) \/ LoadAndDouble(Q)
  \/ DoublePoint \/ Renormalize

\* Whatever sequence of doublings, additions and conversions led to it, the
\* point normalizes to the sum the addition law gives, in canonical form.
PointsAddUp == eccnorm(point) = Affine(sum)

DecodesTo(back, P) ==
  back.ok /\ Residue(back.point.x) = P.x /\ Residue(back.point.y) = P.y
ValidatesOnCurve(P) ==
  ecc_point_validate(point_setup(P)) => OnCurve([x |-> Residue(P.x), y |-> Residue(P.y)])
EncodesAndValidates(P) ==
  /\ ecc_point_validate(point_setup(P))
  /\ ValidatesOnCurve([P EXCEPT !.y = fp2add1271(@, One)])
  /\ DecodesTo(decode(encode(P)), sum)
  /\ encodeOverItself(P) = encode(P) \/ (P.x[1] = <<0, 0>>) # (P.y[1] = <<0, 0>>)

\* The sums are accepted by the curve check, and only points of the curve are;
\* an encoded point decodes to itself, whatever its sign and representation.
\* Encoding a point over itself gives the same bytes, unless x[0] or y[0] is zero
\* and the other is not.
EncodingsRoundTrip == EncodesAndValidates(eccnorm(point))
=============================================================================
