--------------------------- MODULE FieldSequences ---------------------------
(***************************************************************************)
(* An element under an arbitrary sequence of the operations, next to the   *)
(* residue it must stand for.  Zero has two representations, 0 and the     *)
(* modulus, and both occur.                                                *)
(***************************************************************************)
EXTENDS FieldArithmetic
CONSTANT Operands     \* pairs of field values used as second operands
VARIABLES element, residue
fieldVars == <<element, residue>>

FieldStart(v) == element = F2elm(v) /\ residue = v

AddOperand(v) ==
  /\ element' = fp2add1271(element, F2elm(v))
  /\ residue' = <<Mod(residue[1] + v[1]), Mod(residue[2] + v[2])>>
SubOperand(v) ==
  /\ element' = fp2sub1271(element, F2elm(v))
  /\ residue' = <<Mod(residue[1] + Modulus - v[1]), Mod(residue[2] + Modulus - v[2])>>
AddSubOperand(v) ==
  /\ element' = fp2addsub1271(element, F2elm(v))
  /\ residue' = <<Mod(2 * residue[1] + Modulus - v[1]), Mod(2 * residue[2] + Modulus - v[2])>>
MulOperand(v) ==
  /\ element' = fp2mul1271(element, F2elm(v))
  /\ residue' = <<Mod(residue[1] * v[1] + (Modulus - residue[2]) * v[2]),
                  Mod(residue[1] * v[2] + residue[2] * v[1])>>
SquareElement ==
  /\ element' = fp2sqr1271(element)
  /\ residue' = <<Mod(residue[1] * residue[1] + (Modulus - residue[2]) * residue[2]),
                  Mod(2 * residue[1] * residue[2])>>
SquareParts ==
  /\ element' = <<fpsqr1271(element[1]), fpsqr1271(element[2])>>
  /\ residue' = <<Mod(residue[1] * residue[1]), Mod(residue[2] * residue[2])>>
NegateElement ==
  /\ element' = fp2neg1271(element)
  /\ residue' = <<Mod(Modulus - residue[1]), Mod(Modulus - residue[2])>>
HalveElement ==
  /\ element' = fp2div1271(element)
  /\ residue' = <<Mod(residue[1] * Inverse2), Mod(residue[2] * Inverse2)>>
ReduceElement ==
  /\ element' = mod2_1271(element)
  /\ UNCHANGED residue

FieldNext ==
  \/ \E v \in Operands : AddOperand(v) \/ SubOperand(v) \/ AddSubOperand(v) \/ MulOperand(v)
  \/ SquareElement \/ SquareParts \/ NegateElement \/ HalveElement \/ ReduceElement

\* The words stand for the residue after every sequence of operations, and stay
\* below 2^(2W-1), which every operation relies on for its single folded bit; what
\* mod1271 makes of them is the canonical form, which encodings compare and
\* sign-test; the chain of fpexp1251 has the exponent 2^125 - 1 inversion needs.
FieldElementsExact ==
  /\ fpexp1251Exponent = 0..124
  /\ Residue(element) = residue
  /\ mod2_1271(element) = F2elm(residue)
  /\ element[1][2] < Half /\ element[2][2] < Half
=============================================================================
