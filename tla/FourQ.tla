------------------------------- MODULE FourQ --------------------------------
(***************************************************************************)
(* The group behind the dispatcher's keys: points of the twisted Edwards   *)
(* curve -x^2 + y^2 = 1 + d x^2 y^2 over GF(p^2), in the representations    *)
(* k12_and_key_utils.h converts between, computed on the words of          *)
(* FieldArithmetic.  d is a non-square, as PARAMETER_d is, so the addition *)
(* law has no exceptions.                                                  *)
(***************************************************************************)
EXTENDS FieldArithmetic
CONSTANTS PARAMETER_d,  \* residues <<d0, d1>> of a non-square
          Addends       \* affine points added in the runs, as residues

d == F2elm(PARAMETER_d)
One == F2elm(<<1, 0>>)

\* Affine (x, y) to (X, Y, Z, Ta, Tb) with T = Ta * Tb.
point_setup(P) == [x |-> P.x, y |-> P.y, z |-> One, ta |-> P.x, tb |-> P.y]

\* Z is inverted through its norm: a^(p-2) = a * (a^(2^(q-2) - 1))^4.
eccnorm(P) ==
  LET norm == fpadd1271(fpsqr1271(P.z[1]), fpsqr1271(P.z[2]))
      inverse == fpmul1271(norm, fpsqr1271(fpsqr1271(fpexp1251(norm))))
      z == <<fpmul1271(P.z[1], inverse), fpmul1271(fpneg1271(P.z[2]), inverse)>>
  IN  [x |-> mod2_1271(fp2mul1271(P.x, z)), y |-> mod2_1271(fp2mul1271(P.y, z))]

R1_to_R2(P) ==
  [xy |-> fp2add1271(P.x, P.y), yx |-> fp2sub1271(P.y, P.x), z2 |-> fp2add1271(P.z, P.z),
   t2 |-> fp2mul1271(fp2mul1271(fp2add1271(P.ta, P.ta), P.tb), d)]
R1_to_R3(P) ==
  [xy |-> fp2add1271(P.x, P.y), yx |-> fp2sub1271(P.y, P.x), z2 |-> P.z,
   t2 |-> fp2mul1271(P.ta, P.tb)]
\* Ta and Tb are left as they were; the caller doubles next, which reads neither.
R2_to_R4(P, Q) ==
  [Q EXCEPT !.x = fp2sub1271(P.xy, P.yx), !.y = fp2add1271(P.xy, P.yx), !.z = P.z2]

eccdouble(P) ==
  LET xx == fp2sqr1271(P.x)
      yy == fp2sqr1271(P.y)
      tb == fp2add1271(xx, yy)
      t1 == fp2sub1271(yy, xx)
      ta == fp2sub1271(fp2sqr1271(fp2add1271(P.x, P.y)), tb)
      t2 == fp2addsub1271(fp2sqr1271(P.z), t1)
  IN  [x |-> fp2mul1271(t2, ta), y |-> fp2mul1271(t1, tb), z |-> fp2mul1271(t1, t2),
       ta |-> ta, tb |-> tb]

\* theta, alpha, beta and omega give the sum.
Combine(theta, alpha, beta, omega) ==
  [x |-> fp2mul1271(beta, theta), y |-> fp2mul1271(omega, alpha),
   z |-> fp2mul1271(theta, alpha), ta |-> omega, tb |-> beta]
eccadd_core(P, Q) ==
  LET dT == fp2mul1271(P.t2, Q.t2)
      zz == fp2mul1271(P.z2, Q.z2)
      x == fp2mul1271(P.xy, Q.xy)
      y == fp2mul1271(P.yx, Q.yx)
  IN  Combine(fp2sub1271(zz, dT), fp2add1271(zz, dT), fp2sub1271(x, y), fp2add1271(x, y))
eccadd(Q, P) == eccadd_core(Q, R1_to_R3(P))
eccmadd(Q, P) ==
  LET dT == fp2mul1271(fp2mul1271(P.ta, P.tb), Q.t2)
      zz == fp2add1271(P.z, P.z)
      x == fp2mul1271(Q.xy, fp2add1271(P.x, P.y))
      y == fp2mul1271(Q.yx, fp2sub1271(P.y, P.x))
  IN  Combine(fp2sub1271(zz, dT), fp2add1271(zz, dT), fp2sub1271(x, y), fp2add1271(x, y))

eccneg_extproj_precomp(P) == [P EXCEPT !.xy = P.yx, !.yx = P.xy, !.t2 = fp2neg1271(@)]

\* Mutant: 2dt keeps its sign.
eccneg_precompHalf(P) == [P EXCEPT !.xy = P.yx, !.yx = P.xy]

eccneg_precomp(P) == [P EXCEPT !.xy = P.yx, !.yx = P.xy, !.t2 = fp2neg1271(@)]

\* An entry (x+y, y-x, 2dt) of the fixed tables.
point_precomp(P) ==
  [xy |-> fp2add1271(P.x, P.y), yx |-> fp2sub1271(P.y, P.x),
   t2 |-> fp2mul1271(fp2mul1271(fp2add1271(P.x, P.x), P.y), d)]

\* The first step of ecc_mul_fixed: an entry back to (X, Y, Z, Ta, Tb).
FromPrecomp(S) ==
  LET x == fp2div1271(fp2sub1271(S.xy, S.yx))
      y == fp2div1271(fp2add1271(S.xy, S.yx))
  IN  [x |-> x, y |-> y, z |-> One, ta |-> x, tb |-> y]

\* The curve equation, part by part: zero, or both words all ones.
Vanishes(t1) == \A half \in 1..2 : t1[half] = <<0, 0>> \/ t1[half] = <<AllOnes, AllOnes>>
ecc_point_validate(P) ==
  LET yy == fp2sqr1271(P.y)
      xx == fp2sqr1271(P.x)
  IN  Vanishes(fp2sub1271(fp2sub1271(yy, xx), fp2add1271(fp2mul1271(fp2mul1271(yy, xx), d), One)))

\* y, with the top bit of x[0], or of x[1] when x[0] is zero, above it.
TopBit(a) == (a[2] \div 2^(WordBits - 2)) % 2
WithSign(y, bit) == <<y[1], <<y[2][1], y[2][2] + bit * Half>>>>

encode(P) ==
  WithSign(P.y, IF P.x[1] = <<0, 0>> THEN TopBit(P.x[2]) ELSE TopBit(P.x[1]))

\* verify encodes a point over itself: y has replaced x when x[0] is tested.
encodeOverItself(P) ==
  WithSign(P.y, IF P.y[1] = <<0, 0>> THEN TopBit(P.x[2]) ELSE TopBit(P.x[1]))

RECURSIVE SquareTimes(_, _)
SquareTimes(a, n) == IF n = 0 THEN a ELSE SquareTimes(fpsqr1271(a), n - 1)

\* x from y: the square root of u / v with u = y^2 - 1 and v = d y^2 + 1.
ChooseHalves(t, t0, x0, x1) ==
  IF mod1271(fpsub1271(t, fpmul1271(t0, fpsqr1271(x0)))) = <<0, 0>>
  THEN <<mod1271(HalfOf(x0)), x1>> ELSE <<mod1271(x1), HalfOf(x0)>>
ScaleRoot(t, t0, t2, s) == ChooseHalves(t, t0, fpmul1271(t, s), fpmul1271(t2, s))
RootOf(t, t0, t2) ==
  ScaleRoot(t, t0, t2, fpmul1271(t0, fpexp1251(fpmul1271(t, fpmul1271(t0, fpsqr1271(t0))))))
NonzeroSum(t1, t3) ==
  LET sum == mod1271(fpadd1271(t1, t3)) IN IF sum = <<0, 0>> THEN fpsub1271(t1, t3) ELSE sum
Twice(a) == fpadd1271(a, a)
RootOfQuotient(u, v) ==
  LET t0 == fpadd1271(fpsqr1271(v[1]), fpsqr1271(v[2]))
      t1 == fpadd1271(fpmul1271(u[1], v[1]), fpmul1271(u[2], v[2]))
      t2 == fpsub1271(fpmul1271(u[2], v[1]), fpmul1271(u[1], v[2]))
      t3 == SquareTimes(fpadd1271(fpsqr1271(t1), fpsqr1271(t2)), 2 * WordBits - 3)
  IN  RootOf(Twice(NonzeroSum(t1, t3)), t0, t2)
SolveForX(y) ==
  LET yy == fp2sqr1271(y)
  IN  RootOfQuotient(fp2sub1271(yy, One), fp2add1271(fp2mul1271(yy, d), One))

\* The sign bit chooses x or -x; if neither is on the curve x[1] is negated.
WithSignBit(x, bit) ==
  IF bit # (IF x[1] = <<0, 0>> THEN x[2] ELSE x[1])[2] \div 2^(WordBits - 2) THEN fp2neg1271(x) ELSE x
ChooseOnCurve(x, y) ==
  LET P == [x |-> x, y |-> y]
      Q == [x |-> <<x[1], fpneg1271(x[2])>>, y |-> y]
  IN  IF ecc_point_validate(point_setup(P)) THEN [ok |-> TRUE, point |-> P]
      ELSE [ok |-> ecc_point_validate(point_setup(Q)), point |-> Q]
decode(Pencoded) ==
  LET y == <<Pencoded[1], <<Pencoded[2][1], Pencoded[2][2] % Half>>>>
  IN  ChooseOnCurve(WithSignBit(SolveForX(y), Pencoded[2][2] \div Half), y)

-----------------------------------------------------------------------------
(***************************************************************************)
(* The reference: the affine addition law, on residues.                    *)
(***************************************************************************)
Residues == (0..Modulus - 1) \X (0..Modulus - 1)
Plus(a, b) == <<Mod(a[1] + b[1]), Mod(a[2] + b[2])>>
Minus(a, b) == <<Mod(a[1] + Modulus - b[1]), Mod(a[2] + Modulus - b[2])>>
Product(a, b) == <<Mod(a[1] * b[1] + (Modulus - a[2]) * b[2]), Mod(a[1] * b[2] + a[2] * b[1])>>
Quotient(a, b) == CHOOSE q \in Residues : Product(q, b) = a
OnCurve(P) ==
  LET xx == Product(P.x, P.x)
      yy == Product(P.y, P.y)
  IN  Minus(yy, xx) = Plus(<<1, 0>>, Product(PARAMETER_d, Product(xx, yy)))
CurvePoints == {P \in [x : Residues, y : Residues] : OnCurve(P)}
Neutral == [x |-> <<0, 0>>, y |-> <<1, 0>>]
Opposite(P) == [x |-> Minus(<<0, 0>>, P.x), y |-> P.y]
PointSum(P, Q) ==
  LET xy == Product(P.x, Q.y)
      yx == Product(P.y, Q.x)
      m == Product(PARAMETER_d, Product(xy, yx))
  IN  [x |-> Quotient(Plus(xy, yx), Plus(<<1, 0>>, m)),
       y |-> Quotient(Plus(Product(P.y, Q.y), Product(P.x, Q.x)), Minus(<<1, 0>>, m))]
Affine(P) == [x |-> F2elm(P.x), y |-> F2elm(P.y)]
=============================================================================
