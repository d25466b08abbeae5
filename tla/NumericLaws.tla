---------------------------- MODULE NumericLaws ----------------------------
(***************************************************************************)
(* What the matrix library, the integration methods, the controller and    *)
(* the plant must satisfy, stated with definitions of their own: sums over *)
(* permutations, unit matrices, the polynomials that solve an equation.    *)
(* Each law is about one drawn sample.                                     *)
(***************************************************************************)
EXTENDS Plant, LoopController, XXFuncs, Sequences, FiniteSetsExt

SumOver(S, Term(_)) ==
  MapThenFoldSet(LAMBDA a, b : a (+) b, Zero, Term, LAMBDA T : CHOOSE x \in T : TRUE, S)

Times3(A, B, C) == LET n == A.rows  AB == XXMatrixMul(n, n, A, B) IN XXMatrixMul(n, n, AB, C)
Product(A, B) == XXMatrixMul(A.rows, B.columns, A, B)
Identity(n) == Matrix(n, n, LAMBDA i : IF i \div n = i % n THEN One ELSE Zero)
Unit(r, c, at) == Matrix(r, c, LAMBDA i : IF i = at THEN One ELSE Zero)
-----------------------------------------------------------------------------
Orders(n) == {p \in [0 .. n - 1 -> 0 .. n - 1] : \A i, j \in 0 .. n - 1 : i # j => p[i] # p[j]}

Leibniz(A) ==
  LET n == A.rows
      Swaps(p) == {s \in (0 .. n - 1) \X (0 .. n - 1) : s[1] < s[2] /\ p[s[1]] > p[s[2]]}
      Term(p) == Loop(n, Whole(IF Cardinality(Swaps(p)) % 2 = 0 THEN 1 ELSE -1),
                      LAMBDA t, i : t (.) A.mat[(i * n) + p[i]])
  IN  SumOver(Orders(n), Term)

\* The inverse of a square matrix A, and the divisions by A, into a destination
\* D of its size: they undo the product with A, or leave the destination alone.
InverseLaw(A, D) ==
  LET n == A.rows
      inverse == XXMatrixInverse(D, A)
  IN  IF XXMatrixDeterminant(A) = Zero
      THEN /\ inverse = D
           /\ XXMatrixDiv(D, A, A) = D
           /\ XXScalarMatrixDiv(D, Whole(2), A) = D
      ELSE /\ Product(A, inverse) = Identity(n) /\ Product(inverse, A) = Identity(n)
           /\ Product(A, XXScalarMatrixDiv(D, Whole(2), A)) = XXMatrixScalarMul(Identity(n), Whole(2))
           /\ Product(XXMatrixDiv(A, D, A), A) = D
           /\ Product(A, XXLinearSolve(A, D)) = D

\* A square matrix A and a destination D of its size.
SquareLaw(A, D) ==
  LET n == A.rows
      det == XXMatrixDeterminant(A)
      y == XXMatrixTranspose(n, 1, XXMatrixGetRow(D, 0))
      solved == [XXCrout(A, y).x EXCEPT !.rows = n, !.columns = 1]
  IN  /\ det = Leibniz(A)
      /\ XXMatrixAdd(XXMatrixSym(A), XXMatrixAsym(A)) = A
      /\ XXMatrixTrace(XXMatrixAsym(A)) = Zero
      /\ InverseLaw(A, D)
      /\ det # Zero => /\ Product(A, solved) = y
                       /\ Times3(A, A, XXMatrixPow(D, A, -2)) = Identity(n)
-----------------------------------------------------------------------------
\* Unit matrices multiply as they should (i and j are places in 2x3 and 3x2
\* matrices), and so do their transposes.
ProductLaw(i, j) ==
  LET A == Unit(2, 3, i)  B == Unit(3, 2, j)
      AB == XXMatrixMul(2, 2, A, B)
  IN  /\ AB = (IF i % 3 = j \div 2 THEN Unit(2, 2, (2 * (i \div 3)) + (j % 2))
               ELSE XXMatrixScalarMov(2, 2, Zero))
      /\ XXMatrixTranspose(2, 2, AB)
           = XXMatrixMul(2, 2, XXMatrixTranspose(2, 3, B), XXMatrixTranspose(3, 2, A))
      /\ XXMatrixSub(XXMatrixAdd(A, A), A) = A
      /\ XXMatrixMulElement(A, A) = A
      /\ XXMatrixSum(A) = One

Vector3(v) == Rows(3, 1, v)

\* Vectors a and b of three numbers.
VectorLaw(v, w) ==
  LET a == Vector3(v)  b == Vector3(w)  cross == XXMatrixCrossProduct(a, b)
      values == {v[k] : k \in 1 .. 3}
  IN  /\ Product(XXMatrixSkew(a), b) = cross
      /\ XXMatrixInv(XXMatrixCrossProduct(b, a)) = cross
      /\ XXMatrixInnerProduct(a, cross) = Zero
      /\ XXMatrixInnerProduct(a, b) = XXScalarMatrixMatrixMul(XXMatrixTranspose(1, 3, a), b)
      /\ Product(XXMatrixDiag(3, a), b) = XXMatrixMulElement(a, b)
      /\ \A i \in 0 .. 2 : XXMatrixGetRow(XXMatrixSetColumn(Identity(3), a, 1), i).mat[1] = a.mat[i]
      /\ XXMatrixMaximum(a) \in values /\ \A x \in values : ~Less(XXMatrixMaximum(a), x)
      /\ XXMatrixMinimum(a) \in values /\ \A x \in values : ~Less(x, XXMatrixMinimum(a))
      /\ XXMatrixNormInf(XXMatrixTranspose(1, 3, a)) = XXMatrixSum(Rows(3, 1, [k \in 1 .. 3 |-> Abs(v[k])]))
      /\ Zero \notin values => XXMatrixDivElement(XXMatrixMulElement(b, a), a) = b
      /\ XXMatrixScalarDiv(XXMatrixScalarMul(a, Whole(3)), Whole(3)) = a
      /\ \A k \in 1 .. 3 : XXMatrixMovAbsRel(XXMatrixMovRelAbs(a, 10 * k, Zero), 10 * k) = Zero

Twist(v, w) == Rows(6, 1, v \o w)

\* Two poses of a body and two twists: the homogeneous matrix, its inverse, the
\* adjoint of a pose, the tilde and the adjoint of a twist fit together as the
\* parts of one theory must.
MotionLaw(R1, p1, R2, p2, v, w) ==
  LET H1 == XXMatrixHomogeneous(R1, Vector3(p1))
      H2 == XXMatrixHomogeneous(R2, Vector3(p2))
      t == Twist(v, w)
      u == Twist(w, p1)
      Bracket(A, B) == XXMatrixSub(Product(A, B), Product(B, A))
  IN  /\ Product(XXMatrixInverseH(H1), H1) = Identity(4)
      /\ XXMatrixInverseH(Product(H1, H2)) = Product(XXMatrixInverseH(H2), XXMatrixInverseH(H1))
      /\ XXMatrixAdjoint(Product(H1, H2)) = Product(XXMatrixAdjoint(H1), XXMatrixAdjoint(H2))
      /\ XXMatrixAdjoint1(R1, Vector3(p1)) = XXMatrixAdjoint(H1)
      /\ Times3(H1, XXMatrixTilde(t), XXMatrixInverseH(H1))
           = XXMatrixTilde(Product(XXMatrixAdjoint(H1), t))
      /\ XXMatrixTilde(Product(XXMatrixadjoint(t), u))
           = Bracket(XXMatrixTilde(t), XXMatrixTilde(u))
-----------------------------------------------------------------------------
\* Division by y: the quotient is whole and the remainder has the sign of x.
RemainderLaw(x, y) ==
  LET div == XXIntegerDivide(x, y)
      mod == XXIntegerModulo(x, y)
  IN  /\ x = (div (.) y) (+) mod /\ div[2] = 1
      /\ Less(Abs(mod), Abs(y))
      /\ mod # Zero => XXSign(mod) = XXSign(x)

\* Rounding is to the nearest number, the same way on both sides of zero; a
\* sign and a square forget the sign.
RoundingLaw(x) ==
  /\ ~Less(Ratio(1, 2), Abs(XXRound(x) (-) x)) /\ XXRound(x)[2] = 1
  /\ XXRound(Neg(x)) = Neg(XXRound(x))
  /\ x (.) XXSign(x) = Abs(x) /\ XXPow2(Abs(x)) = XXPow2(x)

\* Numbers x and y: division, rounding, a ramp that adds up a step, and an
\* impulse whose samples, one step apart, have an area of 1 to 2, because both
\* ends of its duration count.
NumberLaw(x, y) ==
  LET steps == 0 .. Truncated(Abs(x))
      Area(start) == SumOver(0 .. 20, LAMBDA k :
        Abs(y) (.) XXImpulse(start, Abs(x), start (+) (Abs(y) (.) Whole(k - 2)), Abs(y)))
  IN  /\ y # Zero => RemainderLaw(x, y)
      /\ RoundingLaw(x)
      /\ XXRamp(Whole(2), Whole(Truncated(Abs(x)) + 1))
           = SumOver(steps, LAMBDA k : XXStep(Whole(2), Whole(k)))
      /\ IF x = Zero \/ y = Zero THEN Area(y) = Zero
         ELSE ~Less(Area(y), One) /\ ~Less(Whole(2), Area(y))

\* Integers a and b, a number of bits n: the functions on bits undo each other,
\* and swapping the bytes of an integer reverses them; where char is signed only
\* if no byte but the lowest has its high bit on.
BitsLaw(a, b, n) ==
  LET low == 0 .. n - 1
      Swapped(k) == Byte(a, 3 - k)
  IN  /\ XXBitXor(XXBitXor(a, b), b) = a
      /\ XXBitInv(XXBitAnd(a, b)) = XXBitOr(XXBitInv(a), XXBitInv(b))
      /\ XXBitCmp(XXBitCmp(a, n), n) = XXBitAnd(a, low)
      /\ \A pos \in 1 .. 32 :
           /\ XXBitGet(XXBitSet(a, pos), pos) /\ ~XXBitGet(XXBitClear(a, pos), pos)
           /\ XXBitXor(a, {pos - 1}) = (IF XXBitGet(a, pos) THEN XXBitClear(a, pos) ELSE XXBitSet(a, pos))
      /\ XXBitShift(XXBitShift(a, -n), n) = a \ low
      /\ XXBitShiftRight(a, n) = XXBitShift(a, -n) /\ XXBitShiftRight(a, -n) = XXBitShift(a, n)
      /\ \A signed \in BOOLEAN :
           (~signed \/ a \cap {15, 23, 31} = {}) =>
             \A k \in 0 .. 3 : Byte(XXSwapBytes(a, signed), k) = Swapped(k)
-----------------------------------------------------------------------------
\* n integrators in a row behind the rate 1, from the states s: after h each is
\* the polynomial that solves the equation, if the method has the order for it.
ChainRates(u, s, t) == [i \in DOMAIN s |-> IF i = 0 THEN One ELSE s[i - 1]]
Chain == INSTANCE XXInteg WITH CalculateDynamic <- ChainRates

ChainLaw(n, s, h) ==
  LET Power[k \in 0 .. n] == IF k = 0 THEN One ELSE (Power[k - 1] (.) h) (/) Whole(k)
      Exact == [i \in 0 .. n - 1 |->
                 SumOver(0 .. i, LAMBDA k : s[k] (.) Power[i - k]) (+) Power[i + 1]]
      start == Chain!Evaluated(<<>>, s, Zero)
      Correct(m) == m.s = Exact /\ m.time = h /\ m.R = ChainRates(<<>>, Exact, h)
  IN  /\ Correct(Chain!RungeKutta4(start, h))
      /\ n <= 2 => Correct(Chain!RungeKutta2(start, h))
      /\ n <= 1 => Correct(Chain!Euler(start, h))
      /\ Chain!Discrete(start, h).s = ChainRates(<<>>, s, Zero)

\* A rate that depends on the time as its power k.
RaisedTo(k, t) == LET p[j \in 0 .. k] == IF j = 0 THEN One ELSE p[j - 1] (.) t IN p[k]
PowerRates(u, s, t) == [i \in DOMAIN s |-> RaisedTo(u, t)]
Quadrature == INSTANCE XXInteg WITH CalculateDynamic <- PowerRates

QuadratureLaw(k, t, h) ==
  LET start == Quadrature!Evaluated(k, [i \in {0} |-> Zero], t)
      Exact == (RaisedTo(k + 1, t (+) h) (-) RaisedTo(k + 1, t)) (/) Whole(k + 1)
  IN  Quadrature!RungeKutta4(start, h).s[0] = Exact

\* The controller with the inputs u1 and then u2: the first stage of a step
\* still has the error of the inputs before, which so enters with one sixth.
LoopLaw(P, h, u1, u2) ==
  LET rest == [k \in 0 .. 1 |-> Zero]
      start == Method!Evaluated(u1, rest, Zero)
      one == LoopStep(start, h, u1)
      two == LoopStep(one, h, u2)
      Lagged(k) == h (.) ((PositionError(u1, k) (.) Ratio(7, 6))
                            (+) (PositionError(u2, k) (.) Ratio(5, 6)))
  IN  \A k \in 0 .. 1 :
        SteerOutput(P, u2, two.s)[k] = (Kp(P, k) (.) PositionError(u2, k)) (+) (Ki(P, k) (.) Lagged(k))
-----------------------------------------------------------------------------
\* The power the motors take in is the power that is stored and the power that
\* is lost: in the windings, the bearings of the rotors and of the wheels and in
\* the tyres.  Stored is what the states with an effort change; d is what
\* CalculateDynamic finds for the states s.
PlantLaw(P, s, d) ==
  LET Squared(x) == x (.) x
      Sides(Term(_)) == Term(0) (+) Term(1)
      Stored ==
        Sides(LAMBDA k : d.drive[k].speed (.) d.R[1 + (2 * k)])
          (+) Sides(LAMBDA k : (s[5 + k] (/) P[16 + k]) (.) d.R[5 + k])
          (+) Sides(LAMBDA k : (s[7 + k] (/) P[18 + k]) (.) d.R[7 + k])
          (+) (d.R[4] (.) d.R[11])
          (+) Sides(LAMBDA k : d.R[9 + k] (.) d.R[12 + k])
      Lost == Sides(LAMBDA k :
        (Squared(d.drive[k].current) (.) P[5 + (8 * k)])
          (+) (Squared(d.drive[k].speed) (.) P[6 + (8 * k)])
          (+) (Squared(d.drive[k].wheel) (.) P[32 + (2 * k)])
          (+) (Squared(d.R[5 + k]) (.) P[22 + k]) (+) (Squared(d.R[7 + k]) (.) P[24 + k]))
  IN  Sides(LAMBDA k : d.drive[k].volt (.) d.drive[k].current) = Stored (+) Lost
=============================================================================
