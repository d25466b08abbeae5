----------------------------- MODULE XXMatrix -----------------------------
(***************************************************************************)
(* The matrix library of the 20-sim code generator (common/xxmatrix.cpp,   *)
(* common/xxinverse.cpp), which the plant of the simulator computes with.  *)
(* A matrix is the struct of the code: its size and a flat array in row    *)
(* order, indexed from 0.  A function gets the size of its destination     *)
(* where the code reads it from there; its value is the destination.       *)
(* Square roots, sines and powers of elements are left out.                *)
(***************************************************************************)
EXTENDS Rational

Matrix(r, c, Element(_)) ==
  [rows |-> r, columns |-> c, mat |-> [i \in 0 .. r * c - 1 |-> Element(i)]]

\* A matrix written down row by row.
Rows(r, c, list) == Matrix(r, c, LAMBDA i : list[i + 1])

\* A loop from 0 to n - 1 over a value.
Loop(n, value, Body(_, _)) ==
  LET after[k \in 0 .. n] == IF k = 0 THEN value ELSE Body(after[k - 1], k - 1)
  IN  after[n]

Total(n, Term(_)) == Loop(n, Zero, LAMBDA sum, k : sum (+) Term(k))

XXMatrixScalarMov(r, c, s) == Matrix(r, c, LAMBDA i : s)

XXMatrixGetRow(source, row) ==
  Matrix(1, source.columns, LAMBDA i : source.mat[source.columns * row + i])

XXMatrixSetRow(dest, source, row) ==
  Matrix(dest.rows, dest.columns,
         LAMBDA i : IF i \div source.columns = row THEN source.mat[i % source.columns]
                    ELSE dest.mat[i])

\* The step between two elements is the width of the destination.
XXMatrixGetColumn(r, c, source, column) ==
  Matrix(r, c, LAMBDA i : source.mat[c * i + column])

XXMatrixSetColumn(dest, source, column) ==
  Matrix(dest.rows, dest.columns,
         LAMBDA i : IF i % dest.columns = column THEN source.mat[i \div dest.columns]
                    ELSE dest.mat[i])

XXMatrixDiag(n, source) ==
  Matrix(n, n, LAMBDA i : IF i % (n + 1) = 0 THEN source.mat[i \div (n + 1)] ELSE Zero)

\* A scalar operand of the forms for a scalar and a matrix is a matrix of it.
XXMatrixAdd(A, B) == Matrix(A.rows, A.columns, LAMBDA i : A.mat[i] (+) B.mat[i])
XXMatrixSub(A, B) == Matrix(A.rows, A.columns, LAMBDA i : A.mat[i] (-) B.mat[i])

XXMatrixMul(r, c, A, B) ==
  Matrix(r, c, LAMBDA i : Total(B.rows, LAMBDA k :
    A.mat[(i \div c) * A.columns + k] (.) B.mat[(i % c) + (k * B.columns)]))

XXMatrixScalarMul(A, s) == Matrix(A.rows, A.columns, LAMBDA i : A.mat[i] (.) s)

XXScalarMatrixMatrixMul(A, B) == Total(A.columns, LAMBDA k : A.mat[k] (.) B.mat[k])

XXMatrixInv(A) == Matrix(A.rows, A.columns, LAMBDA i : Neg(A.mat[i]))

XXMatrixTranspose(r, c, A) ==
  Matrix(r, c, LAMBDA i : A.mat[((i % c) * r) + (i \div c)])

XXMatrixMulElement(A, B) == Matrix(A.rows, A.columns, LAMBDA i : A.mat[i] (.) B.mat[i])

XXMatrixDivElement(A, B) == Matrix(A.rows, A.columns, LAMBDA i : A.mat[i] (/) B.mat[i])
XXMatrixScalarDiv(A, s) == Matrix(A.rows, A.columns, LAMBDA i : A.mat[i] (/) s)

\* The one-based index of the generated code, in tenths: truncation of s - 0.9.
LinIndex(tenths) == (tenths - 9) \div 10

XXMatrixMovRelAbs(dest, tenths, s) == [dest EXCEPT !.mat[LinIndex(tenths)] = s]
XXMatrixMovAbsRel(A, tenths) == A.mat[LinIndex(tenths)]

XXMatrixMaximum(A) ==
  Loop(A.rows * A.columns, A.mat[0], LAMBDA d, i : IF Less(d, A.mat[i]) THEN A.mat[i] ELSE d)
XXMatrixMinimum(A) ==
  Loop(A.rows * A.columns, A.mat[0], LAMBDA d, i : IF Less(A.mat[i], d) THEN A.mat[i] ELSE d)
XXMatrixSum(A) == Total(A.rows * A.columns, LAMBDA i : A.mat[i])

XXMatrixEye(n) == Matrix(n, n, LAMBDA i : IF i % (n + 1) = 0 THEN One ELSE Zero)

XXMatrixCrossProduct(A, B) ==
  LET s == A.mat  t == B.mat
  IN  Rows(3, 1, <<(s[1] (.) t[2]) (-) (s[2] (.) t[1]), (s[2] (.) t[0]) (-) (s[0] (.) t[2]),
                   (s[0] (.) t[1]) (-) (s[1] (.) t[0])>>)

XXMatrixInnerProduct(A, B) == Total(A.rows, LAMBDA k : A.mat[k] (.) B.mat[k])

XXMatrixNormInf(A) ==
  Loop(A.rows, Zero, LAMBDA d, i :
    LET p == Total(A.columns, LAMBDA j : Abs(A.mat[i * A.columns + j]))
    IN  IF Less(d, p) THEN p ELSE d)

XXMatrixTrace(A) ==
  Total(IF A.rows < A.columns THEN A.rows ELSE A.columns,
        LAMBDA i : A.mat[i * (A.columns + 1)])

XXMatrixSym(A) ==
  XXMatrixScalarDiv(XXMatrixAdd(XXMatrixTranspose(A.rows, A.columns, A), A), Whole(2))
XXMatrixAsym(A) ==
  XXMatrixScalarDiv(XXMatrixSub(A, XXMatrixTranspose(A.rows, A.columns, A)), Whole(2))

XXMatrixSkew(A) ==
  LET s == A.mat
  IN  Rows(3, 3, <<Zero, Neg(s[2]), s[1],
                   s[2], Zero, Neg(s[0]),
                   Neg(s[1]), s[0], Zero>>)

XXMatrixHomogeneous(A, B) ==
  LET r == A.mat  p == B.mat
  IN  Rows(4, 4, <<r[0], r[1], r[2], p[0],
                   r[3], r[4], r[5], p[1],
                   r[6], r[7], r[8], p[2],
                   Zero, Zero, Zero, One>>)

XXMatrixInverseH(H) ==
  LET s == H.mat
      Back(i) == Neg((s[i] (.) s[3]) (+) (s[4 + i] (.) s[7]) (+) (s[8 + i] (.) s[11]))
  IN  Rows(4, 4, <<s[0], s[4], s[8], Back(0),
                   s[1], s[5], s[9], Back(1),
                   s[2], s[6], s[10], Back(2),
                   Zero, Zero, Zero, One>>)

\* Of an orientation and a position, or of the homogeneous matrix of both.
XXMatrixAdjoint1(A, B) ==
  LET r == A.mat  p == B.mat  O == Zero
      Low(a, b, c, d, i) == (Neg(p[a]) (.) r[3 * b + i]) (+) (p[c] (.) r[3 * d + i])
  IN  Rows(6, 6, <<r[0], r[1], r[2], O, O, O,
                   r[3], r[4], r[5], O, O, O,
                   r[6], r[7], r[8], O, O, O,
                   Low(2, 1, 1, 2, 0), Low(2, 1, 1, 2, 1), Low(2, 1, 1, 2, 2), r[0], r[1], r[2],
                   Low(0, 2, 2, 0, 0), Low(0, 2, 2, 0, 1), Low(0, 2, 2, 0, 2), r[3], r[4], r[5],
                   Low(1, 0, 0, 1, 0), Low(1, 0, 0, 1, 1), Low(1, 0, 0, 1, 2), r[6], r[7], r[8]>>)

XXMatrixAdjoint(H) ==
  LET s == H.mat
  IN  XXMatrixAdjoint1(
        Rows(3, 3, <<s[0], s[1], s[2], s[4], s[5], s[6], s[8], s[9], s[10]>>),
        Rows(3, 1, <<s[3], s[7], s[11]>>))

\* The two halves of a vector with an angular and a linear part.
Angular(A) == Rows(3, 1, <<A.mat[0], A.mat[1], A.mat[2]>>)
Linear(A) == Rows(3, 1, <<A.mat[3], A.mat[4], A.mat[5]>>)

XXMatrixadjoint1(A, B) ==
  LET w == A.mat  v == B.mat  O == Zero
  IN  Rows(6, 6, <<O, Neg(w[2]), w[1], O, O, O,
                   w[2], O, Neg(w[0]), O, O, O,
                   Neg(w[1]), w[0], O, O, O, O,
                   O, Neg(v[2]), v[1], O, Neg(w[2]), w[1],
                   v[2], O, Neg(v[0]), w[2], O, Neg(w[0]),
                   Neg(v[1]), v[0], O, Neg(w[1]), w[0], O>>)

XXMatrixadjoint(A) == XXMatrixadjoint1(Angular(A), Linear(A))

XXMatrixTilde1(A, B) ==
  LET w == A.mat  v == B.mat  O == Zero
  IN  Rows(4, 4, <<O, Neg(w[2]), w[1], v[0],
                   w[2], O, Neg(w[0]), v[1],
                   Neg(w[1]), w[0], O, v[2],
                   O, O, O, O>>)

XXMatrixTilde(A) == XXMatrixTilde1(Angular(A), Linear(A))
-----------------------------------------------------------------------------
\* common/xxinverse.cpp

XXSwapRows(m, row1, row2) ==
  XXMatrixSetRow(XXMatrixSetRow(m, XXMatrixGetRow(m, row2), row1),
                 XXMatrixGetRow(m, row1), row2)

\* Elimination without a search for the pivot.
PivotRowNone(m, i) == i

\* The first row from i on with the largest element in column i, or i itself.
PivotRow(m, i) ==
  LET size(k) == Abs(m.mat[k * m.columns + i])
  IN  Loop(m.rows, i, LAMBDA j, k : IF k > i /\ Less(size(j), size(k)) THEN k ELSE j)

\* The determinant as far as it is known with row j as the pivot of column i.
PivotProduct(acc, i, j) ==
  LET piv == acc.m.mat[j * acc.m.columns + i]
  IN  acc.det (.) (IF j > i THEN Neg(piv) ELSE piv)

\* Row i divided by its pivot and taken from the rows below.
Eliminated(m, i) ==
  LET n == m.rows
      At(j, k) == m.mat[j * n + k]
      Divided(k) == IF k > i THEN At(i, k) (/) At(i, i) ELSE At(i, k)
  IN  Matrix(n, n, LAMBDA e :
        LET r == e \div n  k == e % n
        IN  IF r = i THEN Divided(k)
            ELSE IF r > i /\ k > i THEN At(r, k) (-) (At(r, i) (.) Divided(k))
            ELSE At(r, k))

\* Rows i and j change places, in the order of the rows too.
Factored(acc, i, j) ==
  LET m == XXSwapRows(acc.m, i, j)
  IN  [m |-> IF PivotProduct(acc, i, j) = Zero THEN m ELSE Eliminated(m, i),
       p |-> [acc.p EXCEPT ![i] = acc.p[j], ![j] = acc.p[i]],
       det |-> PivotProduct(acc, i, j)]

\* m holds both factors when it is done; p is the order of the rows.
XXDecompose(source) ==
  Loop(source.rows,
       [m |-> source, p |-> [i \in 0 .. source.rows - 1 |-> i], det |-> One],
       LAMBDA acc, i : IF acc.det = Zero THEN acc ELSE Factored(acc, i, PivotRow(acc.m, i)))

XXPermute(v, p) == Matrix(v.rows, v.columns, LAMBDA i : v.mat[p[i]])

XXSubstitute(m, vector) ==
  LET n == m.rows
      Rest(v, i, from, to) ==
        Total(n, LAMBDA j : IF j \in from .. to THEN m.mat[i * n + j] (.) v[j] ELSE Zero)
      Forward(v, i) == [v EXCEPT ![i] = (@ (-) Rest(v, i, 0, i - 1)) (/) m.mat[i * n + i]]
      Back(v, k) == LET i == n - 1 - k IN [v EXCEPT ![i] = @ (-) Rest(v, i, i + 1, n - 1)]
  IN  [vector EXCEPT !.mat = Loop(n, Loop(n, vector.mat, Forward), Back)]

\* The columns that the factors give for the unit vectors.
Inverted(lu) ==
  LET n == lu.m.rows
      Row(i) == XXSubstitute(lu.m, XXPermute(XXMatrixGetRow(XXMatrixEye(n), i), lu.p))
  IN  XXMatrixTranspose(n, n,
        Loop(n, XXMatrixEye(n), LAMBDA m, i : XXMatrixSetRow(m, Row(i), i)))

\* The destination is left as it was when there is no inverse.
InverseFrom(dest, lu) ==
  [mat |-> IF lu.det = Zero THEN dest ELSE Inverted(lu), det |-> lu.det]
XXInverse(dest, source) == InverseFrom(dest, XXDecompose(source))

\* One vector solved for: x of A x = y, or y as it is when there is none.
XXCrout(A, y) ==
  LET lu == XXDecompose(A)
  IN  [x |-> IF lu.det = Zero THEN y ELSE XXSubstitute(lu.m, XXPermute(y, lu.p)),
       det |-> lu.det]

XXMatrixDeterminant(A) == XXDecompose(A).det

XXMatrixInverse(dest, A) == XXInverse(dest, A).mat

XXMatrixDiv(dest, A, B) ==
  LET inv == XXInverse(XXMatrixEye(B.rows), B)
  IN  IF inv.det = Zero THEN dest ELSE XXMatrixMul(A.rows, B.columns, A, inv.mat)

XXScalarMatrixDiv(dest, s, A) ==
  LET inv == XXInverse(dest, A)
  IN  IF inv.det = Zero THEN dest ELSE XXMatrixScalarMul(inv.mat, s)

XXMatrixPow(dest, A, n) ==
  LET power == Loop(Magnitude(n), XXMatrixEye(A.rows),
                    LAMBDA m, i : XXMatrixMul(A.rows, A.columns, m, A))
  IN  IF n < 0 THEN XXMatrixInverse(power, power) ELSE power

XXLinearSolve(A, B) ==
  XXMatrixMul(A.columns, B.columns, XXMatrixInverse(XXMatrixEye(A.rows), A), B)
=============================================================================
