----------------------------- MODULE Rational -----------------------------
(***************************************************************************)
(* Exact numbers for the models of numeric code: a pair of a numerator and *)
(* a positive denominator without a common divisor.  The code computes     *)
(* with doubles; rounding is not modelled.                                 *)
(***************************************************************************)
EXTENDS Integers

Magnitude(n) == IF n < 0 THEN -n ELSE n

\* Euclid's algorithm on a pair of numbers.
Gcd[p \in Nat \X Nat] == IF p[2] = 0 THEN p[1] ELSE Gcd[<<p[2], p[1] % p[2]>>]

Rationals == {r \in Int \X (Nat \ {0}) : Gcd[<<Magnitude(r[1]), r[2]>>] = 1}

Ratio(n, d) ==
  LET g == Gcd[<<Magnitude(n), Magnitude(d)>>]
      s == IF d < 0 THEN -1 ELSE 1
  IN  IF d = 1 THEN <<n, 1>> ELSE <<s * (n \div g), s * (d \div g)>>

Whole(n) == <<n, 1>>
Zero == Whole(0)
One == Whole(1)

a (+) b == Ratio(a[1] * b[2] + b[1] * a[2], a[2] * b[2])
a (-) b == Ratio(a[1] * b[2] - b[1] * a[2], a[2] * b[2])
a (.) b == Ratio(a[1] * b[1], a[2] * b[2])
a (/) b == Ratio(a[1] * b[2], a[2] * b[1])

Neg(a) == <<- a[1], a[2]>>
Abs(a) == <<Magnitude(a[1]), a[2]>>
Less(a, b) == a[1] * b[2] < b[1] * a[2]

\* The conversion of a double to an int.
Truncated(r) == IF r[1] < 0 THEN -((- r[1]) \div r[2]) ELSE r[1] \div r[2]
=============================================================================
