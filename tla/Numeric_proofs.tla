--------------------------- MODULE Numeric_proofs ---------------------------
(***************************************************************************)
(* Proofs about the numeric code, for all rational numbers: that they are  *)
(* a field, that the controller's integral action lags by a sixth of a     *)
(* step, that the matrix library inverts a matrix of 2 x 2 or leaves the   *)
(* destination alone, that the equations of the plant make no power, that  *)
(* the fourth-order method integrates cubic rates without an error, that   *)
(* the operations on vectors of three numbers fit together, and that the   *)
(* remainder, the rounding and the functions on bits of the library are    *)
(* what their names say; that the determinant, the single right sides and  *)
(* the powers of matrices of 2 x 2 fit together; that each integration     *)
(* method reaches the solution of a chain of as many integrators as it has *)
(* orders; that a ramp is a sum of steps and the samples of an impulse     *)
(* have an area of 1 to 2; and that unit matrices multiply as they should. *)
(* That Gcd, a recursive function, satisfies its equation is proved from a *)
(* least counterexample; a loop of two or three turns from its explicit    *)
(* solution; a sum over a set from the equation that it solves.            *)
(***************************************************************************)
EXTENDS NumericLaws, WellFoundedInduction, FiniteSetTheorems, TLAPS

-----------------------------------------------------------------------------
(***************************************************************************)
(* Numbers.                                                                *)
(***************************************************************************)

\* A set of natural numbers has a least element: the induction of this module.
LEMMA LeastNumber ==
  ASSUME NEW T, T \subseteq Nat, T # {}
  PROVE  \E x \in T : \A y \in T : x <= y
<1> DEFINE R == OpToRel(<, Nat)
<1>1. \A x, y \in Nat : y < x => <<y, x>> \in R
  BY DEF OpToRel
<1>2. IsWellFoundedOn(R, Nat)
  BY NatLessThanWellFounded
<1> HIDE DEF R
<1>3. PICK x \in T : \A y \in T : ~ (<<y, x>> \in R)
  BY <1>2, WFMin
<1>4. ASSUME NEW y \in T PROVE x <= y
  <2>1. x \in Nat /\ y \in Nat
    OBVIOUS
  <2>2. ~(y < x)
    BY <1>1, <1>3, <2>1
  <2>3. QED
    BY <2>1, <2>2
<1>5. QED
  BY <1>3, <1>4
-----------------------------------------------------------------------------
Divides(d, n) == \E q \in Nat : n = d * q
CommonDivisors(a, b) == {d \in Nat : Divides(d, a) /\ Divides(d, b)}
Greatest(S) == CHOOSE g : g \in S /\ \A d \in S : Divides(d, g)

\* The quotient and the remainder.
LEMMA Division ==
  ASSUME NEW a \in Nat, NEW b \in Nat, b # 0
  PROVE  /\ a % b \in Nat /\ a % b < b /\ a \div b \in Nat
         /\ a = (b * (a \div b)) + (a % b)
OBVIOUS

\* A divisor of b divides a sum with a multiple of b if it divides the rest.
LEMMA DividesSum ==
  ASSUME NEW d \in Nat, NEW a \in Nat, NEW b \in Nat, NEW k \in Nat, Divides(d, b)
  PROVE  Divides(d, (b * k) + a) <=> Divides(d, a)
<1>1. PICK q \in Nat : b = d * q
  BY DEF Divides
<1>2. ASSUME NEW r \in Nat, a = d * r PROVE Divides(d, (b * k) + a)
  <2>1. (b * k) + a = d * ((q * k) + r) /\ (q * k) + r \in Nat
    BY <1>1, <1>2
  <2>2. QED
    BY <2>1 DEF Divides
<1>3. ASSUME NEW r \in Nat, (b * k) + a = d * r PROVE Divides(d, a)
  <2>1. a = d * (r - (q * k)) /\ r - (q * k) \in Int
    BY <1>1, <1>3
  <2>2. CASE r - (q * k) >= 0
    BY <2>1, <2>2 DEF Divides
  <2>3. CASE r - (q * k) < 0
    <3>1. a = 0
      BY <2>1, <2>3
    <3>2. a = d * 0
      BY <3>1
    <3>3. QED
      BY <3>2 DEF Divides
  <2>4. QED
    BY <2>1, <2>2, <2>3
<1>4. QED
  BY <1>2, <1>3 DEF Divides

\* A step of Euclid's algorithm keeps the common divisors.
LEMMA GcdStep ==
  ASSUME NEW a \in Nat, NEW b \in Nat, b # 0
  PROVE  CommonDivisors(a, b) = CommonDivisors(b, a % b)
<1>1. ASSUME NEW d \in Nat, Divides(d, b) PROVE Divides(d, a) <=> Divides(d, a % b)
  <2>1. Divides(d, (b * (a \div b)) + (a % b)) <=> Divides(d, a % b)
    BY <1>1, Division, DividesSum
  <2>2. QED
    BY <2>1, Division
<1>2. QED
  BY <1>1 DEF CommonDivisors

\* The end of Euclid's algorithm.
LEMMA GcdOfZero ==
  ASSUME NEW a \in Nat
  PROVE  Greatest(CommonDivisors(a, 0)) = a
<1>1. a \in CommonDivisors(a, 0) /\ \A d \in CommonDivisors(a, 0) : Divides(d, a)
  <2>1. a = a * 1 /\ 0 = a * 0
    OBVIOUS
  <2>2. QED
    BY <2>1 DEF CommonDivisors, Divides
<1>2. ASSUME NEW g \in CommonDivisors(a, 0), \A d \in CommonDivisors(a, 0) : Divides(d, g)
      PROVE  g = a
  <2>1. PICK p \in Nat, q \in Nat : g \in Nat /\ a = g * p /\ g = a * q
    BY <1>1, <1>2 DEF CommonDivisors, Divides
  <2>2. CASE a = 0
    BY <2>1, <2>2
  <2>3. CASE a # 0
    <3>1. a * 1 = a * (q * p)
      BY <2>1
    <3>2. q * p = 1 /\ q \in Nat /\ p \in Nat
      BY <2>3, <3>1
    <3>3. q = 1
      BY <3>2
    <3>4. QED
      BY <2>1, <3>3
  <2>4. QED
    BY <2>2, <2>3
<1>3. QED
  BY <1>1, <1>2 DEF Greatest

\* The recursive definition has a solution, so that Gcd satisfies its equation.
LEMMA GcdEquation ==
  ASSUME NEW a \in Nat, NEW b \in Nat
  PROVE  Gcd[<<a, b>>] = IF b = 0 THEN a ELSE Gcd[<<b, a % b>>]
<1> DEFINE H == [p \in Nat \X Nat |-> Greatest(CommonDivisors(p[1], p[2]))]
           Solves(f) == f = [p \in Nat \X Nat |-> IF p[2] = 0 THEN p[1] ELSE f[<<p[2], p[1] % p[2]>>]]
<1>1. ASSUME NEW p \in Nat \X Nat
      PROVE  H[p] = IF p[2] = 0 THEN p[1] ELSE H[<<p[2], p[1] % p[2]>>]
  <2>1. CASE p[2] = 0
    BY <2>1, GcdOfZero
  <2>2. CASE p[2] # 0
    <3>1. <<p[2], p[1] % p[2]>> \in Nat \X Nat
      BY <2>2, Division
    <3>2. H[<<p[2], p[1] % p[2]>>] = Greatest(CommonDivisors(p[2], p[1] % p[2]))
      BY <3>1
    <3>3. CommonDivisors(p[1], p[2]) = CommonDivisors(p[2], p[1] % p[2])
      BY <2>2, GcdStep
    <3>4. QED
      BY <2>2, <3>2, <3>3
  <2>3. QED
    BY <2>1, <2>2
<1>2. Solves(H)
  <2> DEFINE K == [p \in Nat \X Nat |-> IF p[2] = 0 THEN p[1] ELSE H[<<p[2], p[1] % p[2]>>]]
  <2>1. \A p \in Nat \X Nat : H[p] = K[p]
    <3> HIDE DEF H
    <3>1. QED
      BY <1>1
  <2>2. H = K
    <3>1. H = [p \in Nat \X Nat |-> H[p]] /\ K = [p \in Nat \X Nat |-> K[p]]
      OBVIOUS
    <3> HIDE DEF H, K
    <3>2. QED
      BY <2>1, <3>1
  <2>3. QED
    BY <2>2
<1>3. Gcd = CHOOSE f : Solves(f)
  BY DEF Gcd
<1> HIDE DEF H
<1>4. Solves(Gcd)
  <2> HIDE DEF Solves
  <2>1. QED
    BY <1>2, <1>3
<1>5. QED
  BY <1>4

\* Facts of arithmetic.
LEMMA Cancel ==
  ASSUME NEW c \in Int, c # 0, NEW u \in Int, NEW v \in Int, c * u = c * v
  PROVE  u = v
OBVIOUS

\* Only 1 and -1 have a whole inverse.
LEMMA Units ==
  ASSUME NEW k \in Int, NEW l \in Int, k * l = 1
  PROVE  (k = 1 /\ l = 1) \/ (k = -1 /\ l = -1)
OBVIOUS

\* What is used of a greatest common divisor: it divides both numbers, and it is
\* a sum of multiples of them.
IsGcd(g, a, b) ==
  /\ g \in Nat /\ Divides(g, a) /\ Divides(g, b)
  /\ \E x, y \in Int : (x * a) + (y * b) = g

\* Gcd is a greatest common divisor of any two numbers.
LEMMA GcdFacts == \A a, b \in Nat : IsGcd(Gcd[<<a, b>>], a, b)
<1> DEFINE Bad == {b \in Nat : \E a \in Nat : ~IsGcd(Gcd[<<a, b>>], a, b)}
<1>1. SUFFICES ASSUME Bad # {} PROVE FALSE
  OBVIOUS
<1>2. PICK b \in Bad : \A c \in Bad : b <= c
  <2>1. Bad \subseteq Nat
    OBVIOUS
  <2> HIDE DEF Bad
  <2>2. QED
    BY <1>1, <2>1, LeastNumber
<1>3. PICK a \in Nat : b \in Nat /\ ~IsGcd(Gcd[<<a, b>>], a, b)
  OBVIOUS
<1>4. CASE b = 0
  <2>1. Gcd[<<a, b>>] = a
    BY <1>3, <1>4, GcdEquation
  <2>2. a = a * 1 /\ b = a * 0 /\ (1 * a) + (0 * b) = a /\ 0 \in Int /\ 1 \in Int
    BY <1>4
  <2>3. IsGcd(a, a, b)
    BY <2>2 DEF IsGcd, Divides
  <2>4. QED
    BY <1>3, <2>1, <2>3
<1>5. CASE b # 0
  <2> DEFINE r == a % b
             k == a \div b
             g == Gcd[<<b, r>>]
  <2>1. r \in Nat /\ r < b /\ k \in Nat /\ a = (b * k) + r
    BY <1>3, <1>5, Division
  <2>2. Gcd[<<a, b>>] = g
    BY <1>3, <1>5, GcdEquation
  <2> HIDE DEF r, k, g
  <2>3. IsGcd(g, b, r)
    BY <1>2, <1>3, <2>1 DEF g
  <2>4. PICK p \in Nat, q \in Nat : g \in Nat /\ b = g * p /\ r = g * q
    BY <2>3 DEF IsGcd, Divides
  <2>5. a = g * ((p * k) + q) /\ (p * k) + q \in Nat
    BY <2>1, <2>4
  <2>6. PICK x \in Int, y \in Int : (x * b) + (y * r) = g
    BY <2>3 DEF IsGcd
  <2>7. (y * a) + ((x - (y * k)) * b) = g /\ x - (y * k) \in Int
    BY <1>3, <2>1, <2>6
  <2>8. \E u, v \in Int : (u * a) + (v * b) = g
    BY <2>7
  <2>9. IsGcd(g, a, b)
    BY <2>4, <2>5, <2>8 DEF IsGcd, Divides
  <2>10. QED
    BY <1>3, <2>2, <2>9
<1>6. QED
  BY <1>4, <1>5

\* Two numbers of which some multiples differ by one have no common divisor.
LEMMA Coprime ==
  ASSUME NEW a \in Nat, NEW b \in Nat
  PROVE  Gcd[<<a, b>>] = 1 <=> \E x, y \in Int : (x * a) + (y * b) = 1
<1> DEFINE g == Gcd[<<a, b>>]
<1>1. IsGcd(g, a, b)
  BY GcdFacts
<1> HIDE DEF g
<1>2. ASSUME NEW x \in Int, NEW y \in Int, (x * a) + (y * b) = 1 PROVE g = 1
  <2>1. PICK p \in Nat, q \in Nat : g \in Nat /\ a = g * p /\ b = g * q
    BY <1>1 DEF IsGcd, Divides
  <2>2. g * ((x * p) + (y * q)) = 1 /\ (x * p) + (y * q) \in Int
    BY <1>2, <2>1
  <2>3. PICK k \in Int : g * k = 1
    BY <2>2
  <2>4. QED
    BY <2>1, <2>3, Units
<1>3. QED
  BY <1>1, <1>2 DEF IsGcd, g
-----------------------------------------------------------------------------
\* Equal fractions in lowest terms are the same pair.
LEMMA SameValue ==
  ASSUME NEW a \in Rationals, NEW b \in Rationals, a[1] * b[2] = b[1] * a[2]
  PROVE  a = b
<1>1. /\ a[1] \in Int /\ a[2] \in Nat /\ a[2] # 0 /\ a = <<a[1], a[2]>>
      /\ b[1] \in Int /\ b[2] \in Nat /\ b[2] # 0 /\ b = <<b[1], b[2]>>
  BY DEF Rationals
<1>2. ASSUME NEW n \in Int, NEW d \in Nat, NEW m \in Int, NEW e \in Nat, d # 0, e # 0,
             n * e = m * d, Gcd[<<Magnitude(n), d>>] = 1
      PROVE  \E k \in Int : e = d * k
  <2>1. Magnitude(n) \in Nat
    BY DEF Magnitude
  <2>2. PICK x \in Int, y \in Int : (x * Magnitude(n)) + (y * d) = 1
    BY <1>2, <2>1, Coprime
  <2>3. PICK u \in Int : u * n = x * Magnitude(n)
    <3>1. x * n = x * Magnitude(n) \/ (-x) * n = x * Magnitude(n)
      BY DEF Magnitude
    <3>2. QED
      BY <3>1
  <2>4. (u * n) + (y * d) = 1
    BY <2>2, <2>3
  <2>5. e * ((u * n) + (y * d)) = d * ((u * m) + (y * e))
    <3>1. e * ((u * n) + (y * d)) = (u * (n * e)) + (d * (y * e))
      OBVIOUS
    <3>2. u * (n * e) = d * (u * m)
      BY <1>2
    <3>3. QED
      BY <3>1, <3>2
  <2>6. e = d * ((u * m) + (y * e)) /\ (u * m) + (y * e) \in Int
    BY <2>4, <2>5
  <2>7. QED
    BY <2>6
<1>3. PICK k \in Int : b[2] = a[2] * k
  BY <1>1, <1>2, ZenonT(40) DEF Rationals
<1>4. PICK l \in Int : a[2] = b[2] * l
  BY <1>1, <1>2, ZenonT(40) DEF Rationals
<1>5. a[2] = b[2]
  <2>1. a[2] * (k * l) = a[2] * 1
    BY <1>1, <1>3, <1>4
  <2>2. k * l = 1
    BY <1>1, <2>1, Cancel
  <2>3. k = 1 \/ k = -1
    BY <2>2, Units
  <2>4. QED
    BY <1>1, <1>3, <2>3
<1>6. a[1] = b[1]
  BY <1>1, <1>5
<1>7. QED
  BY <1>1, <1>5, <1>6

\* A fraction in lowest terms has the value it was made of.
LEMMA RatioValue ==
  ASSUME NEW n \in Int, NEW d \in Int, d # 0
  PROVE  Ratio(n, d) \in Rationals /\ Ratio(n, d)[1] * d = n * Ratio(n, d)[2]
<1> DEFINE a == Magnitude(n)
           b == Magnitude(d)
           g == Gcd[<<a, b>>]
           s == IF d < 0 THEN -1 ELSE 1
<1>1. a \in Nat /\ b \in Nat /\ b # 0 /\ s \in Int /\ s * s = 1 /\ d = s * b
  BY DEF Magnitude
<1>2. PICK p \in Nat, q \in Nat, x \in Int, y \in Int :
        g \in Nat /\ a = g * p /\ b = g * q /\ (x * a) + (y * b) = g
  <2> HIDE DEF a, b
  <2>1. IsGcd(g, a, b)
    BY <1>1, GcdFacts
  <2>2. QED
    BY <2>1 DEF IsGcd, Divides
<1>3. g # 0 /\ q # 0
  BY <1>1, <1>2
<1>4. PICK m \in Int : n = g * m /\ Magnitude(m) = p
  <2>1. n = a \/ n = -a
    BY DEF Magnitude
  <2>2. CASE n = a
    BY <1>2, <2>2 DEF Magnitude
  <2>3. CASE n = -a
    <3>1. n = g * (-p) /\ -p \in Int /\ Magnitude(-p) = p
      BY <1>2, <2>3 DEF Magnitude
    <3>2. QED
      BY <3>1
  <2>4. QED
    BY <2>1, <2>2, <2>3
<1>5. Magnitude(s * m) = p
  BY <1>4 DEF Magnitude
<1>6. s = 1 \/ s = -1
  OBVIOUS
<1>7. d = 1 => s = 1 /\ b = 1
  BY DEF Magnitude
<1>8. Ratio(n, d) = IF d = 1 THEN <<n, 1>> ELSE <<s * (n \div g), s * (d \div g)>>
  BY DEF Ratio
<1> HIDE DEF a, b, g, s
<1>9. n \div g = m /\ s * (d \div g) = q
  <2>1. d = g * (s * q) /\ s * q \in Int
    BY <1>1, <1>2
  <2>2. d \div g = s * q
    BY <1>2, <1>3, <2>1
  <2>3. n \div g = m
    BY <1>2, <1>3, <1>4
  <2>4. QED
    BY <1>2, <1>6, <2>2, <2>3
<1>10. Gcd[<<p, q>>] = 1
  <2>1. g * ((x * p) + (y * q)) = g * 1
    BY <1>2
  <2>2. (x * p) + (y * q) = 1
    BY <1>2, <1>3, <2>1
  <2>3. QED
    BY <2>2, Coprime
<1>11. Ratio(n, d) = <<s * m, q>>
  <2>1. CASE d = 1
    <3>1. g * q = 1
      BY <1>2, <1>7, <2>1
    <3>2. g = 1 /\ q = 1
      BY <1>2, <3>1
    <3>3. QED
      BY <1>4, <1>7, <1>8, <2>1, <3>2
  <2>2. CASE d # 1
    BY <1>8, <1>9, <2>2
  <2>3. QED
    BY <2>1, <2>2
<1>12. (s * m) * d = n * q
  <2>1. (s * m) * (s * b) = (s * s) * (m * b)
    BY <1>1
  <2>2. QED
    BY <1>1, <1>2, <1>4, <2>1
<1>13. QED
  BY <1>1, <1>3, <1>5, <1>10, <1>11, <1>12 DEF Rationals
-----------------------------------------------------------------------------
\* r has the value of the fraction n over d.
Is(r, n, d) == r \in Rationals /\ n \in Int /\ d \in Int /\ d # 0 /\ r[1] * d = n * r[2]

\* A rational is the fraction of its two numbers.
LEMMA NumbersOf ==
  ASSUME NEW a \in Rationals
  PROVE  a[1] \in Int /\ a[2] \in Nat /\ a[2] # 0 /\ a = <<a[1], a[2]>> /\ Is(a, a[1], a[2])
BY DEF Rationals, Is

\* A fraction is one number only.
LEMMA IsOneNumber ==
  ASSUME NEW a, NEW b, NEW n, NEW d, NEW m, NEW e, Is(a, n, d), Is(b, m, e), n * e = m * d
  PROVE  a = b
<1>1. /\ a \in Rationals /\ a[1] \in Int /\ a[2] \in Nat /\ a[2] # 0 /\ a[1] * d = n * a[2]
      /\ b \in Rationals /\ b[1] \in Int /\ b[2] \in Nat /\ b[2] # 0 /\ b[1] * e = m * b[2]
      /\ n \in Int /\ d \in Int /\ d # 0 /\ m \in Int /\ e \in Int /\ e # 0
  BY NumbersOf DEF Is
<1>2. (d * e) * (a[1] * b[2]) = (d * e) * (b[1] * a[2])
  <2>1. (d * e) * (a[1] * b[2]) = (a[1] * d) * (e * b[2])
    BY <1>1
  <2>2. (n * a[2]) * (e * b[2]) = (n * e) * (a[2] * b[2])
    BY <1>1
  <2>3. (m * d) * (a[2] * b[2]) = (m * b[2]) * (d * a[2])
    BY <1>1
  <2>4. (b[1] * e) * (d * a[2]) = (d * e) * (b[1] * a[2])
    BY <1>1
  <2>5. QED
    BY <1>1, <2>1, <2>2, <2>3, <2>4
<1>3. d * e \in Int /\ d * e # 0 /\ a[1] * b[2] \in Int /\ b[1] * a[2] \in Int
  BY <1>1
<1>4. a[1] * b[2] = b[1] * a[2]
  BY <1>2, <1>3, Cancel
<1>5. QED
  BY <1>1, <1>4, SameValue

\* The number that is made of a fraction has its value.
LEMMA RatioIs ==
  ASSUME NEW n \in Int, NEW d \in Int, d # 0
  PROVE  Is(Ratio(n, d), n, d)
BY RatioValue DEF Is

\* Which fraction a sum, a difference, a product and a quotient are.
LEMMA ArithmeticIs ==
  ASSUME NEW a, NEW b, NEW n, NEW d, NEW m, NEW e, Is(a, n, d), Is(b, m, e)
  PROVE  /\ Is(a (+) b, (n * e) + (m * d), d * e)
         /\ Is(a (-) b, (n * e) - (m * d), d * e)
         /\ Is(a (.) b, n * m, d * e)
         /\ Is(Neg(a), -n, d)
         /\ m # 0 => Is(a (/) b, n * e, d * m)
<1>1. /\ a \in Rationals /\ a[1] \in Int /\ a[2] \in Nat /\ a[2] # 0 /\ a[1] * d = n * a[2]
      /\ b \in Rationals /\ b[1] \in Int /\ b[2] \in Nat /\ b[2] # 0 /\ b[1] * e = m * b[2]
      /\ n \in Int /\ d \in Int /\ d # 0 /\ m \in Int /\ e \in Int /\ e # 0
  BY NumbersOf DEF Is
<1>2. ASSUME NEW p \in Int, NEW q \in Int, NEW r \in Int, NEW s \in Int, q # 0, s # 0, p * s = r * q
      PROVE  Is(Ratio(p, q), r, s)
  <2>1. /\ Ratio(p, q) \in Rationals /\ Ratio(p, q)[1] * q = p * Ratio(p, q)[2]
        /\ Ratio(p, q)[1] \in Int /\ Ratio(p, q)[2] \in Int
    BY <1>2, RatioValue, NumbersOf
  <2> DEFINE u == Ratio(p, q)[1]
             v == Ratio(p, q)[2]
  <2>2. u \in Int /\ v \in Int /\ u * q = p * v
    BY <2>1
  <2> HIDE DEF u, v
  <2>3. q * (u * s) = q * (r * v)
    <3>1. q * (u * s) = (u * q) * s
      BY <1>2, <2>2
    <3>2. (p * v) * s = (p * s) * v
      BY <1>2, <2>2
    <3>3. (r * q) * v = q * (r * v)
      BY <1>2, <2>2
    <3>4. QED
      BY <1>2, <2>2, <3>1, <3>2, <3>3
  <2>4. u * s = r * v
    BY <1>2, <2>2, <2>3, Cancel
  <2>5. QED
    BY <1>2, <2>1, <2>4 DEF Is, u, v
<1>3. d * e \in Int /\ d * e # 0 /\ a[2] * b[2] \in Int /\ a[2] * b[2] # 0
  BY <1>1
<1> DEFINE x == a[1]
           y == a[2]
           z == b[1]
           w == b[2]
<1>4. /\ x \in Int /\ y \in Int /\ z \in Int /\ w \in Int /\ x * d = n * y /\ z * e = m * w
      /\ n \in Int /\ d \in Int /\ m \in Int /\ e \in Int
  BY <1>1
<1>5. Is(a (.) b, n * m, d * e)
  <2>1. (x * z) * (d * e) = (n * m) * (y * w)
    <3> HIDE DEF x, y, z, w
    <3>1. (x * z) * (d * e) = (x * d) * (z * e)
      BY <1>4
    <3>2. (n * y) * (m * w) = (n * m) * (y * w)
      BY <1>4
    <3>3. QED
      BY <1>4, <3>1, <3>2
  <2>7. x * z \in Int /\ y * w \in Int /\ n * m \in Int /\ d * e \in Int /\ y * w # 0 /\ d * e # 0
    BY <1>1, <1>3, <1>4
  <2>8. Is(Ratio(x * z, y * w), n * m, d * e)
    <3> HIDE DEF x, y, z, w, Is
    <3>1. QED
      BY <1>2, <2>1, <2>7
  <2>9. QED
    BY <2>8 DEF \odot
<1>6. Is(a (+) b, (n * e) + (m * d), d * e)
  <2>1. ((x * w) + (z * y)) * (d * e) = ((n * e) + (m * d)) * (y * w)
    <3> HIDE DEF x, y, z, w
    <3>1. ((x * w) + (z * y)) * (d * e) = ((x * d) * (w * e)) + ((z * e) * (y * d))
      BY <1>4
    <3>2. ((n * y) * (w * e)) + ((m * w) * (y * d)) = ((n * e) + (m * d)) * (y * w)
      BY <1>4
    <3>3. QED
      BY <1>4, <3>1, <3>2
  <2>7. (x * w) + (z * y) \in Int /\ y * w \in Int /\ (n * e) + (m * d) \in Int /\ d * e \in Int /\ y * w # 0 /\ d * e # 0
    BY <1>1, <1>3, <1>4
  <2>8. Is(Ratio((x * w) + (z * y), y * w), (n * e) + (m * d), d * e)
    <3> HIDE DEF x, y, z, w, Is
    <3>1. QED
      BY <1>2, <2>1, <2>7
  <2>9. QED
    BY <2>8 DEF \oplus
<1>7. Is(a (-) b, (n * e) - (m * d), d * e)
  <2>1. ((x * w) - (z * y)) * (d * e) = ((n * e) - (m * d)) * (y * w)
    <3> HIDE DEF x, y, z, w
    <3>1. ((x * w) - (z * y)) * (d * e) = ((x * d) * (w * e)) - ((z * e) * (y * d))
      BY <1>4
    <3>2. ((n * y) * (w * e)) - ((m * w) * (y * d)) = ((n * e) - (m * d)) * (y * w)
      BY <1>4
    <3>3. QED
      BY <1>4, <3>1, <3>2
  <2>7. (x * w) - (z * y) \in Int /\ y * w \in Int /\ (n * e) - (m * d) \in Int /\ d * e \in Int /\ y * w # 0 /\ d * e # 0
    BY <1>1, <1>3, <1>4
  <2>8. Is(Ratio((x * w) - (z * y), y * w), (n * e) - (m * d), d * e)
    <3> HIDE DEF x, y, z, w, Is
    <3>1. QED
      BY <1>2, <2>1, <2>7
  <2>9. QED
    BY <2>8 DEF \ominus
<1>8. ASSUME m # 0 PROVE Is(a (/) b, n * e, d * m)
  <2>1. (x * w) * (d * m) = (n * e) * (y * z)
    <3> HIDE DEF x, y, z, w
    <3>1. (x * w) * (d * m) = (x * d) * (m * w)
      BY <1>4
    <3>2. (n * y) * (z * e) = (n * e) * (y * z)
      BY <1>4
    <3>3. QED
      BY <1>4, <3>1, <3>2
  <2>2. z # 0
    <3> HIDE DEF x, y, z, w
    <3>1. y \in Nat /\ w # 0 /\ m * w # 0
      BY <1>1, <1>4, <1>8 DEF y, w
    <3>2. QED
      BY <1>4, <3>1
  <2>7. x * w \in Int /\ y * z \in Int /\ n * e \in Int /\ d * m \in Int /\ y * z # 0 /\ d * m # 0
    BY <1>1, <1>3, <1>4, <1>8, <2>2
  <2>8. Is(Ratio(x * w, y * z), n * e, d * m)
    <3> HIDE DEF x, y, z, w, Is
    <3>1. QED
      BY <1>2, <2>1, <2>7
  <2>9. QED
    BY <2>8 DEF \oslash
<1>9. Is(Neg(a), -n, d)
  <2>1. (-x) * d = (-n) * y
    <3> HIDE DEF x, y
    <3>1. (-x) * d = -(x * d) /\ (-n) * y = -(n * y)
      BY <1>4
    <3>2. QED
      BY <1>4, <3>1
  <2>2. Magnitude(-x) = Magnitude(x)
    BY <1>4 DEF Magnitude
  <2>3. QED
    BY <1>1, <1>4, <2>1, <2>2 DEF Is, Neg, Rationals
<1>10. QED
  BY <1>5, <1>6, <1>7, <1>8, <1>9
-----------------------------------------------------------------------------

\* Whole numbers, 0 and 1 are rationals.
LEMMA Wholes ==
  /\ \A n \in Int : Whole(n) \in Rationals /\ Is(Whole(n), n, 1)
  /\ Zero \in Rationals /\ Is(Zero, 0, 1) /\ One \in Rationals /\ Is(One, 1, 1)
<1>1. \A n \in Int : Ratio(n, 1) = Whole(n)
  BY DEF Ratio, Whole
<1>2. \A n \in Int : Whole(n) \in Rationals /\ Is(Whole(n), n, 1)
  BY <1>1, RatioIs DEF Is
<1>3. QED
  BY <1>2 DEF Zero, One

\* The rationals are a field.
LEMMA Closed ==
  ASSUME NEW a \in Rationals, NEW b \in Rationals
  PROVE  /\ a (+) b \in Rationals /\ a (-) b \in Rationals /\ a (.) b \in Rationals
         /\ Neg(a) \in Rationals
         /\ b # Zero => a (/) b \in Rationals
<1>1. PICK n \in Int, d \in Int, m \in Int, e \in Int :
        d # 0 /\ e # 0 /\ Is(a, n, d) /\ Is(b, m, e)
  BY NumbersOf
<1>2. m = 0 => b = Zero
  <2>1. ASSUME m = 0 PROVE b = Zero
    <3>1. Is(Zero, 0, 1) /\ m * 1 = 0 * e
      BY <2>1, Wholes
    <3>2. QED
      BY <1>1, <3>1, IsOneNumber
  <2>2. QED
    BY <2>1
<1>3. /\ Is(a (+) b, (n * e) + (m * d), d * e) /\ Is(a (-) b, (n * e) - (m * d), d * e)
      /\ Is(a (.) b, n * m, d * e) /\ Is(Neg(a), -n, d)
      /\ m # 0 => Is(a (/) b, n * e, d * m)
  BY <1>1, ArithmeticIs
<1>4. QED
  BY <1>2, <1>3 DEF Is

\* Sums and products do not depend on the order.
LEMMA Commutes ==
  ASSUME NEW a \in Rationals, NEW b \in Rationals
  PROVE  a (+) b = b (+) a /\ a (.) b = b (.) a
<1>1. PICK n \in Int, d \in Int, m \in Int, e \in Int : Is(a, n, d) /\ Is(b, m, e)
  BY NumbersOf
<1>2. Is(a (+) b, (n * e) + (m * d), d * e) /\ Is(b (+) a, (m * d) + (n * e), e * d)
  BY <1>1, ArithmeticIs
<1>3. Is(a (.) b, n * m, d * e) /\ Is(b (.) a, m * n, e * d)
  BY <1>1, ArithmeticIs
<1>4. /\ ((n * e) + (m * d)) * (e * d) = ((m * d) + (n * e)) * (d * e)
      /\ (n * m) * (e * d) = (m * n) * (d * e)
  OBVIOUS
<1>5. QED
  BY <1>2, <1>3, <1>4, IsOneNumber

\* Sums and products can be regrouped, and products distributed.
LEMMA Associates ==
  ASSUME NEW a \in Rationals, NEW b \in Rationals, NEW c \in Rationals
  PROVE  /\ (a (+) b) (+) c = a (+) (b (+) c)
         /\ (a (.) b) (.) c = a (.) (b (.) c)
         /\ a (.) (b (+) c) = (a (.) b) (+) (a (.) c)
<1>1. PICK n \in Int, d \in Int, m \in Int, e \in Int, k \in Int, f \in Int :
        Is(a, n, d) /\ Is(b, m, e) /\ Is(c, k, f)
  BY NumbersOf
<1>2. /\ Is(a (+) b, (n * e) + (m * d), d * e) /\ Is(b (+) c, (m * f) + (k * e), e * f)
      /\ Is(a (.) b, n * m, d * e) /\ Is(b (.) c, m * k, e * f) /\ Is(a (.) c, n * k, d * f)
  BY <1>1, ArithmeticIs
<1>3. /\ Is((a (+) b) (+) c, (((n * e) + (m * d)) * f) + (k * (d * e)), (d * e) * f)
      /\ Is(a (+) (b (+) c), (n * (e * f)) + (((m * f) + (k * e)) * d), d * (e * f))
  BY <1>1, <1>2, ArithmeticIs
<1>4. /\ Is((a (.) b) (.) c, (n * m) * k, (d * e) * f)
      /\ Is(a (.) (b (.) c), n * (m * k), d * (e * f))
  BY <1>1, <1>2, ArithmeticIs
<1>5. /\ Is(a (.) (b (+) c), n * ((m * f) + (k * e)), d * (e * f))
      /\ Is((a (.) b) (+) (a (.) c), ((n * m) * (d * f)) + ((n * k) * (d * e)), (d * e) * (d * f))
  BY <1>1, <1>2, ArithmeticIs
<1>6. /\ ((((n * e) + (m * d)) * f) + (k * (d * e))) * (d * (e * f))
           = ((n * (e * f)) + (((m * f) + (k * e)) * d)) * ((d * e) * f)
      /\ ((n * m) * k) * (d * (e * f)) = (n * (m * k)) * ((d * e) * f)
      /\ (n * ((m * f) + (k * e))) * ((d * e) * (d * f))
           = (((n * m) * (d * f)) + ((n * k) * (d * e))) * (d * (e * f))
  OBVIOUS
<1>7. QED
  BY <1>3, <1>4, <1>5, <1>6, IsOneNumber

\* What 0 and 1 do.
LEMMA Neutral ==
  ASSUME NEW a \in Rationals
  PROVE  /\ a (+) Zero = a /\ Zero (+) a = a /\ a (.) One = a /\ One (.) a = a
         /\ a (.) Zero = Zero /\ Zero (.) a = Zero
         /\ a (+) Neg(a) = Zero /\ a (-) a = Zero /\ Neg(Neg(a)) = a
<1>1. PICK n \in Int, d \in Int : d # 0 /\ Is(a, n, d)
  BY NumbersOf
<1>2. Is(Zero, 0, 1) /\ Is(One, 1, 1)
  BY Wholes
<1>3. Is(Neg(a), -n, d) /\ Is(Neg(Neg(a)), -(-n), d)
  BY <1>1, ArithmeticIs
<1>4. /\ Is(a (+) Zero, (n * 1) + (0 * d), d * 1) /\ Is(a (.) One, n * 1, d * 1)
      /\ Is(a (.) Zero, n * 0, d * 1) /\ Is(a (+) Neg(a), (n * d) + ((-n) * d), d * d)
      /\ Is(a (-) a, (n * d) - (n * d), d * d)
  BY <1>1, <1>2, <1>3, ArithmeticIs
<1>5. /\ ((n * 1) + (0 * d)) * d = n * (d * 1) /\ (n * 1) * d = n * (d * 1)
      /\ (n * 0) * 1 = 0 * (d * 1) /\ ((n * d) + ((-n) * d)) * 1 = 0 * (d * d)
      /\ ((n * d) - (n * d)) * 1 = 0 * (d * d) /\ (-(-n)) * d = n * d
  OBVIOUS
<1>6. /\ a (+) Zero = a /\ a (.) One = a /\ a (.) Zero = Zero
      /\ a (+) Neg(a) = Zero /\ a (-) a = Zero /\ Neg(Neg(a)) = a
  BY <1>1, <1>2, <1>3, <1>4, <1>5, IsOneNumber
<1>7. QED
  BY <1>6, Wholes, Commutes

\* What a sign does to sums and products.
LEMMA Signs ==
  ASSUME NEW a \in Rationals, NEW b \in Rationals
  PROVE  /\ a (-) b = a (+) Neg(b)
         /\ Neg(a (+) b) = Neg(a) (+) Neg(b)
         /\ Neg(a) (.) b = Neg(a (.) b) /\ a (.) Neg(b) = Neg(a (.) b)
<1>1. PICK n \in Int, d \in Int, m \in Int, e \in Int : Is(a, n, d) /\ Is(b, m, e)
  BY NumbersOf
<1>2. Is(Neg(a), -n, d) /\ Is(Neg(b), -m, e) /\ Is(a (.) b, n * m, d * e)
      /\ Is(a (+) b, (n * e) + (m * d), d * e)
  BY <1>1, ArithmeticIs
<1>3. /\ Is(a (-) b, (n * e) - (m * d), d * e) /\ Is(a (+) Neg(b), (n * e) + ((-m) * d), d * e)
      /\ Is(Neg(a (+) b), -((n * e) + (m * d)), d * e)
      /\ Is(Neg(a) (+) Neg(b), ((-n) * e) + ((-m) * d), d * e)
      /\ Is(Neg(a) (.) b, (-n) * m, d * e) /\ Is(a (.) Neg(b), n * (-m), d * e)
      /\ Is(Neg(a (.) b), -(n * m), d * e)
  BY <1>1, <1>2, ArithmeticIs
<1>4. /\ ((n * e) - (m * d)) * (d * e) = ((n * e) + ((-m) * d)) * (d * e)
      /\ (-((n * e) + (m * d))) * (d * e) = (((-n) * e) + ((-m) * d)) * (d * e)
      /\ ((-n) * m) * (d * e) = (-(n * m)) * (d * e) /\ (n * (-m)) * (d * e) = (-(n * m)) * (d * e)
  OBVIOUS
<1>5. QED
  BY <1>3, <1>4, IsOneNumber

\* Division undoes multiplication.
LEMMA Quotients ==
  ASSUME NEW a \in Rationals, NEW b \in Rationals, b # Zero
  PROVE  (a (/) b) (.) b = a /\ (a (.) b) (/) b = a
<1>1. PICK n \in Int, d \in Int, m \in Int, e \in Int :
        d # 0 /\ e # 0 /\ Is(a, n, d) /\ Is(b, m, e)
  BY NumbersOf
<1>2. m # 0
  <2>1. ASSUME m = 0 PROVE b = Zero
    <3>1. Is(Zero, 0, 1) /\ m * 1 = 0 * e
      BY <2>1, Wholes
    <3>2. QED
      BY <1>1, <3>1, IsOneNumber
  <2>2. QED
    BY <2>1
<1>3. Is(a (/) b, n * e, d * m) /\ Is(a (.) b, n * m, d * e)
  BY <1>1, <1>2, ArithmeticIs
<1>4. Is((a (/) b) (.) b, (n * e) * m, (d * m) * e) /\ Is((a (.) b) (/) b, (n * m) * e, (d * e) * m)
  BY <1>1, <1>2, <1>3, ArithmeticIs
<1>5. ((n * e) * m) * d = n * ((d * m) * e) /\ ((n * m) * e) * d = n * ((d * e) * m)
  OBVIOUS
<1>6. QED
  BY <1>1, <1>4, <1>5, IsOneNumber

\* The laws one by one, each for all numbers.
LEMMA SumClosed == \A a, b \in Rationals : a (+) b \in Rationals
BY Closed

\* A product is a rational.
LEMMA ProductClosed == \A a, b \in Rationals : a (.) b \in Rationals
BY Closed

\* The order of a sum.
LEMMA SumCommutes == \A a, b \in Rationals : a (+) b = b (+) a
BY Commutes

\* The order of a product.
LEMMA ProductCommutes == \A a, b \in Rationals : a (.) b = b (.) a
BY Commutes

\* The grouping of a sum.
LEMMA SumAssociates == \A a, b, c \in Rationals : (a (+) b) (+) c = a (+) (b (+) c)
BY Associates

\* The grouping of a product.
LEMMA ProductAssociates == \A a, b, c \in Rationals : (a (.) b) (.) c = a (.) (b (.) c)
BY Associates

\* A product with a sum.
LEMMA Distributes == \A a, b, c \in Rationals : a (.) (b (+) c) = (a (.) b) (+) (a (.) c)
BY Associates

-----------------------------------------------------------------------------
(***************************************************************************)
(* The integral action of the controller.                                  *)
(***************************************************************************)

\* The numbers of the integration methods are the numbers.
LEMMA SameNumbers ==
  /\ \A n : Method!Whole(n) = Whole(n)
  /\ \A n, d : Method!Ratio(n, d) = Ratio(n, d)
  /\ \A a, b : Method!\oplus(a, b) = a (+) b
  /\ \A a, b : Method!\odot(a, b) = a (.) b
<1>1. Method!Gcd = Gcd
  BY DEF Method!Gcd, Gcd
<1>2. \A n, d : Method!Ratio(n, d) = Ratio(n, d)
  BY <1>1 DEF Method!Ratio, Ratio, Method!Magnitude, Magnitude
<1>3. QED
  BY <1>2 DEF Method!Whole, Whole, Method!\oplus, \oplus, Method!\odot, \odot

\* The weighted mean of the changes x, at the rates of the step before, and y, at
\* the new ones.
Mean(x, y) == ((x (+) y) (+) ((y (+) y) (.) Whole(2))) (.) Ratio(1, 6)

\* A submodel with a state per controller.
Submodel(m) ==
  /\ m = [u |-> m.u, s |-> m.s, R |-> m.R, time |-> m.time]
  /\ m.s = [k \in 0 .. 1 |-> m.s[k]] /\ m.R = [k \in 0 .. 1 |-> m.R[k]]

\* A step of the controller: its first stage has the rates of the step before.
LEMMA StepOfController ==
  ASSUME NEW m, NEW h, NEW u, Submodel(m)
  PROVE  /\ Submodel(LoopStep(m, h, u))
         /\ \A k \in 0 .. 1 :
              /\ LoopStep(m, h, u).s[k] = m.s[k] (+) Mean(m.R[k] (.) h, PositionError(u, k) (.) h)
              /\ LoopStep(m, h, u).R[k] = PositionError(u, k)
<1> DEFINE w == [m EXCEPT !.u = u]
           R == [k \in 0 .. 1 |-> PositionError(u, k)]
           e(k) == PositionError(u, k) (.) h
           q1 == Method!Times(m.R, h)
           q == Method!Times(R, h)
           all == Method!Plus(Method!Plus(q1, q), Method!Times(Method!Plus(q, q), Method!Whole(2)))
           s == Method!Plus(m.s, Method!Times(all, Method!Ratio(1, 6)))
<1>1. w.u = u /\ w.s = m.s /\ w.R = m.R /\ w.time = m.time
  BY DEF Submodel
<1>2. LoopStep(m, h, u) = Method!RungeKutta4(w, h)
  BY DEF LoopStep
<1> HIDE DEF w
<1>3. PICK t : LoopStep(m, h, u) = [u |-> u, s |-> s, R |-> R, time |-> t]
  <2>1. Method!RungeKutta4(w, h)
          = [u |-> w.u, s |-> Method!Plus(w.s, Method!Times(all, Method!Ratio(1, 6))),
             R |-> R, time |-> Method!\oplus(w.time, h)]
    <3> HIDE DEF all
    <3>1. QED
      BY <1>1 DEF Method!RungeKutta4, Method!Evaluated, LoopRates, all
  <2>2. QED
    BY <1>1, <1>2, <2>1
<1>4. s = [k \in 0 .. 1 |-> m.s[k] (+) Mean(m.R[k] (.) h, e(k))]
  <2>1. q1 = [k \in 0 .. 1 |-> m.R[k] (.) h] /\ q = [k \in 0 .. 1 |-> e(k)]
    BY SameNumbers DEF Method!Times, Submodel
  <2> HIDE DEF q1, q, e
  <2>2. all = [k \in 0 .. 1 |-> ((m.R[k] (.) h) (+) e(k)) (+) ((e(k) (+) e(k)) (.) Whole(2))]
    BY <2>1, SameNumbers DEF Method!Times, Method!Plus
  <2> HIDE DEF all
  <2>3. QED
    BY <2>2, SameNumbers DEF Method!Times, Method!Plus, Submodel, Mean
<1> HIDE DEF s
<1>5. \A k \in 0 .. 1 : s[k] = m.s[k] (+) Mean(m.R[k] (.) h, e(k)) /\ R[k] = PositionError(u, k)
  BY <1>4
<1>6. s = [k \in 0 .. 1 |-> s[k]] /\ R = [k \in 0 .. 1 |-> R[k]]
  BY <1>4
<1> HIDE DEF R, e
<1>7. LoopStep(m, h, u).s = s /\ LoopStep(m, h, u).R = R /\ Submodel(LoopStep(m, h, u))
  BY <1>3, <1>6 DEF Submodel
<1>8. QED
  BY <1>5, <1>7, Zenon DEF e

\* Two numbers have a common denominator.
LEMMA CommonDenominator ==
  ASSUME NEW a \in Rationals, NEW b \in Rationals
  PROVE  \E n, m, d \in Int : Is(a, n, d) /\ Is(b, m, d)
<1>1. PICK n \in Int, d \in Int, m \in Int, e \in Int : Is(a, n, d) /\ Is(b, m, e)
  BY NumbersOf
<1>2. /\ a \in Rationals /\ a[1] \in Int /\ a[2] \in Int /\ a[1] * d = n * a[2] /\ d # 0
      /\ b \in Rationals /\ b[1] \in Int /\ b[2] \in Int /\ b[1] * e = m * b[2] /\ e # 0
  BY <1>1, NumbersOf DEF Is
<1>3. a[1] * (d * e) = (n * e) * a[2] /\ b[1] * (d * e) = (m * d) * b[2]
  <2>1. a[1] * (d * e) = (a[1] * d) * e /\ (n * a[2]) * e = (n * e) * a[2]
    BY <1>2
  <2>2. b[1] * (d * e) = (b[1] * e) * d /\ (m * b[2]) * d = (m * d) * b[2]
    BY <1>2
  <2>3. QED
    BY <1>2, <2>1, <2>2
<1>4. Is(a, n * e, d * e) /\ Is(b, m * d, d * e)
  BY <1>2, <1>3 DEF Is
<1>5. QED
  BY <1>4

\* Sums of fractions with one denominator.
LEMMA SumIs ==
  ASSUME NEW a, NEW b, NEW n, NEW m, NEW d, Is(a, n, d), Is(b, m, d)
  PROVE  Is(a (+) b, n + m, d) /\ Is(a (-) b, n - m, d) /\ Is(Neg(a), -n, d)
<1>1. n \in Int /\ m \in Int /\ d \in Int /\ d # 0
  BY DEF Is
<1>2. Is(a (+) b, (n * d) + (m * d), d * d) /\ Is(a (-) b, (n * d) - (m * d), d * d)
      /\ Is(Neg(a), -n, d)
  BY ArithmeticIs
<1>3. ASSUME NEW r, NEW k \in Int, Is(r, k * d, d * d)
      PROVE  Is(r, k, d)
  <2>1. r \in Rationals /\ r[1] \in Int /\ r[2] \in Int /\ r[1] * (d * d) = (k * d) * r[2]
    BY <1>3, NumbersOf DEF Is
  <2>2. d * (r[1] * d) = d * (k * r[2])
    BY <1>1, <2>1
  <2>3. r[1] * d \in Int /\ k * r[2] \in Int
    BY <1>1, <2>1
  <2>4. r[1] * d = k * r[2]
    BY <1>1, <2>2, <2>3, Cancel
  <2>5. QED
    BY <1>1, <2>1, <2>4 DEF Is
<1>4. (n * d) + (m * d) = (n + m) * d /\ (n * d) - (m * d) = (n - m) * d
  BY <1>1
<1>5. QED
  BY <1>1, <1>2, <1>3, <1>4

\* The weighted mean of a step: x is the change at the rates of the step before,
\* y that at the new ones.
LEMMA WeightedMean ==
  ASSUME NEW x \in Rationals, NEW y \in Rationals
  PROVE  /\ Mean(x, y) = (x (.) Ratio(1, 6)) (+) (y (.) Ratio(5, 6))
         /\ (x (.) Ratio(1, 6)) (+) (x (.) Ratio(5, 6)) = x
         /\ x (+) ((x (.) Ratio(1, 6)) (+) (y (.) Ratio(5, 6)))
              = (x (.) Ratio(7, 6)) (+) (y (.) Ratio(5, 6))
<1>1. PICK n \in Int, m \in Int, d \in Int : Is(x, n, d) /\ Is(y, m, d)
  BY CommonDenominator
<1>2. /\ Is(Whole(2), 2, 1) /\ Is(Ratio(1, 6), 1, 6) /\ Is(Ratio(7, 6), 7, 6) /\ Is(Ratio(5, 6), 5, 6)
  BY Wholes, RatioIs
<1>3. /\ Is(x (.) Ratio(1, 6), n * 1, d * 6) /\ Is(y (.) Ratio(5, 6), m * 5, d * 6)
      /\ Is(x (.) Ratio(5, 6), n * 5, d * 6) /\ Is(x (.) Ratio(7, 6), n * 7, d * 6)
  BY <1>1, <1>2, ArithmeticIs
<1>4. /\ Is((x (.) Ratio(1, 6)) (+) (y (.) Ratio(5, 6)), (n * 1) + (m * 5), d * 6)
      /\ Is((x (.) Ratio(1, 6)) (+) (x (.) Ratio(5, 6)), (n * 1) + (n * 5), d * 6)
      /\ Is((x (.) Ratio(7, 6)) (+) (y (.) Ratio(5, 6)), (n * 7) + (m * 5), d * 6)
  BY <1>3, SumIs
<1>5. Is(x (+) ((x (.) Ratio(1, 6)) (+) (y (.) Ratio(5, 6))),
         (n * (d * 6)) + (((n * 1) + (m * 5)) * d), d * (d * 6))
  BY <1>1, <1>4, ArithmeticIs
<1>6. Is(Mean(x, y),
         (((n + m) * (d * 1)) + (((m + m) * 2) * d)) * 1, (d * (d * 1)) * 6)
  <2>1. Is(x (+) y, n + m, d) /\ Is(y (+) y, m + m, d)
    BY <1>1, SumIs
  <2>2. Is((y (+) y) (.) Whole(2), (m + m) * 2, d * 1)
    BY <1>2, <2>1, ArithmeticIs
  <2>3. Is((x (+) y) (+) ((y (+) y) (.) Whole(2)), ((n + m) * (d * 1)) + (((m + m) * 2) * d), d * (d * 1))
    BY <2>1, <2>2, ArithmeticIs
  <2>4. QED
    BY <1>2, <2>3, ArithmeticIs DEF Mean
<1>7. /\ ((((n + m) * (d * 1)) + (((m + m) * 2) * d)) * 1) * (d * 6)
           = ((n * 1) + (m * 5)) * ((d * (d * 1)) * 6)
      /\ ((n * 1) + (n * 5)) * d = n * (d * 6)
      /\ ((n * (d * 6)) + (((n * 1) + (m * 5)) * d)) * (d * 6)
           = ((n * 7) + (m * 5)) * (d * (d * 6))
  OBVIOUS
<1>8. QED
  BY <1>1, <1>4, <1>5, <1>6, <1>7, IsOneNumber

\* The step size is a factor of the change.
LEMMA SixthsFactor ==
  ASSUME NEW h \in Rationals, NEW a \in Rationals, NEW b \in Rationals
  PROVE  ((a (.) h) (.) Ratio(7, 6)) (+) ((b (.) h) (.) Ratio(5, 6))
           = h (.) ((a (.) Ratio(7, 6)) (+) (b (.) Ratio(5, 6)))
<1>1. Ratio(7, 6) \in Rationals /\ Ratio(5, 6) \in Rationals
  BY RatioIs DEF Is
<1>2. ASSUME NEW c \in Rationals, NEW r \in Rationals
      PROVE  ((a (.) h) (.) c) (+) ((b (.) h) (.) r) = h (.) ((a (.) c) (+) (b (.) r))
  BY SumClosed, ProductClosed, ProductCommutes, ProductAssociates, Distributes
<1>3. QED
  BY <1>1, <1>2

\* The same for the errors and the gains of both controllers.
LEMMA ErrorsLag ==
  ASSUME NEW P, NEW h \in Rationals, NEW u1, NEW u2,
         \A k \in 0 .. 1 : /\ PositionError(u1, k) \in Rationals /\ PositionError(u2, k) \in Rationals
                           /\ Kp(P, k) \in Rationals /\ Kd(P, k) \in Rationals
  PROVE  LoopLaw(P, h, u1, u2)
<1> DEFINE rest == [k \in 0 .. 1 |-> Zero]
           start == Method!Evaluated(u1, rest, Zero)
           one == LoopStep(start, h, u1)
           two == LoopStep(one, h, u2)
           X(k) == PositionError(u1, k) (.) h
           Y(k) == PositionError(u2, k) (.) h
           Lagged(k) == h (.) ((PositionError(u1, k) (.) Ratio(7, 6))
                                 (+) (PositionError(u2, k) (.) Ratio(5, 6)))
<1>1. \A k \in 0 .. 1 : PositionError(u1, k) \in Rationals /\ PositionError(u2, k) \in Rationals
  OBVIOUS
<1>2. \A k \in 0 .. 1 : X(k) \in Rationals /\ Y(k) \in Rationals
  BY <1>1, ProductClosed
<1>3. Submodel(start) /\ \A k \in 0 .. 1 : start.s[k] = Zero /\ start.R[k] = PositionError(u1, k)
  <2>1. start = [u |-> u1, s |-> rest, R |-> [k \in 0 .. 1 |-> PositionError(u1, k)], time |-> Zero]
    BY DEF Method!Evaluated, LoopRates
  <2> HIDE DEF start
  <2>2. QED
    BY <2>1 DEF Submodel
<1> HIDE DEF start
<1>4. Submodel(one) /\ \A k \in 0 .. 1 : one.s[k] = X(k) /\ one.R[k] = PositionError(u1, k)
  <2>1. /\ Submodel(one)
        /\ \A k \in 0 .. 1 : /\ one.s[k] = start.s[k] (+) Mean(start.R[k] (.) h, X(k))
                             /\ one.R[k] = PositionError(u1, k)
    BY <1>3, StepOfController
  <2>2. \A k \in 0 .. 1 : Zero (+) Mean(X(k), X(k)) = X(k)
    BY <1>2, WeightedMean, Neutral
  <2> HIDE DEF one
  <2>3. QED
    BY <1>3, <2>1, <2>2
<1> HIDE DEF one
<1>5. \A k \in 0 .. 1 : two.s[k] = X(k) (+) Mean(X(k), Y(k))
  <2>1. \A k \in 0 .. 1 : two.s[k] = one.s[k] (+) Mean(one.R[k] (.) h, Y(k))
    BY <1>4, StepOfController
  <2>2. QED
    BY <1>4, <2>1, Zenon
<1>6. \A k \in 0 .. 1 : two.s[k] = Lagged(k)
  <2>1. ASSUME NEW a \in Rationals, NEW b \in Rationals
        PROVE  ((a (.) h) (.) Ratio(7, 6)) (+) ((b (.) h) (.) Ratio(5, 6))
                 = h (.) ((a (.) Ratio(7, 6)) (+) (b (.) Ratio(5, 6)))
    BY SixthsFactor
  <2>2. ASSUME NEW k \in 0 .. 1
        PROVE  X(k) (+) Mean(X(k), Y(k)) = (X(k) (.) Ratio(7, 6)) (+) (Y(k) (.) Ratio(5, 6))
    BY <1>2, WeightedMean
  <2> HIDE DEF two
  <2>3. QED
    BY <1>1, <1>5, <2>1, <2>2 DEF X, Y
<1>7. \A k \in 0 .. 1 :
        SteerOutput(P, u2, two.s)[k] = (Kp(P, k) (.) PositionError(u2, k)) (+) (Ki(P, k) (.) Lagged(k))
  <2> HIDE DEF two, Lagged
  <2>1. \A k \in 0 .. 1 :
          SteerOutput(P, u2, two.s)[k]
            = ((Kp(P, k) (.) PositionError(u2, k)) (+) (Kd(P, k) (.) Zero)) (+) (Ki(P, k) (.) Lagged(k))
    BY <1>6 DEF SteerOutput
  <2>2. ASSUME NEW k \in 0 .. 1
        PROVE  (Kp(P, k) (.) PositionError(u2, k)) (+) (Kd(P, k) (.) Zero) = Kp(P, k) (.) PositionError(u2, k)
    BY ProductClosed, Neutral
  <2>3. QED
    BY <2>1, <2>2
<1> HIDE DEF two, Lagged
<1>8. QED
  BY <1>7 DEF LoopLaw, two, Lagged, one, start

\* Both controllers, for all their parameters, step sizes and inputs: the first
\* stage of a step still has the error of the inputs before, which so enters with
\* one sixth (LoopController::Calculate, XXIntegratorRungeKutta4).
THEOREM ErrorLags ==
  ASSUME NEW P \in [0 .. 5 -> Rationals], NEW h \in Rationals,
         NEW u1 \in [1 .. 4 -> Rationals], NEW u2 \in [1 .. 4 -> Rationals]
  PROVE  LoopLaw(P, h, u1, u2)
<1>1. ASSUME NEW k \in 0 .. 1
      PROVE  /\ PositionError(u1, k) \in Rationals /\ PositionError(u2, k) \in Rationals
             /\ Kp(P, k) \in Rationals /\ Kd(P, k) \in Rationals
  <2>1. 3 * k \in 0 .. 5 /\ (3 * k) + 1 \in 0 .. 5 /\ 1 + k \in 1 .. 4 /\ 3 + k \in 1 .. 4
    OBVIOUS
  <2>2. QED
    BY <2>1, Closed DEF PositionError, Kp, Kd
<1>2. QED
  BY <1>1, ErrorsLag

-----------------------------------------------------------------------------
(***************************************************************************)
(* The matrix library on matrices of 2 x 2: decomposition and substitution.*)
(***************************************************************************)

\* The elements of a matrix of 2 x 2, and of a row or a column of two.
Four(a, b, c, d) ==
  [i \in 0 .. 3 |-> IF i = 0 THEN a ELSE IF i = 1 THEN b ELSE IF i = 2 THEN c ELSE d]
Two(x, y) == [i \in 0 .. 1 |-> IF i = 0 THEN x ELSE y]
Square(a, b, c, d) == [rows |-> 2, columns |-> 2, mat |-> Four(a, b, c, d)]
Column(x, y) == [rows |-> 2, columns |-> 1, mat |-> Two(x, y)]
Row(x, y) == [rows |-> 1, columns |-> 2, mat |-> Two(x, y)]

\* The parts of these matrices.
LEMMA Elements ==
  ASSUME NEW a, NEW b, NEW c, NEW d
  PROVE  /\ Four(a, b, c, d)[0] = a /\ Four(a, b, c, d)[1] = b
         /\ Four(a, b, c, d)[2] = c /\ Four(a, b, c, d)[3] = d
         /\ Two(a, b)[0] = a /\ Two(a, b)[1] = b
         /\ Square(a, b, c, d).rows = 2 /\ Square(a, b, c, d).columns = 2
         /\ Square(a, b, c, d).mat = Four(a, b, c, d)
         /\ Column(a, b).rows = 2 /\ Column(a, b).columns = 1 /\ Column(a, b).mat = Two(a, b)
         /\ Row(a, b).rows = 1 /\ Row(a, b).columns = 2 /\ Row(a, b).mat = Two(a, b)
BY DEF Four, Two, Square, Column, Row

\* The places in these matrices.
LEMMA RangesOfTwo == 0 .. (2 * 2) - 1 = 0 .. 3 /\ 0 .. (2 * 1) - 1 = 0 .. 1 /\ 0 .. (1 * 2) - 1 = 0 .. 1
OBVIOUS

\* Matrices written down.
LEMMA WrittenDown ==
  ASSUME NEW a, NEW b, NEW c, NEW d
  PROVE  Rows(2, 2, <<a, b, c, d>>) = Square(a, b, c, d) /\ Rows(2, 1, <<a, b>>) = Column(a, b)
<1>1. Rows(2, 2, <<a, b, c, d>>) = Square(a, b, c, d)
  BY RangesOfTwo DEF Rows, Matrix, Square, Four
<1>2. Rows(2, 1, <<a, b>>) = Column(a, b)
  BY RangesOfTwo DEF Rows, Matrix, Column, Two
<1>3. QED
  BY <1>1, <1>2

\* Rows exchanged, or one with itself.
LEMMA SwapSquare ==
  ASSUME NEW a, NEW b, NEW c, NEW d
  PROVE  /\ XXSwapRows(Square(a, b, c, d), 0, 1) = Square(c, d, a, b)
         /\ XXSwapRows(Square(a, b, c, d), 0, 0) = Square(a, b, c, d)
         /\ XXSwapRows(Square(a, b, c, d), 1, 1) = Square(a, b, c, d)
<1>1. /\ XXMatrixGetRow(Square(a, b, c, d), 0) = Row(a, b)
      /\ XXMatrixGetRow(Square(a, b, c, d), 1) = Row(c, d)
  <2>1. XXMatrixGetRow(Square(a, b, c, d), 0) = Row(a, b)
    BY RangesOfTwo DEF XXMatrixGetRow, Matrix, Row, Two, Square, Four
  <2>2. XXMatrixGetRow(Square(a, b, c, d), 1) = Row(c, d)
    BY RangesOfTwo DEF XXMatrixGetRow, Matrix, Row, Two, Square, Four
  <2>3. QED
    BY <2>1, <2>2
<1>2. ASSUME NEW e, NEW f, NEW p, NEW q, NEW r, NEW s
      PROVE  /\ XXMatrixSetRow(Square(p, q, r, s), Row(e, f), 0) = Square(e, f, r, s)
             /\ XXMatrixSetRow(Square(p, q, r, s), Row(e, f), 1) = Square(p, q, e, f)
  <2>1. XXMatrixSetRow(Square(p, q, r, s), Row(e, f), 0) = Square(e, f, r, s)
    BY RangesOfTwo, Elements DEF XXMatrixSetRow, Matrix, Square, Four
  <2>2. XXMatrixSetRow(Square(p, q, r, s), Row(e, f), 1) = Square(p, q, e, f)
    BY RangesOfTwo, Elements DEF XXMatrixSetRow, Matrix, Square, Four
  <2>3. QED
    BY <2>1, <2>2
<1>3. QED
  BY <1>1, <1>2 DEF XXSwapRows

\* Elimination in the first column, and in the last.
LEMMA EliminateSquare ==
  ASSUME NEW a, NEW b, NEW c, NEW d
  PROVE  /\ Eliminated(Square(a, b, c, d), 0) = Square(a, b (/) a, c, d (-) (c (.) (b (/) a)))
         /\ Eliminated(Square(a, b, c, d), 1) = Square(a, b, c, d)
<1>1. Eliminated(Square(a, b, c, d), 0) = Square(a, b (/) a, c, d (-) (c (.) (b (/) a)))
  BY RangesOfTwo DEF Eliminated, Matrix, Square, Four
<1>2. Eliminated(Square(a, b, c, d), 1) = Square(a, b, c, d)
  BY RangesOfTwo DEF Eliminated, Matrix, Square, Four
<1>3. QED
  BY <1>1, <1>2

\* A number of a larger magnitude than another is not zero.
LEMMA Order ==
  ASSUME NEW a \in Rationals, NEW c \in Rationals
  PROVE  /\ Less(Abs(a), Abs(c)) => c # Zero
         /\ ~Less(Abs(a), Abs(c)) /\ a = Zero => c = Zero
<1>1. a[1] \in Int /\ a[2] \in Nat /\ a[2] # 0 /\ c[1] \in Int /\ c[2] \in Nat /\ c[2] # 0 /\ c = <<c[1], c[2]>>
  BY NumbersOf
<1>2. Magnitude(a[1]) \in Nat /\ Magnitude(c[1]) \in Nat /\ (Magnitude(c[1]) = 0 => c[1] = 0)
  BY <1>1 DEF Magnitude
<1>3. Less(Abs(a), Abs(c)) <=> Magnitude(a[1]) * c[2] < Magnitude(c[1]) * a[2]
  BY DEF Less, Abs
<1>4. c = Zero <=> c[1] = 0
  <2>1. ASSUME c[1] = 0 PROVE c = Zero
    <3>1. Is(c, c[1], c[2]) /\ Is(Zero, 0, 1)
      BY NumbersOf, Wholes
    <3>2. c[1] * 1 = 0 * c[2]
      BY <1>1, <2>1
    <3>3. QED
      BY <3>1, <3>2, IsOneNumber
  <2>2. QED
    BY <2>1 DEF Zero, Whole
<1>5. a = Zero => Magnitude(a[1]) = 0
  BY DEF Zero, Whole, Magnitude
<1>6. ASSUME NEW p \in Nat, NEW q \in Nat, NEW r \in Nat, NEW s \in Nat, q # 0, s # 0
      PROVE  (p * s < r * q => r # 0) /\ (~(p * s < r * q) /\ p = 0 => r = 0)
  <2>1. p = 0 /\ r # 0 => p * s < r * q
    <3>1. p = 0 => p * s = 0
      BY <1>6
    <3>2. r # 0 => r * q > 0
      BY <1>6
    <3>3. QED
      BY <3>1, <3>2
  <2>2. r = 0 => r * q = 0 /\ p * s >= 0
    BY <1>6
  <2>3. QED
    BY <2>1, <2>2
<1>7. /\ Less(Abs(a), Abs(c)) => Magnitude(c[1]) # 0
      /\ ~Less(Abs(a), Abs(c)) /\ Magnitude(a[1]) = 0 => Magnitude(c[1]) = 0
  BY <1>1, <1>2, <1>3, <1>6
<1>8. c[1] = 0 => Magnitude(c[1]) = 0
  BY DEF Magnitude
<1>9. QED
  BY <1>2, <1>4, <1>5, <1>7, <1>8

\* The pivot is an element that is not zero, if the column has one.
LEMMA PivotOfTwo ==
  ASSUME NEW a \in Rationals, NEW b, NEW c \in Rationals, NEW d
  PROVE  /\ PivotRow(Square(a, b, c, d), 0) = IF Less(Abs(a), Abs(c)) THEN 1 ELSE 0
         /\ PivotRow(Square(a, b, c, d), 1) = 1
<1> DEFINE m == Square(a, b, c, d)
           size(k, i) == Abs(m.mat[k * m.columns + i])
           Next1(j, k, i) == IF k > i /\ Less(size(j, i), size(k, i)) THEN k ELSE j
           Solves(f, i) == f = [k \in 0 .. 2 |-> IF k = 0 THEN i ELSE Next1(f[k - 1], k - 1, i)]
<1>1. ASSUME NEW i \in 0 .. 1
      PROVE  PivotRow(m, i) = Next1(Next1(i, 0, i), 1, i)
  <2> DEFINE F == [k \in 0 .. 2 |-> IF k = 0 THEN i ELSE IF k = 1 THEN Next1(i, 0, i) ELSE Next1(Next1(i, 0, i), 1, i)]
             g == CHOOSE f : Solves(f, i)
  <2>1. PivotRow(m, i) = g[2]
    BY DEF PivotRow, Loop, Square
  <2> HIDE DEF Next1
  <2>2. Solves(F, i)
    OBVIOUS
  <2>3. Solves(g, i)
    <3> HIDE DEF F, Solves
    <3>1. QED
      BY <2>2
  <2> HIDE DEF g
  <2>4. g[0] = i /\ g[1] = Next1(g[0], 0, i) /\ g[2] = Next1(g[1], 1, i)
    BY <2>3
  <2>5. QED
    BY <2>1, <2>4
<1>2. size(0, 0) = Abs(a) /\ size(1, 0) = Abs(c)
  BY Elements
<1>3. QED
  BY <1>1, <1>2

\* A column of the decomposition.
FactorStep(acc, i) == IF acc.det = Zero THEN acc ELSE Factored(acc, i, PivotRow(acc.m, i))

\* The decomposition of a matrix of 2 x 2 takes two columns.
LEMMA DecomposeTwice ==
  ASSUME NEW a, NEW b, NEW c, NEW d
  PROVE  XXDecompose(Square(a, b, c, d))
           = FactorStep(FactorStep([m |-> Square(a, b, c, d), p |-> Two(0, 1), det |-> One], 0), 1)
<1> DEFINE rows == [i \in 0 .. Square(a, b, c, d).rows - 1 |-> i]
           start == [m |-> Square(a, b, c, d), p |-> rows, det |-> One]
           Solves(f) == f = [k \in 0 .. 2 |-> IF k = 0 THEN start ELSE FactorStep(f[k - 1], k - 1)]
           F == [k \in 0 .. 2 |-> IF k = 0 THEN start
                                  ELSE IF k = 1 THEN FactorStep(start, 0)
                                  ELSE FactorStep(FactorStep(start, 0), 1)]
           g == CHOOSE f : Solves(f)
<1>1. XXDecompose(Square(a, b, c, d)) = g[2]
  BY DEF XXDecompose, Loop, Square, FactorStep
<1>5. rows = Two(0, 1)
  <2>1. 0 .. Square(a, b, c, d).rows - 1 = 0 .. 1
    BY DEF Square
  <2>2. QED
    BY <2>1 DEF Two
<1> HIDE DEF start
<1>2. Solves(F)
  OBVIOUS
<1>3. Solves(g)
  <2> HIDE DEF F, Solves
  <2>1. QED
    BY <1>2
<1> HIDE DEF g
<1>4. g[0] = start /\ g[1] = FactorStep(g[0], 0) /\ g[2] = FactorStep(g[1], 1)
  BY <1>3
<1>6. QED
  BY <1>1, <1>4, <1>5, Zenon DEF start

\* Only zero is zero when its sign is turned.
LEMMA NegZero == Neg(Zero) = Zero /\ \A c \in Rationals : Neg(c) = Zero => c = Zero
<1>2. Neg(Zero) = Zero
  <2>1. Zero \in Rationals /\ Neg(Zero) \in Rationals
    BY Wholes, Closed
  <2>2. Zero (-) Zero = Zero (+) Neg(Zero) /\ Zero (-) Zero = Zero
    BY <2>1, Signs, Neutral
  <2>3. Zero (+) Neg(Zero) = Neg(Zero)
    BY <2>1, Neutral
  <2>4. QED
    BY <2>2, <2>3
<1>1. ASSUME NEW c \in Rationals, Neg(c) = Zero PROVE c = Zero
  <2>1. c = Neg(Zero)
    BY <1>1, Neutral
  <2>3. QED
    BY <2>1, <1>2
<1>3. QED
  BY <1>1, <1>2

\* The permutation of two rows.
LEMMA ExchangeTwo ==
  ASSUME NEW p, p = Two(0, 1)
  PROVE  /\ [p EXCEPT ![0] = p[1], ![1] = p[0]] = Two(1, 0)
         /\ [p EXCEPT ![0] = p[0], ![0] = p[0]] = Two(0, 1)
<1>1. p[0] = 0 /\ p[1] = 1 /\ DOMAIN p = 0 .. 1
  BY DEF Two
<1>2. [p EXCEPT ![0] = p[1], ![1] = p[0]] = Two(1, 0)
  <2>1. [p EXCEPT ![0] = p[1], ![1] = p[0]] = [i \in 0 .. 1 |-> IF i = 0 THEN 1 ELSE 0]
    BY <1>1
  <2>2. QED
    BY <2>1 DEF Two
<1>3. [p EXCEPT ![0] = p[0], ![0] = p[0]] = Two(0, 1)
  <2>1. [p EXCEPT ![0] = p[0], ![0] = p[0]] = [i \in 0 .. 1 |-> IF i = 0 THEN 0 ELSE 1]
    BY <1>1
  <2>2. QED
    BY <2>1 DEF Two
<1>4. QED
  BY <1>2, <1>3

\* The first column decomposed: with the rows exchanged or not.
LEMMA FirstColumn ==
  ASSUME NEW a \in Rationals, NEW b \in Rationals, NEW c \in Rationals, NEW d \in Rationals,
         NEW acc, acc = [m |-> Square(a, b, c, d), p |-> Two(0, 1), det |-> One]
  PROVE  FactorStep(acc, 0)
           = IF Less(Abs(a), Abs(c))
             THEN [m |-> Square(c, d (/) c, a, b (-) (a (.) (d (/) c))), p |-> Two(1, 0), det |-> Neg(c)]
             ELSE [m |-> IF a = Zero THEN Square(a, b, c, d) ELSE Square(a, b (/) a, c, d (-) (c (.) (b (/) a))),
                   p |-> Two(0, 1), det |-> a]
<1>1. acc.m = Square(a, b, c, d) /\ acc.p = Two(0, 1) /\ acc.det = One
  OBVIOUS
<1>2. One # Zero
  BY DEF One, Zero, Whole
<1>3. PivotRow(acc.m, 0) = IF Less(Abs(a), Abs(c)) THEN 1 ELSE 0
  BY <1>1, PivotOfTwo
<1>4. FactorStep(acc, 0) = Factored(acc, 0, PivotRow(acc.m, 0))
  BY <1>1, <1>2 DEF FactorStep
<1>5. /\ [acc.p EXCEPT ![0] = acc.p[1], ![1] = acc.p[0]] = Two(1, 0)
      /\ [acc.p EXCEPT ![0] = acc.p[0], ![0] = acc.p[0]] = Two(0, 1)
  BY <1>1, ExchangeTwo
<1>6. PivotProduct(acc, 0, 0) = a /\ PivotProduct(acc, 0, 1) = Neg(c)
  <2>1. /\ acc.m.mat[0 * acc.m.columns + 0] = a /\ acc.m.mat[1 * acc.m.columns + 0] = c
    BY <1>1, Elements
  <2>2. Neg(c) \in Rationals
    BY Closed
  <2>3. PivotProduct(acc, 0, 0) = One (.) a /\ PivotProduct(acc, 0, 1) = One (.) Neg(c)
    BY <1>1, <2>1 DEF PivotProduct
  <2>4. QED
    BY <2>2, <2>3, Neutral
<1>7. CASE Less(Abs(a), Abs(c))
  <2>1. Neg(c) # Zero
    BY <1>7, NegZero, Order
  <2>2. XXSwapRows(acc.m, 0, 1) = Square(c, d, a, b)
    BY <1>1, SwapSquare
  <2>3. Factored(acc, 0, 1)
          = [m |-> Eliminated(Square(c, d, a, b), 0), p |-> Two(1, 0), det |-> Neg(c)]
    BY <1>5, <1>6, <2>1, <2>2 DEF Factored
  <2>4. QED
    BY <1>3, <1>4, <1>7, <2>3, EliminateSquare
<1>8. CASE ~Less(Abs(a), Abs(c))
  <2>1. XXSwapRows(acc.m, 0, 0) = Square(a, b, c, d)
    BY <1>1, SwapSquare
  <2>2. Factored(acc, 0, 0)
          = [m |-> IF a = Zero THEN Square(a, b, c, d) ELSE Eliminated(Square(a, b, c, d), 0),
             p |-> Two(0, 1), det |-> a]
    BY <1>5, <1>6, <2>1 DEF Factored
  <2>3. QED
    BY <1>3, <1>4, <1>8, <2>2, EliminateSquare
<1>9. QED
  BY <1>7, <1>8

\* The last column decomposed.
LEMMA LastColumn ==
  ASSUME NEW a \in Rationals, NEW b \in Rationals, NEW c \in Rationals, NEW d \in Rationals,
         NEW e, e # Zero, NEW x, NEW y,
         NEW acc, acc = [m |-> Square(a, b, c, d), p |-> Two(x, y), det |-> e]
  PROVE  FactorStep(acc, 1) = [m |-> Square(a, b, c, d), p |-> Two(x, y), det |-> e (.) d]
<1>1. acc.m = Square(a, b, c, d) /\ acc.p = Two(x, y) /\ acc.det = e
  OBVIOUS
<1>2. FactorStep(acc, 1) = Factored(acc, 1, 1)
  BY <1>1, PivotOfTwo DEF FactorStep
<1>3. XXSwapRows(acc.m, 1, 1) = Square(a, b, c, d)
  BY <1>1, SwapSquare
<1>4. [acc.p EXCEPT ![1] = acc.p[1], ![1] = acc.p[1]] = Two(x, y)
  BY <1>1 DEF Two
<1>5. PivotProduct(acc, 1, 1) = e (.) d
  <2>1. acc.m.mat[1 * acc.m.columns + 1] = d
    BY <1>1, Elements
  <2>2. QED
    BY <1>1, <2>1 DEF PivotProduct
<1>6. Factored(acc, 1, 1) = [m |-> Square(a, b, c, d), p |-> Two(x, y), det |-> e (.) d]
  BY <1>3, <1>4, <1>5, EliminateSquare DEF Factored
<1>7. QED
  BY <1>2, <1>6

\* The decomposition of a matrix of 2 x 2: without a pivot, with the rows in their
\* order, or with the rows exchanged.
LEMMA DecomposedSquare ==
  ASSUME NEW a \in Rationals, NEW b \in Rationals, NEW c \in Rationals, NEW d \in Rationals,
         NEW lu, lu = XXDecompose(Square(a, b, c, d))
  PROVE  \/ a = Zero /\ c = Zero /\ lu.det = Zero
         \/ /\ a # Zero
            /\ lu = [m |-> Square(a, b (/) a, c, d (-) (c (.) (b (/) a))), p |-> Two(0, 1),
                     det |-> a (.) (d (-) (c (.) (b (/) a)))]
         \/ /\ c # Zero
            /\ lu = [m |-> Square(c, d (/) c, a, b (-) (a (.) (d (/) c))), p |-> Two(1, 0),
                     det |-> Neg(c) (.) (b (-) (a (.) (d (/) c)))]
<1> DEFINE start == [m |-> Square(a, b, c, d), p |-> Two(0, 1), det |-> One]
           one == FactorStep(start, 0)
<1>1. lu = FactorStep(one, 1)
  BY DecomposeTwice
<1>2. one = IF Less(Abs(a), Abs(c))
            THEN [m |-> Square(c, d (/) c, a, b (-) (a (.) (d (/) c))), p |-> Two(1, 0), det |-> Neg(c)]
            ELSE [m |-> IF a = Zero THEN Square(a, b, c, d) ELSE Square(a, b (/) a, c, d (-) (c (.) (b (/) a))),
                  p |-> Two(0, 1), det |-> a]
  BY FirstColumn
<1> HIDE DEF one
<1>3. CASE Less(Abs(a), Abs(c))
  <2>1. c # Zero /\ Neg(c) # Zero
    BY <1>3, NegZero, Order
  <2>2. PICK q \in Rationals, s \in Rationals : q = d (/) c /\ s = b (-) (a (.) (d (/) c))
    BY <2>1, Closed
  <2>3. one = [m |-> Square(c, q, a, s), p |-> Two(1, 0), det |-> Neg(c)]
    BY <1>2, <1>3, <2>2
  <2>4. lu = [m |-> Square(c, q, a, s), p |-> Two(1, 0), det |-> Neg(c) (.) s]
    BY <1>1, <2>1, <2>3, LastColumn
  <2>5. QED
    BY <2>1, <2>2, <2>4
<1>4. CASE ~Less(Abs(a), Abs(c)) /\ a = Zero
  <2>1. one = [m |-> Square(a, b, c, d), p |-> Two(0, 1), det |-> a] /\ c = Zero
    BY <1>2, <1>4, Order
  <2>2. one.det = Zero
    BY <1>4, <2>1
  <2>3. lu = one
    BY <1>1, <2>2 DEF FactorStep
  <2>4. QED
    BY <1>4, <2>1, <2>2, <2>3
<1>5. CASE ~Less(Abs(a), Abs(c)) /\ a # Zero
  <2>2. PICK q \in Rationals, s \in Rationals : q = b (/) a /\ s = d (-) (c (.) (b (/) a))
    BY <1>5, Closed
  <2>3. one = [m |-> Square(a, q, c, s), p |-> Two(0, 1), det |-> a]
    BY <1>2, <1>5, <2>2
  <2>4. lu = [m |-> Square(a, q, c, s), p |-> Two(0, 1), det |-> a (.) s]
    BY <1>1, <1>5, <2>3, LastColumn
  <2>5. QED
    BY <1>5, <2>2, <2>4
<1>6. QED
  BY <1>3, <1>4, <1>5

\* The steps of a substitution.
PartOf(m, v, i, from, to, j) ==
  IF j \in from .. to THEN m.mat[i * m.rows + j] (.) v[j] ELSE Zero
RestOf(m, v, i, from, to) == Total(m.rows, LAMBDA j : PartOf(m, v, i, from, to, j))
ForwardStep(m, v, i) ==
  [v EXCEPT ![i] = (v[i] (-) RestOf(m, v, i, 0, i - 1)) (/) m.mat[i * m.rows + i]]
BackStep(m, v, i) ==
  [v EXCEPT ![i] = v[i] (-) RestOf(m, v, i, i + 1, m.rows - 1)]

\* The sum over two columns that a substitution takes off.
LEMMA RestOfTwo ==
  ASSUME NEW m, m.rows = 2, NEW v, NEW i, NEW from, NEW to
  PROVE  RestOf(m, v, i, from, to)
           = (Zero (+) PartOf(m, v, i, from, to, 0)) (+) PartOf(m, v, i, from, to, 1)
<1> DEFINE Part(j) == PartOf(m, v, i, from, to, j)
           Solves(f) == f = [k \in 0 .. 2 |-> IF k = 0 THEN Zero ELSE f[k - 1] (+) Part(k - 1)]
           F == [k \in 0 .. 2 |-> IF k = 0 THEN Zero ELSE IF k = 1 THEN Zero (+) Part(0)
                                  ELSE (Zero (+) Part(0)) (+) Part(1)]
           g == CHOOSE f : Solves(f)
<1>1. RestOf(m, v, i, from, to) = g[2]
  BY DEF RestOf, Total, Loop
<1> HIDE DEF Part
<1>2. Solves(F)
  OBVIOUS
<1>3. Solves(g)
  <2> HIDE DEF F, Solves
  <2>1. QED
    BY <1>2
<1> HIDE DEF g
<1>4. g[0] = Zero /\ g[1] = g[0] (+) Part(0) /\ g[2] = g[1] (+) Part(1)
  BY <1>3
<1>5. QED
  BY <1>1, <1>4 DEF Part

\* A substitution of two unknowns.
LEMMA SubstituteTwice ==
  ASSUME NEW m, m.rows = 2, NEW vector
  PROVE  XXSubstitute(m, vector)
           = [vector EXCEPT !.mat =
                BackStep(m, BackStep(m, ForwardStep(m, ForwardStep(m, vector.mat, 0), 1), 1), 0)]
<1> DEFINE Down(v, i) == ForwardStep(m, v, i)
           Up(v, k) == BackStep(m, v, 1 - k)
           Solves1(f, v) == f = [k \in 0 .. 2 |-> IF k = 0 THEN v ELSE Down(f[k - 1], k - 1)]
           Solves2(f, v) == f = [k \in 0 .. 2 |-> IF k = 0 THEN v ELSE Up(f[k - 1], k - 1)]
           F1(v) == [k \in 0 .. 2 |-> IF k = 0 THEN v ELSE IF k = 1 THEN Down(v, 0) ELSE Down(Down(v, 0), 1)]
           F2(v) == [k \in 0 .. 2 |-> IF k = 0 THEN v ELSE IF k = 1 THEN Up(v, 0) ELSE Up(Up(v, 0), 1)]
           g1 == CHOOSE f : Solves1(f, vector.mat)
           g2 == CHOOSE f : Solves2(f, g1[2])
<1>1. XXSubstitute(m, vector) = [vector EXCEPT !.mat = g2[2]]
  BY DEF XXSubstitute, Loop, ForwardStep, BackStep, RestOf, PartOf
<1> HIDE DEF Down, Up
<1>2. ASSUME NEW v PROVE Solves1(F1(v), v) /\ Solves2(F2(v), v)
  OBVIOUS
<1>3. Solves1(g1, vector.mat)
  <2> HIDE DEF F1, Solves1
  <2>1. QED
    BY <1>2
<1>4. Solves2(g2, g1[2])
  <2> HIDE DEF F2, Solves2, g1
  <2>1. QED
    BY <1>2
<1> HIDE DEF g1, g2
<1>5. g1[2] = Down(Down(vector.mat, 0), 1)
  BY <1>3
<1>6. g2[2] = Up(Up(g1[2], 0), 1)
  BY <1>4
<1>7. \A v : Up(v, 0) = BackStep(m, v, 1) /\ Up(v, 1) = BackStep(m, v, 0)
  BY DEF Up
<1>8. QED
  BY <1>1, <1>5, <1>6, <1>7, Zenon DEF Down

\* Nothing taken off.
LEMMA MinusZero == \A a \in Rationals : a (-) Zero = a
<1>1. ASSUME NEW a \in Rationals PROVE a (-) Zero = a
  <2>1. Zero \in Rationals
    BY Wholes
  <2>2. a (-) Zero = a (+) Zero
    BY <2>1, Signs, NegZero
  <2>3. QED
    BY <2>2, Neutral
<1>2. QED
  BY <1>1

\* A substitution with the factors of a matrix of 2 x 2.
LEMMA SubstituteSquare ==
  ASSUME NEW p \in Rationals, NEW q \in Rationals, NEW r \in Rationals, NEW s \in Rationals,
         NEW x \in Rationals, NEW y \in Rationals, p # Zero, s # Zero,
         NEW X, X = x (/) p, NEW Y, Y = (y (-) (r (.) X)) (/) s
  PROVE  XXSubstitute(Square(p, q, r, s), Row(x, y)) = Row(X (-) (q (.) Y), Y)
<1> DEFINE m == Square(p, q, r, s)
<1>1. X \in Rationals /\ Y \in Rationals /\ q (.) Y \in Rationals /\ r (.) X \in Rationals
  BY Closed
<1>2. /\ m.rows = 2 /\ m.mat[0] = p /\ m.mat[1] = q /\ m.mat[2] = r /\ m.mat[3] = s
  BY Elements
<1> HIDE DEF m
<1>3. ASSUME NEW v
      PROVE  /\ PartOf(m, v, 0, 0, -1, 0) = Zero /\ PartOf(m, v, 0, 0, -1, 1) = Zero
             /\ PartOf(m, v, 1, 0, 0, 0) = r (.) v[0] /\ PartOf(m, v, 1, 0, 0, 1) = Zero
             /\ PartOf(m, v, 1, 2, 1, 0) = Zero /\ PartOf(m, v, 1, 2, 1, 1) = Zero
             /\ PartOf(m, v, 0, 1, 1, 0) = Zero /\ PartOf(m, v, 0, 1, 1, 1) = q (.) v[1]
  BY <1>2 DEF PartOf
<1>4. ASSUME NEW v
      PROVE  /\ RestOf(m, v, 0, 0, 0 - 1) = (Zero (+) Zero) (+) Zero
             /\ RestOf(m, v, 1, 0, 1 - 1) = (Zero (+) (r (.) v[0])) (+) Zero
             /\ RestOf(m, v, 1, 1 + 1, m.rows - 1) = (Zero (+) Zero) (+) Zero
             /\ RestOf(m, v, 0, 0 + 1, m.rows - 1) = (Zero (+) Zero) (+) (q (.) v[1])
  <2>1. 0 - 1 = -1 /\ 1 - 1 = 0 /\ 1 + 1 = 2 /\ m.rows - 1 = 1 /\ 0 + 1 = 1
    BY <1>2
  <2>2. QED
    BY <1>2, <1>3, <2>1, RestOfTwo
<1>5. /\ (Zero (+) Zero) (+) Zero = Zero
      /\ \A a \in Rationals : (Zero (+) a) (+) Zero = a /\ (Zero (+) Zero) (+) a = a
  BY Wholes, Neutral, Closed
<1>6. ForwardStep(m, Two(x, y), 0) = Two(X, y)
  <2>1. RestOf(m, Two(x, y), 0, 0, 0 - 1) = Zero
    BY <1>4, <1>5
  <2>2. (x (-) Zero) (/) m.mat[0 * m.rows + 0] = X
    BY <1>2, MinusZero
  <2>3. Two(x, y)[0] = x
    BY Elements
  <2>4. ForwardStep(m, Two(x, y), 0) = [Two(x, y) EXCEPT ![0] = X]
    BY <2>1, <2>2, <2>3 DEF ForwardStep
  <2>5. QED
    BY <2>4 DEF Two
<1>7. ForwardStep(m, Two(X, y), 1) = Two(X, Y)
  <2>1. RestOf(m, Two(X, y), 1, 0, 1 - 1) = r (.) X
    BY <1>1, <1>4, <1>5, Elements
  <2>2. (y (-) (r (.) X)) (/) m.mat[1 * m.rows + 1] = Y
    BY <1>2
  <2>3. Two(X, y)[1] = y
    BY Elements
  <2>4. ForwardStep(m, Two(X, y), 1) = [Two(X, y) EXCEPT ![1] = Y]
    BY <2>1, <2>2, <2>3 DEF ForwardStep
  <2>5. QED
    BY <2>4 DEF Two
<1>8. BackStep(m, Two(X, Y), 1) = Two(X, Y)
  <2>1. RestOf(m, Two(X, Y), 1, 1 + 1, m.rows - 1) = Zero
    BY <1>4, <1>5
  <2>2. Two(X, Y)[1] = Y /\ Y (-) Zero = Y
    BY <1>1, Elements, MinusZero
  <2>4. BackStep(m, Two(X, Y), 1) = [Two(X, Y) EXCEPT ![1] = Y]
    BY <2>1, <2>2 DEF BackStep
  <2>5. QED
    BY <2>4 DEF Two
<1>9. BackStep(m, Two(X, Y), 0) = Two(X (-) (q (.) Y), Y)
  <2>1. RestOf(m, Two(X, Y), 0, 0 + 1, m.rows - 1) = q (.) Y
    BY <1>1, <1>4, <1>5, Elements
  <2>2. Two(X, Y)[0] = X
    BY Elements
  <2>4. BackStep(m, Two(X, Y), 0) = [Two(X, Y) EXCEPT ![0] = X (-) (q (.) Y)]
    BY <2>1, <2>2 DEF BackStep
  <2>5. QED
    BY <2>4 DEF Two
<1>10. XXSubstitute(m, Row(x, y)) = [Row(x, y) EXCEPT !.mat = Two(X (-) (q (.) Y), Y)]
  <2>1. Row(x, y).mat = Two(x, y)
    BY DEF Row
  <2>2. XXSubstitute(m, Row(x, y))
          = [Row(x, y) EXCEPT !.mat =
               BackStep(m, BackStep(m, ForwardStep(m, ForwardStep(m, Row(x, y).mat, 0), 1), 1), 0)]
    BY <1>2, SubstituteTwice
  <2>3. BackStep(m, BackStep(m, ForwardStep(m, ForwardStep(m, Row(x, y).mat, 0), 1), 1), 0)
          = Two(X (-) (q (.) Y), Y)
    BY <1>6, <1>7, <1>8, <1>9, <2>1
  <2>4. QED
    BY <2>2, <2>3
<1>11. QED
  BY <1>10 DEF m, Row

\* The rows of the unit matrix in the order of the rows.
LEMMA UnitRows ==
  /\ XXPermute(XXMatrixGetRow(XXMatrixEye(2), 0), Two(0, 1)) = Row(One, Zero)
  /\ XXPermute(XXMatrixGetRow(XXMatrixEye(2), 1), Two(0, 1)) = Row(Zero, One)
  /\ XXPermute(XXMatrixGetRow(XXMatrixEye(2), 0), Two(1, 0)) = Row(Zero, One)
  /\ XXPermute(XXMatrixGetRow(XXMatrixEye(2), 1), Two(1, 0)) = Row(One, Zero)
<1>1. XXMatrixEye(2) = Square(One, Zero, Zero, One)
  BY RangesOfTwo DEF XXMatrixEye, Matrix, Square, Four
<1>2. /\ XXMatrixGetRow(Square(One, Zero, Zero, One), 0) = Row(One, Zero)
      /\ XXMatrixGetRow(Square(One, Zero, Zero, One), 1) = Row(Zero, One)
  <2>1. XXMatrixGetRow(Square(One, Zero, Zero, One), 0) = Row(One, Zero)
    BY RangesOfTwo DEF XXMatrixGetRow, Matrix, Row, Two, Square, Four
  <2>2. XXMatrixGetRow(Square(One, Zero, Zero, One), 1) = Row(Zero, One)
    BY RangesOfTwo DEF XXMatrixGetRow, Matrix, Row, Two, Square, Four
  <2>3. QED
    BY <2>1, <2>2
<1>3. ASSUME NEW a, NEW b
      PROVE  XXPermute(Row(a, b), Two(0, 1)) = Row(a, b) /\ XXPermute(Row(a, b), Two(1, 0)) = Row(b, a)
  <2>1. XXPermute(Row(a, b), Two(0, 1)) = Row(a, b)
    BY RangesOfTwo DEF XXPermute, Matrix, Row, Two
  <2>2. XXPermute(Row(a, b), Two(1, 0)) = Row(b, a)
    BY RangesOfTwo DEF XXPermute, Matrix, Row, Two
  <2>3. QED
    BY <2>1, <2>2
<1>4. QED
  BY <1>1, <1>2, <1>3

-----------------------------------------------------------------------------
(***************************************************************************)
(* The inverse of a matrix of 2 x 2.                                       *)
(***************************************************************************)

\* Signs, differences, 0 and 1, one law each.
LEMMA NegClosed == \A a \in Rationals : Neg(a) \in Rationals
BY Closed

\* A difference is a rational.
LEMMA MinusClosed == \A a, b \in Rationals : a (-) b \in Rationals
BY Closed

\* A difference is a sum.
LEMMA MinusIs == \A a, b \in Rationals : a (-) b = a (+) Neg(b)
BY Signs

\* A sum turned.
LEMMA NegOfSum == \A a, b \in Rationals : Neg(a (+) b) = Neg(a) (+) Neg(b)
BY Signs

\* A product turned.
LEMMA NegOfProduct == \A a, b \in Rationals : a (.) Neg(b) = Neg(a (.) b)
BY Signs

\* A sign turned twice.
LEMMA NegOfNeg == \A a \in Rationals : Neg(Neg(a)) = a
BY Neutral

\* A number and its opposite.
LEMMA Opposite == \A a \in Rationals : a (+) Neg(a) = Zero
BY Neutral

\* A sum with 0.
LEMMA PlusZero == Zero \in Rationals /\ \A a \in Rationals : a (+) Zero = a
BY Wholes, Neutral

\* A product with 0.
LEMMA TimesZero == \A a \in Rationals : a (.) Zero = Zero
BY Neutral

\* A product with 1.
LEMMA TimesOne == One \in Rationals /\ \A a \in Rationals : a (.) One = a
BY Wholes, Neutral

\* A product is zero only if a factor is.
LEMMA NoZeroDivisors ==
  \A a, b \in Rationals : a (.) b = Zero => a = Zero \/ b = Zero
<1>1. ASSUME NEW a \in Rationals, NEW b \in Rationals, a (.) b = Zero, b # Zero
      PROVE  a = Zero
  <2>1. (a (.) b) (/) b = a /\ (Zero (.) b) (/) b = Zero
    BY <1>1, Quotients, PlusZero
  <2>2. Zero (.) b = Zero
    BY Neutral
  <2>3. QED
    BY <1>1, <2>1, <2>2
<1>2. QED
  BY <1>1

\* A quotient is the number that gives the dividend.
LEMMA QuotientIs ==
  \A x, y, z \in Rationals : y # Zero /\ y (.) z = x => z = x (/) y
<1>1. ASSUME NEW x \in Rationals, NEW y \in Rationals, NEW z \in Rationals, y # Zero, y (.) z = x
      PROVE  z = x (/) y
  <2>1. z (.) y = x
    BY <1>1, ProductCommutes
  <2>2. QED
    BY <1>1, <2>1, Quotients
<1>2. QED
  BY <1>1

\* A quotient times the divisor.
LEMMA QuotientTimes ==
  \A x, y \in Rationals : y # Zero => x (/) y \in Rationals /\ y (.) (x (/) y) = x
<1>1. ASSUME NEW x \in Rationals, NEW y \in Rationals, y # Zero
      PROVE  x (/) y \in Rationals /\ y (.) (x (/) y) = x
  <2>1. x (/) y \in Rationals /\ (x (/) y) (.) y = x
    BY <1>1, Closed, Quotients
  <2>2. QED
    BY <2>1, ProductCommutes
<1>2. QED
  BY <1>1

\* A product with a difference.
LEMMA MinusTimes ==
  \A a, b, c \in Rationals : a (.) (b (-) c) = (a (.) b) (-) (a (.) c)
<1>1. ASSUME NEW a \in Rationals, NEW b \in Rationals, NEW c \in Rationals
      PROVE  a (.) (b (-) c) = (a (.) b) (-) (a (.) c)
  BY MinusIs, NegClosed, ProductClosed, Distributes, NegOfProduct
<1>2. QED
  BY <1>1

\* What the two substitutions solve.
LEMMA SolveSquare ==
  ASSUME NEW a \in Rationals, NEW b \in Rationals, NEW c \in Rationals, NEW d \in Rationals,
         NEW x \in Rationals, NEW y \in Rationals, a # Zero,
         NEW q, q = b (/) a, NEW s, s = d (-) (c (.) q), s # Zero,
         NEW X, X = x (/) a, NEW Y, Y = (y (-) (c (.) X)) (/) s,
         NEW D, D = (a (.) d) (-) (b (.) c)
  PROVE  /\ a (.) s = D /\ D # Zero
         /\ D (.) Y = (a (.) y) (-) (c (.) x)
         /\ D (.) (X (-) (q (.) Y)) = (d (.) x) (-) (b (.) y)
<1>1. q \in Rationals /\ X \in Rationals /\ a (.) q = b /\ a (.) X = x
  BY QuotientTimes
<1>2. s \in Rationals /\ y (-) (c (.) X) \in Rationals
  BY <1>1, ProductClosed, MinusClosed
<1>3. Y \in Rationals /\ s (.) Y = y (-) (c (.) X)
  BY <1>2, QuotientTimes
<1>4. \A e \in Rationals : \A f \in Rationals : a (.) (c (.) e) = c (.) (a (.) e)
  BY ProductClosed, ProductCommutes, ProductAssociates
<1>5. a (.) s = D
  <2>1. a (.) s = (a (.) d) (-) (a (.) (c (.) q))
    BY <1>1, MinusTimes, ProductClosed
  <2>2. a (.) (c (.) q) = c (.) b
    BY <1>1, <1>4
  <2>3. QED
    BY <2>1, <2>2, ProductCommutes
<1>6. D \in Rationals /\ D # Zero
  BY <1>2, <1>5, NoZeroDivisors, ProductClosed
<1>7. D (.) Y = (a (.) y) (-) (c (.) x)
  <2>1. D (.) Y = a (.) (s (.) Y)
    BY <1>2, <1>3, <1>5, ProductAssociates
  <2>2. a (.) (y (-) (c (.) X)) = (a (.) y) (-) (a (.) (c (.) X))
    BY <1>1, MinusTimes, ProductClosed
  <2>3. a (.) (c (.) X) = c (.) x
    BY <1>1, <1>4
  <2>4. QED
    BY <1>3, <2>1, <2>2, <2>3
<1>8. D (.) (X (-) (q (.) Y)) = (d (.) x) (-) (b (.) y)
  <2>1. D (.) (X (-) (q (.) Y)) = (D (.) X) (-) (D (.) (q (.) Y))
    BY <1>1, <1>3, <1>6, MinusTimes, ProductClosed
  <2>2. D (.) X = s (.) x
    BY <1>1, <1>2, <1>5, ProductAssociates, ProductCommutes
  <2>3. D (.) (q (.) Y) = q (.) (D (.) Y)
    BY <1>1, <1>3, <1>6, ProductClosed, ProductCommutes, ProductAssociates
  <2>4. q (.) ((a (.) y) (-) (c (.) x)) = (q (.) (a (.) y)) (-) (q (.) (c (.) x))
    BY <1>1, MinusTimes, ProductClosed
  <2>5. q (.) (a (.) y) = b (.) y
    BY <1>1, ProductAssociates, ProductCommutes
  <2>6. s (.) x = (d (.) x) (-) (q (.) (c (.) x))
    <3>1. s (.) x = x (.) s /\ x (.) s = (x (.) d) (-) (x (.) (c (.) q))
      BY <1>1, <1>2, MinusTimes, ProductClosed, ProductCommutes
    <3>2. x (.) (c (.) q) = q (.) (c (.) x)
      BY <1>1, ProductClosed, ProductCommutes, ProductAssociates
    <3>3. QED
      BY <3>1, <3>2, ProductCommutes
  <2>7. \A e, f, g \in Rationals : (e (-) g) (-) (f (-) g) = e (-) f
    <3>1. ASSUME NEW e \in Rationals, NEW f \in Rationals, NEW g \in Rationals
          PROVE  (e (-) g) (-) (f (-) g) = e (-) f
      <4>1. (e (-) g) (-) (f (-) g) = (e (+) Neg(g)) (+) (Neg(f) (+) g)
        BY MinusIs, NegClosed, SumClosed, NegOfSum, NegOfNeg
      <4>2. Neg(f) \in Rationals /\ Neg(g) \in Rationals
        BY NegClosed
      <4>3. (e (+) Neg(g)) (+) (Neg(f) (+) g) = (e (+) Neg(f)) (+) (g (+) Neg(g))
        BY <4>2, SumClosed, SumCommutes, SumAssociates
      <4>4. QED
        BY <4>1, <4>2, <4>3, Opposite, PlusZero, SumClosed, MinusIs
    <3>2. QED
      BY <3>1
  <2>8. d (.) x \in Rationals /\ b (.) y \in Rationals /\ q (.) (c (.) x) \in Rationals
    BY <1>1, ProductClosed
  <2>9. QED
    BY <1>7, <2>1, <2>2, <2>3, <2>4, <2>5, <2>6, <2>7, <2>8
<1>9. QED
  BY <1>5, <1>6, <1>7, <1>8

\* A row of the inverse before it is transposed.
RowOfInverse(lu, i) == XXSubstitute(lu.m, XXPermute(XXMatrixGetRow(XXMatrixEye(lu.m.rows), i), lu.p))

\* The inverse has the two solved rows as its columns.
LEMMA InvertedTwice ==
  ASSUME NEW lu, lu.m.rows = 2, NEW e, NEW f, NEW g, NEW h,
         RowOfInverse(lu, 0) = Row(e, f), RowOfInverse(lu, 1) = Row(g, h)
  PROVE  Inverted(lu) = Square(e, g, f, h)
<1> DEFINE Put(m, i) == XXMatrixSetRow(m, RowOfInverse(lu, i), i)
           start == XXMatrixEye(2)
           Solves(w) == w = [k \in 0 .. 2 |-> IF k = 0 THEN start ELSE Put(w[k - 1], k - 1)]
           F == [k \in 0 .. 2 |-> IF k = 0 THEN start ELSE IF k = 1 THEN Put(start, 0) ELSE Put(Put(start, 0), 1)]
           v == CHOOSE w : Solves(w)
<1>1. Inverted(lu) = XXMatrixTranspose(2, 2, v[2])
  BY DEF Inverted, Loop, RowOfInverse
<1> HIDE DEF Put, start
<1>2. Solves(F)
  OBVIOUS
<1>3. Solves(v)
  <2> HIDE DEF F, Solves
  <2>1. QED
    BY <1>2
<1> HIDE DEF v
<1>4. v[2] = Put(Put(start, 0), 1)
  BY <1>3
<1>5. start = Square(One, Zero, Zero, One)
  BY RangesOfTwo DEF XXMatrixEye, Matrix, Square, Four, start
<1>6. ASSUME NEW p, NEW q, NEW r, NEW s
      PROVE  /\ Put(Square(p, q, r, s), 0) = Square(e, f, r, s)
             /\ Put(Square(p, q, r, s), 1) = Square(p, q, g, h)
  <2>1. Put(Square(p, q, r, s), 0) = Square(e, f, r, s)
    BY RangesOfTwo, Elements DEF Put, XXMatrixSetRow, Matrix, Square, Four
  <2>2. Put(Square(p, q, r, s), 1) = Square(p, q, g, h)
    BY RangesOfTwo, Elements DEF Put, XXMatrixSetRow, Matrix, Square, Four
  <2>3. QED
    BY <2>1, <2>2
<1>7. v[2] = Square(e, f, g, h)
  BY <1>4, <1>5, <1>6
<1>8. XXMatrixTranspose(2, 2, Square(e, f, g, h)) = Square(e, g, f, h)
  BY RangesOfTwo DEF XXMatrixTranspose, Matrix, Square, Four
<1>9. QED
  BY <1>1, <1>7, <1>8

\* The inverse of a matrix of 2 x 2 with the determinant e.
Adjugate(a, b, c, d, e) == Square(d (/) e, Neg(b) (/) e, Neg(c) (/) e, a (/) e)

Substituted(p, q, r, s, x, y) ==
  p # Zero /\ s # Zero =>
    XXSubstitute(Square(p, q, r, s), Row(x, y))
      = Row((x (/) p) (-) (q (.) ((y (-) (r (.) (x (/) p))) (/) s)), (y (-) (r (.) (x (/) p))) (/) s)

\* A substitution, as a law of its six numbers.
LEMMA SubstituteIs == \A p, q, r, s, x, y \in Rationals : Substituted(p, q, r, s, x, y)
BY SubstituteSquare DEF Substituted

\* A right side solved with the factors of a matrix.
LEMMA SolvedRow ==
  ASSUME NEW a \in Rationals, NEW b \in Rationals, NEW c \in Rationals, NEW d \in Rationals,
         NEW x \in Rationals, NEW y \in Rationals, a # Zero,
         NEW q, q = b (/) a, NEW s, s = d (-) (c (.) q), s # Zero,
         NEW D, D = (a (.) d) (-) (b (.) c)
  PROVE  /\ D # Zero /\ a (.) s = D
         /\ XXSubstitute(Square(a, q, c, s), Row(x, y))
              = Row(((d (.) x) (-) (b (.) y)) (/) D, ((a (.) y) (-) (c (.) x)) (/) D)
<1>1. q \in Rationals
  BY QuotientTimes
<1>2. s \in Rationals
  BY <1>1, ProductClosed, MinusClosed
<1>3. D \in Rationals
  BY ProductClosed, MinusClosed
<1>4. PICK X : X = x (/) a
  OBVIOUS
<1>5. X \in Rationals
  BY <1>4, QuotientTimes
<1>6. PICK Y : Y = (y (-) (c (.) X)) (/) s
  OBVIOUS
<1>7. Y \in Rationals
  BY <1>2, <1>5, <1>6, QuotientTimes, ProductClosed, MinusClosed
<1>8. XXSubstitute(Square(a, q, c, s), Row(x, y)) = Row(X (-) (q (.) Y), Y)
  <2>1. XXSubstitute(Square(a, q, c, s), Row(x, y))
          = Row((x (/) a) (-) (q (.) ((y (-) (c (.) (x (/) a))) (/) s)), (y (-) (c (.) (x (/) a))) (/) s)
    <3>1. Substituted(a, q, c, s, x, y)
      BY <1>1, <1>2, SubstituteIs
    <3>2. QED
      BY <3>1 DEF Substituted
  <2>2. QED
    BY <1>4, <1>6, <2>1
<1>9. /\ a (.) s = D /\ D # Zero
      /\ D (.) Y = (a (.) y) (-) (c (.) x)
      /\ D (.) (X (-) (q (.) Y)) = (d (.) x) (-) (b (.) y)
  BY <1>4, <1>6, SolveSquare
<1>10. Y = ((a (.) y) (-) (c (.) x)) (/) D /\ X (-) (q (.) Y) = ((d (.) x) (-) (b (.) y)) (/) D
  <2>1. X (-) (q (.) Y) \in Rationals
    BY <1>1, <1>5, <1>7, ProductClosed, MinusClosed
  <2>2. (a (.) y) (-) (c (.) x) \in Rationals /\ (d (.) x) (-) (b (.) y) \in Rationals
    BY ProductClosed, MinusClosed
  <2>3. QED
    BY <1>3, <1>7, <1>9, <2>1, <2>2, QuotientIs
<1>11. QED
  BY <1>8, <1>9, <1>10

\* The product of the pivots is the determinant.
LEMMA PivotsMultiply ==
  \A a, b, c, d \in Rationals : a # Zero =>
    a (.) (d (-) (c (.) (b (/) a))) = (a (.) d) (-) (b (.) c)
<1>1. ASSUME NEW a \in Rationals, NEW b \in Rationals, NEW c \in Rationals, NEW d \in Rationals, a # Zero
      PROVE  a (.) (d (-) (c (.) (b (/) a))) = (a (.) d) (-) (b (.) c)
  <2>1. PICK q \in Rationals : q = b (/) a /\ a (.) q = b
    BY <1>1, QuotientTimes
  <2>2. a (.) (d (-) (c (.) q)) = (a (.) d) (-) (a (.) (c (.) q))
    BY MinusTimes, ProductClosed
  <2>3. a (.) (c (.) q) = (a (.) q) (.) c
    BY ProductClosed, ProductCommutes, ProductAssociates
  <2>4. QED
    BY <2>1, <2>2, <2>3
<1>2. QED
  BY <1>1

\* A difference turned.
LEMMA MinusTurned == \A x, y \in Rationals : Neg(x (-) y) = y (-) x
<1>1. ASSUME NEW x \in Rationals, NEW y \in Rationals PROVE Neg(x (-) y) = y (-) x
  BY MinusIs, NegClosed, NegOfSum, NegOfNeg, SumCommutes
<1>2. QED
  BY <1>1

\* A product with a turned number.
LEMMA MinusProduct == \A x, y \in Rationals : Neg(x) (.) y = Neg(x (.) y)
BY Signs

\* A number taken from zero.
LEMMA ZeroMinus == \A x \in Rationals : Zero (-) x = Neg(x)
<1>1. ASSUME NEW x \in Rationals PROVE Zero (-) x = Neg(x)
  BY MinusIs, NegClosed, PlusZero, SumCommutes
<1>2. QED
  BY <1>1

\* A quotient with both signs turned.
LEMMA QuotientTurned ==
  \A x, y \in Rationals : y # Zero => Neg(y) # Zero /\ x (/) Neg(y) = Neg(x) (/) y
<1>1. ASSUME NEW x \in Rationals, NEW y \in Rationals, y # Zero
      PROVE  Neg(y) # Zero /\ x (/) Neg(y) = Neg(x) (/) y
  <2>1. Neg(y) \in Rationals /\ Neg(x) \in Rationals /\ Neg(y) # Zero
    BY <1>1, NegClosed, NegZero
  <2>2. PICK z \in Rationals : z = x (/) Neg(y) /\ Neg(y) (.) z = x
    BY <2>1, QuotientTimes
  <2>3. y (.) z = Neg(x)
    BY <2>2, MinusProduct, NegOfNeg, ProductClosed
  <2>4. z = Neg(x) (/) y
    BY <1>1, <2>1, <2>3, QuotientIs
  <2>5. QED
    BY <2>1, <2>2, <2>4
<1>2. QED
  BY <1>1

\* The rows that the two unit vectors are solved to.
LEMMA SolvedUnits ==
  ASSUME NEW a \in Rationals, NEW b \in Rationals, NEW c \in Rationals, NEW d \in Rationals, a # Zero,
         NEW q, q = b (/) a, NEW s, s = d (-) (c (.) q), s # Zero,
         NEW D, D = (a (.) d) (-) (b (.) c)
  PROVE  /\ D # Zero
         /\ XXSubstitute(Square(a, q, c, s), Row(One, Zero)) = Row(d (/) D, Neg(c) (/) D)
         /\ XXSubstitute(Square(a, q, c, s), Row(Zero, One)) = Row(Neg(b) (/) D, a (/) D)
<1>1. /\ D # Zero
      /\ XXSubstitute(Square(a, q, c, s), Row(One, Zero))
           = Row(((d (.) One) (-) (b (.) Zero)) (/) D, ((a (.) Zero) (-) (c (.) One)) (/) D)
  BY SolvedRow, PlusZero, TimesOne
<1>2. XXSubstitute(Square(a, q, c, s), Row(Zero, One))
        = Row(((d (.) Zero) (-) (b (.) One)) (/) D, ((a (.) One) (-) (c (.) Zero)) (/) D)
  BY SolvedRow, PlusZero, TimesOne
<1>3. /\ (d (.) One) (-) (b (.) Zero) = d /\ (a (.) Zero) (-) (c (.) One) = Neg(c)
      /\ (d (.) Zero) (-) (b (.) One) = Neg(b) /\ (a (.) One) (-) (c (.) Zero) = a
  BY TimesOne, TimesZero, MinusZero, ZeroMinus
<1>4. QED
  BY <1>1, <1>2, <1>3

\* The determinant, and the inverse if it is not zero.
LEMMA InverseOfSquare ==
  ASSUME NEW a \in Rationals, NEW b \in Rationals, NEW c \in Rationals, NEW d \in Rationals,
         NEW D, D = (a (.) d) (-) (b (.) c),
         NEW lu, lu = XXDecompose(Square(a, b, c, d))
  PROVE  lu.det = D /\ (D # Zero => Inverted(lu) = Adjugate(a, b, c, d, D))
<1>1. CASE a = Zero /\ c = Zero /\ lu.det = Zero
  <2>1. D = Zero
    BY <1>1, Neutral, MinusZero, PlusZero
  <2>2. QED
    BY <1>1, <2>1
<1>2. CASE /\ a # Zero
           /\ lu = [m |-> Square(a, b (/) a, c, d (-) (c (.) (b (/) a))), p |-> Two(0, 1),
                    det |-> a (.) (d (-) (c (.) (b (/) a)))]
  <2>1. PICK q : q = b (/) a
    OBVIOUS
  <2>2. PICK s : s = d (-) (c (.) q)
    OBVIOUS
  <2>3. lu = [m |-> Square(a, q, c, s), p |-> Two(0, 1), det |-> a (.) s]
    BY <1>2, <2>1, <2>2
  <2>4. lu.det = D
    BY <1>2, <2>1, <2>2, <2>3, PivotsMultiply
  <2>5. ASSUME D # Zero PROVE Inverted(lu) = Adjugate(a, b, c, d, D)
    <3>1. s # Zero
      BY <2>3, <2>4, <2>5, TimesZero
    <3>2. /\ XXSubstitute(Square(a, q, c, s), Row(One, Zero)) = Row(d (/) D, Neg(c) (/) D)
          /\ XXSubstitute(Square(a, q, c, s), Row(Zero, One)) = Row(Neg(b) (/) D, a (/) D)
      BY <1>2, <2>1, <2>2, <3>1, SolvedUnits
    <3>3. lu.m = Square(a, q, c, s) /\ lu.p = Two(0, 1) /\ lu.m.rows = 2
      BY <2>3, Elements
    <3>4. RowOfInverse(lu, 0) = Row(d (/) D, Neg(c) (/) D) /\ RowOfInverse(lu, 1) = Row(Neg(b) (/) D, a (/) D)
      BY <3>2, <3>3, UnitRows DEF RowOfInverse
    <3>5. QED
      BY <3>3, <3>4, InvertedTwice DEF Adjugate
  <2>6. QED
    BY <2>4, <2>5
<1>3. CASE /\ c # Zero
           /\ lu = [m |-> Square(c, d (/) c, a, b (-) (a (.) (d (/) c))), p |-> Two(1, 0),
                    det |-> Neg(c) (.) (b (-) (a (.) (d (/) c)))]
  <2>1. PICK q : q = d (/) c
    OBVIOUS
  <2>2. PICK s : s = b (-) (a (.) q)
    OBVIOUS
  <2>3. lu = [m |-> Square(c, q, a, s), p |-> Two(1, 0), det |-> Neg(c) (.) s]
    BY <1>3, <2>1, <2>2
  <2>4. PICK E : E = (c (.) b) (-) (d (.) a)
    OBVIOUS
  <2>5. E \in Rationals /\ c (.) s = E /\ D = Neg(E) /\ s \in Rationals /\ D \in Rationals
    <3>1. c (.) s = E
      BY <1>3, <2>1, <2>2, <2>4, PivotsMultiply
    <3>2. s \in Rationals
      BY <1>3, <2>1, <2>2, QuotientTimes, ProductClosed, MinusClosed
    <3>3. D = Neg(E) /\ E \in Rationals /\ D \in Rationals
      BY <2>4, MinusTurned, ProductClosed, ProductCommutes, MinusClosed
    <3>4. QED
      BY <3>1, <3>2, <3>3
  <2>6. lu.det = D
    BY <2>3, <2>5, MinusProduct
  <2>7. ASSUME D # Zero PROVE Inverted(lu) = Adjugate(a, b, c, d, D)
    <3>1. s # Zero
      BY <2>5, <2>7, TimesZero, NegZero
    <3>2. /\ E # Zero
          /\ XXSubstitute(Square(c, q, a, s), Row(One, Zero)) = Row(b (/) E, Neg(a) (/) E)
          /\ XXSubstitute(Square(c, q, a, s), Row(Zero, One)) = Row(Neg(d) (/) E, c (/) E)
      BY <1>3, <2>1, <2>2, <2>4, <3>1, SolvedUnits
    <3>3. lu.m = Square(c, q, a, s) /\ lu.p = Two(1, 0) /\ lu.m.rows = 2
      BY <2>3, Elements
    <3>4. RowOfInverse(lu, 0) = Row(Neg(d) (/) E, c (/) E) /\ RowOfInverse(lu, 1) = Row(b (/) E, Neg(a) (/) E)
      BY <3>2, <3>3, UnitRows DEF RowOfInverse
    <3>5. Inverted(lu) = Square(Neg(d) (/) E, b (/) E, c (/) E, Neg(a) (/) E)
      BY <3>3, <3>4, InvertedTwice
    <3>6. \A x \in Rationals : Neg(x) (/) E = x (/) D
      BY <2>5, <3>2, QuotientTurned
    <3>7. b (/) E = Neg(b) (/) D /\ c (/) E = Neg(c) (/) D
      BY <3>6, NegClosed, NegOfNeg
    <3>8. QED
      BY <3>5, <3>6, <3>7 DEF Adjugate
  <2>8. QED
    BY <2>6, <2>7
<1>4. QED
  BY <1>1, <1>2, <1>3, DecomposedSquare

\* XXInverse of 2 x 2 numbers: the determinant, and the inverse of linear algebra
\* or the destination as it was (common/xxinverse.cpp, XXInverse).
THEOREM InverseOfTwo ==
  ASSUME NEW a \in Rationals, NEW b \in Rationals, NEW c \in Rationals, NEW d \in Rationals,
         NEW dest, NEW D, D = (a (.) d) (-) (b (.) c)
  PROVE  /\ XXMatrixDeterminant(Square(a, b, c, d)) = D
         /\ XXInverse(dest, Square(a, b, c, d))
              = [mat |-> IF D = Zero THEN dest ELSE Adjugate(a, b, c, d, D), det |-> D]
<1> DEFINE lu == XXDecompose(Square(a, b, c, d))
<1>1. lu.det = D /\ (D # Zero => Inverted(lu) = Adjugate(a, b, c, d, D))
  BY InverseOfSquare
<1> HIDE DEF lu
<1>2. QED
  BY <1>1 DEF XXInverse, InverseFrom, XXMatrixDeterminant, lu

-----------------------------------------------------------------------------
(***************************************************************************)
(* Products and sums of small matrices.                                    *)
(***************************************************************************)

\* An element of a product.
Factors(A, B, c, i, k) == A.mat[(i \div c) * A.columns + k] (.) B.mat[(i % c) + (k * B.columns)]
ProductAt(A, B, c, i) == Total(B.rows, LAMBDA k : Factors(A, B, c, i, k))

\* An element of a product is a sum of two products.
LEMMA ProductOfTwo ==
  ASSUME NEW A, NEW B, B.rows = 2, NEW c, NEW i
  PROVE  ProductAt(A, B, c, i) = (Zero (+) Factors(A, B, c, i, 0)) (+) Factors(A, B, c, i, 1)
<1> DEFINE Part(k) == Factors(A, B, c, i, k)
           Solves(f) == f = [k \in 0 .. 2 |-> IF k = 0 THEN Zero ELSE f[k - 1] (+) Part(k - 1)]
           F == [k \in 0 .. 2 |-> IF k = 0 THEN Zero ELSE IF k = 1 THEN Zero (+) Part(0)
                                  ELSE (Zero (+) Part(0)) (+) Part(1)]
           g == CHOOSE f : Solves(f)
<1>1. ProductAt(A, B, c, i) = g[2]
  BY DEF ProductAt, Total, Loop
<1> HIDE DEF Part
<1>2. Solves(F)
  OBVIOUS
<1>3. Solves(g)
  <2> HIDE DEF F, Solves
  <2>1. QED
    BY <1>2
<1> HIDE DEF g
<1>4. g[0] = Zero /\ g[1] = g[0] (+) Part(0) /\ g[2] = g[1] (+) Part(1)
  BY <1>3
<1>5. QED
  BY <1>1, <1>4 DEF Part

\* A matrix of 2 x 2 and a column.
LEMMA SquareTimesColumn ==
  ASSUME NEW a \in Rationals, NEW b \in Rationals, NEW c \in Rationals, NEW d \in Rationals,
         NEW x \in Rationals, NEW y \in Rationals
  PROVE  XXMatrixMul(2, 1, Square(a, b, c, d), Column(x, y))
           = Column((a (.) x) (+) (b (.) y), (c (.) x) (+) (d (.) y))
<1> DEFINE A == Square(a, b, c, d)
           B == Column(x, y)
           At(i) == ProductAt(A, B, 1, i)
<1>1. XXMatrixMul(2, 1, A, B) = [rows |-> 2, columns |-> 1, mat |-> [i \in 0 .. 2 * 1 - 1 |-> At(i)]]
  <2> HIDE DEF A, B
  <2>1. QED
    BY DEF XXMatrixMul, Matrix, ProductAt, Factors
<1>2. /\ A.columns = 2 /\ A.mat[0] = a /\ A.mat[1] = b /\ A.mat[2] = c /\ A.mat[3] = d
      /\ B.rows = 2 /\ B.columns = 1 /\ B.mat[0] = x /\ B.mat[1] = y
  BY Elements
<1> HIDE DEF A, B
<1>3. /\ Factors(A, B, 1, 0, 0) = a (.) x /\ Factors(A, B, 1, 0, 1) = b (.) y
      /\ Factors(A, B, 1, 1, 0) = c (.) x /\ Factors(A, B, 1, 1, 1) = d (.) y
  <2>1. 0 \div 1 = 0 /\ 1 \div 1 = 1 /\ 0 % 1 = 0 /\ 1 % 1 = 0
    OBVIOUS
  <2>2. QED
    BY <1>2, <2>1 DEF Factors
<1>4. At(0) = (a (.) x) (+) (b (.) y) /\ At(1) = (c (.) x) (+) (d (.) y)
  <2>1. /\ At(0) = (Zero (+) (a (.) x)) (+) (b (.) y)
        /\ At(1) = (Zero (+) (c (.) x)) (+) (d (.) y)
    BY <1>2, <1>3, ProductOfTwo
  <2>2. \A p \in Rationals : Zero (+) p = p
    BY Neutral
  <2>3. QED
    BY <2>1, <2>2, ProductClosed
<1> HIDE DEF At
<1>5. [i \in 0 .. 2 * 1 - 1 |-> At(i)] = Two(At(0), At(1))
  BY RangesOfTwo DEF Two
<1>6. QED
  BY <1>1, <1>4, <1>5 DEF A, B, Column

\* A row and a column.
LEMMA RowTimesColumn ==
  ASSUME NEW a \in Rationals, NEW b \in Rationals, NEW x \in Rationals, NEW y \in Rationals
  PROVE  XXScalarMatrixMatrixMul(Row(a, b), Column(x, y)) = (a (.) x) (+) (b (.) y)
<1> DEFINE A == Row(a, b)
           B == Column(x, y)
           Part(k) == A.mat[k] (.) B.mat[k]
           Solves(f) == f = [k \in 0 .. 2 |-> IF k = 0 THEN Zero ELSE f[k - 1] (+) Part(k - 1)]
           F == [k \in 0 .. 2 |-> IF k = 0 THEN Zero ELSE IF k = 1 THEN Zero (+) Part(0)
                                  ELSE (Zero (+) Part(0)) (+) Part(1)]
           g == CHOOSE f : Solves(f)
<1>1. A.columns = 2 /\ A.mat[0] = a /\ A.mat[1] = b /\ B.mat[0] = x /\ B.mat[1] = y
  BY Elements
<1> HIDE DEF A, B
<1>2. XXScalarMatrixMatrixMul(A, B) = g[2]
  BY <1>1 DEF XXScalarMatrixMatrixMul, Total, Loop
<1>3. Part(0) = a (.) x /\ Part(1) = b (.) y
  BY <1>1
<1> HIDE DEF Part
<1>4. Solves(F)
  OBVIOUS
<1>5. Solves(g)
  <2> HIDE DEF F, Solves
  <2>1. QED
    BY <1>4
<1> HIDE DEF g
<1>6. g[0] = Zero /\ g[1] = g[0] (+) Part(0) /\ g[2] = g[1] (+) Part(1)
  BY <1>5
<1>7. \A p \in Rationals : Zero (+) p = p
  BY Neutral
<1>8. QED
  BY <1>2, <1>3, <1>6, <1>7, ProductClosed DEF A, B

\* What else is done with columns and with matrices of 2 x 2.
LEMMA Columns ==
  ASSUME NEW x, NEW y, NEW v, NEW w, NEW s
  PROVE  /\ XXMatrixAdd(Column(x, y), Column(v, w)) = Column(x (+) v, y (+) w)
         /\ XXMatrixScalarMul(Column(x, y), s) = Column(x (.) s, y (.) s)
         /\ XXMatrixInv(Column(x, y)) = Column(Neg(x), Neg(y))
         /\ XXMatrixTranspose(1, 2, Column(x, y)) = Row(x, y)
<1>1. XXMatrixAdd(Column(x, y), Column(v, w)) = Column(x (+) v, y (+) w)
  BY RangesOfTwo DEF XXMatrixAdd, Matrix, Column, Two
<1>2. XXMatrixScalarMul(Column(x, y), s) = Column(x (.) s, y (.) s)
  BY RangesOfTwo DEF XXMatrixScalarMul, Matrix, Column, Two
<1>3. XXMatrixInv(Column(x, y)) = Column(Neg(x), Neg(y))
  BY RangesOfTwo DEF XXMatrixInv, Matrix, Column, Two
<1>4. XXMatrixTranspose(1, 2, Column(x, y)) = Row(x, y)
  BY RangesOfTwo DEF XXMatrixTranspose, Matrix, Column, Row, Two
<1>5. QED
  BY <1>1, <1>2, <1>3, <1>4

\* Matrices of 2 x 2 scaled, transposed and made.
LEMMA Squares ==
  ASSUME NEW a, NEW b, NEW c, NEW d, NEW s
  PROVE  /\ XXMatrixScalarMul(Square(a, b, c, d), s) = Square(a (.) s, b (.) s, c (.) s, d (.) s)
         /\ XXMatrixTranspose(2, 2, Square(a, b, c, d)) = Square(a, c, b, d)
         /\ XXMatrixEye(2) = Square(One, Zero, Zero, One)
         /\ Blank = Square(Zero, Zero, Zero, Zero)
<1>1. XXMatrixScalarMul(Square(a, b, c, d), s) = Square(a (.) s, b (.) s, c (.) s, d (.) s)
  BY RangesOfTwo DEF XXMatrixScalarMul, Matrix, Square, Four
<1>2. XXMatrixTranspose(2, 2, Square(a, b, c, d)) = Square(a, c, b, d)
  BY RangesOfTwo DEF XXMatrixTranspose, Matrix, Square, Four
<1>3. XXMatrixEye(2) = Square(One, Zero, Zero, One)
  BY RangesOfTwo DEF XXMatrixEye, Matrix, Square, Four
<1>4. Blank = Square(Zero, Zero, Zero, Zero)
  BY RangesOfTwo DEF Blank, XXMatrixScalarMov, Matrix, Square, Four
<1>5. QED
  BY <1>1, <1>2, <1>3, <1>4

-----------------------------------------------------------------------------
(***************************************************************************)
(* Where the power goes, in numbers.                                       *)
(***************************************************************************)

\* Four numbers added up in another order.
LEMMA Interchange ==
  \A a, b, c, d \in Rationals : (a (+) b) (+) (c (+) d) = (a (+) c) (+) (b (+) d)
<1>1. ASSUME NEW a \in Rationals, NEW b \in Rationals, NEW c \in Rationals, NEW d \in Rationals
      PROVE  (a (+) b) (+) (c (+) d) = (a (+) c) (+) (b (+) d)
  BY SumClosed, SumCommutes, SumAssociates
<1>2. QED
  BY <1>1

Interchanged(a, b, c, d) == (a (+) b) (+) (c (+) d) = (a (+) c) (+) (b (+) d)

\* The same, as a law of its four numbers.
LEMMA InterchangeLaw == \A a, b, c, d \in Rationals : Interchanged(a, b, c, d)
BY Interchange DEF Interchanged

\* Four numbers added up in another grouping.
LEMMA Regroup ==
  \A a, b, c, d \in Rationals : (a (+) (b (+) c)) (+) d = (a (+) b) (+) (c (+) d)
<1>1. ASSUME NEW a \in Rationals, NEW b \in Rationals, NEW c \in Rationals, NEW d \in Rationals
      PROVE  (a (+) (b (+) c)) (+) d = (a (+) b) (+) (c (+) d)
  BY SumClosed, SumAssociates
<1>2. QED
  BY <1>1

\* A number added and taken off.
LEMMA PlusMinus == \A x, g \in Rationals : (x (+) g) (+) Neg(g) = x
<1>1. ASSUME NEW x \in Rationals, NEW g \in Rationals PROVE (x (+) g) (+) Neg(g) = x
  BY NegClosed, SumAssociates, Opposite, PlusZero
<1>2. QED
  BY <1>1

\* A number taken off and added.
LEMMA MinusPlus == \A x, y \in Rationals : x = (x (-) y) (+) y
<1>1. ASSUME NEW x \in Rationals, NEW y \in Rationals PROVE x = (x (-) y) (+) y
  <2>1. Neg(y) \in Rationals /\ Neg(y) (+) y = Zero
    BY NegClosed, SumCommutes, Opposite
  <2>2. QED
    BY <2>1, MinusIs, SumAssociates, PlusZero
<1>2. QED
  BY <1>1

\* The powers of one side, added up.
SideAddsUp(a, m, w, lb, lf, E0, E1, D0, D1, G0, G1, A) ==
  m = A (+) ((w (+) lb) (+) lf) /\ w (+) G0 = E0 (+) D0 /\ G1 = E1 (+) D1 =>
    a (+) m
      = (((A (+) E0) (+) E1) (+) ((((a (+) lf) (+) lb) (+) D0) (+) D1)) (+) Neg(G0 (+) G1)

\* The sum of the powers of one side.
LEMMA SumOfSide ==
  ASSUME NEW a \in Rationals, NEW m \in Rationals, NEW w \in Rationals, NEW lb \in Rationals,
         NEW lf \in Rationals, NEW E0 \in Rationals, NEW E1 \in Rationals, NEW D0 \in Rationals,
         NEW D1 \in Rationals, NEW G0 \in Rationals, NEW G1 \in Rationals, NEW A \in Rationals
  PROVE  SideAddsUp(a, m, w, lb, lf, E0, E1, D0, D1, G0, G1, A)
<1>1. PICK L : L \in Rationals /\ L = (a (+) lf) (+) lb
  BY SumClosed
<1>2. PICK H : H \in Rationals /\ H = A (+) L
  BY <1>1, SumClosed
<1>3. ((A (+) E0) (+) E1) (+) ((L (+) D0) (+) D1) = (H (+) (E0 (+) D0)) (+) (E1 (+) D1)
  <2>1. ((A (+) E0) (+) E1) (+) ((L (+) D0) (+) D1) = ((A (+) E0) (+) (L (+) D0)) (+) (E1 (+) D1)
    <3>1. L \in Rationals /\ A (+) E0 \in Rationals /\ L (+) D0 \in Rationals
      BY <1>1, SumClosed
    <3>2. QED
      BY <3>1, Interchange
  <2>2. (A (+) E0) (+) (L (+) D0) = (A (+) L) (+) (E0 (+) D0)
    BY <1>1, Interchange
  <2>3. QED
    BY <1>2, <2>1, <2>2
<1>4. (H (+) (w (+) G0)) (+) G1 = (H (+) w) (+) (G0 (+) G1)
  <2>1. H \in Rationals
    BY <1>2
  <2>2. QED
    BY <2>1, Regroup
<1>5. ((H (+) w) (+) (G0 (+) G1)) (+) Neg(G0 (+) G1) = H (+) w
  <2>1. H (+) w \in Rationals /\ G0 (+) G1 \in Rationals
    BY <1>2, SumClosed
  <2>2. QED
    BY <2>1, PlusMinus
<1>6. a (+) (A (+) ((w (+) lb) (+) lf)) = H (+) w
  <2>1. PICK t \in Rationals : t = lb (+) lf
    BY SumClosed
  <2>2. (w (+) lb) (+) lf = w (+) t /\ L = a (+) t
    BY <1>1, <2>1, SumCommutes, SumAssociates
  <2>3. a (+) (A (+) (w (+) t)) = (A (+) (a (+) t)) (+) w
    BY SumClosed, SumCommutes, SumAssociates
  <2>4. QED
    BY <1>2, <2>2, <2>3
<1>7. ASSUME m = A (+) ((w (+) lb) (+) lf), w (+) G0 = E0 (+) D0, G1 = E1 (+) D1
      PROVE  a (+) m = (((A (+) E0) (+) E1) (+) ((L (+) D0) (+) D1)) (+) Neg(G0 (+) G1)
  BY <1>3, <1>4, <1>5, <1>6, <1>7
<1>8. QED
  BY <1>1, <1>7 DEF SideAddsUp

\* One side: a motor, a rotor with friction, a gearbox, a wheel with friction and a
\* tyre that slips.  y is the force along the wheel as the wheel has it, z the
\* speed of the wheel as the body has it.
SideLaw(volt, K, speed, I, R, n, b, r, f, y, z, p0, p1, e0, e1, d0, d1, g0, F0, F1, T, wheel) ==
  (/\ R # Zero /\ I = (volt (-) (K (.) speed)) (/) R /\ wheel = n (.) speed
   /\ T = (K (.) I) (-) ((n (.) ((r (.) y) (+) (b (.) wheel))) (+) (f (.) speed))
   /\ g0 = p0 (+) z /\ z (.) F0 = (r (.) wheel) (.) y
   /\ F0 = e0 (+) (d0 (.) g0) /\ F1 = e1 (+) (d1 (.) p1))
  => volt (.) I
       = ((((speed (.) T) (+) (e0 (.) g0)) (+) (e1 (.) p1))
            (+) ((((((I (.) I) (.) R) (+) ((speed (.) speed) (.) f))
                     (+) ((wheel (.) wheel) (.) b))
                    (+) ((g0 (.) g0) (.) d0)) (+) ((p1 (.) p1) (.) d1)))
         (+) Neg((F0 (.) p0) (+) (F1 (.) p1))

\* The power of the motor of a side is stored, lost, or given to the body.
LEMMA PowerOfSide ==
  ASSUME NEW volt \in Rationals, NEW K \in Rationals, NEW speed \in Rationals, NEW I \in Rationals,
         NEW R \in Rationals, NEW n \in Rationals, NEW b \in Rationals, NEW r \in Rationals,
         NEW f \in Rationals, NEW y \in Rationals, NEW z \in Rationals,
         NEW p0 \in Rationals, NEW p1 \in Rationals, NEW e0 \in Rationals, NEW e1 \in Rationals,
         NEW d0 \in Rationals, NEW d1 \in Rationals, NEW g0 \in Rationals,
         NEW F0 \in Rationals, NEW F1 \in Rationals, NEW T \in Rationals, NEW wheel \in Rationals
  PROVE  SideLaw(volt, K, speed, I, R, n, b, r, f, y, z, p0, p1, e0, e1, d0, d1, g0, F0, F1, T, wheel)
<1>0. SUFFICES ASSUME
        R # Zero, I = (volt (-) (K (.) speed)) (/) R, wheel = n (.) speed,
        T = (K (.) I) (-) ((n (.) ((r (.) y) (+) (b (.) wheel))) (+) (f (.) speed)),
        g0 = p0 (+) z, z (.) F0 = (r (.) wheel) (.) y,
        F0 = e0 (+) (d0 (.) g0), F1 = e1 (+) (d1 (.) p1)
      PROVE  volt (.) I
           = ((((speed (.) T) (+) (e0 (.) g0)) (+) (e1 (.) p1))
                (+) ((((((I (.) I) (.) R) (+) ((speed (.) speed) (.) f))
                         (+) ((wheel (.) wheel) (.) b))
                        (+) ((g0 (.) g0) (.) d0)) (+) ((p1 (.) p1) (.) d1)))
             (+) Neg((F0 (.) p0) (+) (F1 (.) p1))
  BY DEF SideLaw
<1>1. volt (.) I = ((I (.) I) (.) R) (+) (speed (.) (K (.) I))
  <2>1. K (.) speed \in Rationals /\ volt (-) (K (.) speed) \in Rationals
    BY ProductClosed, MinusClosed
  <2>2. R (.) I = volt (-) (K (.) speed)
    BY <1>0, <2>1, QuotientTimes
  <2>3. volt = (R (.) I) (+) (K (.) speed)
    BY <2>1, <2>2, MinusPlus
  <2>4. volt (.) I = ((R (.) I) (.) I) (+) ((K (.) speed) (.) I)
    <3>1. \A u, v \in Rationals : (u (+) v) (.) I = (u (.) I) (+) (v (.) I)
      BY SumClosed, ProductCommutes, Distributes
    <3>2. QED
      BY <2>1, <2>3, <3>1, ProductClosed
  <2>5. (R (.) I) (.) I = (I (.) I) (.) R /\ (K (.) speed) (.) I = speed (.) (K (.) I)
    BY ProductClosed, ProductCommutes, ProductAssociates
  <2>6. QED
    BY <2>4, <2>5
<1>2. speed (.) (K (.) I)
        = (speed (.) T)
            (+) (((wheel (.) (r (.) y)) (+) ((wheel (.) wheel) (.) b)) (+) ((speed (.) speed) (.) f))
  <2>1. PICK q \in Rationals : q = (r (.) y) (+) (b (.) wheel)
    BY SumClosed, ProductClosed
  <2>2. PICK v \in Rationals : v = (n (.) q) (+) (f (.) speed)
    BY SumClosed, ProductClosed
  <2>3. K (.) I = T (+) v
    BY <1>0, <2>1, <2>2, MinusPlus, ProductClosed
  <2>4. speed (.) (K (.) I) = (speed (.) T) (+) (speed (.) v)
    BY <2>3, Distributes
  <2>5. speed (.) v = (wheel (.) q) (+) ((speed (.) speed) (.) f)
    <3>1. speed (.) v = (speed (.) (n (.) q)) (+) (speed (.) (f (.) speed))
      BY <2>2, Distributes, ProductClosed
    <3>2. speed (.) (n (.) q) = wheel (.) q /\ speed (.) (f (.) speed) = (speed (.) speed) (.) f
      BY <1>0, ProductClosed, ProductCommutes, ProductAssociates
    <3>3. QED
      BY <3>1, <3>2
  <2>6. wheel (.) q = (wheel (.) (r (.) y)) (+) ((wheel (.) wheel) (.) b)
    <3>1. wheel (.) q = (wheel (.) (r (.) y)) (+) (wheel (.) (b (.) wheel))
      BY <2>1, Distributes, ProductClosed
    <3>2. wheel (.) (b (.) wheel) = (wheel (.) wheel) (.) b
      BY ProductClosed, ProductCommutes, ProductAssociates
    <3>3. QED
      BY <3>1, <3>2
  <2>7. QED
    BY <2>4, <2>5, <2>6
<1>3. (wheel (.) (r (.) y)) (+) (F0 (.) p0) = (e0 (.) g0) (+) ((g0 (.) g0) (.) d0)
  <2>1. wheel (.) (r (.) y) = F0 (.) z
    BY <1>0, ProductClosed, ProductCommutes, ProductAssociates
  <2>2. F0 (.) g0 = (F0 (.) p0) (+) (F0 (.) z)
    BY <1>0, Distributes
  <2>3. g0 (.) F0 = (g0 (.) e0) (+) (g0 (.) (d0 (.) g0))
    <3>1. d0 (.) g0 \in Rationals
      BY ProductClosed
    <3>2. g0 (.) (e0 (+) (d0 (.) g0)) = (g0 (.) e0) (+) (g0 (.) (d0 (.) g0))
      BY <3>1, Distributes
    <3>3. QED
      BY <1>0, <3>2
  <2>4. g0 (.) (d0 (.) g0) = (g0 (.) g0) (.) d0
    BY ProductClosed, ProductCommutes, ProductAssociates
  <2>5. QED
    BY <2>1, <2>2, <2>3, <2>4, ProductCommutes, SumCommutes, ProductClosed
<1>4. F1 (.) p1 = (e1 (.) p1) (+) ((p1 (.) p1) (.) d1)
  <2>1. p1 (.) F1 = (p1 (.) e1) (+) (p1 (.) (d1 (.) p1))
    BY <1>0, Distributes, ProductClosed
  <2>2. p1 (.) (d1 (.) p1) = (p1 (.) p1) (.) d1
    BY ProductClosed, ProductCommutes, ProductAssociates
  <2>3. QED
    BY <2>1, <2>2, ProductCommutes
<1> DEFINE a == (I (.) I) (.) R
           m == speed (.) (K (.) I)
           A == speed (.) T
           w == wheel (.) (r (.) y)
           lb == (wheel (.) wheel) (.) b
           lf == (speed (.) speed) (.) f
           E0 == e0 (.) g0
           E1 == e1 (.) p1
           D0 == (g0 (.) g0) (.) d0
           D1 == (p1 (.) p1) (.) d1
           G0 == F0 (.) p0
           G1 == F1 (.) p1
<1>5. /\ a \in Rationals /\ m \in Rationals /\ A \in Rationals /\ w \in Rationals
      /\ lb \in Rationals /\ lf \in Rationals /\ E0 \in Rationals /\ E1 \in Rationals
      /\ D0 \in Rationals /\ D1 \in Rationals /\ G0 \in Rationals /\ G1 \in Rationals
  BY ProductClosed
<1> HIDE DEF a, m, A, w, lb, lf, E0, E1, D0, D1, G0, G1
<1>6. m = A (+) ((w (+) lb) (+) lf) /\ w (+) G0 = E0 (+) D0 /\ G1 = E1 (+) D1
  BY <1>2, <1>3, <1>4 DEF m, A, w, lb, lf, E0, E1, D0, D1, G0, G1
<1>7. a (+) m
        = (((A (+) E0) (+) E1) (+) ((((a (+) lf) (+) lb) (+) D0) (+) D1)) (+) Neg(G0 (+) G1)
  <2>1. SideAddsUp(a, m, w, lb, lf, E0, E1, D0, D1, G0, G1, A)
    BY <1>5, SumOfSide
  <2>2. QED
    BY <1>6, <2>1 DEF SideAddsUp
<1>8. QED
  BY <1>1, <1>7 DEF a, m, A, lb, lf, E0, E1, D0, D1, G0, G1

\* A product with a sum, from the right.
LEMMA TimesSum == \A a, b, c \in Rationals : (a (+) b) (.) c = (a (.) c) (+) (b (.) c)
<1>1. ASSUME NEW a \in Rationals, NEW b \in Rationals, NEW c \in Rationals
      PROVE  (a (+) b) (.) c = (a (.) c) (+) (b (.) c)
  BY SumClosed, ProductCommutes, Distributes
<1>2. QED
  BY <1>1

\* Four numbers added up crosswise.
LEMMA PairsExchanged ==
  \A a, b, c, d \in Rationals : (a (+) b) (+) (c (+) d) = (c (+) a) (+) (d (+) b)
<1>1. ASSUME NEW a \in Rationals, NEW b \in Rationals, NEW c \in Rationals, NEW d \in Rationals
      PROVE  (a (+) b) (+) (c (+) d) = (c (+) a) (+) (d (+) b)
  BY SumCommutes, Interchange
<1>2. QED
  BY <1>1

\* The push of a force n through the transposed inverse has the power that the
\* force has on what the inverse makes of the velocity x.
Turned(w, x, y, z, x0, x1, n0, n1) ==
  (x0 (.) ((w (.) n0) (+) (y (.) n1))) (+) (x1 (.) ((x (.) n0) (+) (z (.) n1)))
    = (n0 (.) ((w (.) x0) (+) (x (.) x1))) (+) (n1 (.) ((y (.) x0) (+) (z (.) x1)))

\* The transposed matrix gives the power back.
LEMMA PowerTurned ==
  ASSUME NEW w \in Rationals, NEW x \in Rationals, NEW y \in Rationals, NEW z \in Rationals,
         NEW x0 \in Rationals, NEW x1 \in Rationals, NEW n0 \in Rationals, NEW n1 \in Rationals
  PROVE  Turned(w, x, y, z, x0, x1, n0, n1)
<1>1. ASSUME NEW a \in Rationals, NEW p \in Rationals, NEW n \in Rationals, NEW q \in Rationals,
             NEW m \in Rationals
      PROVE  a (.) ((p (.) n) (+) (q (.) m)) = (n (.) (p (.) a)) (+) (m (.) (q (.) a))
  <2>1. a (.) ((p (.) n) (+) (q (.) m)) = (a (.) (p (.) n)) (+) (a (.) (q (.) m))
    BY ProductClosed, Distributes
  <2>2. \A c, r, k \in Rationals : c (.) (r (.) k) = k (.) (r (.) c)
    BY ProductClosed, ProductCommutes, ProductAssociates
  <2>3. QED
    BY <2>1, <2>2
<1>2. PICK A \in Rationals, B \in Rationals, C \in Rationals, D \in Rationals :
        /\ A = n0 (.) (w (.) x0) /\ B = n1 (.) (y (.) x0)
        /\ C = n0 (.) (x (.) x1) /\ D = n1 (.) (z (.) x1)
  BY ProductClosed
<1>3. /\ x0 (.) ((w (.) n0) (+) (y (.) n1)) = A (+) B
      /\ x1 (.) ((x (.) n0) (+) (z (.) n1)) = C (+) D
  <2>1. x0 (.) ((w (.) n0) (+) (y (.) n1)) = (n0 (.) (w (.) x0)) (+) (n1 (.) (y (.) x0))
    BY <1>1, SMTT(30)
  <2>2. x1 (.) ((x (.) n0) (+) (z (.) n1)) = (n0 (.) (x (.) x1)) (+) (n1 (.) (z (.) x1))
    BY <1>1, SMTT(30)
  <2>3. QED
    BY <1>2, <2>1, <2>2
<1>4. /\ n0 (.) ((w (.) x0) (+) (x (.) x1)) = A (+) C
      /\ n1 (.) ((y (.) x0) (+) (z (.) x1)) = B (+) D
  BY <1>2, Distributes, ProductClosed
<1>5. (A (+) B) (+) (C (+) D) = (A (+) C) (+) (B (+) D)
  BY Interchange
<1>6. QED
  BY <1>3, <1>4, <1>5 DEF Turned

\* A force f at a point of the body that moves with v and turns with om.
AtPoint(f0, f1, v0, v1, a0, a1, om) == (f0 (.) (v0 (+) (a0 (.) om))) (+) (f1 (.) (v1 (+) (a1 (.) om)))

AtPointLaw(f0, f1, v0, v1, a0, a1, om) ==
  AtPoint(f0, f1, v0, v1, a0, a1, om)
    = ((f0 (.) v0) (+) (f1 (.) v1)) (+) (om (.) ((a0 (.) f0) (+) (a1 (.) f1)))

\* The power of a force at a point is that of its push and that of its moment.
LEMMA PowerAtPoint ==
  ASSUME NEW f0 \in Rationals, NEW f1 \in Rationals, NEW v0 \in Rationals, NEW v1 \in Rationals,
         NEW a0 \in Rationals, NEW a1 \in Rationals, NEW om \in Rationals
  PROVE  AtPointLaw(f0, f1, v0, v1, a0, a1, om)
<1>1. ASSUME NEW f \in Rationals, NEW v \in Rationals, NEW a \in Rationals
      PROVE  f (.) (v (+) (a (.) om)) = (f (.) v) (+) (om (.) (a (.) f))
  <2>1. f (.) (v (+) (a (.) om)) = (f (.) v) (+) (f (.) (a (.) om))
    BY ProductClosed, Distributes
  <2>2. f (.) (a (.) om) = om (.) (a (.) f)
    BY ProductClosed, ProductCommutes, ProductAssociates
  <2>3. QED
    BY <2>1, <2>2
<1>2. PICK A \in Rationals, B \in Rationals, C \in Rationals, D \in Rationals :
        /\ A = f0 (.) v0 /\ B = om (.) (a0 (.) f0) /\ C = f1 (.) v1 /\ D = om (.) (a1 (.) f1)
  BY ProductClosed
<1>3. om (.) ((a0 (.) f0) (+) (a1 (.) f1)) = B (+) D
  BY <1>2, Distributes, ProductClosed
<1>4. (A (+) B) (+) (C (+) D) = (A (+) C) (+) (B (+) D)
  BY Interchange
<1>5. QED
  BY <1>1, <1>2, <1>3, <1>4 DEF AtPoint, AtPointLaw

\* Four numbers with their signs turned, added up crosswise.
LEMMA NegsExchanged ==
  \A g0, g1, h0, h1 \in Rationals :
    Neg(h0 (+) h1) (+) Neg(g0 (+) g1) = Neg(g0 (+) h0) (+) Neg(g1 (+) h1)
<1>1. ASSUME NEW g0 \in Rationals, NEW g1 \in Rationals, NEW h0 \in Rationals, NEW h1 \in Rationals
      PROVE  Neg(h0 (+) h1) (+) Neg(g0 (+) g1) = Neg(g0 (+) h0) (+) Neg(g1 (+) h1)
  <2>1. /\ Neg(h0 (+) h1) = Neg(h0) (+) Neg(h1) /\ Neg(g0 (+) g1) = Neg(g0) (+) Neg(g1)
        /\ Neg(g0 (+) h0) = Neg(g0) (+) Neg(h0) /\ Neg(g1 (+) h1) = Neg(g1) (+) Neg(h1)
    BY NegOfSum
  <2>2. PICK a \in Rationals, b \in Rationals, c \in Rationals, d \in Rationals :
          a = Neg(h0) /\ b = Neg(h1) /\ c = Neg(g0) /\ d = Neg(g1)
    BY NegClosed
  <2>3. (a (+) b) (+) (c (+) d) = (c (+) a) (+) (d (+) b)
    BY PairsExchanged
  <2>4. QED
    BY <2>1, <2>2, <2>3
<1>2. QED
  BY <1>1

\* The body: what it takes up is what the forces at its two points have.
BodyAddsUp(w, x, y, z, x0, x1, f00, f01, f10, f11, a00, a01, a10, a11, om) ==
  LET own0 == (w (.) x0) (+) (x (.) x1)
      own1 == (y (.) x0) (+) (z (.) x1)
      n0 == Neg(f10 (+) f00)
      n1 == Neg(f11 (+) f01)
  IN  (om (.) Neg(((a00 (.) f00) (+) (a01 (.) f01)) (+) ((a10 (.) f10) (+) (a11 (.) f11))))
        (+) ((x0 (.) ((w (.) n0) (+) (y (.) n1))) (+) (x1 (.) ((x (.) n0) (+) (z (.) n1))))
      = Neg(AtPoint(f00, f01, own0, own1, a00, a01, om)) (+) Neg(AtPoint(f10, f11, own0, own1, a10, a11, om))

\* What the body takes up is what its two points get.
LEMMA PowerOfBody ==
  ASSUME NEW w \in Rationals, NEW x \in Rationals, NEW y \in Rationals, NEW z \in Rationals,
         NEW x0 \in Rationals, NEW x1 \in Rationals, NEW f00 \in Rationals, NEW f01 \in Rationals,
         NEW f10 \in Rationals, NEW f11 \in Rationals, NEW a00 \in Rationals, NEW a01 \in Rationals,
         NEW a10 \in Rationals, NEW a11 \in Rationals, NEW om \in Rationals
  PROVE  BodyAddsUp(w, x, y, z, x0, x1, f00, f01, f10, f11, a00, a01, a10, a11, om)
<1> DEFINE n0 == Neg(f10 (+) f00)
           n1 == Neg(f11 (+) f01)
<1>1. PICK v0 \in Rationals, v1 \in Rationals :
        v0 = (w (.) x0) (+) (x (.) x1) /\ v1 = (y (.) x0) (+) (z (.) x1)
  BY SumClosed, ProductClosed
<1>2. n0 \in Rationals /\ n1 \in Rationals
  BY SumClosed, NegClosed
<1>3. (x0 (.) ((w (.) n0) (+) (y (.) n1))) (+) (x1 (.) ((x (.) n0) (+) (z (.) n1)))
        = (n0 (.) v0) (+) (n1 (.) v1)
  <2> HIDE DEF n0, n1
  <2>1. Turned(w, x, y, z, x0, x1, n0, n1)
    BY <1>2, PowerTurned
  <2>2. QED
    BY <1>1, <2>1 DEF Turned
<1>4. PICK g0 \in Rationals, g1 \in Rationals :
        g0 = (f00 (.) v0) (+) (f01 (.) v1) /\ g1 = (f10 (.) v0) (+) (f11 (.) v1)
  BY SumClosed, ProductClosed
<1>5. PICK m0 \in Rationals, m1 \in Rationals :
        m0 = (a00 (.) f00) (+) (a01 (.) f01) /\ m1 = (a10 (.) f10) (+) (a11 (.) f11)
  BY SumClosed, ProductClosed
<1>6. PICK h0 \in Rationals, h1 \in Rationals : h0 = om (.) m0 /\ h1 = om (.) m1
  BY ProductClosed
<1>7. /\ AtPoint(f00, f01, v0, v1, a00, a01, om) = g0 (+) h0
      /\ AtPoint(f10, f11, v0, v1, a10, a11, om) = g1 (+) h1
  <2>1. AtPointLaw(f00, f01, v0, v1, a00, a01, om) /\ AtPointLaw(f10, f11, v0, v1, a10, a11, om)
    BY PowerAtPoint
  <2>2. QED
    BY <1>4, <1>5, <1>6, <2>1 DEF AtPointLaw
<1>8. (n0 (.) v0) (+) (n1 (.) v1) = Neg(g0 (+) g1)
  <2>1. PICK A \in Rationals, B \in Rationals, C \in Rationals, D \in Rationals :
          A = f00 (.) v0 /\ B = f01 (.) v1 /\ C = f10 (.) v0 /\ D = f11 (.) v1
    BY ProductClosed
  <2>2. n0 (.) v0 = Neg(A (+) C)
    <3>1. n0 (.) v0 = Neg((f10 (+) f00) (.) v0)
      BY MinusProduct, SumClosed
    <3>2. (f10 (+) f00) (.) v0 = C (+) A
      BY <2>1, TimesSum
    <3>3. QED
      BY <3>1, <3>2, SumCommutes
  <2>3. n1 (.) v1 = Neg(B (+) D)
    <3>1. n1 (.) v1 = Neg((f11 (+) f01) (.) v1)
      BY MinusProduct, SumClosed
    <3>2. (f11 (+) f01) (.) v1 = D (+) B
      BY <2>1, TimesSum
    <3>3. QED
      BY <3>1, <3>2, SumCommutes
  <2>4. Neg(A (+) C) (+) Neg(B (+) D) = Neg((A (+) C) (+) (B (+) D))
    BY NegOfSum, SumClosed
  <2>5. (A (+) C) (+) (B (+) D) = (A (+) B) (+) (C (+) D)
    <3>1. Interchanged(A, C, B, D)
      BY InterchangeLaw
    <3>2. QED
      BY <3>1 DEF Interchanged
  <2>6. g0 = A (+) B /\ g1 = C (+) D
    BY <1>4, <2>1
  <2>7. QED
    BY <2>2, <2>3, <2>4, <2>5, <2>6
<1>9. om (.) Neg(m0 (+) m1) = Neg(h0 (+) h1)
  <2>1. om (.) (m0 (+) m1) = h0 (+) h1
    BY <1>6, Distributes
  <2>2. QED
    BY <2>1, NegOfProduct, SumClosed
<1>10. Neg(h0 (+) h1) (+) Neg(g0 (+) g1) = Neg(g0 (+) h0) (+) Neg(g1 (+) h1)
  BY NegsExchanged, SMTT(30)
<1>11. (om (.) Neg(m0 (+) m1)) (+) ((n0 (.) v0) (+) (n1 (.) v1))
         = Neg(AtPoint(f00, f01, v0, v1, a00, a01, om)) (+) Neg(AtPoint(f10, f11, v0, v1, a10, a11, om))
  BY <1>7, <1>8, <1>9, <1>10
<1>12. QED
  BY <1>1, <1>3, <1>5, <1>11 DEF BodyAddsUp

-----------------------------------------------------------------------------
(***************************************************************************)
(* The equations of the plant, in numbers.                                 *)
(***************************************************************************)

\* Columns and matrices of 2 x 2, each operation by itself.
LEMMA AddColumns ==
  \A x, y, v, w : XXMatrixAdd(Column(x, y), Column(v, w)) = Column(x (+) v, y (+) w)
<1>1. ASSUME NEW x, NEW y, NEW v, NEW w
      PROVE  XXMatrixAdd(Column(x, y), Column(v, w)) = Column(x (+) v, y (+) w)
  BY RangesOfTwo DEF XXMatrixAdd, Matrix, Column, Two
<1>2. QED
  BY <1>1

\* A column scaled.
LEMMA ScaleColumn == \A x, y, s : XXMatrixScalarMul(Column(x, y), s) = Column(x (.) s, y (.) s)
BY Columns

\* The sign of a column turned.
LEMMA NegateColumn == \A x, y : XXMatrixInv(Column(x, y)) = Column(Neg(x), Neg(y))
BY Columns

\* A column transposed.
LEMMA TransposeColumn == \A x, y : XXMatrixTranspose(1, 2, Column(x, y)) = Row(x, y)
BY Columns

\* A matrix of 2 x 2 scaled.
LEMMA ScaleSquare ==
  \A a, b, c, d, s :
    XXMatrixScalarMul(Square(a, b, c, d), s) = Square(a (.) s, b (.) s, c (.) s, d (.) s)
BY Squares

\* A matrix of 2 x 2 transposed.
LEMMA TransposeSquare == \A a, b, c, d : XXMatrixTranspose(2, 2, Square(a, b, c, d)) = Square(a, c, b, d)
BY Squares

\* A vector of the plant is a column.
LEMMA VectorIs == \A x, y : Vector(x, y) = Column(x, y)
BY WrittenDown DEF Vector

\* A matrix written down row by row.
LEMMA SquareIs == \A a, b, c, d : Rows(2, 2, <<a, b, c, d>>) = Square(a, b, c, d)
BY WrittenDown
Multiplies(a, b, c, d, x, y) ==
  XXMatrixMul(2, 1, Square(a, b, c, d), Column(x, y))
    = Column((a (.) x) (+) (b (.) y), (c (.) x) (+) (d (.) y))

\* A matrix of 2 x 2 times a column, as a law of its numbers.
LEMMA MultiplyColumn == \A a, b, c, d, x, y \in Rationals : Multiplies(a, b, c, d, x, y)
BY SquareTimesColumn DEF Multiplies

\* A row times a column.
LEMMA MultiplyRow ==
  \A a, b, x, y \in Rationals :
    XXScalarMatrixMatrixMul(Row(a, b), Column(x, y)) = (a (.) x) (+) (b (.) y)
BY RowTimesColumn

\* The two numbers of a column.
LEMMA ColumnParts == \A x, y : Column(x, y).mat[0] = x /\ Column(x, y).mat[1] = y
BY Elements

\* An inverse, or zeros.
InverseOrZero(a, b, c, d) ==
  LET D == (a (.) d) (-) (b (.) c)
  IN  IF D = Zero THEN Square(Zero, Zero, Zero, Zero) ELSE Adjugate(a, b, c, d, D)

\* The inverse into a blank destination.
LEMMA InverseParts ==
  \A a, b, c, d \in Rationals : XXMatrixInverse(Blank, Square(a, b, c, d)) = InverseOrZero(a, b, c, d)
<1>1. ASSUME NEW a \in Rationals, NEW b \in Rationals, NEW c \in Rationals, NEW d \in Rationals
      PROVE  XXMatrixInverse(Blank, Square(a, b, c, d)) = InverseOrZero(a, b, c, d)
  <2>1. PICK D : D = (a (.) d) (-) (b (.) c)
    OBVIOUS
  <2>2. XXInverse(Blank, Square(a, b, c, d))
          = [mat |-> IF D = Zero THEN Blank ELSE Adjugate(a, b, c, d, D), det |-> D]
    BY <2>1, InverseOfTwo
  <2>3. QED
    BY <2>1, <2>2, Squares DEF XXMatrixInverse, InverseOrZero
<1>2. QED
  BY <1>1

\* One divided by a matrix, into a blank destination.
LEMMA DivideParts ==
  \A a, b, c, d \in Rationals : XXScalarMatrixDiv(Blank, One, Square(a, b, c, d)) = InverseOrZero(a, b, c, d)
<1>1. ASSUME NEW a \in Rationals, NEW b \in Rationals, NEW c \in Rationals, NEW d \in Rationals
      PROVE  XXScalarMatrixDiv(Blank, One, Square(a, b, c, d)) = InverseOrZero(a, b, c, d)
  <2>1. PICK D : D = (a (.) d) (-) (b (.) c)
    OBVIOUS
  <2>2. D \in Rationals
    BY <2>1, ProductClosed, MinusClosed
  <2>3. XXInverse(Blank, Square(a, b, c, d))
          = [mat |-> IF D = Zero THEN Blank ELSE Adjugate(a, b, c, d, D), det |-> D]
    BY <2>1, InverseOfTwo
  <2>4. CASE D = Zero
    BY <2>1, <2>3, <2>4, Squares DEF XXScalarMatrixDiv, InverseOrZero
  <2>5. CASE D # Zero
    <3>1. PICK w \in Rationals, x \in Rationals, y \in Rationals, z \in Rationals :
            w = d (/) D /\ x = Neg(b) (/) D /\ y = Neg(c) (/) D /\ z = a (/) D
      BY <2>2, <2>5, NegClosed, QuotientTimes
    <3>2. XXScalarMatrixDiv(Blank, One, Square(a, b, c, d)) = XXMatrixScalarMul(Adjugate(a, b, c, d, D), One)
      BY <2>3, <2>5 DEF XXScalarMatrixDiv
    <3>3. Adjugate(a, b, c, d, D) = Square(w, x, y, z)
      BY <3>1 DEF Adjugate
    <3>4. XXMatrixScalarMul(Square(w, x, y, z), One) = Square(w, x, y, z)
      BY ScaleSquare, TimesOne
    <3>5. QED
      BY <2>1, <2>5, <3>2, <3>3, <3>4 DEF InverseOrZero
  <2>6. QED
    BY <2>4, <2>5
<1>2. QED
  BY <1>1

\* The inverse of the transpose is the transpose of the inverse.
Transposes(a, b, c, d) ==
  \E w, x, y, z \in Rationals :
    InverseOrZero(a, b, c, d) = Square(w, x, y, z) /\ InverseOrZero(a, c, b, d) = Square(w, y, x, z)

\* The inverse of the transpose is the transpose of the inverse, blank or not.
LEMMA TransposedParts == \A a, b, c, d \in Rationals : Transposes(a, b, c, d)
<1>1. ASSUME NEW a \in Rationals, NEW b \in Rationals, NEW c \in Rationals, NEW d \in Rationals
      PROVE  \E w, x, y, z \in Rationals :
               /\ InverseOrZero(a, b, c, d) = Square(w, x, y, z)
               /\ InverseOrZero(a, c, b, d) = Square(w, y, x, z)
  <2>1. PICK D \in Rationals : D = (a (.) d) (-) (b (.) c) /\ D = (a (.) d) (-) (c (.) b)
    BY ProductClosed, ProductCommutes, MinusClosed
  <2>2. CASE D = Zero
    <3>1. /\ InverseOrZero(a, b, c, d) = Square(Zero, Zero, Zero, Zero)
          /\ InverseOrZero(a, c, b, d) = Square(Zero, Zero, Zero, Zero)
      BY <2>1, <2>2 DEF InverseOrZero
    <3>2. QED
      BY <3>1, PlusZero
  <2>3. CASE D # Zero
    <3>1. PICK w \in Rationals, x \in Rationals, y \in Rationals, z \in Rationals :
            w = d (/) D /\ x = Neg(b) (/) D /\ y = Neg(c) (/) D /\ z = a (/) D
      BY <2>3, NegClosed, QuotientTimes
    <3>2. InverseOrZero(a, b, c, d) = Square(w, x, y, z)
      BY <2>1, <2>3, <3>1 DEF InverseOrZero, Adjugate
    <3>3. InverseOrZero(a, c, b, d) = Square(w, y, x, z)
      BY <2>1, <2>3, <3>1 DEF InverseOrZero, Adjugate
    <3>4. QED
      BY <3>2, <3>3
  <2>4. QED
    BY <2>2, <2>3
<1>2. QED
  BY <1>1 DEF Transposes

\* The velocities of the body, and the matrix that turns the forces into the world.
BodyLaw(P, turn, s) ==
  \E w, x, y, z, x0, x1 \in Rationals :
    /\ Body(P, turn, s).world = Column(x0, x1)
    /\ Body(P, turn, s).own = Column((w (.) x0) (+) (x (.) x1), (y (.) x0) (+) (z (.) x1))
    /\ XXScalarMatrixDiv(Blank, One, XXMatrixTranspose(2, 2, Rotation(turn))) = Square(w, y, x, z)

\* The velocities of the body and what turns its forces, for every heading and mass.
LEMMA BodyIs ==
  ASSUME NEW P, P[21] \in Rationals, NEW s, s[12] \in Rationals, s[13] \in Rationals,
         NEW turn, turn.cos \in Rationals, turn.sin \in Rationals
  PROVE  BodyLaw(P, turn, s)
<1>1. PICK c \in Rationals, e \in Rationals, ne \in Rationals : c = turn.cos /\ e = turn.sin /\ ne = Neg(e)
  BY NegClosed
<1>2. Rotation(turn) = Square(c, ne, e, c)
  BY <1>1, SquareIs DEF Rotation
<1>3. XXMatrixTranspose(2, 2, Rotation(turn)) = Square(c, e, ne, c)
  BY <1>2, TransposeSquare
<1>4. PICK w \in Rationals, x \in Rationals, y \in Rationals, z \in Rationals :
        /\ InverseOrZero(c, ne, e, c) = Square(w, x, y, z)
        /\ InverseOrZero(c, e, ne, c) = Square(w, y, x, z)
  <2>1. Transposes(c, ne, e, c)
    BY TransposedParts
  <2>2. QED
    BY <2>1 DEF Transposes
<1>5. PICK m1 \in Rationals, m0 \in Rationals : m1 = One (.) P[21] /\ m0 = Zero (.) P[21]
  BY ProductClosed, PlusZero, TimesOne
<1>6. XXMatrixScalarMul(XXMatrixEye(2), P[21]) = Square(m1, m0, m0, m1)
  <2>1. XXMatrixEye(2) = Square(One, Zero, Zero, One)
    BY Squares
  <2>2. QED
    BY <1>5, <2>1, ScaleSquare
<1>7. PICK k \in Rationals, l \in Rationals, m \in Rationals, n \in Rationals :
        InverseOrZero(m1, m0, m0, m1) = Square(k, l, m, n)
  <2>1. Transposes(m1, m0, m0, m1)
    BY TransposedParts
  <2>2. QED
    BY <2>1 DEF Transposes
<1>8. PICK v0 \in Rationals, v1 \in Rationals : v0 = s[12] /\ v1 = s[13]
  OBVIOUS
<1>9. PICK x0 \in Rationals, x1 \in Rationals :
        x0 = (k (.) v0) (+) (l (.) v1) /\ x1 = (m (.) v0) (+) (n (.) v1)
  BY SumClosed, ProductClosed
<1>10. XXMatrixMul(2, 1, XXMatrixInverse(Blank, XXMatrixScalarMul(XXMatrixEye(2), P[21])),
                   Vector(s[12], s[13])) = Column(x0, x1)
  <2>1. Vector(s[12], s[13]) = Column(v0, v1)
    BY <1>8, VectorIs
  <2>2. XXMatrixInverse(Blank, Square(m1, m0, m0, m1)) = Square(k, l, m, n)
    BY <1>7, InverseParts
  <2>3. XXMatrixMul(2, 1, Square(k, l, m, n), Column(v0, v1)) = Column(x0, x1)
    <3>1. Multiplies(k, l, m, n, v0, v1)
      BY MultiplyColumn
    <3>2. QED
      BY <1>9, <3>1 DEF Multiplies
  <2>4. QED
    BY <1>6, <2>1, <2>2, <2>3
<1>11. Body(P, turn, s).world = Column(x0, x1)
  BY <1>10 DEF Body
<1>12. XXScalarMatrixDiv(Blank, One, Rotation(turn)) = Square(w, x, y, z)
  BY <1>2, <1>4, DivideParts
<1>13. XXScalarMatrixDiv(Blank, One, XXMatrixTranspose(2, 2, Rotation(turn))) = Square(w, y, x, z)
  BY <1>3, <1>4, DivideParts
<1>14. Body(P, turn, s).own = Column((w (.) x0) (+) (x (.) x1), (y (.) x0) (+) (z (.) x1))
  <2>1. Body(P, turn, s).own
          = XXMatrixMul(2, 1, XXScalarMatrixDiv(Blank, One, Rotation(turn)), Column(x0, x1))
    BY <1>10 DEF Body
  <2>2. XXMatrixMul(2, 1, Square(w, x, y, z), Column(x0, x1))
          = Column((w (.) x0) (+) (x (.) x1), (y (.) x0) (+) (z (.) x1))
    <3>1. Multiplies(w, x, y, z, x0, x1)
      BY MultiplyColumn
    <3>2. QED
      BY <3>1 DEF Multiplies
  <2>3. QED
    BY <1>12, <2>1, <2>2
<1>15. QED
  BY <1>11, <1>13, <1>14 DEF BodyLaw

\* A contact of the body with the ground.
ContactLaw(P, s, body, wheel, k, o0, o1, p0, p1, g0) ==
  (/\ body.own = Column(o0, o1)
   /\ p0 = o0 (+) (Wheel(P, 28, k) (.) body.omega)
   /\ p1 = o1 (+) (Wheel(P, 29, k) (.) body.omega)
   /\ g0 = p0 (+) Onto(k, Wheel(P, 33, k) (.) wheel))
  => Contact(P, s, body, wheel, k)
       = [slip |-> Column(g0, p1),
          force |-> Column((s[5 + k] (/) Tyre(P, 16, k)) (+) (Tyre(P, 22, k) (.) g0),
                           (s[7 + k] (/) Tyre(P, 18, k)) (+) (Tyre(P, 24, k) (.) p1))]

\* The slip and the force of a contact are columns.
LEMMA ContactIs ==
  ASSUME NEW P, NEW s, NEW body, NEW o0, NEW o1, NEW wheel, NEW k \in 0 .. 1,
         NEW p0, NEW p1, NEW g0
  PROVE  ContactLaw(P, s, body, wheel, k, o0, o1, p0, p1, g0)
<1>0. SUFFICES ASSUME body.own = Column(o0, o1),
                      p0 = o0 (+) (Wheel(P, 28, k) (.) body.omega),
                      p1 = o1 (+) (Wheel(P, 29, k) (.) body.omega),
                      g0 = p0 (+) Onto(k, Wheel(P, 33, k) (.) wheel)
               PROVE  Contact(P, s, body, wheel, k)
                        = [slip |-> Column(g0, p1),
                           force |-> Column((s[5 + k] (/) Tyre(P, 16, k)) (+) (Tyre(P, 22, k) (.) g0),
                                            (s[7 + k] (/) Tyre(P, 18, k)) (+) (Tyre(P, 24, k) (.) p1))]
  BY DEF ContactLaw
<1>1. Arm(P, k) = Column(Wheel(P, 28, k), Wheel(P, 29, k))
  BY VectorIs DEF Arm
<1>2. XXMatrixScalarMul(Arm(P, k), body.omega)
        = Column(Wheel(P, 28, k) (.) body.omega, Wheel(P, 29, k) (.) body.omega)
  BY <1>1, ScaleColumn
<1>3. XXMatrixAdd(body.own, XXMatrixScalarMul(Arm(P, k), body.omega)) = Column(p0, p1)
  BY <1>0, <1>2, AddColumns
<1>4. Vector(Column(p0, p1).mat[0] (+) Onto(k, Wheel(P, 33, k) (.) wheel), Column(p0, p1).mat[1])
        = Column(g0, p1)
  BY <1>0, VectorIs, ColumnParts
<1>5. \A x, y : Vector(x, y) = Column(x, y)
  BY VectorIs
<1>6. Column(g0, p1).mat[0] = g0 /\ Column(g0, p1).mat[1] = p1
  BY ColumnParts
<1>7. QED
  BY <1>3, <1>4, <1>5, <1>6 DEF Contact

\* What the forces at the two contacts do to the body.
MomentLaw(P, contact, f0, f1, g0, g1) ==
  contact[0].force = Column(f0, f1) /\ contact[1].force = Column(g0, g1) =>
    Moment(P, contact)
      = Neg(((P[28] (.) f0) (+) (P[29] (.) f1)) (+) ((P[30] (.) g0) (+) (P[31] (.) g1)))

\* The moment is that of two pairs of forces.
LEMMA MomentIs ==
  ASSUME NEW P, NEW contact, NEW f0 \in Rationals, NEW f1 \in Rationals, NEW g0 \in Rationals,
         NEW g1 \in Rationals,
         P[28] \in Rationals, P[29] \in Rationals, P[30] \in Rationals, P[31] \in Rationals
  PROVE  MomentLaw(P, contact, f0, f1, g0, g1)
<1>1. Arm(P, 0) = Column(P[28], P[29]) /\ Arm(P, 1) = Column(P[30], P[31])
  <2>1. 28 + (2 * 0) = 28 /\ 29 + (2 * 0) = 29 /\ 28 + (2 * 1) = 30 /\ 29 + (2 * 1) = 31
    OBVIOUS
  <2>2. QED
    BY <2>1, VectorIs DEF Arm, Wheel
<1>2. /\ XXMatrixTranspose(1, 2, Arm(P, 0)) = Row(P[28], P[29])
      /\ XXMatrixTranspose(1, 2, Arm(P, 1)) = Row(P[30], P[31])
  BY <1>1, TransposeColumn
<1>3. /\ XXScalarMatrixMatrixMul(Row(P[28], P[29]), Column(f0, f1)) = (P[28] (.) f0) (+) (P[29] (.) f1)
      /\ XXScalarMatrixMatrixMul(Row(P[30], P[31]), Column(g0, g1)) = (P[30] (.) g0) (+) (P[31] (.) g1)
  BY MultiplyRow
<1>4. QED
  BY <1>2, <1>3 DEF Moment, MomentLaw

PushLaw(turn, contact, f0, f1, g0, g1, w, x, y, z) ==
  (/\ contact[0].force = Column(f0, f1) /\ contact[1].force = Column(g0, g1)
   /\ XXScalarMatrixDiv(Blank, One, XXMatrixTranspose(2, 2, Rotation(turn))) = Square(w, y, x, z))
  => Push(turn, contact)
       = Column((w (.) Neg(g0 (+) f0)) (+) (y (.) Neg(g1 (+) f1)),
                (x (.) Neg(g0 (+) f0)) (+) (z (.) Neg(g1 (+) f1)))

\* The push is that of two pairs of forces, turned into the world.
LEMMA PushIs ==
  ASSUME NEW turn, NEW contact, NEW f0 \in Rationals, NEW f1 \in Rationals, NEW g0 \in Rationals,
         NEW g1 \in Rationals,
         NEW w \in Rationals, NEW x \in Rationals, NEW y \in Rationals, NEW z \in Rationals
  PROVE  PushLaw(turn, contact, f0, f1, g0, g1, w, x, y, z)
<1>0. SUFFICES ASSUME contact[0].force = Column(f0, f1), contact[1].force = Column(g0, g1),
                      XXScalarMatrixDiv(Blank, One, XXMatrixTranspose(2, 2, Rotation(turn)))
                        = Square(w, y, x, z)
               PROVE  Push(turn, contact)
                        = Column((w (.) Neg(g0 (+) f0)) (+) (y (.) Neg(g1 (+) f1)),
                                 (x (.) Neg(g0 (+) f0)) (+) (z (.) Neg(g1 (+) f1)))
  BY DEF PushLaw
<1>1. PICK n0 \in Rationals, n1 \in Rationals : n0 = Neg(g0 (+) f0) /\ n1 = Neg(g1 (+) f1)
  BY SumClosed, NegClosed
<1>2. XXMatrixAdd(Column(g0, g1), Column(f0, f1)) = Column(g0 (+) f0, g1 (+) f1)
  BY AddColumns
<1>3. XXMatrixInv(XXMatrixAdd(contact[1].force, contact[0].force)) = Column(n0, n1)
  BY <1>0, <1>1, <1>2, NegateColumn
<1>4. Push(turn, contact) = XXMatrixMul(2, 1, Square(w, y, x, z), Column(n0, n1))
  BY <1>0, <1>3 DEF Push
<1>5. XXMatrixMul(2, 1, Square(w, y, x, z), Column(n0, n1))
        = Column((w (.) n0) (+) (y (.) n1), (x (.) n0) (+) (z (.) n1))
  <2>1. Multiplies(w, y, x, z, n0, n1)
    BY MultiplyColumn
  <2>2. QED
    BY <2>1 DEF Multiplies
<1>6. QED
  BY <1>1, <1>4, <1>5

\* Parameters, states, signals and a heading that are numbers; what the code
\* divides by is not zero.
PlantNumbers(P, s, turn, u) ==
  /\ \A i \in 0 .. 35 : P[i] \in Rationals
  /\ \A i \in {4, 5, 12, 13} \cup (16 .. 20) : P[i] # Zero
  /\ \A i \in 0 .. 13 : s[i] \in Rationals
  /\ turn.cos \in Rationals /\ turn.sin \in Rationals
  /\ \A k \in 0 .. 1 : u[k] \in Rationals

\* What one side computes with are numbers, and its divisors are not zero.
LEMMA SideNumbers ==
  ASSUME NEW P, NEW s, NEW turn, NEW u, PlantNumbers(P, s, turn, u), NEW k \in 0 .. 1
  PROVE  /\ Drive(P, 0, k) \in Rationals /\ Drive(P, 1, k) \in Rationals /\ Drive(P, 3, k) \in Rationals
         /\ Drive(P, 4, k) \in Rationals /\ Drive(P, 4, k) # Zero
         /\ Drive(P, 5, k) \in Rationals /\ Drive(P, 5, k) # Zero
         /\ Drive(P, 6, k) \in Rationals /\ Drive(P, 7, k) \in Rationals
         /\ Wheel(P, 28, k) \in Rationals /\ Wheel(P, 29, k) \in Rationals
         /\ Wheel(P, 32, k) \in Rationals /\ Wheel(P, 33, k) \in Rationals
         /\ Tyre(P, 16, k) \in Rationals /\ Tyre(P, 16, k) # Zero
         /\ Tyre(P, 18, k) \in Rationals /\ Tyre(P, 18, k) # Zero
         /\ Tyre(P, 22, k) \in Rationals /\ Tyre(P, 24, k) \in Rationals
         /\ s[1 + (2 * k)] \in Rationals /\ s[5 + k] \in Rationals /\ s[7 + k] \in Rationals
         /\ u[k] \in Rationals
<1>1. CASE k = 0
  BY <1>1 DEF PlantNumbers, Drive, Wheel, Tyre
<1>2. CASE k = 1
  BY <1>2 DEF PlantNumbers, Drive, Wheel, Tyre
<1>3. QED
  BY <1>1, <1>2

\* A signal behind the dead zone is a number.
LEMMA DeadZoneNumber ==
  \A steer, zone \in Rationals : DeadZone(steer, zone) \in Rationals
BY NegClosed, MinusClosed, SumClosed, PlusZero DEF DeadZone

\* A mirrored number is a number.
LEMMA OntoNumber == \A k, x : x \in Rationals => Onto(k, x) \in Rationals
BY NegClosed DEF Onto

\* Mirroring the speed or the force gives the same power.
LEMMA OntoPower == \A k : \A x, f \in Rationals : Onto(k, x) (.) f = x (.) Onto(k, f)
<1>1. ASSUME NEW k, NEW x \in Rationals, NEW f \in Rationals
      PROVE  Onto(k, x) (.) f = x (.) Onto(k, f)
  <2>1. Neg(x) (.) f = Neg(x (.) f) /\ x (.) Neg(f) = Neg(x (.) f)
    BY Signs
  <2>2. QED
    BY <2>1 DEF Onto
<1>2. QED
  BY <1>1

\* A drivetrain: its numbers, and the current that its equation gives.
LEMMA DrivetrainIs ==
  ASSUME NEW P, NEW s, NEW turn, NEW u, PlantNumbers(P, s, turn, u), NEW k \in 0 .. 1,
         NEW d, d = Drivetrain(P, s, u, k)
  PROVE  /\ d.speed \in Rationals /\ d.volt \in Rationals /\ d.wheel \in Rationals /\ d.current \in Rationals
         /\ d.wheel = Drive(P, 7, k) (.) d.speed
         /\ d.current = (d.volt (-) (Drive(P, 3, k) (.) d.speed)) (/) Drive(P, 5, k)
<1> DEFINE speed == s[1 + (2 * k)] (/) Drive(P, 4, k)
           zone == Ratio(1, 2) (.) Drive(P, 0, k)
           volt == Drive(P, 1, k) (.) DeadZone(u[k], zone)
           current == (volt (-) (Drive(P, 3, k) (.) speed)) (/) Drive(P, 5, k)
<1>1. d = [speed |-> speed, volt |-> volt, wheel |-> Drive(P, 7, k) (.) speed, current |-> current]
  BY DEF Drivetrain
<1>2. speed \in Rationals
  BY SideNumbers, QuotientTimes
<1>3. zone \in Rationals
  <2>1. Ratio(1, 2) \in Rationals
    BY RatioIs DEF Is
  <2>2. QED
    BY <2>1, SideNumbers, ProductClosed
<1>4. volt \in Rationals
  <2> HIDE DEF zone
  <2>1. DeadZone(u[k], zone) \in Rationals
    BY <1>3, SideNumbers, DeadZoneNumber
  <2>2. QED
    BY <2>1, SideNumbers, ProductClosed
<1> HIDE DEF speed, volt
<1>5. current \in Rationals
  <2>1. Drive(P, 3, k) (.) speed \in Rationals
    BY <1>2, SideNumbers, ProductClosed
  <2>2. volt (-) (Drive(P, 3, k) (.) speed) \in Rationals
    BY <1>4, <2>1, MinusClosed
  <2>3. QED
    BY <2>2, SideNumbers, QuotientTimes
<1>6. Drive(P, 7, k) (.) speed \in Rationals
  BY <1>2, SideNumbers, ProductClosed
<1>7. QED
  BY <1>1, <1>2, <1>4, <1>5, <1>6

\* What the power of the motor of one side becomes: x and y are the slip of its tyre.
SidePower(P, s, d, T, k, x, y, f, g, o0, o1, om) ==
  d.volt (.) d.current
    = ((((d.speed (.) T) (+) ((s[5 + k] (/) Tyre(P, 16, k)) (.) x))
          (+) ((s[7 + k] (/) Tyre(P, 18, k)) (.) y))
         (+) ((((((d.current (.) d.current) (.) Drive(P, 5, k))
                    (+) ((d.speed (.) d.speed) (.) Drive(P, 6, k)))
                   (+) ((d.wheel (.) d.wheel) (.) Wheel(P, 32, k)))
                  (+) ((x (.) x) (.) Tyre(P, 22, k))) (+) ((y (.) y) (.) Tyre(P, 24, k))))
      (+) Neg(AtPoint(f, g, o0, o1, Wheel(P, 28, k), Wheel(P, 29, k), om))

\* The power balance of one side, from the signal to the tyre.
LEMMA PowerOfMotor ==
  ASSUME NEW P, NEW s, NEW turn, NEW u, PlantNumbers(P, s, turn, u), NEW k \in 0 .. 1,
         NEW body, NEW o0 \in Rationals, NEW o1 \in Rationals, body.own = Column(o0, o1),
         body.omega \in Rationals, NEW d, d = Drivetrain(P, s, u, k),
         NEW c, c = Contact(P, s, body, d.wheel, k)
  PROVE  \E x, y, f, g, T \in Rationals :
           /\ c.slip.mat[0] = x /\ c.slip.mat[1] = y /\ c.force = Column(f, g)
           /\ RotorTorque(P, d, c, k) = T
           /\ SidePower(P, s, d, T, k, x, y, f, g, o0, o1, body.omega)
<1>1. PICK speed \in Rationals, volt \in Rationals, wheel \in Rationals, I \in Rationals :
        d.speed = speed /\ d.volt = volt /\ d.wheel = wheel /\ d.current = I
  BY DrivetrainIs
<1>2. PICK K \in Rationals, R \in Rationals, n \in Rationals, b \in Rationals, r \in Rationals,
           fr \in Rationals :
        /\ K = Drive(P, 3, k) /\ R = Drive(P, 5, k) /\ n = Drive(P, 7, k)
        /\ b = Wheel(P, 32, k) /\ r = Wheel(P, 33, k) /\ fr = Drive(P, 6, k)
  BY SideNumbers
<1>3. PICK a0 \in Rationals, a1 \in Rationals, d0 \in Rationals, d1 \in Rationals :
        /\ a0 = Wheel(P, 28, k) /\ a1 = Wheel(P, 29, k)
        /\ d0 = Tyre(P, 22, k) /\ d1 = Tyre(P, 24, k)
  BY SideNumbers
<1>4. PICK e0 \in Rationals, e1 \in Rationals :
        e0 = s[5 + k] (/) Tyre(P, 16, k) /\ e1 = s[7 + k] (/) Tyre(P, 18, k)
  BY SideNumbers, QuotientTimes
<1>5. PICK om \in Rationals : om = body.omega
  OBVIOUS
<1>6. PICK p0 \in Rationals, p1 \in Rationals : p0 = o0 (+) (a0 (.) om) /\ p1 = o1 (+) (a1 (.) om)
  BY SumClosed, ProductClosed
<1>7. PICK z \in Rationals : z = Onto(k, r (.) wheel)
  BY OntoNumber, ProductClosed
<1>8. PICK g0 \in Rationals : g0 = p0 (+) z
  BY SumClosed
<1>9. PICK F0 \in Rationals, F1 \in Rationals : F0 = e0 (+) (d0 (.) g0) /\ F1 = e1 (+) (d1 (.) p1)
  BY SumClosed, ProductClosed
<1>10. PICK y \in Rationals : y = Onto(k, F0)
  BY OntoNumber
<1>11. PICK T \in Rationals :
         T = (K (.) I) (-) ((n (.) ((r (.) y) (+) (b (.) wheel))) (+) (fr (.) speed))
  BY SumClosed, ProductClosed, MinusClosed
<1>12. c = [slip |-> Column(g0, p1), force |-> Column(F0, F1)]
  <2>1. p0 = o0 (+) (Wheel(P, 28, k) (.) body.omega) /\ p1 = o1 (+) (Wheel(P, 29, k) (.) body.omega)
    BY <1>3, <1>5, <1>6
  <2>2. g0 = p0 (+) Onto(k, Wheel(P, 33, k) (.) d.wheel)
    BY <1>1, <1>2, <1>7, <1>8
  <2>3. Contact(P, s, body, d.wheel, k)
          = [slip |-> Column(g0, p1),
             force |-> Column((s[5 + k] (/) Tyre(P, 16, k)) (+) (Tyre(P, 22, k) (.) g0),
                              (s[7 + k] (/) Tyre(P, 18, k)) (+) (Tyre(P, 24, k) (.) p1))]
    <3>1. ContactLaw(P, s, body, d.wheel, k, o0, o1, p0, p1, g0)
      BY ContactIs
    <3>2. QED
      BY <2>1, <2>2, <3>1 DEF ContactLaw
  <2>4. QED
    BY <1>3, <1>4, <1>9, <2>3
<1>13. c.slip.mat[0] = g0 /\ c.slip.mat[1] = p1 /\ c.force = Column(F0, F1) /\ c.force.mat[0] = F0
  BY <1>12, ColumnParts
<1>14. RotorTorque(P, d, c, k) = T
  BY <1>1, <1>2, <1>10, <1>11, <1>13 DEF RotorTorque
<1>15. volt (.) I
         = ((((speed (.) T) (+) (e0 (.) g0)) (+) (e1 (.) p1))
              (+) ((((((I (.) I) (.) R) (+) ((speed (.) speed) (.) fr))
                       (+) ((wheel (.) wheel) (.) b))
                      (+) ((g0 (.) g0) (.) d0)) (+) ((p1 (.) p1) (.) d1)))
           (+) Neg((F0 (.) p0) (+) (F1 (.) p1))
  <2>1. SideLaw(volt, K, speed, I, R, n, b, r, fr, y, z, p0, p1, e0, e1, d0, d1, g0, F0, F1, T, wheel)
    BY PowerOfSide
  <2>2. R # Zero /\ I = (volt (-) (K (.) speed)) (/) R /\ wheel = n (.) speed
    BY <1>1, <1>2, SideNumbers, DrivetrainIs
  <2>3. z (.) F0 = (r (.) wheel) (.) y
    BY <1>7, <1>10, OntoPower, ProductClosed
  <2>4. QED
    BY <1>8, <1>9, <1>11, <2>1, <2>2, <2>3 DEF SideLaw
<1>16. AtPoint(F0, F1, o0, o1, Wheel(P, 28, k), Wheel(P, 29, k), body.omega) = (F0 (.) p0) (+) (F1 (.) p1)
  BY <1>3, <1>5, <1>6 DEF AtPoint
<1>17. SidePower(P, s, d, T, k, g0, p1, F0, F1, o0, o1, body.omega)
  BY <1>1, <1>2, <1>3, <1>4, <1>15, <1>16 DEF SidePower
<1>18. QED
  BY <1>13, <1>14, <1>17

-----------------------------------------------------------------------------
(***************************************************************************)
(* The balance of the plant.                                               *)
(***************************************************************************)

\* The balance, term by term.
LossOf(P, e, x, y, k) ==
  (((((e.current (.) e.current) (.) Drive(P, 5, k)) (+) ((e.speed (.) e.speed) (.) Drive(P, 6, k)))
      (+) ((e.wheel (.) e.wheel) (.) Wheel(P, 32, k)))
     (+) ((x (.) x) (.) Tyre(P, 22, k))) (+) ((y (.) y) (.) Tyre(P, 24, k))

\* The balance of the plant, written out.
LEMMA PlantLawIs ==
  ASSUME NEW P, NEW s, NEW d, NEW R, R = d.R, NEW e0, e0 = d.drive[0], NEW e1, e1 = d.drive[1]
  PROVE  PlantLaw(P, s, d) <=>
           (e0.volt (.) e0.current) (+) (e1.volt (.) e1.current)
             = ((((((e0.speed (.) R[1]) (+) (e1.speed (.) R[3]))
                     (+) (((s[5] (/) Tyre(P, 16, 0)) (.) R[5]) (+) ((s[6] (/) Tyre(P, 16, 1)) (.) R[6])))
                    (+) (((s[7] (/) Tyre(P, 18, 0)) (.) R[7]) (+) ((s[8] (/) Tyre(P, 18, 1)) (.) R[8])))
                   (+) (R[4] (.) R[11])) (+) ((R[9] (.) R[12]) (+) (R[10] (.) R[13])))
               (+) (LossOf(P, e0, R[5], R[7], 0) (+) LossOf(P, e1, R[6], R[8], 1))
<1>1. /\ 1 + (2 * 0) = 1 /\ 1 + (2 * 1) = 3 /\ 5 + 0 = 5 /\ 5 + 1 = 6 /\ 7 + 0 = 7 /\ 7 + 1 = 8
      /\ 9 + 0 = 9 /\ 9 + 1 = 10 /\ 12 + 0 = 12 /\ 12 + 1 = 13
      /\ 5 + (8 * 0) = 5 /\ 5 + (8 * 1) = 13 /\ 6 + (8 * 0) = 6 /\ 6 + (8 * 1) = 14
      /\ 32 + (2 * 0) = 32 /\ 32 + (2 * 1) = 34
  OBVIOUS
<1>2. QED
  BY <1>1, ZenonT(40) DEF PlantLaw, LossOf, Drive, Wheel, Tyre

\* What the rates are made of.
LEMMA RatesAre ==
  ASSUME NEW P, NEW turn, NEW drive, NEW body, NEW contact, NEW R,
         R = Rates(P, turn, drive, body, contact)
  PROVE  /\ R[1] = RotorTorque(P, drive[0], contact[0], 0)
         /\ R[3] = RotorTorque(P, drive[1], contact[1], 1)
         /\ R[4] = body.omega
         /\ R[5] = contact[0].slip.mat[0] /\ R[6] = contact[1].slip.mat[0]
         /\ R[7] = contact[0].slip.mat[1] /\ R[8] = contact[1].slip.mat[1]
         /\ R[9] = body.world.mat[0] /\ R[10] = body.world.mat[1]
         /\ R[11] = Moment(P, contact)
         /\ R[12] = Push(turn, contact).mat[0] /\ R[13] = Push(turn, contact).mat[1]
<1>1. /\ 1 \div 2 = 0 /\ 3 \div 2 = 1
      /\ 5 - 5 = 0 /\ 6 - 5 = 1 /\ 7 - 7 = 0 /\ 8 - 7 = 1 /\ 9 - 9 = 0 /\ 10 - 9 = 1
      /\ 12 - 12 = 0 /\ 13 - 12 = 1
  OBVIOUS
<1>2. QED
  BY <1>1 DEF Rates

\* The rates of the plant from the drivetrains, the body and the contacts.
LEMMA PlantParts ==
  ASSUME NEW P, NEW turn, NEW s, NEW u, NEW body, body = Body(P, turn, s),
         NEW e0, e0 = Drivetrain(P, s, u, 0), NEW e1, e1 = Drivetrain(P, s, u, 1),
         NEW d, d = CalculateDynamic(P, turn, s, u)
  PROVE  \E drive, contact :
           /\ drive[0] = e0 /\ drive[1] = e1
           /\ contact[0] = Contact(P, s, body, e0.wheel, 0)
           /\ contact[1] = Contact(P, s, body, e1.wheel, 1)
           /\ d.R = Rates(P, turn, drive, body, contact) /\ d.drive = drive
<1>1. PICK drive : drive = Pair(LAMBDA k : Drivetrain(P, s, u, k))
  OBVIOUS
<1>2. drive[0] = e0 /\ drive[1] = e1
  BY <1>1 DEF Pair
<1>3. PICK contact : contact = Contacts(P, s, drive, body)
  OBVIOUS
<1>4. contact[0] = Contact(P, s, body, e0.wheel, 0) /\ contact[1] = Contact(P, s, body, e1.wheel, 1)
  BY <1>2, <1>3 DEF Contacts, Pair
<1>5. d = [R |-> Rates(P, turn, drive, body, contact), drive |-> drive]
  BY <1>1, <1>3 DEF CalculateDynamic
<1>6. QED
  BY <1>2, <1>4, <1>5

PlantAddsUp(A0, A1, B0, B1, C0, C1, L0, L1, G0, G1, W, V) ==
  W (+) V = Neg(G0) (+) Neg(G1) =>
    ((((A0 (+) B0) (+) C0) (+) L0) (+) Neg(G0)) (+) ((((A1 (+) B1) (+) C1) (+) L1) (+) Neg(G1))
      = (((((A0 (+) A1) (+) (B0 (+) B1)) (+) (C0 (+) C1)) (+) W) (+) V) (+) (L0 (+) L1)

\* The sum of the powers of both sides and the body.
LEMMA SumOfPlant ==
  ASSUME NEW A0 \in Rationals, NEW A1 \in Rationals, NEW B0 \in Rationals, NEW B1 \in Rationals,
         NEW C0 \in Rationals, NEW C1 \in Rationals, NEW L0 \in Rationals, NEW L1 \in Rationals,
         NEW G0 \in Rationals, NEW G1 \in Rationals, NEW W \in Rationals, NEW V \in Rationals
  PROVE  PlantAddsUp(A0, A1, B0, B1, C0, C1, L0, L1, G0, G1, W, V)
<1>1. PICK n0 \in Rationals, n1 \in Rationals, n \in Rationals :
        n0 = Neg(G0) /\ n1 = Neg(G1) /\ n = n0 (+) n1
  BY NegClosed, SumClosed
<1>2. PICK X0 \in Rationals, X1 \in Rationals, X \in Rationals, L \in Rationals :
        X0 = (A0 (+) B0) (+) C0 /\ X1 = (A1 (+) B1) (+) C1 /\ X = X0 (+) X1 /\ L = L0 (+) L1
  BY SumClosed
<1>3. X = ((A0 (+) A1) (+) (B0 (+) B1)) (+) (C0 (+) C1)
  <2>1. PICK p0 \in Rationals, p1 \in Rationals : p0 = A0 (+) B0 /\ p1 = A1 (+) B1
    BY SumClosed
  <2>2. (p0 (+) C0) (+) (p1 (+) C1) = (p0 (+) p1) (+) (C0 (+) C1)
    BY Interchange, SMTT(30)
  <2>3. (A0 (+) B0) (+) (A1 (+) B1) = (A0 (+) A1) (+) (B0 (+) B1)
    BY Interchange, SMTT(30)
  <2>4. QED
    BY <1>2, <2>1, <2>2, <2>3
<1>4. ((X0 (+) L0) (+) n0) (+) ((X1 (+) L1) (+) n1) = (X (+) L) (+) n
  <2>1. PICK p0 \in Rationals, p1 \in Rationals : p0 = X0 (+) L0 /\ p1 = X1 (+) L1
    BY SumClosed
  <2>2. (p0 (+) n0) (+) (p1 (+) n1) = (p0 (+) p1) (+) (n0 (+) n1)
    BY Interchange, SMTT(30)
  <2>3. (X0 (+) L0) (+) (X1 (+) L1) = (X0 (+) X1) (+) (L0 (+) L1)
    BY Interchange, SMTT(30)
  <2>4. QED
    BY <1>1, <1>2, <2>1, <2>2, <2>3
<1>5. (X (+) L) (+) n = (X (+) n) (+) L
  BY SumClosed, SumCommutes, SumAssociates
<1>6. ASSUME W (+) V = n PROVE (X (+) W) (+) V = X (+) n
  BY <1>6, SumAssociates
<1>7. QED
  BY <1>1, <1>2, <1>3, <1>4, <1>5, <1>6 DEF PlantAddsUp

MotorLaw(P, s, u, body, k, o0, o1) ==
  LET e == Drivetrain(P, s, u, k)
      c == Contact(P, s, body, e.wheel, k)
  IN  \E x, y, f, g, T \in Rationals :
        /\ c.slip.mat[0] = x /\ c.slip.mat[1] = y /\ c.force = Column(f, g)
        /\ RotorTorque(P, e, c, k) = T
        /\ SidePower(P, s, e, T, k, x, y, f, g, o0, o1, body.omega)

\* The power balance of one side, as a law of the side.
LEMMA MotorHolds ==
  ASSUME NEW P, NEW s, NEW turn, NEW u, PlantNumbers(P, s, turn, u), NEW k \in 0 .. 1,
         NEW body, NEW o0 \in Rationals, NEW o1 \in Rationals, body.own = Column(o0, o1),
         body.omega \in Rationals
  PROVE  MotorLaw(P, s, u, body, k, o0, o1)
BY PowerOfMotor, ZenonT(40) DEF MotorLaw

\* Whatever the parameters, the state, the heading and the signals are, the power
\* of the motors is stored or lost in the resistances and the friction: no sign
\* and no ratio between the drivetrains, the wheels and the body is wrong
\* (Plant::CalculateDynamic).
THEOREM PlantBalances ==
  ASSUME NEW P, NEW s, NEW turn, NEW u, PlantNumbers(P, s, turn, u)
  PROVE  PlantLaw(P, s, CalculateDynamic(P, turn, s, u))
<1>1. PICK w \in Rationals, x \in Rationals, y \in Rationals, z \in Rationals, x0 \in Rationals,
           x1 \in Rationals :
        /\ Body(P, turn, s).world = Column(x0, x1)
        /\ Body(P, turn, s).own = Column((w (.) x0) (+) (x (.) x1), (y (.) x0) (+) (z (.) x1))
        /\ XXScalarMatrixDiv(Blank, One, XXMatrixTranspose(2, 2, Rotation(turn))) = Square(w, y, x, z)
  <2>1. P[21] \in Rationals /\ s[12] \in Rationals /\ s[13] \in Rationals
        /\ turn.cos \in Rationals /\ turn.sin \in Rationals
    BY DEF PlantNumbers
  <2>2. BodyLaw(P, turn, s)
    BY <2>1, BodyIs
  <2>3. QED
    BY <2>2 DEF BodyLaw
<1>2. PICK o0 \in Rationals, o1 \in Rationals :
        o0 = (w (.) x0) (+) (x (.) x1) /\ o1 = (y (.) x0) (+) (z (.) x1)
  BY SumClosed, ProductClosed
<1>3. PICK body : body = Body(P, turn, s)
  OBVIOUS
<1>4. PICK om \in Rationals : om = body.omega
  <2>1. s[11] \in Rationals /\ P[20] \in Rationals /\ P[20] # Zero
    BY DEF PlantNumbers
  <2>2. s[11] (/) P[20] \in Rationals
    BY <2>1, QuotientTimes
  <2>3. QED
    BY <1>3, <2>2 DEF Body
<1>5. body.own = Column(o0, o1) /\ body.world = Column(x0, x1)
  BY <1>1, <1>2, <1>3
<1>6. PICK e0, e1, d : /\ e0 = Drivetrain(P, s, u, 0) /\ e1 = Drivetrain(P, s, u, 1)
                       /\ d = CalculateDynamic(P, turn, s, u)
  OBVIOUS
<1>7. PICK drive, contact :
        /\ drive[0] = e0 /\ drive[1] = e1
        /\ contact[0] = Contact(P, s, body, e0.wheel, 0)
        /\ contact[1] = Contact(P, s, body, e1.wheel, 1)
        /\ d.R = Rates(P, turn, drive, body, contact) /\ d.drive = drive
  BY <1>3, <1>6, PlantParts
<1>8. PICK g00 \in Rationals, g01 \in Rationals, f00 \in Rationals, f01 \in Rationals, T0 \in Rationals :
        /\ contact[0].slip.mat[0] = g00 /\ contact[0].slip.mat[1] = g01
        /\ contact[0].force = Column(f00, f01) /\ RotorTorque(P, e0, contact[0], 0) = T0
        /\ SidePower(P, s, e0, T0, 0, g00, g01, f00, f01, o0, o1, om)
  <2>1. MotorLaw(P, s, u, body, 0, o0, o1)
    BY <1>4, <1>5, MotorHolds
  <2>2. QED
    BY <1>4, <1>6, <1>7, <2>1 DEF MotorLaw
<1>9. PICK g10 \in Rationals, g11 \in Rationals, f10 \in Rationals, f11 \in Rationals, T1 \in Rationals :
        /\ contact[1].slip.mat[0] = g10 /\ contact[1].slip.mat[1] = g11
        /\ contact[1].force = Column(f10, f11) /\ RotorTorque(P, e1, contact[1], 1) = T1
        /\ SidePower(P, s, e1, T1, 1, g10, g11, f10, f11, o0, o1, om)
  <2>1. MotorLaw(P, s, u, body, 1, o0, o1)
    BY <1>4, <1>5, MotorHolds
  <2>2. QED
    BY <1>4, <1>6, <1>7, <2>1 DEF MotorLaw
<1>10. PICK R : R = d.R
  OBVIOUS
<1>11. PICK a00 \in Rationals, a01 \in Rationals, a10 \in Rationals, a11 \in Rationals :
         /\ a00 = P[28] /\ a01 = P[29] /\ a10 = P[30] /\ a11 = P[31]
  BY DEF PlantNumbers
<1>12. PICK m \in Rationals :
         m = Neg(((a00 (.) f00) (+) (a01 (.) f01)) (+) ((a10 (.) f10) (+) (a11 (.) f11)))
  BY SumClosed, ProductClosed, NegClosed
<1>13. PICK n0 \in Rationals, n1 \in Rationals : n0 = Neg(f10 (+) f00) /\ n1 = Neg(f11 (+) f01)
  BY SumClosed, NegClosed
<1>14. PICK q0 \in Rationals, q1 \in Rationals :
         q0 = (w (.) n0) (+) (y (.) n1) /\ q1 = (x (.) n0) (+) (z (.) n1)
  BY SumClosed, ProductClosed
<1>15. /\ R[1] = T0 /\ R[3] = T1 /\ R[4] = om
       /\ R[5] = g00 /\ R[6] = g10 /\ R[7] = g01 /\ R[8] = g11 /\ R[9] = x0 /\ R[10] = x1
       /\ R[11] = m /\ R[12] = q0 /\ R[13] = q1
  <2>1. Moment(P, contact) = m
    <3>1. MomentLaw(P, contact, f00, f01, f10, f11)
      BY <1>11, MomentIs
    <3>2. QED
      BY <1>8, <1>9, <1>11, <1>12, <3>1 DEF MomentLaw
  <2>2. Push(turn, contact) = Column(q0, q1)
    <3>1. PushLaw(turn, contact, f00, f01, f10, f11, w, x, y, z)
      BY PushIs
    <3>2. QED
      BY <1>1, <1>8, <1>9, <1>13, <1>14, <3>1 DEF PushLaw
  <2>3. R = Rates(P, turn, drive, body, contact)
    BY <1>7, <1>10
  <2>4. body.world.mat[0] = x0 /\ body.world.mat[1] = x1
        /\ Push(turn, contact).mat[0] = q0 /\ Push(turn, contact).mat[1] = q1
    BY <1>5, <2>2, ColumnParts
  <2>5. QED
    BY <1>4, <1>7, <1>8, <1>9, <2>1, <2>3, <2>4, RatesAre
<1>16. PICK G0 \in Rationals, G1 \in Rationals :
         /\ G0 = AtPoint(f00, f01, o0, o1, a00, a01, om)
         /\ G1 = AtPoint(f10, f11, o0, o1, a10, a11, om)
  BY SumClosed, ProductClosed DEF AtPoint
<1>17. PICK W \in Rationals, V \in Rationals : W = om (.) m /\ V = (x0 (.) q0) (+) (x1 (.) q1)
  BY SumClosed, ProductClosed
<1>18. W (+) V = Neg(G0) (+) Neg(G1)
  <2>1. BodyAddsUp(w, x, y, z, x0, x1, f00, f01, f10, f11, a00, a01, a10, a11, om)
    BY PowerOfBody
  <2>2. QED
    BY <1>2, <1>12, <1>13, <1>14, <1>16, <1>17, <2>1 DEF BodyAddsUp
<1>19. /\ e0.speed \in Rationals /\ e0.volt \in Rationals /\ e0.wheel \in Rationals /\ e0.current \in Rationals
       /\ e1.speed \in Rationals /\ e1.volt \in Rationals /\ e1.wheel \in Rationals /\ e1.current \in Rationals
  BY <1>6, DrivetrainIs
<1>20. PICK A0 \in Rationals, A1 \in Rationals : A0 = e0.speed (.) T0 /\ A1 = e1.speed (.) T1
  BY <1>19, ProductClosed
<1>21. PICK B0 \in Rationals, B1 \in Rationals, C0 \in Rationals, C1 \in Rationals :
         /\ B0 = (s[5] (/) Tyre(P, 16, 0)) (.) g00 /\ B1 = (s[6] (/) Tyre(P, 16, 1)) (.) g10
         /\ C0 = (s[7] (/) Tyre(P, 18, 0)) (.) g01 /\ C1 = (s[8] (/) Tyre(P, 18, 1)) (.) g11
  <2>1. /\ s[5] \in Rationals /\ s[6] \in Rationals /\ s[7] \in Rationals /\ s[8] \in Rationals
        /\ Tyre(P, 16, 0) \in Rationals /\ Tyre(P, 16, 1) \in Rationals
        /\ Tyre(P, 18, 0) \in Rationals /\ Tyre(P, 18, 1) \in Rationals
        /\ Tyre(P, 16, 0) # Zero /\ Tyre(P, 16, 1) # Zero /\ Tyre(P, 18, 0) # Zero /\ Tyre(P, 18, 1) # Zero
    BY DEF PlantNumbers, Tyre
  <2>2. /\ s[5] (/) Tyre(P, 16, 0) \in Rationals /\ s[6] (/) Tyre(P, 16, 1) \in Rationals
        /\ s[7] (/) Tyre(P, 18, 0) \in Rationals /\ s[8] (/) Tyre(P, 18, 1) \in Rationals
    BY <2>1, QuotientTimes
  <2>3. QED
    BY <2>2, ProductClosed
<1>22. PICK L0 \in Rationals, L1 \in Rationals :
         L0 = LossOf(P, e0, g00, g01, 0) /\ L1 = LossOf(P, e1, g10, g11, 1)
  <2>1. \A e, p, q : \A k \in 0 .. 1 :
          e.speed \in Rationals /\ e.wheel \in Rationals /\ e.current \in Rationals
          /\ p \in Rationals /\ q \in Rationals => LossOf(P, e, p, q, k) \in Rationals
    BY SideNumbers, SumClosed, ProductClosed DEF LossOf
  <2>2. QED
    BY <1>19, <2>1
<1>23. /\ e0.volt (.) e0.current = (((A0 (+) B0) (+) C0) (+) L0) (+) Neg(G0)
       /\ e1.volt (.) e1.current = (((A1 (+) B1) (+) C1) (+) L1) (+) Neg(G1)
  <2>1. /\ 5 + 0 = 5 /\ 7 + 0 = 7 /\ 5 + 1 = 6 /\ 7 + 1 = 8
        /\ Wheel(P, 28, 0) = a00 /\ Wheel(P, 29, 0) = a01 /\ Wheel(P, 28, 1) = a10 /\ Wheel(P, 29, 1) = a11
    BY <1>11 DEF Wheel
  <2>2. e0.volt (.) e0.current = (((A0 (+) B0) (+) C0) (+) L0) (+) Neg(G0)
    BY <1>8, <1>16, <1>20, <1>21, <1>22, <2>1 DEF SidePower, LossOf
  <2>3. e1.volt (.) e1.current = (((A1 (+) B1) (+) C1) (+) L1) (+) Neg(G1)
    BY <1>9, <1>16, <1>20, <1>21, <1>22, <2>1 DEF SidePower, LossOf
  <2>4. QED
    BY <2>2, <2>3
<1>24. (e0.volt (.) e0.current) (+) (e1.volt (.) e1.current)
         = (((((A0 (+) A1) (+) (B0 (+) B1)) (+) (C0 (+) C1)) (+) W) (+) V) (+) (L0 (+) L1)
  <2>1. PlantAddsUp(A0, A1, B0, B1, C0, C1, L0, L1, G0, G1, W, V)
    BY SumOfPlant
  <2>2. QED
    BY <1>18, <1>23, <2>1 DEF PlantAddsUp
<1>25. (e0.volt (.) e0.current) (+) (e1.volt (.) e1.current)
         = ((((((e0.speed (.) R[1]) (+) (e1.speed (.) R[3]))
                 (+) (((s[5] (/) Tyre(P, 16, 0)) (.) R[5]) (+) ((s[6] (/) Tyre(P, 16, 1)) (.) R[6])))
                (+) (((s[7] (/) Tyre(P, 18, 0)) (.) R[7]) (+) ((s[8] (/) Tyre(P, 18, 1)) (.) R[8])))
               (+) (R[4] (.) R[11])) (+) ((R[9] (.) R[12]) (+) (R[10] (.) R[13])))
           (+) (LossOf(P, e0, R[5], R[7], 0) (+) LossOf(P, e1, R[6], R[8], 1))
  BY <1>15, <1>17, <1>20, <1>21, <1>22, <1>24
<1>26. QED
  BY <1>6, <1>7, <1>10, <1>25, PlantLawIs

-----------------------------------------------------------------------------
(***************************************************************************)
(* The inverse and the products.                                           *)
(***************************************************************************)

\* Products of two matrices, as a law of their numbers.
SquaresMultiply(a, b, c, d, e, f, g, h) ==
  Product(Square(a, b, c, d), Square(e, f, g, h))
    = Square((a (.) e) (+) (b (.) g), (a (.) f) (+) (b (.) h),
             (c (.) e) (+) (d (.) g), (c (.) f) (+) (d (.) h))

\* Two matrices of 2 x 2.
LEMMA MultiplySquares ==
  ASSUME NEW a \in Rationals, NEW b \in Rationals, NEW c \in Rationals, NEW d \in Rationals,
         NEW e \in Rationals, NEW f \in Rationals, NEW g \in Rationals, NEW h \in Rationals
  PROVE  SquaresMultiply(a, b, c, d, e, f, g, h)
<1> DEFINE A == Square(a, b, c, d)
           B == Square(e, f, g, h)
           At(i) == ProductAt(A, B, 2, i)
<1>1. XXMatrixMul(2, 2, A, B) = [rows |-> 2, columns |-> 2, mat |-> [i \in 0 .. 2 * 2 - 1 |-> At(i)]]
  <2> HIDE DEF A, B
  <2>1. QED
    BY DEF XXMatrixMul, Matrix, ProductAt, Factors
<1>2. /\ A.rows = 2 /\ A.columns = 2 /\ A.mat[0] = a /\ A.mat[1] = b /\ A.mat[2] = c /\ A.mat[3] = d
      /\ B.rows = 2 /\ B.columns = 2 /\ B.mat[0] = e /\ B.mat[1] = f /\ B.mat[2] = g /\ B.mat[3] = h
  BY Elements
<1> HIDE DEF A, B
<1>3. /\ Factors(A, B, 2, 0, 0) = a (.) e /\ Factors(A, B, 2, 0, 1) = b (.) g
      /\ Factors(A, B, 2, 1, 0) = a (.) f /\ Factors(A, B, 2, 1, 1) = b (.) h
      /\ Factors(A, B, 2, 2, 0) = c (.) e /\ Factors(A, B, 2, 2, 1) = d (.) g
      /\ Factors(A, B, 2, 3, 0) = c (.) f /\ Factors(A, B, 2, 3, 1) = d (.) h
  <2>1. /\ 0 \div 2 = 0 /\ 1 \div 2 = 0 /\ 2 \div 2 = 1 /\ 3 \div 2 = 1
        /\ 0 % 2 = 0 /\ 1 % 2 = 1 /\ 2 % 2 = 0 /\ 3 % 2 = 1
    OBVIOUS
  <2>2. QED
    BY <1>2, <2>1 DEF Factors
<1>4. \A p, q \in Rationals : (Zero (+) p) (+) q = p (+) q
  BY Neutral
<1>5. /\ At(0) = (a (.) e) (+) (b (.) g) /\ At(1) = (a (.) f) (+) (b (.) h)
      /\ At(2) = (c (.) e) (+) (d (.) g) /\ At(3) = (c (.) f) (+) (d (.) h)
  <2>1. /\ At(0) = (Zero (+) (a (.) e)) (+) (b (.) g) /\ At(1) = (Zero (+) (a (.) f)) (+) (b (.) h)
        /\ At(2) = (Zero (+) (c (.) e)) (+) (d (.) g) /\ At(3) = (Zero (+) (c (.) f)) (+) (d (.) h)
    BY <1>2, <1>3, ProductOfTwo
  <2>2. QED
    BY <1>4, <2>1, ProductClosed
<1> HIDE DEF At
<1>6. [i \in 0 .. 2 * 2 - 1 |-> At(i)] = Four(At(0), At(1), At(2), At(3))
  BY RangesOfTwo DEF Four
<1>7. XXMatrixMul(2, 2, A, B)
        = Square((a (.) e) (+) (b (.) g), (a (.) f) (+) (b (.) h),
                 (c (.) e) (+) (d (.) g), (c (.) f) (+) (d (.) h))
  BY <1>1, <1>5, <1>6 DEF Square
<1>8. QED
  BY <1>2, <1>7 DEF A, B, SquaresMultiply, Product

\* What makes w, x, y, z the inverse of a, b, c, d, from the left.
Inverts(a, b, c, d, w, x, y, z) ==
  /\ (a (.) w) (+) (b (.) y) = One  /\ (a (.) x) (+) (b (.) z) = Zero
  /\ (c (.) w) (+) (d (.) y) = Zero /\ (c (.) x) (+) (d (.) z) = One

\* A factor that is not zero, on both sides.
LEMMA CancelNumber ==
  \A e, p, q \in Rationals : e # Zero /\ e (.) p = e (.) q => p = q
<1>1. ASSUME NEW e \in Rationals, NEW p \in Rationals, NEW q \in Rationals, e # Zero, e (.) p = e (.) q
      PROVE  p = q
  <2>1. (p (.) e) (/) e = p /\ (q (.) e) (/) e = q
    BY <1>1, Quotients
  <2>2. p (.) e = e (.) p /\ q (.) e = e (.) q
    BY ProductCommutes
  <2>3. QED
    BY <1>1, <2>1, <2>2
<1>2. QED
  BY <1>1

\* A factor of a sum of two products, as a law of its numbers.
Spread(e, p, q, u, v) ==
  e (.) ((p (.) u) (+) (q (.) v)) = (p (.) (e (.) u)) (+) (q (.) (e (.) v))

\* A factor of a sum of two products.
LEMMA FactorOfSum ==
  ASSUME NEW e \in Rationals, NEW p \in Rationals, NEW q \in Rationals,
         NEW u \in Rationals, NEW v \in Rationals
  PROVE  Spread(e, p, q, u, v)
<1>1. e (.) ((p (.) u) (+) (q (.) v)) = (e (.) (p (.) u)) (+) (e (.) (q (.) v))
  BY ProductClosed, Distributes
<1>2. e (.) (p (.) u) = p (.) (e (.) u) /\ e (.) (q (.) v) = q (.) (e (.) v)
  BY ProductClosed, ProductAssociates, ProductCommutes
<1>3. QED
  BY <1>1, <1>2 DEF Spread

\* The elements of the inverse.
LEMMA AdjugateInverts ==
  ASSUME NEW a \in Rationals, NEW b \in Rationals, NEW c \in Rationals, NEW d \in Rationals,
         NEW D, D = (a (.) d) (-) (b (.) c), D # Zero
  PROVE  \E w, x, y, z \in Rationals :
           /\ Adjugate(a, b, c, d, D) = Square(w, x, y, z)
           /\ Inverts(a, b, c, d, w, x, y, z) /\ Inverts(w, x, y, z, a, b, c, d)
<1>1. D \in Rationals /\ Neg(b) \in Rationals /\ Neg(c) \in Rationals /\ a (.) d \in Rationals /\ b (.) c \in Rationals
  BY ProductClosed, MinusClosed, NegClosed
<1>2. PICK w \in Rationals, x \in Rationals, y \in Rationals, z \in Rationals :
        /\ w = d (/) D /\ x = Neg(b) (/) D /\ y = Neg(c) (/) D /\ z = a (/) D
        /\ D (.) w = d /\ D (.) x = Neg(b) /\ D (.) y = Neg(c) /\ D (.) z = a
  BY <1>1, QuotientTimes
<1>3. ASSUME NEW p \in Rationals, D (.) p = D PROVE p = One
  BY <1>1, <1>3, CancelNumber, TimesOne
<1>4. ASSUME NEW p \in Rationals, D (.) p = Zero PROVE p = Zero
  BY <1>1, <1>4, CancelNumber, TimesZero, PlusZero
<1>5. \A p, q \in Rationals : p (+) Neg(q) = p (-) q /\ Neg(q) (+) p = p (-) q /\ p (-) p = Zero
  BY MinusIs, NegClosed, SumCommutes, Opposite
<1>6. \A p, q \in Rationals :
        Neg(p) (.) q = Neg(p (.) q) /\ p (.) Neg(q) = Neg(p (.) q) /\ p (.) q = q (.) p
  BY MinusProduct, NegOfProduct, ProductCommutes
<1>7. \A p, q, u, v \in Rationals :
        /\ (p (.) u) (+) (q (.) v) \in Rationals
        /\ D (.) ((p (.) u) (+) (q (.) v)) = (p (.) (D (.) u)) (+) (q (.) (D (.) v))
        /\ D (.) ((u (.) p) (+) (v (.) q)) = (p (.) (D (.) u)) (+) (q (.) (D (.) v))
  <2>1. ASSUME NEW p \in Rationals, NEW q \in Rationals, NEW u \in Rationals, NEW v \in Rationals
        PROVE  /\ (p (.) u) (+) (q (.) v) \in Rationals
               /\ D (.) ((p (.) u) (+) (q (.) v)) = (p (.) (D (.) u)) (+) (q (.) (D (.) v))
               /\ D (.) ((u (.) p) (+) (v (.) q)) = (p (.) (D (.) u)) (+) (q (.) (D (.) v))
    <3>1. (p (.) u) (+) (q (.) v) \in Rationals
      BY SumClosed, ProductClosed
    <3>2. u (.) p = p (.) u /\ v (.) q = q (.) v
      BY ProductCommutes
    <3>3. Spread(D, p, q, u, v)
      BY <1>1, FactorOfSum
    <3>4. QED
      BY <3>1, <3>2, <3>3 DEF Spread
  <2>2. QED
    BY <2>1
<1>8. Inverts(a, b, c, d, w, x, y, z)
  <2>1. (a (.) d) (+) (b (.) Neg(c)) = D
    BY <1>1, <1>5, <1>6
  <2>2. (a (.) Neg(b)) (+) (b (.) a) = Zero
    BY <1>5, <1>6, ProductClosed
  <2>3. (c (.) d) (+) (d (.) Neg(c)) = Zero
    BY <1>5, <1>6, ProductClosed
  <2>4. (c (.) Neg(b)) (+) (d (.) a) = D
    BY <1>1, <1>5, <1>6
  <2>5. /\ D (.) ((a (.) w) (+) (b (.) y)) = D /\ D (.) ((a (.) x) (+) (b (.) z)) = Zero
        /\ D (.) ((c (.) w) (+) (d (.) y)) = Zero /\ D (.) ((c (.) x) (+) (d (.) z)) = D
    BY <1>2, <1>7, <2>1, <2>2, <2>3, <2>4
  <2>6. QED
    BY <1>3, <1>4, <1>7, <2>5 DEF Inverts
<1>9. Inverts(w, x, y, z, a, b, c, d)
  <2>1. (a (.) d) (+) (c (.) Neg(b)) = D
    BY <1>1, <1>5, <1>6
  <2>2. (b (.) d) (+) (d (.) Neg(b)) = Zero
    BY <1>5, <1>6, ProductClosed
  <2>3. (a (.) Neg(c)) (+) (c (.) a) = Zero
    BY <1>5, <1>6, ProductClosed
  <2>4. (b (.) Neg(c)) (+) (d (.) a) = D
    BY <1>1, <1>5, <1>6
  <2>5. /\ D (.) ((w (.) a) (+) (x (.) c)) = D /\ D (.) ((w (.) b) (+) (x (.) d)) = Zero
        /\ D (.) ((y (.) a) (+) (z (.) c)) = Zero /\ D (.) ((y (.) b) (+) (z (.) d)) = D
    BY <1>2, <1>7, <2>1, <2>2, <2>3, <2>4
  <2>6. QED
    BY <1>3, <1>4, <1>7, <2>5 DEF Inverts
<1>10. QED
  BY <1>2, <1>8, <1>9 DEF Adjugate

\* The unit matrix.
LEMMA IdentityOfTwo == Identity(2) = Square(One, Zero, Zero, One)
<1> DEFINE At(i) == IF i \div 2 = i % 2 THEN One ELSE Zero
<1>1. At(0) = One /\ At(1) = Zero /\ At(2) = Zero /\ At(3) = One
  <2>1. /\ 0 \div 2 = 0 /\ 1 \div 2 = 0 /\ 2 \div 2 = 1 /\ 3 \div 2 = 1
        /\ 0 % 2 = 0 /\ 1 % 2 = 1 /\ 2 % 2 = 0 /\ 3 % 2 = 1
    OBVIOUS
  <2>2. QED
    BY <2>1
<1>2. Identity(2) = [rows |-> 2, columns |-> 2, mat |-> [i \in 0 .. 2 * 2 - 1 |-> At(i)]]
  BY DEF Identity, Matrix
<1> HIDE DEF At
<1>3. [i \in 0 .. 2 * 2 - 1 |-> At(i)] = Four(At(0), At(1), At(2), At(3))
  BY RangesOfTwo DEF Four
<1>4. QED
  BY <1>1, <1>2, <1>3 DEF Square

\* The grouping of a product of three rows of two numbers.
Grouped(a, b, e, f, g, h, w, y) ==
  (((a (.) e) (+) (b (.) g)) (.) w) (+) (((a (.) f) (+) (b (.) h)) (.) y)
    = (a (.) ((e (.) w) (+) (f (.) y))) (+) (b (.) ((g (.) w) (+) (h (.) y)))

\* One element of a product of three matrices.
LEMMA GroupedProduct ==
  ASSUME NEW a \in Rationals, NEW b \in Rationals, NEW e \in Rationals, NEW f \in Rationals,
         NEW g \in Rationals, NEW h \in Rationals, NEW w \in Rationals, NEW y \in Rationals
  PROVE  Grouped(a, b, e, f, g, h, w, y)
<1>1. \A p, q, r \in Rationals : (p (.) q) (.) r = p (.) (q (.) r) /\ p (.) q \in Rationals
  BY ProductAssociates, ProductClosed
<1>2. \A p, q, r \in Rationals : (p (+) q) (.) r = (p (.) r) (+) (q (.) r)
  BY TimesSum
<1>3. PICK s1 \in Rationals, s2 \in Rationals, s3 \in Rationals, s4 \in Rationals :
        s1 = e (.) w /\ s2 = f (.) y /\ s3 = g (.) w /\ s4 = h (.) y
  BY <1>1
<1>4. /\ ((a (.) e) (+) (b (.) g)) (.) w = (a (.) s1) (+) (b (.) s3)
      /\ ((a (.) f) (+) (b (.) h)) (.) y = (a (.) s2) (+) (b (.) s4)
  <2>1. PICK m \in Rationals, n \in Rationals, k \in Rationals, l \in Rationals :
          m = a (.) e /\ n = b (.) g /\ k = a (.) f /\ l = b (.) h
    BY <1>1
  <2>2. (m (+) n) (.) w = (m (.) w) (+) (n (.) w) /\ (k (+) l) (.) y = (k (.) y) (+) (l (.) y)
    BY <1>2
  <2>3. m (.) w = a (.) s1 /\ n (.) w = b (.) s3 /\ k (.) y = a (.) s2 /\ l (.) y = b (.) s4
    BY <1>1, <1>3, <2>1
  <2>4. QED
    BY <2>1, <2>2, <2>3
<1>5. /\ a (.) (s1 (+) s2) = (a (.) s1) (+) (a (.) s2)
      /\ b (.) (s3 (+) s4) = (b (.) s3) (+) (b (.) s4)
  BY Distributes
<1>6. ((a (.) s1) (+) (b (.) s3)) (+) ((a (.) s2) (+) (b (.) s4))
        = ((a (.) s1) (+) (a (.) s2)) (+) ((b (.) s3) (+) (b (.) s4))
  <2>1. PICK t1 \in Rationals, t2 \in Rationals, t3 \in Rationals, t4 \in Rationals :
          t1 = a (.) s1 /\ t2 = a (.) s2 /\ t3 = b (.) s3 /\ t4 = b (.) s4
    BY <1>1
  <2>2. Interchanged(t1, t3, t2, t4)
    BY InterchangeLaw
  <2>3. QED
    BY <2>1, <2>2 DEF Interchanged
<1>7. QED
  BY <1>3, <1>4, <1>5, <1>6 DEF Grouped

\* A number, nothing of another, and the other way round.
LEMMA Picked ==
  \A p, q \in Rationals :
    /\ (p (.) One) (+) (q (.) Zero) = p /\ (p (.) Zero) (+) (q (.) One) = q
    /\ (One (.) p) (+) (Zero (.) q) = p /\ (Zero (.) p) (+) (One (.) q) = q
BY Neutral, PlusZero, TimesOne, TimesZero

\* A product with a matrix and with its inverse, as laws of the numbers.
RightUndone(a, b, c, d, e, f, g, h, w, x, y, z) ==
  Product(Product(Square(e, f, g, h), Square(w, x, y, z)), Square(a, b, c, d)) = Square(e, f, g, h)
LeftUndone(a, b, c, d, e, f, g, h, w, x, y, z) ==
  Product(Square(a, b, c, d), Product(Square(w, x, y, z), Square(e, f, g, h))) = Square(e, f, g, h)

\* A product with a matrix and then with its inverse, from the right.
LEMMA UndoneRight ==
  ASSUME NEW a \in Rationals, NEW b \in Rationals, NEW c \in Rationals, NEW d \in Rationals,
         NEW e \in Rationals, NEW f \in Rationals, NEW g \in Rationals, NEW h \in Rationals,
         NEW w \in Rationals, NEW x \in Rationals, NEW y \in Rationals, NEW z \in Rationals,
         Inverts(w, x, y, z, a, b, c, d)
  PROVE  RightUndone(a, b, c, d, e, f, g, h, w, x, y, z)
<1>1. PICK p \in Rationals, q \in Rationals, r \in Rationals, s \in Rationals :
        /\ p = (e (.) w) (+) (f (.) y) /\ q = (e (.) x) (+) (f (.) z)
        /\ r = (g (.) w) (+) (h (.) y) /\ s = (g (.) x) (+) (h (.) z)
  BY ProductClosed, SumClosed
<1>2. Product(Square(e, f, g, h), Square(w, x, y, z)) = Square(p, q, r, s)
  <2>1. SquaresMultiply(e, f, g, h, w, x, y, z)
    BY MultiplySquares
  <2>2. QED
    BY <1>1, <2>1 DEF SquaresMultiply
<1>3. Product(Square(p, q, r, s), Square(a, b, c, d))
        = Square((p (.) a) (+) (q (.) c), (p (.) b) (+) (q (.) d), (r (.) a) (+) (s (.) c), (r (.) b) (+) (s (.) d))
  <2>1. SquaresMultiply(p, q, r, s, a, b, c, d)
    BY MultiplySquares
  <2>2. QED
    BY <2>1 DEF SquaresMultiply
<1>4. /\ Grouped(e, f, w, x, y, z, a, c) /\ Grouped(e, f, w, x, y, z, b, d)
      /\ Grouped(g, h, w, x, y, z, a, c) /\ Grouped(g, h, w, x, y, z, b, d)
  BY GroupedProduct
<1>5. /\ (p (.) a) (+) (q (.) c) = e /\ (p (.) b) (+) (q (.) d) = f
      /\ (r (.) a) (+) (s (.) c) = g /\ (r (.) b) (+) (s (.) d) = h
  BY <1>1, <1>4, Picked DEF Grouped, Inverts
<1>6. QED
  BY <1>2, <1>3, <1>5 DEF RightUndone

\* The same from the left.
LEMMA UndoneLeft ==
  ASSUME NEW a \in Rationals, NEW b \in Rationals, NEW c \in Rationals, NEW d \in Rationals,
         NEW e \in Rationals, NEW f \in Rationals, NEW g \in Rationals, NEW h \in Rationals,
         NEW w \in Rationals, NEW x \in Rationals, NEW y \in Rationals, NEW z \in Rationals,
         Inverts(a, b, c, d, w, x, y, z)
  PROVE  LeftUndone(a, b, c, d, e, f, g, h, w, x, y, z)
<1>1. PICK p \in Rationals, q \in Rationals, r \in Rationals, s \in Rationals :
        /\ p = (w (.) e) (+) (x (.) g) /\ q = (w (.) f) (+) (x (.) h)
        /\ r = (y (.) e) (+) (z (.) g) /\ s = (y (.) f) (+) (z (.) h)
  BY ProductClosed, SumClosed
<1>2. Product(Square(w, x, y, z), Square(e, f, g, h)) = Square(p, q, r, s)
  <2>1. SquaresMultiply(w, x, y, z, e, f, g, h)
    BY MultiplySquares
  <2>2. QED
    BY <1>1, <2>1 DEF SquaresMultiply
<1>3. Product(Square(a, b, c, d), Square(p, q, r, s))
        = Square((a (.) p) (+) (b (.) r), (a (.) q) (+) (b (.) s), (c (.) p) (+) (d (.) r), (c (.) q) (+) (d (.) s))
  <2>1. SquaresMultiply(a, b, c, d, p, q, r, s)
    BY MultiplySquares
  <2>2. QED
    BY <2>1 DEF SquaresMultiply
<1>4. /\ Grouped(a, b, w, x, y, z, e, g) /\ Grouped(a, b, w, x, y, z, f, h)
      /\ Grouped(c, d, w, x, y, z, e, g) /\ Grouped(c, d, w, x, y, z, f, h)
  BY GroupedProduct
<1>5. /\ (a (.) p) (+) (b (.) r) = e /\ (a (.) q) (+) (b (.) s) = f
      /\ (c (.) p) (+) (d (.) r) = g /\ (c (.) q) (+) (d (.) s) = h
  BY <1>1, <1>4, Picked DEF Grouped, Inverts
<1>6. QED
  BY <1>2, <1>3, <1>5 DEF LeftUndone

\* Matrices of 2 x 2: the inverse, the divisions and XXLinearSolve undo the product
\* from both sides, whichever row the pivot is in, and leave the destination alone
\* if the determinant is zero (common/xxmatrix.cpp, common/xxinverse.cpp).
THEOREM InverseInverts ==
  ASSUME NEW a \in Rationals, NEW b \in Rationals, NEW c \in Rationals, NEW d \in Rationals,
         NEW e \in Rationals, NEW f \in Rationals, NEW g \in Rationals, NEW h \in Rationals
  PROVE  InverseLaw(Square(a, b, c, d), Square(e, f, g, h))
<1>1. PICK A, B : A = Square(a, b, c, d) /\ B = Square(e, f, g, h)
  OBVIOUS
<1>2. PICK D : D = (a (.) d) (-) (b (.) c)
  OBVIOUS
<1>3. A.rows = 2 /\ A.columns = 2 /\ B.rows = 2 /\ B.columns = 2
  BY <1>1, Elements
<1>4. XXMatrixDeterminant(A) = D
  BY <1>1, <1>2, InverseOfTwo
<1>5. ASSUME NEW dest
      PROVE  XXInverse(dest, A) = [mat |-> IF D = Zero THEN dest ELSE Adjugate(a, b, c, d, D), det |-> D]
  BY <1>1, <1>2, InverseOfTwo
<1>6. CASE D = Zero
  <2>1. XXMatrixInverse(B, A) = B
    BY <1>5, <1>6 DEF XXMatrixInverse
  <2>2. XXMatrixDiv(B, A, A) = B
    BY <1>5, <1>6 DEF XXMatrixDiv
  <2>3. XXScalarMatrixDiv(B, Whole(2), A) = B
    BY <1>5, <1>6 DEF XXScalarMatrixDiv
  <2>4. QED
    BY <1>1, <1>4, <1>6, <2>1, <2>2, <2>3 DEF InverseLaw
<1>7. CASE D # Zero
  <2>1. PICK w \in Rationals, x \in Rationals, y \in Rationals, z \in Rationals :
          /\ Adjugate(a, b, c, d, D) = Square(w, x, y, z)
          /\ Inverts(a, b, c, d, w, x, y, z) /\ Inverts(w, x, y, z, a, b, c, d)
    BY <1>2, <1>7, AdjugateInverts
  <2>2. PICK I : I = Square(w, x, y, z)
    OBVIOUS
  <2>3. \A dest : XXInverse(dest, A).mat = I /\ XXInverse(dest, A).det # Zero
    BY <1>5, <1>7, <2>1, <2>2
  <2>4. I.rows = 2 /\ I.columns = 2
    BY <2>2, Elements
  <2>5. Product(A, I) = Identity(2) /\ Product(I, A) = Identity(2)
    <3>1. SquaresMultiply(a, b, c, d, w, x, y, z) /\ SquaresMultiply(w, x, y, z, a, b, c, d)
      BY MultiplySquares
    <3>2. QED
      BY <1>1, <2>1, <2>2, <3>1, IdentityOfTwo DEF SquaresMultiply, Inverts
  <2>6. Product(A, XXMatrixScalarMul(I, Whole(2))) = XXMatrixScalarMul(Identity(2), Whole(2))
    <3>1. PICK t \in Rationals : t = Whole(2)
      BY Wholes
    <3>2. XXMatrixScalarMul(I, t) = Square(w (.) t, x (.) t, y (.) t, z (.) t)
      BY <2>2, ScaleSquare
    <3>3. XXMatrixScalarMul(Identity(2), t) = Square(One (.) t, Zero (.) t, Zero (.) t, One (.) t)
      BY IdentityOfTwo, ScaleSquare
    <3>4. SquaresMultiply(a, b, c, d, w (.) t, x (.) t, y (.) t, z (.) t)
      <4>1. w (.) t \in Rationals /\ x (.) t \in Rationals /\ y (.) t \in Rationals /\ z (.) t \in Rationals
        BY ProductClosed
      <4>2. QED
        BY <4>1, MultiplySquares
    <3>5. ASSUME NEW p \in Rationals, NEW q \in Rationals, NEW u \in Rationals, NEW v \in Rationals
          PROVE  (p (.) (u (.) t)) (+) (q (.) (v (.) t)) = ((p (.) u) (+) (q (.) v)) (.) t
      <4>1. PICK m \in Rationals, n \in Rationals : m = p (.) u /\ n = q (.) v
        BY ProductClosed
      <4>2. p (.) (u (.) t) = m (.) t /\ q (.) (v (.) t) = n (.) t
        BY <4>1, ProductAssociates
      <4>3. (m (+) n) (.) t = (m (.) t) (+) (n (.) t)
        BY TimesSum
      <4>4. QED
        BY <4>1, <4>2, <4>3
    <3>6. QED
      BY <1>1, <2>1, <3>1, <3>2, <3>3, <3>4, <3>5 DEF SquaresMultiply, Inverts
  <2>7. Product(Product(B, I), A) = B /\ Product(A, Product(I, B)) = B
    <3>1. RightUndone(a, b, c, d, e, f, g, h, w, x, y, z)
      BY <2>1, UndoneRight
    <3>2. LeftUndone(a, b, c, d, e, f, g, h, w, x, y, z)
      BY <2>1, UndoneLeft
    <3>3. QED
      BY <1>1, <2>2, <3>1, <3>2 DEF RightUndone, LeftUndone
  <2>8. /\ XXMatrixInverse(B, A) = I
        /\ XXScalarMatrixDiv(B, Whole(2), A) = XXMatrixScalarMul(I, Whole(2))
    BY <2>3 DEF XXMatrixInverse, XXScalarMatrixDiv
  <2>9. XXMatrixDiv(A, B, A) = Product(B, I)
    BY <1>3, <2>3, <2>4 DEF XXMatrixDiv, Product
  <2>10. XXLinearSolve(A, B) = Product(I, B)
    BY <1>3, <2>3, <2>4 DEF XXLinearSolve, XXMatrixInverse, Product
  <2>11. QED
    BY <1>1, <1>3, <1>4, <1>7, <2>5, <2>6, <2>7, <2>8, <2>9, <2>10 DEF InverseLaw
<1>8. QED
  BY <1>6, <1>7

-----------------------------------------------------------------------------
(***************************************************************************)
(* Division, rounding and signs.                                           *)
(***************************************************************************)

\* A positive factor on both sides.
LEMMA PositiveFactor ==
  ASSUME NEW k \in Int, k > 0, NEW u \in Int, NEW v \in Int
  PROVE  (k * u < k * v <=> u < v) /\ (k * u < 0 <=> u < 0) /\ (k * u = 0 <=> u = 0)
OBVIOUS

\* Numbers compare as their fractions do.
LEMMA LessIs ==
  ASSUME NEW a, NEW b, NEW n, NEW d, NEW m, NEW e, Is(a, n, d), Is(b, m, e), d > 0, e > 0
  PROVE  Less(a, b) <=> n * e < m * d
<1>1. /\ a[1] \in Int /\ a[2] \in Int /\ a[2] > 0 /\ a[1] * d = n * a[2]
      /\ b[1] \in Int /\ b[2] \in Int /\ b[2] > 0 /\ b[1] * e = m * b[2]
      /\ n \in Int /\ d \in Int /\ m \in Int /\ e \in Int
  BY NumbersOf DEF Is
<1>2. PICK k \in Int, l \in Int : k = d * e /\ l = a[2] * b[2] /\ k > 0 /\ l > 0
  BY <1>1
<1>3. PICK p \in Int, q \in Int, u \in Int, v \in Int :
        p = a[1] * b[2] /\ q = b[1] * a[2] /\ u = n * e /\ v = m * d
  BY <1>1
<1>4. k * p = l * u
  <2>1. k * p = (a[1] * d) * (e * b[2])
    BY <1>1, <1>2, <1>3
  <2>2. l * u = (n * a[2]) * (e * b[2])
    BY <1>1, <1>2, <1>3
  <2>3. QED
    BY <1>1, <2>1, <2>2
<1>5. k * q = l * v
  <2>1. k * q = (b[1] * e) * (d * a[2])
    BY <1>1, <1>2, <1>3
  <2>2. l * v = (m * b[2]) * (d * a[2])
    BY <1>1, <1>2, <1>3
  <2>3. QED
    BY <1>1, <2>1, <2>2
<1>6. p < q <=> u < v
  <2>1. p < q <=> k * p < k * q
    BY <1>2, PositiveFactor
  <2>2. u < v <=> l * u < l * v
    BY <1>2, PositiveFactor
  <2>3. QED
    BY <1>4, <1>5, <2>1, <2>2
<1>7. QED
  BY <1>3, <1>6 DEF Less

\* The sign of a number is that of its fraction.
LEMMA SignIs ==
  ASSUME NEW a, NEW n, NEW d, Is(a, n, d), d > 0
  PROVE  (a[1] < 0 <=> n < 0) /\ (a[1] = 0 <=> n = 0)
<1>1. a[1] \in Int /\ a[2] \in Int /\ a[2] > 0 /\ a[1] * d = n * a[2] /\ n \in Int /\ d \in Int
  BY NumbersOf DEF Is
<1>2. (d * a[1] < 0 <=> a[1] < 0) /\ (d * a[1] = 0 <=> a[1] = 0)
  BY <1>1, PositiveFactor
<1>3. (a[2] * n < 0 <=> n < 0) /\ (a[2] * n = 0 <=> n = 0)
  BY <1>1, PositiveFactor
<1>4. d * a[1] = a[2] * n
  BY <1>1
<1>5. QED
  BY <1>2, <1>3, <1>4

\* Magnitudes.
LEMMA AbsIs ==
  ASSUME NEW a, NEW n, NEW d, Is(a, n, d), d > 0
  PROVE  Is(Abs(a), Magnitude(n), d)
<1>1. /\ a \in Rationals /\ a[1] \in Int /\ a[2] \in Int /\ a[2] > 0 /\ a[1] * d = n * a[2]
      /\ n \in Int /\ d \in Int /\ a = <<a[1], a[2]>>
  BY NumbersOf DEF Is
<1>2. Magnitude(a[1]) \in Nat /\ Magnitude(Magnitude(a[1])) = Magnitude(a[1]) /\ Magnitude(n) \in Int
  BY <1>1 DEF Magnitude
<1>3. Abs(a) \in Rationals
  BY <1>1, <1>2 DEF Abs, Rationals
<1>4. Magnitude(a[1]) * d = Magnitude(n) * a[2]
  <2>1. a[1] < 0 <=> n < 0
    BY SignIs
  <2>2. (- a[1]) * d = -(a[1] * d) /\ (- n) * a[2] = -(n * a[2])
    BY <1>1
  <2>3. QED
    BY <1>1, <2>1, <2>2 DEF Magnitude
<1>5. QED
  BY <1>1, <1>2, <1>3, <1>4 DEF Is, Abs

\* A number is zero when its numerator is.
LEMMA ZeroNumerator == ASSUME NEW a \in Rationals PROVE a = Zero <=> a[1] = 0
<1>1. Is(a, a[1], a[2]) /\ a[1] \in Int /\ a[2] \in Int /\ a[2] # 0
  BY NumbersOf
<1>2. ASSUME a[1] = 0 PROVE a = Zero
  <2>1. Is(Zero, 0, 1) /\ 0 * a[2] = 0 /\ a[1] * 1 = 0
    BY <1>1, <1>2, Wholes
  <2>2. QED
    BY <1>1, <1>2, <2>1, IsOneNumber
<1>3. Zero[1] = 0
  BY DEF Zero, Whole
<1>4. QED
  BY <1>2, <1>3

\* What the conversion to an integer cuts off has the sign of the number.
LEMMA TruncatedIs ==
  ASSUME NEW r \in Rationals
  PROVE  \E t, k \in Int :
           /\ Truncated(r) = t /\ r[1] = (t * r[2]) + k
           /\ - r[2] < k /\ k < r[2]
           /\ r[1] < 0 => k <= 0
           /\ r[1] >= 0 => 0 <= k /\ k <= r[1]
<1>1. r[1] \in Int /\ r[2] \in Nat /\ r[2] # 0
  BY NumbersOf
<1>2. CASE r[1] < 0
  <2>1. PICK n \in Nat : n = - r[1]
    BY <1>1, <1>2
  <2>2. n % r[2] \in Nat /\ n % r[2] < r[2] /\ n \div r[2] \in Nat
        /\ n = (r[2] * (n \div r[2])) + (n % r[2])
    BY <1>1, Division
  <2>3. PICK m \in Nat, k \in Nat : m = n \div r[2] /\ k = n % r[2]
    BY <2>2
  <2>4. Truncated(r) = -m
    BY <1>2, <2>1, <2>3 DEF Truncated
  <2>5. r[1] = ((-m) * r[2]) + (-k)
    <3>1. n = (r[2] * m) + k
      BY <2>2, <2>3
    <3>2. (-m) * r[2] = -(r[2] * m)
      BY <1>1
    <3>3. r[1] = -n
      BY <1>1, <2>1
    <3>4. PICK z \in Int : z = r[2] * m
      BY <1>1
    <3>5. QED
      BY <3>1, <3>2, <3>3, <3>4
  <2>6. -m \in Int /\ -k \in Int /\ - r[2] < -k /\ -k < r[2] /\ -k <= 0
    <3>1. PICK d \in Nat : d = r[2] /\ k < d
      BY <1>1, <2>2, <2>3
    <3>2. - d < -k /\ -k < d /\ -k <= 0 /\ -m \in Int /\ -k \in Int
      BY <3>1
    <3>3. QED
      BY <3>1, <3>2
  <2>7. QED
    BY <1>1, <1>2, <2>4, <2>5, <2>6
<1>3. CASE r[1] >= 0
  <2>1. r[1] \in Nat
    BY <1>1, <1>3
  <2>2. r[1] % r[2] \in Nat /\ r[1] % r[2] < r[2] /\ r[1] \div r[2] \in Nat
        /\ r[1] = (r[2] * (r[1] \div r[2])) + (r[1] % r[2])
    BY <1>1, <2>1, Division
  <2>3. PICK m \in Nat, k \in Nat : m = r[1] \div r[2] /\ k = r[1] % r[2]
    BY <2>2
  <2>4. Truncated(r) = m
    BY <1>1, <1>3, <2>3 DEF Truncated
  <2>5. r[1] = (m * r[2]) + k
    BY <1>1, <2>2, <2>3
  <2>6. - r[2] < k /\ k < r[2] /\ k >= 0 /\ k <= r[1]
    <3>1. PICK z \in Nat : z = r[2] * m
      BY <1>1
    <3>2. r[1] = z + k
      BY <2>2, <2>3, <3>1
    <3>3. k <= r[1]
      BY <3>2
    <3>4. QED
      BY <1>1, <2>2, <2>3, <3>3
  <2>7. QED
    BY <1>1, <1>3, <2>4, <2>5, <2>6
<1>4. QED
  BY <1>1, <1>2, <1>3

\* The conversion to an integer is the same on both sides of zero.
LEMMA TruncatedTurns == ASSUME NEW r \in Rationals PROVE Truncated(Neg(r)) = - Truncated(r)
<1>1. r[1] \in Int /\ r[2] \in Nat /\ r[2] # 0 /\ Neg(r)[1] = - r[1] /\ Neg(r)[2] = r[2]
  BY NumbersOf DEF Neg
<1>2. \A n \in Nat : n \div r[2] \in Nat
  BY <1>1, Division
<1>3. CASE r[1] < 0
  <2>1. PICK m \in Nat : m = (- r[1]) \div r[2]
    BY <1>1, <1>2, <1>3
  <2>2. Truncated(r) = -m /\ Truncated(Neg(r)) = m
    BY <1>1, <1>3, <2>1 DEF Truncated
  <2>3. QED
    BY <2>2
<1>4. CASE r[1] > 0
  <2>1. PICK m \in Nat : m = r[1] \div r[2]
    BY <1>1, <1>2, <1>4
  <2>2. - r[1] < 0 /\ -(- r[1]) = r[1] /\ ~(r[1] < 0)
    BY <1>1, <1>4
  <2>3. Truncated(r) = m /\ Truncated(Neg(r)) = -m
    BY <1>1, <2>1, <2>2 DEF Truncated
  <2>4. QED
    BY <2>3
<1>5. CASE r[1] = 0
  <2>1. PICK m \in Nat : m = r[1] \div r[2] /\ m <= 0
    <3>1. r[1] % r[2] \in Nat /\ r[1] \div r[2] \in Nat
          /\ r[1] = (r[2] * (r[1] \div r[2])) + (r[1] % r[2])
      BY <1>1, <1>5, Division
    <3>2. PICK m \in Nat, k \in Nat : m = r[1] \div r[2] /\ 0 = (r[2] * m) + k
      BY <1>5, <3>1
    <3>3. m <= 0
      BY <1>1, <3>2
    <3>4. QED
      BY <3>2, <3>3
  <2>2. PICK n \in Nat : n = r[1] /\ -n = n
    <3>1. PICK n \in Nat : n = r[1] /\ n <= 0
      BY <1>1, <1>5
    <3>2. -n = n
      BY <3>1
    <3>3. QED
      BY <3>1, <3>2
  <2>3. - r[1] = r[1] /\ ~(r[1] < 0) /\ ~(- r[1] < 0)
    BY <1>1, <1>5, <2>2
  <2>4. Truncated(r) = m /\ Truncated(Neg(r)) = m
    BY <1>1, <2>1, <2>3 DEF Truncated
  <2>5. -m = m
    BY <2>1
  <2>6. QED
    BY <2>4, <2>5
<1>6. r[1] < 0 \/ r[1] = 0 \/ r[1] > 0
  BY <1>1
<1>7. QED
  BY <1>3, <1>4, <1>5, <1>6

\* A common factor of a fraction.
LEMMA IsReduced ==
  ASSUME NEW r, NEW n, NEW d, NEW m \in Int, NEW e \in Int, NEW f \in Int,
         Is(r, n, d), n = m * f, d = e * f, f # 0, e # 0
  PROVE  Is(r, m, e)
<1>1. r \in Rationals /\ r[1] \in Int /\ r[2] \in Int /\ r[1] * (e * f) = (m * f) * r[2]
  BY NumbersOf DEF Is
<1>2. f * (r[1] * e) = f * (m * r[2])
  <2>1. r[1] * (e * f) = f * (r[1] * e) /\ (m * f) * r[2] = f * (m * r[2])
    BY <1>1
  <2>2. QED
    BY <1>1, <2>1
<1>3. r[1] * e \in Int /\ m * r[2] \in Int
  BY <1>1
<1>4. r[1] * e = m * r[2]
  BY <1>2, <1>3, Cancel
<1>5. QED
  BY <1>1, <1>4 DEF Is

\* The remainder as a fraction: what the conversion of the quotient cuts off, of y.
LEMMA RemainderIs ==
  ASSUME NEW x \in Rationals, NEW y \in Rationals, y # Zero
  PROVE  \E t, n, k, c, q, e \in Int :
           /\ XXIntegerDivide(x, y) = Whole(t) /\ q > 0 /\ e > 0 /\ c # 0
           /\ Is(x, n * c, q * e) /\ Is(y, c, e) /\ Is(XXIntegerModulo(x, y), k * c, q * e)
           /\ - q < k /\ k < q
           /\ n < 0 => k <= 0
           /\ n >= 0 => 0 <= k /\ k <= n
<1>1. PICK z \in Rationals : z = x (/) y /\ x = z (.) y
  BY Closed, Quotients
<1>2. PICK t \in Int, k \in Int :
        /\ Truncated(z) = t /\ z[1] = (t * z[2]) + k /\ - z[2] < k /\ k < z[2]
        /\ z[1] < 0 => k <= 0
        /\ z[1] >= 0 => 0 <= k /\ k <= z[1]
  BY TruncatedIs
<1>3. PICK n \in Int, q \in Int, c \in Int, e \in Int :
        /\ n = z[1] /\ q = z[2] /\ c = y[1] /\ e = y[2] /\ q > 0 /\ e > 0
        /\ Is(z, n, q) /\ Is(y, c, e)
  BY NumbersOf
<1>4. c # 0
  BY <1>3, ZeroNumerator
<1>5. Is(x, n * c, q * e)
  BY <1>1, <1>3, ArithmeticIs
<1>6. XXIntegerDivide(x, y) = Whole(t)
  BY <1>1, <1>2 DEF XXIntegerDivide
<1>7. Is(XXIntegerModulo(x, y), k * c, q * e)
  <2>1. Is(Whole(t), t, 1) /\ Whole(t) \in Rationals
    BY Wholes
  <2>2. Is(Whole(t) (.) y, t * c, 1 * e)
    BY <1>3, <2>1, ArithmeticIs
  <2>3. Is(x (-) (Whole(t) (.) y), ((n * c) * (1 * e)) - ((t * c) * (q * e)), (q * e) * (1 * e))
    BY <1>5, <2>2, ArithmeticIs
  <2>4. ((n * c) * (1 * e)) - ((t * c) * (q * e)) = (k * c) * e
    <3>1. n = (t * q) + k
      BY <1>2, <1>3
    <3>2. ((((t * q) + k) * c) * (1 * e)) - ((t * c) * (q * e)) = (k * c) * e
      OBVIOUS
    <3>3. QED
      BY <3>1, <3>2
  <2>5. (q * e) * (1 * e) = (q * e) * e
    OBVIOUS
  <2>6. k * c \in Int /\ q * e \in Int /\ q * e # 0
    BY <1>3
  <2>7. Is(x (-) (Whole(t) (.) y), k * c, q * e)
    BY <1>3, <2>3, <2>4, <2>5, <2>6, IsReduced
  <2>8. QED
    BY <1>6, <2>7 DEF XXIntegerModulo
<1>8. QED
  BY <1>2, <1>3, <1>4, <1>5, <1>6, <1>7

\* Magnitudes of products.
LEMMA MagnitudeOfProduct ==
  ASSUME NEW k \in Int, NEW c \in Int
  PROVE  Magnitude(k * c) = Magnitude(k) * Magnitude(c) /\ Magnitude(c) \in Nat
<1>1. ASSUME NEW a \in Nat, NEW b \in Nat
      PROVE  /\ a * b \in Nat /\ (-a) * (-b) = a * b
             /\ (-a) * b = -(a * b) /\ a * (-b) = -(a * b)
  OBVIOUS
<1>2. PICK a \in Nat, b \in Nat : a = Magnitude(k) /\ b = Magnitude(c)
  BY DEF Magnitude
<1>3. (k = a \/ k = -a) /\ (c = b \/ c = -b)
  BY <1>2 DEF Magnitude
<1>4. PICK p \in Nat : p = a * b
  BY <1>1
<1>5. k * c = p \/ k * c = -p
  BY <1>1, <1>3, <1>4
<1>6. Magnitude(k * c) = p
  <2>1. Magnitude(p) = p /\ Magnitude(-p) = p
    BY DEF Magnitude
  <2>2. QED
    BY <1>5, <2>1
<1>7. QED
  BY <1>2, <1>4, <1>6

\* The sign of a number.
LEMMA SignOf ==
  ASSUME NEW a \in Rationals
  PROVE  XXSign(a) = IF a[1] < 0 THEN Whole(-1) ELSE IF a[1] = 0 THEN Zero ELSE One
<1>1. Less(a, Zero) <=> a[1] < 0
  BY NumbersOf DEF Less, Zero, Whole
<1>2. QED
  BY <1>1, ZeroNumerator DEF XXSign

\* Any number divided by any number but zero: the quotient is whole, and what is
\* left is smaller than the divisor and has the sign of the number that is divided
\* (common/xxfuncs.cpp, XXIntegerDivide and XXIntegerModulo).
THEOREM RemainderHasSign ==
  ASSUME NEW x \in Rationals, NEW y \in Rationals, y # Zero
  PROVE  RemainderLaw(x, y)
<1> DEFINE div == XXIntegerDivide(x, y)
           mod == XXIntegerModulo(x, y)
<1>1. PICK t, n, k, c, q, e \in Int :
        /\ div = Whole(t) /\ q > 0 /\ e > 0 /\ c # 0
        /\ Is(x, n * c, q * e) /\ Is(y, c, e) /\ Is(mod, k * c, q * e)
        /\ - q < k /\ k < q
        /\ n < 0 => k <= 0
        /\ n >= 0 => 0 <= k /\ k <= n
  BY RemainderIs
<1>2. q * e \in Int /\ q * e > 0 /\ mod \in Rationals /\ div \in Rationals /\ div[2] = 1
  BY <1>1, Wholes DEF Is, Whole
<1>3. x = (div (.) y) (+) mod
  <2>1. div (.) y \in Rationals
    BY <1>2, ProductClosed
  <2>2. mod = x (-) (div (.) y)
    BY DEF XXIntegerModulo
  <2>3. x = (x (-) (div (.) y)) (+) (div (.) y)
    BY <2>1, MinusPlus
  <2>4. QED
    BY <1>2, <2>1, <2>2, <2>3, SumCommutes
<1> HIDE DEF div, mod
<1>4. Less(Abs(mod), Abs(y))
  <2>1. Is(Abs(mod), Magnitude(k * c), q * e) /\ Is(Abs(y), Magnitude(c), e)
    BY <1>1, <1>2, AbsIs
  <2>2. PICK l \in Nat, m \in Nat :
          l = Magnitude(k) /\ m = Magnitude(c) /\ Magnitude(k * c) = l * m /\ m > 0 /\ l < q
    <3>1. Magnitude(k) \in Nat /\ Magnitude(c) \in Nat /\ Magnitude(c) > 0 /\ Magnitude(k) < q
      BY <1>1 DEF Magnitude
    <3>2. QED
      BY <3>1, MagnitudeOfProduct
  <2>3. (l * m) * e < m * (q * e)
    <3>1. m * e \in Int /\ m * e > 0
      BY <1>1, <2>2
    <3>2. (m * e) * l < (m * e) * q
      BY <2>2, <3>1, PositiveFactor
    <3>3. (l * m) * e = (m * e) * l /\ m * (q * e) = (m * e) * q
      OBVIOUS
    <3>4. QED
      BY <3>2, <3>3
  <2>4. QED
    BY <1>1, <1>2, <2>1, <2>2, <2>3, LessIs
<1>5. ASSUME mod # Zero PROVE XXSign(mod) = XXSign(x)
  <2>1. k * c # 0
    BY <1>1, <1>2, <1>5, SignIs, ZeroNumerator
  <2>2. k # 0
    BY <2>1
  <2>3. (k < 0 <=> n < 0) /\ n # 0
    BY <1>1, <2>2
  <2>4. (k * c < 0 <=> n * c < 0) /\ n * c # 0
    <3>1. CASE c > 0
      <4>1. (c * k < 0 <=> k < 0) /\ (c * n < 0 <=> n < 0) /\ (c * n = 0 <=> n = 0)
        BY <3>1, PositiveFactor
      <4>2. c * k = k * c /\ c * n = n * c
        OBVIOUS
      <4>3. QED
        BY <2>3, <4>1, <4>2
    <3>2. CASE c < 0
      <4>1. PICK b \in Int : c = -b /\ b > 0
        BY <3>2
      <4>2. (b * (-k) < 0 <=> -k < 0) /\ (b * (-n) < 0 <=> -n < 0) /\ (b * (-n) = 0 <=> -n = 0)
        BY <4>1, PositiveFactor
      <4>3. b * (-k) = k * c /\ b * (-n) = n * c
        BY <4>1
      <4>4. (-k < 0 <=> ~(k < 0)) /\ (-n < 0 <=> ~(n < 0)) /\ -n # 0
        BY <2>2, <2>3
      <4>5. QED
        BY <2>3, <4>2, <4>3, <4>4
    <3>3. QED
      BY <1>1, <3>1, <3>2
  <2>5. (mod[1] < 0 <=> k * c < 0) /\ (mod[1] = 0 <=> k * c = 0)
    BY <1>1, <1>2, SignIs
  <2>6. (x[1] < 0 <=> n * c < 0) /\ (x[1] = 0 <=> n * c = 0)
    BY <1>1, <1>2, SignIs
  <2>7. QED
    BY <1>2, <2>1, <2>4, <2>5, <2>6, SignOf
<1>6. QED
  BY <1>2, <1>3, <1>4, <1>5 DEF RemainderLaw, div, mod

\* The distance of a number to what the conversion to an integer makes of it.
LEMMA Distance ==
  ASSUME NEW x \in Rationals, NEW n \in Int, NEW k \in Int, NEW i \in Int,
         n = x[1], n - (i * x[2]) = k
  PROVE  /\ Is(x (-) Whole(i), k, x[2]) /\ Is(Whole(i) (-) x, -k, x[2])
         /\ Is(Abs(x (-) Whole(i)), Magnitude(k), x[2])
         /\ Is(Abs(Whole(i) (-) x), Magnitude(k), x[2])
<1>1. PICK d \in Int : d = x[2] /\ d > 0 /\ Is(x, n, d)
  BY NumbersOf
<1>2. Is(Whole(i), i, 1)
  BY Wholes
<1>3. Is(x (-) Whole(i), (n * 1) - (i * d), d * 1) /\ Is(Whole(i) (-) x, (i * d) - (n * 1), 1 * d)
  BY <1>1, <1>2, ArithmeticIs
<1>4. (n * 1) - (i * d) = k /\ d * 1 = d /\ (i * d) - (n * 1) = -k /\ 1 * d = d
  BY <1>1
<1>5. Is(x (-) Whole(i), k, d) /\ Is(Whole(i) (-) x, -k, d)
  BY <1>3, <1>4
<1>6. Magnitude(-k) = Magnitude(k)
  BY DEF Magnitude
<1>7. Is(Abs(x (-) Whole(i)), Magnitude(k), d) /\ Is(Abs(Whole(i) (-) x), Magnitude(-k), d)
  BY <1>1, <1>5, AbsIs
<1>8. QED
  BY <1>1, <1>5, <1>6, <1>7

\* A half.
LEMMA Half == Is(Ratio(1, 2), 1, 2)
BY RatioIs

\* Which whole number XXRound returns.
LEMMA RoundIs ==
  ASSUME NEW x \in Rationals
  PROVE  \E n, d, t, k, i \in Int :
           /\ n = x[1] /\ d = x[2] /\ d > 0 /\ t = Truncated(x)
           /\ n = (t * d) + k /\ - d < k /\ k < d
           /\ n < 0 => k <= 0
           /\ n >= 0 => 0 <= k /\ k <= n
           /\ i = (IF 2 * Magnitude(k) < d THEN t ELSE IF n < 0 THEN t - 1 ELSE t + 1)
           /\ XXRound(x) = Whole(i)
<1>1. PICK n \in Int, d \in Int : n = x[1] /\ d = x[2] /\ d > 0
  BY NumbersOf
<1>2. PICK t \in Int, k \in Int :
        /\ t = Truncated(x) /\ n = (t * d) + k /\ - d < k /\ k < d
        /\ n < 0 => k <= 0
        /\ n >= 0 => 0 <= k /\ k <= n
  BY <1>1, TruncatedIs
<1>3. Less(Abs(x (-) Whole(t)), Ratio(1, 2)) <=> 2 * Magnitude(k) < d
  <2>1. Is(Abs(x (-) Whole(t)), Magnitude(k), d)
    <3>1. n - (t * d) = k
      BY <1>2
    <3>2. QED
      BY <1>1, <3>1, Distance
  <2>2. Less(Abs(x (-) Whole(t)), Ratio(1, 2)) <=> Magnitude(k) * 2 < 1 * d
    BY <1>1, <2>1, Half, LessIs
  <2>3. Magnitude(k) \in Int
    BY DEF Magnitude
  <2>4. QED
    BY <1>1, <2>2, <2>3
<1>4. Less(x, Zero) <=> n < 0
  BY <1>1 DEF Less, Zero, Whole
<1>5. PICK i \in Int : i = (IF 2 * Magnitude(k) < d THEN t ELSE IF n < 0 THEN t - 1 ELSE t + 1)
  BY <1>2
<1>6. XXRound(x) = Whole(i)
  BY <1>2, <1>3, <1>4, <1>5 DEF XXRound
<1>7. QED
  BY <1>1, <1>2, <1>5, <1>6

\* Any number: XXRound is at most a half away and treats both sides of zero alike,
\* and XXSign and XXPow2 are the sign and the square (common/xxfuncs.cpp).
THEOREM RoundsToNearest == ASSUME NEW x \in Rationals PROVE RoundingLaw(x)
<1>1. PICK n, d, t, k, i \in Int :
        /\ n = x[1] /\ d = x[2] /\ d > 0 /\ t = Truncated(x)
        /\ n = (t * d) + k /\ - d < k /\ k < d
        /\ n < 0 => k <= 0
        /\ n >= 0 => 0 <= k /\ k <= n
        /\ i = (IF 2 * Magnitude(k) < d THEN t ELSE IF n < 0 THEN t - 1 ELSE t + 1)
        /\ XXRound(x) = Whole(i)
  BY RoundIs
<1>2. ~Less(Ratio(1, 2), Abs(XXRound(x) (-) x)) /\ XXRound(x)[2] = 1
  <2>1. PICK j \in Int : n - (i * d) = j /\ ~(d < 2 * Magnitude(j))
    <3>1. CASE 2 * Magnitude(k) < d
      <4>1. i = t /\ n - (i * d) = k
        BY <1>1, <3>1
      <4>2. 2 * Magnitude(k) \in Int
        BY DEF Magnitude
      <4>3. QED
        BY <1>1, <3>1, <4>1, <4>2
    <3>2. CASE ~(2 * Magnitude(k) < d) /\ n < 0
      <4>1. i = t - 1 /\ n - (i * d) = k + d
        <5>1. (t - 1) * d = (t * d) - d
          OBVIOUS
        <5>2. QED
          BY <1>1, <3>2, <5>1
      <4>2. ~(d < 2 * Magnitude(k + d))
        BY <1>1, <3>2 DEF Magnitude
      <4>3. QED
        BY <4>1, <4>2
    <3>3. CASE ~(2 * Magnitude(k) < d) /\ ~(n < 0)
      <4>1. i = t + 1 /\ n - (i * d) = k - d
        <5>1. (t + 1) * d = (t * d) + d
          OBVIOUS
        <5>2. QED
          BY <1>1, <3>3, <5>1
      <4>2. ~(d < 2 * Magnitude(k - d))
        BY <1>1, <3>3 DEF Magnitude
      <4>3. QED
        BY <4>1, <4>2
    <3>4. QED
      BY <3>1, <3>2, <3>3
  <2>2. Is(Abs(XXRound(x) (-) x), Magnitude(j), d)
    BY <1>1, <2>1, Distance
  <2>3. Less(Ratio(1, 2), Abs(XXRound(x) (-) x)) <=> 1 * d < Magnitude(j) * 2
    BY <1>1, <2>2, Half, LessIs
  <2>4. Magnitude(j) \in Int
    BY DEF Magnitude
  <2>5. QED
    BY <1>1, <2>1, <2>3, <2>4 DEF Whole
<1>3. XXRound(Neg(x)) = Neg(XXRound(x))
  <2>1. Neg(x) \in Rationals /\ Neg(x)[1] = -n /\ Neg(x)[2] = d /\ Truncated(Neg(x)) = -t
    BY <1>1, NegClosed, TruncatedTurns DEF Neg
  <2>2. PICK N, D, T, K, I \in Int :
          /\ N = Neg(x)[1] /\ D = Neg(x)[2] /\ T = Truncated(Neg(x)) /\ N = (T * D) + K
          /\ I = (IF 2 * Magnitude(K) < D THEN T ELSE IF N < 0 THEN T - 1 ELSE T + 1)
          /\ XXRound(Neg(x)) = Whole(I)
    BY <2>1, RoundIs
  <2>3. N = -n /\ D = d /\ T = -t /\ K = -k
    <3>1. (-t) * d = -(t * d)
      OBVIOUS
    <3>2. PICK p \in Int : p = t * d
      OBVIOUS
    <3>3. N = -n /\ D = d /\ T = -t
      BY <2>1, <2>2
    <3>4. -n = (-p) + K /\ n = p + k
      BY <1>1, <2>2, <3>1, <3>2, <3>3
    <3>5. QED
      BY <3>3, <3>4
  <2>4. Magnitude(K) = Magnitude(k)
    BY <2>3 DEF Magnitude
  <2>5. I = -i
    <3>1. CASE 2 * Magnitude(k) < d
      BY <1>1, <2>2, <2>3, <2>4, <3>1
    <3>2. CASE ~(2 * Magnitude(k) < d)
      <4>1. n # 0
        BY <1>1, <3>2 DEF Magnitude
      <4>2. -n < 0 <=> ~(n < 0)
        BY <4>1
      <4>3. QED
        BY <1>1, <2>2, <2>3, <2>4, <3>2, <4>2
    <3>3. QED
      BY <3>1, <3>2
  <2>6. Neg(Whole(i)) = Whole(-i)
    BY DEF Neg, Whole
  <2>7. QED
    BY <1>1, <2>2, <2>5, <2>6
<1>4. x (.) XXSign(x) = Abs(x)
  <2>1. CASE n < 0
    <3>1. Is(Whole(-1), -1, 1) /\ Is(x, n, d)
      <4>1. Is(Whole(-1), -1, 1)
        <5>1. -1 \in Int
          OBVIOUS
        <5>2. QED
          BY <5>1, Wholes
      <4>2. QED
        BY <1>1, <4>1, NumbersOf
    <3>2. Is(x (.) Whole(-1), n * (-1), d * 1)
      BY <3>1, ArithmeticIs
    <3>3. Is(Abs(x), Magnitude(n), d) /\ Magnitude(n) = -n
      BY <1>1, <2>1, <3>1, AbsIs DEF Magnitude
    <3>4. (n * (-1)) * d = (-n) * (d * 1)
      OBVIOUS
    <3>5. x (.) Whole(-1) = Abs(x)
      BY <3>2, <3>3, <3>4, IsOneNumber
    <3>6. QED
      BY <1>1, <2>1, <3>5, SignOf
  <2>2. CASE n = 0
    <3>1. x = Zero /\ XXSign(x) = Zero
      <4>1. x[1] = 0
        BY <1>1, <2>2
      <4>2. x = Zero
        BY <4>1, ZeroNumerator
      <4>3. XXSign(x) = Zero
        BY <4>1, SignOf
      <4>4. QED
        BY <4>2, <4>3
    <3>2. Abs(Zero) = Zero
      BY DEF Abs, Magnitude, Zero, Whole
    <3>3. QED
      BY <3>1, <3>2, TimesZero
  <2>3. CASE n > 0
    <3>1. XXSign(x) = One
      <4>1. ~(x[1] < 0) /\ x[1] # 0
        BY <1>1, <2>3
      <4>2. QED
        BY <4>1, SignOf
    <3>2. Abs(x) = x
      <4>1. x = <<x[1], x[2]>>
        BY NumbersOf
      <4>2. ~(x[1] < 0)
        BY <1>1, <2>3
      <4>3. QED
        BY <4>1, <4>2 DEF Abs, Magnitude
    <3>3. QED
      BY <3>1, <3>2, TimesOne
  <2>4. QED
    BY <2>1, <2>2, <2>3
<1>5. XXPow2(Abs(x)) = XXPow2(x)
  <2>1. Abs(x) = x \/ Abs(x) = Neg(x)
    BY <1>1, NumbersOf DEF Abs, Neg, Magnitude
  <2>2. Neg(x) (.) Neg(x) = x (.) x
    BY NegClosed, NegOfProduct, MinusProduct, ProductClosed, NegOfNeg
  <2>3. QED
    BY <2>1, <2>2 DEF XXPow2
<1>6. QED
  BY <1>2, <1>3, <1>4, <1>5 DEF RoundingLaw

-----------------------------------------------------------------------------
(***************************************************************************)
(* The functions on bits.                                                  *)
(***************************************************************************)

\* A shift to the right and back clears the low bits.
LEMMA ShiftsUndo ==
  ASSUME NEW a \in SUBSET Bits, NEW n \in 0 .. 31
  PROVE  /\ Left(Right(a, n), n) = a \ (0 .. n - 1)
         /\ Left(a, 0) = a /\ Right(a, 0) = a
<1>1. Left(a, 0) = a /\ Right(a, 0) = a
  <2>1. \A x \in Bits : x - 0 = x /\ (IF x + 0 < 31 THEN x + 0 ELSE 31) = x
    BY DEF Bits
  <2>2. QED
    BY <2>1 DEF Left, Right
<1>2. ASSUME NEW x PROVE x \in Left(Right(a, n), n) <=> x \in a \ (0 .. n - 1)
  <2>1. x \in Left(Right(a, n), n) <=>
          x \in Bits /\ x - n \in Bits /\ (IF (x - n) + n < 31 THEN (x - n) + n ELSE 31) \in a
    BY DEF Left, Right
  <2>2. CASE x \in Bits
    <3>1. (x - n) + n = x /\ (x < 31 \/ x = 31) /\ (x - n \in Bits <=> x \notin 0 .. n - 1)
      BY <2>2 DEF Bits
    <3>2. QED
      BY <2>1, <2>2, <3>1
  <2>3. CASE x \notin Bits
    BY <2>1, <2>3
  <2>4. QED
    BY <2>2, <2>3
<1>3. QED
  BY <1>1, <1>2

\* The complement of the low bits.
LEMMA ComplementTwice ==
  ASSUME NEW a \in SUBSET Bits, NEW n \in 0 .. 31
  PROVE  XXBitCmp(XXBitCmp(a, n), n) = XXBitAnd(a, 0 .. n - 1)
BY DEF XXBitCmp, XXBitAnd

\* The bytes of an integer whose bytes are swapped.
LEMMA BitsOfBytes ==
  ASSUME NEW a \in SUBSET Bits, NEW k \in 0 .. 3, NEW signed \in BOOLEAN,
         ~signed \/ a \cap {15, 23, 31} = {}
  PROVE  Byte(XXSwapBytes(a, signed), k) = Byte(a, 3 - k)
<1> DEFINE Part(j) == Left(Promoted(Byte(a, j), signed), 8 * (3 - j))
           Moved(j, x) == x \in 8 * (3 - j) .. (8 * (3 - j)) + 7 /\ (x - (8 * (3 - j))) + (8 * j) \in a
<1>1. \A x : x \in XXSwapBytes(a, signed) <=> \E j \in 0 .. 3 : x \in Part(j)
  BY DEF XXSwapBytes
<1>2. ASSUME NEW j \in 0 .. 3, NEW x PROVE x \in Part(j) <=> Moved(j, x)
  <2>1. x \in Part(j) <=> x \in Bits /\ x - (8 * (3 - j)) \in Promoted(Byte(a, j), signed)
    BY DEF Left
  <2>2. ASSUME NEW y \in Int
        PROVE  y \in Promoted(Byte(a, j), signed) <=>
                 \/ y \in 0 .. 7 /\ y + (8 * j) \in a
                 \/ signed /\ j = 0 /\ 7 \in a /\ y \in 8 .. 31
    <3>1. signed /\ 7 \in Byte(a, j) <=> signed /\ j = 0 /\ 7 \in a
      <4>1. 7 \in Byte(a, j) <=> 7 + (8 * j) \in a
        BY DEF Byte
      <4>2. signed => 15 \notin a /\ 23 \notin a /\ 31 \notin a
        OBVIOUS
      <4>3. j = 0 \/ j = 1 \/ j = 2 \/ j = 3
        OBVIOUS
      <4>4. QED
        BY <4>1, <4>2, <4>3
    <3>2. y \in Byte(a, j) <=> y \in 0 .. 7 /\ y + (8 * j) \in a
      BY DEF Byte
    <3>3. y \in Promoted(Byte(a, j), signed)
            <=> y \in Byte(a, j) \/ (signed /\ 7 \in Byte(a, j) /\ y \in 8 .. 31)
      BY DEF Promoted
    <3>4. QED
      BY <3>1, <3>2, <3>3
  <2>3. CASE x \in Bits
    <3>1. x \in Int /\ x - (8 * (3 - j)) \in Int /\ 0 <= x /\ x <= 31
      BY <2>3 DEF Bits
    <3>2. x - (8 * (3 - j)) \in 0 .. 7 <=> x \in 8 * (3 - j) .. (8 * (3 - j)) + 7
      BY <3>1
    <3>3. j = 0 => x - (8 * (3 - j)) \notin 8 .. 31
      BY <3>1
    <3>4. QED
      BY <2>1, <2>2, <2>3, <3>1, <3>2, <3>3
  <2>4. CASE x \notin Bits
    <3>1. x \notin 8 * (3 - j) .. (8 * (3 - j)) + 7
      BY <2>4 DEF Bits
    <3>2. QED
      BY <2>1, <2>4, <3>1
  <2>5. QED
    BY <2>3, <2>4
<1> HIDE DEF Part
<1>3. ASSUME NEW b \in 0 .. 7
      PROVE  b + (8 * k) \in XXSwapBytes(a, signed) <=> b + (8 * (3 - k)) \in a
  <2>1. ASSUME NEW j \in 0 .. 3
        PROVE  Moved(j, b + (8 * k)) <=> j = 3 - k /\ b + (8 * (3 - k)) \in a
    <3>1. b + (8 * k) \in 8 * (3 - j) .. (8 * (3 - j)) + 7 <=> j = 3 - k
      OBVIOUS
    <3>2. j = 3 - k => ((b + (8 * k)) - (8 * (3 - j))) + (8 * j) = b + (8 * (3 - k))
      OBVIOUS
    <3>3. QED
      BY <3>1, <3>2
  <2>2. 3 - k \in 0 .. 3
    OBVIOUS
  <2> HIDE DEF Moved
  <2>3. QED
    BY <1>1, <1>2, <2>1, <2>2
<1>4. QED
  BY <1>3 DEF Byte

\* Integers of 32 bits, and shifts by less than 32 places: the functions on bits
\* undo each other and XXSwapBytes reverses the bytes, where char is signed only if
\* no byte but the lowest has its high bit on (common/xxfuncs.cpp).
THEOREM BitsAreBits ==
  ASSUME NEW a \in SUBSET Bits, NEW b \in SUBSET Bits, NEW n \in 0 .. 31
  PROVE  BitsLaw(a, b, n)
<1>0. n <= 0 => -n = n
  OBVIOUS
<1>1. XXBitXor(XXBitXor(a, b), b) = a
  BY DEF XXBitXor
<1>2. XXBitInv(XXBitAnd(a, b)) = XXBitOr(XXBitInv(a), XXBitInv(b))
  BY DEF XXBitInv, XXBitAnd, XXBitOr
<1>3. ASSUME NEW pos \in 1 .. 32
      PROVE  /\ XXBitGet(XXBitSet(a, pos), pos) /\ ~XXBitGet(XXBitClear(a, pos), pos)
             /\ XXBitXor(a, {pos - 1}) = (IF XXBitGet(a, pos) THEN XXBitClear(a, pos) ELSE XXBitSet(a, pos))
  BY DEF XXBitGet, XXBitSet, XXBitClear, XXBitXor
<1>4. /\ XXBitShift(a, n) = IF n = 0 THEN a ELSE Left(a, n)
      /\ XXBitShift(a, -n) = Right(a, n)
      /\ XXBitShiftRight(a, n) = Right(a, n)
      /\ XXBitShiftRight(a, -n) = IF n = 0 THEN a ELSE Left(a, n)
  <2>1. n \in Int /\ -(-n) = n /\ (n > 0 <=> n # 0) /\ ~(-n > 0) /\ (n = 0 => -n = n)
    OBVIOUS
  <2>2. Left(a, 0) = a /\ Right(a, 0) = a
    BY ShiftsUndo
  <2>3. QED
    BY <2>1, <2>2 DEF XXBitShift, XXBitShiftRight
<1>5. XXBitShift(XXBitShift(a, -n), n) = a \ (0 .. n - 1)
  <2>1. Left(Right(a, n), n) = a \ (0 .. n - 1)
    BY ShiftsUndo
  <2>2. CASE n = 0
    <3>1. Right(a, 0) = a /\ Right(Right(a, 0), 0) = a
      BY ShiftsUndo
    <3>2. a \ (0 .. n - 1) = a
      BY <2>2
    <3>3. -n = n /\ ~(n > 0)
      BY <1>0, <2>2
    <3>4. QED
      BY <2>2, <3>1, <3>2, <3>3 DEF XXBitShift
  <2>3. CASE n # 0
    <3>1. n > 0
      BY <2>3
    <3>2. QED
      BY <1>4, <2>1, <3>1 DEF XXBitShift
  <2>4. QED
    BY <2>2, <2>3
<1>6. XXBitShiftRight(a, n) = XXBitShift(a, -n) /\ XXBitShiftRight(a, -n) = XXBitShift(a, n)
  BY <1>4
<1>7. XXBitCmp(XXBitCmp(a, n), n) = XXBitAnd(a, 0 .. n - 1)
  BY ComplementTwice
<1>8. \A signed \in BOOLEAN :
        (~signed \/ a \cap {15, 23, 31} = {}) =>
          \A k \in 0 .. 3 : Byte(XXSwapBytes(a, signed), k) = Byte(a, 3 - k)
  BY BitsOfBytes
<1>9. QED
  BY <1>1, <1>2, <1>3, <1>5, <1>6, <1>7, <1>8 DEF BitsLaw

-----------------------------------------------------------------------------
(***************************************************************************)
(* Vectors of three numbers.                                               *)
(***************************************************************************)

\* Three numbers, as a column or a row.
Three(x, y, z) == [i \in 0 .. 2 |-> IF i = 0 THEN x ELSE IF i = 1 THEN y ELSE z]
Upright(x, y, z) == [rows |-> 3, columns |-> 1, mat |-> Three(x, y, z)]
Flat(x, y, z) == [rows |-> 1, columns |-> 3, mat |-> Three(x, y, z)]
Nine(a, b, c, d, e, f, g, h, k) ==
  [i \in 0 .. 8 |-> IF i = 0 THEN a ELSE IF i = 1 THEN b ELSE IF i = 2 THEN c
                    ELSE IF i = 3 THEN d ELSE IF i = 4 THEN e ELSE IF i = 5 THEN f
                    ELSE IF i = 6 THEN g ELSE IF i = 7 THEN h ELSE k]
Cube(a, b, c, d, e, f, g, h, k) == [rows |-> 3, columns |-> 3, mat |-> Nine(a, b, c, d, e, f, g, h, k)]

\* The places in these matrices.
LEMMA RangesOfThree == 0 .. (3 * 1) - 1 = 0 .. 2 /\ 0 .. (1 * 3) - 1 = 0 .. 2 /\ 0 .. (3 * 3) - 1 = 0 .. 8
OBVIOUS

\* The parts of these matrices.
LEMMA PartsOfThree ==
  \A x, y, z :
    /\ Three(x, y, z)[0] = x /\ Three(x, y, z)[1] = y /\ Three(x, y, z)[2] = z
    /\ Upright(x, y, z).rows = 3 /\ Upright(x, y, z).columns = 1 /\ Upright(x, y, z).mat = Three(x, y, z)
    /\ Flat(x, y, z).rows = 1 /\ Flat(x, y, z).columns = 3 /\ Flat(x, y, z).mat = Three(x, y, z)
BY DEF Three, Upright, Flat

\* Vectors written down.
LEMMA WrittenUpright ==
  \A x, y, z : Rows(3, 1, <<x, y, z>>) = Upright(x, y, z) /\ Vector3(<<x, y, z>>) = Upright(x, y, z)
BY RangesOfThree DEF Vector3, Rows, Matrix, Upright, Three

\* A matrix of three rows written down.
LEMMA WrittenCube ==
  ASSUME NEW a, NEW b, NEW c, NEW d, NEW e, NEW f, NEW g, NEW h, NEW k
  PROVE  Rows(3, 3, <<a, b, c, d, e, f, g, h, k>>) = Cube(a, b, c, d, e, f, g, h, k)
BY RangesOfThree DEF Rows, Matrix, Cube, Nine

\* Three numbers added up from zero.
Sum3(x, y, z) == ((Zero (+) x) (+) y) (+) z

\* A sum of three products.
LEMMA DotOfThree ==
  ASSUME NEW s, NEW t
  PROVE  Total(3, LAMBDA k : s[k] (.) t[k]) = Sum3(s[0] (.) t[0], s[1] (.) t[1], s[2] (.) t[2])
<1> DEFINE Part(k) == s[k] (.) t[k]
           Solves(f) == f = [k \in 0 .. 3 |-> IF k = 0 THEN Zero ELSE f[k - 1] (+) Part(k - 1)]
           F == [k \in 0 .. 3 |-> IF k = 0 THEN Zero ELSE IF k = 1 THEN Zero (+) Part(0)
                                  ELSE IF k = 2 THEN (Zero (+) Part(0)) (+) Part(1)
                                  ELSE ((Zero (+) Part(0)) (+) Part(1)) (+) Part(2)]
           g == CHOOSE f : Solves(f)
<1>1. Total(3, LAMBDA k : s[k] (.) t[k]) = g[3]
  BY DEF Total, Loop
<1> HIDE DEF Part
<1>2. Solves(F)
  OBVIOUS
<1>3. Solves(g)
  <2> HIDE DEF F, Solves
  <2>1. QED
    BY <1>2
<1> HIDE DEF g
<1>4. g[0] = Zero /\ g[1] = g[0] (+) Part(0) /\ g[2] = g[1] (+) Part(1) /\ g[3] = g[2] (+) Part(2)
  BY <1>3
<1>5. QED
  BY <1>1, <1>4 DEF Part, Sum3

\* An element of a product of matrices with three rows on the right.
LEMMA ProductOfThree ==
  ASSUME NEW A, NEW B, B.rows = 3, NEW c, NEW i
  PROVE  ProductAt(A, B, c, i)
           = Sum3(Factors(A, B, c, i, 0), Factors(A, B, c, i, 1), Factors(A, B, c, i, 2))
<1> DEFINE Part(k) == Factors(A, B, c, i, k)
           Solves(f) == f = [k \in 0 .. 3 |-> IF k = 0 THEN Zero ELSE f[k - 1] (+) Part(k - 1)]
           F == [k \in 0 .. 3 |-> IF k = 0 THEN Zero ELSE IF k = 1 THEN Zero (+) Part(0)
                                  ELSE IF k = 2 THEN (Zero (+) Part(0)) (+) Part(1)
                                  ELSE ((Zero (+) Part(0)) (+) Part(1)) (+) Part(2)]
           g == CHOOSE f : Solves(f)
<1>1. ProductAt(A, B, c, i) = g[3]
  BY DEF ProductAt, Total, Loop
<1> HIDE DEF Part
<1>2. Solves(F)
  OBVIOUS
<1>3. Solves(g)
  <2> HIDE DEF F, Solves
  <2>1. QED
    BY <1>2
<1> HIDE DEF g
<1>4. g[0] = Zero /\ g[1] = g[0] (+) Part(0) /\ g[2] = g[1] (+) Part(1) /\ g[3] = g[2] (+) Part(2)
  BY <1>3
<1>5. QED
  BY <1>1, <1>4 DEF Part, Sum3

\* The larger and the smaller of two numbers.
Larger(d, x) == IF Less(d, x) THEN x ELSE d
Smaller(d, x) == IF Less(x, d) THEN x ELSE d

\* The largest of three numbers.
LEMMA MaximumOfThree ==
  ASSUME NEW x, NEW y, NEW z
  PROVE  XXMatrixMaximum(Upright(x, y, z)) = Larger(Larger(Larger(x, x), y), z)
<1> DEFINE m == Three(x, y, z)
           Solves(f) == f = [k \in 0 .. 3 |-> IF k = 0 THEN m[0] ELSE Larger(f[k - 1], m[k - 1])]
           F == [k \in 0 .. 3 |-> IF k = 0 THEN m[0] ELSE IF k = 1 THEN Larger(m[0], m[0])
                                  ELSE IF k = 2 THEN Larger(Larger(m[0], m[0]), m[1])
                                  ELSE Larger(Larger(Larger(m[0], m[0]), m[1]), m[2])]
           g == CHOOSE f : Solves(f)
<1>1. m[0] = x /\ m[1] = y /\ m[2] = z /\ 3 * 1 = 3
  BY PartsOfThree
<1>2. XXMatrixMaximum(Upright(x, y, z)) = g[3]
  <2> HIDE DEF m
  <2>1. /\ Upright(x, y, z).rows * Upright(x, y, z).columns = 3
        /\ Upright(x, y, z).mat = m
    BY PartsOfThree DEF m
  <2>2. QED
    BY <2>1 DEF XXMatrixMaximum, Loop, Larger
<1> HIDE DEF m
<1>3. Solves(F)
  OBVIOUS
<1>4. Solves(g)
  <2> HIDE DEF F, Solves
  <2>1. QED
    BY <1>3
<1> HIDE DEF g
<1>5. g[0] = m[0] /\ g[1] = Larger(g[0], m[0]) /\ g[2] = Larger(g[1], m[1]) /\ g[3] = Larger(g[2], m[2])
  BY <1>4
<1>6. QED
  BY <1>1, <1>2, <1>5

\* The smallest of three numbers.
LEMMA MinimumOfThree ==
  ASSUME NEW x, NEW y, NEW z
  PROVE  XXMatrixMinimum(Upright(x, y, z)) = Smaller(Smaller(Smaller(x, x), y), z)
<1> DEFINE m == Three(x, y, z)
           Solves(f) == f = [k \in 0 .. 3 |-> IF k = 0 THEN m[0] ELSE Smaller(f[k - 1], m[k - 1])]
           F == [k \in 0 .. 3 |-> IF k = 0 THEN m[0] ELSE IF k = 1 THEN Smaller(m[0], m[0])
                                  ELSE IF k = 2 THEN Smaller(Smaller(m[0], m[0]), m[1])
                                  ELSE Smaller(Smaller(Smaller(m[0], m[0]), m[1]), m[2])]
           g == CHOOSE f : Solves(f)
<1>1. m[0] = x /\ m[1] = y /\ m[2] = z /\ 3 * 1 = 3
  BY PartsOfThree
<1>2. XXMatrixMinimum(Upright(x, y, z)) = g[3]
  <2> HIDE DEF m
  <2>1. /\ Upright(x, y, z).rows * Upright(x, y, z).columns = 3
        /\ Upright(x, y, z).mat = m
    BY PartsOfThree DEF m
  <2>2. QED
    BY <2>1 DEF XXMatrixMinimum, Loop, Smaller
<1> HIDE DEF m
<1>3. Solves(F)
  OBVIOUS
<1>4. Solves(g)
  <2> HIDE DEF F, Solves
  <2>1. QED
    BY <1>3
<1> HIDE DEF g
<1>5. g[0] = m[0] /\ g[1] = Smaller(g[0], m[0]) /\ g[2] = Smaller(g[1], m[1]) /\ g[3] = Smaller(g[2], m[2])
  BY <1>4
<1>6. QED
  BY <1>1, <1>2, <1>5

\* The sum of the elements.
LEMMA SumOfThree ==
  ASSUME NEW x, NEW y, NEW z
  PROVE  XXMatrixSum(Upright(x, y, z)) = Sum3(x, y, z)
<1> DEFINE m == Three(x, y, z)
           Solves(f) == f = [k \in 0 .. 3 |-> IF k = 0 THEN Zero ELSE f[k - 1] (+) m[k - 1]]
           F == [k \in 0 .. 3 |-> IF k = 0 THEN Zero ELSE IF k = 1 THEN Zero (+) m[0]
                                  ELSE IF k = 2 THEN (Zero (+) m[0]) (+) m[1]
                                  ELSE ((Zero (+) m[0]) (+) m[1]) (+) m[2]]
           g == CHOOSE f : Solves(f)
<1>1. m[0] = x /\ m[1] = y /\ m[2] = z
  BY PartsOfThree
<1>2. XXMatrixSum(Upright(x, y, z)) = g[3]
  <2> HIDE DEF m
  <2>1. Upright(x, y, z).rows * Upright(x, y, z).columns = 3 /\ Upright(x, y, z).mat = m
    BY PartsOfThree DEF m
  <2>2. QED
    BY <2>1 DEF XXMatrixSum, Total, Loop
<1> HIDE DEF m
<1>3. Solves(F)
  OBVIOUS
<1>4. Solves(g)
  <2> HIDE DEF F, Solves
  <2>1. QED
    BY <1>3
<1> HIDE DEF g
<1>5. g[0] = Zero /\ g[1] = g[0] (+) m[0] /\ g[2] = g[1] (+) m[1] /\ g[3] = g[2] (+) m[2]
  BY <1>4
<1>6. QED
  BY <1>1, <1>2, <1>5 DEF Sum3

\* The sum of the magnitudes of a row.
LEMMA NormOfThree ==
  ASSUME NEW x, NEW y, NEW z
  PROVE  XXMatrixNormInf(Flat(x, y, z)) = Larger(Zero, Sum3(Abs(x), Abs(y), Abs(z)))
<1> DEFINE m == Three(x, y, z)
           Part(j) == Abs(m[(0 * 3) + j])
           Inner == Total(3, LAMBDA j : Abs(m[(0 * 3) + j]))
           Solves(f) == f = [k \in 0 .. 3 |-> IF k = 0 THEN Zero ELSE f[k - 1] (+) Part(k - 1)]
           F == [k \in 0 .. 3 |-> IF k = 0 THEN Zero ELSE IF k = 1 THEN Zero (+) Part(0)
                                  ELSE IF k = 2 THEN (Zero (+) Part(0)) (+) Part(1)
                                  ELSE ((Zero (+) Part(0)) (+) Part(1)) (+) Part(2)]
           g == CHOOSE f : Solves(f)
           Across(i) == Total(3, LAMBDA j : Abs(m[(i * 3) + j]))
           Outer(f) == f = [k \in 0 .. 1 |-> IF k = 0 THEN Zero ELSE Larger(f[k - 1], Across(k - 1))]
           G == [k \in 0 .. 1 |-> IF k = 0 THEN Zero ELSE Larger(Zero, Across(0))]
           h == CHOOSE f : Outer(f)
<1>1. m[0] = x /\ m[1] = y /\ m[2] = z
  BY PartsOfThree
<1>2. Part(0) = Abs(x) /\ Part(1) = Abs(y) /\ Part(2) = Abs(z)
  <2>1. (0 * 3) + 0 = 0 /\ (0 * 3) + 1 = 1 /\ (0 * 3) + 2 = 2
    OBVIOUS
  <2>2. QED
    BY <1>1, <2>1
<1>3. XXMatrixNormInf(Flat(x, y, z)) = h[1]
  <2> HIDE DEF m
  <2>1. Flat(x, y, z).rows = 1 /\ Flat(x, y, z).columns = 3 /\ Flat(x, y, z).mat = m
    BY PartsOfThree DEF m
  <2>2. QED
    BY <2>1 DEF XXMatrixNormInf, Loop, Larger
<1>4. h[1] = Larger(Zero, Across(0))
  <2> HIDE DEF Across
  <2>1. Outer(G)
    OBVIOUS
  <2>2. Outer(h)
    <3> HIDE DEF G, Outer
    <3>1. QED
      BY <2>1
  <2> HIDE DEF h
  <2>3. h[0] = Zero /\ h[1] = Larger(h[0], Across(0))
    BY <2>2
  <2>4. QED
    BY <2>3
<1>5. Across(0) = g[3]
  <2> HIDE DEF m
  <2>1. QED
    BY DEF Total, Loop
<1> HIDE DEF Part
<1>6. Solves(F)
  OBVIOUS
<1>7. Solves(g)
  <2> HIDE DEF F, Solves
  <2>1. QED
    BY <1>6
<1> HIDE DEF g, h, Across
<1>8. g[0] = Zero /\ g[1] = g[0] (+) Part(0) /\ g[2] = g[1] (+) Part(1) /\ g[3] = g[2] (+) Part(2)
  BY <1>7
<1>9. QED
  BY <1>2, <1>3, <1>4, <1>5, <1>8 DEF Sum3

\* The sum of three numbers.
LEMMA Sum3Is == \A x, y, z \in Rationals : Sum3(x, y, z) = (x (+) y) (+) z /\ Sum3(x, y, z) \in Rationals
BY Neutral, SumClosed DEF Sum3

\* The inner product, with the first vector upright or flat.
LEMMA InnerOfThree ==
  ASSUME NEW A, NEW B
  PROVE  /\ A.rows = 3 =>
              XXMatrixInnerProduct(A, B)
                = Sum3(A.mat[0] (.) B.mat[0], A.mat[1] (.) B.mat[1], A.mat[2] (.) B.mat[2])
         /\ A.columns = 3 =>
              XXScalarMatrixMatrixMul(A, B)
                = Sum3(A.mat[0] (.) B.mat[0], A.mat[1] (.) B.mat[1], A.mat[2] (.) B.mat[2])
<1> DEFINE s == A.mat
           t == B.mat
           S == Total(3, LAMBDA k : s[k] (.) t[k])
<1>1. /\ A.rows = 3 => XXMatrixInnerProduct(A, B) = S
      /\ A.columns = 3 => XXScalarMatrixMatrixMul(A, B) = S
  BY DEF XXMatrixInnerProduct, XXScalarMatrixMatrixMul
<1>2. S = Sum3(s[0] (.) t[0], s[1] (.) t[1], s[2] (.) t[2])
  <2> HIDE DEF s, t
  <2>1. QED
    BY DotOfThree
<1> HIDE DEF S
<1>3. QED
  BY <1>1, <1>2

\* A cross product as it is written down.
LEMMA CrossIs ==
  ASSUME NEW x, NEW y, NEW z, NEW p, NEW q, NEW r
  PROVE  XXMatrixCrossProduct(Upright(x, y, z), Upright(p, q, r))
           = Upright((y (.) r) (-) (z (.) q), (z (.) p) (-) (x (.) r), (x (.) q) (-) (y (.) p))
BY PartsOfThree, WrittenUpright DEF XXMatrixCrossProduct

\* A matrix of three rows times a column.
LEMMA CubeTimesColumn ==
  ASSUME NEW a, NEW b, NEW c, NEW d, NEW e, NEW f, NEW g, NEW h, NEW k, NEW x, NEW y, NEW z
  PROVE  Product(Cube(a, b, c, d, e, f, g, h, k), Upright(x, y, z))
           = Upright(Sum3(a (.) x, b (.) y, c (.) z), Sum3(d (.) x, e (.) y, f (.) z),
                     Sum3(g (.) x, h (.) y, k (.) z))
<1> DEFINE A == Cube(a, b, c, d, e, f, g, h, k)
           B == Upright(x, y, z)
           At(i) == ProductAt(A, B, 1, i)
<1>1. XXMatrixMul(3, 1, A, B) = [rows |-> 3, columns |-> 1, mat |-> [i \in 0 .. 3 * 1 - 1 |-> At(i)]]
  <2> HIDE DEF A, B
  <2>1. QED
    BY DEF XXMatrixMul, Matrix, ProductAt, Factors
<1>2. /\ A.rows = 3 /\ A.columns = 3 /\ A.mat[0] = a /\ A.mat[1] = b /\ A.mat[2] = c
      /\ A.mat[3] = d /\ A.mat[4] = e /\ A.mat[5] = f /\ A.mat[6] = g /\ A.mat[7] = h /\ A.mat[8] = k
  BY DEF Cube, Nine
<1>3. B.rows = 3 /\ B.columns = 1 /\ B.mat[0] = x /\ B.mat[1] = y /\ B.mat[2] = z
  BY PartsOfThree
<1> HIDE DEF A, B
<1>4. /\ Factors(A, B, 1, 0, 0) = a (.) x /\ Factors(A, B, 1, 0, 1) = b (.) y /\ Factors(A, B, 1, 0, 2) = c (.) z
      /\ Factors(A, B, 1, 1, 0) = d (.) x /\ Factors(A, B, 1, 1, 1) = e (.) y /\ Factors(A, B, 1, 1, 2) = f (.) z
      /\ Factors(A, B, 1, 2, 0) = g (.) x /\ Factors(A, B, 1, 2, 1) = h (.) y /\ Factors(A, B, 1, 2, 2) = k (.) z
  <2>1. 0 \div 1 = 0 /\ 1 \div 1 = 1 /\ 2 \div 1 = 2 /\ 0 % 1 = 0 /\ 1 % 1 = 0 /\ 2 % 1 = 0
    OBVIOUS
  <2>2. QED
    BY <1>2, <1>3, <2>1 DEF Factors
<1>5. /\ At(0) = Sum3(a (.) x, b (.) y, c (.) z) /\ At(1) = Sum3(d (.) x, e (.) y, f (.) z)
      /\ At(2) = Sum3(g (.) x, h (.) y, k (.) z)
  BY <1>3, <1>4, ProductOfThree
<1> HIDE DEF At
<1>6. [i \in 0 .. 3 * 1 - 1 |-> At(i)] = Three(At(0), At(1), At(2))
  BY RangesOfThree DEF Three
<1>7. QED
  BY <1>1, <1>2, <1>3, <1>5, <1>6 DEF A, B, Product, Upright

\* The skew matrix of a vector.
LEMMA SkewIs ==
  ASSUME NEW x, NEW y, NEW z
  PROVE  XXMatrixSkew(Upright(x, y, z)) = Cube(Zero, Neg(z), y, z, Zero, Neg(x), Neg(y), x, Zero)
BY PartsOfThree, WrittenCube DEF XXMatrixSkew

\* The diagonal matrix of a vector.
LEMMA DiagonalIs ==
  ASSUME NEW x, NEW y, NEW z
  PROVE  XXMatrixDiag(3, Upright(x, y, z)) = Cube(x, Zero, Zero, Zero, y, Zero, Zero, Zero, z)
<1> DEFINE m == Three(x, y, z)
           At(i) == IF i % (3 + 1) = 0 THEN m[i \div (3 + 1)] ELSE Zero
<1>1. XXMatrixDiag(3, Upright(x, y, z)) = [rows |-> 3, columns |-> 3, mat |-> [i \in 0 .. 3 * 3 - 1 |-> At(i)]]
  BY DEF XXMatrixDiag, Matrix, Upright
<1>2. /\ At(0) = x /\ At(1) = Zero /\ At(2) = Zero /\ At(3) = Zero /\ At(4) = y
      /\ At(5) = Zero /\ At(6) = Zero /\ At(7) = Zero /\ At(8) = z
  <2>1. /\ 3 + 1 = 4 /\ 0 % 4 = 0 /\ 1 % 4 # 0 /\ 2 % 4 # 0 /\ 3 % 4 # 0 /\ 4 % 4 = 0
        /\ 5 % 4 # 0 /\ 6 % 4 # 0 /\ 7 % 4 # 0 /\ 8 % 4 = 0
        /\ 0 \div 4 = 0 /\ 4 \div 4 = 1 /\ 8 \div 4 = 2
    OBVIOUS
  <2>2. QED
    BY <2>1, PartsOfThree
<1> HIDE DEF At
<1>3. [i \in 0 .. 3 * 3 - 1 |-> At(i)]
        = Nine(At(0), At(1), At(2), At(3), At(4), At(5), At(6), At(7), At(8))
  BY RangesOfThree DEF Nine
<1>4. QED
  BY <1>1, <1>2, <1>3 DEF Cube

\* The skew matrix is the cross product, which turns with the order.
LEMMA SkewCrosses ==
  ASSUME NEW x \in Rationals, NEW y \in Rationals, NEW z \in Rationals,
         NEW p \in Rationals, NEW q \in Rationals, NEW r \in Rationals
  PROVE  LET a == Upright(x, y, z)  b == Upright(p, q, r)
         IN  /\ Product(XXMatrixSkew(a), b) = XXMatrixCrossProduct(a, b)
             /\ XXMatrixInv(XXMatrixCrossProduct(b, a)) = XXMatrixCrossProduct(a, b)
<1>1. \A u, v \in Rationals :
        /\ u (.) v \in Rationals /\ u (.) v = v (.) u /\ Neg(u) (.) v = Neg(u (.) v)
        /\ Neg(u) \in Rationals /\ Zero (.) u = Zero
  BY ProductClosed, ProductCommutes, MinusProduct, NegClosed, Neutral
<1>2. \A u, v \in Rationals :
        /\ Sum3(Zero, Neg(u), v) = v (-) u /\ Sum3(v, Zero, Neg(u)) = v (-) u
        /\ Sum3(Neg(u), v, Zero) = v (-) u /\ Neg(u (-) v) = v (-) u
  <2>1. ASSUME NEW u \in Rationals, NEW v \in Rationals
        PROVE  /\ Sum3(Zero, Neg(u), v) = v (-) u /\ Sum3(v, Zero, Neg(u)) = v (-) u
               /\ Sum3(Neg(u), v, Zero) = v (-) u /\ Neg(u (-) v) = v (-) u
    <3>1. Neg(u) \in Rationals /\ v (-) u = v (+) Neg(u) /\ Neg(u) (+) v = v (+) Neg(u)
      BY NegClosed, MinusIs, SumCommutes
    <3>2. v (+) Neg(u) \in Rationals /\ Zero (+) Neg(u) = Neg(u) /\ Zero (+) v = v /\ Zero (+) Zero = Zero
      BY <3>1, SumClosed, Neutral, PlusZero
    <3>3. v (+) Zero = v /\ (v (+) Neg(u)) (+) Zero = v (+) Neg(u)
      BY <3>1, <3>2, PlusZero
    <3>4. QED
      BY <3>1, <3>2, <3>3, MinusTurned DEF Sum3
  <2>2. QED
    BY <2>1
<1>3. Product(XXMatrixSkew(Upright(x, y, z)), Upright(p, q, r))
        = Upright((y (.) r) (-) (z (.) q), (z (.) p) (-) (x (.) r), (x (.) q) (-) (y (.) p))
  <2>1. Product(XXMatrixSkew(Upright(x, y, z)), Upright(p, q, r))
          = Upright(Sum3(Zero (.) p, Neg(z) (.) q, y (.) r), Sum3(z (.) p, Zero (.) q, Neg(x) (.) r),
                    Sum3(Neg(y) (.) p, x (.) q, Zero (.) r))
    BY SkewIs, CubeTimesColumn
  <2>2. QED
    BY <1>1, <1>2, <2>1
<1>4. XXMatrixInv(XXMatrixCrossProduct(Upright(p, q, r), Upright(x, y, z)))
        = Upright((y (.) r) (-) (z (.) q), (z (.) p) (-) (x (.) r), (x (.) q) (-) (y (.) p))
  <2>1. \A u, v, w : XXMatrixInv(Upright(u, v, w)) = Upright(Neg(u), Neg(v), Neg(w))
    BY RangesOfThree DEF XXMatrixInv, Matrix, Upright, Three
  <2>2. XXMatrixCrossProduct(Upright(p, q, r), Upright(x, y, z))
          = Upright((q (.) z) (-) (r (.) y), (r (.) x) (-) (p (.) z), (p (.) y) (-) (q (.) x))
    BY CrossIs
  <2>3. /\ Neg((q (.) z) (-) (r (.) y)) = (y (.) r) (-) (z (.) q)
        /\ Neg((r (.) x) (-) (p (.) z)) = (z (.) p) (-) (x (.) r)
        /\ Neg((p (.) y) (-) (q (.) x)) = (x (.) q) (-) (y (.) p)
    BY <1>1, <1>2
  <2>4. QED
    BY <2>1, <2>2, <2>3
<1>5. QED
  BY <1>3, <1>4, CrossIs

\* The cross product is at right angles to its first operand.
LEMMA CrossIsNormal ==
  ASSUME NEW x \in Rationals, NEW y \in Rationals, NEW z \in Rationals,
         NEW p \in Rationals, NEW q \in Rationals, NEW r \in Rationals
  PROVE  XXMatrixInnerProduct(Upright(x, y, z), XXMatrixCrossProduct(Upright(x, y, z), Upright(p, q, r))) = Zero
<1> DEFINE c == XXMatrixCrossProduct(Upright(x, y, z), Upright(p, q, r))
           s == Upright(x, y, z)
<1>1. /\ s.rows = 3 /\ s.mat[0] = x /\ s.mat[1] = y /\ s.mat[2] = z /\ c.mat[0] = (y (.) r) (-) (z (.) q)
      /\ c.mat[1] = (z (.) p) (-) (x (.) r) /\ c.mat[2] = (x (.) q) (-) (y (.) p)
  <2>1. s.rows = 3 /\ s.mat[0] = x /\ s.mat[1] = y /\ s.mat[2] = z
    BY PartsOfThree
  <2>2. PICK u, v, w : /\ u = (y (.) r) (-) (z (.) q) /\ v = (z (.) p) (-) (x (.) r)
                       /\ w = (x (.) q) (-) (y (.) p)
    OBVIOUS
  <2>3. c = Upright(u, v, w)
    BY <2>2, CrossIs
  <2> HIDE DEF c, s
  <2>4. c.mat[0] = u /\ c.mat[1] = v /\ c.mat[2] = w
    BY <2>3, PartsOfThree
  <2>5. QED
    BY <2>1, <2>2, <2>4
<1> HIDE DEF s, c
<1>2. XXMatrixInnerProduct(s, c) = Sum3(s.mat[0] (.) c.mat[0], s.mat[1] (.) c.mat[1], s.mat[2] (.) c.mat[2])
  BY <1>1, InnerOfThree
<1>4. PICK k \in Rationals, l \in Rationals, m \in Rationals :
        k = x (.) (y (.) r) /\ l = x (.) (z (.) q) /\ m = y (.) (z (.) p)
  BY ProductClosed
<1>5. \A u, v, w \in Rationals : u (.) (v (.) w) = v (.) (u (.) w) /\ u (.) v \in Rationals
  BY ProductClosed, ProductAssociates, ProductCommutes
<1>6. /\ x (.) ((y (.) r) (-) (z (.) q)) = k (-) l
      /\ y (.) ((z (.) p) (-) (x (.) r)) = m (-) k
      /\ z (.) ((x (.) q) (-) (y (.) p)) = l (-) m
  <2>1. /\ x (.) ((y (.) r) (-) (z (.) q)) = (x (.) (y (.) r)) (-) (x (.) (z (.) q))
        /\ y (.) ((z (.) p) (-) (x (.) r)) = (y (.) (z (.) p)) (-) (y (.) (x (.) r))
        /\ z (.) ((x (.) q) (-) (y (.) p)) = (z (.) (x (.) q)) (-) (z (.) (y (.) p))
    BY <1>5, MinusTimes
  <2>2. y (.) (x (.) r) = k /\ z (.) (x (.) q) = l /\ z (.) (y (.) p) = m
    BY <1>4, <1>5
  <2>3. QED
    BY <1>4, <2>1, <2>2
<1>7. Sum3(k (-) l, m (-) k, l (-) m) = Zero
  <2>1. k (-) l \in Rationals /\ m (-) k \in Rationals /\ l (-) m \in Rationals
    BY MinusClosed
  <2>2. (k (-) l) (+) (m (-) k) = m (-) l
    <3>1. (m (-) k) (+) k = m
      BY MinusPlus
    <3>2. k (-) l = k (+) Neg(l) /\ m (-) l = m (+) Neg(l) /\ Neg(l) \in Rationals
      BY MinusIs, NegClosed
    <3>3. ((m (-) k) (+) k) (+) Neg(l) = (m (-) k) (+) (k (+) Neg(l))
      BY <2>1, <3>2, SumAssociates
    <3>4. QED
      BY <2>1, <3>1, <3>2, <3>3, SumCommutes
  <2>3. (m (-) l) (+) (l (-) m) = Zero
    <3>1. m (-) l \in Rationals /\ l (-) m = Neg(m (-) l)
      BY MinusClosed, MinusTurned
    <3>2. QED
      BY <3>1, Opposite
  <2>4. QED
    BY <2>1, <2>2, <2>3, Sum3Is
<1>8. QED
  BY <1>1, <1>2, <1>6, <1>7 DEF s, c

\* A vector turned to a row, and operations on its elements.
LEMMA ElementsOfThree ==
  \A x, y, z, p, q, r, s :
    /\ XXMatrixTranspose(1, 3, Upright(x, y, z)) = Flat(x, y, z)
    /\ XXMatrixMulElement(Upright(x, y, z), Upright(p, q, r)) = Upright(x (.) p, y (.) q, z (.) r)
    /\ XXMatrixDivElement(Upright(x, y, z), Upright(p, q, r)) = Upright(x (/) p, y (/) q, z (/) r)
    /\ XXMatrixScalarMul(Upright(x, y, z), s) = Upright(x (.) s, y (.) s, z (.) s)
    /\ XXMatrixScalarDiv(Upright(x, y, z), s) = Upright(x (/) s, y (/) s, z (/) s)
<1>1. ASSUME NEW x, NEW y, NEW z, NEW p, NEW q, NEW r, NEW s
      PROVE  /\ XXMatrixMulElement(Upright(x, y, z), Upright(p, q, r)) = Upright(x (.) p, y (.) q, z (.) r)
             /\ XXMatrixDivElement(Upright(x, y, z), Upright(p, q, r)) = Upright(x (/) p, y (/) q, z (/) r)
             /\ XXMatrixScalarMul(Upright(x, y, z), s) = Upright(x (.) s, y (.) s, z (.) s)
             /\ XXMatrixScalarDiv(Upright(x, y, z), s) = Upright(x (/) s, y (/) s, z (/) s)
  BY RangesOfThree DEF XXMatrixMulElement, XXMatrixDivElement, XXMatrixScalarMul, XXMatrixScalarDiv,
     Matrix, Upright, Three
<1>2. ASSUME NEW x, NEW y, NEW z PROVE XXMatrixTranspose(1, 3, Upright(x, y, z)) = Flat(x, y, z)
  <2> DEFINE m == Three(x, y, z)
             At(i) == m[((i % 3) * 1) + (i \div 3)]
  <2>1. XXMatrixTranspose(1, 3, Upright(x, y, z)) = [rows |-> 1, columns |-> 3, mat |-> [i \in 0 .. 1 * 3 - 1 |-> At(i)]]
    BY DEF XXMatrixTranspose, Matrix, Upright
  <2>2. At(0) = x /\ At(1) = y /\ At(2) = z
    <3>1. /\ ((0 % 3) * 1) + (0 \div 3) = 0 /\ ((1 % 3) * 1) + (1 \div 3) = 1
          /\ ((2 % 3) * 1) + (2 \div 3) = 2
      OBVIOUS
    <3>2. QED
      BY <3>1, PartsOfThree
  <2> HIDE DEF At
  <2>3. [i \in 0 .. 1 * 3 - 1 |-> At(i)] = Three(At(0), At(1), At(2))
    BY RangesOfThree DEF Three
  <2>4. QED
    BY <2>1, <2>2, <2>3 DEF Flat
<1>3. QED
  BY <1>1, <1>2

\* The diagonal matrix multiplies element by element.
LEMMA DiagonalMultiplies ==
  ASSUME NEW x \in Rationals, NEW y \in Rationals, NEW z \in Rationals,
         NEW p \in Rationals, NEW q \in Rationals, NEW r \in Rationals
  PROVE  Product(XXMatrixDiag(3, Upright(x, y, z)), Upright(p, q, r))
           = XXMatrixMulElement(Upright(x, y, z), Upright(p, q, r))
<1>1. Product(XXMatrixDiag(3, Upright(x, y, z)), Upright(p, q, r))
        = Upright(Sum3(x (.) p, Zero (.) q, Zero (.) r), Sum3(Zero (.) p, y (.) q, Zero (.) r),
                  Sum3(Zero (.) p, Zero (.) q, z (.) r))
  BY DiagonalIs, CubeTimesColumn
<1>2. Zero (.) p = Zero /\ Zero (.) q = Zero /\ Zero (.) r = Zero
  BY Neutral
<1>3. \A u \in Rationals : Sum3(u, Zero, Zero) = u /\ Sum3(Zero, u, Zero) = u /\ Sum3(Zero, Zero, u) = u
  BY Neutral, PlusZero DEF Sum3
<1>4. x (.) p \in Rationals /\ y (.) q \in Rationals /\ z (.) r \in Rationals
  BY ProductClosed
<1>5. QED
  BY <1>1, <1>2, <1>3, <1>4, ElementsOfThree

\* A column put into a matrix is found in its rows.
LEMMA ColumnFound ==
  ASSUME NEW x, NEW y, NEW z, NEW i \in 0 .. 2
  PROVE  XXMatrixGetRow(XXMatrixSetColumn(Identity(3), Upright(x, y, z), 1), i).mat[1] = Upright(x, y, z).mat[i]
<1>1. PICK I : I = Identity(3) /\ I.rows = 3 /\ I.columns = 3
  <2> DEFINE At(j) == IF j \div 3 = j % 3 THEN One ELSE Zero
  <2>1. Identity(3) = [rows |-> 3, columns |-> 3, mat |-> [j \in 0 .. 3 * 3 - 1 |-> At(j)]]
    BY DEF Identity, Matrix
  <2> HIDE DEF At
  <2>2. Identity(3).rows = 3 /\ Identity(3).columns = 3
    BY <2>1
  <2>3. QED
    BY <2>2
<1>2. PICK S : S = XXMatrixSetColumn(I, Upright(x, y, z), 1)
  OBVIOUS
<1>3. S.columns = 3
  BY <1>1, <1>2 DEF XXMatrixSetColumn, Matrix
<1>4. (3 * i) + 1 \in 0 .. 8 /\ ((3 * i) + 1) % 3 = 1 /\ ((3 * i) + 1) \div 3 = i
  <2>1. i = 0 \/ i = 1 \/ i = 2
    OBVIOUS
  <2>2. QED
    BY <2>1
<1>5. S.mat[(3 * i) + 1] = Three(x, y, z)[i]
  <2>1. S.mat = [e \in 0 .. 8 |-> IF e % 3 = 1 THEN Three(x, y, z)[e \div 3] ELSE I.mat[e]]
    BY <1>1, <1>2, RangesOfThree DEF XXMatrixSetColumn, Matrix, Upright
  <2>2. QED
    BY <1>4, <2>1
<1>6. XXMatrixGetRow(S, i).mat[1] = S.mat[(3 * i) + 1]
  <2>1. 1 \in 0 .. (1 * 3) - 1
    OBVIOUS
  <2>2. XXMatrixGetRow(S, i).mat = [e \in 0 .. (1 * 3) - 1 |-> S.mat[(3 * i) + e]]
    BY <1>3 DEF XXMatrixGetRow, Matrix
  <2>3. QED
    BY <2>1, <2>2
<1>7. QED
  BY <1>1, <1>2, <1>5, <1>6, PartsOfThree

\* How numbers compare: the order is total.
LEMMA OrderIs ==
  \A x, y, z \in Rationals :
    /\ ~Less(x, x) /\ ~(Less(x, y) /\ Less(y, x))
    /\ ~Less(y, x) /\ ~Less(z, y) => ~Less(z, x)
<1>1. ASSUME NEW x \in Rationals, NEW y \in Rationals, NEW z \in Rationals
      PROVE  /\ ~Less(x, x) /\ ~(Less(x, y) /\ Less(y, x))
             /\ ~Less(y, x) /\ ~Less(z, y) => ~Less(z, x)
  <2>1. PICK a \in Int, b \in Int, c \in Int, d \in Int, e \in Int, f \in Int :
          /\ a = x[1] /\ b = x[2] /\ c = y[1] /\ d = y[2] /\ e = z[1] /\ f = z[2]
          /\ b > 0 /\ d > 0 /\ f > 0
    BY NumbersOf
  <2>2. /\ (Less(x, y) <=> a * d < c * b) /\ (Less(y, x) <=> c * b < a * d)
        /\ (Less(z, y) <=> e * d < c * f) /\ (Less(z, x) <=> e * b < a * f)
        /\ (Less(x, x) <=> a * b < a * b)
    BY <2>1 DEF Less
  <2>3. ASSUME a * d <= c * b, c * f <= e * d PROVE a * f <= e * b
    <3>1. PICK ad \in Int, cb \in Int, cf \in Int, ed \in Int, af \in Int, eb \in Int :
            /\ ad = a * d /\ cb = c * b /\ cf = c * f /\ ed = e * d /\ af = a * f /\ eb = e * b
      OBVIOUS
    <3>2. ~(cb < ad) /\ ~(ed < cf)
      BY <2>3, <3>1
    <3>3. ~(f * cb < f * ad) /\ ~(b * ed < b * cf)
      BY <2>1, <3>2, PositiveFactor
    <3>4. f * ad = d * af /\ b * ed = d * eb /\ f * cb = b * cf
      BY <3>1
    <3>5. ~(d * eb < d * af)
      BY <2>1, <3>3, <3>4
    <3>6. ~(eb < af)
      BY <2>1, <3>5, PositiveFactor
    <3>7. QED
      BY <3>1, <3>6
  <2>4. QED
    BY <2>1, <2>2, <2>3
<1>2. QED
  BY <1>1

\* The largest and the smallest of three numbers are among them.
LEMMA Extremes ==
  ASSUME NEW x \in Rationals, NEW y \in Rationals, NEW z \in Rationals
  PROVE  LET g == Larger(Larger(Larger(x, x), y), z)
             l == Smaller(Smaller(Smaller(x, x), y), z)
         IN  /\ g \in {x, y, z} /\ \A v \in {x, y, z} : ~Less(g, v)
             /\ l \in {x, y, z} /\ \A v \in {x, y, z} : ~Less(v, l)
<1>1. Larger(x, x) = x /\ Smaller(x, x) = x
  BY DEF Larger, Smaller
<1>2. \A u, v \in Rationals :
        /\ Larger(u, v) \in {u, v} /\ ~Less(Larger(u, v), u) /\ ~Less(Larger(u, v), v)
        /\ Smaller(u, v) \in {u, v} /\ ~Less(u, Smaller(u, v)) /\ ~Less(v, Smaller(u, v))
  BY OrderIs DEF Larger, Smaller
<1>3. PICK g1 \in Rationals, l1 \in Rationals : g1 = Larger(x, y) /\ l1 = Smaller(x, y)
  BY DEF Larger, Smaller
<1>4. PICK g \in Rationals, l \in Rationals : g = Larger(g1, z) /\ l = Smaller(l1, z)
  BY DEF Larger, Smaller
<1>5. g \in {x, y, z} /\ ~Less(g, x) /\ ~Less(g, y) /\ ~Less(g, z)
  <2>1. g1 \in {x, y} /\ ~Less(g1, x) /\ ~Less(g1, y)
    BY <1>2, <1>3
  <2>2. g \in {g1, z} /\ ~Less(g, g1) /\ ~Less(g, z)
    BY <1>2, <1>4
  <2>3. \A v \in Rationals : ~Less(g1, v) => ~Less(g, v)
    BY <2>2, OrderIs
  <2>4. QED
    BY <2>1, <2>2, <2>3
<1>6. l \in {x, y, z} /\ ~Less(x, l) /\ ~Less(y, l) /\ ~Less(z, l)
  <2>1. l1 \in {x, y} /\ ~Less(x, l1) /\ ~Less(y, l1)
    BY <1>2, <1>3
  <2>2. l \in {l1, z} /\ ~Less(l1, l) /\ ~Less(z, l)
    BY <1>2, <1>4
  <2>3. \A v \in Rationals : ~Less(v, l1) => ~Less(v, l)
    BY <2>2, OrderIs
  <2>4. QED
    BY <2>1, <2>2, <2>3
<1>7. QED
  BY <1>1, <1>3, <1>4, <1>5, <1>6

\* The sum of the magnitudes is not negative, so that it is the largest row sum.
LEMMA AbsIsPositive == \A x \in Rationals : Abs(x) \in Rationals /\ ~Less(Abs(x), Zero)
<1>1. ASSUME NEW x \in Rationals PROVE Abs(x) \in Rationals /\ ~Less(Abs(x), Zero)
  <2>1. x[1] \in Int /\ x[2] \in Nat /\ x[2] > 0 /\ Is(x, x[1], x[2])
    BY <1>1, NumbersOf
  <2>2. Is(Abs(x), Magnitude(x[1]), x[2])
    BY <2>1, AbsIs
  <2>3. Abs(x) \in Rationals
    BY <2>2 DEF Is
  <2>4. Magnitude(x[1]) >= 0
    BY <2>1 DEF Magnitude
  <2>5. ~Less(Abs(x), Zero)
    <3>1. Abs(x)[1] = Magnitude(x[1]) /\ Abs(x)[2] = x[2] /\ Zero[1] = 0 /\ Zero[2] = 1
      BY DEF Abs, Zero, Whole
    <3>2. Magnitude(x[1]) \in Int
      BY <2>1 DEF Magnitude
    <3>3. Abs(x)[1] * 1 = Magnitude(x[1]) /\ 0 * Abs(x)[2] = 0
      BY <2>1, <3>1, <3>2
    <3>4. QED
      BY <2>4, <3>1, <3>2, <3>3 DEF Less
  <2>6. QED
    BY <2>3, <2>5
<1>2. QED
  BY <1>1

\* A number is not negative when its numerator is not.
LEMMA NotNegative == \A x \in Rationals : ~Less(x, Zero) <=> x[1] >= 0
<1>1. ASSUME NEW x \in Rationals PROVE ~Less(x, Zero) <=> x[1] >= 0
  <2>1. x[1] \in Int /\ x[2] \in Nat
    BY <1>1, NumbersOf
  <2>2. Zero[1] = 0 /\ Zero[2] = 1
    BY DEF Zero, Whole
  <2>3. x[1] * 1 = x[1] /\ 0 * x[2] = 0
    BY <2>1
  <2>4. QED
    BY <2>1, <2>2, <2>3 DEF Less
<1>2. QED
  BY <1>1

\* A sum of two numbers that are not negative is not negative.
LEMMA SumNotNegative ==
  ASSUME NEW x \in Rationals, NEW y \in Rationals, ~Less(x, Zero), ~Less(y, Zero)
  PROVE  ~Less(x (+) y, Zero)
<1>1. PICK a \in Int, b \in Int, c \in Int, d \in Int :
        /\ a = x[1] /\ b = x[2] /\ c = y[1] /\ d = y[2] /\ b > 0 /\ d > 0 /\ Is(x, a, b) /\ Is(y, c, d)
  BY NumbersOf
<1>2. a >= 0 /\ c >= 0
  BY <1>1, NotNegative
<1>3. PICK s \in Rationals, e \in Int, f \in Int :
        s = x (+) y /\ e = s[1] /\ f = s[2] /\ f > 0 /\ Is(s, (a * d) + (c * b), b * d)
  <2>1. x (+) y \in Rationals
    BY Closed
  <2>2. Is(x (+) y, (a * d) + (c * b), b * d)
    BY <1>1, ArithmeticIs
  <2>3. QED
    BY <2>1, <2>2, NumbersOf
<1>4. PICK n \in Int, m \in Int : n = (a * d) + (c * b) /\ m = b * d /\ n >= 0 /\ m > 0
  <2>1. a * d \in Int /\ c * b \in Int /\ b * d \in Int
    BY <1>1
  <2>2. a * d >= 0 /\ c * b >= 0
    BY <1>1, <1>2, SMTT(30)
  <2>3. b * d > 0
    BY <1>1, SMTT(30)
  <2>4. QED
    BY <2>1, <2>2, <2>3
<1>5. e * m = n * f
  BY <1>3, <1>4 DEF Is
<1>6. ~(e < 0)
  <2>1. ASSUME e < 0 PROVE FALSE
    <3>1. e * m < 0
      BY <1>4, <2>1, SMTT(30)
    <3>2. n * f >= 0
      BY <1>3, <1>4, SMTT(30)
    <3>3. QED
      BY <1>5, <3>1, <3>2
  <2>2. QED
    BY <2>1
<1>7. QED
  BY <1>3, <1>6, NotNegative

\* The largest row sum of one row is the sum of its magnitudes.
LEMMA NormIsSum ==
  ASSUME NEW x \in Rationals, NEW y \in Rationals, NEW z \in Rationals
  PROVE  XXMatrixNormInf(Flat(x, y, z)) = XXMatrixSum(Upright(Abs(x), Abs(y), Abs(z)))
<1>1. PICK a \in Rationals, b \in Rationals, c \in Rationals :
        /\ a = Abs(x) /\ b = Abs(y) /\ c = Abs(z)
        /\ ~Less(a, Zero) /\ ~Less(b, Zero) /\ ~Less(c, Zero)
  BY AbsIsPositive
<1>2. ~Less(Sum3(a, b, c), Zero) /\ Sum3(a, b, c) \in Rationals
  <2>1. a (+) b \in Rationals /\ ~Less(a (+) b, Zero)
    BY <1>1, SumClosed, SumNotNegative
  <2>2. ~Less((a (+) b) (+) c, Zero)
    BY <1>1, <2>1, SumNotNegative
  <2>3. QED
    BY <2>2, Sum3Is
<1>3. Larger(Zero, Sum3(a, b, c)) = Sum3(a, b, c)
  <2>1. PICK s \in Rationals : s = Sum3(a, b, c) /\ ~Less(s, Zero)
    BY <1>2
  <2>2. CASE Less(Zero, s)
    BY <2>1, <2>2 DEF Larger
  <2>3. CASE ~Less(Zero, s)
    <3>1. s = Zero
      <4>1. s[1] \in Int /\ s[2] \in Nat /\ s[2] # 0 /\ Is(s, s[1], s[2])
        BY NumbersOf
      <4>2. Zero[1] = 0 /\ Zero[2] = 1 /\ Is(Zero, 0, 1)
        BY Wholes DEF Zero, Whole
      <4>3. ~(0 * s[2] < s[1] * 1) /\ s[1] >= 0
        BY <2>1, <2>3, <4>2, NotNegative DEF Less
      <4>4. 0 * s[2] = 0 /\ s[1] * 1 = s[1]
        BY <4>1
      <4>5. s[1] = 0
        BY <4>1, <4>3, <4>4
      <4>6. s[1] * 1 = 0 * s[2]
        BY <4>4, <4>5
      <4>7. QED
        BY <4>1, <4>2, <4>6, IsOneNumber
    <3>2. QED
      BY <2>1, <2>3, <3>1 DEF Larger
  <2>4. QED
    BY <2>2, <2>3
<1>4. QED
  BY <1>1, <1>3, NormOfThree, SumOfThree

\* A vector multiplied and divided element by element is the vector again.
LEMMA VectorDivided ==
  ASSUME NEW x \in Rationals, NEW y \in Rationals, NEW z \in Rationals,
         NEW p \in Rationals, NEW q \in Rationals, NEW r \in Rationals
  PROVE  /\ x # Zero /\ y # Zero /\ z # Zero =>
              XXMatrixDivElement(XXMatrixMulElement(Upright(p, q, r), Upright(x, y, z)), Upright(x, y, z))
                = Upright(p, q, r)
         /\ XXMatrixScalarDiv(XXMatrixScalarMul(Upright(x, y, z), Whole(3)), Whole(3)) = Upright(x, y, z)
<1>1. ASSUME x # Zero, y # Zero, z # Zero
      PROVE XXMatrixDivElement(XXMatrixMulElement(Upright(p, q, r), Upright(x, y, z)), Upright(x, y, z))
              = Upright(p, q, r)
  <2>1. (p (.) x) (/) x = p /\ (q (.) y) (/) y = q /\ (r (.) z) (/) z = r
    BY <1>1, Quotients
  <2>2. QED
    BY <2>1, ElementsOfThree
<1>2. XXMatrixScalarDiv(XXMatrixScalarMul(Upright(x, y, z), Whole(3)), Whole(3)) = Upright(x, y, z)
  <2>1. Whole(3) \in Rationals /\ Whole(3) # Zero
    <3>1. Whole(3) \in Rationals
      BY Wholes DEF Is
    <3>2. Whole(3)[1] = 3 /\ Zero[1] = 0
      BY DEF Zero, Whole
    <3>3. QED
      BY <3>1, <3>2
  <2>2. (x (.) Whole(3)) (/) Whole(3) = x /\ (y (.) Whole(3)) (/) Whole(3) = y /\ (z (.) Whole(3)) (/) Whole(3) = z
    BY <2>1, Quotients
  <2>3. QED
    BY <2>2, ElementsOfThree
<1>3. QED
  BY <1>1, <1>2

\* An element written at an index is read at that index.
LEMMA WrittenIsRead ==
  ASSUME NEW x, NEW y, NEW z, NEW s, NEW k \in 1 .. 3
  PROVE  XXMatrixMovAbsRel(XXMatrixMovRelAbs(Upright(x, y, z), 10 * k, s), 10 * k) = s
<1>1. LinIndex(10 * k) \in 0 .. 2
  <2>1. k = 1 \/ k = 2 \/ k = 3
    OBVIOUS
  <2>2. (10 - 9) \div 10 = 0 /\ (20 - 9) \div 10 = 1 /\ (30 - 9) \div 10 = 2
    OBVIOUS
  <2>3. QED
    BY <2>1, <2>2 DEF LinIndex
<1>2. PICK i \in 0 .. 2 : i = LinIndex(10 * k)
  BY <1>1
<1>3. XXMatrixMovAbsRel(XXMatrixMovRelAbs(Upright(x, y, z), 10 * k, s), 10 * k)
        = [Upright(x, y, z) EXCEPT !.mat[i] = s].mat[i]
  BY <1>2 DEF XXMatrixMovAbsRel, XXMatrixMovRelAbs
<1>4. [Upright(x, y, z) EXCEPT !.mat[i] = s].mat[i] = s
  BY DEF Upright, Three
<1>5. QED
  BY <1>3, <1>4

\* What holds of two vectors, for all numbers: `VectorLaw`, which the run `robot` checks on samples.
THEOREM VectorsFit ==
  ASSUME NEW x \in Rationals, NEW y \in Rationals, NEW z \in Rationals,
         NEW p \in Rationals, NEW q \in Rationals, NEW r \in Rationals
  PROVE  VectorLaw(<<x, y, z>>, <<p, q, r>>)
<1> DEFINE a == Vector3(<<x, y, z>>)
           b == Vector3(<<p, q, r>>)
           cross == XXMatrixCrossProduct(a, b)
           values == {<<x, y, z>>[k] : k \in 1 .. 3}
<1>1. a = Upright(x, y, z) /\ b = Upright(p, q, r)
  BY WrittenUpright
<1>2. values = {x, y, z}
  <2>1. 1 .. 3 = {1, 2, 3} /\ <<x, y, z>>[1] = x /\ <<x, y, z>>[2] = y /\ <<x, y, z>>[3] = z
    OBVIOUS
  <2>2. QED
    BY <2>1
<1>3. Rows(3, 1, [k \in 1 .. 3 |-> Abs(<<x, y, z>>[k])]) = Upright(Abs(x), Abs(y), Abs(z))
  BY RangesOfThree DEF Rows, Matrix, Upright, Three
<1> HIDE DEF a, b, values
<1>4. Product(XXMatrixSkew(a), b) = cross /\ XXMatrixInv(XXMatrixCrossProduct(b, a)) = cross
  BY <1>1, SkewCrosses
<1>5. XXMatrixInnerProduct(a, cross) = Zero
  BY <1>1, CrossIsNormal
<1>6. XXMatrixInnerProduct(a, b) = XXScalarMatrixMatrixMul(XXMatrixTranspose(1, 3, a), b)
  <2>1. XXMatrixTranspose(1, 3, a) = Flat(x, y, z)
    BY <1>1, ElementsOfThree
  <2>2. a.rows = 3 /\ Flat(x, y, z).columns = 3 /\ a.mat = Three(x, y, z) /\ Flat(x, y, z).mat = Three(x, y, z)
    BY <1>1, PartsOfThree
  <2>3. QED
    BY <2>1, <2>2, InnerOfThree
<1>7. Product(XXMatrixDiag(3, a), b) = XXMatrixMulElement(a, b)
  BY <1>1, DiagonalMultiplies
<1>8. \A i \in 0 .. 2 : XXMatrixGetRow(XXMatrixSetColumn(Identity(3), a, 1), i).mat[1] = a.mat[i]
  BY <1>1, ColumnFound
<1>9. /\ XXMatrixMaximum(a) \in values /\ \A v \in values : ~Less(XXMatrixMaximum(a), v)
      /\ XXMatrixMinimum(a) \in values /\ \A v \in values : ~Less(v, XXMatrixMinimum(a))
  <2>1. XXMatrixMaximum(a) = Larger(Larger(Larger(x, x), y), z)
    BY <1>1, MaximumOfThree
  <2>2. XXMatrixMinimum(a) = Smaller(Smaller(Smaller(x, x), y), z)
    BY <1>1, MinimumOfThree
  <2>3. QED
    BY <1>2, <2>1, <2>2, Extremes
<1>10. XXMatrixNormInf(XXMatrixTranspose(1, 3, a)) = XXMatrixSum(Rows(3, 1, [k \in 1 .. 3 |-> Abs(<<x, y, z>>[k])]))
  <2>1. XXMatrixTranspose(1, 3, a) = Flat(x, y, z)
    BY <1>1, ElementsOfThree
  <2>2. QED
    BY <1>3, <2>1, NormIsSum
<1>11. Zero \notin values => XXMatrixDivElement(XXMatrixMulElement(b, a), a) = b
  BY <1>1, <1>2, VectorDivided
<1>12. XXMatrixScalarDiv(XXMatrixScalarMul(a, Whole(3)), Whole(3)) = a
  BY <1>1, VectorDivided
<1>13. \A k \in 1 .. 3 : XXMatrixMovAbsRel(XXMatrixMovRelAbs(a, 10 * k, Zero), 10 * k) = Zero
  BY <1>1, WrittenIsRead
<1> HIDE DEF cross
<1>14. QED
  BY <1>4, <1>5, <1>6, <1>7, <1>8, <1>9, <1>10, <1>11, <1>12, <1>13 DEF VectorLaw, a, b, cross, values

-----------------------------------------------------------------------------
(***************************************************************************)
(* A rate that depends on the time.                                        *)
(***************************************************************************)

\* The numbers of the other integration methods are the numbers, too.
LEMMA SameNumbersOfTime ==
  /\ \A n : Quadrature!Whole(n) = Whole(n)
  /\ \A n, d : Quadrature!Ratio(n, d) = Ratio(n, d)
  /\ \A a, b : Quadrature!\oplus(a, b) = a (+) b
  /\ \A a, b : Quadrature!\odot(a, b) = a (.) b
<1>1. Quadrature!Gcd = Gcd
  BY DEF Quadrature!Gcd, Gcd
<1>2. \A n, d : Quadrature!Ratio(n, d) = Ratio(n, d)
  BY <1>1 DEF Quadrature!Ratio, Ratio, Quadrature!Magnitude, Magnitude
<1>3. QED
  BY <1>2 DEF Quadrature!Whole, Whole, Quadrature!\oplus, \oplus, Quadrature!\odot, \odot

\* The powers of a number, up to the fourth.
PowerOf(k, t) ==
  IF k = 0 THEN One ELSE IF k = 1 THEN One (.) t ELSE IF k = 2 THEN (One (.) t) (.) t
  ELSE IF k = 3 THEN ((One (.) t) (.) t) (.) t ELSE (((One (.) t) (.) t) (.) t) (.) t

\* The recursive definition of a power, unfolded.
LEMMA RaisedToIs ==
  ASSUME NEW n \in 0 .. 4, NEW t
  PROVE  RaisedTo(n, t) = PowerOf(n, t)
<1> DEFINE Solves(f) == f = [j \in 0 .. n |-> IF j = 0 THEN One ELSE f[j - 1] (.) t]
           F == [j \in 0 .. n |-> PowerOf(j, t)]
           g == CHOOSE f : Solves(f)
<1>1. RaisedTo(n, t) = g[n]
  BY DEF RaisedTo
<1>2. Solves(F)
  <2>1. ASSUME NEW j \in 0 .. n
        PROVE  F[j] = IF j = 0 THEN One ELSE F[j - 1] (.) t
    <3>1. j = 0 \/ (j = 1 /\ j - 1 = 0) \/ (j = 2 /\ j - 1 = 1) \/ (j = 3 /\ j - 1 = 2) \/ (j = 4 /\ j - 1 = 3)
      OBVIOUS
    <3>2. j # 0 => j - 1 \in 0 .. n
      OBVIOUS
    <3>3. F[j] = PowerOf(j, t) /\ (j # 0 => F[j - 1] = PowerOf(j - 1, t))
      BY <3>2
    <3> HIDE DEF F
    <3>4. QED
      BY <3>1, <3>3 DEF PowerOf
  <2>2. QED
    BY <2>1
<1>3. Solves(g)
  <2> HIDE DEF F, Solves
  <2>1. QED
    BY <1>2
<1> HIDE DEF g
<1>4. \A j \in 0 .. n : g[j] = IF j = 0 THEN One ELSE g[j - 1] (.) t
  BY <1>3
<1>5. /\ g[0] = One /\ (n >= 1 => g[1] = g[0] (.) t) /\ (n >= 2 => g[2] = g[1] (.) t)
      /\ (n >= 3 => g[3] = g[2] (.) t) /\ (n >= 4 => g[4] = g[3] (.) t)
  <2>1. n \in Int /\ 0 \in 0 .. n /\ (n >= 1 => 1 \in 0 .. n) /\ (n >= 2 => 2 \in 0 .. n)
        /\ (n >= 3 => 3 \in 0 .. n) /\ (n >= 4 => 4 \in 0 .. n)
    OBVIOUS
  <2>2. QED
    BY <1>4, <2>1
<1>6. n = 0 \/ n = 1 \/ n = 2 \/ n = 3 \/ n = 4
  OBVIOUS
<1>7. QED
  BY <1>1, <1>5, <1>6 DEF PowerOf

\* The powers of a whole number.
WholePower(k, n) ==
  IF k = 0 THEN 1 ELSE IF k = 1 THEN n ELSE IF k = 2 THEN n * n
  ELSE IF k = 3 THEN (n * n) * n ELSE ((n * n) * n) * n

\* The power of a fraction.
LEMMA PowerIs ==
  ASSUME NEW x, NEW n \in Int, NEW d \in Int, Is(x, n, d), NEW k \in 0 .. 4
  PROVE  Is(RaisedTo(k, x), WholePower(k, n), WholePower(k, d))
<1>1. Is(One, 1, 1) /\ x \in Rationals
  BY Wholes DEF Is
<1>2. One (.) x = x
  BY <1>1, Neutral
<1>3. Is(x (.) x, n * n, d * d)
  BY ArithmeticIs
<1>4. Is((x (.) x) (.) x, (n * n) * n, (d * d) * d)
  BY <1>3, ArithmeticIs
<1>5. Is(((x (.) x) (.) x) (.) x, ((n * n) * n) * n, ((d * d) * d) * d)
  BY <1>4, ArithmeticIs
<1>6. k = 0 \/ k = 1 \/ k = 2 \/ k = 3 \/ k = 4
  OBVIOUS
<1>7. QED
  BY <1>1, <1>2, <1>3, <1>4, <1>5, <1>6, RaisedToIs DEF PowerOf, WholePower

\* What one step adds to the state when the rate is a power of the time.
StepOfTime(k, t, h) ==
  LET middle == t (+) (Ratio(1, 2) (.) h)
      first == RaisedTo(k, t) (.) h
      second == RaisedTo(k, middle) (.) h
      last == RaisedTo(k, t (+) h) (.) h
  IN  ((first (+) last) (+) ((second (+) second) (.) Whole(2))) (.) Ratio(1, 6)

\* A step adds what StepOfTime says.
LEMMA StepTakesTime ==
  ASSUME NEW k, NEW t, NEW h
  PROVE  Quadrature!RungeKutta4(Quadrature!Evaluated(k, [i \in {0} |-> Zero], t), h).s[0]
           = Zero (+) StepOfTime(k, t, h)
<1> DEFINE z == [i \in {0} |-> Zero]
           Const(v) == [i \in {0} |-> v]
           m == Quadrature!Evaluated(k, z, t)
           middle == t (+) (Ratio(1, 2) (.) h)
           first == RaisedTo(k, t) (.) h
           second == RaisedTo(k, middle) (.) h
           last == RaisedTo(k, t (+) h) (.) h
           q1 == Quadrature!Times(m.R, h)
           q2 == Quadrature!Times(PowerRates(k, Quadrature!Plus(m.s, Quadrature!Times(q1, Quadrature!Half)), middle), h)
           q3 == Quadrature!Times(PowerRates(k, Quadrature!Plus(m.s, Quadrature!Times(q2, Quadrature!Half)), middle), h)
           q4 == Quadrature!Times(PowerRates(k, Quadrature!Plus(m.s, q3), t (+) h), h)
           all == Quadrature!Plus(Quadrature!Plus(q1, q4),
                                  Quadrature!Times(Quadrature!Plus(q2, q3), Quadrature!Whole(2)))
<1>1. m.u = k /\ m.s = z /\ m.R = Const(RaisedTo(k, t)) /\ m.time = t
  BY DEF Quadrature!Evaluated, PowerRates
<1> HIDE DEF m
<1>2. Quadrature!RungeKutta4(m, h).s = Quadrature!Plus(m.s, Quadrature!Times(all, Quadrature!Ratio(1, 6)))
  <2>1. Quadrature!\oplus(m.time, Quadrature!\odot(Quadrature!Half, h)) = middle /\ Quadrature!\oplus(m.time, h) = t (+) h
    BY <1>1, SameNumbersOfTime DEF Quadrature!Half
  <2> HIDE DEF middle
  <2>2. QED
    BY <1>1, <2>1 DEF Quadrature!RungeKutta4, Quadrature!Evaluated
<1>3. /\ \A v, w : Quadrature!Times(Const(v), w) = Const(v (.) w)
      /\ \A v, w : Quadrature!Plus(Const(v), Const(w)) = Const(v (+) w)
      /\ \A v, x : PowerRates(k, Const(v), x) = Const(RaisedTo(k, x))
  BY SameNumbersOfTime DEF Quadrature!Times, Quadrature!Plus, PowerRates
<1>4. z = Const(Zero)
  OBVIOUS
<1> HIDE DEF Const, z, middle
<1>5. q1 = Const(first) /\ q2 = Const(second) /\ q3 = Const(second) /\ q4 = Const(last)
  BY <1>1, <1>3, <1>4
<1> HIDE DEF q1, q2, q3, q4, first, second, last
<1>6. all = Const((first (+) last) (+) ((second (+) second) (.) Whole(2)))
  BY <1>3, <1>5, SameNumbersOfTime
<1> HIDE DEF all
<1>7. Quadrature!RungeKutta4(m, h).s
        = Const(Zero (+) (((first (+) last) (+) ((second (+) second) (.) Whole(2))) (.) Ratio(1, 6)))
  BY <1>1, <1>2, <1>3, <1>4, <1>6, SameNumbersOfTime
<1>8. \A v : Const(v)[0] = v
  BY DEF Const
<1>9. QED
  BY <1>7, <1>8 DEF m, z, first, second, last, middle, StepOfTime

\* A time and half a step as fractions with one denominator.
LEMMA TimesInHalves ==
  ASSUME NEW t \in Rationals, NEW h \in Rationals
  PROVE  \E a, b, d \in Int : Is(t, a, d) /\ Is(h, b + b, d) /\ Is(Ratio(1, 2) (.) h, b, d)
<1>1. Ratio(1, 2) \in Rationals /\ Is(Ratio(1, 2), 1, 2)
  BY RatioIs DEF Is
<1>2. PICK half \in Rationals : half = Ratio(1, 2) (.) h
  BY <1>1, ProductClosed
<1>3. PICK a, b, d \in Int : Is(t, a, d) /\ Is(half, b, d)
  BY CommonDenominator
<1>4. half (+) half = h
  <2>1. PICK n \in Int, e \in Int : Is(h, n, e) /\ e # 0
    BY NumbersOf
  <2>2. Is(half, 1 * n, 2 * e)
    BY <1>1, <1>2, <2>1, ArithmeticIs
  <2>3. Is(half (+) half, (1 * n) + (1 * n), 2 * e)
    BY <2>2, SumIs
  <2>4. ((1 * n) + (1 * n)) * e = n * (2 * e)
    BY <2>1
  <2>5. QED
    BY <2>1, <2>3, <2>4, IsOneNumber
<1>5. Is(h, b + b, d)
  BY <1>3, <1>4, SumIs
<1>6. QED
  BY <1>2, <1>3, <1>5

\* A step of a rate that is a power of the time, as a fraction: w, x and y are the
\* numerators of the powers at the start, in the middle and at the end, p the
\* denominator.
LEMMA StepOfTimeIs ==
  ASSUME NEW k \in 0 .. 3, NEW t \in Rationals, NEW h \in Rationals,
         NEW a \in Int, NEW b \in Int, NEW d \in Int,
         Is(t, a, d), Is(h, b + b, d), Is(Ratio(1, 2) (.) h, b, d)
  PROVE  LET w == WholePower(k, a)  x == WholePower(k, a + b)  y == WholePower(k, a + (b + b))
             p == WholePower(k, d)  c == b + b
         IN  Is(StepOfTime(k, t, h),
                (((w * c) + (y * c)) + (((x * c) + (x * c)) * 2)) * 1, (p * d) * 6)
<1>1. PICK c \in Int : c = b + b
  OBVIOUS
<1>2. Is(t (+) (Ratio(1, 2) (.) h), a + b, d) /\ Is(t (+) h, a + c, d)
  BY <1>1, SumIs
<1>3. PICK w, x, y, p : w = WholePower(k, a) /\ x = WholePower(k, a + b)
                        /\ y = WholePower(k, a + c) /\ p = WholePower(k, d)
  OBVIOUS
<1>4. /\ Is(RaisedTo(k, t), w, p) /\ Is(RaisedTo(k, t (+) (Ratio(1, 2) (.) h)), x, p)
      /\ Is(RaisedTo(k, t (+) h), y, p)
  <2>1. k \in 0 .. 4 /\ a + b \in Int /\ a + c \in Int
    BY <1>1
  <2>2. QED
    BY <1>2, <1>3, <2>1, PowerIs
<1>5. PICK first, second, last :
        /\ first = RaisedTo(k, t) (.) h
        /\ second = RaisedTo(k, t (+) (Ratio(1, 2) (.) h)) (.) h
        /\ last = RaisedTo(k, t (+) h) (.) h
  OBVIOUS
<1>6. Is(first, w * c, p * d) /\ Is(second, x * c, p * d) /\ Is(last, y * c, p * d)
  BY <1>1, <1>4, <1>5, ArithmeticIs
<1>7. PICK wc \in Int, xc \in Int, yc \in Int, e \in Int : wc = w * c /\ xc = x * c /\ yc = y * c /\ e = p * d
  BY <1>6 DEF Is
<1>8. Is(first (+) last, wc + yc, e) /\ Is(second (+) second, xc + xc, e)
  BY <1>6, <1>7, SumIs
<1>9. Is((second (+) second) (.) Whole(2), (xc + xc) * 2, e * 1) /\ e * 1 = e
  BY <1>7, <1>8, Wholes, ArithmeticIs
<1>10. Is((first (+) last) (+) ((second (+) second) (.) Whole(2)), (wc + yc) + ((xc + xc) * 2), e)
  BY <1>8, <1>9, SumIs
<1>11. Is(Ratio(1, 6), 1, 6)
  BY RatioIs
<1>12. Is(StepOfTime(k, t, h), ((wc + yc) + ((xc + xc) * 2)) * 1, e * 6)
  BY <1>5, <1>10, <1>11, ArithmeticIs DEF StepOfTime
<1>13. QED
  BY <1>1, <1>3, <1>7, <1>12

\* The area under a power up to the third is what the method adds up: Simpson's
\* rule, in whole numbers.
Simpson(k, a, b, d) ==
  LET w == WholePower(k, a)  x == WholePower(k, a + b)  y == WholePower(k, a + (b + b))
      p == WholePower(k, d)  c == b + b
  IN  ((((w * c) + (y * c)) + (((x * c) + (x * c)) * 2)) * 1) * (WholePower(k + 1, d) * (k + 1))
        = ((WholePower(k + 1, a + (b + b)) - WholePower(k + 1, a)) * 1) * ((p * d) * 6)

\* Simpson's rule has no error up to the third power.
LEMMA SimpsonHolds == \A k \in 0 .. 3 : \A a, b, d \in Int : Simpson(k, a, b, d)
<1>1. ASSUME NEW a \in Int, NEW b \in Int, NEW d \in Int PROVE Simpson(0, a, b, d)
  BY DEF Simpson, WholePower
<1>2. ASSUME NEW a \in Int, NEW b \in Int, NEW d \in Int PROVE Simpson(1, a, b, d)
  BY DEF Simpson, WholePower
<1>3. ASSUME NEW a \in Int, NEW b \in Int, NEW d \in Int PROVE Simpson(2, a, b, d)
  BY SMTT(30) DEF Simpson, WholePower
<1>4. ASSUME NEW a \in Int, NEW b \in Int, NEW d \in Int PROVE Simpson(3, a, b, d)
  BY SMTT(60) DEF Simpson, WholePower
<1>5. \A k \in 0 .. 3 : k = 0 \/ k = 1 \/ k = 2 \/ k = 3
  OBVIOUS
<1>6. QED
  BY <1>1, <1>2, <1>3, <1>4, <1>5

\* The fourth-order method adds up a rate that is a power of the time, up to the
\* third, without an error, whatever the time and the step size are: its stages are
\* at the start, in the middle and at the end of the step, weighted as Simpson's rule
\* has it (XXIntegratorRungeKutta4).
THEOREM TimeIsIntegrated ==
  ASSUME NEW k \in 0 .. 3, NEW t \in Rationals, NEW h \in Rationals
  PROVE  QuadratureLaw(k, t, h)
<1>1. PICK a, b, d \in Int : Is(t, a, d) /\ Is(h, b + b, d) /\ Is(Ratio(1, 2) (.) h, b, d)
  BY TimesInHalves
<1> DEFINE e == a + (b + b)
           Start == RaisedTo(k + 1, t)
           End == RaisedTo(k + 1, t (+) h)
           W == WholePower(k, a)
           X == WholePower(k, a + b)
           Y == WholePower(k, e)
           c == b + b
           N == (((W * c) + (Y * c)) + (((X * c) + (X * c)) * 2)) * 1
           D == (WholePower(k, d) * d) * 6
           P == WholePower(k + 1, d)
           U == WholePower(k + 1, e)
           V == WholePower(k + 1, a)
<1>2. Is(StepOfTime(k, t, h), N, D)
  BY <1>1, StepOfTimeIs
<1>3. Is(Start, V, P) /\ Is(End, U, P)
  <2>1. k + 1 \in 0 .. 4 /\ e \in Int
    OBVIOUS
  <2>2. Is(t (+) h, e, d)
    BY <1>1, SumIs
  <2>3. QED
    BY <1>1, <2>1, <2>2, PowerIs
<1>4. N * (P * (k + 1)) = ((U - V) * 1) * D
  BY SimpsonHolds DEF Simpson
<1>5. Quadrature!RungeKutta4(Quadrature!Evaluated(k, [i \in {0} |-> Zero], t), h).s[0] = Zero (+) StepOfTime(k, t, h)
  BY StepTakesTime
<1> HIDE DEF N, D, P, U, V, Start, End
<1>6. Is((End (-) Start) (/) Whole(k + 1), (U - V) * 1, P * (k + 1))
  <2>1. Is(End (-) Start, U - V, P)
    BY <1>3, SumIs
  <2>2. k + 1 \in Int /\ k + 1 # 0
    OBVIOUS
  <2>3. Is(Whole(k + 1), k + 1, 1)
    BY <2>2, Wholes
  <2>4. QED
    BY <2>1, <2>2, <2>3, ArithmeticIs
<1>7. StepOfTime(k, t, h) = (End (-) Start) (/) Whole(k + 1)
  BY <1>2, <1>4, <1>6, IsOneNumber
<1>8. Zero (+) StepOfTime(k, t, h) = StepOfTime(k, t, h)
  <2>1. StepOfTime(k, t, h) \in Rationals
    BY <1>2 DEF Is
  <2>2. QED
    BY <2>1, Neutral
<1>9. QED
  BY <1>5, <1>7, <1>8 DEF QuadratureLaw, Start, End

-----------------------------------------------------------------------------
(***************************************************************************)
(* Sums over finite sets, and the determinant as one.                      *)
(***************************************************************************)

\* How SumOver takes a set apart, for terms in a function.
FirstOf(s) == CHOOSE x \in s : TRUE
AddsUp(S, t, g) ==
  g = [s \in SUBSET S |-> IF s = {} THEN Zero ELSE t[FirstOf(s)] (+) g[s \ {FirstOf(s)}]]
Amount(S, t) == (CHOOSE g : AddsUp(S, t, g))[S]

\* Such a sum exists for every finite set: if not, there is a least number of elements
\* up to which no function adds up.
LEMMA SumExists ==
  ASSUME NEW S, IsFiniteSet(S), NEW t
  PROVE  \E g : AddsUp(S, t, g)
<1> DEFINE Rest(g, s) == IF s = {} THEN Zero ELSE t[FirstOf(s)] (+) g[s \ {FirstOf(s)}]
           UpTo(g, n) == \A s \in SUBSET S : Cardinality(s) <= n => g[s] = Rest(g, s)
           Bad == {n \in Nat : ~ \E g : UpTo(g, n)}
<1>1. \A s \in SUBSET S : IsFiniteSet(s) /\ Cardinality(s) \in Nat /\ Cardinality(s) <= Cardinality(S)
  BY FS_Subset, FS_CardinalityType
<1>2. \A s \in SUBSET S : s # {} => /\ FirstOf(s) \in s /\ s \ {FirstOf(s)} \in SUBSET S
                                    /\ Cardinality(s \ {FirstOf(s)}) = Cardinality(s) - 1
  BY <1>1, FS_RemoveElement DEF FirstOf
<1>3. Cardinality(S) \notin Bad
  <2>1. ASSUME Bad # {} PROVE FALSE
    <3>1. PICK n \in Bad : \A m \in Bad : n <= m
      <4>1. Bad \subseteq Nat
        OBVIOUS
      <4> HIDE DEF Bad
      <4>2. QED
        BY <2>1, <4>1, LeastNumber
    <3>2. n \in Nat
      OBVIOUS
    <3>3. CASE n = 0
      <4> DEFINE g == [s \in SUBSET S |-> Zero]
      <4>1. \A s \in SUBSET S : Cardinality(s) <= 0 => s = {}
        BY <1>1, FS_EmptySet
      <4>2. UpTo(g, 0)
        BY <4>1
      <4>3. QED
        BY <3>1, <3>3, <4>2
    <3>4. CASE n # 0
      <4>1. n - 1 \in Nat /\ n - 1 \notin Bad
        <5>1. n - 1 \in Nat /\ ~(n <= n - 1)
          BY <3>2, <3>4
        <5>2. QED
          BY <3>1, <5>1
      <4>2. PICK f : UpTo(f, n - 1)
        BY <4>1
      <4> DEFINE g == [s \in SUBSET S |-> Rest(f, s)]
      <4>3. \A s \in SUBSET S : Cardinality(s) <= n - 1 => g[s] = f[s]
        BY <4>2
      <4>4. ASSUME NEW s \in SUBSET S, Cardinality(s) <= n PROVE g[s] = Rest(g, s)
        <5>1. CASE s = {}
          BY <5>1
        <5>2. CASE s # {}
          <6>1. s \ {FirstOf(s)} \in SUBSET S /\ Cardinality(s \ {FirstOf(s)}) <= n - 1
            BY <1>1, <1>2, <3>2, <4>4, <5>2
          <6>2. g[s \ {FirstOf(s)}] = f[s \ {FirstOf(s)}]
            BY <4>3, <6>1
          <6>3. QED
            BY <5>2, <6>2
        <5>3. QED
          BY <5>1, <5>2
      <4>5. UpTo(g, n)
        BY <4>4
      <4>6. QED
        BY <3>1, <4>5
    <3>5. QED
      BY <3>3, <3>4
  <2>2. QED
    BY <2>1
<1>4. PICK f : UpTo(f, Cardinality(S))
  BY <1>3, FS_CardinalityType
<1> DEFINE g == [s \in SUBSET S |-> f[s]]
<1>5. g = [s \in SUBSET S |-> Rest(g, s)]
  <2>1. \A s \in SUBSET S : f[s] = Rest(f, s)
    BY <1>1, <1>4
  <2>2. \A s \in SUBSET S : Rest(f, s) = Rest(g, s)
    BY <1>2
  <2>3. QED
    BY <2>1, <2>2
<1>6. QED
  BY <1>5 DEF AddsUp

\* The equation of a sum over a set.
LEMMA AmountEquation ==
  ASSUME NEW S, IsFiniteSet(S), NEW t
  PROVE  \E g : /\ AddsUp(S, t, g) /\ Amount(S, t) = g[S]
                /\ \A s \in SUBSET S : g[s] = IF s = {} THEN Zero ELSE t[FirstOf(s)] (+) g[s \ {FirstOf(s)}]
<1>1. PICK g : g = CHOOSE h : AddsUp(S, t, h)
  OBVIOUS
<1>2. AddsUp(S, t, g)
  BY <1>1, SumExists
<1>3. \A s \in SUBSET S : g[s] = IF s = {} THEN Zero ELSE t[FirstOf(s)] (+) g[s \ {FirstOf(s)}]
  BY <1>2 DEF AddsUp
<1>4. QED
  BY <1>1, <1>2, <1>3 DEF Amount

\* Two functions that add up agree, so that the sum depends on the terms in the set only.
LEMMA SumIsUnique ==
  ASSUME NEW S, IsFiniteSet(S), NEW t, NEW R, NEW v, NEW g, NEW h, S \subseteq R, IsFiniteSet(R),
         \A x \in S : t[x] = v[x], AddsUp(S, t, g), AddsUp(R, v, h)
  PROVE  g[S] = h[S]
<1> DEFINE Bad == {n \in Nat : \E s \in SUBSET S : Cardinality(s) = n /\ g[s] # h[s]}
<1>1. \A s \in SUBSET S : IsFiniteSet(s) /\ Cardinality(s) \in Nat
  BY FS_Subset, FS_CardinalityType
<1>2. \A s \in SUBSET S : s # {} => /\ FirstOf(s) \in s /\ FirstOf(s) \in S /\ s \ {FirstOf(s)} \in SUBSET S
                                    /\ Cardinality(s \ {FirstOf(s)}) = Cardinality(s) - 1
  BY <1>1, FS_RemoveElement DEF FirstOf
<1>3. /\ \A s \in SUBSET S : g[s] = IF s = {} THEN Zero ELSE t[FirstOf(s)] (+) g[s \ {FirstOf(s)}]
      /\ \A s \in SUBSET S : h[s] = IF s = {} THEN Zero ELSE v[FirstOf(s)] (+) h[s \ {FirstOf(s)}]
  BY DEF AddsUp
<1>4. Bad = {}
  <2>1. ASSUME Bad # {} PROVE FALSE
    <3>1. PICK n \in Bad : \A m \in Bad : n <= m
      <4>1. Bad \subseteq Nat
        OBVIOUS
      <4> HIDE DEF Bad
      <4>2. QED
        BY <2>1, <4>1, LeastNumber
    <3>2. PICK s \in SUBSET S : Cardinality(s) = n /\ g[s] # h[s] /\ n \in Nat
      BY <3>1
    <3>3. s # {}
      BY <1>3, <3>2
    <3>4. PICK r \in SUBSET S : r = s \ {FirstOf(s)} /\ Cardinality(r) = n - 1
      BY <1>2, <3>2, <3>3
    <3>5. n - 1 \in Nat /\ ~(n <= n - 1)
      BY <1>1, <3>2, <3>4
    <3>6. g[r] = h[r]
      BY <3>1, <3>4, <3>5
    <3>7. t[FirstOf(s)] = v[FirstOf(s)]
      BY <1>2, <3>3
    <3>8. QED
      BY <1>3, <3>2, <3>3, <3>4, <3>6, <3>7
  <2>2. QED
    BY <2>1
<1>5. QED
  BY <1>1, <1>4

\* An element taken out of a sum, whichever it is.
LEMMA ElementTaken ==
  ASSUME NEW S, IsFiniteSet(S), NEW t, \A x \in S : t[x] \in Rationals, NEW g, AddsUp(S, t, g)
  PROVE  \A s \in SUBSET S : g[s] \in Rationals /\ \A x \in s : g[s] = t[x] (+) g[s \ {x}]
<1> DEFINE Fits(s) == g[s] \in Rationals /\ \A x \in s : g[s] = t[x] (+) g[s \ {x}]
           Bad == {n \in Nat : \E s \in SUBSET S : Cardinality(s) = n /\ ~Fits(s)}
<1>1. \A s \in SUBSET S : IsFiniteSet(s) /\ Cardinality(s) \in Nat
  BY FS_Subset, FS_CardinalityType
<1>2. \A s \in SUBSET S : \A x \in s : s \ {x} \in SUBSET S /\ Cardinality(s \ {x}) = Cardinality(s) - 1
  BY <1>1, FS_RemoveElement
<1>3. \A s \in SUBSET S : g[s] = IF s = {} THEN Zero ELSE t[FirstOf(s)] (+) g[s \ {FirstOf(s)}]
  BY DEF AddsUp
<1>4. Bad = {}
  <2>1. ASSUME Bad # {} PROVE FALSE
    <3>1. PICK n \in Bad : \A m \in Bad : n <= m
      <4>1. Bad \subseteq Nat
        OBVIOUS
      <4> HIDE DEF Bad
      <4>2. QED
        BY <2>1, <4>1, LeastNumber
    <3>2. PICK s \in SUBSET S : Cardinality(s) = n /\ ~Fits(s) /\ n \in Nat
      BY <3>1
    <3>3. \A r \in SUBSET S : Cardinality(r) = n - 1 => Fits(r)
      <4>1. ASSUME NEW r \in SUBSET S, Cardinality(r) = n - 1, ~Fits(r) PROVE FALSE
        <5>1. n - 1 \in Nat
          BY <1>1, <4>1
        <5>2. n - 1 \in Bad
          BY <4>1, <5>1
        <5>3. n <= n - 1
          BY <3>1, <5>2
        <5>4. QED
          BY <3>2, <5>3
      <4>2. QED
        BY <4>1
    <3>4. CASE s = {}
      <4>1. g[s] = Zero
        BY <1>3, <3>4
      <4>2. QED
        BY <3>2, <3>4, <4>1, PlusZero
    <3>5. CASE s # {}
      <4>1. PICK f \in s : f = FirstOf(s)
        BY <3>5 DEF FirstOf
      <4>2. PICK r \in SUBSET S : r = s \ {f} /\ Fits(r) /\ g[s] = t[f] (+) g[r]
        BY <1>2, <1>3, <3>2, <3>3, <3>5, <4>1
      <4>3. t[f] \in Rationals /\ g[r] \in Rationals
        BY <4>2
      <4>4. g[s] \in Rationals
        BY <4>2, <4>3, SumClosed
      <4>5. ASSUME NEW x \in s PROVE g[s] = t[x] (+) g[s \ {x}]
        <5>1. CASE x = f
          BY <4>2, <5>1
        <5>2. CASE x # f
          <6>1. PICK q \in SUBSET S : q = r \ {x} /\ g[r] = t[x] (+) g[q] /\ x \in r
            BY <1>2, <4>2, <5>2
          <6>2. PICK p \in SUBSET S : p = s \ {x} /\ Fits(p) /\ f \in p /\ p \ {f} = q
            <7>1. Fits(s \ {x})
              BY <1>2, <3>2, <3>3
            <7>2. f \in s \ {x} /\ (s \ {x}) \ {f} = q
              BY <4>2, <5>2, <6>1
            <7>3. QED
              BY <7>1, <7>2
          <6>3. g[p] = t[f] (+) g[q]
            BY <6>2
          <6>4. Fits(q)
            <7>1. Cardinality(q) = n - 2
              <8>1. Cardinality(r) = n - 1 /\ Cardinality(q) = Cardinality(r) - 1
                BY <1>2, <3>2, <4>2, <6>1
              <8>2. QED
                BY <1>1, <3>2, <8>1
            <7>2. n - 2 \in Nat
              BY <1>1, <7>1
            <7>3. n - 2 \notin Bad
              <8>1. ~(n <= n - 2)
                BY <3>2
              <8>2. QED
                BY <3>1, <8>1
            <7>4. QED
              BY <7>1, <7>2, <7>3
          <6>5. g[q] \in Rationals /\ t[x] \in Rationals
            BY <6>4
          <6>6. t[f] (+) (t[x] (+) g[q]) = t[x] (+) (t[f] (+) g[q])
            <7>1. \A a, b, c \in Rationals : a (+) (b (+) c) = b (+) (a (+) c)
              <8>1. ASSUME NEW a \in Rationals, NEW b \in Rationals, NEW c \in Rationals
                    PROVE  a (+) (b (+) c) = b (+) (a (+) c)
                <9>1. (a (+) b) (+) c = a (+) (b (+) c) /\ (b (+) a) (+) c = b (+) (a (+) c)
                  BY SumAssociates
                <9>2. a (+) b = b (+) a
                  BY SumCommutes
                <9>3. QED
                  BY <9>1, <9>2
              <8>2. QED
                BY <8>1
            <7>2. QED
              BY <4>3, <6>5, <7>1
          <6>7. QED
            BY <4>2, <6>1, <6>2, <6>3, <6>6
        <5>3. QED
          BY <5>1, <5>2
      <4>6. QED
        BY <3>2, <4>4, <4>5
    <3>6. QED
      BY <3>4, <3>5
  <2>2. QED
    BY <2>1
<1>5. ASSUME NEW s \in SUBSET S PROVE Fits(s)
  BY <1>1, <1>4
<1>6. QED
  BY <1>5

\* The equation of a sum, with the terms as they come in a function.
LEMMA AmountIs ==
  ASSUME NEW S, IsFiniteSet(S), NEW t, \A x \in S : t[x] \in Rationals, NEW f, AddsUp(S, t, f)
  PROVE  /\ \A s \in SUBSET S : f[s] \in Rationals /\ \A x \in s : f[s] = t[x] (+) f[s \ {x}]
         /\ f[{}] = Zero
<1>1. f[{}] = Zero
  BY DEF AddsUp
<1>2. QED
  BY <1>1, ElementTaken

\* The two orders of two columns.
Straight == [i \in 0 .. 1 |-> i]
Crossed == [i \in 0 .. 1 |-> 1 - i]

\* The two orders of two places.
LEMMA OrdersOfTwo == Orders(2) = {Straight, Crossed} /\ Straight # Crossed
<1>1. Straight[0] = 0 /\ Straight[1] = 1 /\ Crossed[0] = 1 /\ Crossed[1] = 0
  BY DEF Straight, Crossed
<1>2. Straight \in Orders(2) /\ Crossed \in Orders(2)
  BY DEF Orders, Straight, Crossed
<1>3. ASSUME NEW p \in Orders(2) PROVE p = Straight \/ p = Crossed
  <2>1. p \in [0 .. 1 -> 0 .. 1] /\ p[0] # p[1]
    BY DEF Orders
  <2>2. (p[0] = 0 /\ p[1] = 1) \/ (p[0] = 1 /\ p[1] = 0)
    BY <2>1
  <2>3. QED
    BY <2>1, <2>2 DEF Straight, Crossed
<1>4. QED
  BY <1>1, <1>2, <1>3

\* How many pairs of columns are crossed, in the words of Leibniz.
CrossedPairs(p) == {s \in (0 .. 1) \X (0 .. 1) : s[1] < s[2] /\ p[s[1]] > p[s[2]]}

\* The order of two places has no pair to exchange, the other has one.
LEMMA PairsOfTwo == Cardinality(CrossedPairs(Straight)) % 2 = 0 /\ ~(Cardinality(CrossedPairs(Crossed)) % 2 = 0)
<1>1. CrossedPairs(Straight) = {}
  BY DEF CrossedPairs, Straight
<1>2. CrossedPairs(Crossed) = {<<0, 1>>}
  BY DEF CrossedPairs, Crossed
<1>3. Cardinality({}) = 0 /\ Cardinality({<<0, 1>>}) = 1
  BY FS_EmptySet, FS_Singleton
<1>4. 0 % 2 = 0 /\ ~(1 % 2 = 0)
  OBVIOUS
<1>5. QED
  BY <1>1, <1>2, <1>3, <1>4

\* The term of an order: one element of each row, with the sign of the order.
LeibnizTerm(A, p) ==
  (Whole(IF Cardinality(CrossedPairs(p)) % 2 = 0 THEN 1 ELSE -1) (.) A.mat[(0 * 2) + p[0]]) (.) A.mat[(1 * 2) + p[1]]

\* The term of an order is a product of two elements.
LEMMA LeibnizTwice ==
  ASSUME NEW A, A.rows = 2
  PROVE  Leibniz(A)
           = (CHOOSE f : f = [s \in SUBSET Orders(2) |->
                                IF s = {} THEN Zero ELSE LeibnizTerm(A, FirstOf(s)) (+) f[s \ {FirstOf(s)}]])[Orders(2)]
<1> DEFINE Sign(p) == Whole(IF Cardinality(CrossedPairs(p)) % 2 = 0 THEN 1 ELSE -1)
           Term(p) == Loop(2, Sign(p), LAMBDA t, i : t (.) A.mat[(i * 2) + p[i]])
<1>1. ASSUME NEW p PROVE Term(p) = LeibnizTerm(A, p)
  <2> DEFINE Step(t, i) == t (.) A.mat[(i * 2) + p[i]]
             Solves(f) == f = [k \in 0 .. 2 |-> IF k = 0 THEN Sign(p) ELSE Step(f[k - 1], k - 1)]
             F == [k \in 0 .. 2 |-> IF k = 0 THEN Sign(p) ELSE IF k = 1 THEN Step(Sign(p), 0)
                                    ELSE Step(Step(Sign(p), 0), 1)]
             g == CHOOSE f : Solves(f)
  <2> HIDE DEF Sign
  <2>1. Term(p) = g[2]
    BY DEF Loop
  <2> HIDE DEF Step
  <2>2. Solves(F)
    OBVIOUS
  <2>3. Solves(g)
    <3> HIDE DEF F, Solves
    <3>1. QED
      BY <2>2
  <2> HIDE DEF g
  <2>4. g[0] = Sign(p) /\ g[1] = Step(g[0], 0) /\ g[2] = Step(g[1], 1)
    BY <2>3
  <2>5. QED
    BY <2>1, <2>4 DEF Step, Sign, LeibnizTerm
<1>2. Leibniz(A) = SumOver(Orders(2), Term)
  BY DEF Leibniz, CrossedPairs
<1> HIDE DEF Term
<1>3. SumOver(Orders(2), Term)
        = (CHOOSE f : f = [s \in SUBSET Orders(2) |->
                             IF s = {} THEN Zero ELSE Term(FirstOf(s)) (+) f[s \ {FirstOf(s)}]])[Orders(2)]
  BY DEF SumOver, MapThenFoldSet, FirstOf
<1>4. QED
  BY <1>1, <1>2, <1>3

\* The determinant of two rows.
LEMMA LeibnizOfTwo ==
  ASSUME NEW a \in Rationals, NEW b \in Rationals, NEW c \in Rationals, NEW d \in Rationals
  PROVE  Leibniz(Square(a, b, c, d)) = (a (.) d) (-) (b (.) c)
<1> DEFINE A == Square(a, b, c, d)
           O == {Straight, Crossed}
           t == [p \in O |-> LeibnizTerm(A, p)]
           Chosen(f) == f = [s \in SUBSET O |-> IF s = {} THEN Zero ELSE LeibnizTerm(A, FirstOf(s)) (+) f[s \ {FirstOf(s)}]]
           g == CHOOSE f : Chosen(f)
<1>1. Leibniz(A) = g[O]
  <2>1. A.rows = 2
    BY Elements
  <2> HIDE DEF A
  <2>2. QED
    BY <2>1, LeibnizTwice, OrdersOfTwo
<1>2. IsFiniteSet(O)
  <2>1. O = {Straight} \cup {Crossed}
    OBVIOUS
  <2>2. IsFiniteSet({Straight}) /\ IsFiniteSet({Crossed})
    BY FS_Singleton
  <2> HIDE DEF O
  <2>3. IsFiniteSet({Straight} \cup {Crossed})
    BY <2>2, FS_Union
  <2>4. QED
    BY <2>1, <2>3
<1>3. \A s \in SUBSET O : s # {} => FirstOf(s) \in O /\ t[FirstOf(s)] = LeibnizTerm(A, FirstOf(s))
  BY DEF FirstOf
<1>4. t[Straight] = (One (.) a) (.) d /\ t[Crossed] = (Whole(-1) (.) b) (.) c
  <2>1. /\ A.mat[0] = a /\ A.mat[1] = b /\ A.mat[2] = c /\ A.mat[3] = d
    BY Elements
  <2>2. /\ (0 * 2) + 0 = 0 /\ (0 * 2) + 1 = 1 /\ (1 * 2) + 0 = 2 /\ (1 * 2) + 1 = 3
        /\ Straight[0] = 0 /\ Straight[1] = 1 /\ Crossed[0] = 1 /\ Crossed[1] = 0
    BY DEF Straight, Crossed
  <2> HIDE DEF A
  <2>3. LeibnizTerm(A, Straight) = (One (.) a) (.) d /\ LeibnizTerm(A, Crossed) = (Whole(-1) (.) b) (.) c
    BY <2>1, <2>2, PairsOfTwo DEF LeibnizTerm, One
  <2>4. QED
    BY <2>3
<1> HIDE DEF A, t
<1>5. \A f : AddsUp(O, t, f) <=> Chosen(f)
  <2>1. ASSUME NEW f
        PROVE  [s \in SUBSET O |-> IF s = {} THEN Zero ELSE t[FirstOf(s)] (+) f[s \ {FirstOf(s)}]]
                 = [s \in SUBSET O |-> IF s = {} THEN Zero ELSE LeibnizTerm(A, FirstOf(s)) (+) f[s \ {FirstOf(s)}]]
    BY <1>3
  <2>2. QED
    BY <2>1 DEF AddsUp
<1>6. AddsUp(O, t, g)
  <2>1. PICK h : Chosen(h)
    BY <1>2, <1>5, SumExists
  <2> HIDE DEF Chosen
  <2>2. Chosen(g)
    BY <2>1
  <2>3. QED
    BY <1>5, <2>2
<1> HIDE DEF g
<1>7. One (.) a \in Rationals /\ One (.) a = a /\ Whole(-1) (.) b \in Rationals
  BY Wholes, ProductClosed, Neutral
<1>8. t[Straight] = a (.) d /\ t[Crossed] = Neg(b (.) c) /\ a (.) d \in Rationals /\ b (.) c \in Rationals /\ Neg(b (.) c) \in Rationals
  <2>1. Whole(-1) = Neg(One)
    BY DEF Whole, Neg, One
  <2>2. Whole(-1) (.) b = Neg(One (.) b) /\ One (.) b = b
    BY <2>1, Wholes, MinusProduct, Neutral
  <2>3. QED
    BY <1>4, <1>7, <2>2, MinusProduct, ProductClosed, NegClosed
<1>9. g[O] = t[Straight] (+) (t[Crossed] (+) Zero)
  <2>1. \A x \in O : t[x] \in Rationals
    BY <1>8
  <2>2. /\ \A s \in SUBSET O : \A x \in s : g[s] = t[x] (+) g[s \ {x}]
        /\ g[{}] = Zero
    BY <1>2, <1>6, <2>1, AmountIs
  <2>3. O \ {Straight} = {Crossed} /\ {Crossed} \ {Crossed} = {} /\ {Crossed} \in SUBSET O /\ O \in SUBSET O
    BY OrdersOfTwo
  <2>4. QED
    BY <2>2, <2>3
<1>10. (a (.) d) (+) (Neg(b (.) c) (+) Zero) = (a (.) d) (-) (b (.) c)
  BY <1>8, PlusZero, MinusIs
<1>11. QED
  BY <1>1, <1>8, <1>9, <1>10 DEF A

\* The symmetric and the antisymmetric part of a matrix of 2 x 2 add up to it.
LEMMA PartsOfSquare ==
  ASSUME NEW a \in Rationals, NEW b \in Rationals, NEW c \in Rationals, NEW d \in Rationals
  PROVE  LET A == Square(a, b, c, d)
         IN  /\ XXMatrixAdd(XXMatrixSym(A), XXMatrixAsym(A)) = A
             /\ XXMatrixTrace(XXMatrixAsym(A)) = Zero
<1> DEFINE A == Square(a, b, c, d)
           two == Whole(2)
           Halved(x) == x (/) two
<1>1. two \in Rationals /\ two # Zero
  <2>1. two[1] = 2 /\ Zero[1] = 0
    BY DEF Zero, Whole
  <2>2. QED
    BY <2>1, Wholes
<1> HIDE DEF two
<1>2. ASSUME NEW p, NEW q, NEW r, NEW s, NEW e, NEW f, NEW g, NEW h
      PROVE  /\ XXMatrixAdd(Square(p, q, r, s), Square(e, f, g, h)) = Square(p (+) e, q (+) f, r (+) g, s (+) h)
             /\ XXMatrixSub(Square(p, q, r, s), Square(e, f, g, h)) = Square(p (-) e, q (-) f, r (-) g, s (-) h)
  BY RangesOfTwo DEF XXMatrixAdd, XXMatrixSub, Matrix, Square, Four
<1>2a. ASSUME NEW p, NEW q, NEW r, NEW s
      PROVE  XXMatrixScalarDiv(Square(p, q, r, s), two) = Square(Halved(p), Halved(q), Halved(r), Halved(s))
  BY RangesOfTwo DEF XXMatrixScalarDiv, Matrix, Square, Four
<1>3. A.rows = 2 /\ A.columns = 2 /\ XXMatrixTranspose(2, 2, A) = Square(a, c, b, d)
  BY Elements, TransposeSquare
<1>4. XXMatrixSym(A) = Square(Halved(a (+) a), Halved(c (+) b), Halved(b (+) c), Halved(d (+) d))
  <2>1. XXMatrixSym(A) = XXMatrixScalarDiv(XXMatrixAdd(XXMatrixTranspose(2, 2, A), A), two)
    <3> HIDE DEF A
    <3>1. QED
      BY <1>3 DEF XXMatrixSym, two
  <2>2. XXMatrixAdd(XXMatrixTranspose(2, 2, A), A) = Square(a (+) a, c (+) b, b (+) c, d (+) d)
    BY <1>2, <1>3
  <2> HIDE DEF A, Halved
  <2>3. XXMatrixScalarDiv(Square(a (+) a, c (+) b, b (+) c, d (+) d), two)
          = Square(Halved(a (+) a), Halved(c (+) b), Halved(b (+) c), Halved(d (+) d))
    BY <1>2a
  <2>4. QED
    BY <2>1, <2>2, <2>3
<1>5. XXMatrixAsym(A) = Square(Halved(a (-) a), Halved(b (-) c), Halved(c (-) b), Halved(d (-) d))
  <2>1. XXMatrixAsym(A) = XXMatrixScalarDiv(XXMatrixSub(A, XXMatrixTranspose(2, 2, A)), two)
    <3> HIDE DEF A
    <3>1. QED
      BY <1>3 DEF XXMatrixAsym, two
  <2>2. XXMatrixSub(A, XXMatrixTranspose(2, 2, A)) = Square(a (-) a, b (-) c, c (-) b, d (-) d)
    BY <1>2, <1>3
  <2> HIDE DEF A, Halved
  <2>3. XXMatrixScalarDiv(Square(a (-) a, b (-) c, c (-) b, d (-) d), two)
          = Square(Halved(a (-) a), Halved(b (-) c), Halved(c (-) b), Halved(d (-) d))
    BY <1>2a
  <2>4. QED
    BY <2>1, <2>2, <2>3
<1> HIDE DEF A, Halved
<1>6. \A x, y \in Rationals : Halved(x (+) y) (+) Halved(x (-) y) = x /\ Halved(x (-) x) = Zero /\ Halved(y (+) x) (+) Halved(x (-) y) = x
  <2>1. ASSUME NEW x \in Rationals, NEW y \in Rationals
        PROVE  Halved(x (+) y) (+) Halved(x (-) y) = x /\ Halved(x (-) x) = Zero
    <3>1. PICK n \in Int, m \in Int, e \in Int : Is(x, n, e) /\ Is(y, m, e)
      BY CommonDenominator
    <3>2. Is(two, 2, 1)
      BY Wholes DEF two
    <3>3. Is(x (+) y, n + m, e) /\ Is(x (-) y, n - m, e) /\ Is(x (-) x, n - n, e)
      BY <3>1, SumIs
    <3>4. /\ Is(Halved(x (+) y), (n + m) * 1, e * 2) /\ Is(Halved(x (-) y), (n - m) * 1, e * 2)
          /\ Is(Halved(x (-) x), (n - n) * 1, e * 2)
      <4>1. ASSUME NEW u, NEW i, Is(u, i, e) PROVE Is(Halved(u), i * 1, e * 2)
        <5>1. 2 # 0
          OBVIOUS
        <5>2. QED
          BY <3>2, <4>1, <5>1, ArithmeticIs DEF Halved
      <4>2. QED
        BY <3>3, <4>1
    <3>5. Is(Halved(x (+) y) (+) Halved(x (-) y), ((n + m) * 1) + ((n - m) * 1), e * 2)
      BY <3>4, SumIs
    <3>6. (((n + m) * 1) + ((n - m) * 1)) * e = n * (e * 2) /\ ((n - n) * 1) * 1 = 0 * (e * 2) /\ Is(Zero, 0, 1)
      BY <3>1, Wholes
    <3>7. QED
      BY <3>1, <3>4, <3>5, <3>6, IsOneNumber
  <2>2. QED
    BY <2>1, SumCommutes
<1>7. XXMatrixAdd(XXMatrixSym(A), XXMatrixAsym(A)) = A
  BY <1>2, <1>4, <1>5, <1>6 DEF A
<1>8. XXMatrixTrace(XXMatrixAsym(A)) = Zero
  <2> DEFINE B == XXMatrixAsym(A)
             Part(i) == B.mat[i * (2 + 1)]
             Solves(f) == f = [k \in 0 .. 2 |-> IF k = 0 THEN Zero ELSE f[k - 1] (+) Part(k - 1)]
             F == [k \in 0 .. 2 |-> IF k = 0 THEN Zero ELSE IF k = 1 THEN Zero (+) Part(0)
                                    ELSE (Zero (+) Part(0)) (+) Part(1)]
             g == CHOOSE f : Solves(f)
  <2>1. B.rows = 2 /\ B.columns = 2 /\ B.mat[0] = Zero /\ B.mat[3] = Zero
    BY <1>5, <1>6, Elements
  <2> HIDE DEF B
  <2>2. XXMatrixTrace(B) = g[2]
    BY <2>1 DEF XXMatrixTrace, Total, Loop
  <2>3. Part(0) = Zero /\ Part(1) = Zero
    <3>1. 0 * (2 + 1) = 0 /\ 1 * (2 + 1) = 3
      OBVIOUS
    <3>2. QED
      BY <2>1, <3>1
  <2> HIDE DEF Part
  <2>4. Solves(F)
    OBVIOUS
  <2>5. Solves(g)
    <3> HIDE DEF F, Solves
    <3>1. QED
      BY <2>4
  <2> HIDE DEF g
  <2>6. g[0] = Zero /\ g[1] = g[0] (+) Part(0) /\ g[2] = g[1] (+) Part(1)
    BY <2>5
  <2>7. QED
    BY <2>2, <2>3, <2>6, PlusZero DEF B
<1>9. QED
  BY <1>7, <1>8 DEF A

-----------------------------------------------------------------------------
(***************************************************************************)
(* Columns solved for, and powers of a matrix.                             *)
(***************************************************************************)

\* A difference and what was taken off.
LEMMA PutBack == \A x, y \in Rationals : x (+) (y (-) x) = y /\ (y (-) x) (+) x = y
<1>1. ASSUME NEW x \in Rationals, NEW y \in Rationals
      PROVE  x (+) (y (-) x) = y /\ (y (-) x) (+) x = y
  <2>1. PICK n \in Int, m \in Int, e \in Int : Is(x, n, e) /\ Is(y, m, e)
    BY CommonDenominator
  <2>2. Is(y (-) x, m - n, e)
    BY <2>1, SumIs
  <2>3. Is(x (+) (y (-) x), n + (m - n), e)
    BY <2>1, <2>2, SumIs
  <2>4. (n + (m - n)) * e = m * e
    OBVIOUS
  <2>5. x (+) (y (-) x) = y
    BY <2>1, <2>3, <2>4, IsOneNumber
  <2>6. QED
    BY <2>5, SumCommutes, MinusClosed
<1>2. QED
  BY <1>1

\* What a vector that is solved for satisfies.
Solved(a, b, c, d, u, v, x, y) == (a (.) u) (+) (b (.) v) = x /\ (c (.) u) (+) (d (.) v) = y
SolvesRow(a, b, c, d, x, y, q, s) ==
  \E u, v \in Rationals : /\ XXSubstitute(Square(a, q, c, s), Row(x, y)) = Row(u, v)
                          /\ Solved(a, b, c, d, u, v, x, y)

\* The substitutions undo the product with the matrix that the factors came from.
LEMMA SubstitutionSolves ==
  ASSUME NEW a \in Rationals, NEW b \in Rationals, NEW c \in Rationals, NEW d \in Rationals,
         NEW x \in Rationals, NEW y \in Rationals, a # Zero,
         NEW q, q = b (/) a, NEW s, s = d (-) (c (.) q), s # Zero
  PROVE  SolvesRow(a, b, c, d, x, y, q, s)
<1>1. q \in Rationals /\ a (.) q = b
  BY QuotientTimes
<1>2. c (.) q \in Rationals /\ s \in Rationals
  BY <1>1, ProductClosed, MinusClosed
<1>3. PICK X \in Rationals : X = x (/) a /\ a (.) X = x
  BY QuotientTimes
<1>4. PICK Z \in Rationals : Z = y (-) (c (.) X)
  BY <1>3, ProductClosed, MinusClosed
<1>5. PICK Y \in Rationals : Y = Z (/) s /\ s (.) Y = Z
  BY <1>2, <1>4, QuotientTimes
<1>6. PICK V \in Rationals : V = q (.) Y
  BY <1>1, <1>5, ProductClosed
<1>7. PICK u \in Rationals : u = X (-) V
  BY <1>3, <1>6, MinusClosed
<1>8. XXSubstitute(Square(a, q, c, s), Row(x, y)) = Row(u, Y)
  <2>1. Substituted(a, q, c, s, x, y)
    BY <1>1, <1>2, SubstituteIs
  <2>2. QED
    BY <1>3, <1>4, <1>5, <1>6, <1>7, <2>1 DEF Substituted
<1>9. (a (.) u) (+) (b (.) Y) = x
  <2>1. a (.) u = (a (.) X) (-) (a (.) V)
    BY <1>3, <1>6, <1>7, MinusTimes
  <2>2. a (.) V = b (.) Y
    BY <1>1, <1>5, <1>6, ProductAssociates
  <2>3. b (.) Y \in Rationals
    BY <1>5, ProductClosed
  <2>4. QED
    BY <1>3, <2>1, <2>2, <2>3, PutBack
<1>10. (c (.) u) (+) (d (.) Y) = y
  <2>1. PICK G \in Rationals, H \in Rationals, K \in Rationals, L \in Rationals :
          G = c (.) X /\ H = c (.) V /\ K = d (.) Y /\ L = c (.) q
    BY <1>2, <1>3, <1>5, <1>6, ProductClosed
  <2>2. c (.) u = G (-) H
    BY <1>3, <1>6, <1>7, <2>1, MinusTimes
  <2>3. H = L (.) Y
    BY <1>1, <1>5, <1>6, <2>1, ProductAssociates
  <2>4. Z = K (-) H
    <3>1. s (.) Y = Y (.) (d (-) L) /\ Y (.) (d (-) L) = (Y (.) d) (-) (Y (.) L)
      BY <1>2, <1>5, <2>1, MinusTimes, ProductCommutes
    <3>2. Y (.) d = K /\ Y (.) L = H
      BY <1>5, <2>1, <2>3, ProductCommutes
    <3>3. QED
      BY <1>5, <3>1, <3>2
  <2>5. y = G (+) Z
    BY <1>4, <2>1, PutBack
  <2>6. (G (-) H) (+) K = G (+) (K (-) H)
    <3>1. PICK N \in Rationals : N = Neg(H)
      BY <2>1, NegClosed
    <3>2. G (-) H = G (+) N /\ K (-) H = K (+) N
      BY <2>1, <3>1, MinusIs
    <3>3. (G (+) N) (+) K = G (+) (N (+) K) /\ N (+) K = K (+) N
      BY <2>1, <3>1, SumAssociates, SumCommutes
    <3>4. QED
      BY <3>2, <3>3
  <2>7. QED
    BY <2>1, <2>2, <2>4, <2>5, <2>6
<1>11. QED
  BY <1>5, <1>7, <1>8, <1>9, <1>10 DEF Solved, SolvesRow

\* A column is substituted in as a row is.
LEMMA SubstituteColumn ==
  ASSUME NEW m, m.rows = 2, NEW x, NEW y, NEW u, NEW v, XXSubstitute(m, Row(x, y)) = Row(u, v)
  PROVE  XXSubstitute(m, Column(x, y)) = Column(u, v)
<1> DEFINE After(w) == BackStep(m, BackStep(m, ForwardStep(m, ForwardStep(m, w, 0), 1), 1), 0)
<1>1. \A w : XXSubstitute(m, w) = [w EXCEPT !.mat = After(w.mat)]
  BY SubstituteTwice
<1> HIDE DEF After
<1>2. PICK V : V = After(Two(x, y))
  OBVIOUS
<1>3. XXSubstitute(m, Row(x, y)) = [Row(x, y) EXCEPT !.mat = V] /\ XXSubstitute(m, Column(x, y)) = [Column(x, y) EXCEPT !.mat = V]
  <2>1. Row(x, y).mat = Two(x, y) /\ Column(x, y).mat = Two(x, y)
    BY Elements
  <2>2. QED
    BY <1>1, <1>2, <2>1
<1>4. V = Two(u, v)
  <2>1. [Row(x, y) EXCEPT !.mat = V].mat = V
    BY DEF Row
  <2>2. Row(u, v).mat = Two(u, v)
    BY Elements
  <2>3. QED
    BY <1>3, <2>1, <2>2
<1>5. [Column(x, y) EXCEPT !.mat = Two(u, v)] = Column(u, v)
  BY DEF Column
<1>6. QED
  BY <1>3, <1>4, <1>5

\* The order of the rows, of a column.
LEMMA PermuteColumn ==
  ASSUME NEW x, NEW y
  PROVE  /\ XXPermute(Column(x, y), Two(0, 1)) = Column(x, y)
         /\ XXPermute(Column(x, y), Two(1, 0)) = Column(y, x)
BY RangesOfTwo DEF XXPermute, Matrix, Column, Two

\* A single right side, solved with the decomposition (common/xxinverse.cpp, XXCrout).
LEMMA CroutSolves ==
  ASSUME NEW a \in Rationals, NEW b \in Rationals, NEW c \in Rationals, NEW d \in Rationals,
         NEW x \in Rationals, NEW y \in Rationals, (a (.) d) (-) (b (.) c) # Zero
  PROVE  \E u, v \in Rationals : /\ XXCrout(Square(a, b, c, d), Column(x, y)).x = Column(u, v)
                                 /\ Solved(a, b, c, d, u, v, x, y)
<1>1. PICK lu : lu = XXDecompose(Square(a, b, c, d))
  OBVIOUS
<1>2. lu.det # Zero
  <2>1. PICK D : D = (a (.) d) (-) (b (.) c)
    OBVIOUS
  <2>2. XXMatrixDeterminant(Square(a, b, c, d)) = D
    BY <2>1, InverseOfTwo
  <2>3. QED
    BY <1>1, <2>1, <2>2 DEF XXMatrixDeterminant
<1>3. XXCrout(Square(a, b, c, d), Column(x, y)).x = XXSubstitute(lu.m, XXPermute(Column(x, y), lu.p))
  BY <1>1, <1>2 DEF XXCrout
<1>4. CASE /\ a # Zero
           /\ lu = [m |-> Square(a, b (/) a, c, d (-) (c (.) (b (/) a))), p |-> Two(0, 1),
                    det |-> a (.) (d (-) (c (.) (b (/) a)))]
  <2>1. PICK q : q = b (/) a
    OBVIOUS
  <2>2. PICK s : s = d (-) (c (.) q)
    OBVIOUS
  <2>3. lu.m = Square(a, q, c, s) /\ lu.p = Two(0, 1) /\ lu.det = a (.) s /\ lu.m.rows = 2
    BY <1>4, <2>1, <2>2, Elements
  <2>4. s # Zero
    BY <1>2, <2>3, TimesZero
  <2>5. PICK u \in Rationals, v \in Rationals :
          XXSubstitute(lu.m, Row(x, y)) = Row(u, v) /\ Solved(a, b, c, d, u, v, x, y)
    <3>1. SolvesRow(a, b, c, d, x, y, q, s)
      BY <1>4, <2>1, <2>2, <2>4, SubstitutionSolves
    <3>2. QED
      BY <2>3, <3>1 DEF SolvesRow
  <2>6. XXSubstitute(lu.m, Column(x, y)) = Column(u, v)
    BY <2>3, <2>5, SubstituteColumn
  <2>7. QED
    BY <1>3, <2>3, <2>5, <2>6, PermuteColumn
<1>5. CASE /\ c # Zero
           /\ lu = [m |-> Square(c, d (/) c, a, b (-) (a (.) (d (/) c))), p |-> Two(1, 0),
                    det |-> Neg(c) (.) (b (-) (a (.) (d (/) c)))]
  <2>1. PICK q : q = d (/) c
    OBVIOUS
  <2>2. PICK s : s = b (-) (a (.) q)
    OBVIOUS
  <2>3. lu.m = Square(c, q, a, s) /\ lu.p = Two(1, 0) /\ lu.det = Neg(c) (.) s /\ lu.m.rows = 2
    BY <1>5, <2>1, <2>2, Elements
  <2>4. s # Zero
    BY <1>2, <2>3, TimesZero, NegClosed
  <2>5. PICK u \in Rationals, v \in Rationals :
          XXSubstitute(lu.m, Row(y, x)) = Row(u, v) /\ Solved(c, d, a, b, u, v, y, x)
    <3>1. SolvesRow(c, d, a, b, y, x, q, s)
      BY <1>5, <2>1, <2>2, <2>4, SubstitutionSolves
    <3>2. QED
      BY <2>3, <3>1 DEF SolvesRow
  <2>6. XXSubstitute(lu.m, Column(y, x)) = Column(u, v)
    BY <2>3, <2>5, SubstituteColumn
  <2>7. QED
    BY <1>3, <2>3, <2>5, <2>6, PermuteColumn DEF Solved
<1>6. QED
  BY <1>1, <1>2, <1>4, <1>5, DecomposedSquare

\* A fraction with a factor on both sides.
LEMMA Extended ==
  ASSUME NEW a, NEW n, NEW d, NEW k \in Int, k # 0, Is(a, n, d)
  PROVE  Is(a, n * k, d * k)
<1>1. /\ a \in Rationals /\ a[1] \in Int /\ a[2] \in Int /\ n \in Int /\ d \in Int /\ d # 0
      /\ a[1] * d = n * a[2]
  BY NumbersOf DEF Is
<1>2. a[1] * (d * k) = (a[1] * d) * k /\ (n * a[2]) * k = (n * k) * a[2] /\ d * k # 0
  BY <1>1
<1>3. QED
  BY <1>1, <1>2 DEF Is

\* Four numbers have a common denominator.
LEMMA FourDenominators ==
  ASSUME NEW a \in Rationals, NEW b \in Rationals, NEW c \in Rationals, NEW d \in Rationals
  PROVE  \E n, m, k, l, e \in Int : Is(a, n, e) /\ Is(b, m, e) /\ Is(c, k, e) /\ Is(d, l, e)
<1>1. PICK n \in Int, m \in Int, p \in Int : Is(a, n, p) /\ Is(b, m, p)
  BY CommonDenominator
<1>2. PICK k \in Int, l \in Int, q \in Int : Is(c, k, q) /\ Is(d, l, q)
  BY CommonDenominator
<1>3. p # 0 /\ q # 0
  BY <1>1, <1>2 DEF Is
<1>4. Is(a, n * q, p * q) /\ Is(b, m * q, p * q)
  BY <1>1, <1>3, Extended
<1>5. Is(c, k * p, q * p) /\ Is(d, l * p, q * p)
  BY <1>2, <1>3, Extended
<1>6. q * p = p * q /\ n * q \in Int /\ m * q \in Int /\ k * p \in Int /\ l * p \in Int /\ p * q \in Int
  OBVIOUS
<1>7. Is(c, k * p, p * q) /\ Is(d, l * p, p * q)
  BY <1>5, <1>6
<1>8. QED
  BY <1>4, <1>6, <1>7

\* The determinant of a square matrix times itself.
SquaredLaw(a, b, c, d) ==
  (((a (.) a) (+) (b (.) c)) (.) ((c (.) b) (+) (d (.) d)))
    (-) (((a (.) b) (+) (b (.) d)) (.) ((c (.) a) (+) (d (.) c)))
  = ((a (.) d) (-) (b (.) c)) (.) ((a (.) d) (-) (b (.) c))

\* The determinant of a square is that of the matrix, squared.
LEMMA DeterminantSquared ==
  ASSUME NEW a \in Rationals, NEW b \in Rationals, NEW c \in Rationals, NEW d \in Rationals
  PROVE  SquaredLaw(a, b, c, d)
<1>1. PICK n \in Int, m \in Int, k \in Int, l \in Int, e \in Int :
        Is(a, n, e) /\ Is(b, m, e) /\ Is(c, k, e) /\ Is(d, l, e)
  BY FourDenominators
<1>2. PICK f \in Int : f = e * e
  OBVIOUS
<1>3. ASSUME NEW x, NEW y, NEW i, NEW j, Is(x, i, e), Is(y, j, e)
      PROVE  Is(x (.) y, i * j, f)
  BY <1>2, <1>3, ArithmeticIs
<1>4. /\ Is(a (.) a, n * n, f) /\ Is(b (.) c, m * k, f) /\ Is(c (.) b, k * m, f) /\ Is(d (.) d, l * l, f)
      /\ Is(a (.) b, n * m, f) /\ Is(b (.) d, m * l, f) /\ Is(c (.) a, k * n, f) /\ Is(d (.) c, l * k, f)
      /\ Is(a (.) d, n * l, f)
  BY <1>1, <1>3
<1>5. PICK p, q, r, s, t : /\ p = (a (.) a) (+) (b (.) c) /\ q = (c (.) b) (+) (d (.) d)
                           /\ r = (a (.) b) (+) (b (.) d) /\ s = (c (.) a) (+) (d (.) c)
                           /\ t = (a (.) d) (-) (b (.) c)
  OBVIOUS
<1>6. PICK P, Q, R, S, T : /\ P = (n * n) + (m * k) /\ Q = (k * m) + (l * l)
                           /\ R = (n * m) + (m * l) /\ S = (k * n) + (l * k)
                           /\ T = (n * l) - (m * k)
  OBVIOUS
<1>7. Is(p, P, f) /\ Is(q, Q, f) /\ Is(r, R, f) /\ Is(s, S, f) /\ Is(t, T, f)
  BY <1>4, <1>5, <1>6, SumIs
<1>8. Is(p (.) q, P * Q, f * f) /\ Is(r (.) s, R * S, f * f) /\ Is(t (.) t, T * T, f * f)
  BY <1>7, ArithmeticIs
<1>9. Is((p (.) q) (-) (r (.) s), (P * Q) - (R * S), f * f)
  BY <1>8, SumIs
<1>10. (P * Q) - (R * S) = T * T
  BY <1>6
<1>11. (p (.) q) (-) (r (.) s) = t (.) t
  BY <1>8, <1>9, <1>10, IsOneNumber
<1>12. QED
  BY <1>5, <1>11 DEF SquaredLaw

\* A row made a column.
LEMMA RowTurned ==
  ASSUME NEW e, NEW f, NEW g, NEW h
  PROVE  XXMatrixTranspose(2, 1, XXMatrixGetRow(Square(e, f, g, h), 0)) = Column(e, f)
<1>1. XXMatrixGetRow(Square(e, f, g, h), 0) = Row(e, f)
  BY RangesOfTwo DEF XXMatrixGetRow, Matrix, Square, Four, Row, Two
<1>2. XXMatrixTranspose(2, 1, Row(e, f)) = Column(e, f)
  BY RangesOfTwo DEF XXMatrixTranspose, Matrix, Row, Column, Two
<1>3. QED
  BY <1>1, <1>2

\* The power of two turns.
LEMMA PowerOfTwo ==
  ASSUME NEW A, A.rows = 2, A.columns = 2, NEW D
  PROVE  LET P == XXMatrixMul(2, 2, XXMatrixMul(2, 2, XXMatrixEye(2), A), A)
         IN  XXMatrixPow(D, A, -2) = XXMatrixInverse(P, P)
<1> DEFINE Step(m, i) == XXMatrixMul(2, 2, m, A)
           start == XXMatrixEye(2)
           Solves(f) == f = [k \in 0 .. 2 |-> IF k = 0 THEN start ELSE Step(f[k - 1], k - 1)]
           F == [k \in 0 .. 2 |-> IF k = 0 THEN start ELSE IF k = 1 THEN Step(start, 0) ELSE Step(Step(start, 0), 1)]
           g == CHOOSE f : Solves(f)
<1>1. XXMatrixPow(D, A, -2) = XXMatrixInverse(g[2], g[2])
  <2>1. Magnitude(-2) = 2 /\ -2 < 0
    <3>1. PICK n \in Nat : n = 2
      OBVIOUS
    <3>2. Magnitude(-n) = n
      <4>1. \A k \in Nat : Magnitude(-k) = k
        BY DEF Magnitude
      <4>2. QED
        BY <4>1
    <3>3. -n < 0
      BY <3>1
    <3>4. QED
      BY <3>1, <3>2, <3>3
  <2>2. QED
    BY <2>1 DEF XXMatrixPow, Loop
<1> HIDE DEF Step, start
<1>2. Solves(F)
  OBVIOUS
<1>3. Solves(g)
  <2> HIDE DEF F, Solves
  <2>1. QED
    BY <1>2
<1> HIDE DEF g
<1>4. g[2] = Step(Step(start, 0), 1)
  BY <1>3
<1>5. QED
  BY <1>1, <1>4 DEF Step, start

\* The unit matrix times another.
LEMMA UnitTimes ==
  ASSUME NEW a \in Rationals, NEW b \in Rationals, NEW c \in Rationals, NEW d \in Rationals
  PROVE  XXMatrixMul(2, 2, XXMatrixEye(2), Square(a, b, c, d)) = Square(a, b, c, d)
<1>1. XXMatrixEye(2) = Square(One, Zero, Zero, One)
  BY Squares
<1>2. SquaresMultiply(One, Zero, Zero, One, a, b, c, d)
  BY MultiplySquares, TimesOne, PlusZero
<1>3. /\ \A x \in Rationals : One (.) x = x /\ Zero (.) x = Zero
      /\ \A x \in Rationals : x (+) Zero = x /\ Zero (+) x = x
  BY TimesOne, TimesZero, PlusZero, ProductCommutes, SumCommutes
<1>4. Square((One (.) a) (+) (Zero (.) c), (One (.) b) (+) (Zero (.) d),
             (Zero (.) a) (+) (One (.) c), (Zero (.) b) (+) (One (.) d)) = Square(a, b, c, d)
  BY <1>3
<1>5. QED
  BY <1>1, <1>2, <1>4, Elements DEF SquaresMultiply, Product

\* The library on matrices of two rows, as the plant uses it: the determinant is the sum
\* over the orders of the columns, the halves of a matrix add up to it, the inverse and
\* the divisions undo the product, and so do a single vector that is solved for and a
\* negative power (common/xxinverse.cpp; common/xxmatrix.cpp, XXMatrixSym, XXMatrixAsym,
\* XXMatrixPow).
THEOREM SquaresFit ==
  ASSUME NEW a \in Rationals, NEW b \in Rationals, NEW c \in Rationals, NEW d \in Rationals,
         NEW e \in Rationals, NEW f \in Rationals, NEW g \in Rationals, NEW h \in Rationals
  PROVE  SquareLaw(Square(a, b, c, d), Square(e, f, g, h))
<1>1. PICK A, B : A = Square(a, b, c, d) /\ B = Square(e, f, g, h)
  OBVIOUS
<1>2. PICK D : D = (a (.) d) (-) (b (.) c)
  OBVIOUS
<1>3. A.rows = 2 /\ A.columns = 2
  BY <1>1, Elements
<1>4. XXMatrixDeterminant(A) = D
  BY <1>1, <1>2, InverseOfTwo
<1>5. D = Leibniz(A)
  BY <1>1, <1>2, LeibnizOfTwo
<1>6. XXMatrixAdd(XXMatrixSym(A), XXMatrixAsym(A)) = A /\ XXMatrixTrace(XXMatrixAsym(A)) = Zero
  BY <1>1, PartsOfSquare
<1>7. InverseLaw(A, B)
  BY <1>1, InverseInverts
<1>8. XXMatrixTranspose(2, 1, XXMatrixGetRow(B, 0)) = Column(e, f)
  BY <1>1, RowTurned
<1>9. ASSUME D # Zero
      PROVE  Product(A, [XXCrout(A, Column(e, f)).x EXCEPT !.rows = 2, !.columns = 1]) = Column(e, f)
  <2>1. PICK u \in Rationals, v \in Rationals :
          XXCrout(A, Column(e, f)).x = Column(u, v) /\ Solved(a, b, c, d, u, v, e, f)
    BY <1>1, <1>2, <1>9, CroutSolves
  <2>2. [Column(u, v) EXCEPT !.rows = 2, !.columns = 1] = Column(u, v)
    <3> DEFINE X == [Column(u, v) EXCEPT !.rows = 2]
    <3>1. X = Column(u, v)
      BY DEF Column
    <3>2. [Column(u, v) EXCEPT !.rows = 2, !.columns = 1] = [X EXCEPT !.columns = 1]
      BY Zenon
    <3> HIDE DEF X
    <3>3. [Column(u, v) EXCEPT !.columns = 1] = Column(u, v)
      BY DEF Column
    <3>4. QED
      BY <3>1, <3>2, <3>3
  <2>3. Product(A, Column(u, v)) = Column((a (.) u) (+) (b (.) v), (c (.) u) (+) (d (.) v))
    <3>1. Column(u, v).columns = 1
      BY Elements
    <3>2. Product(A, Column(u, v)) = XXMatrixMul(2, 1, A, Column(u, v))
      BY <1>3, <3>1 DEF Product
    <3>3. XXMatrixMul(2, 1, A, Column(u, v)) = Column((a (.) u) (+) (b (.) v), (c (.) u) (+) (d (.) v))
      <4>1. Multiplies(a, b, c, d, u, v)
        BY MultiplyColumn
      <4>2. QED
        BY <1>1, <4>1 DEF Multiplies
    <3>4. QED
      BY <3>2, <3>3
  <2>4. QED
    BY <2>1, <2>2, <2>3 DEF Solved
<1>10. ASSUME D # Zero
       PROVE  Times3(A, A, XXMatrixPow(B, A, -2)) = Identity(2)
  <2>1. PICK p \in Rationals, q \in Rationals, r \in Rationals, s \in Rationals :
          /\ p = (a (.) a) (+) (b (.) c) /\ q = (a (.) b) (+) (b (.) d)
          /\ r = (c (.) a) (+) (d (.) c) /\ s = (c (.) b) (+) (d (.) d)
    BY ProductClosed, SumClosed
  <2>2. PICK P : P = Square(p, q, r, s)
    OBVIOUS
  <2>3. XXMatrixMul(2, 2, A, A) = P
    <3>1. SquaresMultiply(a, b, c, d, a, b, c, d)
      BY MultiplySquares
    <3>2. QED
      BY <1>1, <1>3, <2>1, <2>2, <3>1 DEF SquaresMultiply, Product
  <2>4. XXMatrixPow(B, A, -2) = XXMatrixInverse(P, P)
    <3>1. XXMatrixMul(2, 2, XXMatrixEye(2), A) = A
      BY <1>1, UnitTimes
    <3>2. QED
      BY <1>3, <2>3, <3>1, PowerOfTwo
  <2>5. XXMatrixDeterminant(P) # Zero
    <3>1. D \in Rationals
      BY <1>2, ProductClosed, MinusClosed
    <3>2. (p (.) s) (-) (q (.) r) = D (.) D
      <4>1. SquaredLaw(a, b, c, d)
        BY DeterminantSquared
      <4>2. QED
        BY <1>2, <2>1, <4>1 DEF SquaredLaw
    <3>3. XXMatrixDeterminant(P) = (p (.) s) (-) (q (.) r)
      <4>1. PICK E : E = (p (.) s) (-) (q (.) r)
        OBVIOUS
      <4>2. QED
        BY <2>2, <4>1, InverseOfTwo
    <3>4. QED
      BY <1>10, <3>1, <3>2, <3>3, NoZeroDivisors
  <2>6. Product(P, XXMatrixInverse(P, P)) = Identity(2)
    <3>1. InverseLaw(P, P) /\ P.rows = 2
      <4>1. InverseLaw(P, P)
        BY <2>2, InverseInverts
      <4>2. P.rows = 2
        BY <2>2, Elements
      <4>3. QED
        BY <4>1, <4>2
    <3>2. QED
      BY <2>5, <3>1 DEF InverseLaw
  <2>7. P.rows = 2 /\ XXMatrixInverse(P, P).columns = 2
    <3>1. PICK E : E = (p (.) s) (-) (q (.) r)
      OBVIOUS
    <3>2. XXInverse(P, P) = [mat |-> IF E = Zero THEN P ELSE Adjugate(p, q, r, s, E), det |-> E]
      BY <2>2, <3>1, InverseOfTwo
    <3>3. P.columns = 2 /\ P.rows = 2 /\ Adjugate(p, q, r, s, E).columns = 2
      BY <2>2, Elements DEF Adjugate
    <3>4. QED
      BY <3>2, <3>3 DEF XXMatrixInverse
  <2>8. QED
    BY <1>3, <2>3, <2>4, <2>6, <2>7 DEF Times3, Product
<1>11. QED
  BY <1>1, <1>3, <1>4, <1>5, <1>6, <1>7, <1>8, <1>9, <1>10 DEF SquareLaw

-----------------------------------------------------------------------------
(***************************************************************************)
(* Chains of integrators.                                                  *)
(***************************************************************************)

\* The sum of the products of two rows of numbers, the second read backwards.
Convolved(s, p, i) == SumOver(0 .. i, LAMBDA k : s[k] (.) p[i - k])

\* The sum taken apart from its last term on.
LEMMA ConvolvedTerms ==
  ASSUME NEW i \in Nat, NEW s, NEW p, \A k \in 0 .. i : s[k] \in Rationals /\ p[k] \in Rationals
  PROVE  \E f : /\ Convolved(s, p, i) = f[0 .. i] /\ f[{}] = Zero
                /\ \A j \in 0 .. i : f[0 .. j] = (s[j] (.) p[i - j]) (+) f[0 .. j - 1]
<1> DEFINE S == 0 .. i
           Term(k) == s[k] (.) p[i - k]
           t == [k \in S |-> Term(k)]
           Chosen(f) == f = [r \in SUBSET S |-> IF r = {} THEN Zero ELSE Term(FirstOf(r)) (+) f[r \ {FirstOf(r)}]]
           g == CHOOSE f : Chosen(f)
<1>1. Convolved(s, p, i) = g[S]
  BY DEF Convolved, SumOver, MapThenFoldSet, FirstOf
<1>2. \A x \in S : i - x \in S
  OBVIOUS
<1>3. \A x \in S : t[x] = Term(x) /\ t[x] \in Rationals
  BY <1>2, ProductClosed
<1>4. IsFiniteSet(S)
  BY FS_Interval
<1>5. \A r \in SUBSET S : r # {} => FirstOf(r) \in S
  BY DEF FirstOf
<1> HIDE DEF Term, t, S
<1>6. \A f : AddsUp(S, t, f) <=> Chosen(f)
  <2>1. ASSUME NEW f
        PROVE  [r \in SUBSET S |-> IF r = {} THEN Zero ELSE t[FirstOf(r)] (+) f[r \ {FirstOf(r)}]]
                 = [r \in SUBSET S |-> IF r = {} THEN Zero ELSE Term(FirstOf(r)) (+) f[r \ {FirstOf(r)}]]
    BY <1>3, <1>5
  <2>2. QED
    BY <2>1 DEF AddsUp
<1>7. AddsUp(S, t, g)
  <2>1. PICK h : Chosen(h)
    BY <1>4, <1>6, SumExists
  <2> HIDE DEF Chosen
  <2>2. Chosen(g)
    BY <2>1
  <2>3. QED
    BY <1>6, <2>2
<1> HIDE DEF g
<1>8. g[{}] = Zero /\ \A r \in SUBSET S : \A x \in r : g[r] = t[x] (+) g[r \ {x}]
  BY <1>3, <1>4, <1>7, AmountIs
<1>9. ASSUME NEW j \in 0 .. i PROVE g[0 .. j] = Term(j) (+) g[0 .. j - 1]
  <2>1. 0 .. j \in SUBSET S /\ j \in 0 .. j /\ (0 .. j) \ {j} = 0 .. j - 1 /\ j \in S
    BY DEF S
  <2>2. QED
    BY <1>3, <1>8, <2>1
<1>10. QED
  BY <1>1, <1>8, <1>9 DEF S, Term

\* The sum of up to four terms.
LEMMA ConvolvedIs ==
  ASSUME NEW i \in 0 .. 3, NEW s, NEW p, \A k \in 0 .. i : s[k] \in Rationals /\ p[k] \in Rationals
  PROVE  /\ i = 0 => Convolved(s, p, i) = (s[0] (.) p[0]) (+) Zero
         /\ i = 1 => Convolved(s, p, i) = (s[1] (.) p[0]) (+) ((s[0] (.) p[1]) (+) Zero)
         /\ i = 2 => Convolved(s, p, i) = (s[2] (.) p[0]) (+) ((s[1] (.) p[1]) (+) ((s[0] (.) p[2]) (+) Zero))
         /\ i = 3 => Convolved(s, p, i)
                       = (s[3] (.) p[0]) (+) ((s[2] (.) p[1]) (+) ((s[1] (.) p[2]) (+) ((s[0] (.) p[3]) (+) Zero)))
<1>1. PICK f : /\ Convolved(s, p, i) = f[0 .. i] /\ f[{}] = Zero
               /\ \A j \in 0 .. i : f[0 .. j] = (s[j] (.) p[i - j]) (+) f[0 .. j - 1]
  BY ConvolvedTerms
<1>2. 0 .. 0 - 1 = {} /\ 0 \in 0 .. i
  OBVIOUS
<1>3. f[0 .. 0] = (s[0] (.) p[i - 0]) (+) Zero
  BY <1>1, <1>2
<1>4. CASE i = 0
  <2>1. i - 0 = 0
    BY <1>4
  <2>2. QED
    BY <1>1, <1>3, <1>4, <2>1
<1>5. CASE i = 1
  <2>1. i - 0 = 1 /\ i - 1 = 0 /\ 1 \in 0 .. i /\ 1 - 1 = 0
    BY <1>5
  <2>2. f[0 .. 1] = (s[1] (.) p[0]) (+) f[0 .. 0]
    BY <1>1, <2>1
  <2>3. QED
    BY <1>1, <1>3, <1>5, <2>1, <2>2
<1>6. CASE i = 2
  <2>1. i - 0 = 2 /\ i - 1 = 1 /\ i - 2 = 0 /\ 1 \in 0 .. i /\ 2 \in 0 .. i /\ 2 - 1 = 1 /\ 1 - 1 = 0
    BY <1>6
  <2>2. f[0 .. 1] = (s[1] (.) p[1]) (+) f[0 .. 0] /\ f[0 .. 2] = (s[2] (.) p[0]) (+) f[0 .. 1]
    BY <1>1, <2>1
  <2>3. QED
    BY <1>1, <1>3, <1>6, <2>1, <2>2
<1>7. CASE i = 3
  <2>1. /\ i - 0 = 3 /\ i - 1 = 2 /\ i - 2 = 1 /\ i - 3 = 0
        /\ 1 \in 0 .. i /\ 2 \in 0 .. i /\ 3 \in 0 .. i /\ 3 - 1 = 2 /\ 2 - 1 = 1 /\ 1 - 1 = 0
    BY <1>7
  <2>2. /\ f[0 .. 1] = (s[1] (.) p[2]) (+) f[0 .. 0] /\ f[0 .. 2] = (s[2] (.) p[1]) (+) f[0 .. 1]
        /\ f[0 .. 3] = (s[3] (.) p[0]) (+) f[0 .. 2]
    BY <1>1, <2>1
  <2>3. QED
    BY <1>1, <1>3, <1>7, <2>1, <2>2
<1>8. QED
  BY <1>4, <1>5, <1>6, <1>7

\* The powers of h, each divided by its factorial.
Divided(k, h) ==
  IF k = 0 THEN One ELSE IF k = 1 THEN (One (.) h) (/) Whole(1)
  ELSE IF k = 2 THEN (((One (.) h) (/) Whole(1)) (.) h) (/) Whole(2)
  ELSE IF k = 3 THEN (((((One (.) h) (/) Whole(1)) (.) h) (/) Whole(2)) (.) h) (/) Whole(3)
  ELSE (((((((One (.) h) (/) Whole(1)) (.) h) (/) Whole(2)) (.) h) (/) Whole(3)) (.) h) (/) Whole(4)

\* The recursive definition of these powers, unfolded.
LEMMA DividedIs ==
  ASSUME NEW n \in 1 .. 4, NEW h,
         NEW Power, Power = CHOOSE f : f = [k \in 0 .. n |-> IF k = 0 THEN One ELSE (f[k - 1] (.) h) (/) Whole(k)]
  PROVE  \A k \in 0 .. n : Power[k] = Divided(k, h)
<1> DEFINE Link(f, k) == IF k = 0 THEN One ELSE (f[k - 1] (.) h) (/) Whole(k)
           Solves(f) == f = [k \in 0 .. n |-> Link(f, k)]
           F == [k \in 0 .. n |-> Divided(k, h)]
<1>1. Solves(F)
  <2>1. ASSUME NEW k \in 0 .. n PROVE F[k] = Link(F, k)
    <3>1. k = 0 \/ (k = 1 /\ k - 1 = 0) \/ (k = 2 /\ k - 1 = 1) \/ (k = 3 /\ k - 1 = 2) \/ (k = 4 /\ k - 1 = 3)
      OBVIOUS
    <3>2. k # 0 => k - 1 \in 0 .. n
      OBVIOUS
    <3>3. F[k] = Divided(k, h) /\ (k # 0 => F[k - 1] = Divided(k - 1, h))
      BY <3>2
    <3> HIDE DEF F
    <3>4. QED
      BY <3>1, <3>3 DEF Divided
  <2>2. QED
    BY <2>1
<1>2. Solves(Power)
  <2> HIDE DEF F
  <2>1. \E f : Solves(f)
    BY <1>1
  <2>2. QED
    BY <2>1
<1>3. \A k \in 0 .. n : Power[k] = Link(Power, k)
  BY <1>2
<1>4. Power[0] = Divided(0, h)
  BY <1>3 DEF Divided
<1>5. n >= 1 => Power[1] = Divided(1, h)
  BY <1>3, <1>4 DEF Divided
<1>6. n >= 2 => Power[2] = Divided(2, h)
  BY <1>3, <1>5 DEF Divided
<1>7. n >= 3 => Power[3] = Divided(3, h)
  BY <1>3, <1>6 DEF Divided
<1>8. n >= 4 => Power[4] = Divided(4, h)
  BY <1>3, <1>7 DEF Divided
<1>9. QED
  BY <1>4, <1>5, <1>6, <1>7, <1>8

\* The methods for the chain compute with the same numbers.
LEMMA SameNumbersOfChain ==
  /\ \A n : Chain!Whole(n) = Whole(n)
  /\ \A n, d : Chain!Ratio(n, d) = Ratio(n, d)
  /\ \A a, b : Chain!\oplus(a, b) = a (+) b
  /\ \A a, b : Chain!\odot(a, b) = a (.) b
<1>1. Chain!Gcd = Gcd
  BY DEF Chain!Gcd, Gcd
<1>2. \A n, d : Chain!Ratio(n, d) = Ratio(n, d)
  BY <1>1 DEF Chain!Ratio, Ratio, Chain!Magnitude, Magnitude
<1>3. QED
  BY <1>2 DEF Chain!Whole, Whole, Chain!\oplus, \oplus, Chain!\odot, \odot

\* The rate of integrator i of the chain, the changes of the stages of a step and the
\* state after a step of each method.
RateOf(s, i) == IF i = 0 THEN One ELSE s[i - 1]
Stage1(s, h, i) == RateOf(s, i) (.) h
Stage2(s, h, i) == (IF i = 0 THEN One ELSE s[i - 1] (+) (Stage1(s, h, i - 1) (.) Ratio(1, 2))) (.) h
Stage3(s, h, i) == (IF i = 0 THEN One ELSE s[i - 1] (+) (Stage2(s, h, i - 1) (.) Ratio(1, 2))) (.) h
Stage4(s, h, i) == (IF i = 0 THEN One ELSE s[i - 1] (+) Stage3(s, h, i - 1)) (.) h
Weighed(s, h, i) ==
  ((Stage1(s, h, i) (+) Stage4(s, h, i)) (+) ((Stage2(s, h, i) (+) Stage3(s, h, i)) (.) Whole(2))) (.) Ratio(1, 6)
Halfway(s, h, i) == (IF i = 0 THEN One ELSE s[i - 1] (+) (RateOf(s, i - 1) (.) (Ratio(1, 2) (.) h))) (.) h

\* What the vector operations do for a chain.
LEMMA TimesOfChain == \A p, k : Chain!Times(p, k) = [i \in DOMAIN p |-> p[i] (.) k]
BY SameNumbersOfChain DEF Chain!Times

\* Two vectors added.
LEMMA PlusOfChain == \A v, w : Chain!Plus(v, w) = [i \in DOMAIN v |-> v[i] (+) w[i]]
BY SameNumbersOfChain DEF Chain!Plus

\* The rates of a chain.
LEMMA RatesOfChain == \A v, t : ChainRates(<<>>, v, t) = [i \in DOMAIN v |-> RateOf(v, i)]
BY DEF ChainRates, RateOf

\* A stage of a method: the rates after a change p of the states, times the step.
LEMMA StageOfChain ==
  \A s, p, h, t : DOMAIN p = DOMAIN s /\ (\A i \in DOMAIN s : i = 0 \/ i - 1 \in DOMAIN s) =>
    Chain!Times(ChainRates(<<>>, Chain!Plus(s, p), t), h)
      = [i \in DOMAIN s |-> (IF i = 0 THEN One ELSE s[i - 1] (+) p[i - 1]) (.) h]
<1>1. ASSUME NEW s, NEW p, NEW h, NEW t, DOMAIN p = DOMAIN s, \A i \in DOMAIN s : i = 0 \/ i - 1 \in DOMAIN s
      PROVE  Chain!Times(ChainRates(<<>>, Chain!Plus(s, p), t), h)
               = [i \in DOMAIN s |-> (IF i = 0 THEN One ELSE s[i - 1] (+) p[i - 1]) (.) h]
  <2> DEFINE N == DOMAIN s
             v == Chain!Plus(s, p)
             r == ChainRates(<<>>, v, t)
  <2>1. v = [i \in N |-> s[i] (+) p[i]]
    BY PlusOfChain
  <2> HIDE DEF v
  <2>2. r = [i \in N |-> IF i = 0 THEN One ELSE v[i - 1]]
    BY <2>1 DEF ChainRates
  <2> HIDE DEF r
  <2>3. Chain!Times(r, h) = [i \in N |-> r[i] (.) h]
    BY <2>2, TimesOfChain
  <2>4. ASSUME NEW i \in N
        PROVE  r[i] (.) h = (IF i = 0 THEN One ELSE s[i - 1] (+) p[i - 1]) (.) h
    BY <1>1, <2>1, <2>2
  <2>5. [i \in N |-> r[i] (.) h] = [i \in N |-> (IF i = 0 THEN One ELSE s[i - 1] (+) p[i - 1]) (.) h]
    BY <2>4
  <2>6. QED
    BY <2>3, <2>5 DEF v, r
<1>2. QED
  BY <1>1

\* The states after a step of the fourth order.
LEMMA ChainInFour ==
  ASSUME NEW n \in Nat, NEW s, DOMAIN s = 0 .. n - 1, NEW h
  PROVE  LET after == [i \in 0 .. n - 1 |-> s[i] (+) Weighed(s, h, i)]
             next == Chain!RungeKutta4(Chain!Evaluated(<<>>, s, Zero), h)
         IN  next.s = after /\ next.time = Zero (+) h /\ next.R = ChainRates(<<>>, after, Zero (+) h)
<1> DEFINE N == 0 .. n - 1
           half == Ratio(1, 2)
           m == Chain!Evaluated(<<>>, s, Zero)
           middle == Zero (+) (half (.) h)
           last == Zero (+) h
           q1 == Chain!Times(m.R, h)
           q2 == Chain!Times(ChainRates(<<>>, Chain!Plus(m.s, Chain!Times(q1, half)), middle), h)
           q3 == Chain!Times(ChainRates(<<>>, Chain!Plus(m.s, Chain!Times(q2, half)), middle), h)
           q4 == Chain!Times(ChainRates(<<>>, Chain!Plus(m.s, q3), last), h)
           all == Chain!Plus(Chain!Plus(q1, q4), Chain!Times(Chain!Plus(q2, q3), Whole(2)))
           after == Chain!Plus(m.s, Chain!Times(all, Ratio(1, 6)))
<1>1. DOMAIN s = N /\ \A i \in DOMAIN s : i = 0 \/ i - 1 \in DOMAIN s
  OBVIOUS
<1>2. m.u = <<>> /\ m.s = s /\ m.time = Zero /\ m.R = ChainRates(<<>>, s, Zero)
  BY DEF Chain!Evaluated
<1> HIDE DEF m
<1>3. /\ Chain!RungeKutta4(m, h).s = after /\ Chain!RungeKutta4(m, h).time = last
      /\ Chain!RungeKutta4(m, h).R = ChainRates(<<>>, after, last)
  <2>1. /\ Chain!\oplus(m.time, Chain!\odot(Chain!Half, h)) = middle /\ Chain!\oplus(m.time, h) = last
        /\ Chain!Half = half /\ Chain!Whole(2) = Whole(2) /\ Chain!Ratio(1, 6) = Ratio(1, 6)
    BY <1>2, SameNumbersOfChain DEF Chain!Half
  <2> HIDE DEF middle, last, half
  <2>2. QED
    BY <1>2, <2>1 DEF Chain!RungeKutta4, Chain!Evaluated
<1> HIDE DEF middle, last
<1>4. q1 = [i \in N |-> Stage1(s, h, i)]
  <2>1. m.R = [i \in N |-> RateOf(s, i)]
    BY <1>1, <1>2, TimesOfChain, PlusOfChain, RatesOfChain
  <2>2. Chain!Times(m.R, h) = [i \in N |-> m.R[i] (.) h]
    BY <2>1, TimesOfChain, PlusOfChain, RatesOfChain
  <2>3. QED
    BY <2>1, <2>2 DEF Stage1
<1> HIDE DEF q1
<1>5. q2 = [i \in N |-> Stage2(s, h, i)]
  <2> DEFINE p == Chain!Times(q1, half)
  <2>1. p = [i \in N |-> Stage1(s, h, i) (.) half]
    <3>1. p = [i \in N |-> q1[i] (.) half]
      BY <1>4, TimesOfChain, PlusOfChain, RatesOfChain
    <3>2. QED
      BY <1>4, <3>1
  <2> HIDE DEF p
  <2>2. Chain!Times(ChainRates(<<>>, Chain!Plus(s, p), middle), h)
          = [i \in N |-> (IF i = 0 THEN One ELSE s[i - 1] (+) p[i - 1]) (.) h]
    <3>1. DOMAIN p = DOMAIN s
      BY <1>1, <2>1
    <3> HIDE DEF N
    <3>2. Chain!Times(ChainRates(<<>>, Chain!Plus(s, p), middle), h)
            = [i \in DOMAIN s |-> (IF i = 0 THEN One ELSE s[i - 1] (+) p[i - 1]) (.) h]
      BY <1>1, <3>1, StageOfChain
    <3>3. QED
      BY <1>1, <3>2
  <2>3. ASSUME NEW i \in N
        PROVE  (IF i = 0 THEN One ELSE s[i - 1] (+) p[i - 1]) (.) h = Stage2(s, h, i)
    <3>1. i # 0 => i - 1 \in N
      OBVIOUS
    <3>2. i # 0 => p[i - 1] = Stage1(s, h, i - 1) (.) half
      BY <2>1, <3>1
    <3>3. QED
      BY <3>2 DEF Stage2
  <2>4. QED
    BY <1>2, <2>2, <2>3 DEF p
<1> HIDE DEF q2
<1>6. q3 = [i \in N |-> Stage3(s, h, i)]
  <2> DEFINE p == Chain!Times(q2, half)
  <2>1. p = [i \in N |-> Stage2(s, h, i) (.) half]
    <3>1. p = [i \in N |-> q2[i] (.) half]
      BY <1>5, TimesOfChain, PlusOfChain, RatesOfChain
    <3>2. QED
      BY <1>5, <3>1
  <2> HIDE DEF p
  <2>2. Chain!Times(ChainRates(<<>>, Chain!Plus(s, p), middle), h)
          = [i \in N |-> (IF i = 0 THEN One ELSE s[i - 1] (+) p[i - 1]) (.) h]
    <3>1. DOMAIN p = DOMAIN s
      BY <1>1, <2>1
    <3> HIDE DEF N
    <3>2. Chain!Times(ChainRates(<<>>, Chain!Plus(s, p), middle), h)
            = [i \in DOMAIN s |-> (IF i = 0 THEN One ELSE s[i - 1] (+) p[i - 1]) (.) h]
      BY <1>1, <3>1, StageOfChain
    <3>3. QED
      BY <1>1, <3>2
  <2>3. ASSUME NEW i \in N
        PROVE  (IF i = 0 THEN One ELSE s[i - 1] (+) p[i - 1]) (.) h = Stage3(s, h, i)
    <3>1. i # 0 => i - 1 \in N
      OBVIOUS
    <3>2. i # 0 => p[i - 1] = Stage2(s, h, i - 1) (.) half
      BY <2>1, <3>1
    <3>3. QED
      BY <3>2 DEF Stage3
  <2>4. QED
    BY <1>2, <2>2, <2>3 DEF p
<1> HIDE DEF q3
<1>7. q4 = [i \in N |-> Stage4(s, h, i)]
  <2>1. Chain!Times(ChainRates(<<>>, Chain!Plus(s, q3), last), h)
          = [i \in N |-> (IF i = 0 THEN One ELSE s[i - 1] (+) q3[i - 1]) (.) h]
    <3>1. DOMAIN q3 = DOMAIN s
      BY <1>1, <1>6
    <3> HIDE DEF N
    <3>2. Chain!Times(ChainRates(<<>>, Chain!Plus(s, q3), last), h)
            = [i \in DOMAIN s |-> (IF i = 0 THEN One ELSE s[i - 1] (+) q3[i - 1]) (.) h]
      BY <1>1, <3>1, StageOfChain
    <3>3. QED
      BY <1>1, <3>2
  <2>2. ASSUME NEW i \in N
        PROVE  (IF i = 0 THEN One ELSE s[i - 1] (+) q3[i - 1]) (.) h = Stage4(s, h, i)
    <3>1. i # 0 => i - 1 \in N
      OBVIOUS
    <3>2. i # 0 => q3[i - 1] = Stage3(s, h, i - 1)
      BY <1>6, <3>1
    <3>3. QED
      BY <3>2 DEF Stage4
  <2>3. QED
    BY <1>2, <2>1, <2>2
<1> HIDE DEF q4
<1>8. Chain!Times(all, Ratio(1, 6)) = [i \in N |-> Weighed(s, h, i)]
  <2> DEFINE v == Chain!Plus(q1, q4)
             w == Chain!Plus(q2, q3)
             x == Chain!Times(w, Whole(2))
             y == Chain!Plus(v, x)
  <2>1. v = [i \in N |-> Stage1(s, h, i) (+) Stage4(s, h, i)]
    <3>1. v = [i \in N |-> q1[i] (+) q4[i]]
      BY <1>4, <1>7, TimesOfChain, PlusOfChain, RatesOfChain
    <3>2. QED
      BY <1>4, <1>7, <3>1
  <2>2. w = [i \in N |-> Stage2(s, h, i) (+) Stage3(s, h, i)]
    <3>1. w = [i \in N |-> q2[i] (+) q3[i]]
      BY <1>5, <1>6, TimesOfChain, PlusOfChain, RatesOfChain
    <3>2. QED
      BY <1>5, <1>6, <3>1
  <2> HIDE DEF v, w
  <2>3. x = [i \in N |-> (Stage2(s, h, i) (+) Stage3(s, h, i)) (.) Whole(2)]
    <3>1. x = [i \in N |-> w[i] (.) Whole(2)]
      BY <2>2, TimesOfChain, PlusOfChain, RatesOfChain
    <3>2. QED
      BY <2>2, <3>1
  <2> HIDE DEF x
  <2>4. y = [i \in N |-> v[i] (+) x[i]]
    BY <2>1, <2>3, TimesOfChain, PlusOfChain, RatesOfChain
  <2> HIDE DEF y
  <2>5. Chain!Times(y, Ratio(1, 6)) = [i \in N |-> y[i] (.) Ratio(1, 6)]
    BY <2>4, TimesOfChain, PlusOfChain, RatesOfChain
  <2>6. ASSUME NEW i \in N PROVE y[i] (.) Ratio(1, 6) = Weighed(s, h, i)
    BY <2>1, <2>3, <2>4 DEF Weighed
  <2>7. all = y
    BY DEF y, x, w, v
  <2>8. QED
    BY <2>5, <2>6, <2>7
<1> HIDE DEF all
<1>9. after = [i \in N |-> s[i] (+) Weighed(s, h, i)]
  <2> DEFINE p == Chain!Times(all, Ratio(1, 6))
  <2> HIDE DEF p
  <2>1. p = [i \in N |-> Weighed(s, h, i)]
    BY <1>8 DEF p
  <2>2. Chain!Plus(s, p) = [i \in N |-> s[i] (+) p[i]]
    BY <1>1, <2>1, TimesOfChain, PlusOfChain, RatesOfChain
  <2>3. QED
    BY <1>2, <2>1, <2>2 DEF p
<1>10. QED
  BY <1>3, <1>9 DEF m, last

\* The states after a step of the second order.
LEMMA ChainInTwo ==
  ASSUME NEW n \in Nat, NEW s, DOMAIN s = 0 .. n - 1, NEW h
  PROVE  LET after == [i \in 0 .. n - 1 |-> s[i] (+) Halfway(s, h, i)]
             next == Chain!RungeKutta2(Chain!Evaluated(<<>>, s, Zero), h)
         IN  next.s = after /\ next.time = Zero (+) h /\ next.R = ChainRates(<<>>, after, Zero (+) h)
<1> DEFINE N == 0 .. n - 1
           half == Ratio(1, 2) (.) h
           m == Chain!Evaluated(<<>>, s, Zero)
           middle == Zero (+) half
           last == Zero (+) h
           q == Chain!Times(ChainRates(<<>>, Chain!Plus(m.s, Chain!Times(m.R, half)), middle), h)
           after == Chain!Plus(m.s, q)
<1>1. DOMAIN s = N /\ \A i \in DOMAIN s : i = 0 \/ i - 1 \in DOMAIN s
  OBVIOUS
<1>2. m.u = <<>> /\ m.s = s /\ m.time = Zero /\ m.R = ChainRates(<<>>, s, Zero)
  BY DEF Chain!Evaluated
<1> HIDE DEF m
<1>3. /\ Chain!RungeKutta2(m, h).s = after /\ Chain!RungeKutta2(m, h).time = last
      /\ Chain!RungeKutta2(m, h).R = ChainRates(<<>>, after, last)
  <2>1. /\ Chain!\odot(Chain!Half, h) = half /\ Chain!\oplus(m.time, half) = middle /\ Chain!\oplus(m.time, h) = last
    BY <1>2, SameNumbersOfChain DEF Chain!Half
  <2> HIDE DEF middle, last, half
  <2>2. QED
    BY <1>2, <2>1 DEF Chain!RungeKutta2, Chain!Evaluated
<1> HIDE DEF middle, last, half
<1>4. m.R = [i \in N |-> RateOf(s, i)]
  BY <1>1, <1>2, RatesOfChain
<1>5. q = [i \in N |-> Halfway(s, h, i)]
  <2> DEFINE p == Chain!Times(m.R, half)
  <2>1. p = [i \in N |-> RateOf(s, i) (.) half]
    <3>1. p = [i \in N |-> m.R[i] (.) half]
      BY <1>4, TimesOfChain
    <3>2. QED
      BY <1>4, <3>1
  <2> HIDE DEF p
  <2>2. Chain!Times(ChainRates(<<>>, Chain!Plus(s, p), middle), h)
          = [i \in N |-> (IF i = 0 THEN One ELSE s[i - 1] (+) p[i - 1]) (.) h]
    <3>1. DOMAIN p = DOMAIN s
      BY <1>1, <2>1
    <3> HIDE DEF N
    <3>2. Chain!Times(ChainRates(<<>>, Chain!Plus(s, p), middle), h)
            = [i \in DOMAIN s |-> (IF i = 0 THEN One ELSE s[i - 1] (+) p[i - 1]) (.) h]
      BY <1>1, <3>1, StageOfChain
    <3>3. QED
      BY <1>1, <3>2
  <2>3. ASSUME NEW i \in N
        PROVE  (IF i = 0 THEN One ELSE s[i - 1] (+) p[i - 1]) (.) h = Halfway(s, h, i)
    <3>1. i # 0 => i - 1 \in N
      OBVIOUS
    <3>2. i # 0 => p[i - 1] = RateOf(s, i - 1) (.) half
      BY <2>1, <3>1
    <3>3. QED
      BY <3>2 DEF Halfway, half
  <2>4. QED
    BY <1>2, <2>2, <2>3 DEF p
<1> HIDE DEF q
<1>6. after = [i \in N |-> s[i] (+) Halfway(s, h, i)]
  <2>1. Chain!Plus(s, q) = [i \in N |-> s[i] (+) q[i]]
    BY <1>1, PlusOfChain
  <2>2. QED
    BY <1>2, <1>5, <2>1
<1>7. QED
  BY <1>3, <1>6 DEF m, last

\* The states after a step of the first order, and the next states of a discrete system.
LEMMA ChainInOne ==
  ASSUME NEW n \in Nat, NEW s, DOMAIN s = 0 .. n - 1, NEW h
  PROVE  LET after == [i \in 0 .. n - 1 |-> s[i] (+) Stage1(s, h, i)]
             next == Chain!Euler(Chain!Evaluated(<<>>, s, Zero), h)
         IN  /\ next.s = after /\ next.time = Zero (+) h /\ next.R = ChainRates(<<>>, after, Zero (+) h)
             /\ Chain!Discrete(Chain!Evaluated(<<>>, s, Zero), h).s = ChainRates(<<>>, s, Zero)
<1> DEFINE N == 0 .. n - 1
           m == Chain!Evaluated(<<>>, s, Zero)
           last == Zero (+) h
           q == Chain!Times(m.R, h)
           after == Chain!Plus(m.s, q)
<1>1. m.u = <<>> /\ m.s = s /\ m.time = Zero /\ m.R = ChainRates(<<>>, s, Zero)
  BY DEF Chain!Evaluated
<1> HIDE DEF m
<1>2. /\ Chain!Euler(m, h).s = after /\ Chain!Euler(m, h).time = last
      /\ Chain!Euler(m, h).R = ChainRates(<<>>, after, last)
      /\ Chain!Discrete(m, h).s = m.R
  <2>1. Chain!\oplus(m.time, h) = last
    BY <1>1, SameNumbersOfChain
  <2> HIDE DEF last
  <2>2. QED
    BY <1>1, <2>1 DEF Chain!Euler, Chain!Discrete, Chain!Evaluated
<1> HIDE DEF last
<1>3. q = [i \in N |-> Stage1(s, h, i)]
  <2>1. m.R = [i \in N |-> RateOf(s, i)]
    BY <1>1, RatesOfChain
  <2>2. Chain!Times(m.R, h) = [i \in N |-> m.R[i] (.) h]
    BY <2>1, TimesOfChain
  <2>3. QED
    BY <2>1, <2>2 DEF Stage1
<1> HIDE DEF q
<1>4. after = [i \in N |-> s[i] (+) Stage1(s, h, i)]
  <2>1. Chain!Plus(s, q) = [i \in N |-> s[i] (+) q[i]]
    BY PlusOfChain
  <2>2. QED
    BY <1>1, <1>3, <2>1
<1>5. QED
  BY <1>1, <1>2, <1>4 DEF m, last

\* The states of a chain as fractions with the denominator d: y[j + 4] is the numerator
\* of state j, y[3] that of the rate 1 of the first integrator, and before it are zeros.
ChainIs(n, s, y, d) ==
  /\ y \in [0 .. 7 -> Int] /\ d \in Int /\ d # 0
  /\ y[0] = 0 /\ y[1] = 0 /\ y[2] = 0 /\ y[3] = d
  /\ \A j \in 0 .. n - 1 : Is(s[j], y[j + 4], d)

\* A step of b / g and another b / g.
StepIs(h, b, g) == Is(h, b + b, g) /\ Is(Ratio(1, 2) (.) h, b, g)

\* A fraction without a factor of both sides.
LEMMA Shortened ==
  ASSUME NEW a, NEW n \in Int, NEW d \in Int, NEW k \in Int, d # 0, k # 0, Is(a, n * k, d * k)
  PROVE  Is(a, n, d)
<1>1. a \in Rationals /\ a[1] \in Int /\ a[2] \in Int /\ a[1] * (d * k) = (n * k) * a[2]
  BY NumbersOf DEF Is
<1>2. k * (a[1] * d) = k * (n * a[2]) /\ a[1] * d \in Int /\ n * a[2] \in Int
  BY <1>1
<1>3. a[1] * d = n * a[2]
  BY <1>2, Cancel
<1>4. QED
  BY <1>1, <1>3 DEF Is

\* Fractions for the states of up to four integrators.
LEMMA ChainHasFractions ==
  ASSUME NEW n \in 1 .. 4, NEW s \in [0 .. n - 1 -> Rationals]
  PROVE  \E y, d : ChainIs(n, s, y, d)
<1> DEFINE t(j) == IF j < n THEN s[j] ELSE Zero
<1>1. t(0) \in Rationals /\ t(1) \in Rationals /\ t(2) \in Rationals /\ t(3) \in Rationals
  BY PlusZero
<1>2. PICK n0 \in Int, n1 \in Int, n2 \in Int, n3 \in Int, d \in Int :
        Is(t(0), n0, d) /\ Is(t(1), n1, d) /\ Is(t(2), n2, d) /\ Is(t(3), n3, d)
  <2> HIDE DEF t
  <2>1. QED
    BY <1>1, FourDenominators
<1> DEFINE y == [k \in 0 .. 7 |-> IF k < 3 THEN 0 ELSE IF k = 3 THEN d ELSE IF k = 4 THEN n0
                                  ELSE IF k = 5 THEN n1 ELSE IF k = 6 THEN n2 ELSE n3]
<1>3. /\ y \in [0 .. 7 -> Int] /\ y[0] = 0 /\ y[1] = 0 /\ y[2] = 0 /\ y[3] = d
      /\ y[0 + 4] = n0 /\ y[1 + 4] = n1 /\ y[2 + 4] = n2 /\ y[3 + 4] = n3
  OBVIOUS
<1>4. d # 0
  BY <1>2 DEF Is
<1>5. ASSUME NEW j \in 0 .. n - 1 PROVE Is(s[j], y[j + 4], d)
  <2>1. s[j] = t(j)
    OBVIOUS
  <2> HIDE DEF t, y
  <2>2. j = 0 \/ j = 1 \/ j = 2 \/ j = 3
    OBVIOUS
  <2>3. QED
    BY <1>2, <1>3, <2>1, <2>2
<1> HIDE DEF y
<1>6. QED
  BY <1>3, <1>4, <1>5 DEF ChainIs

\* A rate times the step, and half of that.
RateTaken(e, m, d, h, b, g) ==
  Is(e (.) h, m * (b + b), d * g) /\ Is((e (.) h) (.) Ratio(1, 2), m * b, d * g)

\* A rate times the step, and half of it.
LEMMA RateTimesStep ==
  ASSUME NEW e, NEW m, NEW d, NEW h, NEW b, NEW g, Is(e, m, d), StepIs(h, b, g)
  PROVE  RateTaken(e, m, d, h, b, g)
<1>1. m \in Int /\ d \in Int /\ d # 0 /\ b \in Int /\ g \in Int /\ g # 0 /\ Is(h, b + b, g)
  BY DEF Is, StepIs
<1>2. Is(e (.) h, m * (b + b), d * g)
  BY <1>1, ArithmeticIs
<1>3. Is(Ratio(1, 2), 1, 2)
  BY RatioIs
<1>4. Is((e (.) h) (.) Ratio(1, 2), (m * (b + b)) * 1, (d * g) * 2)
  BY <1>2, <1>3, ArithmeticIs
<1>5. (m * (b + b)) * 1 = (m * b) * 2 /\ m * b \in Int /\ d * g \in Int /\ d * g # 0
  BY <1>1
<1>6. Is((e (.) h) (.) Ratio(1, 2), m * b, d * g)
  BY <1>4, <1>5, Shortened
<1>7. QED
  BY <1>2, <1>6 DEF RateTaken

\* The rates that the stages find, as fractions.
Rate2(y, b, g, i) == (y[i + 3] * g) + (y[i + 2] * b)
Rate3(y, b, g, i) == (y[i + 3] * (g * g)) + (((y[i + 2] * g) + (y[i + 1] * b)) * b)
Rate4(y, b, g, i) ==
  (y[i + 3] * ((g * g) * g)) + (((y[i + 2] * (g * g)) + (((y[i + 1] * g) + (y[i] * b)) * b)) * (b + b))

StagesAre(s, h, y, d, b, g, i) ==
  /\ Is(Stage1(s, h, i), y[i + 3] * (b + b), d * g)
  /\ Is(Stage2(s, h, i), Rate2(y, b, g, i) * (b + b), (d * g) * g)
  /\ Is(Stage3(s, h, i), Rate3(y, b, g, i) * (b + b), ((d * g) * g) * g)
  /\ Is(Stage4(s, h, i), Rate4(y, b, g, i) * (b + b), (((d * g) * g) * g) * g)

\* The changes of the four stages, as fractions.
LEMMA StagesInFractions ==
  ASSUME NEW n \in 1 .. 4, NEW s, NEW y, NEW d, ChainIs(n, s, y, d), NEW h, NEW b, NEW g, StepIs(h, b, g)
  PROVE  \A i \in 0 .. n - 1 : StagesAre(s, h, y, d, b, g, i)
<1> DEFINE N == 0 .. n - 1
           half == Ratio(1, 2)
           D1 == d * g
           D2 == D1 * g
           D3 == D2 * g
           Second(i) == IF i = 0 THEN One ELSE s[i - 1] (+) (Stage1(s, h, i - 1) (.) half)
           Third(i) == IF i = 0 THEN One ELSE s[i - 1] (+) (Stage2(s, h, i - 1) (.) half)
           Fourth(i) == IF i = 0 THEN One ELSE s[i - 1] (+) Stage3(s, h, i - 1)
<1>1. /\ d \in Int /\ d # 0 /\ b \in Int /\ g \in Int /\ g # 0
      /\ y[0] = 0 /\ y[1] = 0 /\ y[2] = 0 /\ y[3] = d /\ \A k \in 0 .. 7 : y[k] \in Int
  BY DEF ChainIs, StepIs, Is
<1>2. D1 \in Int /\ D1 # 0 /\ D2 \in Int /\ D2 # 0 /\ D3 \in Int /\ D3 # 0
  <2>1. D1 \in Int /\ D1 # 0
    BY <1>1
  <2> HIDE DEF D1
  <2>2. D2 \in Int /\ D2 # 0
    BY <1>1, <2>1
  <2> HIDE DEF D2
  <2>3. QED
    BY <1>1, <2>1, <2>2
<1>3. /\ g * g \in Int /\ g * g # 0 /\ (g * g) * g \in Int /\ (g * g) * g # 0
      /\ D2 = d * (g * g) /\ D3 = d * ((g * g) * g)
  <2>1. g * g \in Int /\ g * g # 0
    BY <1>1
  <2>2. (g * g) * g \in Int /\ (g * g) * g # 0
    BY <1>1, <2>1
  <2>3. D2 = d * (g * g) /\ D3 = d * ((g * g) * g)
    BY <1>1
  <2>4. QED
    BY <2>1, <2>2, <2>3
<1>4. ASSUME NEW i \in N
      PROVE  /\ i = 0 \/ (i # 0 /\ i - 1 \in N /\ (i - 1) + 3 = i + 2 /\ (i - 1) + 2 = i + 1 /\ (i - 1) + 1 = i
                          /\ (i - 1) + 4 = i + 3)
             /\ i + 3 \in 0 .. 7 /\ i + 2 \in 0 .. 7 /\ i + 1 \in 0 .. 7 /\ i \in 0 .. 7
  OBVIOUS
<1>5. \A k \in Int : k # 0 => Is(One, k, k)
  BY TimesOne DEF Is, One, Whole
<1>6. \A i \in N : i # 0 => Is(s[i - 1], y[i + 3], d)
  BY <1>4 DEF ChainIs
<1> HIDE DEF D1, D2, D3, N
<1>7. ASSUME NEW i \in N PROVE RateTaken(RateOf(s, i), y[i + 3], d, h, b, g)
  <2>1. Is(RateOf(s, i), y[i + 3], d)
    BY <1>1, <1>5, <1>6 DEF RateOf
  <2>2. QED
    BY <2>1, RateTimesStep
<1>8. ASSUME NEW i \in N PROVE RateTaken(Second(i), Rate2(y, b, g, i), D1, h, b, g)
  <2>1. CASE i = 0
    <3>1. Rate2(y, b, g, i) = D1
      BY <1>1, <2>1 DEF Rate2, D1
    <3>2. Is(Second(i), D1, D1)
      BY <1>2, <1>5, <2>1
    <3>3. QED
      BY <3>1, <3>2, RateTimesStep
  <2>2. CASE i # 0
    <3>1. Is(s[i - 1], y[i + 3] * g, D1)
      BY <1>1, <1>6, <2>2, Extended DEF D1
    <3>2. Is(Stage1(s, h, i - 1) (.) half, y[i + 2] * b, D1)
      BY <1>4, <1>7, <2>2 DEF RateTaken, Stage1, D1
    <3>3. Is(Second(i), Rate2(y, b, g, i), D1)
      <4>1. Is(s[i - 1] (+) (Stage1(s, h, i - 1) (.) half), (y[i + 3] * g) + (y[i + 2] * b), D1)
        BY <3>1, <3>2, SumIs
      <4>2. QED
        BY <2>2, <4>1 DEF Rate2
    <3> HIDE DEF Second
    <3>4. QED
      BY <3>3, RateTimesStep
  <2>3. QED
    BY <2>1, <2>2
<1>9. ASSUME NEW i \in N PROVE Stage2(s, h, i) = Second(i) (.) h
  BY DEF Stage2
<1> HIDE DEF Second
<1>10. ASSUME NEW i \in N PROVE RateTaken(Third(i), Rate3(y, b, g, i), D2, h, b, g)
  <2>1. CASE i = 0
    <3>1. Rate3(y, b, g, i) = D2
      BY <1>1, <1>3, <2>1 DEF Rate3
    <3>2. Is(Third(i), D2, D2)
      BY <1>2, <1>5, <2>1
    <3>3. QED
      BY <3>1, <3>2, RateTimesStep
  <2>2. CASE i # 0
    <3>1. Is(s[i - 1], y[i + 3] * (g * g), D2)
      BY <1>3, <1>6, <2>2, Extended
    <3>2. Is(Stage2(s, h, i - 1) (.) half, Rate2(y, b, g, i - 1) * b, D2)
      BY <1>4, <1>8, <1>9, <2>2 DEF RateTaken, D2
    <3>3. Rate2(y, b, g, i - 1) = (y[i + 2] * g) + (y[i + 1] * b)
      BY <1>4, <2>2 DEF Rate2
    <3>4. Is(Third(i), Rate3(y, b, g, i), D2)
      <4>1. Is(s[i - 1] (+) (Stage2(s, h, i - 1) (.) half),
               (y[i + 3] * (g * g)) + (Rate2(y, b, g, i - 1) * b), D2)
        BY <3>1, <3>2, SumIs
      <4>2. QED
        BY <2>2, <3>3, <4>1 DEF Rate3
    <3> HIDE DEF Third
    <3>5. QED
      BY <3>4, RateTimesStep
  <2>3. QED
    BY <2>1, <2>2
<1>11. ASSUME NEW i \in N PROVE Stage3(s, h, i) = Third(i) (.) h
  BY DEF Stage3
<1> HIDE DEF Third
<1>12. ASSUME NEW i \in N PROVE RateTaken(Fourth(i), Rate4(y, b, g, i), D3, h, b, g)
  <2>1. CASE i = 0
    <3>1. Rate4(y, b, g, i) = D3
      <4>1. y[i + 3] = d /\ y[i + 2] = 0 /\ y[i + 1] = 0 /\ y[i] = 0
        BY <1>1, <2>1
      <4>2. PICK k \in Int : k = (g * g) * g
        BY <1>3
      <4>3. (0 * (g * g)) + (((0 * g) + (0 * b)) * b) = 0
        BY <1>1
      <4>4. (d * k) + (0 * (b + b)) = d * k
        BY <1>1
      <4>5. QED
        BY <1>3, <4>1, <4>2, <4>3, <4>4 DEF Rate4
    <3>2. Is(Fourth(i), D3, D3)
      BY <1>2, <1>5, <2>1
    <3>3. QED
      BY <3>1, <3>2, RateTimesStep
  <2>2. CASE i # 0
    <3>1. Is(s[i - 1], y[i + 3] * ((g * g) * g), D3)
      BY <1>3, <1>6, <2>2, Extended
    <3>2. Is(Stage3(s, h, i - 1), Rate3(y, b, g, i - 1) * (b + b), D3)
      BY <1>4, <1>10, <1>11, <2>2 DEF RateTaken, D3
    <3>3. Rate3(y, b, g, i - 1) = (y[i + 2] * (g * g)) + (((y[i + 1] * g) + (y[i] * b)) * b)
      BY <1>4, <2>2 DEF Rate3
    <3>4. Is(Fourth(i), Rate4(y, b, g, i), D3)
      <4>1. Is(s[i - 1] (+) Stage3(s, h, i - 1),
               (y[i + 3] * ((g * g) * g)) + (Rate3(y, b, g, i - 1) * (b + b)), D3)
        BY <3>1, <3>2, SumIs
      <4>2. QED
        BY <2>2, <3>3, <4>1 DEF Rate4
    <3> HIDE DEF Fourth
    <3>5. QED
      BY <3>4, RateTimesStep
  <2>3. QED
    BY <2>1, <2>2
<1>13. ASSUME NEW i \in N PROVE Stage4(s, h, i) = Fourth(i) (.) h
  BY DEF Stage4
<1> HIDE DEF Fourth
<1>14. ASSUME NEW i \in N PROVE StagesAre(s, h, y, d, b, g, i)
  <2>1. Is(Stage1(s, h, i), y[i + 3] * (b + b), d * g)
    BY <1>7 DEF RateTaken, Stage1
  <2>2. Is(Stage2(s, h, i), Rate2(y, b, g, i) * (b + b), D1 * g)
    BY <1>8, <1>9 DEF RateTaken
  <2>3. Is(Stage3(s, h, i), Rate3(y, b, g, i) * (b + b), D2 * g)
    BY <1>10, <1>11 DEF RateTaken
  <2>4. Is(Stage4(s, h, i), Rate4(y, b, g, i) * (b + b), D3 * g)
    BY <1>12, <1>13 DEF RateTaken
  <2>5. QED
    BY <2>1, <2>2, <2>3, <2>4 DEF StagesAre, D1, D2, D3
<1>15. QED
  BY <1>14 DEF N

\* One fraction for another of the same value.
LEMMA SameFraction ==
  ASSUME NEW a, NEW n, NEW d, NEW m \in Int, NEW e \in Int, e # 0, Is(a, n, d), n * e = m * d
  PROVE  Is(a, m, e)
<1>1. /\ a \in Rationals /\ a[1] \in Int /\ a[2] \in Int /\ n \in Int /\ d \in Int /\ d # 0
      /\ a[1] * d = n * a[2]
  BY NumbersOf DEF Is
<1>2. d * (a[1] * e) = d * (m * a[2])
  <2>1. PICK p \in Int, q \in Int : p = a[1] /\ q = a[2] /\ p * d = n * q
    BY <1>1
  <2>2. d * (p * e) = (p * d) * e
    BY <1>1
  <2>3. (n * q) * e = (n * e) * q
    BY <1>1
  <2>4. (m * d) * q = d * (m * q)
    BY <1>1
  <2>5. QED
    BY <2>1, <2>2, <2>3, <2>4
<1>3. a[1] * e = m * a[2]
  <2>1. a[1] * e \in Int /\ m * a[2] \in Int
    BY <1>1
  <2>2. QED
    BY <1>1, <1>2, <2>1, Cancel
<1>4. QED
  BY <1>1, <1>3 DEF Is

\* The denominator and the numerators of the powers of a step that are divided by their
\* factorials.
Divisor(g) == (((g * g) * g) * g) * 6
Coefficient(k, b, g) ==
  IF k = 0 THEN Divisor(g) ELSE IF k = 1 THEN 12 * (b * ((g * g) * g))
  ELSE IF k = 2 THEN 12 * ((b * b) * (g * g)) ELSE IF k = 3 THEN 8 * (((b * b) * b) * g)
  ELSE 4 * (((b * b) * b) * b)

\* What divides is not zero.
LEMMA DivisorIs ==
  ASSUME NEW g \in Int, g # 0
  PROVE  /\ g * g \in Int /\ g * g # 0 /\ (g * g) * g \in Int /\ (g * g) * g # 0
         /\ ((g * g) * g) * g \in Int /\ ((g * g) * g) * g # 0 /\ Divisor(g) \in Int /\ Divisor(g) # 0
<1>1. g * g \in Int /\ g * g # 0
  OBVIOUS
<1>2. (g * g) * g \in Int /\ (g * g) * g # 0
  BY <1>1
<1>3. PICK k \in Int : k = ((g * g) * g) * g /\ k # 0
  BY <1>2
<1>4. Divisor(g) = k * 6
  BY <1>3 DEF Divisor
<1>5. QED
  BY <1>1, <1>2, <1>3, <1>4

\* These powers, as fractions.
LEMMA DividedInFractions ==
  ASSUME NEW h, NEW b, NEW g, StepIs(h, b, g)
  PROVE  \A k \in 0 .. 4 : Is(Divided(k, h), Coefficient(k, b, g), Divisor(g))
<1>1. b \in Int /\ g \in Int /\ g # 0 /\ Is(h, b + b, g) /\ h \in Rationals
  BY DEF StepIs, Is
<1>2. /\ g * g \in Int /\ g * g # 0 /\ (g * g) * g \in Int /\ (g * g) * g # 0
      /\ ((g * g) * g) * g \in Int /\ ((g * g) * g) * g # 0 /\ Divisor(g) \in Int /\ Divisor(g) # 0
  BY <1>1, DivisorIs
<1>3. One (.) h = h
  BY <1>1, Neutral
<1>4. ASSUME NEW a, NEW n, NEW d, NEW k \in Int, k # 0, Is(a, n, d)
      PROVE  Is((a (.) h) (/) Whole(k), n * (b + b), (d * g) * k)
  <2>1. Is(a (.) h, n * (b + b), d * g)
    BY <1>1, <1>4, ArithmeticIs
  <2>2. Is(Whole(k), k, 1)
    BY <1>4, Wholes
  <2>3. Is((a (.) h) (/) Whole(k), (n * (b + b)) * 1, (d * g) * k)
    BY <1>4, <2>1, <2>2, ArithmeticIs
  <2>4. (n * (b + b)) * 1 = n * (b + b)
    BY <1>1, <1>4 DEF Is
  <2>5. QED
    BY <2>3, <2>4
<1>5. Is(One, 1, 1)
  BY TimesOne DEF Is, One, Whole
<1>6. Is(Divided(1, h), b + b, g)
  <2>1. Is(Divided(1, h), 1 * (b + b), (1 * g) * 1)
    <3>1. 1 \in Int /\ 1 # 0
      OBVIOUS
    <3>2. Is((One (.) h) (/) Whole(1), 1 * (b + b), (1 * g) * 1)
      BY <1>4, <1>5, <3>1
    <3>3. QED
      BY <3>2 DEF Divided
  <2>2. 1 * (b + b) = b + b /\ (1 * g) * 1 = g
    BY <1>1
  <2>3. QED
    BY <2>1, <2>2
<1>7. Is(Divided(2, h), 2 * (b * b), g * g)
  <2>1. Is(Divided(2, h), (b + b) * (b + b), (g * g) * 2)
    <3>1. 2 \in Int /\ 2 # 0
      OBVIOUS
    <3>2. Is((Divided(1, h) (.) h) (/) Whole(2), (b + b) * (b + b), (g * g) * 2)
      BY <1>4, <1>6, <3>1
    <3>3. Divided(2, h) = (Divided(1, h) (.) h) (/) Whole(2)
      BY DEF Divided
    <3>4. QED
      BY <3>2, <3>3
  <2>2. ((b + b) * (b + b)) * (g * g) = (2 * (b * b)) * ((g * g) * 2) /\ 2 * (b * b) \in Int
    BY <1>1
  <2>3. QED
    BY <1>2, <2>1, <2>2, SameFraction
<1>8. Is(Divided(3, h), 4 * ((b * b) * b), ((g * g) * g) * 3)
  <2>1. Is(Divided(3, h), (2 * (b * b)) * (b + b), ((g * g) * g) * 3)
    <3>1. 3 \in Int /\ 3 # 0
      OBVIOUS
    <3>2. Is((Divided(2, h) (.) h) (/) Whole(3), (2 * (b * b)) * (b + b), ((g * g) * g) * 3)
      BY <1>4, <1>7, <3>1
    <3>3. Divided(3, h) = (Divided(2, h) (.) h) (/) Whole(3)
      BY DEF Divided
    <3>4. QED
      BY <3>2, <3>3
  <2>2. (2 * (b * b)) * (b + b) = 4 * ((b * b) * b)
    BY <1>1
  <2>3. QED
    BY <2>1, <2>2
<1>9. Is(Divided(4, h), (4 * ((b * b) * b)) * (b + b), ((((g * g) * g) * 3) * g) * 4)
  <2>1. 4 \in Int /\ 4 # 0
    OBVIOUS
  <2>2. Is((Divided(3, h) (.) h) (/) Whole(4), (4 * ((b * b) * b)) * (b + b), ((((g * g) * g) * 3) * g) * 4)
    BY <1>4, <1>8, <2>1
  <2>3. Divided(4, h) = (Divided(3, h) (.) h) (/) Whole(4)
    BY DEF Divided
  <2>4. QED
    BY <2>2, <2>3
<1>10. Is(Divided(0, h), Coefficient(0, b, g), Divisor(g))
  <2>1. 1 * Divisor(g) = Divisor(g) * 1
    BY <1>2
  <2>2. Is(One, Divisor(g), Divisor(g))
    BY <1>2, <1>5, <2>1, SameFraction
  <2>3. QED
    BY <2>2 DEF Divided, Coefficient
<1>11. Is(Divided(1, h), Coefficient(1, b, g), Divisor(g))
  <2>1. (b + b) * ((((g * g) * g) * g) * 6) = (12 * (b * ((g * g) * g))) * g
    BY <1>1
  <2>2. 12 * (b * ((g * g) * g)) \in Int
    BY <1>1
  <2>3. Coefficient(1, b, g) = 12 * (b * ((g * g) * g))
    BY DEF Coefficient
  <2>4. QED
    BY <1>2, <1>6, <2>1, <2>2, <2>3, SameFraction DEF Divisor
<1>12. Is(Divided(2, h), Coefficient(2, b, g), Divisor(g))
  <2>1. (2 * (b * b)) * ((((g * g) * g) * g) * 6) = (12 * ((b * b) * (g * g))) * (g * g)
    BY <1>1
  <2>2. 12 * ((b * b) * (g * g)) \in Int
    BY <1>1
  <2>3. Coefficient(2, b, g) = 12 * ((b * b) * (g * g))
    BY DEF Coefficient
  <2>4. QED
    BY <1>2, <1>7, <2>1, <2>2, <2>3, SameFraction DEF Divisor
<1>13. Is(Divided(3, h), Coefficient(3, b, g), Divisor(g))
  <2>1. (4 * ((b * b) * b)) * ((((g * g) * g) * g) * 6) = (8 * (((b * b) * b) * g)) * (((g * g) * g) * 3)
    BY <1>1
  <2>2. 8 * (((b * b) * b) * g) \in Int
    BY <1>1
  <2>3. Coefficient(3, b, g) = 8 * (((b * b) * b) * g)
    BY DEF Coefficient
  <2>4. QED
    BY <1>2, <1>8, <2>1, <2>2, <2>3, SameFraction DEF Divisor
<1>14. Is(Divided(4, h), Coefficient(4, b, g), Divisor(g))
  <2>1. ((4 * ((b * b) * b)) * (b + b)) * ((((g * g) * g) * g) * 6)
          = (4 * (((b * b) * b) * b)) * (((((g * g) * g) * 3) * g) * 4)
    BY <1>1
  <2>2. 4 * (((b * b) * b) * b) \in Int
    BY <1>1
  <2>3. Coefficient(4, b, g) = 4 * (((b * b) * b) * b)
    BY DEF Coefficient
  <2>4. QED
    BY <1>2, <1>9, <2>1, <2>2, <2>3, SameFraction DEF Divisor
<1>15. \A k \in 0 .. 4 : k = 0 \/ k = 1 \/ k = 2 \/ k = 3 \/ k = 4
  OBVIOUS
<1>16. QED
  BY <1>10, <1>11, <1>12, <1>13, <1>14, <1>15

\* The numerator of the exact state of integrator i after the step.
Numerator(y, b, g, i) ==
  (y[i + 4] * Divisor(g))
    + ((y[i + 3] * Coefficient(1, b, g))
         + ((y[i + 2] * Coefficient(2, b, g))
              + ((y[i + 1] * Coefficient(3, b, g)) + (y[i] * Coefficient(4, b, g)))))

\* The polynomial that the weighed changes of the four stages add up to: v, w, x and z are
\* the numerators of the states, from the nearest on.
Weights(v, w, x, z, b, g) ==
  LET q1 == v * (b + b)
      q2 == ((v * g) + (w * b)) * (b + b)
      q3 == ((v * (g * g)) + (((w * g) + (x * b)) * b)) * (b + b)
      q4 == ((v * ((g * g) * g)) + (((w * (g * g)) + (((x * g) + (z * b)) * b)) * (b + b))) * (b + b)
  IN  ((q1 * ((g * g) * g)) + q4) + (((q2 * (g * g)) + (q3 * g)) * 2)
        = (v * (12 * (b * ((g * g) * g))))
            + ((w * (12 * ((b * b) * (g * g))))
                 + ((x * (8 * (((b * b) * b) * g))) + (z * (4 * (((b * b) * b) * b)))))

\* The weights of the four stages give that polynomial.
LEMMA WeightsAddUp == \A v, w, x, z, b, g \in Int : Weights(v, w, x, z, b, g)
<1>1. ASSUME NEW v \in Int, NEW w \in Int, NEW x \in Int, NEW z \in Int, NEW b \in Int, NEW g \in Int
      PROVE  Weights(v, w, x, z, b, g)
  BY SMTT(60) DEF Weights
<1>2. QED
  BY <1>1

\* The state of an integrator after a step of the fourth order, as a fraction.
LEMMA FourthInFractions ==
  ASSUME NEW n \in 1 .. 4, NEW s, NEW y, NEW d, ChainIs(n, s, y, d), NEW h, NEW b, NEW g, StepIs(h, b, g)
  PROVE  \A i \in 0 .. n - 1 : Is(s[i] (+) Weighed(s, h, i), Numerator(y, b, g, i), d * Divisor(g))
<1> DEFINE D4 == (((d * g) * g) * g) * g
<1>1. /\ d \in Int /\ d # 0 /\ b \in Int /\ g \in Int /\ g # 0 /\ \A k \in 0 .. 7 : y[k] \in Int
  BY DEF ChainIs, StepIs, Is
<1>2. /\ g * g \in Int /\ g * g # 0 /\ (g * g) * g \in Int /\ (g * g) * g # 0
      /\ Divisor(g) \in Int /\ Divisor(g) # 0
  BY <1>1, DivisorIs
<1>3. D4 * 6 = d * Divisor(g)
  BY <1>1 DEF Divisor
<1>4. ASSUME NEW i \in 0 .. n - 1
      PROVE  Is(s[i] (+) Weighed(s, h, i), Numerator(y, b, g, i), d * Divisor(g))
  <2>1. i + 4 \in 0 .. 7 /\ i + 3 \in 0 .. 7 /\ i + 2 \in 0 .. 7 /\ i + 1 \in 0 .. 7 /\ i \in 0 .. 7
    OBVIOUS
  <2>2. PICK v \in Int, w \in Int, x \in Int, z \in Int :
          v = y[i + 3] /\ w = y[i + 2] /\ x = y[i + 1] /\ z = y[i]
    BY <1>1, <2>1
  <2> DEFINE q1 == v * (b + b)
             q2 == ((v * g) + (w * b)) * (b + b)
             q3 == ((v * (g * g)) + (((w * g) + (x * b)) * b)) * (b + b)
             q4 == ((v * ((g * g) * g)) + (((w * (g * g)) + (((x * g) + (z * b)) * b)) * (b + b))) * (b + b)
             S1 == Stage1(s, h, i)
             S2 == Stage2(s, h, i)
             S3 == Stage3(s, h, i)
             S4 == Stage4(s, h, i)
             Sum == ((q1 * ((g * g) * g)) + q4) + (((q2 * (g * g)) + (q3 * g)) * 2)
  <2>3. /\ Is(S1, q1, d * g) /\ Is(S2, q2, (d * g) * g) /\ Is(S3, q3, ((d * g) * g) * g) /\ Is(S4, q4, D4)
    <3>1. StagesAre(s, h, y, d, b, g, i)
      BY StagesInFractions
    <3>2. QED
      BY <2>2, <3>1 DEF StagesAre, Rate2, Rate3, Rate4
  <2>4. /\ (d * g) * ((g * g) * g) = D4 /\ ((d * g) * g) * (g * g) = D4 /\ (((d * g) * g) * g) * g = D4
    BY <1>1
  <2> HIDE DEF q1, q2, q3, q4, S1, S2, S3, S4, D4
  <2>5. Is(S1, q1 * ((g * g) * g), D4) /\ Is(S2, q2 * (g * g), D4) /\ Is(S3, q3 * g, D4)
    <3>1. Is(S1, q1 * ((g * g) * g), (d * g) * ((g * g) * g))
      BY <1>2, <2>3, Extended
    <3>2. Is(S2, q2 * (g * g), ((d * g) * g) * (g * g))
      BY <1>2, <2>3, Extended
    <3>3. Is(S3, q3 * g, (((d * g) * g) * g) * g)
      BY <1>1, <2>3, Extended
    <3>4. QED
      BY <2>4, <3>1, <3>2, <3>3
  <2>6. Is(S1 (+) S4, (q1 * ((g * g) * g)) + q4, D4) /\ Is(S2 (+) S3, (q2 * (g * g)) + (q3 * g), D4)
    BY <2>3, <2>5, SumIs
  <2>7. Is((S2 (+) S3) (.) Whole(2), ((q2 * (g * g)) + (q3 * g)) * 2, D4)
    <3>1. Is(Whole(2), 2, 1)
      BY Wholes
    <3>2. Is((S2 (+) S3) (.) Whole(2), ((q2 * (g * g)) + (q3 * g)) * 2, D4 * 1)
      BY <2>6, <3>1, ArithmeticIs
    <3>3. D4 * 1 = D4
      BY <2>3 DEF Is
    <3>4. QED
      BY <3>2, <3>3
  <2>8. Is((S1 (+) S4) (+) ((S2 (+) S3) (.) Whole(2)), Sum, D4)
    BY <2>6, <2>7, SumIs
  <2>9. Is(Weighed(s, h, i), Sum * 1, D4 * 6)
    <3>1. Is(Ratio(1, 6), 1, 6)
      BY RatioIs
    <3> HIDE DEF Sum
    <3>2. Is(((S1 (+) S4) (+) ((S2 (+) S3) (.) Whole(2))) (.) Ratio(1, 6), Sum * 1, D4 * 6)
      BY <2>8, <3>1, ArithmeticIs
    <3>3. QED
      BY <3>2 DEF Weighed, S1, S2, S3, S4
  <2>10. Sum * 1 = (v * Coefficient(1, b, g))
                     + ((w * Coefficient(2, b, g)) + ((x * Coefficient(3, b, g)) + (z * Coefficient(4, b, g))))
    <3>1. Weights(v, w, x, z, b, g)
      BY <1>1, WeightsAddUp
    <3>2. Sum = (v * (12 * (b * ((g * g) * g))))
                  + ((w * (12 * ((b * b) * (g * g))))
                      + ((x * (8 * (((b * b) * b) * g))) + (z * (4 * (((b * b) * b) * b)))))
      BY <3>1 DEF Weights, q1, q2, q3, q4
    <3>3. Sum \in Int
      BY <2>8 DEF Is
    <3> HIDE DEF Sum
    <3>4. Sum * 1 = Sum
      BY <3>3
    <3>5. /\ Coefficient(1, b, g) = 12 * (b * ((g * g) * g)) /\ Coefficient(2, b, g) = 12 * ((b * b) * (g * g))
          /\ Coefficient(3, b, g) = 8 * (((b * b) * b) * g) /\ Coefficient(4, b, g) = 4 * (((b * b) * b) * b)
      BY DEF Coefficient
    <3>6. QED
      BY <3>2, <3>4, <3>5
  <2> HIDE DEF Sum
  <2>11. Is(s[i], y[i + 4] * Divisor(g), d * Divisor(g))
    <3>1. Is(s[i], y[i + 4], d)
      BY DEF ChainIs
    <3>2. QED
      BY <1>2, <3>1, Extended
  <2>12. Is(s[i] (+) Weighed(s, h, i), (y[i + 4] * Divisor(g)) + (Sum * 1), d * Divisor(g))
    BY <1>3, <2>9, <2>11, SumIs
  <2>13. QED
    BY <2>2, <2>10, <2>12 DEF Numerator
<1>5. QED
  BY <1>4

\* The state of an integrator after a step of the second order, of at most two.
LEMMA SecondInFractions ==
  ASSUME NEW n \in 1 .. 2, NEW s, NEW y, NEW d, ChainIs(n, s, y, d), NEW h, NEW b, NEW g, StepIs(h, b, g)
  PROVE  \A i \in 0 .. n - 1 : Is(s[i] (+) Halfway(s, h, i), Numerator(y, b, g, i), d * Divisor(g))
<1>1. /\ d \in Int /\ d # 0 /\ b \in Int /\ g \in Int /\ g # 0 /\ \A k \in 0 .. 7 : y[k] \in Int
      /\ y[0] = 0 /\ y[1] = 0 /\ y[2] = 0 /\ y[3] = d
  BY DEF ChainIs, StepIs, Is
<1>2. /\ Divisor(g) \in Int /\ Divisor(g) # 0 /\ g * g \in Int /\ (g * g) * g \in Int
      /\ d * Divisor(g) \in Int /\ d * Divisor(g) # 0 /\ d * g \in Int /\ d * g # 0
  <2>1. Divisor(g) \in Int /\ Divisor(g) # 0 /\ g * g \in Int /\ (g * g) * g \in Int
    BY <1>1, DivisorIs
  <2>2. PICK k \in Int : k = Divisor(g) /\ k # 0
    BY <2>1
  <2>3. d * k \in Int /\ d * k # 0 /\ d * g \in Int /\ d * g # 0
    BY <1>1, <2>2
  <2>4. QED
    BY <2>1, <2>2, <2>3
<1>3. ASSUME NEW i \in 0 .. n - 1
      PROVE  Is(s[i] (+) Halfway(s, h, i), Numerator(y, b, g, i), d * Divisor(g))
  <2> DEFINE e == IF i = 0 THEN One ELSE s[i - 1] (+) (RateOf(s, i - 1) (.) (Ratio(1, 2) (.) h))
  <2>1. i + 3 \in 0 .. 7 /\ i + 2 \in 0 .. 7 /\ (i = 0 \/ i = 1)
    OBVIOUS
  <2>2. PICK v \in Int, w \in Int : v = y[i + 3] /\ w = y[i + 2]
    BY <1>1, <2>1
  <2>3. y[i + 1] = 0 /\ y[i] = 0
    BY <1>1, <2>1
  <2>4. Is(e, (v * g) + (w * b), d * g)
    <3>1. CASE i = 0
      <4>1. v = d /\ w = 0
        BY <1>1, <2>2, <3>1
      <4>2. (v * g) + (w * b) = d * g
        BY <1>1, <4>1
      <4>3. Is(One, d * g, d * g)
        BY <1>2, TimesOne DEF Is, One, Whole
      <4>4. QED
        BY <3>1, <4>2, <4>3
    <3>2. CASE i = 1
      <4>1. v = y[0 + 4] /\ w = d /\ 0 \in 0 .. n - 1 /\ i - 1 = 0
        BY <1>1, <2>2, <3>2
      <4>2. Is(s[0], v * g, d * g)
        <5>1. Is(s[0], v, d)
          BY <4>1 DEF ChainIs
        <5>2. QED
          BY <1>1, <5>1, Extended
      <4>3. Is(One (.) (Ratio(1, 2) (.) h), w * b, d * g)
        <5>1. Is(One, d, d)
          BY <1>1, TimesOne DEF Is, One, Whole
        <5>2. QED
          BY <4>1, <5>1, ArithmeticIs DEF StepIs
      <4>4. RateOf(s, i - 1) = One
        BY <4>1 DEF RateOf
      <4>5. Is(s[0] (+) (One (.) (Ratio(1, 2) (.) h)), (v * g) + (w * b), d * g)
        BY <4>2, <4>3, SumIs
      <4>6. QED
        BY <3>2, <4>1, <4>4, <4>5
    <3>3. QED
      BY <2>1, <3>1, <3>2
  <2>5. Halfway(s, h, i) = e (.) h
    BY DEF Halfway
  <2> HIDE DEF e
  <2>6. Is(Halfway(s, h, i), ((v * g) + (w * b)) * (b + b), (d * g) * g)
    BY <2>4, <2>5, RateTimesStep DEF RateTaken
  <2>7. Is(Halfway(s, h, i), (v * Coefficient(1, b, g)) + (w * Coefficient(2, b, g)), d * Divisor(g))
    <3>1. Coefficient(1, b, g) = 12 * (b * ((g * g) * g)) /\ Coefficient(2, b, g) = 12 * ((b * b) * (g * g))
      BY DEF Coefficient
    <3>2. (((v * g) + (w * b)) * (b + b)) * (d * ((((g * g) * g) * g) * 6))
            = ((v * (12 * (b * ((g * g) * g)))) + (w * (12 * ((b * b) * (g * g))))) * ((d * g) * g)
      BY <1>1, SMTT(60)
    <3>3. (v * (12 * (b * ((g * g) * g)))) + (w * (12 * ((b * b) * (g * g)))) \in Int
      BY <1>1
    <3>4. QED
      BY <1>2, <2>6, <3>1, <3>2, <3>3, SameFraction DEF Divisor
  <2>8. Is(s[i], y[i + 4] * Divisor(g), d * Divisor(g))
    <3>1. Is(s[i], y[i + 4], d)
      BY DEF ChainIs
    <3>2. QED
      BY <1>2, <3>1, Extended
  <2>9. Is(s[i] (+) Halfway(s, h, i),
           (y[i + 4] * Divisor(g)) + ((v * Coefficient(1, b, g)) + (w * Coefficient(2, b, g))), d * Divisor(g))
    BY <2>7, <2>8, SumIs
  <2>10. /\ Coefficient(1, b, g) \in Int /\ Coefficient(2, b, g) \in Int
         /\ Coefficient(3, b, g) \in Int /\ Coefficient(4, b, g) \in Int
    BY <1>1 DEF Coefficient
  <2>11. (w * Coefficient(2, b, g)) + ((0 * Coefficient(3, b, g)) + (0 * Coefficient(4, b, g)))
           = w * Coefficient(2, b, g)
    <3>1. PICK k \in Int : k = w * Coefficient(2, b, g)
      BY <2>10
    <3>2. 0 * Coefficient(3, b, g) = 0 /\ 0 * Coefficient(4, b, g) = 0
      BY <2>10
    <3>3. k + (0 + 0) = k
      OBVIOUS
    <3>4. QED
      BY <3>1, <3>2, <3>3
  <2>12. QED
    BY <2>2, <2>3, <2>9, <2>11 DEF Numerator
<1>4. QED
  BY <1>3

\* The state of a single integrator after a step of the first order: it is that of the
\* second order.
LEMMA FirstInFractions ==
  ASSUME NEW s, NEW y, NEW d, ChainIs(1, s, y, d), NEW h, NEW b, NEW g, StepIs(h, b, g)
  PROVE  Is(s[0] (+) Stage1(s, h, 0), Numerator(y, b, g, 0), d * Divisor(g))
<1>1. Is(s[0] (+) Halfway(s, h, 0), Numerator(y, b, g, 0), d * Divisor(g))
  <2>1. 1 \in 1 .. 2 /\ 0 \in 0 .. 1 - 1
    OBVIOUS
  <2>2. QED
    BY <2>1, SecondInFractions
<1>2. Stage1(s, h, 0) = Halfway(s, h, 0)
  BY DEF Stage1, RateOf, Halfway
<1>3. QED
  BY <1>1, <1>2

\* Coefficients nothing is multiplied with leave the sum.
LEMMA NothingLeft ==
  /\ \A k, l, u, v, w \in Int : (k + 0) + l = k + (l + ((0 * u) + ((0 * v) + (0 * w))))
  /\ \A k, l, m, v, w \in Int : (k + (l + 0)) + m = k + (l + (m + ((0 * v) + (0 * w))))
  /\ \A k, l, m, o, w \in Int : (k + (l + (m + 0))) + o = k + (l + (m + (o + (0 * w))))
<1>1. \A u \in Int : 0 * u = 0
  OBVIOUS
<1>2. QED
  BY <1>1

\* The exact state, as a fraction.
LEMMA ExactInFractions ==
  ASSUME NEW n \in 1 .. 4, NEW s, NEW y, NEW d, ChainIs(n, s, y, d), NEW h, NEW b, NEW g, StepIs(h, b, g),
         NEW p, \A k \in 0 .. n : p[k] = Divided(k, h)
  PROVE  \A i \in 0 .. n - 1 : Is(Convolved(s, p, i) (+) p[i + 1], Numerator(y, b, g, i), d * Divisor(g))
<1> DEFINE D == d * Divisor(g)
           C(k) == Coefficient(k, b, g)
<1>1. /\ d \in Int /\ d # 0 /\ b \in Int /\ g \in Int /\ g # 0 /\ \A k \in 0 .. 7 : y[k] \in Int
      /\ y[0] = 0 /\ y[1] = 0 /\ y[2] = 0 /\ y[3] = d
  BY DEF ChainIs, StepIs, Is
<1>2. \A k \in 0 .. n : Is(p[k], C(k), Divisor(g)) /\ p[k] \in Rationals
  <2>1. \A k \in 0 .. n : k \in 0 .. 4
    OBVIOUS
  <2>2. \A k \in 0 .. n : Is(p[k], C(k), Divisor(g))
    BY <2>1, DividedInFractions
  <2>3. QED
    BY <2>2 DEF Is
<1>3. \A k \in 0 .. 4 : C(k) \in Int
  <2>1. Divisor(g) \in Int
    BY <1>1, DivisorIs
  <2>2. QED
    BY <1>1, <2>1 DEF Coefficient
<1>4. C(0) = Divisor(g) /\ D \in Int /\ D # 0
  <2>1. PICK k \in Int : k = Divisor(g) /\ k # 0
    BY <1>1, DivisorIs
  <2>2. d * k \in Int /\ d * k # 0
    BY <1>1, <2>1
  <2>3. QED
    BY <2>1, <2>2 DEF Coefficient
<1>5. \A j \in 0 .. n - 1 : Is(s[j], y[j + 4], d) /\ s[j] \in Rationals
  BY DEF ChainIs, Is
<1> HIDE DEF C
<1>6. ASSUME NEW j \in 0 .. n - 1, NEW k \in 0 .. n
      PROVE  Is(s[j] (.) p[k], y[j + 4] * C(k), D)
  BY <1>2, <1>5, ArithmeticIs
<1>7. ASSUME NEW k \in 0 .. n PROVE Is(p[k], d * C(k), D)
  <2>1. Is(p[k], C(k) * d, Divisor(g) * d)
    BY <1>1, <1>2, Extended
  <2>2. C(k) * d = d * C(k) /\ Divisor(g) * d = D
    <3>1. C(k) \in Int /\ Divisor(g) \in Int
      BY <1>1, <1>3, DivisorIs
    <3>2. QED
      BY <1>1, <3>1
  <2>3. QED
    BY <2>1, <2>2
<1> HIDE DEF D
<1>8. ASSUME NEW i \in 0 .. n - 1
      PROVE  Is(Convolved(s, p, i) (+) p[i + 1], Numerator(y, b, g, i), D)
  <2>1. /\ i \in 0 .. 3 /\ (i = 0 \/ i = 1 \/ i = 2 \/ i = 3)
        /\ \A k \in 0 .. i : k \in 0 .. n - 1 /\ k \in 0 .. n
    OBVIOUS
  <2>2. \A k \in 0 .. i : s[k] \in Rationals /\ p[k] \in Rationals
    BY <1>2, <1>5, <2>1
  <2>3. /\ i = 0 => Convolved(s, p, i) = (s[0] (.) p[0]) (+) Zero
        /\ i = 1 => Convolved(s, p, i) = (s[1] (.) p[0]) (+) ((s[0] (.) p[1]) (+) Zero)
        /\ i = 2 => Convolved(s, p, i) = (s[2] (.) p[0]) (+) ((s[1] (.) p[1]) (+) ((s[0] (.) p[2]) (+) Zero))
        /\ i = 3 => Convolved(s, p, i)
                      = (s[3] (.) p[0]) (+) ((s[2] (.) p[1]) (+) ((s[1] (.) p[2]) (+) ((s[0] (.) p[3]) (+) Zero)))
    BY <2>1, <2>2, ConvolvedIs
  <2>4. Is(Zero, 0, D)
    <3>1. 0 * 1 = 0 * D
      BY <1>4
    <3>2. Is(Zero, 0, 1)
      BY Wholes
    <3>3. 0 * D = 0 * 1
      BY <3>1
    <3>4. QED
      BY <1>4, <3>2, <3>3, SameFraction
  <2>5. /\ C(0) \in Int /\ C(1) \in Int /\ C(2) \in Int /\ C(3) \in Int /\ C(4) \in Int
    BY <1>3
  <2>6. Numerator(y, b, g, i)
          = (y[i + 4] * C(0)) + ((y[i + 3] * C(1)) + ((y[i + 2] * C(2)) + ((y[i + 1] * C(3)) + (y[i] * C(4)))))
    BY <1>4 DEF Numerator, C
  <2>7. /\ y[4] \in Int /\ y[5] \in Int /\ y[6] \in Int /\ y[7] \in Int
    BY <1>1
  <2>8. CASE i = 0
    <3>1. Is(s[0] (.) p[0], y[4] * C(0), D) /\ Is(p[1], d * C(1), D)
      <4>1. 0 \in 0 .. n - 1 /\ 0 \in 0 .. n /\ 1 \in 0 .. n /\ 0 + 4 = 4
        OBVIOUS
      <4>2. QED
        BY <1>6, <1>7, <4>1
    <3>2. Is((s[0] (.) p[0]) (+) Zero, (y[4] * C(0)) + 0, D)
      BY <2>4, <3>1, SumIs
    <3>3. Is(((s[0] (.) p[0]) (+) Zero) (+) p[1], ((y[4] * C(0)) + 0) + (d * C(1)), D)
      BY <3>1, <3>2, SumIs
    <3>4. Numerator(y, b, g, i)
            = (y[4] * C(0)) + ((d * C(1)) + ((0 * C(2)) + ((0 * C(3)) + (0 * C(4)))))
      BY <1>1, <2>6, <2>8
    <3>5. ((y[4] * C(0)) + 0) + (d * C(1))
            = (y[4] * C(0)) + ((d * C(1)) + ((0 * C(2)) + ((0 * C(3)) + (0 * C(4)))))
      <4>1. y[4] * C(0) \in Int /\ d * C(1) \in Int
        BY <1>1, <2>5, <2>7
      <4>2. QED
        BY <2>5, <4>1, NothingLeft
    <3>6. i + 1 = 1
      BY <2>8
    <3>7. QED
      BY <2>3, <2>8, <3>3, <3>4, <3>5, <3>6
  <2>9. CASE i = 1
    <3>1. /\ Is(s[1] (.) p[0], y[5] * C(0), D) /\ Is(s[0] (.) p[1], y[4] * C(1), D) /\ Is(p[2], d * C(2), D)
      <4>1. /\ 0 \in 0 .. n - 1 /\ 1 \in 0 .. n - 1 /\ 0 \in 0 .. n /\ 1 \in 0 .. n /\ 2 \in 0 .. n
            /\ 0 + 4 = 4 /\ 1 + 4 = 5
        BY <2>9
      <4>2. QED
        BY <1>6, <1>7, <4>1
    <3>2. Is((s[0] (.) p[1]) (+) Zero, (y[4] * C(1)) + 0, D)
      BY <2>4, <3>1, SumIs
    <3>3. Is((s[1] (.) p[0]) (+) ((s[0] (.) p[1]) (+) Zero), (y[5] * C(0)) + ((y[4] * C(1)) + 0), D)
      BY <3>1, <3>2, SumIs
    <3>4. Is(((s[1] (.) p[0]) (+) ((s[0] (.) p[1]) (+) Zero)) (+) p[2],
             ((y[5] * C(0)) + ((y[4] * C(1)) + 0)) + (d * C(2)), D)
      BY <3>1, <3>3, SumIs
    <3>5. Numerator(y, b, g, i)
            = (y[5] * C(0)) + ((y[4] * C(1)) + ((d * C(2)) + ((0 * C(3)) + (0 * C(4)))))
      BY <1>1, <2>6, <2>9
    <3>6. ((y[5] * C(0)) + ((y[4] * C(1)) + 0)) + (d * C(2))
            = (y[5] * C(0)) + ((y[4] * C(1)) + ((d * C(2)) + ((0 * C(3)) + (0 * C(4)))))
      <4>1. y[5] * C(0) \in Int /\ y[4] * C(1) \in Int /\ d * C(2) \in Int
        BY <1>1, <2>5, <2>7
      <4>2. QED
        BY <2>5, <4>1, NothingLeft
    <3>7. i + 1 = 2
      BY <2>9
    <3>8. QED
      BY <2>3, <2>9, <3>4, <3>5, <3>6, <3>7
  <2>10. CASE i = 2
    <3>1. /\ Is(s[2] (.) p[0], y[6] * C(0), D) /\ Is(s[1] (.) p[1], y[5] * C(1), D)
          /\ Is(s[0] (.) p[2], y[4] * C(2), D) /\ Is(p[3], d * C(3), D)
      <4>1. /\ 0 \in 0 .. n - 1 /\ 1 \in 0 .. n - 1 /\ 2 \in 0 .. n - 1
            /\ 0 \in 0 .. n /\ 1 \in 0 .. n /\ 2 \in 0 .. n /\ 3 \in 0 .. n
            /\ 0 + 4 = 4 /\ 1 + 4 = 5 /\ 2 + 4 = 6
        BY <2>10
      <4>2. QED
        BY <1>6, <1>7, <4>1
    <3>2. Is((s[0] (.) p[2]) (+) Zero, (y[4] * C(2)) + 0, D)
      BY <2>4, <3>1, SumIs
    <3>3. Is((s[1] (.) p[1]) (+) ((s[0] (.) p[2]) (+) Zero), (y[5] * C(1)) + ((y[4] * C(2)) + 0), D)
      BY <3>1, <3>2, SumIs
    <3>4. Is((s[2] (.) p[0]) (+) ((s[1] (.) p[1]) (+) ((s[0] (.) p[2]) (+) Zero)),
             (y[6] * C(0)) + ((y[5] * C(1)) + ((y[4] * C(2)) + 0)), D)
      BY <3>1, <3>3, SumIs
    <3>5. Is(((s[2] (.) p[0]) (+) ((s[1] (.) p[1]) (+) ((s[0] (.) p[2]) (+) Zero))) (+) p[3],
             ((y[6] * C(0)) + ((y[5] * C(1)) + ((y[4] * C(2)) + 0))) + (d * C(3)), D)
      BY <3>1, <3>4, SumIs
    <3>6. Numerator(y, b, g, i)
            = (y[6] * C(0)) + ((y[5] * C(1)) + ((y[4] * C(2)) + ((d * C(3)) + (0 * C(4)))))
      BY <1>1, <2>6, <2>10
    <3>7. ((y[6] * C(0)) + ((y[5] * C(1)) + ((y[4] * C(2)) + 0))) + (d * C(3))
            = (y[6] * C(0)) + ((y[5] * C(1)) + ((y[4] * C(2)) + ((d * C(3)) + (0 * C(4)))))
      <4>1. y[6] * C(0) \in Int /\ y[5] * C(1) \in Int /\ y[4] * C(2) \in Int /\ d * C(3) \in Int
        BY <1>1, <2>5, <2>7
      <4>2. QED
        BY <2>5, <4>1, NothingLeft
    <3>8. i + 1 = 3
      BY <2>10
    <3>9. QED
      BY <2>3, <2>10, <3>5, <3>6, <3>7, <3>8
  <2>11. CASE i = 3
    <3>1. /\ Is(s[3] (.) p[0], y[7] * C(0), D) /\ Is(s[2] (.) p[1], y[6] * C(1), D)
          /\ Is(s[1] (.) p[2], y[5] * C(2), D) /\ Is(s[0] (.) p[3], y[4] * C(3), D) /\ Is(p[4], d * C(4), D)
      <4>1. /\ 0 \in 0 .. n - 1 /\ 1 \in 0 .. n - 1 /\ 2 \in 0 .. n - 1 /\ 3 \in 0 .. n - 1
            /\ 0 \in 0 .. n /\ 1 \in 0 .. n /\ 2 \in 0 .. n /\ 3 \in 0 .. n /\ 4 \in 0 .. n
            /\ 0 + 4 = 4 /\ 1 + 4 = 5 /\ 2 + 4 = 6 /\ 3 + 4 = 7
        BY <2>11
      <4>2. QED
        BY <1>6, <1>7, <4>1
    <3>2. Is((s[0] (.) p[3]) (+) Zero, (y[4] * C(3)) + 0, D)
      BY <2>4, <3>1, SumIs
    <3>3. Is((s[1] (.) p[2]) (+) ((s[0] (.) p[3]) (+) Zero), (y[5] * C(2)) + ((y[4] * C(3)) + 0), D)
      BY <3>1, <3>2, SumIs
    <3>4. Is((s[2] (.) p[1]) (+) ((s[1] (.) p[2]) (+) ((s[0] (.) p[3]) (+) Zero)),
             (y[6] * C(1)) + ((y[5] * C(2)) + ((y[4] * C(3)) + 0)), D)
      BY <3>1, <3>3, SumIs
    <3>5. Is((s[3] (.) p[0]) (+) ((s[2] (.) p[1]) (+) ((s[1] (.) p[2]) (+) ((s[0] (.) p[3]) (+) Zero))),
             (y[7] * C(0)) + ((y[6] * C(1)) + ((y[5] * C(2)) + ((y[4] * C(3)) + 0))), D)
      BY <3>1, <3>4, SumIs
    <3>6. Is(((s[3] (.) p[0]) (+) ((s[2] (.) p[1]) (+) ((s[1] (.) p[2]) (+) ((s[0] (.) p[3]) (+) Zero)))) (+) p[4],
             ((y[7] * C(0)) + ((y[6] * C(1)) + ((y[5] * C(2)) + ((y[4] * C(3)) + 0)))) + (d * C(4)), D)
      BY <3>1, <3>5, SumIs
    <3>7. Numerator(y, b, g, i)
            = (y[7] * C(0)) + ((y[6] * C(1)) + ((y[5] * C(2)) + ((y[4] * C(3)) + (d * C(4)))))
      BY <1>1, <2>6, <2>11
    <3>8. ((y[7] * C(0)) + ((y[6] * C(1)) + ((y[5] * C(2)) + ((y[4] * C(3)) + 0)))) + (d * C(4))
            = (y[7] * C(0)) + ((y[6] * C(1)) + ((y[5] * C(2)) + ((y[4] * C(3)) + (d * C(4)))))
      BY <1>1, <2>5, <2>7
    <3>9. i + 1 = 4
      BY <2>11
    <3>10. QED
      BY <2>3, <2>11, <3>6, <3>7, <3>8, <3>9
  <2>12. QED
    BY <2>1, <2>8, <2>9, <2>10, <2>11
<1>9. QED
  BY <1>8 DEF D

\* What the methods reach is the solution.
LEMMA ReachedIsExact ==
  ASSUME NEW n \in 1 .. 4, NEW s \in [0 .. n - 1 -> Rationals], NEW h \in Rationals,
         NEW p, \A k \in 0 .. n : p[k] = Divided(k, h)
  PROVE  \A i \in 0 .. n - 1 :
           /\ s[i] (+) Weighed(s, h, i) = Convolved(s, p, i) (+) p[i + 1]
           /\ n <= 2 => s[i] (+) Halfway(s, h, i) = Convolved(s, p, i) (+) p[i + 1]
           /\ n <= 1 => s[i] (+) Stage1(s, h, i) = Convolved(s, p, i) (+) p[i + 1]
<1>1. PICK y, d : ChainIs(n, s, y, d)
  BY ChainHasFractions
<1>2. PICK b, g : StepIs(h, b, g)
  <2>1. Zero \in Rationals
    BY Wholes DEF Is
  <2>2. QED
    BY <2>1, TimesInHalves DEF StepIs
<1>3. ASSUME NEW a, NEW c, NEW m, NEW e, Is(a, m, e), Is(c, m, e) PROVE a = c
  BY <1>3, IsOneNumber
<1>4. \A i \in 0 .. n - 1 : Is(Convolved(s, p, i) (+) p[i + 1], Numerator(y, b, g, i), d * Divisor(g))
  BY <1>1, <1>2, ExactInFractions
<1>5. \A i \in 0 .. n - 1 : s[i] (+) Weighed(s, h, i) = Convolved(s, p, i) (+) p[i + 1]
  <2>1. \A i \in 0 .. n - 1 : Is(s[i] (+) Weighed(s, h, i), Numerator(y, b, g, i), d * Divisor(g))
    BY <1>1, <1>2, FourthInFractions
  <2>2. QED
    BY <1>3, <1>4, <2>1
<1>6. ASSUME n <= 2
      PROVE  \A i \in 0 .. n - 1 : s[i] (+) Halfway(s, h, i) = Convolved(s, p, i) (+) p[i + 1]
  <2>1. n \in 1 .. 2
    BY <1>6
  <2>2. \A i \in 0 .. n - 1 : Is(s[i] (+) Halfway(s, h, i), Numerator(y, b, g, i), d * Divisor(g))
    BY <1>1, <1>2, <2>1, SecondInFractions
  <2>3. QED
    BY <1>3, <1>4, <2>2
<1>7. ASSUME n <= 1
      PROVE  \A i \in 0 .. n - 1 : s[i] (+) Stage1(s, h, i) = Convolved(s, p, i) (+) p[i + 1]
  <2>1. n = 1 /\ \A i \in 0 .. n - 1 : i = 0
    BY <1>7
  <2>2. Is(s[0] (+) Stage1(s, h, 0), Numerator(y, b, g, 0), d * Divisor(g))
    BY <1>1, <1>2, <2>1, FirstInFractions
  <2>3. QED
    BY <1>3, <1>4, <2>1, <2>2
<1>8. QED
  BY <1>5, <1>6, <1>7

\* A chain of at most four integrators, from any states and with any step: RungeKutta4 ends
\* on the polynomial that solves it, RungeKutta2 for a chain of at most two and Euler for a
\* single one, each with the time and the rates that belong to it.
THEOREM ChainsAreExact ==
  ASSUME NEW n \in 1 .. 4, NEW s \in [0 .. n - 1 -> Rationals], NEW h \in Rationals
  PROVE  ChainLaw(n, s, h)
<1> DEFINE Power[k \in 0 .. n] == IF k = 0 THEN One ELSE (Power[k - 1] (.) h) (/) Whole(k)
           Exact == [i \in 0 .. n - 1 |->
                      SumOver(0 .. i, LAMBDA k : s[k] (.) Power[i - k]) (+) Power[i + 1]]
           start == Chain!Evaluated(<<>>, s, Zero)
           Correct(m) == m.s = Exact /\ m.time = h /\ m.R = ChainRates(<<>>, Exact, h)
<1>1. \A k \in 0 .. n : Power[k] = Divided(k, h)
  BY DividedIs
<1>2. Exact = [i \in 0 .. n - 1 |-> Convolved(s, Power, i) (+) Power[i + 1]]
  BY DEF Convolved
<1>3. \A i \in 0 .. n - 1 :
        /\ s[i] (+) Weighed(s, h, i) = Convolved(s, Power, i) (+) Power[i + 1]
        /\ n <= 2 => s[i] (+) Halfway(s, h, i) = Convolved(s, Power, i) (+) Power[i + 1]
        /\ n <= 1 => s[i] (+) Stage1(s, h, i) = Convolved(s, Power, i) (+) Power[i + 1]
  <2> HIDE DEF Power
  <2>1. QED
    BY <1>1, ReachedIsExact
<1>4. n \in Nat /\ DOMAIN s = 0 .. n - 1 /\ Zero (+) h = h
  BY Neutral
<1>5. /\ Exact = [i \in 0 .. n - 1 |-> s[i] (+) Weighed(s, h, i)]
      /\ n <= 2 => Exact = [i \in 0 .. n - 1 |-> s[i] (+) Halfway(s, h, i)]
      /\ n <= 1 => Exact = [i \in 0 .. n - 1 |-> s[i] (+) Stage1(s, h, i)]
  <2> HIDE DEF Power, Exact
  <2>1. QED
    BY <1>2, <1>3
<1>6. /\ Correct(Chain!RungeKutta4(start, h))
      /\ n <= 2 => Correct(Chain!RungeKutta2(start, h))
      /\ n <= 1 => Correct(Chain!Euler(start, h))
      /\ Chain!Discrete(start, h).s = ChainRates(<<>>, s, Zero)
  <2> DEFINE Reached(m, after) == m.s = after /\ m.time = Zero (+) h /\ m.R = ChainRates(<<>>, after, Zero (+) h)
  <2>1. Reached(Chain!RungeKutta4(start, h), [i \in 0 .. n - 1 |-> s[i] (+) Weighed(s, h, i)])
    BY <1>4, ChainInFour
  <2>2. Reached(Chain!RungeKutta2(start, h), [i \in 0 .. n - 1 |-> s[i] (+) Halfway(s, h, i)])
    BY <1>4, ChainInTwo
  <2>3. /\ Reached(Chain!Euler(start, h), [i \in 0 .. n - 1 |-> s[i] (+) Stage1(s, h, i)])
        /\ Chain!Discrete(start, h).s = ChainRates(<<>>, s, Zero)
    BY <1>4, ChainInOne
  <2> HIDE DEF Power, Exact, start
  <2>4. \A m : Reached(m, Exact) => Correct(m)
    BY <1>4
  <2> HIDE DEF Reached, Correct
  <2>5. QED
    BY <1>5, <2>1, <2>2, <2>3, <2>4
<1>7. QED
  BY <1>6 DEF ChainLaw

-----------------------------------------------------------------------------
(***************************************************************************)
(* Ramps and impulses.                                                     *)
(***************************************************************************)

\* A sum from 0 to m is c[m + 1], when c starts at 0 and grows by the terms: if not, there
\* is a least place where c is not the sum up to there.
LEMMA SumIsClosed ==
  ASSUME NEW m \in Nat, NEW t, NEW c, c[0] = Zero,
         \A j \in 0 .. m : t[j] \in Rationals /\ c[j + 1] = t[j] (+) c[j]
  PROVE  Amount(0 .. m, t) = c[m + 1]
<1> DEFINE S == 0 .. m
<1>1. IsFiniteSet(S)
  BY FS_Interval
<1>2. PICK g : AddsUp(S, t, g) /\ Amount(S, t) = g[S]
  BY <1>1, AmountEquation
<1>3. g[{}] = Zero /\ \A s \in SUBSET S : \A x \in s : g[s] = t[x] (+) g[s \ {x}]
  <2>1. \A x \in S : t[x] \in Rationals
    OBVIOUS
  <2> HIDE DEF S
  <2>2. QED
    BY <1>1, <1>2, <2>1, AmountIs
<1>4. ASSUME NEW j \in 0 .. m PROVE g[0 .. j] = t[j] (+) g[0 .. j - 1]
  <2>1. 0 .. j \in SUBSET S /\ j \in 0 .. j /\ (0 .. j) \ {j} = 0 .. j - 1
    OBVIOUS
  <2> HIDE DEF S
  <2>2. QED
    BY <1>3, <2>1
<1> DEFINE Bad == {n \in Nat : n <= m + 1 /\ g[0 .. n - 1] # c[n]}
<1>5. Bad = {}
  <2>1. ASSUME Bad # {} PROVE FALSE
    <3>1. PICK n \in Bad : \A k \in Bad : n <= k
      <4>1. Bad \subseteq Nat
        OBVIOUS
      <4> HIDE DEF Bad
      <4>2. QED
        BY <2>1, <4>1, LeastNumber
    <3>2. n \in Nat /\ n <= m + 1 /\ g[0 .. n - 1] # c[n]
      OBVIOUS
    <3>3. n # 0
      <4>1. 0 .. 0 - 1 = {}
        OBVIOUS
      <4>2. QED
        BY <1>3, <3>2, <4>1
    <3>4. PICK j \in Nat : j = n - 1 /\ j \in 0 .. m /\ j + 1 = n /\ j <= m + 1 /\ ~(n <= j)
      BY <3>2, <3>3
    <3>5. g[0 .. j - 1] = c[j]
      BY <3>1, <3>4
    <3>6. g[0 .. j] = c[j + 1]
      BY <1>4, <3>4, <3>5
    <3>7. QED
      BY <3>2, <3>4, <3>6
  <2>2. QED
    BY <2>1
<1>6. m + 1 \in Nat /\ (m + 1) - 1 = m
  OBVIOUS
<1>7. g[0 .. m] = c[m + 1]
  BY <1>5, <1>6
<1>8. QED
  BY <1>2, <1>7

\* The steps that a ramp adds up.
LEMMA StepsAddUp ==
  ASSUME NEW m \in Nat
  PROVE  XXRamp(Whole(2), Whole(m + 1)) = SumOver(0 .. m, LAMBDA k : XXStep(Whole(2), Whole(k)))
<1> DEFINE S == 0 .. m
           Term(k) == XXStep(Whole(2), Whole(k))
           t == [k \in S |-> Term(k)]
           c == [k \in Nat |-> Whole(IF k < 2 THEN 0 ELSE k - 2)]
           Chosen(f) == f = [r \in SUBSET S |-> IF r = {} THEN Zero ELSE Term(FirstOf(r)) (+) f[r \ {FirstOf(r)}]]
           g == CHOOSE f : Chosen(f)
<1>1. SumOver(S, Term) = g[S]
  BY DEF SumOver, MapThenFoldSet, FirstOf
<1>2. ASSUME NEW a \in Int, NEW b \in Int
      PROVE  Whole(a) (+) Whole(b) = Whole(a + b) /\ Whole(a) (-) Whole(b) = Whole(a - b)
             /\ (Less(Whole(a), Whole(b)) <=> a < b)
  <2>1. 1 * 1 = 1 /\ (a * 1) + (b * 1) = a + b /\ (a * 1) - (b * 1) = a - b /\ a * 1 = a /\ b * 1 = b
    OBVIOUS
  <2>2. Less(Whole(a), Whole(b)) <=> a < b
    BY <2>1 DEF Less, Whole
  <2>3. Whole(a) (+) Whole(b) = Ratio(a + b, 1) /\ Whole(a) (-) Whole(b) = Ratio(a - b, 1)
    BY <2>1 DEF Whole, \oplus, \ominus
  <2>4. QED
    BY <2>2, <2>3 DEF Ratio, Whole
<1>3. ASSUME NEW k \in S
      PROVE  /\ Term(k) = Whole(IF k < 2 THEN 0 ELSE 1) /\ Term(k) \in Rationals
             /\ c[k + 1] = Term(k) (+) c[k]
  <2>1. k \in Nat /\ k \in Int /\ k + 1 \in Nat /\ 2 \in Int
    OBVIOUS
  <2>2. Term(k) = Whole(IF k < 2 THEN 0 ELSE 1)
    BY <1>2, <2>1 DEF XXStep, Zero, One
  <2>3. /\ c[k] = Whole(IF k < 2 THEN 0 ELSE k - 2)
        /\ c[k + 1] = Whole(IF k + 1 < 2 THEN 0 ELSE (k + 1) - 2)
    BY <2>1
  <2>4. PICK a \in Int, b \in Int :
          /\ a = (IF k < 2 THEN 0 ELSE 1) /\ b = (IF k < 2 THEN 0 ELSE k - 2)
          /\ a + b = (IF k + 1 < 2 THEN 0 ELSE (k + 1) - 2)
    BY <2>1
  <2> HIDE DEF Term, c
  <2>5. Whole(a) (+) Whole(b) = Whole(a + b) /\ Whole(a) \in Rationals
    BY <1>2, Wholes
  <2>6. Term(k) = Whole(a) /\ c[k] = Whole(b) /\ c[k + 1] = Whole(a + b)
    BY <2>2, <2>3, <2>4
  <2>7. QED
    BY <2>2, <2>5, <2>6
<1>4. IsFiniteSet(S)
  BY FS_Interval
<1>5. \A r \in SUBSET S : r # {} => FirstOf(r) \in S
  BY DEF FirstOf
<1>6. c[0] = Zero
  BY DEF Zero
<1>7. c[m + 1] = XXRamp(Whole(2), Whole(m + 1))
  <2>1. m + 1 \in Nat /\ m + 1 \in Int /\ 2 \in Int
    OBVIOUS
  <2>2. c[m + 1] = Whole(IF m + 1 < 2 THEN 0 ELSE (m + 1) - 2)
    BY <2>1
  <2> HIDE DEF c
  <2>3. QED
    BY <1>2, <2>1, <2>2 DEF XXRamp, Zero
<1>8. \A x \in S : t[x] = Term(x) /\ t[x] \in Rationals
  BY <1>3
<1> HIDE DEF Term, t, c
<1>9. Amount(0 .. m, t) = c[m + 1]
  BY <1>3, <1>6, <1>8, SumIsClosed
<1> HIDE DEF S
<1>10. \A f : AddsUp(S, t, f) <=> Chosen(f)
  <2>1. ASSUME NEW f
        PROVE  [r \in SUBSET S |-> IF r = {} THEN Zero ELSE t[FirstOf(r)] (+) f[r \ {FirstOf(r)}]]
                 = [r \in SUBSET S |-> IF r = {} THEN Zero ELSE Term(FirstOf(r)) (+) f[r \ {FirstOf(r)}]]
    BY <1>5, <1>8
  <2>2. QED
    BY <2>1 DEF AddsUp
<1>11. AddsUp(S, t, g)
  <2>1. PICK h : Chosen(h)
    BY <1>4, <1>10, SumExists
  <2> HIDE DEF Chosen
  <2>2. Chosen(g)
    BY <2>1
  <2>3. QED
    BY <1>10, <2>2
<1> HIDE DEF g
<1>12. Amount(S, t) = g[S]
  <2>1. PICK h : AddsUp(S, t, h) /\ Amount(S, t) = h[S]
    BY <1>4, AmountEquation
  <2>2. QED
    BY <1>4, <1>11, <2>1, SumIsUnique
<1>13. QED
  BY <1>1, <1>7, <1>9, <1>12 DEF S, Term

\* A sample of the impulse times the step of the samples.
ImpulseAt(x, y, k) == Abs(y) (.) XXImpulse(y, Abs(x), y (+) (Abs(y) (.) Whole(k - 2)), Abs(y))
AreaOf(x, y) == SumOver(0 .. 20, LAMBDA k : ImpulseAt(x, y, k))

\* The area is the end of a function that grows by the samples.
LEMMA AreaIs ==
  ASSUME NEW x, NEW y, NEW c, c[0] = Zero,
         \A k \in 0 .. 20 : ImpulseAt(x, y, k) \in Rationals /\ c[k + 1] = ImpulseAt(x, y, k) (+) c[k]
  PROVE  AreaOf(x, y) = c[21]
<1> DEFINE S == 0 .. 20
           Term(k) == ImpulseAt(x, y, k)
           t == [k \in S |-> Term(k)]
           Chosen(f) == f = [r \in SUBSET S |-> IF r = {} THEN Zero ELSE Term(FirstOf(r)) (+) f[r \ {FirstOf(r)}]]
           g == CHOOSE f : Chosen(f)
<1>1. AreaOf(x, y) = g[S]
  BY DEF AreaOf, SumOver, MapThenFoldSet, FirstOf
<1>2. IsFiniteSet(S)
  <2>1. 0 \in Int /\ 20 \in Int
    OBVIOUS
  <2>2. QED
    BY <2>1, FS_Interval
<1>3. \A r \in SUBSET S : r # {} => FirstOf(r) \in S
  BY DEF FirstOf
<1>4. \A k \in S : t[k] = Term(k) /\ t[k] \in Rationals /\ c[k + 1] = t[k] (+) c[k]
  OBVIOUS
<1> HIDE DEF Term, t
<1>5. Amount(0 .. 20, t) = c[20 + 1]
  <2>1. PICK m \in Nat : m = 20
    OBVIOUS
  <2>2. \A k \in 0 .. m : t[k] \in Rationals /\ c[k + 1] = t[k] (+) c[k]
    BY <1>4, <2>1
  <2>3. Amount(0 .. m, t) = c[m + 1]
    BY <2>2, SumIsClosed
  <2>4. QED
    BY <2>1, <2>3
<1> HIDE DEF S
<1>6. \A f : AddsUp(S, t, f) <=> Chosen(f)
  <2>1. ASSUME NEW f
        PROVE  [r \in SUBSET S |-> IF r = {} THEN Zero ELSE t[FirstOf(r)] (+) f[r \ {FirstOf(r)}]]
                 = [r \in SUBSET S |-> IF r = {} THEN Zero ELSE Term(FirstOf(r)) (+) f[r \ {FirstOf(r)}]]
    BY <1>3, <1>4
  <2>2. QED
    BY <2>1 DEF AddsUp
<1>7. AddsUp(S, t, g)
  <2>1. PICK h : Chosen(h)
    BY <1>2, <1>6, SumExists
  <2> HIDE DEF Chosen
  <2>2. Chosen(g)
    BY <2>1
  <2>3. QED
    BY <1>6, <2>2
<1> HIDE DEF g
<1>8. Amount(S, t) = g[S]
  <2>1. PICK h : AddsUp(S, t, h) /\ Amount(S, t) = h[S]
    BY <1>2, AmountEquation
  <2>2. QED
    BY <1>2, <1>7, <2>1, SumIsUnique
<1>9. 20 + 1 = 21
  OBVIOUS
<1>10. QED
  BY <1>1, <1>5, <1>8, <1>9 DEF S

\* Multiples of p up to q, of which the first n are not above it.
Counts(p, q, n) ==
  /\ n \in 1 .. 19 /\ \A j \in 0 .. 18 : p * j <= q <=> j < n
  /\ p * (n - 1) <= q /\ q <= p * n /\ p <= p * n

\* There are as many as q has of them, up to 19.
LEMMA MultiplesReach ==
  ASSUME NEW p \in Nat, p > 0, NEW q \in Nat, q <= 19 * p
  PROVE  \E n : Counts(p, q, n)
<1>1. PICK k \in Nat, r \in Nat : q = (p * k) + r /\ r < p
  <2>1. q % p \in Nat /\ q % p < p /\ q \div p \in Nat /\ q = (p * (q \div p)) + (q % p)
    BY Division
  <2>2. QED
    BY <2>1
<1>2. \A j \in Nat : (j <= k => p * j <= p * k) /\ (j > k => p * j >= (p * k) + p)
  <2>1. ASSUME NEW j \in Nat PROVE (j <= k => p * j <= p * k) /\ (j > k => p * j >= (p * k) + p)
    <3>1. CASE j <= k
      <4>1. PICK e \in Nat : k = j + e
        BY <3>1
      <4>2. p * k = (p * j) + (p * e) /\ p * e >= 0
        BY <4>1
      <4>3. QED
        BY <3>1, <4>2
    <3>2. CASE j > k
      <4>1. PICK e \in Nat : j = (k + 1) + e
        <5>1. j - (k + 1) \in Nat /\ j = (k + 1) + (j - (k + 1))
          BY <3>2
        <5>2. QED
          BY <5>1
      <4>2. p * j = ((p * k) + p) + (p * e) /\ p * e >= 0
        BY <4>1
      <4>3. QED
        BY <3>2, <4>2
    <3>3. QED
      BY <3>1, <3>2
  <2>2. QED
    BY <2>1
<1>3. \A j \in Nat : p * j \in Nat /\ (p * j <= q <=> j <= k)
  BY <1>1, <1>2
<1>4. CASE k <= 18
  <2>1. /\ k + 1 \in 1 .. 19 /\ \A j \in 0 .. 18 : j \in Nat /\ (j <= k <=> j < k + 1)
        /\ (k + 1) - 1 = k /\ p * (k + 1) = (p * k) + p /\ p * k >= 0 /\ p * k \in Nat
    BY <1>4
  <2>2. Counts(p, q, k + 1)
    BY <1>1, <1>3, <2>1 DEF Counts
  <2>3. QED
    BY <2>2
<1>5. CASE k > 18
  <2>1. /\ 19 \in 1 .. 19 /\ 19 - 1 = 18 /\ 18 \in Nat /\ p * 19 = 19 * p /\ p <= p * 19
        /\ \A j \in 0 .. 18 : j \in Nat /\ j <= k /\ j < 19
    BY <1>5
  <2>2. Counts(p, q, 19)
    BY <1>3, <1>5, <2>1 DEF Counts
  <2>3. QED
    BY <2>2
<1>6. QED
  BY <1>4, <1>5

\* What an impulse gives, in whole numbers: p over m where p is the step and m the larger
\* one of the step and of the duration q.
SamplesAre(x, y, p, q, m, w) ==
  /\ p \in Nat /\ p > 0 /\ q \in Nat /\ m = (IF p < q THEN q ELSE p) /\ Is(w, p, m)
  /\ ~Less(Whole(19) (.) Abs(y), Abs(x)) => q <= 19 * p
  /\ \A k \in 0 .. 20 : ImpulseAt(x, y, k) = IF k - 2 \in 0 .. 18 /\ p * (k - 2) <= q THEN w ELSE Zero

\* A sample is a height within the impulse, and zero before and after it.
LEMMA SampledIs ==
  ASSUME NEW x \in Rationals, NEW y \in Rationals, x # Zero, y # Zero
  PROVE  \E p, q, m, w : SamplesAre(x, y, p, q, m, w)
<1>1. PICK n \in Int, u \in Int, d \in Int : Is(x, n, d) /\ Is(y, u, d) /\ d > 0
  <2>1. PICK n, u, e \in Int : Is(x, n, e) /\ Is(y, u, e)
    BY CommonDenominator
  <2>2. e # 0
    BY <2>1 DEF Is
  <2>3. CASE e > 0
    BY <2>1, <2>3
  <2>4. CASE e < 0
    <3>1. -1 \in Int /\ -1 # 0 /\ n * (-1) \in Int /\ u * (-1) \in Int /\ e * (-1) \in Int /\ e * (-1) > 0
      BY <2>4
    <3>2. Is(x, n * (-1), e * (-1)) /\ Is(y, u * (-1), e * (-1))
      BY <2>1, <3>1, Extended
    <3>3. QED
      BY <3>1, <3>2
  <2>5. QED
    BY <2>2, <2>3, <2>4
<1>2. PICK p \in Nat, q \in Nat : p = Magnitude(u) /\ q = Magnitude(n) /\ Is(Abs(y), p, d) /\ Is(Abs(x), q, d)
  <2>1. Magnitude(u) \in Nat /\ Magnitude(n) \in Nat
    BY DEF Magnitude
  <2>2. QED
    BY <1>1, <2>1, AbsIs
<1>3. p > 0 /\ q > 0
  <2>1. n # 0 /\ u # 0
    <3>1. x[1] # 0 /\ y[1] # 0
      BY ZeroNumerator
    <3>2. QED
      BY <1>1, <3>1, SignIs
  <2>2. QED
    BY <1>2, <2>1 DEF Magnitude
<1> DEFINE m == IF p < q THEN q ELSE p
           a == Abs(y)
           D == Abs(x)
           top == IF Less(a, D) THEN D ELSE a
           w == a (.) (One (/) top)
<1>4. m \in Nat /\ m > 0
  BY <1>3
<1>5. \A i, j \in Int : d * i < d * j <=> i < j
  BY <1>1, PositiveFactor
<1>6. ASSUME NEW r, NEW s, NEW i \in Int, NEW j \in Int, Is(r, i, d), Is(s, j, d) PROVE Less(r, s) <=> i < j
  <2>1. Less(r, s) <=> i * d < j * d
    BY <1>1, <1>6, LessIs
  <2>2. i * d = d * i /\ j * d = d * j
    BY <1>1
  <2>3. QED
    BY <1>5, <2>1, <2>2
<1>7. Is(top, m, d)
  BY <1>2, <1>6
<1>8. Is(w, p, m)
  <2>1. Is(One (/) top, 1 * d, 1 * m)
    <3>1. Is(One, 1, 1) /\ m # 0
      BY <1>4, Wholes
    <3> HIDE DEF m, top
    <3>2. QED
      BY <1>7, <3>1, ArithmeticIs
  <2>2. Is(w, p * (1 * d), d * (1 * m))
    BY <1>2, <2>1, ArithmeticIs
  <2>3. p * (1 * d) = p * d /\ d * (1 * m) = m * d
    <3>1. m \in Int /\ d \in Int /\ p \in Int
      BY <1>4
    <3> HIDE DEF m
    <3>2. QED
      BY <3>1
  <2>4. m # 0 /\ d # 0 /\ m \in Int /\ p \in Int
    BY <1>1, <1>4
  <2> HIDE DEF m, w
  <2>5. Is(w, p * d, m * d)
    BY <2>2, <2>3
  <2>6. QED
    BY <2>4, <2>5, Shortened
<1>9. Is(Zero, 0, d)
  <2>1. Is(Zero, 0, 1) /\ 0 \in Int /\ d \in Int /\ d # 0 /\ 0 * d = 0 * 1
    BY <1>1, Wholes
  <2>2. QED
    BY <2>1, SameFraction
<1>10. ~Less(Whole(19) (.) a, D) => q <= 19 * p
  <2>1. Is(Whole(19) (.) a, 19 * p, 1 * d)
    <3>1. 19 \in Int
      OBVIOUS
    <3>2. Is(Whole(19), 19, 1)
      BY <3>1, Wholes
    <3>3. QED
      BY <1>2, <3>2, ArithmeticIs
  <2>2. 1 * d = d /\ 19 * p \in Int /\ q \in Int
    OBVIOUS
  <2>3. Less(Whole(19) (.) a, D) <=> 19 * p < q
    BY <1>2, <1>6, <2>1, <2>2
  <2>4. QED
    BY <2>2, <2>3
<1>11. Less(Zero, a) /\ Less(Zero, D)
  BY <1>2, <1>3, <1>6, <1>9
<1>12. ASSUME NEW k \in 0 .. 20
       PROVE  ImpulseAt(x, y, k) = IF k - 2 \in 0 .. 18 /\ p * (k - 2) <= q THEN w ELSE Zero
  <2> DEFINE time == y (+) (a (.) Whole(k - 2))
  <2>1. k - 2 \in Int /\ p * (k - 2) \in Int /\ u \in Int /\ q \in Int
    OBVIOUS
  <2>2. Is(time, u + (p * (k - 2)), d)
    <3>1. Is(a (.) Whole(k - 2), p * (k - 2), d * 1)
      BY <1>2, <2>1, Wholes, ArithmeticIs
    <3>2. d * 1 = d
      BY <1>1
    <3>3. QED
      BY <1>1, <3>1, <3>2, SumIs
  <2>3. Is(y (+) D, u + q, d)
    BY <1>1, <1>2, SumIs
  <2>4. Less(time, y) <=> p * (k - 2) < 0
    BY <1>1, <1>6, <2>1, <2>2
  <2>5. Less(y (+) D, time) <=> q < p * (k - 2)
    BY <1>6, <2>1, <2>2, <2>3
  <2>6. p * (k - 2) < 0 <=> k < 2
    <3>1. p \in Int /\ p > 0 /\ 0 \in Int
      BY <1>3
    <3>2. p * (k - 2) < 0 <=> k - 2 < 0
      BY <2>1, <3>1, PositiveFactor
    <3>3. QED
      BY <3>2
  <2>7. k - 2 \in 0 .. 18 <=> ~(k < 2)
    OBVIOUS
  <2>8. ImpulseAt(x, y, k) = IF k < 2 \/ q < p * (k - 2) THEN a (.) Zero ELSE w
    BY <1>11, <2>4, <2>5, <2>6 DEF ImpulseAt, XXImpulse
  <2>9. a (.) Zero = Zero
    BY <1>2, TimesZero DEF Is
  <2> HIDE DEF w, a
  <2>10. QED
    BY <2>1, <2>7, <2>8, <2>9
<1>13. SamplesAre(x, y, p, q, m, w)
  BY <1>3, <1>8, <1>10, <1>12 DEF SamplesAre
<1>14. QED
  BY <1>13

\* An impulse that does not last, or is not sampled, has no area.
LEMMA NoArea ==
  ASSUME NEW x \in Rationals, NEW y \in Rationals, x = Zero \/ y = Zero
  PROVE  AreaOf(x, y) = Zero
<1>1. Abs(Zero) = Zero /\ ~Less(Zero, Zero)
  BY DEF Abs, Zero, Whole, Magnitude, Less
<1>2. Abs(y) \in Rationals
  BY AbsIsPositive
<1>3. \A k \in 0 .. 20 : ImpulseAt(x, y, k) = Zero
  BY <1>1, <1>2, TimesZero DEF ImpulseAt, XXImpulse
<1>4. PICK c : c = [j \in 0 .. 21 |-> Zero]
  OBVIOUS
<1>5. c[0] = Zero /\ c[21] = Zero /\ \A k \in 0 .. 20 : c[k + 1] = Zero /\ c[k] = Zero
  BY <1>4
<1>6. \A k \in 0 .. 20 : ImpulseAt(x, y, k) \in Rationals /\ c[k + 1] = ImpulseAt(x, y, k) (+) c[k]
  BY <1>3, <1>5, PlusZero
<1>7. QED
  BY <1>5, <1>6, AreaIs

\* The next whole number.
LEMMA WholePlusOne == \A i \in Int : Whole(1 + i) = One (+) Whole(i)
<1>1. ASSUME NEW i \in Int PROVE Whole(1 + i) = One (+) Whole(i)
  <2>1. 1 * 1 = 1 /\ (1 * 1) + (i * 1) = 1 + i
    OBVIOUS
  <2>2. One (+) Whole(i) = Ratio(1 + i, 1)
    BY <2>1 DEF Whole, One, \oplus
  <2>3. QED
    BY <2>2 DEF Ratio, Whole
<1>2. QED
  BY <1>1

\* The area of an impulse: its height times as many samples as it counts.
LEMMA AreaCounts ==
  ASSUME NEW x, NEW y, NEW p, NEW q, NEW m, NEW w, SamplesAre(x, y, p, q, m, w), NEW n, Counts(p, q, n)
  PROVE  AreaOf(x, y) = Whole(n) (.) w
<1>1. n \in 1 .. 19 /\ n \in Int /\ w \in Rationals /\ One \in Rationals
  BY Wholes DEF Counts, SamplesAre, Is
<1>2. \A k \in 0 .. 20 : ImpulseAt(x, y, k) = IF k >= 2 /\ k - 2 < n THEN w ELSE Zero
  <2>1. \A k \in 0 .. 20 : k - 2 \in 0 .. 18 <=> k >= 2
    OBVIOUS
  <2>2. \A j \in 0 .. 18 : p * j <= q <=> j < n
    BY DEF Counts
  <2>3. QED
    BY <2>1, <2>2 DEF SamplesAre
<1>3. PICK number : number = [j \in 0 .. 21 |-> IF j < 2 THEN 0 ELSE IF j - 2 < n THEN j - 2 ELSE n]
  OBVIOUS
<1>4. PICK c : c = [j \in 0 .. 21 |-> Whole(number[j]) (.) w]
  OBVIOUS
<1>5. /\ \A k \in 0 .. 20 : /\ number[k] \in Int
                           /\ number[k + 1] = IF k >= 2 /\ k - 2 < n THEN 1 + number[k] ELSE number[k]
      /\ number[0] = 0 /\ number[21] = n
  BY <1>1, <1>3
<1>6. \A k \in 0 .. 20 : c[k] = Whole(number[k]) (.) w /\ c[k + 1] = Whole(number[k + 1]) (.) w
  BY <1>4
<1>7. c[0] = Whole(number[0]) (.) w /\ c[21] = Whole(number[21]) (.) w
  BY <1>4
<1>8. ASSUME NEW k \in 0 .. 20
      PROVE  ImpulseAt(x, y, k) \in Rationals /\ c[k + 1] = ImpulseAt(x, y, k) (+) c[k]
  <2>1. PICK i \in Int : i = number[k]
    BY <1>5
  <2>2. Whole(i) \in Rationals /\ Whole(i) (.) w \in Rationals
    BY <1>1, Wholes, ProductClosed
  <2>3. CASE k >= 2 /\ k - 2 < n
    <3>1. Whole(1 + i) = One (+) Whole(i)
      BY WholePlusOne
    <3>2. (One (+) Whole(i)) (.) w = (One (.) w) (+) (Whole(i) (.) w)
      BY <1>1, <2>2, TimesSum
    <3>3. One (.) w = w
      BY <1>1, Neutral
    <3>4. ImpulseAt(x, y, k) = w /\ number[k + 1] = 1 + i
      BY <1>2, <1>5, <2>1, <2>3
    <3>5. QED
      BY <1>1, <1>6, <2>1, <3>1, <3>2, <3>3, <3>4
  <2>4. CASE ~(k >= 2 /\ k - 2 < n)
    <3>1. ImpulseAt(x, y, k) = Zero /\ number[k + 1] = i
      BY <1>2, <1>5, <2>1, <2>4
    <3>2. Zero \in Rationals /\ Zero (+) (Whole(i) (.) w) = Whole(i) (.) w
      BY <2>2, Wholes, Neutral
    <3>3. QED
      BY <1>6, <2>1, <3>1, <3>2
  <2>5. QED
    BY <2>3, <2>4
<1>9. c[0] = Zero
  <2>1. Zero (.) w = Zero
    BY <1>1, Neutral
  <2>2. QED
    BY <1>5, <1>7, <2>1 DEF Zero
<1>10. QED
  BY <1>5, <1>7, <1>8, <1>9, AreaIs

\* From the step of the samples on to 19 of them, the area is 1 to 2.
LEMMA AreaIsOneToTwo ==
  ASSUME NEW x \in Rationals, NEW y \in Rationals, x # Zero, y # Zero,
         ~Less(Whole(19) (.) Abs(y), Abs(x))
  PROVE  ~Less(AreaOf(x, y), One) /\ ~Less(Whole(2), AreaOf(x, y))
<1>1. PICK p, q, m, w : SamplesAre(x, y, p, q, m, w)
  BY SampledIs
<1>2. p \in Nat /\ p > 0 /\ q \in Nat /\ m = (IF p < q THEN q ELSE p) /\ Is(w, p, m) /\ q <= 19 * p
  BY <1>1 DEF SamplesAre
<1>3. PICK n : Counts(p, q, n)
  BY <1>2, MultiplesReach
<1>4. n \in Int /\ n >= 1 /\ p * (n - 1) <= q /\ q <= p * n /\ p <= p * n
  BY <1>3 DEF Counts
<1>5. Is(AreaOf(x, y), n * p, m)
  <2>1. Is(Whole(n), n, 1)
    BY <1>4, Wholes
  <2>2. Is(w, p, m)
    BY <1>2
  <2>3. Is(Whole(n) (.) w, n * p, 1 * m)
    BY <2>1, <2>2, ArithmeticIs
  <2>4. 1 * m = m
    BY <1>2
  <2>5. QED
    BY <1>1, <1>3, <2>3, <2>4, AreaCounts
<1>6. PICK k \in Int : k = n * p /\ m <= k /\ k <= 2 * m /\ m > 0 /\ m \in Int
  <2>1. p * (n - 1) = (n * p) - p /\ p * n = n * p /\ n * p \in Int
    BY <1>2, <1>4
  <2>2. QED
    BY <1>2, <1>4, <2>1
<1>7. Less(AreaOf(x, y), One) <=> k * 1 < 1 * m
  <2>1. Is(AreaOf(x, y), k, m) /\ Is(One, 1, 1) /\ m > 0 /\ 1 > 0
    BY <1>5, <1>6, Wholes
  <2>2. QED
    BY <2>1, LessIs
<1>8. Less(Whole(2), AreaOf(x, y)) <=> 2 * m < k * 1
  <2>1. 2 \in Int
    OBVIOUS
  <2>2. Is(Whole(2), 2, 1)
    BY <2>1, Wholes
  <2>3. Is(AreaOf(x, y), k, m) /\ m > 0 /\ 1 > 0
    BY <1>5, <1>6
  <2>4. QED
    BY <2>2, <2>3, LessIs
<1>9. QED
  BY <1>6, <1>7, <1>8

\* Division, rounding, a ramp as the sum of its steps, and an impulse of at most 19 steps,
\* as long as the law samples it, for all numbers (common/xxfuncs.cpp).
THEOREM NumbersFit ==
  ASSUME NEW x \in Rationals, NEW y \in Rationals, y = Zero \/ ~Less(Whole(19) (.) Abs(y), Abs(x))
  PROVE  NumberLaw(x, y)
<1>1. y # Zero => RemainderLaw(x, y)
  BY RemainderHasSign
<1>2. RoundingLaw(x)
  BY RoundsToNearest
<1>3. Truncated(Abs(x)) \in Nat
  <2>1. Abs(x) \in Rationals /\ ~(Abs(x)[1] < 0) /\ Abs(x)[1] \in Int /\ Abs(x)[2] \in Nat /\ Abs(x)[2] # 0
    <3>1. Abs(x) \in Rationals
      BY AbsIsPositive
    <3>2. x[1] \in Int
      BY NumbersOf
    <3>3. Abs(x)[1] = Magnitude(x[1]) /\ ~(Magnitude(x[1]) < 0)
      BY <3>2 DEF Abs, Magnitude
    <3>4. QED
      BY <3>1, <3>3, NumbersOf
  <2>2. PICK i \in Nat, j \in Nat : i = Abs(x)[1] /\ j = Abs(x)[2] /\ j # 0
    BY <2>1
  <2>3. i \div j \in Nat
    BY <2>2, Division
  <2>4. QED
    BY <2>1, <2>2, <2>3 DEF Truncated
<1>4. XXRamp(Whole(2), Whole(Truncated(Abs(x)) + 1))
        = SumOver(0 .. Truncated(Abs(x)), LAMBDA k : XXStep(Whole(2), Whole(k)))
  BY <1>3, StepsAddUp
<1>5. IF x = Zero \/ y = Zero THEN AreaOf(x, y) = Zero
      ELSE ~Less(AreaOf(x, y), One) /\ ~Less(Whole(2), AreaOf(x, y))
  BY NoArea, AreaIsOneToTwo
<1>6. /\ x = Zero \/ y = Zero => AreaOf(x, y) = Zero
      /\ ~(x = Zero \/ y = Zero) => ~Less(AreaOf(x, y), One) /\ ~Less(Whole(2), AreaOf(x, y))
  BY <1>5
<1>7. QED
  BY <1>1, <1>2, <1>4, <1>6 DEF NumberLaw, AreaOf, ImpulseAt

-----------------------------------------------------------------------------
(***************************************************************************)
(* Unit matrices.                                                          *)
(***************************************************************************)

Mark(b) == IF b THEN One ELSE Zero

\* What the marks do in sums and products.
LEMMA MarksAre ==
  /\ \A b \in BOOLEAN : Mark(b) \in Rationals
  /\ \A b, c \in BOOLEAN : Mark(b) (.) Mark(c) = Mark(b /\ c)
  /\ \A b, c, d \in BOOLEAN : ~(b /\ c) /\ ~(b /\ d) /\ ~(c /\ d) => Sum3(Mark(b), Mark(c), Mark(d)) = Mark(b \/ c \/ d)
<1>1. /\ Zero \in Rationals /\ One \in Rationals /\ Zero (+) Zero = Zero /\ Zero (+) One = One
      /\ One (+) Zero = One /\ One (.) One = One /\ One (.) Zero = Zero /\ Zero (.) One = Zero /\ Zero (.) Zero = Zero
  BY Wholes, Neutral
<1>2. \A b \in BOOLEAN : Mark(b) \in Rationals
  BY <1>1 DEF Mark
<1>3. \A b, c \in BOOLEAN : Mark(b) (.) Mark(c) = Mark(b /\ c)
  BY <1>1 DEF Mark
<1>4. \A b, c, d \in BOOLEAN : ~(b /\ c) /\ ~(b /\ d) /\ ~(c /\ d) => Sum3(Mark(b), Mark(c), Mark(d)) = Mark(b \/ c \/ d)
  BY <1>1 DEF Mark, Sum3
<1>5. QED
  BY <1>2, <1>3, <1>4

\* The unit matrices, as the marks of a place.
LEMMA UnitsAre ==
  /\ \A at : /\ Unit(2, 3, at).rows = 2 /\ Unit(2, 3, at).columns = 3
             /\ \A k \in 0 .. 5 : Unit(2, 3, at).mat[k] = Mark(k = at)
  /\ \A at : /\ Unit(3, 2, at).rows = 3 /\ Unit(3, 2, at).columns = 2
             /\ \A k \in 0 .. 5 : Unit(3, 2, at).mat[k] = Mark(k = at)
<1>1. 0 .. (2 * 3) - 1 = 0 .. 5 /\ 0 .. (3 * 2) - 1 = 0 .. 5
  OBVIOUS
<1>2. QED
  BY <1>1 DEF Unit, Matrix, Mark

\* The row and the column of a place.
LEMMA PlacesOfProduct ==
  ASSUME NEW e \in 0 .. 3
  PROVE  /\ e \div 2 \in 0 .. 1 /\ e % 2 \in 0 .. 1 /\ e = (2 * (e \div 2)) + (e % 2)
OBVIOUS

\* A unit matrix times another: the row of the one and the column of the other.
LEMMA UnitsMultiply ==
  ASSUME NEW i \in 0 .. 5, NEW j \in 0 .. 5
  PROVE  XXMatrixMul(2, 2, Unit(2, 3, i), Unit(3, 2, j))
           = IF i % 3 = j \div 2 THEN Unit(2, 2, (2 * (i \div 3)) + (j % 2)) ELSE XXMatrixScalarMov(2, 2, Zero)
<1> DEFINE A == Unit(2, 3, i)
           B == Unit(3, 2, j)
           at == (2 * (i \div 3)) + (j % 2)
<1>1. XXMatrixMul(2, 2, A, B) = [rows |-> 2, columns |-> 2, mat |-> [e \in 0 .. 2 * 2 - 1 |-> ProductAt(A, B, 2, e)]]
  <2> HIDE DEF A, B
  <2>1. QED
    BY DEF XXMatrixMul, Matrix, ProductAt, Factors
<1>2. /\ A.columns = 3 /\ B.rows = 3 /\ B.columns = 2
      /\ \A k \in 0 .. 5 : A.mat[k] = Mark(k = i) /\ B.mat[k] = Mark(k = j)
  BY UnitsAre
<1> HIDE DEF A, B
<1>3. ASSUME NEW e \in 0 .. 3
      PROVE  ProductAt(A, B, 2, e) = Mark(i % 3 = j \div 2 /\ e = at)
  <2>1. PICK r \in 0 .. 1, c \in 0 .. 1 : r = e \div 2 /\ c = e % 2 /\ e = (2 * r) + c
    BY PlacesOfProduct
  <2>2. \A k \in 0 .. 2 : r * 3 + k \in 0 .. 5 /\ c + (k * 2) \in 0 .. 5
    OBVIOUS
  <2>3. \A k \in 0 .. 2 : Factors(A, B, 2, e, k) = Mark(r * 3 + k = i) (.) Mark(c + (k * 2) = j)
    BY <1>2, <2>1, <2>2 DEF Factors
  <2>4. \A k \in 0 .. 2 : Factors(A, B, 2, e, k) = Mark((r * 3 + k = i) /\ (c + (k * 2) = j))
    BY <2>3, MarksAre
  <2>5. PICK b \in BOOLEAN, s \in BOOLEAN, t \in BOOLEAN :
          /\ b = ((r * 3 + 0 = i) /\ (c + (0 * 2) = j))
          /\ s = ((r * 3 + 1 = i) /\ (c + (1 * 2) = j))
          /\ t = ((r * 3 + 2 = i) /\ (c + (2 * 2) = j))
    OBVIOUS
  <2>6. ~(b /\ s) /\ ~(b /\ t) /\ ~(s /\ t)
    <3>1. r * 3 + 0 # r * 3 + 1 /\ r * 3 + 0 # r * 3 + 2 /\ r * 3 + 1 # r * 3 + 2
      OBVIOUS
    <3>2. QED
      BY <2>5, <3>1, Zenon
  <2>7. (b \/ s \/ t) <=> (i % 3 = j \div 2 /\ e = at)
    <3>1. \/ (r * 3 + 0 = i /\ c + (0 * 2) = j)
          \/ (r * 3 + 1 = i /\ c + (1 * 2) = j)
          \/ (r * 3 + 2 = i /\ c + (2 * 2) = j)
          <=> (i % 3 = j \div 2 /\ e = at)
      BY <2>1
    <3> HIDE DEF at
    <3>2. QED
      BY <2>5, <3>1, Zenon
  <2>8. 0 \in 0 .. 2 /\ 1 \in 0 .. 2 /\ 2 \in 0 .. 2
    OBVIOUS
  <2>9. ProductAt(A, B, 2, e) = Sum3(Mark(b), Mark(s), Mark(t))
    <3>1. Factors(A, B, 2, e, 0) = Mark(b) /\ Factors(A, B, 2, e, 1) = Mark(s) /\ Factors(A, B, 2, e, 2) = Mark(t)
      BY <2>4, <2>5, <2>8
    <3>2. QED
      BY <1>2, <3>1, ProductOfThree
  <2>10. Sum3(Mark(b), Mark(s), Mark(t)) = Mark(b \/ s \/ t)
    BY <2>6, MarksAre
  <2>11. Mark(b \/ s \/ t) = Mark(i % 3 = j \div 2 /\ e = at)
    BY <2>7 DEF Mark
  <2>12. QED
    BY <2>9, <2>10, <2>11
<1>4. 0 .. 2 * 2 - 1 = 0 .. 3
  OBVIOUS
<1> HIDE DEF at
<1>5. [e \in 0 .. 2 * 2 - 1 |-> ProductAt(A, B, 2, e)]
        = [e \in 0 .. 2 * 2 - 1 |-> IF i % 3 = j \div 2 THEN Mark(e = at) ELSE Zero]
  BY <1>3, <1>4 DEF Mark
<1>6. CASE i % 3 = j \div 2
  <2>1. [e \in 0 .. 2 * 2 - 1 |-> ProductAt(A, B, 2, e)] = [e \in 0 .. 2 * 2 - 1 |-> Mark(e = at)]
    BY <1>5, <1>6
  <2>2. Unit(2, 2, at) = [rows |-> 2, columns |-> 2, mat |-> [e \in 0 .. 2 * 2 - 1 |-> Mark(e = at)]]
    BY DEF Unit, Matrix, Mark
  <2>3. XXMatrixMul(2, 2, A, B) = Unit(2, 2, at)
    BY <1>1, <2>1, <2>2
  <2>4. QED
    BY <1>6, <2>3 DEF A, B, at
<1>7. CASE ~(i % 3 = j \div 2)
  <2>1. [e \in 0 .. 2 * 2 - 1 |-> ProductAt(A, B, 2, e)] = [e \in 0 .. 2 * 2 - 1 |-> Zero]
    BY <1>5, <1>7
  <2>2. XXMatrixScalarMov(2, 2, Zero) = [rows |-> 2, columns |-> 2, mat |-> [e \in 0 .. 2 * 2 - 1 |-> Zero]]
    BY DEF XXMatrixScalarMov, Matrix
  <2>3. XXMatrixMul(2, 2, A, B) = XXMatrixScalarMov(2, 2, Zero)
    BY <1>1, <2>1, <2>2
  <2>4. QED
    BY <1>7, <2>3 DEF A, B
<1>8. QED
  BY <1>6, <1>7

\* A transposed unit matrix has its place in the transposed one.
LEMMA UnitsTurned ==
  ASSUME NEW i \in 0 .. 5, NEW p \in 0 .. 3
  PROVE  /\ XXMatrixTranspose(2, 3, Unit(3, 2, i)) = Unit(2, 3, (3 * (i % 2)) + (i \div 2))
         /\ XXMatrixTranspose(3, 2, Unit(2, 3, i)) = Unit(3, 2, (2 * (i % 3)) + (i \div 3))
         /\ XXMatrixTranspose(2, 2, Unit(2, 2, p)) = Unit(2, 2, (2 * (p % 2)) + (p \div 2))
         /\ XXMatrixTranspose(2, 2, XXMatrixScalarMov(2, 2, Zero)) = XXMatrixScalarMov(2, 2, Zero)
<1>1. 0 .. (2 * 3) - 1 = 0 .. 5 /\ 0 .. (3 * 2) - 1 = 0 .. 5 /\ 0 .. (2 * 2) - 1 = 0 .. 3
  OBVIOUS
<1>2. ASSUME NEW k \in 0 .. 5
      PROVE  /\ ((k % 3) * 2) + (k \div 3) \in 0 .. 5
             /\ (((k % 3) * 2) + (k \div 3) = i <=> k = (3 * (i % 2)) + (i \div 2))
             /\ ((k % 2) * 3) + (k \div 2) \in 0 .. 5
             /\ (((k % 2) * 3) + (k \div 2) = i <=> k = (2 * (i % 3)) + (i \div 3))
  OBVIOUS
<1>3. ASSUME NEW k \in 0 .. 3
      PROVE  /\ ((k % 2) * 2) + (k \div 2) \in 0 .. 3
             /\ (((k % 2) * 2) + (k \div 2) = p <=> k = (2 * (p % 2)) + (p \div 2))
  OBVIOUS
<1>4. XXMatrixTranspose(2, 3, Unit(3, 2, i)) = Unit(2, 3, (3 * (i % 2)) + (i \div 2))
  BY <1>1, <1>2 DEF XXMatrixTranspose, Unit, Matrix
<1>5. XXMatrixTranspose(3, 2, Unit(2, 3, i)) = Unit(3, 2, (2 * (i % 3)) + (i \div 3))
  BY <1>1, <1>2 DEF XXMatrixTranspose, Unit, Matrix
<1>6. XXMatrixTranspose(2, 2, Unit(2, 2, p)) = Unit(2, 2, (2 * (p % 2)) + (p \div 2))
  BY <1>1, <1>3 DEF XXMatrixTranspose, Unit, Matrix
<1>7. XXMatrixTranspose(2, 2, XXMatrixScalarMov(2, 2, Zero)) = XXMatrixScalarMov(2, 2, Zero)
  BY <1>1, <1>3 DEF XXMatrixTranspose, XXMatrixScalarMov, Matrix
<1>8. QED
  BY <1>4, <1>5, <1>6, <1>7

\* The elements of a unit matrix add up to one.
LEMMA SumOfUnit ==
  ASSUME NEW i \in 0 .. 5
  PROVE  XXMatrixSum(Unit(2, 3, i)) = One
<1> DEFINE A == Unit(2, 3, i)
           Part(k) == A.mat[k]
           Solves(f) == f = [k \in 0 .. 6 |-> IF k = 0 THEN Zero ELSE f[k - 1] (+) Part(k - 1)]
           F == [k \in 0 .. 6 |-> Mark(i < k)]
           g == CHOOSE f : Solves(f)
<1>1. XXMatrixSum(A) = g[6]
  <2>1. A.rows * A.columns = 6
    BY UnitsAre
  <2> HIDE DEF A
  <2>2. QED
    BY <2>1 DEF XXMatrixSum, Total, Loop
<1>2. \A k \in 0 .. 5 : Part(k) = Mark(k = i)
  BY UnitsAre
<1> HIDE DEF Part
<1>3. /\ Zero (+) Zero = Zero /\ Zero (+) One = One /\ One (+) Zero = One
  BY Wholes, Neutral
<1>4. Solves(F)
  <2>1. ASSUME NEW k \in 0 .. 6 PROVE F[k] = IF k = 0 THEN Zero ELSE F[k - 1] (+) Part(k - 1)
    <3>1. CASE k = 0
      BY <3>1 DEF Mark
    <3>2. CASE k # 0
      <4>1. k - 1 \in 0 .. 5 /\ k - 1 \in 0 .. 6 /\ (i < k <=> (i < k - 1 \/ k - 1 = i)) /\ ~(i < k - 1 /\ k - 1 = i)
        BY <3>2
      <4>2. F[k] = Mark(i < k) /\ F[k - 1] = Mark(i < k - 1) /\ Part(k - 1) = Mark(k - 1 = i)
        BY <1>2, <4>1
      <4> HIDE DEF F
      <4>3. QED
        BY <1>3, <3>2, <4>1, <4>2 DEF Mark
    <3>3. QED
      BY <3>1, <3>2
  <2>2. QED
    BY <2>1
<1>5. Solves(g)
  <2> HIDE DEF F, Solves
  <2>1. QED
    BY <1>4
<1> HIDE DEF g
<1>6. /\ g[0] = Zero /\ g[1] = g[0] (+) Part(0) /\ g[2] = g[1] (+) Part(1) /\ g[3] = g[2] (+) Part(2)
      /\ g[4] = g[3] (+) Part(3) /\ g[5] = g[4] (+) Part(4) /\ g[6] = g[5] (+) Part(5)
  BY <1>5
<1>7. /\ Part(0) = Mark(i = 0) /\ Part(1) = Mark(i = 1) /\ Part(2) = Mark(i = 2) /\ Part(3) = Mark(i = 3)
      /\ Part(4) = Mark(i = 4) /\ Part(5) = Mark(i = 5)
  BY <1>2 DEF Mark
<1>8. i = 0 \/ i = 1 \/ i = 2 \/ i = 3 \/ i = 4 \/ i = 5
  OBVIOUS
<1>9. g[6] = One
  BY <1>3, <1>6, <1>7, <1>8 DEF Mark
<1>10. QED
  BY <1>1, <1>9

\* The products of unit matrices of 2 x 3 and 3 x 2, all of them, and what leaves a unit
\* matrix as it is (common/xxmatrix.cpp, XXMatrixMul, XXMatrixTranspose, XXMatrixSum).
THEOREM UnitsFit == ASSUME NEW i \in 0 .. 5, NEW j \in 0 .. 5 PROVE ProductLaw(i, j)
<1> DEFINE A == Unit(2, 3, i)
           B == Unit(3, 2, j)
           AB == XXMatrixMul(2, 2, A, B)
           p == (2 * (i \div 3)) + (j % 2)
           k == (3 * (j % 2)) + (j \div 2)
           l == (2 * (i % 3)) + (i \div 3)
<1>1. /\ p \in 0 .. 3 /\ k \in 0 .. 5 /\ l \in 0 .. 5
      /\ (k % 3 = l \div 2 <=> i % 3 = j \div 2)
      /\ (2 * (k \div 3)) + (l % 2) = (2 * (p % 2)) + (p \div 2)
  OBVIOUS
<1>2. AB = IF i % 3 = j \div 2 THEN Unit(2, 2, p) ELSE XXMatrixScalarMov(2, 2, Zero)
  BY UnitsMultiply
<1> HIDE DEF p, k, l
<1>3. XXMatrixTranspose(2, 2, AB)
        = XXMatrixMul(2, 2, XXMatrixTranspose(2, 3, B), XXMatrixTranspose(3, 2, A))
  <2>1. XXMatrixTranspose(2, 3, B) = Unit(2, 3, k) /\ XXMatrixTranspose(3, 2, A) = Unit(3, 2, l)
    BY UnitsTurned, <1>1 DEF k, l
  <2>2. XXMatrixMul(2, 2, Unit(2, 3, k), Unit(3, 2, l))
          = IF k % 3 = l \div 2 THEN Unit(2, 2, (2 * (k \div 3)) + (l % 2)) ELSE XXMatrixScalarMov(2, 2, Zero)
    BY <1>1, UnitsMultiply
  <2>3. /\ XXMatrixTranspose(2, 2, Unit(2, 2, p)) = Unit(2, 2, (2 * (p % 2)) + (p \div 2))
        /\ XXMatrixTranspose(2, 2, XXMatrixScalarMov(2, 2, Zero)) = XXMatrixScalarMov(2, 2, Zero)
    BY <1>1, UnitsTurned
  <2> HIDE DEF A, B
  <2>4. QED
    BY <1>1, <1>2, <2>1, <2>2, <2>3
<1>4. \A e \in 0 .. 5 : A.mat[e] = One \/ A.mat[e] = Zero
  BY UnitsAre DEF Mark
<1>5. A = [rows |-> 2, columns |-> 3, mat |-> [e \in 0 .. 5 |-> A.mat[e]]]
  <2>1. 0 .. (2 * 3) - 1 = 0 .. 5
    OBVIOUS
  <2>2. QED
    BY <2>1 DEF Unit, Matrix
<1>6. A.rows = 2 /\ A.columns = 3 /\ 0 .. (2 * 3) - 1 = 0 .. 5
  BY UnitsAre
<1>7. XXMatrixMulElement(A, A) = A
  <2>1. One (.) One = One /\ Zero (.) Zero = Zero
    BY Wholes, Neutral
  <2> HIDE DEF A
  <2>2. [e \in 0 .. 5 |-> A.mat[e] (.) A.mat[e]] = [e \in 0 .. 5 |-> A.mat[e]]
    BY <1>4, <2>1
  <2>3. XXMatrixMulElement(A, A) = [rows |-> 2, columns |-> 3, mat |-> [e \in 0 .. 5 |-> A.mat[e] (.) A.mat[e]]]
    BY <1>6 DEF XXMatrixMulElement, Matrix
  <2>4. QED
    BY <1>5, <2>2, <2>3
<1>8. XXMatrixSub(XXMatrixAdd(A, A), A) = A
  <2>1. \A x \in {One, Zero} : (x (+) x) (-) x = x
    <3>1. ASSUME NEW x \in Rationals PROVE (x (+) x) (-) x = x
      <4>1. (x (+) x) (-) x = (x (+) x) (+) Neg(x)
        BY SumClosed, MinusIs
      <4>2. QED
        BY <4>1, PlusMinus
    <3>2. One \in Rationals /\ Zero \in Rationals
      BY Wholes
    <3>3. QED
      BY <3>1, <3>2
  <2> HIDE DEF A
  <2>2. [e \in 0 .. 5 |-> (A.mat[e] (+) A.mat[e]) (-) A.mat[e]] = [e \in 0 .. 5 |-> A.mat[e]]
    BY <1>4, <2>1
  <2>3. XXMatrixAdd(A, A) = [rows |-> 2, columns |-> 3, mat |-> [e \in 0 .. 5 |-> A.mat[e] (+) A.mat[e]]]
    BY <1>6 DEF XXMatrixAdd, Matrix
  <2>4. XXMatrixSub(XXMatrixAdd(A, A), A)
          = [rows |-> 2, columns |-> 3, mat |-> [e \in 0 .. 5 |-> (A.mat[e] (+) A.mat[e]) (-) A.mat[e]]]
    BY <1>6, <2>3 DEF XXMatrixSub, Matrix
  <2>5. QED
    BY <1>5, <2>2, <2>4
<1>9. XXMatrixSum(A) = One
  BY SumOfUnit
<1>10. QED
  BY <1>2, <1>3, <1>7, <1>8, <1>9 DEF ProductLaw, p
=============================================================================
