------------------------------ MODULE XXFuncs ------------------------------
(***************************************************************************)
(* The support functions of the 20-sim code generator (common/xxfuncs).    *)
(* Logarithms, powers, random numbers and the stubs that return 0 are left *)
(* out.  An integer is the set of the bits that are on: bit 31 is its sign *)
(* and a shift to the right repeats it.                                    *)
(***************************************************************************)
EXTENDS Rational

XXIntegerDivide(a, b) == Whole(Truncated(a (/) b))
XXIntegerModulo(a, b) == a (-) (XXIntegerDivide(a, b) (.) b)
XXPow2(x) == x (.) x
XXRamp(start, time) == IF Less(time, start) THEN Zero ELSE time (-) start
XXSign(x) == IF Less(x, Zero) THEN Whole(-1) ELSE IF x = Zero THEN Zero ELSE One
XXStep(start, time) == IF Less(time, start) THEN Zero ELSE One

XXImpulse(start, duration, time, step) ==
  IF \/ ~Less(Zero, step) \/ ~Less(Zero, duration)
     \/ Less(time, start) \/ Less(start (+) duration, time)
  THEN Zero
  ELSE One (/) (IF Less(step, duration) THEN duration ELSE step)

\* Halves are rounded away from zero, which ceil and floor do there.
XXRound(x) ==
  LET whole == Truncated(x)
  IN  IF Less(Abs(x (-) Whole(whole)), Ratio(1, 2)) THEN Whole(whole)
      ELSE Whole(IF Less(x, Zero) THEN whole - 1 ELSE whole + 1)
-----------------------------------------------------------------------------
Bits == 0 .. 31

XXBitAnd(a, b) == a \cap b
XXBitOr(a, b) == a \cup b
XXBitXor(a, b) == (a \ b) \cup (b \ a)
XXBitInv(a) == Bits \ a
XXBitCmp(a, n) == IF n < 32 THEN (0 .. n - 1) \ a ELSE XXBitInv(a)
XXBitGet(a, pos) == pos - 1 \in a
XXBitSet(a, pos) == a \cup {pos - 1}
XXBitClear(a, pos) == a \ {pos - 1}

Left(a, n) == {b \in Bits : b - n \in a}
Right(a, n) == {b \in Bits : (IF b + n < 31 THEN b + n ELSE 31) \in a}
XXBitShift(a, n) == IF n > 0 THEN Left(a, n) ELSE Right(a, -n)
XXBitShiftRight(a, n) == IF n > 0 THEN Right(a, n) ELSE Left(a, -n)

\* A byte kept in a char is an int again when it is shifted; where char is
\* signed, as on x86, the high bit of the byte fills the int.
Byte(a, k) == {b \in 0 .. 7 : b + (8 * k) \in a}
Promoted(byte, signed) == byte \cup (IF signed /\ 7 \in byte THEN 8 .. 31 ELSE {})

XXSwapBytes(a, signed) ==
  UNION {Left(Promoted(Byte(a, k), signed), 8 * (3 - k)) : k \in 0 .. 3}
=============================================================================
