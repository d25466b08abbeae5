---------------------------- MODULE RobotModels ----------------------------
(***************************************************************************)
(* The robot as the simulator and the motor board have it, and the numeric *)
(* code below the simulator, with the counters that thin out what the      *)
(* cycles send.  The four share no state, and each behaviour is about one  *)
(* of them: the simulator, the board, the counters, or one sample that the *)
(* numeric laws are evaluated for.                                         *)
(***************************************************************************)
EXTENDS RelbotSimulator, IcoIo, NumericLaws, Decimation

CONSTANTS
  Samples,      \* what the numeric laws are evaluated for
  Parameters    \* of the plant

\* The numbers that a sample of the plant is made of; the code divides by the
\* parameters that are not zero (the constructor of Plant and CalculateInitial set them).
ASSUME PlantAssumption ==
  /\ Parameters \in [0 .. 35 -> Rationals]
  /\ \A i \in {4, 5, 12, 13} \cup (16 .. 20) : Parameters[i] # Zero
  /\ \A x \in Samples :
       x.kind = "plant" =>
         /\ x.s \in [0 .. 13 -> Rationals] /\ x.u \in [0 .. 1 -> Rationals]
         /\ x.turn \in [cos : Rationals, sin : Rationals]

VARIABLE subject

vars == <<subject, simVars, icoVars, decimationVars>>

Init ==
  /\ SimInit /\ IcoInit
  /\ subject \in {[kind |-> k] : k \in {"simulator", "board", "counters"}} \cup Samples
  /\ subject.kind = "simulator" \/ ~useTwistCmd
  /\ DecimationInit(IF subject.kind = "counters" THEN Frequencies ELSE {1})

Next ==
  \/ subject.kind = "simulator" /\ SimNext /\ UNCHANGED <<subject, icoVars, decimationVars>>
  \/ subject.kind = "board" /\ IcoNext /\ UNCHANGED <<subject, simVars, decimationVars>>
  \/ subject.kind = "counters" /\ Cycle /\ UNCHANGED <<subject, simVars, icoVars>>

Spec == Init /\ [][Next]_vars
-----------------------------------------------------------------------------
\* The matrix library inverts, multiplies, transposes and composes matrices as
\* linear algebra has it, leaves the destination alone when there is no inverse,
\* the functions on numbers and bits fit each other, and the integration methods
\* have the order they are named for, also when the rates depend on the time
\* (xxinverse.cpp, xxmatrix.cpp, xxfuncs.cpp, xxinteg.cpp; the integral action of
\* LoopController::Calculate lags by a sixth of a step).
LibraryLaws ==
  /\ subject.kind = "square" => SquareLaw(subject.A, subject.D)
  /\ subject.kind = "product" => ProductLaw(subject.i, subject.j)
  /\ subject.kind = "vectors" => VectorLaw(subject.v, subject.w)
  /\ subject.kind = "motion" =>
       MotionLaw(subject.R1, subject.p1, subject.R2, subject.p2, subject.v, subject.w)
  /\ subject.kind = "numbers" => NumberLaw(subject.x, subject.y)
  /\ subject.kind = "bits" => BitsLaw(subject.a, subject.b, subject.n)
  /\ subject.kind = "chain" => ChainLaw(subject.n, subject.s, subject.h)
  /\ subject.kind = "time" => QuadratureLaw(subject.k, subject.t, subject.h)
  /\ subject.kind = "loop" => LoopLaw(subject.P, subject.h, subject.u1, subject.u2)

\* The equations of the plant make and lose no power but in the resistances
\* and the friction, whatever way the robot faces and moves: no sign and no
\* ratio between the drivetrains, the wheels and the body is wrong
\* (CalculateDynamic).
PowerBalance ==
  subject.kind = "plant" =>
    PlantLaw(Parameters, subject.s,
             CalculateDynamic(Parameters, subject.turn, subject.s, subject.u))
=============================================================================
