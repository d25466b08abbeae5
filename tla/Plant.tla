------------------------------- MODULE Plant -------------------------------
(***************************************************************************)
(* The simulated robot (relbot_simulator/src/Plant.cpp): two drivetrains,  *)
(* two wheels and a rigid body.  Side 0 is the left one, side 1 the right  *)
(* one; P are the parameters, s the states and R the rates, with the       *)
(* numbers of the code.  Sine and cosine of the heading s[4] are handed in *)
(* as turn, the steering signals as u.                                     *)
(***************************************************************************)
EXTENDS XXMatrix

Vector(x, y) == Rows(2, 1, <<x, y>>)
Pair(Of(_)) == [k \in 0 .. 1 |-> Of(k)]

\* Both tyres with the numbers of the left one.
TyreLeft(P, i, k) == P[i]

\* The parameter of one side: the two drivetrains have eight each, the wheels
\* and the arms two each, the springs and dampers of the tyres one each.
Drive(P, i, k) == P[i + (8 * k)]
Wheel(P, i, k) == P[i + (2 * k)]
Tyre(P, i, k) == P[i + k]

DeadZone(steer, halfzone) ==
  IF Less(halfzone, steer) THEN steer (-) halfzone
  ELSE IF Less(steer, Neg(halfzone)) THEN steer (+) halfzone ELSE Zero

\* The wheels are mounted mirrored: only the left one drives the body backwards.
Onto(k, x) == IF k = 0 THEN Neg(x) ELSE x

\* One drivetrain: speed of the rotor, voltage and current of the motor, speed
\* of the wheel.
Drivetrain(P, s, u, k) ==
  LET speed == s[1 + (2 * k)] (/) Drive(P, 4, k)
      volt == Drive(P, 1, k) (.) DeadZone(u[k], Ratio(1, 2) (.) Drive(P, 0, k))
  IN  [speed |-> speed, volt |-> volt, wheel |-> Drive(P, 7, k) (.) speed,
       current |-> (volt (-) (Drive(P, 3, k) (.) speed)) (/) Drive(P, 5, k)]

Rotation(turn) == Rows(2, 2, <<turn.cos, Neg(turn.sin), turn.sin, turn.cos>>)

Blank == XXMatrixScalarMov(2, 2, Zero)

\* The velocity of the body in the world and along its own axes, and its turning.
Body(P, turn, s) ==
  LET mass == XXMatrixScalarMul(XXMatrixEye(2), P[21])
      world == XXMatrixMul(2, 1, XXMatrixInverse(Blank, mass), Vector(s[12], s[13]))
  IN  [omega |-> s[11] (/) P[20], world |-> world,
       own |-> XXMatrixMul(2, 1, XXScalarMatrixDiv(Blank, One, Rotation(turn)), world)]

Arm(P, k) == Vector(Wheel(P, 28, k), Wheel(P, 29, k))

\* How the contact point of a tyre slips, and the force on it.
Contact(P, s, body, wheel, k) ==
  LET point == XXMatrixAdd(body.own, XXMatrixScalarMul(Arm(P, k), body.omega))
      slip == Vector(point.mat[0] (+) Onto(k, Wheel(P, 33, k) (.) wheel), point.mat[1])
      Force(state, stiff, damp, axis) ==
        (s[state + k] (/) Tyre(P, stiff, k)) (+) (Tyre(P, damp, k) (.) slip.mat[axis])
  IN  [slip |-> slip, force |-> Vector(Force(5, 16, 22, 0), Force(7, 18, 24, 1))]

RotorTorque(P, drive, contact, k) ==
  LET onWheel == (Wheel(P, 33, k) (.) Onto(k, contact.force.mat[0]))
                   (+) (Wheel(P, 32, k) (.) drive.wheel)
  IN  (Drive(P, 3, k) (.) drive.current)
        (-) ((Drive(P, 7, k) (.) onWheel) (+) (Drive(P, 6, k) (.) drive.speed))

\* What the contacts do to the body: their moment, and their push in the world.
Moment(P, contact) ==
  LET Of(k) == XXScalarMatrixMatrixMul(XXMatrixTranspose(1, 2, Arm(P, k)), contact[k].force)
  IN  Neg(Of(0) (+) Of(1))
Push(turn, contact) ==
  XXMatrixMul(2, 1, XXScalarMatrixDiv(Blank, One, XXMatrixTranspose(2, 2, Rotation(turn))),
              XXMatrixInv(XXMatrixAdd(contact[1].force, contact[0].force)))

Contacts(P, s, drive, body) == Pair(LAMBDA k : Contact(P, s, body, drive[k].wheel, k))

\* The rates, from what they are made of.
Rates(P, turn, drive, body, contact) ==
  [i \in 0 .. 13 |->
    CASE i \in {0, 2} -> drive[i \div 2].speed
      [] i \in {1, 3} -> RotorTorque(P, drive[i \div 2], contact[i \div 2], i \div 2)
      [] i = 4 -> body.omega
      [] i \in 5 .. 6 -> contact[i - 5].slip.mat[0]
      [] i \in 7 .. 8 -> contact[i - 7].slip.mat[1]
      [] i \in 9 .. 10 -> body.world.mat[i - 9]
      [] i = 11 -> Moment(P, contact)
      [] i \in 12 .. 13 -> Push(turn, contact).mat[i - 12]]

CalculateDynamic(P, turn, s, u) ==
  LET drive == Pair(LAMBDA k : Drivetrain(P, s, u, k))
      body == Body(P, turn, s)
  IN  [R |-> Rates(P, turn, drive, body, Contacts(P, s, drive, body)), drive |-> drive]

\* The two positions of the wheels, the place of the body and its heading.
CalculateOutput(P, s) ==
  <<Drive(P, 2, 0) (.) s[0], Drive(P, 2, 1) (.) s[2], s[9], s[10], s[4]>>
=============================================================================
