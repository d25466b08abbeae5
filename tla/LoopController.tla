--------------------------- MODULE LoopController ---------------------------
(***************************************************************************)
(* The wheel position controller (xeno_loop/controller): per wheel a       *)
(* proportional and an integral action on the position error.  Its         *)
(* differential action works on the difference of a constant with itself.  *)
(***************************************************************************)
EXTENDS Rational

\* Inputs: positions left and right, then their setpoints; side 0 is the left one.
PositionError(u, k) == u[3 + k] (-) u[1 + k]

LoopRates(u, s, t) == [k \in 0 .. 1 |-> PositionError(u, k)]

Kp(P, k) == P[3 * k]
Kd(P, k) == P[(3 * k) + 1]
Ki(P, k) == P[(3 * k) + 2]

SteerOutput(P, u, s) ==
  [k \in 0 .. 1 |-> (Kp(P, k) (.) PositionError(u, k)) (+) (Kd(P, k) (.) Zero)
                      (+) (Ki(P, k) (.) s[k])]

Method == INSTANCE XXInteg WITH CalculateDynamic <- LoopRates

\* One step of the controller with the inputs u.
LoopStep(m, h, u) == Method!RungeKutta4([m EXCEPT !.u = u], h)
=============================================================================
