------------------------------ MODULE XXInteg ------------------------------
(***************************************************************************)
(* The integration methods of the 20-sim code generator (common/xxinteg).  *)
(* A method takes a submodel from one step to the next: m.u are its        *)
(* inputs, m.s its states, m.R the rates that were calculated last, m.time *)
(* its time; h is the step size.  CalculateDynamic is the submodel's own:  *)
(* the rates for inputs, states and time.  Every method starts from the    *)
(* rates the step before has left.                                         *)
(***************************************************************************)
EXTENDS Rational

CONSTANT CalculateDynamic(_, _, _)

Plus(v, w) == [i \in DOMAIN v |-> v[i] (+) w[i]]
Times(v, k) == [i \in DOMAIN v |-> v[i] (.) k]
Half == Ratio(1, 2)

\* The states s at time t, with their rates.
Evaluated(u, s, t) == [u |-> u, s |-> s, R |-> CalculateDynamic(u, s, t), time |-> t]

Discrete(m, h) == Evaluated(m.u, m.R, m.time (+) h)

Euler(m, h) == Evaluated(m.u, Plus(m.s, Times(m.R, h)), m.time (+) h)

RungeKutta2(m, h) ==
  LET half == Half (.) h
      R == CalculateDynamic(m.u, Plus(m.s, Times(m.R, half)), m.time (+) half)
  IN  Evaluated(m.u, Plus(m.s, Times(R, h)), m.time (+) h)

RungeKutta4(m, h) ==
  LET middle == m.time (+) (Half (.) h)
      Change(step, t) == Times(CalculateDynamic(m.u, Plus(m.s, step), t), h)
      q1 == Times(m.R, h)
      q2 == Change(Times(q1, Half), middle)
      q3 == Change(Times(q2, Half), middle)
      q4 == Change(q3, m.time (+) h)
      all == Plus(Plus(q1, q4), Times(Plus(q2, q3), Whole(2)))
  IN  Evaluated(m.u, Plus(m.s, Times(all, Ratio(1, 6))), m.time (+) h)
=============================================================================
