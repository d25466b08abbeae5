------------------------- MODULE SequenceController -------------------------
(***************************************************************************)
(* The controller node: it steers by the position of the object that       *)
(* object_center reported last, on a timer of its own.                     *)
(***************************************************************************)
EXTENDS Integers, Sequences

CONSTANTS
  Width,      \* the parameter "width": pixels of an image row
  Gain        \* the parameter "gain"

VARIABLES
  light_topic,   \* positions the controller has not taken
  light_pos,     \* the position it steers by
  setpoint       \* the last velocities published, left and right

steerVars == <<light_topic, light_pos, setpoint>>

\* A position, and where the object really is in its picture (history).
Point(x, place) == [x |-> x, place |-> place]

\* The error times the gain.
Steering(x) == Gain * (x - Width \div 2)

SteerInit ==
  /\ light_topic = <<>>
  /\ light_pos = 0
  /\ setpoint = <<0, 0>>

\* Velocities are only set while there are none.
SteerTimerOnce ==
  /\ setpoint = <<0, 0>>
  /\ setpoint' = <<Steering(light_pos), - Steering(light_pos)>>
  /\ UNCHANGED <<light_topic, light_pos>>

\* The timer: the two wheels turn against each other.
SteerTimer ==
  /\ setpoint' = <<Steering(light_pos), - Steering(light_pos)>>
  /\ UNCHANGED <<light_topic, light_pos>>

\* "Not found" is taken for a position.
UpdateLightPosAlways ==
  /\ light_topic # <<>>
  /\ light_topic' = Tail(light_topic)
  /\ light_pos' = Head(light_topic).x
  /\ UNCHANGED <<setpoint>>

\* The first position that was found is kept.
UpdateLightPosOnce ==
  /\ light_topic # <<>>
  /\ light_topic' = Tail(light_topic)
  /\ light_pos' = IF light_pos # 0 \/ Head(light_topic).x = -1 THEN light_pos
                   ELSE Head(light_topic).x
  /\ UNCHANGED <<setpoint>>

\* The callback of light_position: an object that was not found is ignored.
UpdateLightPos ==
  /\ light_topic # <<>>
  /\ light_topic' = Tail(light_topic)
  /\ light_pos' = IF Head(light_topic).x = -1 THEN light_pos ELSE Head(light_topic).x
  /\ UNCHANGED <<setpoint>>
=============================================================================
