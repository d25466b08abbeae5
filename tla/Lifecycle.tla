----------------------------- MODULE Lifecycle -----------------------------
(***************************************************************************)
(* What the state machine of the XRF2 framework promises to the people who *)
(* operate the robot, with the ten states of the code folded into six      *)
(* phases:                                                                 *)
(*                                                                         *)
(*   down    nothing is prepared, or preparing is not finished             *)
(*   ready   the initialising function has completed                       *)
(*   active  the loop may drive the robot (running, pausing, stopping)     *)
(*   halted  the stopping function has completed                           *)
(*   failed  a state function reported an error                            *)
(*   over    the loop is told to end                                       *)
(*                                                                         *)
(* The robot is active only after preparing completed, and the loop ends   *)
(* only after the stopping function completed or after an error.           *)
(***************************************************************************)

VARIABLE phase

Phases == {"down", "ready", "active", "halted", "failed", "over"}

Move(from, to) == phase \in from /\ phase' = to

Prepare == Move({"down"}, "ready")
Activate == Move({"ready"}, "active")
Halt == Move({"active"}, "halted")
StartOver == Move({"active", "halted", "failed"}, "down")
Fail == Move({"down", "ready", "active", "halted"}, "failed")
Finish == Move({"halted", "failed"}, "over")

Init == phase = "down"

Next == Prepare \/ Activate \/ Halt \/ StartOver \/ Fail \/ Finish

Spec == Init /\ [][Next]_phase

=============================================================================
