----------------------------- MODULE XrfSystem -----------------------------
(***************************************************************************)
(* The real-time thread and the ROS node, joined by the cross-buffers.     *)
(***************************************************************************)
EXTENDS XenoFrtRosIco, RosXenoBridge

vars == <<rtVars, nodeVars, bufferVars>>

Init == BuffersInit /\ RtInit /\ NodeInit

RtStep == RtNext /\ UNCHANGED nodeVars

\* The node cannot open the buffers after the real-time process has ended.
NodeStep == NodeNext /\ UNCHANGED rtVars /\ (node = "down" => process = "up" /\ pc # "end")

UserStep == UserNext /\ UNCHANGED rtVars

Next == RtStep \/ NodeStep \/ UserStep

Spec == Init /\ [][Next]_vars

\* The real-time thread runs under SCHED_FIFO and its only waiting is the
\* sleep to the next cycle; the executor of the node serves the timer and
\* both subscriptions as long as the process lives.
Fairness ==
  /\ WF_vars(RtStep)
  /\ WF_vars(TimerData /\ UNCHANGED rtVars)
  /\ WF_vars(TimerControl /\ UNCHANGED rtVars)
  /\ WF_vars(ControlCallback /\ UNCHANGED rtVars)
  /\ WF_vars(DataCallback /\ UNCHANGED rtVars)

FairSpec == Spec /\ Fairness
-----------------------------------------------------------------------------
Commands == [id : Nat, command : Int]
Reports == [state : FSM!States, after : Nat, old : BOOLEAN]
Samples == [age : 0 .. OldAge, old : BOOLEAN]

\* The variables have their types and no buffer holds more than its size.
TypeOK ==
  /\ pc \in {"update_io", "data_read", "data_write", "command_read", "command_write",
             "monitor", "log", "end"}
  /\ ret \in {0, 1}
  /\ FSM!TypeOK
  /\ command_write_flag \in BOOLEAN
  /\ data_write_flag \in BOOLEAN
  /\ command_counter \in 0 .. decimation_total - 1
  /\ data_counter \in 0 .. decimation_total - 1
  /\ Log!LogTypeOK
  /\ ros_msg \in Nat
  /\ actuate_data \in Nat
  /\ fpga \in Nat
  /\ xeno_age \in 0 .. OldAge
  /\ handled \in Nat
  /\ command_in \in Seq(Commands) /\ Len(command_in) <= InSlots
  /\ command_out \in Seq(Reports) /\ Len(command_out) <= StateSlots
  /\ data_in \in Seq(Nat) /\ Len(data_in) <= InSlots
  /\ data_out \in Seq(Samples) /\ Len(data_out) <= DataSlots
  /\ node \in {"down", "spin", "control"}
  /\ launches \in Nat
  /\ commands \in Nat
  /\ setpoints \in Nat
  /\ XenoCmd \in Seq(Commands) /\ Len(XenoCmd) <= 1
  /\ Ros2Xeno \in Seq(Nat) /\ Len(Ros2Xeno) <= 1
  /\ XenoState \in Reports \union {NoState}
  /\ Xeno2Ros \in Samples

-----------------------------------------------------------------------------
(***************************************************************************)
(* Commands and states.                                                    *)
(***************************************************************************)

\* Commands may be lost on the way, but those that reach the state machine reach
\* it in the order they were published and once each, also over restarts of the
\* node: what waits was published after what was handled, and what waits in the
\* subscription after what waits in the buffer.
CommandsInOrder ==
  /\ handled <= commands
  /\ \A i \in DOMAIN command_in : command_in[i].id \in handled + 1 .. commands
  /\ \A i \in DOMAIN XenoCmd : XenoCmd[i].id \in handled + 1 .. commands
  /\ \A i \in DOMAIN command_in, j \in DOMAIN XenoCmd : command_in[i].id < XenoCmd[j].id

\* No state is sent to ROS before the first command was read.
NoReportBeforeCommand == handled = 0 => command_out = <<>> /\ XenoState = NoState

\* What the operator sees never goes back to a state from before a command whose
\* effect was already shown: also not when the buffer was full, when several
\* states were in it, or when the node was restarted.
ReportsNeverGoBack == [][XenoState'.after >= XenoState.after]_vars

\* The state machine drops a request that arrives in INITIALISING, STOPPING or
\* PAUSING.  With this program's state functions no command ever meets one of
\* these states: they are left in the cycle in which they are entered.
CommandsMeetStableStates ==
  pc \in {"update_io", "data_read", "data_write", "command_read"} =>
    (process = "up" => current_state \notin {FSM!INITIALISING_STATE, FSM!STOPPING_STATE,
                                             FSM!PAUSING_STATE})

Ended == pc = "end" \/ process # "up"

\* When no more commands come, the operator is eventually shown the state the
\* robot is in, as long as both processes stay up and a command was read at all.
EventuallyReported ==
  <>[](\/ Ended
       \/ node = "down"
       \/ handled = 0
       \/ XenoState.state = current_state)

\* A command in the buffer is eventually handled, unless the loop ends.
BufferedCommandIsHandled ==
  \A n \in 1 .. MaxCommands :
    (command_in # <<>> /\ command_in[1].id = n) ~> (handled >= n \/ Ended)
-----------------------------------------------------------------------------
(***************************************************************************)
(* Setpoints, motors, encoders and the log.                                *)
(***************************************************************************)

\* The motors never return to an older setpoint.
SetpointsInOrder == [][fpga' >= fpga]_vars

\* Outside RUN no setpoint reaches the motors that did not reach them in RUN,
\* although every cycle sends a frame and setpoints keep arriving.
MotorsOnlyChangeInRun == [][fpga' \in {0, fpga} \/ current_state = FSM!RUN_STATE]_vars

\* In every cycle the motors move only after the command of the cycle was read and
\* dispatched, and then to the newest setpoint: the frame at the start of a cycle
\* repeats what they stand at, in every state.  Otherwise a setpoint would reach
\* them in the cycle that is about to read the STOP or PAUSE after it.
CommandsComeFirst == [][fpga' # fpga => pc = "monitor" /\ fpga' = ros_msg]_vars

\* In RUN the encoder values sent to ROS were sampled in the previous cycle.
RunningDataIsFresh ==
  pc = "data_write" /\ current_state = FSM!RUN_STATE => xeno_age = 1

\* Data is only sent to ROS after the first ROS message was received.
NoDataBeforeSetpoint == data_out # <<>> => data_write_flag /\ ros_msg > 0

\* After a restart of the node no encoder message from before it is published.
NoOldData == ~Xeno2Ros.old

\* In a state the robot rests in before INITIALISE and after STOP, the logger is off.
RestingIsNotLogged ==
  current_state \in {FSM!IDLE_STATE, FSM!STOPPED_STATE, FSM!QUIT_STATE} => ~started

\* The assertions of the logger hold in this program.
NoAssertionFails == process # "aborted"

\* While the robot stays in RUN, a setpoint in the buffer reaches the motors.
BufferedSetpointIsApplied ==
  \A n \in 1 .. MaxSetpoints :
    data_in = <<n>> ~> (fpga >= n \/ current_state # FSM!RUN_STATE \/ Ended)
-----------------------------------------------------------------------------
(***************************************************************************)
(* What comments of the code say and the code does not do.                 *)
(***************************************************************************)

\* XenoLoopRunner::stopping: "Bring the physical system to a stop".
StoppedMeansStill == current_state = FSM!STOPPED_STATE => fpga = 0

\* XenoLoopRunner::initialising: "The logger has to be initialised at only once".
OneHeader == \A i, j \in DOMAIN file : file[i].kind = "header" /\ file[j].kind = "header" => i = j

\* RosXenoBridge::initialize: "clears any stale data in the buffers".
NoOldState == ~XenoState.old
=============================================================================
