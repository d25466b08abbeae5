--------------------------- MODULE XenoFrtRosIco ---------------------------
(***************************************************************************)
(* The real-time thread of the robot: XenoFrtRosIco::step() called by      *)
(* XenoFrtLoop::loop(), with the state functions of XenoLoopRunner, the    *)
(* program that runs on the robot.  One cycle is                           *)
(*                                                                         *)
(*   update_io -> data_read -> data_write -> command_read -> command_write *)
(*             -> monitor -> log -> update_io ...                          *)
(*                                                                         *)
(* and Linux may act on the cross-buffers between any two of these.        *)
(*                                                                         *)
(* A setpoint is the number of the Ros2Xeno message it came in, 0 for the  *)
(* zero speeds of a message that was never received.  An encoder message   *)
(* is its age: the cycles since its values were sampled.  Memory that the  *)
(* constructors leave alone is zeroed (the thread has a fresh stack).      *)
(***************************************************************************)
EXTENDS Integers, XrfBuffers

CONSTANT decimation_total   \* cycles per message to ROS, in both bridges

ASSUME DecimationAssumption == decimation_total \in Nat \ {0}

VARIABLES
  pc,                       \* the next statement of the cycle, "end" after the loop
  ret,                      \* what state_machine.step() returned
  current_state, previous_state, current_state_fcn, last_error,
  command_write_flag, command_counter,   \* XenoRosCommandBridge
  data_write_flag, data_counter,         \* XenoRosDataBridge
  initialsed, started, types, data_size, file, process,  \* XenoFrtLogger
  ros_msg,                  \* the last setpoint read
  actuate_data,             \* the setpoint in the PWM values to be sent
  fpga,                     \* external: the setpoint the motor outputs stand at
  xeno_age,                 \* age of the values in xeno_msg
  handled                   \* ghost: number of the last command read

fsmVars == <<current_state, previous_state, current_state_fcn, last_error>>
loggerVars == <<initialsed, started, types, data_size, file, process>>
commandBridgeVars == <<command_write_flag, command_counter>>
dataBridgeVars == <<data_write_flag, data_counter>>
ioVars == <<ros_msg, actuate_data, fpga, xeno_age>>
rtVars == <<pc, ret, fsmVars, loggerVars, commandBridgeVars, dataBridgeVars, ioVars, handled>>

\* The five variables XenoLoopRunner declares in its constructor.
RunnerTypes == <<3, 5, 4, 2, 1>>

\* The runner's state functions never return a negative value: nothing fails.
FSM == INSTANCE FullStateMachine WITH Returns <- {0, 1}, failure <- 0
Log == INSTANCE XenoFrtLogger WITH
         MaxVariables <- 100, UninitFlags <- {FALSE}, ShortWrites <- FALSE, MaxEntries <- 0

\* enum COMMANDS.
INITIALISE_CMD == 1
START_CMD      == 2
STOP_CMD       == 3
RESET_CMD      == 4
PAUSE_CMD      == 5
QUIT_CMD       == 6

\* Encoder values older than a cycle are not told apart, nor from those of
\* a message that was never filled.
OldAge == 2

RtInit ==
  /\ pc = "update_io"
  /\ ret = 0
  /\ FSM!Init
  /\ command_write_flag = FALSE
  /\ command_counter = decimation_total - 1
  /\ data_write_flag = FALSE
  /\ data_counter = decimation_total - 1
  /\ initialsed = FALSE
  /\ started = FALSE
  /\ types = RunnerTypes
  /\ data_size = 18
  /\ file = <<>>
  /\ process = "up"
  /\ ros_msg = 0
  /\ actuate_data = 0
  /\ fpga = 0
  /\ xeno_age = OldAge
  /\ handled = 0

At(statement, next) == process = "up" /\ pc = statement /\ pc' = next
-----------------------------------------------------------------------------
\* A frame with the values of the last message from ROS.
UpdateIoSendsMessage ==
  /\ At("update_io", "data_read")
  /\ fpga' = ros_msg
  /\ xeno_age' = IF xeno_age < OldAge THEN xeno_age + 1 ELSE OldAge
  /\ UNCHANGED <<ret, fsmVars, loggerVars, commandBridgeVars, dataBridgeVars,
                 ros_msg, actuate_data, handled, bufferVars>>

\* ico_io.update_io(actuate_data, &sample_data): the frame carries the PWM
\* values of the last cycle.
UpdateIo ==
  /\ At("update_io", "data_read")
  /\ fpga' = actuate_data
  /\ xeno_age' = IF xeno_age < OldAge THEN xeno_age + 1 ELSE OldAge
  /\ UNCHANGED <<ret, fsmVars, loggerVars, commandBridgeVars, dataBridgeVars,
                 ros_msg, actuate_data, handled, bufferVars>>

\* A message that is read into a local variable, empty when nothing came.
DataReadClears ==
  /\ At("data_read", "data_write")
  /\ IF data_in = <<>> THEN ros_msg' = 0 /\ UNCHANGED <<data_in, data_write_flag>>
     ELSE /\ ros_msg' = Head(data_in)
          /\ data_in' = Tail(data_in)
          /\ data_write_flag' = TRUE
  /\ UNCHANGED <<ret, fsmVars, loggerVars, commandBridgeVars, data_counter,
                 actuate_data, fpga, xeno_age, handled, command_in, command_out, data_out>>

\* data_bridge.update(), the read: at most one message per cycle.
DataRead ==
  /\ At("data_read", "data_write")
  /\ IF data_in = <<>> THEN UNCHANGED <<data_in, ros_msg, data_write_flag>>
     ELSE /\ ros_msg' = Head(data_in)
          /\ data_in' = Tail(data_in)
          /\ data_write_flag' = TRUE
  /\ UNCHANGED <<ret, fsmVars, loggerVars, commandBridgeVars, data_counter,
                 actuate_data, fpga, xeno_age, handled, command_in, command_out, data_out>>

NextCounter(counter) == IF counter = 0 THEN decimation_total - 1 ELSE counter - 1

\* The write flag is not asked for.
DataWriteAlways ==
  /\ At("data_write", "command_read")
  /\ data_out' = IF data_counter = 0
                 THEN Written(data_out, DataSlots, [age |-> xeno_age, old |-> FALSE])
                 ELSE data_out
  /\ data_counter' = NextCounter(data_counter)
  /\ UNCHANGED <<ret, fsmVars, loggerVars, commandBridgeVars, data_write_flag, ioVars,
                 handled, command_in, command_out, data_in>>

\* data_bridge.update(), the decimated write of xeno_msg.
DataWrite ==
  /\ At("data_write", "command_read")
  /\ data_out' = IF data_write_flag /\ data_counter = 0
                 THEN Written(data_out, DataSlots, [age |-> xeno_age, old |-> FALSE])
                 ELSE data_out
  /\ data_counter' = NextCounter(data_counter)
  /\ UNCHANGED <<ret, fsmVars, loggerVars, commandBridgeVars, data_write_flag, ioVars,
                 handled, command_in, command_out, data_in>>

\* The switch of the command bridge; a value that is no command is ignored.
Dispatch(command) ==
  \/ command = INITIALISE_CMD /\ FSM!initialise
  \/ command = START_CMD /\ FSM!start
  \/ command = STOP_CMD /\ FSM!stop
  \/ command = RESET_CMD /\ FSM!reset
  \/ command = PAUSE_CMD /\ FSM!pause
  \/ command = QUIT_CMD /\ FSM!quit
  \/ command \notin INITIALISE_CMD .. QUIT_CMD /\ UNCHANGED fsmVars

\* A read that is made only once.
CommandReadOnce ==
  /\ At("command_read", "command_write")
  /\ IF command_in = <<>> \/ command_write_flag
     THEN UNCHANGED <<command_in, command_write_flag, handled, fsmVars>>
     ELSE /\ handled' = Head(command_in).id
          /\ command_in' = Tail(command_in)
          /\ command_write_flag' = TRUE
          /\ Dispatch(Head(command_in).command)
  /\ UNCHANGED <<ret, loggerVars, command_counter, dataBridgeVars, ioVars,
                 command_out, data_in, data_out>>

\* command_bridge.update(), the read and the dispatch: at most one per cycle.
CommandRead ==
  /\ At("command_read", "command_write")
  /\ IF command_in = <<>>
     THEN UNCHANGED <<command_in, command_write_flag, handled, fsmVars>>
     ELSE /\ handled' = Head(command_in).id
          /\ command_in' = Tail(command_in)
          /\ command_write_flag' = TRUE
          /\ Dispatch(Head(command_in).command)
  /\ UNCHANGED <<ret, loggerVars, command_counter, dataBridgeVars, ioVars,
                 command_out, data_in, data_out>>

\* What is written to ROS: the state and, as a ghost, the last command that
\* it can be the answer to.
Report == [state |-> current_state, after |-> handled, old |-> FALSE]

\* The write flag is not asked for.
CommandWriteAlways ==
  /\ At("command_write", "monitor")
  /\ command_out' = IF command_counter = 0
                    THEN Written(command_out, StateSlots, Report) ELSE command_out
  /\ command_counter' = NextCounter(command_counter)
  /\ UNCHANGED <<ret, fsmVars, loggerVars, command_write_flag, dataBridgeVars, ioVars,
                 handled, command_in, data_in, data_out>>

\* One report per command.
CommandWriteOnce ==
  /\ At("command_write", "monitor")
  /\ command_out' = IF command_write_flag /\ command_counter = 0
                    THEN Written(command_out, StateSlots, Report) ELSE command_out
  /\ command_counter' = NextCounter(command_counter)
  /\ command_write_flag' = (command_write_flag /\ command_counter # 0)
  /\ UNCHANGED <<ret, fsmVars, loggerVars, dataBridgeVars, ioVars,
                 handled, command_in, data_in, data_out>>

\* command_bridge.update(), the decimated write of the state.
CommandWrite ==
  /\ At("command_write", "monitor")
  /\ command_out' = IF command_write_flag /\ command_counter = 0
                    THEN Written(command_out, StateSlots, Report) ELSE command_out
  /\ command_counter' = NextCounter(command_counter)
  /\ UNCHANGED <<ret, fsmVars, loggerVars, command_write_flag, dataBridgeVars, ioVars,
                 handled, command_in, data_in, data_out>>
-----------------------------------------------------------------------------
(***************************************************************************)
(* The state functions of XenoLoopRunner: what each does, then what the    *)
(* state machine makes of the value it returns.                            *)
(***************************************************************************)

\* An initialising function without logger.initialise().
InitialisingWithoutLogger == FSM!step(1) /\ UNCHANGED <<loggerVars, ioVars>>

\* The logger writes its header and the FPGA is initialised; either ends the
\* process if it fails.
Initialising ==
  /\ \/ Log!logger_initialise(TRUE) /\ FSM!step(1)
     \/ Log!logger_initialise(FALSE) /\ UNCHANGED fsmVars
     \/ /\ initialsed' = TRUE
        /\ file' = Append(file, Log!HeaderOf(types, "whole"))
        /\ process' = "exited"
        /\ UNCHANGED <<started, types, data_size, fsmVars>>
  /\ UNCHANGED ioVars

\* The PWM values are computed after the last update_io of run().
RunSendsTooEarly ==
  /\ Log!logger_start
  /\ xeno_age' = 0
  /\ actuate_data' = ros_msg
  /\ FSM!step(0)
  /\ UNCHANGED <<ros_msg, fpga>>

\* The encoders are not copied into xeno_msg.
RunSamplesNothing ==
  /\ Log!logger_start
  /\ actuate_data' = ros_msg
  /\ fpga' = ros_msg
  /\ FSM!step(0)
  /\ UNCHANGED <<ros_msg, xeno_age>>

\* The PWM values are never computed.
RunWithoutSetpoint ==
  /\ Log!logger_start
  /\ xeno_age' = 0
  /\ FSM!step(0)
  /\ UNCHANGED <<ros_msg, actuate_data, fpga>>

\* The encoders are sampled, then the last setpoint becomes the PWM values
\* and is sent at once.  controller.IsFinished() stays false, as nothing
\* calls Calculate().
Run ==
  /\ Log!logger_start
  /\ xeno_age' = 0
  /\ actuate_data' = ros_msg
  /\ fpga' = ros_msg
  /\ UNCHANGED ros_msg
  /\ FSM!step(0)

\* A stopping function that leaves the logger running.
StoppingKeepsLogging == UNCHANGED <<loggerVars, ioVars>> /\ FSM!step(1)

Stopping == Log!logger_stop /\ UNCHANGED ioVars /\ FSM!step(1)

\* A pausing function that does not report that it is done.
PausingNeverDone == UNCHANGED <<loggerVars, ioVars>> /\ FSM!step(0)

Pausing == UNCHANGED <<loggerVars, ioVars>> /\ FSM!step(1)

\* initialised, stopped, paused and error only print.
Idling == UNCHANGED <<loggerVars, ioVars>> /\ FSM!step(0)

\* state_machine.step() calls the function of the state, if there is one.
StateFunction ==
  IF ~FSM!CallsFunction THEN UNCHANGED <<loggerVars, ioVars, fsmVars>>
  ELSE \/ current_state_fcn = "initialising" /\ Initialising
       \/ current_state_fcn = "run" /\ Run
       \/ current_state_fcn = "stopping" /\ Stopping
       \/ current_state_fcn = "pausing" /\ Pausing
       \/ current_state_fcn \in {"initialised", "stopped", "paused", "error"} /\ Idling

\* monitor.update() only counts down to the next line of text; then
\* state_machine.step().
Monitor ==
  /\ At("monitor", "log")
  /\ ret' = FSM!StepReturns
  /\ StateFunction
  /\ UNCHANGED <<commandBridgeVars, dataBridgeVars, handled, bufferVars>>

\* logger.log(), then the loop sleeps until the next cycle or ends.
Logging ==
  /\ At("log", IF ret = 0 THEN "update_io" ELSE "end")
  /\ \E written \in Log!RowWrites : Log!log(written)
  /\ UNCHANGED <<ret, fsmVars, commandBridgeVars, dataBridgeVars, ioVars, handled, bufferVars>>

RtNext ==
  \/ UpdateIo
  \/ DataRead
  \/ DataWrite
  \/ CommandRead
  \/ CommandWrite
  \/ Monitor
  \/ Logging
=============================================================================
