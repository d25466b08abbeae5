------------------------- MODULE XrfRunner_proofs -------------------------
(***************************************************************************)
(* Proofs about the state machine, the logger and the motors inside the    *)
(* composed system.                                                        *)
(***************************************************************************)
EXTENDS XrfSystem, TLAPS

\* The proofs about the state machine, whose state functions here return 0 or 1.
P == INSTANCE FullStateMachine_proofs WITH Returns <- {0, 1}, failure <- 0

\* The states by number.
LEMMA StateNumbers ==
  /\ FSM!IDLE_STATE = 1 /\ FSM!INITIALISING_STATE = 2 /\ FSM!INITIALISED_STATE = 3
  /\ FSM!RUN_STATE = 4 /\ FSM!STOPPING_STATE = 5 /\ FSM!STOPPED_STATE = 6
  /\ FSM!PAUSING_STATE = 7 /\ FSM!PAUSED_STATE = 8 /\ FSM!ERROR_STATE = 9
  /\ FSM!QUIT_STATE = 10 /\ FSM!States = 1 .. 10
BY DEF FSM!States, FSM!IDLE_STATE, FSM!INITIALISING_STATE, FSM!INITIALISED_STATE,
       FSM!RUN_STATE, FSM!STOPPING_STATE, FSM!STOPPED_STATE, FSM!PAUSING_STATE,
       FSM!PAUSED_STATE, FSM!ERROR_STATE, FSM!QUIT_STATE

\* The requests and the step of the proved machine are those of the runner.
LEMMA SameMachine ==
  /\ [P!Next]_(P!fsmVars) <=> [P!Next]_fsmVars
  /\ FSM!initialise => [P!Next]_fsmVars
  /\ FSM!start => [P!Next]_fsmVars
  /\ FSM!stop => [P!Next]_fsmVars
  /\ FSM!reset => [P!Next]_fsmVars
  /\ FSM!pause => [P!Next]_fsmVars
  /\ FSM!quit => [P!Next]_fsmVars
  /\ \A r \in {0, 1} : FSM!step(r) => [P!Next]_fsmVars
<1> USE StateNumbers, P!StateFacts
         DEF P!fsmVars, FSM!fsmVars, fsmVars, P!Enter, FSM!Enter, P!Next
<1>1. [P!Next]_(P!fsmVars) <=> [P!Next]_fsmVars
  OBVIOUS
<1>2. ASSUME NEW r \in {0, 1}, FSM!step(r)
      PROVE  [P!Next]_fsmVars
  <2>1. FSM!CallsFunction <=> P!CallsFunction
    BY DEF FSM!CallsFunction, P!CallsFunction
  <2>2. FSM!Advance => P!Advance
    BY DEF P!Advance, FSM!Advance, P!Successors, FSM!Successors
  <2>3. FSM!step(r) => P!step(r)
    BY <2>1, <2>2 DEF P!step, FSM!step
  <2>4. QED
    BY <1>2, <2>3
<1>3. /\ FSM!initialise => P!initialise
      /\ FSM!start => P!start
      /\ FSM!stop => P!stop
      /\ FSM!reset => P!reset
      /\ FSM!pause => P!pause
      /\ FSM!quit => P!quit
  BY DEF P!initialise, P!start, P!stop, P!reset, P!pause, P!quit, P!Request,
     FSM!initialise, FSM!start, FSM!stop, FSM!reset, FSM!pause, FSM!quit, FSM!Request
<1>4. QED
  BY <1>1, <1>2, <1>3

\* The request of a command is a step of the state machine.
LEMMA DispatchSteps ==
  ASSUME NEW command, Dispatch(command)
  PROVE  [P!Next]_fsmVars
BY SameMachine DEF Dispatch, P!Next

\* What the state functions make of the machine is a step of it.
LEMMA FunctionSteps ==
  ASSUME StateFunction
  PROVE  [P!Next]_fsmVars
BY SameMachine DEF StateFunction, Initialising, Run, Stopping, Pausing, Idling, P!Next

\* Every step of the system is a step of the state machine, or none.
LEMMA MachineSteps ==
  ASSUME [Next]_vars
  PROVE  [P!Next]_fsmVars
<1>1. CASE RtStep
  BY <1>1, DispatchSteps, FunctionSteps
     DEF RtStep, RtNext, UpdateIo, DataRead, DataWrite, CommandRead, CommandWrite, Monitor, Logging
<1>2. CASE UNCHANGED rtVars
  BY <1>2 DEF rtVars
<1>3. QED
  BY <1>1, <1>2 DEF Next, NodeStep, UserStep, vars

\* The system runs the state machine whose proofs are reused here.
LEMMA MachineSpec == Spec => P!Spec
<1>1. Init => P!Init
  BY StateNumbers, P!StateFacts DEF Init, RtInit, FSM!Init, P!Init
<1>2. [Next]_vars => [P!Next]_(P!fsmVars)
  BY MachineSteps, SameMachine
<1>3. QED
  BY <1>1, <1>2, PTL DEF Spec, P!Spec

\* The inductive invariant of the state machine holds in the system.
LEMMA MachineInvariance == Spec => []P!IInv
<1>1. P!ReturnsAssumption
  BY DEF P!ReturnsAssumption
<1>2. QED
  BY <1>1, MachineSpec, P!Invariance, PTL
-----------------------------------------------------------------------------
(***************************************************************************)
(* What the real-time thread does around the state machine.                *)
(***************************************************************************)

\* The state and the function that the next step calls belong together.
MachineFacts ==
  \/ current_state = FSM!IDLE_STATE /\ current_state_fcn = "null"
  \/ current_state = FSM!INITIALISING_STATE /\ current_state_fcn = "initialising"
  \/ current_state = FSM!INITIALISED_STATE /\ current_state_fcn = "initialised"
  \/ current_state = FSM!RUN_STATE /\ current_state_fcn = "run"
  \/ current_state = FSM!STOPPING_STATE /\ current_state_fcn = "stopping"
  \/ current_state = FSM!STOPPED_STATE /\ current_state_fcn = "stopped"
  \/ current_state = FSM!PAUSING_STATE /\ current_state_fcn = "pausing"
  \/ current_state = FSM!PAUSED_STATE /\ current_state_fcn = "paused"
  \/ current_state = FSM!ERROR_STATE /\ current_state_fcn = "error"
  \/ current_state = FSM!QUIT_STATE /\ current_state_fcn = "null"

\* They do, by the invariant of the state machine.
LEMMA Machine == P!IInv => MachineFacts
BY StateNumbers, P!StateFacts DEF MachineFacts, P!IInv, P!FcnMatchesState, P!StateFunctions

\* A request changes the state only between these.
LEMMA Requests ==
  ASSUME NEW command, Dispatch(command)
  PROVE  \/ UNCHANGED current_state
         \/ current_state = FSM!IDLE_STATE /\ current_state' = FSM!INITIALISING_STATE
         \/ /\ current_state \in {FSM!INITIALISED_STATE, FSM!PAUSED_STATE}
            /\ current_state' = FSM!RUN_STATE
         \/ /\ current_state \in {FSM!RUN_STATE, FSM!PAUSED_STATE}
            /\ current_state' = FSM!STOPPING_STATE
         \/ /\ current_state \in {FSM!STOPPED_STATE, FSM!ERROR_STATE, FSM!RUN_STATE}
            /\ current_state' = FSM!INITIALISING_STATE
         \/ current_state = FSM!RUN_STATE /\ current_state' = FSM!PAUSING_STATE
         \/ /\ current_state \in {FSM!STOPPED_STATE, FSM!ERROR_STATE}
            /\ current_state' = FSM!QUIT_STATE
BY DEF Dispatch, FSM!initialise, FSM!start, FSM!stop, FSM!reset, FSM!pause, FSM!quit,
       FSM!Request, FSM!Enter, fsmVars, FSM!fsmVars

\* What one call of step does, by the state it is made in: nothing in a state whose
\* function only prints, or that has none.
Rests ==
  /\ current_state \notin {FSM!INITIALISING_STATE, FSM!RUN_STATE,
                           FSM!STOPPING_STATE, FSM!PAUSING_STATE}
  /\ UNCHANGED <<current_state, loggerVars, ioVars>>

\* INITIALISING: the header is written, or the process ends.
Prepares ==
  /\ current_state = FSM!INITIALISING_STATE
  /\ UNCHANGED <<started, ioVars>>
  /\ \/ current_state' = FSM!INITIALISED_STATE /\ initialsed' = TRUE /\ UNCHANGED process
     \/ UNCHANGED <<current_state, initialsed>> /\ process' = "exited"
     \/ UNCHANGED current_state /\ initialsed' = TRUE /\ process' = "exited"

\* RUN: log, sample and drive.
Runs ==
  /\ current_state = FSM!RUN_STATE
  /\ started' = TRUE
  /\ UNCHANGED <<current_state, initialsed, process, ros_msg>>
  /\ xeno_age' = 0
  /\ actuate_data' = ros_msg
  /\ fpga' = ros_msg

\* STOPPING: the logger stops; the motors keep their values.
Stops ==
  /\ current_state = FSM!STOPPING_STATE
  /\ current_state' = FSM!STOPPED_STATE
  /\ started' = FALSE
  /\ UNCHANGED <<initialsed, process, ioVars>>

\* PAUSING: nothing but the transition.
Pauses ==
  /\ current_state = FSM!PAUSING_STATE
  /\ current_state' = FSM!PAUSED_STATE
  /\ UNCHANGED <<loggerVars, ioVars>>

\* Every call of step is one of these.
LEMMA Functions ==
  ASSUME MachineFacts, StateFunction
  PROVE  Rests \/ Prepares \/ Runs \/ Stops \/ Pauses
<1> USE StateNumbers DEF MachineFacts, Rests, Prepares, Runs, Stops, Pauses
<1>1. FSM!step(0) => UNCHANGED current_state
  BY DEF FSM!step, FSM!fsmVars
<1>2. CASE ~FSM!CallsFunction
  BY <1>2 DEF StateFunction, FSM!CallsFunction, fsmVars
<1>3. CASE FSM!CallsFunction /\ current_state_fcn = "initialising" /\ Initialising
  BY <1>3 DEF Initialising, FSM!step, FSM!Advance, FSM!Successors, FSM!Enter, fsmVars,
              Log!logger_initialise, ioVars
<1>4. CASE FSM!CallsFunction /\ current_state_fcn = "run" /\ Run
  BY <1>1, <1>4 DEF Run, Log!logger_start, ioVars
<1>5. CASE FSM!CallsFunction /\ current_state_fcn = "stopping" /\ Stopping
  BY <1>5 DEF Stopping, FSM!step, FSM!Advance, FSM!Successors, FSM!Enter, Log!logger_stop
<1>6. CASE FSM!CallsFunction /\ current_state_fcn = "pausing" /\ Pausing
  BY <1>6 DEF Pausing, FSM!step, FSM!Advance, FSM!Successors, FSM!Enter
<1>7. CASE /\ current_state_fcn \in {"initialised", "stopped", "paused", "error"}
           /\ Idling
  BY <1>1, <1>7 DEF Idling
<1>8. QED
  BY <1>2, <1>3, <1>4, <1>5, <1>6, <1>7 DEF StateFunction
-----------------------------------------------------------------------------
(***************************************************************************)
(* The logger, the motors and the encoders.                                *)
(***************************************************************************)

\* The machine never fails, and once it is prepared the logger has its header.
LoggerInv ==
  /\ current_state # FSM!ERROR_STATE
  /\ current_state \notin {FSM!IDLE_STATE, FSM!INITIALISING_STATE} => initialsed
  /\ started => initialsed
  /\ RestingIsNotLogged
  /\ NoAssertionFails

\* The frame of every cycle repeats the setpoint at which the motors stand, and in
\* RUN the age of the encoder values follows from the place in the cycle.
MotorInv ==
  /\ fpga = actuate_data
  /\ current_state = FSM!RUN_STATE =>
       /\ pc \in {"log", "update_io"} => xeno_age = 0
       /\ pc \in {"data_read", "data_write"} => xeno_age = 1

\* Between two steps of the state machine it is not in a passing state.
StableInv ==
  pc \in {"log", "update_io", "data_read", "data_write", "command_read"} =>
    (process = "up" => current_state \notin {FSM!INITIALISING_STATE, FSM!STOPPING_STATE,
                                             FSM!PAUSING_STATE})

RunnerInv == LoggerInv /\ MotorInv /\ StableInv

\* The invariant holds at the start.
LEMMA RunnerInit == Init => RunnerInv
BY StateNumbers
   DEF Init, RtInit, FSM!Init, RunnerInv, LoggerInv, MotorInv, StableInv,
       RestingIsNotLogged, NoAssertionFails

\* One step per action of the thread; no other action touches its variables.
LEMMA RunnerNext ==
  ASSUME MachineFacts, RunnerInv, [Next]_vars
  PROVE  RunnerInv'
<1> USE StateNumbers
        DEF RunnerInv, LoggerInv, MotorInv, StableInv, RestingIsNotLogged, NoAssertionFails,
            At
<1>1. CASE UpdateIo
  BY <1>1 DEF UpdateIo, fsmVars, loggerVars, OldAge
<1>2. CASE DataRead
  BY <1>2 DEF DataRead, fsmVars, loggerVars
<1>3. CASE DataWrite
  BY <1>3 DEF DataWrite, fsmVars, loggerVars, ioVars
<1>4. CASE CommandRead
  <2>1. CASE UNCHANGED current_state
    BY <1>4, <2>1 DEF CommandRead, loggerVars, ioVars
  <2>2. CASE Dispatch(command_in[1].command)
    BY <1>4, <2>2, Requests DEF CommandRead, loggerVars, ioVars
  <2>3. QED
    BY <1>4, <2>1, <2>2 DEF CommandRead, fsmVars
<1>5. CASE CommandWrite
  BY <1>5 DEF CommandWrite, fsmVars, loggerVars, ioVars
<1>6. CASE Monitor
  <2>1. StateFunction /\ process = "up" /\ pc' = "log"
    BY <1>6 DEF Monitor
  <2>2. CASE Rests
    BY <2>1, <2>2 DEF Rests, loggerVars, ioVars
  <2>3. CASE Prepares
    BY <2>1, <2>3 DEF Prepares, ioVars
  <2>4. CASE Runs
    BY <2>1, <2>4 DEF Runs
  <2>5. CASE Stops
    BY <2>1, <2>5 DEF Stops, ioVars
  <2>6. CASE Pauses
    BY <2>1, <2>6 DEF Pauses, loggerVars, ioVars
  <2>7. QED
    BY <2>1, <2>2, <2>3, <2>4, <2>5, <2>6, Functions
<1>7. CASE Logging
  BY <1>7 DEF Logging, Log!log, Log!Abort, Log!loggerVars, fsmVars, ioVars
<1>8. CASE UNCHANGED rtVars
  BY <1>8 DEF rtVars, fsmVars, loggerVars, ioVars
<1>9. QED
  BY <1>1, <1>2, <1>3, <1>4, <1>5, <1>6, <1>7, <1>8
     DEF Next, RtStep, RtNext, NodeStep, UserStep, vars

\* The invariant holds in every reachable state.
LEMMA RunnerInvariance == Spec => [](MachineFacts /\ RunnerInv)
<1>1. MachineFacts /\ RunnerInv /\ [Next]_vars => RunnerInv'
  BY RunnerNext
<1>2. QED
  BY <1>1, RunnerInit, MachineInvariance, Machine, PTL DEF Spec

\* The assertions of the logger hold in this program: it is never told to log
\* before its header is written, whatever commands arrive.
THEOREM NoAssertion == Spec => []NoAssertionFails
<1>1. RunnerInv => NoAssertionFails
  BY DEF RunnerInv, LoggerInv
<1>2. QED
  BY <1>1, RunnerInvariance, PTL

\* Where the robot rests before INITIALISE and after STOP, nothing is logged.
THEOREM LoggingStops == Spec => []RestingIsNotLogged
<1>1. RunnerInv => RestingIsNotLogged
  BY DEF RunnerInv, LoggerInv
<1>2. QED
  BY <1>1, RunnerInvariance, PTL

\* No command meets a state in which the machine would drop it as premature.
THEOREM StableStates == Spec => []CommandsMeetStableStates
<1>1. RunnerInv => CommandsMeetStableStates
  BY DEF RunnerInv, StableInv, CommandsMeetStableStates
<1>2. QED
  BY <1>1, RunnerInvariance, PTL

\* In RUN the encoder values sent to ROS are those of the cycle before.
THEOREM FreshData == Spec => []RunningDataIsFresh
<1>1. RunnerInv => RunningDataIsFresh
  BY DEF RunnerInv, MotorInv, RunningDataIsFresh
<1>2. QED
  BY <1>1, RunnerInvariance, PTL

\* The motors move only in the state function, after the command of the cycle was
\* dispatched, and to the newest setpoint: what the frame at the start of a cycle
\* carries is what they stand at already, in every state and after every command
\* (update_io, CommandBridge::update, run).
THEOREM CommandFirst == Spec => CommandsComeFirst
<1>1. ASSUME MachineFacts, RunnerInv, [Next]_vars
      PROVE  [fpga' # fpga => pc = "monitor" /\ fpga' = ros_msg]_vars
  <2> USE DEF RunnerInv, MotorInv, At
  <2>1. CASE UpdateIo
    BY <1>1, <2>1 DEF UpdateIo
  <2>2. CASE Monitor
    BY <1>1, <2>2, Functions DEF Monitor, Rests, Prepares, Runs, Stops, Pauses, ioVars
  <2>3. CASE DataRead \/ DataWrite \/ CommandRead \/ CommandWrite \/ Logging
    BY <2>3 DEF DataRead, DataWrite, CommandRead, CommandWrite, Logging, ioVars
  <2>4. CASE UNCHANGED rtVars
    BY <2>4 DEF rtVars, ioVars
  <2>5. QED
    BY <1>1, <2>1, <2>2, <2>3, <2>4 DEF Next, RtStep, RtNext, NodeStep, UserStep, vars
<1>2. QED
  BY <1>1, RunnerInvariance, PTL DEF Spec, CommandsComeFirst

\* Only RUN moves the motors, although every cycle sends a frame and setpoints
\* are read in every state.
THEOREM OnlyRunMoves == Spec => MotorsOnlyChangeInRun
<1>1. ASSUME MachineFacts, RunnerInv, [Next]_vars
      PROVE  [fpga' \in {0, fpga} \/ current_state = FSM!RUN_STATE]_vars
  <2> USE DEF RunnerInv, MotorInv
  <2>1. CASE UpdateIo
    BY <1>1, <2>1 DEF UpdateIo
  <2>2. CASE Monitor
    BY <1>1, <2>2, Functions DEF Monitor, Rests, Prepares, Runs, Stops, Pauses, ioVars
  <2>3. CASE DataRead \/ DataWrite \/ CommandRead \/ CommandWrite \/ Logging
    BY <2>3 DEF DataRead, DataWrite, CommandRead, CommandWrite, Logging, ioVars
  <2>4. CASE UNCHANGED rtVars
    BY <2>4 DEF rtVars, ioVars
  <2>5. QED
    BY <1>1, <2>1, <2>2, <2>3, <2>4 DEF Next, RtStep, RtNext, NodeStep, UserStep, vars
<1>2. QED
  BY <1>1, RunnerInvariance, PTL DEF Spec, MotorsOnlyChangeInRun
=============================================================================
