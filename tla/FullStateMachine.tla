-------------------------- MODULE FullStateMachine --------------------------
(***************************************************************************)
(* class FullStateMachine of the XRF2 framework.  The loop calls step      *)
(* once per cycle; the command bridge calls initialise ... quit between    *)
(* two steps.  All calls come from the real-time thread, so each method    *)
(* is one atomic action.  A state function is an argument of the           *)
(* constructor: what it returns is the nondeterminism of step.             *)
(***************************************************************************)
EXTENDS Integers

CONSTANT Returns     \* values a state function may return

VARIABLES
  current_state,
  previous_state,    \* not initialised by the constructor
  current_state_fcn, \* the state function that the next step calls, "null" if none
  last_error,
  failure            \* ghost: what the last state function that failed returned

fsmVars == <<current_state, previous_state, current_state_fcn, last_error, failure>>

ASSUME ReturnsAssumption == Returns \subseteq Int
-----------------------------------------------------------------------------
\* enum STATE: the numbers are what the robot reports to ROS.
IDLE_STATE         == 1
INITIALISING_STATE == 2
INITIALISED_STATE  == 3
RUN_STATE          == 4
STOPPING_STATE     == 5
STOPPED_STATE      == 6
PAUSING_STATE      == 7
PAUSED_STATE       == 8
ERROR_STATE        == 9
QUIT_STATE         == 10

States == IDLE_STATE .. QUIT_STATE

Functions == {"initialising", "initialised", "run", "stopping", "stopped",
              "pausing", "paused", "error"}

\* The constructor.  previous_state is read nowhere, so one arbitrary
\* value stands for the uninitialised memory.
Init ==
  /\ current_state = IDLE_STATE
  /\ previous_state = IDLE_STATE
  /\ current_state_fcn = "null"
  /\ last_error = 0
  /\ failure = 0

-----------------------------------------------------------------------------
\* The three assignments every transition consists of.
Enter(state, fcn) ==
  /\ previous_state' = current_state
  /\ current_state' = state
  /\ current_state_fcn' = fcn

\* A request is ignored outside the states in from.
Request(from, state, fcn) ==
  \/ current_state \in from /\ Enter(state, fcn) /\ UNCHANGED <<last_error, failure>>
  \/ current_state \notin from /\ UNCHANGED fsmVars

initialise == Request({IDLE_STATE}, INITIALISING_STATE, "initialising")
start == Request({INITIALISED_STATE, PAUSED_STATE}, RUN_STATE, "run")
stop == Request({RUN_STATE, PAUSED_STATE}, STOPPING_STATE, "stopping")
reset == Request({STOPPED_STATE, ERROR_STATE, RUN_STATE},
                 INITIALISING_STATE, "initialising")
pause == Request({RUN_STATE}, PAUSING_STATE, "pausing")
\* A quit that forgets to ask for STOPPED or ERROR first.
QuitFromRun == Request({STOPPED_STATE, ERROR_STATE, RUN_STATE}, QUIT_STATE, "null")
quit == Request({STOPPED_STATE, ERROR_STATE}, QUIT_STATE, "null")
-----------------------------------------------------------------------------
\* The state machine calls current_state_fcn in this step.
CallsFunction == current_state \notin {IDLE_STATE, QUIT_STATE} /\ current_state_fcn # "null"

\* What step returns to the loop: 1 ends it.
StepReturns == IF current_state = QUIT_STATE THEN 1 ELSE 0

\* The successors of the states whose function can complete.
Successors == {<<INITIALISING_STATE, INITIALISED_STATE, "initialised">>,
               <<INITIALISED_STATE, RUN_STATE, "run">>,
               <<RUN_STATE, STOPPING_STATE, "stopping">>,
               <<STOPPING_STATE, STOPPED_STATE, "stopped">>,
               <<PAUSING_STATE, PAUSED_STATE, "paused">>}

\* An advance that leaves the function of the state it came from in place.
AdvanceKeepsFunction ==
  \/ \E s \in Successors : /\ s[1] = current_state
                           /\ Enter(s[2], current_state_fcn)
                           /\ UNCHANGED last_error
  \/ /\ \A s \in Successors : s[1] # current_state
     /\ UNCHANGED <<current_state, previous_state, current_state_fcn, last_error>>

\* The state function returned 1.
Advance ==
  \/ \E s \in Successors : /\ s[1] = current_state
                           /\ Enter(s[2], s[3])
                           /\ UNCHANGED last_error
  \/ /\ \A s \in Successors : s[1] # current_state
     /\ UNCHANGED <<current_state, previous_state, current_state_fcn, last_error>>

\* A failure that keeps the code of the first one.
FailKeepsFirstCode(ret) ==
  /\ Enter(ERROR_STATE, "error")
  /\ last_error' = IF last_error < 0 THEN last_error ELSE ret

\* The state function returned a negative value.
Fail(ret) == Enter(ERROR_STATE, "error") /\ last_error' = ret

\* step with a state function that returns ret.
step(ret) ==
  IF ~CallsFunction THEN UNCHANGED fsmVars
  ELSE \/ ret = 1 /\ Advance /\ UNCHANGED failure
       \/ ret < 0 /\ Fail(ret) /\ failure' = ret
       \/ ret >= 0 /\ ret # 1 /\ UNCHANGED fsmVars

Next ==
  \/ initialise
  \/ start
  \/ stop
  \/ reset
  \/ pause
  \/ quit
  \/ \E ret \in Returns : step(ret)

Spec == Init /\ [][Next]_fsmVars
-----------------------------------------------------------------------------
\* The variables have their types; only negative values are stored as errors.
TypeOK ==
  /\ current_state \in States
  /\ previous_state \in States
  /\ current_state_fcn \in Functions \union {"null"}
  /\ last_error \in Int
  /\ last_error <= 0
  /\ failure \in Int

\* The function that each state is to execute.
StateFunctions ==
  {<<IDLE_STATE, "null">>, <<INITIALISING_STATE, "initialising">>,
   <<INITIALISED_STATE, "initialised">>, <<RUN_STATE, "run">>,
   <<STOPPING_STATE, "stopping">>, <<STOPPED_STATE, "stopped">>,
   <<PAUSING_STATE, "pausing">>, <<PAUSED_STATE, "paused">>,
   <<ERROR_STATE, "error">>, <<QUIT_STATE, "null">>}

\* The state and the function pointer are assigned separately in eleven
\* places (step and the six requests); whatever sequence of requests and
\* results occurs, step calls the function of the state it reports to ROS.
FcnMatchesState == <<current_state, current_state_fcn>> \in StateFunctions

\* While the machine stands in ERROR, getError() returns the negative code of
\* the failure that led there, also when it is not the first one: a reset leaves
\* the old code in last_error, and the next failure replaces it.
ErrorHasCode == current_state = ERROR_STATE => last_error = failure /\ failure < 0

\* The phase of the abstract lifecycle each state belongs to, in the order of
\* their numbers.
PhaseOf(state) ==
  <<"down", "down", "ready", "active", "active", "halted", "active", "active",
    "failed", "over">>[state]

Promise == INSTANCE Lifecycle WITH phase <- PhaseOf(current_state)

\* Every sequence of requests and results follows the lifecycle: the robot
\* becomes active only after the initialising function completed since the
\* last reset, and the loop is told to end only after the stopping function
\* completed or after an error.
FollowsLifecycle == Promise!Spec
=============================================================================
