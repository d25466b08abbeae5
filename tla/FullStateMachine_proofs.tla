---------------------- MODULE FullStateMachine_proofs ----------------------
(***************************************************************************)
(* Proofs about the state machine, for every set of return values.         *)
(***************************************************************************)
EXTENDS FullStateMachine, TLAPS

\* The ten states are the ten numbers of the enumeration.
LEMMA StateFacts ==
  /\ IDLE_STATE = 1 /\ INITIALISING_STATE = 2 /\ INITIALISED_STATE = 3
  /\ RUN_STATE = 4 /\ STOPPING_STATE = 5 /\ STOPPED_STATE = 6
  /\ PAUSING_STATE = 7 /\ PAUSED_STATE = 8 /\ ERROR_STATE = 9
  /\ QUIT_STATE = 10 /\ States = 1 .. 10
BY DEF States, IDLE_STATE, INITIALISING_STATE, INITIALISED_STATE, RUN_STATE,
       STOPPING_STATE, STOPPED_STATE, PAUSING_STATE, PAUSED_STATE, ERROR_STATE, QUIT_STATE

\* A transition that enters a state together with the function of that state.
Entered(s, f) == <<s, f>> \in StateFunctions /\ Enter(s, f)

\* A transition in which no state function failed.
Moves == \E s \in States \ {ERROR_STATE}, f \in Functions \union {"null"} :
           Entered(s, f) /\ UNCHANGED <<last_error, failure>>

\* The transition of a failure.
Fails ==
  /\ Entered(ERROR_STATE, "error")
  /\ last_error' = failure' /\ failure' \in Int /\ failure' < 0

\* What every step has in common: state and function are set together, and only a
\* failure sets the error code, to the negative value that was returned.
LEMMA StepShape ==
  ASSUME ReturnsAssumption, Next
  PROVE  Moves \/ Fails \/ UNCHANGED fsmVars
<1> USE StateFacts DEF Moves, Entered, Functions, StateFunctions, Request
<1>1. CASE initialise
  BY <1>1 DEF initialise
<1>2. CASE start
  BY <1>2 DEF start
<1>3. CASE stop
  BY <1>3 DEF stop
<1>4. CASE reset
  BY <1>4 DEF reset
<1>5. CASE pause
  BY <1>5 DEF pause
<1>6. CASE quit
  BY <1>6 DEF quit
<1>7. ASSUME NEW r \in Returns, step(r)
      PROVE  Moves \/ Fails \/ UNCHANGED fsmVars
  <2>1. r \in Int
    BY ReturnsAssumption DEF ReturnsAssumption
  <2>2. CASE Advance /\ UNCHANGED failure
    BY <2>2 DEF Advance, Successors, fsmVars
  <2>3. CASE r < 0 /\ Fail(r) /\ failure' = r
    BY <2>1, <2>3 DEF Fail, Fails
  <2>4. QED
    BY <1>7, <2>2, <2>3 DEF step
<1>8. QED
  BY <1>1, <1>2, <1>3, <1>4, <1>5, <1>6, <1>7 DEF Next
-----------------------------------------------------------------------------
\* The inductive invariant: the three checked invariants together.
IInv == TypeOK /\ FcnMatchesState /\ ErrorHasCode

\* The invariant holds in the initial state.
LEMMA InitIInv == Init => IInv
BY StateFacts DEF Init, IInv, TypeOK, FcnMatchesState, ErrorHasCode, StateFunctions

\* Every step keeps it: a move enters the pair of a state and its function and
\* never enters ERROR, a failure stores the code it was given.
LEMMA NextIInv ==
  ASSUME ReturnsAssumption, IInv, [Next]_fsmVars
  PROVE  IInv'
<1> USE StateFacts DEF IInv, TypeOK, FcnMatchesState, ErrorHasCode
<1>1. CASE Moves
  BY <1>1 DEF Moves, Entered, Enter
<1>2. CASE Fails
  BY <1>2 DEF Fails, Entered, Enter, Functions
<1>3. CASE UNCHANGED fsmVars
  BY <1>3 DEF fsmVars
<1>4. QED
  BY <1>1, <1>2, <1>3, StepShape

\* The inductive invariant holds in every reachable state.
THEOREM Invariance == Spec => []IInv
<1>1. Init => IInv
  BY InitIInv
<1>2. IInv /\ [Next]_fsmVars => IInv'
  BY NextIInv, ReturnsAssumption
<1>3. QED
  BY <1>1, <1>2, PTL DEF Spec

\* Types: in particular no non-negative code is ever stored as an error.
THEOREM TypeCorrect == Spec => []TypeOK
<1>1. IInv => TypeOK
  BY DEF IInv
<1>2. QED
  BY <1>1, Invariance, PTL

\* For every sequence of requests and results, also with return values the
\* framework does not document, step calls the function of the state that is
\* reported to ROS.
THEOREM FunctionCorrect == Spec => []FcnMatchesState
<1>1. IInv => FcnMatchesState
  BY DEF IInv
<1>2. QED
  BY <1>1, Invariance, PTL

\* In ERROR getError() returns the code of the failure that led there, also after
\* resets and earlier failures with other codes (step, reset, getError).
THEOREM ErrorCorrect == Spec => []ErrorHasCode
<1>1. IInv => ErrorHasCode
  BY DEF IInv
<1>2. QED
  BY <1>1, Invariance, PTL
-----------------------------------------------------------------------------
(***************************************************************************)
(* The machine implements the lifecycle.                                   *)
(***************************************************************************)

\* The phases, state by state.
LEMMA Phases ==
  /\ PhaseOf(IDLE_STATE) = "down" /\ PhaseOf(INITIALISING_STATE) = "down"
  /\ PhaseOf(INITIALISED_STATE) = "ready"
  /\ PhaseOf(RUN_STATE) = "active" /\ PhaseOf(PAUSING_STATE) = "active"
  /\ PhaseOf(PAUSED_STATE) = "active" /\ PhaseOf(STOPPING_STATE) = "active"
  /\ PhaseOf(STOPPED_STATE) = "halted"
  /\ PhaseOf(ERROR_STATE) = "failed" /\ PhaseOf(QUIT_STATE) = "over"
BY StateFacts DEF PhaseOf

\* A move of the lifecycle, or none, for each step.
LEMMA StepRefines ==
  ASSUME ReturnsAssumption, IInv, [Next]_fsmVars
  PROVE  [Promise!Next]_(PhaseOf(current_state))
<1> USE StateFacts, Phases DEF Request, Enter, Promise!Next, Promise!Move
<1>1. CASE initialise
  BY <1>1 DEF initialise, fsmVars
<1>2. CASE start
  BY <1>2 DEF start, fsmVars, Promise!Activate
<1>3. CASE stop
  BY <1>3 DEF stop, fsmVars
<1>4. CASE reset
  BY <1>4 DEF reset, fsmVars, Promise!StartOver
<1>5. CASE pause
  BY <1>5 DEF pause, fsmVars
<1>6. CASE quit
  BY <1>6 DEF quit, fsmVars, Promise!Finish
<1>7. ASSUME NEW r \in Returns, step(r)
      PROVE  [Promise!Next]_(PhaseOf(current_state))
  <2>1. CASE CallsFunction /\ Advance
    BY <2>1 DEF Advance, Successors, fsmVars, Promise!Prepare, Promise!Activate,
                Promise!Halt
  <2>2. CASE CallsFunction /\ Fail(r)
    <3>1. PhaseOf(current_state) \in {"down", "ready", "active", "halted", "failed"}
      BY <2>2 DEF CallsFunction, IInv, TypeOK
    <3>2. PhaseOf(current_state)' = "failed"
      BY <2>2 DEF Fail
    <3>3. QED
      BY <3>1, <3>2 DEF Promise!Fail
  <2>3. CASE UNCHANGED fsmVars
    BY <2>3 DEF fsmVars
  <2>4. QED
    BY <1>7, <2>1, <2>2, <2>3 DEF step
<1>8. CASE UNCHANGED fsmVars
  BY <1>8 DEF fsmVars
<1>9. QED
  BY <1>1, <1>2, <1>3, <1>4, <1>5, <1>6, <1>7, <1>8 DEF Next

\* Whatever the state functions return and whichever requests arrive, the robot
\* becomes active only after the initialising function completed since the last
\* reset, and the loop ends only after the stopping function or an error.
THEOREM Refinement == Spec => FollowsLifecycle
<1>1. Init => Promise!Init
  BY Phases DEF Init, Promise!Init
<1>2. IInv /\ [Next]_fsmVars => [Promise!Next]_(PhaseOf(current_state))
  BY StepRefines, ReturnsAssumption
<1>3. QED
  BY <1>1, <1>2, Invariance, PTL DEF Spec, FollowsLifecycle, Promise!Spec
=============================================================================
