# Verification of the XRF2 robot software

TLA+ models of the real-time framework in `src/src/XRF2`, of the program
`src/src/xeno_loop` that runs on the robot with it, of the ROS nodes that see,
steer and report, and of the simulator with its numeric library; TLC runs that
check them on small instances; proofs that the TLA+ proof system checks for
every instance.

## 1. Inventory

The robot is driven by one real-time thread on a Xenomai (EVL) core. Linux runs
ROS nodes. The two sides share nothing but two *cross-buffers*.

    webcam ── UDP ──> cam2image ── /image ──> object_center ── light_position ──> sequence_controller
                         setpoints to ros_xeno_bridge on the robot, or to relbot_simulator in its place

    operator, setpoints ── topics ──> ros_xeno_bridge ── cross-buffers ──> XenoFrtLoop::loop()
                       <── topics ──                 <── cross-buffers ──    └ XenoFrtRosIco::step()
                                                                               ├ IcoIo ── SPI ── FPGA
                                                                               ├ data and command bridge
                                                                               ├ FullStateMachine ── XenoLoopRunner
                                                                               └ XenoFrtLogger ── file ── decoder

| component | state | operations | what makes it correct |
|---|---|---|---|
| `FullStateMachine` | state, function pointer, error code | `step`, six requests | state and function agree; the lifecycle is respected |
| `XenoFrtLoop` | wake-up time, counters | `loop` | no drift, no early cycle, missed cycles counted exactly, the loop ends |
| `XenoFrtLogger`, `XenoFileHandler` | two flags, declared variables, the file | `addVariable`, `initialise`, `start`, `stop`, `log` | rows and header have one size; what a short write damages is known |
| `XenoRosCommandBridge`, `XenoRosDataBridge` | write flag, decimation counter | `update` | commands in order and once, states reported, nothing sent too early |
| `XenoRosCommunication` | two bounded FIFOs each | `read`, `write` | a full buffer loses the newest message only |
| `XenoFrtRosIco` | the objects above, setpoint, PWM values, encoder values | `step` | the order of the calls in a cycle |
| `XenoLoopRunner` | the logged structure | eight state functions | motors, logger and state go together |
| `ros_xeno_bridge` | two descriptors, two subscriptions | two callbacks, a timer, start | nothing stale after a restart, the newest state wins |
| `IcoIo`, `XenoSpiControllerHandler` | frame buffers, samples | `init`, `test`, `setOutput`, `getInput`, `update_io`; `write`, `transfer` | every channel gets and gives its own value, clipped, whatever the order of the calls |
| `XenoFrtMonitor` | a counter | `update`, `printf` | decimated text |
| `cam2image_vm2ros` | receive buffer, text of a frame, decoded frame, pending receives, two flags | timer, receive handler, time-out, `flip_image` | whole frames, each once, the right way round; the node ends with the stream |
| `object_center` | none | one callback | one position per image |
| `brightness` | none | one callback | a threshold |
| `sequence_controller` | last position, encoder values | timer, two callbacks | steers by where the object was seen last |
| `relbot_simulator` | duty cycles, the plant, last pose and picture | three callbacks, two timers | one step per tick up to the finish time; the crop stays in the picture |
| `Plant`, `LoopController` | 20-sim states, rates, time | `Calculate` | the equations conserve power; the controller's law |
| 20-sim library | none | matrices, inverse, bits and numbers, integration | linear algebra and the order of the methods |

What is hard here: two processes that interleave at every read and write of the
buffers, buffers of one message, writes whose result nobody looks at, a node
that may be restarted while the robot runs, reports that are decimated, a loop
whose steps may overrun, carries in seconds and nanoseconds, a log file that
is only readable if calls came in the right order, a stream of datagrams that
may be lost while several receives share one buffer, a matrix that is turned in
place and kept, and numeric code whose errors only show as a robot that drives
somewhat differently. `PROJECT.json` lists these
hazards at their lines with the properties that cover them.

## 2. Modules

| module | models | how state and actions correspond |
|---|---|---|
| `Lifecycle` | what the state machine promises | six phases, one action per move |
| `FullStateMachine` | the class of that name | the four members that change, and as a ghost what the last failing state function returned; one action per method. `Returns` is what a state function may return |
| `XenoFrtLoop` | `loop()` | one action per clock reading or sleep; time is an integer, `wakeup_time` a pair of seconds and nanoseconds with the carry of the code |
| `XenoFrtLogger` | the class, and the decoder's idea of a row | one action per method; the file is a sequence of headers, torn headers and runs of rows or of parts of rows. `ShortWrites` says whether a write may take a part |
| `FrameworkObjects` | state machine and logger, each under every order of calls | `subject` says which one a behaviour is about; they share no state |
| `XrfBuffers` | the cross-buffers | one sequence per direction; `Written` is `write` |
| `XenoFrtRosIco` | `step()` with both bridges and the state functions of `XenoLoopRunner` | `pc` names the next statement of the cycle; `FullStateMachine` and `XenoFrtLogger` are instances on the same variables |
| `RosXenoBridge` | the ROS node and its users | one action per callback, the two halves of the timer apart; `Launch` and `Crash` are the process |
| `XrfSystem` | the composition | interleaving of thread, node and users; all properties of the whole |
| `RemoteCapture` | the receiver of the stream | one action per receive, handler, end of `run_for`; a datagram is its number in the stream, `Scrap` is text that is none |
| `Cam2Image` | the camera node | the timer callback in two halves around `get_frame`, with the local camera in one; `FlipImage` |
| `SequenceController` | the controller node | its timer and `update_light_pos` |
| `VisionSystem` | the composition with `object_center` (`ImageCallback`) | interleaving of host, three nodes and users; losses. `scene` is what the webcam sees, `found` (history) where the object is in the last picture of it that reached the controller |
| `Rational`, `XXMatrix`, `XXFuncs`, `XXInteg` | the 20-sim library, over exact numbers | one operator per function; a matrix is the flat array of the code; `XXInteg` takes the submodel's `CalculateDynamic` as a constant operator |
| `Plant`, `LoopController` | `CalculateStatic`, `CalculateDynamic`, `CalculateOutput`; the wheel controller | numbered parameters, states, rates and signals as in the generated code |
| `NumericLaws` | what those must satisfy | definitions of their own: permutations, unit matrices, polynomials, stored and lost power |
| `SubImage`, `RelbotSimulator` | the simulator node | one action per callback and timer; of the plant its run, with any pose after a step. `spinning` ends when a callback throws |
| `IcoIo` | the driver, with the SPI handler and an external board | one action per call; frames are bytes, reversed on the way. `Strays` is what may be read past the array of a frame |
| `Decimation` | the counters of both bridges and the monitor | one action for a cycle; unsigned numbers up to `UintMax`, `traps` for what a division by 0 does |
| `RobotModels` | the simulator, the board, the counters and the laws side by side | `subject` says which one a behaviour is about; they share no state |
| `MC...` | instances | values of the constants |
| `..._proofs` | theorems | see section 5 |

Definitions whose comment describes something the code does *not* do (a buffer
without a size, a read that is made only once) are mutations: each replaces one
definition of the model to show that a property notices the difference. No
behaviour of the models uses them. Ghost variables are named as such where
they are declared; no guard reads one except for the bounds on published
messages and starts.

Abstractions. A setpoint is the number of its message, 0 the speeds of a message
never received: `run()` copies the two speeds and the models only ask *which*
message the motors follow. Encoder values are their age in cycles. A state
message carries the state and, as a ghost, the last command read before it was
written. The values of the logged structure and all text are left out.

Choices that matter for faithfulness:

- *One step per buffer access.* The node may act between any two calls of a
  cycle. Draining a buffer in the node is one step: a message that is written
  while the loop of reads runs is one that the same loop or the next callback
  finds, and of what one drain finds only the last message is used.
- *Subscriptions hold one message* (`create_subscription(..., 1, ...)`), and a
  newer message replaces the waiting one.
- *Uninitialised members.* `XenoFrtLogger` is checked and proved on its own from
  every value of its two flags, and `XenoFrtLoop` from arbitrary counters. In the composed
  system the object lives on the fresh stack of the thread that `main` creates,
  which is zeroed memory; there the flags start as FALSE and the speeds and PWM
  values as 0.
- *Short writes.* The logger tests `ret<=0` for each piece of the header and nothing
  for a row. Every piece of the header but a name is a single byte, so that a
  write that is short and not refused shortens a name and the process goes on;
  a refused one ends the process behind a torn header. `NamesWritten` says whether a
  name was cut and whether two names became the same, which the decoder refuses.
  Names are taken to be distinct and longer than a character, as those of
  `XenoLoopRunner` are. A part of a row stays in the file (`PartOfRow`). In the composed
  system a write takes all or nothing: its properties are about calls, not about bytes.
- *Undefined reads.* `create_all_msg` takes eight bytes from a union member of six
  (`IcoIo.hpp:172`). What it reads for channel 4 is its own bytes, where the compiler
  reads the union as it lies in memory, or any pair of `Strays`.
- *A window without pixels.* Half of a height of 1 is 0: `cv::resize` throws, nothing
  catches it, and the node ends.
- *External effects.* The FPGA's outputs stand at the setpoint of the last frame
  that carried PWM values. What the INIT frame does to them is not in the
  repository; in the models it changes nothing.
- *The node starts after the buffers exist*: `open` fails before, and the process
  ends.
- *The vision chain.* A frame is its number and how it is turned; what decoding
  may give is `ImDecode`: the frame if the text starts with all of its datagrams,
  otherwise nothing or a damaged picture. A receive handler knows the length of
  its own datagram but reads the shared buffer (`ReceivedStr`). A receive that is
  still registered when `run_for` gives up stays, and the next call adds one.
  Datagrams are lost, not reordered: host and node are one hop apart.
- *Exact numbers.* The numeric code computes with doubles; the models with
  fractions, so that a law is an equation and not a tolerance. Rounding is not
  modelled. Angles are given by a sine and a cosine.
- *The board* answers every frame, and what it takes and gives is modelled from
  the layout that the driver's structures give the frames.
- `monitor.update()` changes nothing that another part reads and is part of the
  action `Monitor` without a variable of its own; its counter is in `Decimation`.

## 3. Runs

| run | shows | bounds |
|---|---|---|
| `objects` | state machine: any sequence of requests and results keeps state and function together, stores the code of the last failure and implements `Lifecycle`. Logger: for every order of calls, contents of the flags and outcome of each write, a row is read unless a short write or a second header before it damaged the file, and nothing follows a torn header | results -6..2: all signs, several error codes, 0, 1 and an undocumented positive one; finite without a bound on the steps. Two variables of any two types (the limit is hit by the third), files of four entries |
| `loop` | the properties of the loop with steps shorter and longer than a cycle, up to several cycles | a second of a few nanoseconds, so that carries and borrows happen in every position; `MaxDelay`, `MaxClock` |
| `xrf_command` | order, at most once, reports, logger, for four commands of any kind | one restart; two states fit in the buffer, so it is full, holds several and is drained; decimation 2 |
| `xrf_data` | setpoints and encoder values, and that no setpoint moves the motors before the command of its cycle is dispatched; three commands, two setpoints, one restart | decimation 2, two encoder messages fit |
| `xrf_live` | what must happen eventually | three commands, one of them unknown to the machine, one setpoint, the node may die |
| `vision` | frames whole, once and the right way round, steering by the object, and what happens at the end of the stream | two frames of two datagrams, so that text of one frame can meet text of the other; a socket that holds two; topics of one message; the object right of the middle in the first frame, and in the second left of it or gone; one flip |
| `robot` | the laws of the numeric code, the power balance of the plant, the board's frames, the simulator's crop and finish time, the rate of decimated outputs | samples in `MCRobotModels`; finish time of two steps; every pair of frequencies of three bits, so that they divide or not, are 0 or above the cycle frequency, and the counter wraps |
| `xrf_stopped`, `xrf_header`, `output_limit`, `xrf_old_state`, `monitor_off` | five comments that the code does not keep (section 4) | the smallest that show it |

Why these are enough: commands interact only through the ten states, which four
commands can reach in every order that the machine accepts (IDLE to QUIT takes
INITIALISE, START, STOP, QUIT); a buffer towards the robot holds one message, so
two messages show every conflict; two starts of the node show everything a
restart can find. Real sizes are 10 states and 1000 encoder messages, and real
decimation is the cycle frequency divided by 1 Hz: larger values only add longer
waits in front of the same events.

The numeric samples are chosen for what the code distinguishes. Matrices of two
rows take all entries -2..2 and those of three rows all patterns of two values,
so that singular matrices, zero pivots and every order of the pivots occur. A
product is bilinear: unit matrices decide it. The power of the plant is a
quadratic form in the states on each side of a dead zone, so that states with
one or two entries other than zero decide it; signals are taken beyond the dead
zone on either side and inside, headings along, across and between the axes.
Numbers are halves on both sides of zero and two thirds, integers of 32 bits have
patterns in every byte. The pictures are wider than high, square and one pixel high;
the robot stands in front of, behind and beside every border. The 550 s to the
finish time are two steps: only the last one is different.

Deadlock is not checked where the system really stops: after the loop has ended,
or when the bounds on time or messages are used up.

Fairness. `XenoFrtLoop`: weak fairness of the loop as a whole, because the thread
runs under SCHED_FIFO and waits nowhere but in the sleep. `XrfSystem`: the same for
the cycle, and weak fairness of each callback of the node, because a
single-threaded executor serves every ready callback as long as the process
lives. Nothing is assumed of users, of `Launch` or of `Crash`; the liveness
properties say what happens *unless* the node stays down or the loop ends.
`VisionSystem`: weak fairness of the camera node as a whole, because its timer, the
time-out of `run_for` and the `io_service` come due by themselves, and of every
callback of the other two nodes, each of which has an executor of its own.
Nothing is assumed of the host: `NodeEnds` also holds when it falls silent.

Observations that no comment contradicts, and that the models have as what the
code does. A command that arrives while the one before is still in the buffer is
dropped, since nobody looks at the result of `write` (`CommandsInOrder` allows
losses). A bridge that is asked to write more often than there are cycles writes
once in 2^32 cycles (`RatesAsAsked`). The logger is turned off by `stopping()` only:
it keeps logging in PAUSED, and in INITIALISED after a RESET from RUN
(`RestingIsNotLogged` speaks of the other states). A second `initialise()` or a
short write of a row makes the rest of the log unreadable (`RowsMatchHeader` says
that nothing else does). `XXSwapBytes` reverses the bytes only if char is unsigned
or no byte but the lowest has its high bit on (`BitsLaw`). An image that is
published again, because `get_frame` returned without a new one, is turned once
more and may be the wrong way round (`OnlyRepeatsAreWrong` says that only those
are). When the camera has gone the velocities stay at the last steering
(`DrivesOn`), and after the plant's finish time the simulator goes on publishing
one pose (`PoseOfTheTime`).

A consequence that is by design and no property forbids: QUIT ends the loop in
the cycle that reads it, so that the state 10 is reported only if the decimation
counter happens to be 0 in that cycle.

## 4. Where comments and code differ

1. `XenoLoopRunner::stopping` is to bring the physical system to a stop; it stops
   the logger, and the PWM values of the last RUN cycle keep being sent.
2. The logger is to be initialised only once; `reset()` runs `initialising()` again
   and a second header lands behind the rows.
3. `configuration.h` enables a limit of the PWM output to a share of 0.2, but the
   driver does not include that header: in `IcoIo.cpp` the macro is undefined, so that
   `IcoIo.hpp` takes the whole range and 2047 reaches the board where 409 is meant.
4. `initialize` is to clear stale data in the buffers; it drains one of the two, and
   a restarted node publishes a state from before its start.
5. `XenoFrtMonitor.cpp` says that the frequency 0 disables the monitor. It is a
   divisor in the constructor: either the process ends there or, where the
   quotient is 0, the delay is set to 1, `update` never counts and every `printf`
   writes (run `monitor_off`).

## 5. Proofs

`FullStateMachine_proofs` (for every set of integers that state functions may
return): `StepShape` reduces every action to one of three forms, namely a move that
enters a state together with its function, a failure that stores its negative
code, or no change. The inductive invariant is the conjunction of types and the two
checked invariants: `ErrorHasCode`, that the code in ERROR is that of the failure
that led there, needs that only a failure enters ERROR and that nothing but a
failure changes the code; the others need the pairs. From it follow `TypeCorrect`,
`FunctionCorrect`, `ErrorCorrect`.
`Refinement` shows `Spec => FollowsLifecycle`: each step is a move of `Lifecycle` or
leaves the phase alone.

`XenoFrtLoop_proofs` (for every length of a second and every cycle time up to a
second, every start time, every duration of a step and every content of the
uninitialised counters): facts about the arithmetic of timespecs first (a carry
per cycle suffices, the comparison of fields is the comparison of instants, the
borrow is exact), then the inductive invariant. `NoEarlyStep` is not inductive: it
needs `NoDrift`, and `RunTimeExact` needs that the clock has reached the deadline
also after the last sleep, which is `Reached`.

`XrfRunner_proofs` (state machine, logger and motors in the composed system) takes
`FullStateMachine_proofs` as an instance: every step of the system is a step of the
machine or none (`MachineSteps`), so its invariant carries over
(`MachineInvariance`). The ghost of failures is 0 there: the state functions of this
program return 0 or 1. On top of them stands `RunnerInv`.
None of the checked properties is inductive alone: `NoAssertionFails` needs that
every state but IDLE and INITIALISING has a header behind it, which needs that a
state and its function match; `RestingIsNotLogged` needs that ERROR is never
entered, because QUIT could be reached from there with the logger on;
`MotorsOnlyChangeInRun` needs that the PWM values kept by the thread are those
the motors stand at, and so does `CommandsComeFirst` (theorem `CommandFirst`), for
the frame at the start of a cycle; `RunningDataIsFresh` needs the age at every statement of the
cycle. `Requests` and `Functions` say once what a command and what a call of
`step` can do.

`XrfSystem_proofs` (messages): the types of the whole system in five groups, with
lemmas for what a write, a read, a restart and a subscription do to a sequence;
then `CommandsInOrder`, which is inductive; `ReportInv` (every state on its way is at
least as new as the one shown and not newer than the last command handled), from
which `ReportsNeverGoBack` follows for buffers of every size; and `SetpointInv`, the
same chain for setpoints from the topic to the motors; and `DataInv`, that a start
of the node leaves no encoder message behind. They hold for every
number of commands, setpoints and starts of the node, all buffer sizes and all
decimations; every safety property that the runs of the composed system check
as passing is proved.

`XenoFrtLogger_proofs` (for any number of variables and headers, every order of
calls, every outcome of each write and any contents of the flags): the size of a
row is the number of its bytes, so that one more variable adds its size
(`OneMoreField`) without an induction over the list. That nothing follows a header
that was cut off is inductive with the end of the process. `RowsAreReadable` relates
the first header, the row size the logger keeps and every row up to the first
damage. It holds for every contents of the flags because a logger that takes itself
for initialised can declare no variable, so that its rows have no bytes.

`VisionSystem_proofs` (for any number of frames and datagrams, sockets and topics
of any size, every set of scenes). `TurnedWhenNew` holds whatever is lost
and needs that a new picture is upright (`NewIsUpright`). The other three are about
a stream that keeps up. Their invariant is `StreamKeepsUp`: there is a frame f and
a part k such that text, receive buffer, ready handler, socket and host are those
of `Place(f, k)`, and each action goes from a place to a place. From it follow the
one receive (`ReceivesDoNotPileUp`), the exact text of each frame and so
`FramesOnce`. `SteersRight` needs what an image on the topic may be, that a position
found in it is where the object is (`RightPoint`), and that the controller keeps the
last of those (`PositionIsRight`); then the velocities it publishes follow.

`RobotModels_proofs` (the simulator node, the board, the counters, the plant).
Board, for every 16-bit value, every reading of 14 bits and two pins, every order
of calls: bits reversed twice, fields of a word, bytes of a word, then per kind of
frame what the board takes and answers; `BoardAgrees` is the checked property with
the types of the board. Channels 1 to 3 do not depend on the bytes read past the
array; channel 4 is exempt while it got others than its own.
Pictures: `SquareInside` is the crop of every whole centre
and size in every picture at least as wide as high; `CropStaysInside` adds that
centre and size are truncations of fractions, from any pose, with the
invariant `CameraSees`, which says what the pose and the picture may be. Time:
`PoseFollowsTime`, for every finish time, from the invariant that ties the plant's
run state, its time and the ticks (`PlantRuns`). Counters: `RatesHold`, for every
pair of frequencies and unsigned numbers of every width, from
`CountersFit`: the counter of a bridge and the cycles it has waited add up to its
period (`BridgeWaits`; one that starts at 0 less 1 goes through all its values), the
monitor counts before it prints and has a form of its own (`MonitorWaits`), and
every gap seen so far is the period. A data bridge asked for nothing is never served.
`PowerIsBalanced` carries the balance below to every sample, and `LibraryHolds` the
laws of the library to every sample that is `Covered`: all kinds but motions, square
matrices of two rows, impulses of at most 19 steps, chains of at most four
integrators, powers of the time up to the third.

`Numeric_proofs` (the numeric code, for all rational numbers and not for samples).
The numbers are pairs in lowest terms, so everything rests on `Gcd`, a
recursive function. That it satisfies its equation, and that it is a divisor and
a sum of multiples of both numbers, is shown from a least counterexample
(`LeastNumber`) instead of an induction; from it follows that a fraction has
one representation (`IsOneNumber`) and that the rationals are a field. A loop of
two to six turns is unfolded from the explicit solution of its recursive
equation. A sum over a finite set (the fold of the community modules) takes its
elements in an order nobody knows: from a least counterexample again, it exists
(`SumExists`), is one only (`SumIsUnique`), may start with any element (`ElementTaken`), and
from 0 to m is what grows by its terms (`SumIsClosed`). On these stand:

- `InverseOfTwo`: XXInverse of 2 x 2 numbers, pivoting included. Whichever row the
  pivot is in, decomposition, permutation and both substitutions end in the
  adjugate over the determinant, or leave the destination alone. `InverseInverts`
  then is `InverseLaw`, the part of `SquareLaw` about the inverse: products from
  both sides, both divisions and `XXLinearSolve` are undone.
- `ErrorLags`: `LoopLaw` of the controller, for all parameters and inputs.
- `PlantBalances`: `PlantLaw` of the plant. The power of a motor is stored in its
  side, lost there, or handed to a contact (`PowerOfMotor`, `PowerOfSide`); what the
  contacts get is what the body takes up, because the force is turned by
  the transpose of the matrix that turns the velocity (`PowerOfBody`,
  `TransposedParts`), also where that matrix is singular and both are zero; and the
  sum of the three is the claim (`SumOfPlant`).
- `TimeIsIntegrated`: `QuadratureLaw` for every time and step size. A power of the time
  up to the third, which is what the run draws, is integrated without an error:
  with the times as fractions of one denominator (`TimesInHalves`) it is Simpson's
  rule, an identity of whole numbers (`SimpsonHolds`).
- `VectorsFit`: `VectorLaw` for every two vectors of three numbers. The cross product
  is the skew matrix's, turns with the order of its operands and is normal to
  the first; the largest element, the smallest and the row sum are what they
  say, and what is multiplied, divided, written or put into a column is found again.
- `RemainderHasSign`, `RoundsToNearest`, `BitsAreBits`: `RemainderLaw`, `RoundingLaw` and
  `BitsLaw` of the support functions.
- `SquaresFit`: the whole `SquareLaw` of two rows. The determinant of the code is the sum
  over the two orders of the columns (`LeibnizOfTwo`), the two halves of a matrix add
  up to it, a single vector is solved for as a row of the inverse is (`CroutSolves`),
  and the power to -2 inverts the square, whose determinant is the square of the
  determinant (`DeterminantSquared`).
- `ChainsAreExact`: `ChainLaw` for one to four integrators, any states and any step. After a
  step of any of the three methods a state is a polynomial of the step whose
  coefficients are the states behind it; with states and step as fractions of common
  denominators the weighed stages add up to the solution by an identity of whole
  numbers (`StagesInFractions`, `WeightsAddUp`). The solution is a sum over a set
  of states and powers, the powers a recursive function (`ConvolvedIs`, `DividedIs`).
- `NumbersFit`: `NumberLaw`. A ramp is the sum of as many steps as its time has
  (`StepsAddUp`), for every time; the samples of an impulse have an area of 1 to 2
  (`SampledIs`, `AreaCounts`) if it lasts at most 19 steps: the law adds up 21
  samples, two of them before the start, and would cut a longer one off.
- `UnitsFit`: `ProductLaw`, for every two unit matrices of 2 x 3 and 3 x 2. Products and
  transposes of all others are sums of these.

All rest on the named assumptions of their modules only: positive buffer sizes
and decimation, integer commands, typed frames, pictures not higher than wide
(`SimulatorAssumption`), and, for the plant, that parameters and samples are
numbers and that the parameters the equations divide by are not zero
(`PlantAssumption`). Every safety property of the passing runs is proved, one of them
up to the kinds of samples named here. Only model-checked:

- liveness (the prover has no rule for fairness here): `LoopEnds`, the properties of
  `xrf_live`, `NodeEnds`, `DrivesOn`;
- `LibraryLaws` for motions (`MotionLaw`) and for square matrices of three rows
  (`SquareLaw`). The products of 6 x 6 and the three columns with a pivot each are
  identities of a size that the provers do not find in one piece, and the plant
  computes with two rows only. The rest of it is proved for all numbers
  (`LibraryHolds`).

## 6. Not modelled

- `brightness`: a threshold; nothing reads what it publishes. The text that
  `XenoFrtMonitor` prints.
- Separators and layout of the logger's header: it is its list of types and what
  became of the names. Names of one character or two equal ones.
- `IcoIo::reset()`, which nothing calls.
- Square roots, sines, logarithms, powers of elements and random numbers of the
  20-sim library; rounding and
  overflow of doubles. The parameters' values in `Plant` and `LoopController`.
- Reordered or duplicated datagrams, receives that complete with an error, and the
  numbers that `publish_number_` prints.
- Pictures that are higher than wide: `std::clamp` is called with its bounds
  exchanged, which the standard leaves undefined. The camera's pictures are wider
  than high.
- Copies: `src/install`, `src/build` and `xeno_loop/controller/common` hold the
  library of `relbot_simulator/common` again, with other headings only, and the
  support code the message generator wrote. `map` names one copy. A large part of
  the lines of the repository are these copies.

## 7. Plan

Done: the real-time side with its proofs, the vision chain, the motor board's
frames, the simulator and its numeric library, the decimation counters, and
the proofs of the plant, the controller, the integration methods, vectors of three,
matrices of two rows and the support functions.
Left, in this order:

1. Reordered datagrams in `RemoteCapture`.
2. Motions: products by blocks of 3 x 3.
3. The decomposition with pivoting of three rows.
