---------------------------- MODULE XenoFrtLoop ----------------------------
(***************************************************************************)
(* XenoFrtLoop::loop(): run step(), compute the next wake-up time, count a *)
(* missed cycle if that time has passed, sleep until it.  Time is an       *)
(* integer number of nanoseconds; wakeup_time is kept the way the code     *)
(* keeps it, as seconds and nanoseconds with a carry.  step() may take any *)
(* time, also longer than one cycle or several.                            *)
(***************************************************************************)
EXTENDS Integers

CONSTANTS
  SEC,           \* nanoseconds in a second
  cycle_time,    \* SEC / cycle_time_freq
  StartTimes,    \* clock values at which the loop may start
  GarbageCounts, \* what the uninitialised counters may hold
  MaxDelay,      \* bound: the clock advances by at most this per action
  MaxClock       \* bound: no step() starts after this instant

ASSUME LoopAssumption ==
  /\ SEC \in Nat \ {0}
  /\ cycle_time \in 1 .. SEC
  /\ StartTimes \subseteq Nat
  /\ GarbageCounts \subseteq Int
  /\ MaxDelay \in Nat
  /\ MaxClock \in Nat

VARIABLES
  pc,             \* "step", "plan", "check", "sleep", "report", "done"
  clock,          \* EVL_CLOCK_MONOTONIC
  start_time,
  wakeup_time,    \* [tv_sec, tv_nsec]
  run_time,       \* [tv_sec, tv_nsec], the report printed at the end
  ret,            \* what the last step() returned
  cycle_count,
  missed_cycles,
  initial_count,  \* ghost: the garbage the two counters started from
  steps,          \* ghost: completed calls of step()
  late            \* ghost: cycles that ended after their own deadline

loopVars == <<pc, clock, start_time, wakeup_time, run_time, ret, cycle_count,
              missed_cycles, initial_count, steps, late>>
-----------------------------------------------------------------------------
\* struct timespec.
Timespec(t) == [tv_sec |-> t \div SEC, tv_nsec |-> t % SEC]
Nanoseconds(ts) == ts.tv_sec * SEC + ts.tv_nsec
Normalised(ts) == ts.tv_nsec \in 0 .. SEC - 1

\* Comparing the fields one by one instead of lexicographically.
LaterByEitherField(a, b) == a.tv_sec > b.tv_sec \/ a.tv_nsec > b.tv_nsec

\* The comparison the code spells out on the two fields.
Later(a, b) ==
  \/ a.tv_sec > b.tv_sec
  \/ a.tv_sec = b.tv_sec /\ a.tv_nsec > b.tv_nsec

\* Time passes before the next instruction takes effect.
ElapseFrom(t) == clock' \in t .. t + MaxDelay

Init ==
  /\ pc = "step"
  /\ clock \in StartTimes
  /\ start_time = Timespec(clock)
  /\ wakeup_time = start_time
  /\ run_time = [tv_sec |-> 0, tv_nsec |-> 0]
  /\ ret = 0
  /\ initial_count \in GarbageCounts \X GarbageCounts
  /\ cycle_count = initial_count[1]
  /\ missed_cycles = initial_count[2]
  /\ steps = 0
  /\ late = 0

\* step() runs for some time and returns 0, or not 0 to end the loop.
Step ==
  /\ pc = "step"
  /\ pc' = "plan"
  /\ clock <= MaxClock
  /\ ElapseFrom(clock)
  /\ ret' \in {0, 1}
  /\ cycle_count' = cycle_count + 1
  /\ steps' = steps + 1
  /\ UNCHANGED <<start_time, wakeup_time, run_time, missed_cycles, initial_count, late>>

\* A carry that is lost when the sum is exactly one second.
AddCycleOffByOne(ts) ==
  LET nsec == ts.tv_nsec + cycle_time
  IN  IF nsec > SEC THEN [tv_sec |-> ts.tv_sec + 1, tv_nsec |-> nsec - SEC]
      ELSE [ts EXCEPT !.tv_nsec = nsec]

\* A carry that moves the second without taking it off the nanoseconds.
AddCycleKeepsNanoseconds(ts) ==
  LET nsec == ts.tv_nsec + cycle_time
  IN  IF nsec >= SEC THEN [tv_sec |-> ts.tv_sec + 1, tv_nsec |-> nsec]
      ELSE [ts EXCEPT !.tv_nsec = nsec]

\* The next wake-up time: one addition and at most one carry.
AddCycle(ts) ==
  LET nsec == ts.tv_nsec + cycle_time
  IN  IF nsec >= SEC THEN [tv_sec |-> ts.tv_sec + 1, tv_nsec |-> nsec - SEC]
      ELSE [ts EXCEPT !.tv_nsec = nsec]

Plan ==
  /\ pc = "plan"
  /\ pc' = "check"
  /\ wakeup_time' = AddCycle(wakeup_time)
  /\ UNCHANGED <<clock, start_time, run_time, ret, cycle_count, missed_cycles,
                 initial_count, steps, late>>


\* The clock is read once; the missed cycle is counted from that reading.
CheckMissed ==
  /\ pc = "check"
  /\ pc' = "sleep"
  /\ ElapseFrom(clock)
  /\ missed_cycles' = IF Later(Timespec(clock'), wakeup_time) THEN missed_cycles + 1 ELSE missed_cycles
  /\ late' = IF clock' > Nanoseconds(start_time) + steps * cycle_time THEN late + 1 ELSE late
  /\ UNCHANGED <<start_time, wakeup_time, run_time, ret, cycle_count, initial_count, steps>>

\* Waking up as soon as the clock can be read again.
SleepNotAtAll ==
  /\ pc = "sleep"
  /\ pc' = IF ret = 0 THEN "step" ELSE "report"
  /\ ElapseFrom(clock)
  /\ UNCHANGED <<start_time, wakeup_time, run_time, ret, cycle_count, missed_cycles,
                 initial_count, steps, late>>

\* A loop that ignores what step() returned.
SleepIgnoresReturn ==
  /\ pc = "sleep"
  /\ pc' = "step"
  /\ IF Nanoseconds(wakeup_time) > clock THEN ElapseFrom(Nanoseconds(wakeup_time))
     ELSE ElapseFrom(clock)
  /\ UNCHANGED <<start_time, wakeup_time, run_time, ret, cycle_count, missed_cycles,
                 initial_count, steps, late>>

\* evl_sleep_until returns at once if the instant has passed; the loop sleeps
\* in its last cycle too.
Sleep ==
  /\ pc = "sleep"
  /\ pc' = IF ret = 0 THEN "step" ELSE "report"
  /\ IF Nanoseconds(wakeup_time) > clock THEN ElapseFrom(Nanoseconds(wakeup_time))
     ELSE ElapseFrom(clock)
  /\ UNCHANGED <<start_time, wakeup_time, run_time, ret, cycle_count, missed_cycles,
                 initial_count, steps, late>>

\* A difference that borrows a second only from the nanoseconds.
DifferenceWithoutBorrow(a, b) ==
  [tv_sec |-> a.tv_sec - b.tv_sec,
   tv_nsec |-> IF a.tv_nsec < b.tv_nsec THEN SEC + a.tv_nsec - b.tv_nsec
               ELSE a.tv_nsec - b.tv_nsec]

\* stop_time - start_time, with the borrow of the code.
Difference(a, b) ==
  IF a.tv_nsec < b.tv_nsec
  THEN [tv_sec |-> a.tv_sec - b.tv_sec - 1, tv_nsec |-> SEC + a.tv_nsec - b.tv_nsec]
  ELSE [tv_sec |-> a.tv_sec - b.tv_sec, tv_nsec |-> a.tv_nsec - b.tv_nsec]

\* After the loop: stop_time is read and run_time computed.
Report ==
  /\ pc = "report"
  /\ pc' = "done"
  /\ run_time' = Difference(Timespec(clock), start_time)
  /\ UNCHANGED <<clock, start_time, wakeup_time, ret, cycle_count, missed_cycles,
                 initial_count, steps, late>>

Next == Step \/ Plan \/ CheckMissed \/ Sleep \/ Report

Spec == Init /\ [][Next]_loopVars

\* The thread runs under SCHED_FIFO and never blocks except in the sleep.
FairSpec == Spec /\ WF_loopVars(Next)
-----------------------------------------------------------------------------
Timespecs == [tv_sec : Int, tv_nsec : 0 .. SEC - 1]

\* The variables have their types; in particular wakeup_time and run_time are
\* normalised, so that one carry per cycle is enough.
TypeOK ==
  /\ pc \in {"step", "plan", "check", "sleep", "report", "done"}
  /\ clock \in Nat
  /\ start_time \in Timespecs
  /\ wakeup_time \in Timespecs
  /\ run_time \in Timespecs
  /\ ret \in {0, 1}
  /\ initial_count \in Int \X Int
  /\ cycle_count = initial_count[1] + steps
  /\ missed_cycles \in Int
  /\ steps \in Nat
  /\ late \in Nat

\* Cycles whose wake-up time has been computed.
Planned == IF pc = "plan" THEN steps - 1 ELSE steps

\* However long the steps take, the wake-up times stay on the grid that the
\* first cycle started: an overrun delays cycles and moves no later deadline.
NoDrift == Nanoseconds(wakeup_time) = Nanoseconds(start_time) + Planned * cycle_time

\* No cycle starts before its place on the grid, also when the loop runs late
\* cycles one after the other to catch up.
NoEarlyStep == pc = "step" => clock >= Nanoseconds(start_time) + steps * cycle_time

\* missed_cycles grows by one exactly for the cycles that ended after their own
\* deadline: an overrun of several cycles is counted once per cycle it delays.
MissedExactly == missed_cycles = initial_count[2] + late

\* The run time printed at the end is the time from the first cycle to the end of
\* the last sleep, and at least one cycle per step.
RunTimeExact ==
  pc = "done" => /\ Nanoseconds(run_time) = clock - Nanoseconds(start_time)
                 /\ Nanoseconds(run_time) >= steps * cycle_time

\* Once step() asks for it, the loop ends.
LoopEnds == ret # 0 ~> pc = "done"
=============================================================================
