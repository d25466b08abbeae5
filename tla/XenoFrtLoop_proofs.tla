------------------------- MODULE XenoFrtLoop_proofs -------------------------
(***************************************************************************)
(* Proofs about the loop: for every cycle time, every second (as many      *)
(* nanoseconds as one likes) and steps that take any time.                 *)
(***************************************************************************)
EXTENDS XenoFrtLoop, TLAPS

USE LoopAssumption DEF LoopAssumption

\* Division with remainder, from its definition.
LEMMA DivMod ==
  ASSUME NEW t \in Nat
  PROVE  /\ t \div SEC \in Nat
         /\ t % SEC \in 0 .. SEC - 1
         /\ t = (t \div SEC) * SEC + (t % SEC)
OBVIOUS

\* Multiplication by an integer respects the order.
LEMMA MulMono ==
  ASSUME NEW a \in Int, NEW b \in Int, a < b
  PROVE  a * SEC + SEC <= b * SEC
<1>1. b = a + 1 + (b - a - 1) /\ b - a - 1 >= 0
  OBVIOUS
<1>2. (b - a - 1) * SEC >= 0
  BY <1>1
<1>3. b * SEC = a * SEC + SEC + (b - a - 1) * SEC
  BY <1>1
<1>4. QED
  BY <1>2, <1>3

\* Splitting an instant into seconds and nanoseconds loses nothing.
LEMMA TimespecFacts ==
  ASSUME NEW t \in Nat
  PROVE  Timespec(t) \in Timespecs /\ Nanoseconds(Timespec(t)) = t
BY DivMod DEF Timespec, Timespecs, Nanoseconds

\* The instant that a timespec stands for is an integer.
LEMMA NanosecondsType ==
  ASSUME NEW ts \in Timespecs
  PROVE  Nanoseconds(ts) \in Int
BY DEF Timespecs, Nanoseconds

\* One carry is enough, because a cycle is at most a second.
LEMMA AddCycleFacts ==
  ASSUME NEW ts \in Timespecs
  PROVE  /\ AddCycle(ts) \in Timespecs
         /\ Nanoseconds(AddCycle(ts)) = Nanoseconds(ts) + cycle_time
BY DEF AddCycle, Timespecs, Nanoseconds

\* The comparison of the fields is the comparison of the instants.
LEMMA LaterFacts ==
  ASSUME NEW a \in Timespecs, NEW b \in Timespecs
  PROVE  Later(a, b) <=> Nanoseconds(a) > Nanoseconds(b)
<1>1. CASE a.tv_sec > b.tv_sec
  BY <1>1, MulMono DEF Later, Timespecs, Nanoseconds
<1>2. CASE a.tv_sec = b.tv_sec
  BY <1>2 DEF Later, Timespecs, Nanoseconds
<1>3. CASE a.tv_sec < b.tv_sec
  BY <1>3, MulMono DEF Later, Timespecs, Nanoseconds
<1>4. QED
  BY <1>1, <1>2, <1>3 DEF Timespecs

\* The difference is exact and its nanoseconds are in range.
LEMMA DifferenceFacts ==
  ASSUME NEW a \in Timespecs, NEW b \in Timespecs
  PROVE  /\ Difference(a, b) \in Timespecs
         /\ Nanoseconds(Difference(a, b)) = Nanoseconds(a) - Nanoseconds(b)
BY DEF Difference, Timespecs, Nanoseconds
-----------------------------------------------------------------------------
\* The place of cycle n on the grid that the first cycle started.
Deadline(n) == Nanoseconds(start_time) + n * cycle_time

\* Deadlines are one cycle time apart.
LEMMA DeadlineStep ==
  ASSUME start_time \in Timespecs, NEW n \in Int
  PROVE  /\ Deadline(n) \in Int
         /\ Deadline(n + 1) = Deadline(n) + cycle_time
<1>1. Nanoseconds(start_time) \in Int
  BY NanosecondsType
<1>2. (n + 1) * cycle_time = n * cycle_time + cycle_time
  OBVIOUS
<1>3. n * cycle_time \in Int
  OBVIOUS
<1>4. QED
  BY <1>1, <1>2, <1>3 DEF Deadline

\* After the sleep and in the report the clock has reached the deadline of the
\* cycle: the checked invariant speaks of "step" alone.
Reached == pc \in {"step", "report", "done"} => clock >= Deadline(steps)

\* A cycle was counted before its wake-up time is planned.
Counted == pc = "plan" => steps > 0

\* The inductive invariant.
IInv ==
  /\ TypeOK
  /\ NoDrift
  /\ Reached
  /\ Counted
  /\ MissedExactly
  /\ RunTimeExact

\* The loop starts with the wake-up time at the start time.
LEMMA InitIInv == Init => IInv
<1> SUFFICES ASSUME Init PROVE IInv
  OBVIOUS
<1>1. clock \in Nat
  BY DEF Init
<1>2. start_time \in Timespecs /\ Nanoseconds(start_time) = clock
  BY <1>1, TimespecFacts DEF Init
<1>3. TypeOK
  BY <1>1, <1>2 DEF Init, TypeOK, Timespecs
<1>4. NoDrift
  BY <1>1, <1>2 DEF Init, NoDrift, Planned
<1>5. Reached
  BY <1>1, <1>2 DEF Init, Reached, Deadline
<1>6. MissedExactly
  BY DEF Init, MissedExactly
<1>7. Counted /\ RunTimeExact
  BY DEF Init, Counted, RunTimeExact
<1>8. QED
  BY <1>3, <1>4, <1>5, <1>6, <1>7 DEF IInv

\* step() takes time and moves no deadline.
LEMMA StepIInv == IInv /\ Step => IInv'
<1> SUFFICES ASSUME IInv, Step PROVE IInv'
  OBVIOUS
<1> USE DEF IInv, Step
<1>1. TypeOK'
  BY DEF TypeOK, ElapseFrom
<1>2. NoDrift'
  BY DEF NoDrift, Planned, Nanoseconds, TypeOK
<1>3. (Reached /\ Counted /\ MissedExactly /\ RunTimeExact)'
  BY DEF Reached, Counted, MissedExactly, RunTimeExact, TypeOK
<1>4. QED
  BY <1>1, <1>2, <1>3

\* Planning moves the wake-up time to the next place on the grid.
LEMMA PlanIInv == IInv /\ Plan => IInv'
<1> SUFFICES ASSUME IInv, Plan PROVE IInv'
  OBVIOUS
<1> USE DEF IInv, Plan
<1>1. wakeup_time' \in Timespecs
      /\ Nanoseconds(wakeup_time') = Nanoseconds(wakeup_time) + cycle_time
  BY AddCycleFacts DEF TypeOK
<1>2. TypeOK'
  BY <1>1 DEF TypeOK
<1>3. NoDrift'
  <2>1. Nanoseconds(wakeup_time) = Deadline(steps - 1)
    BY DEF NoDrift, Planned, Deadline
  <2>2. Deadline(steps) = Deadline(steps - 1) + cycle_time
    <3>1. steps - 1 \in Int /\ steps = (steps - 1) + 1
      BY DEF TypeOK
    <3>2. Deadline((steps - 1) + 1) = Deadline(steps - 1) + cycle_time
      BY <3>1, DeadlineStep DEF TypeOK
    <3>3. QED
      BY <3>1, <3>2
  <2>3. Nanoseconds(wakeup_time') = Deadline(steps)
    BY <1>1, <2>1, <2>2
  <2>4. QED
    BY <2>3 DEF NoDrift, Planned, Deadline, Nanoseconds
<1>4. (Reached /\ Counted /\ MissedExactly /\ RunTimeExact)'
  BY DEF Reached, Counted, MissedExactly, RunTimeExact
<1>5. QED
  BY <1>2, <1>3, <1>4

\* The comparison of the fields counts exactly the late cycles.
LEMMA CheckIInv == IInv /\ CheckMissed => IInv'
<1> SUFFICES ASSUME IInv, CheckMissed PROVE IInv'
  OBVIOUS
<1> USE DEF IInv, CheckMissed
<1>1. clock' \in Nat
  BY DEF ElapseFrom, TypeOK
<1>2. TypeOK'
  BY <1>1 DEF TypeOK
<1>3. NoDrift'
  BY DEF NoDrift, Planned, Nanoseconds
<1>4. MissedExactly'
  <2>1. Later(Timespec(clock'), wakeup_time) <=> clock' > Nanoseconds(wakeup_time)
    BY <1>1, TimespecFacts, LaterFacts DEF TypeOK
  <2>2. Nanoseconds(wakeup_time) = Nanoseconds(start_time) + steps * cycle_time
    BY DEF NoDrift, Planned
  <2>3. QED
    BY <2>1, <2>2 DEF MissedExactly, TypeOK
<1>5. (Reached /\ Counted /\ RunTimeExact)'
  BY DEF Reached, Counted, RunTimeExact
<1>6. QED
  BY <1>2, <1>3, <1>4, <1>5

\* The sleep ends at the wake-up time or later.
LEMMA SleepIInv == IInv /\ Sleep => IInv'
<1> SUFFICES ASSUME IInv, Sleep PROVE IInv'
  OBVIOUS
<1> USE DEF IInv, Sleep
<1>1. Nanoseconds(wakeup_time) = Deadline(steps) /\ Deadline(steps) \in Int
  BY DeadlineStep DEF NoDrift, Planned, Deadline, TypeOK
<1>2. clock' \in Nat /\ clock' >= Deadline(steps)
  BY <1>1 DEF ElapseFrom, TypeOK
<1>3. TypeOK'
  BY <1>2 DEF TypeOK
<1>4. NoDrift'
  BY DEF NoDrift, Planned, Nanoseconds
<1>5. Reached'
  BY <1>2 DEF Reached, Deadline, Nanoseconds
<1>6. (Counted /\ MissedExactly /\ RunTimeExact)'
  BY DEF Counted, MissedExactly, RunTimeExact
<1>7. QED
  BY <1>3, <1>4, <1>5, <1>6

\* The borrow makes the difference exact.
LEMMA ReportIInv == IInv /\ Report => IInv'
<1> SUFFICES ASSUME IInv, Report PROVE IInv'
  OBVIOUS
<1> USE DEF IInv, Report
<1>1. /\ run_time' \in Timespecs
      /\ Nanoseconds(run_time') = clock - Nanoseconds(start_time)
  BY TimespecFacts, DifferenceFacts DEF TypeOK
<1>2. TypeOK'
  BY <1>1 DEF TypeOK
<1>3. NoDrift'
  BY DEF NoDrift, Planned, Nanoseconds
<1>4. Reached'
  BY DEF Reached, Deadline, Nanoseconds
<1>5. RunTimeExact'
  <2>1. clock >= Nanoseconds(start_time) + steps * cycle_time
    BY DEF Reached, Deadline
  <2>2. Nanoseconds(start_time) \in Int /\ steps * cycle_time \in Int /\ clock \in Int
    BY NanosecondsType DEF TypeOK
  <2>3. Nanoseconds(run_time') >= steps * cycle_time
    BY <1>1, <2>1, <2>2
  <2>4. QED
    BY <1>1, <2>3 DEF RunTimeExact, Nanoseconds
<1>6. (Counted /\ MissedExactly)'
  BY DEF Counted, MissedExactly
<1>7. QED
  BY <1>2, <1>3, <1>4, <1>5, <1>6

\* A stuttering step changes nothing.
LEMMA StutterIInv == IInv /\ UNCHANGED loopVars => IInv'
BY DEF IInv, loopVars, TypeOK, NoDrift, Planned, Reached, Deadline, Counted,
       MissedExactly, RunTimeExact, Nanoseconds

\* The invariant of the loop.
THEOREM Invariance == Spec => []IInv
<1>1. Init => IInv
  BY InitIInv
<1>2. IInv /\ [Next]_loopVars => IInv'
  BY StepIInv, PlanIInv, CheckIInv, SleepIInv, ReportIInv, StutterIInv DEF Next
<1>3. QED
  BY <1>1, <1>2, PTL DEF Spec

\* Types: in particular one carry per cycle keeps wakeup_time normalised.
THEOREM TypeCorrect == Spec => []TypeOK
<1>1. IInv => TypeOK
  BY DEF IInv
<1>2. QED
  BY <1>1, Invariance, PTL

\* However long the steps take and whatever the cycle time is, the wake-up times
\* stay on the grid of the first cycle.
THEOREM GridKept == Spec => []NoDrift
<1>1. IInv => NoDrift
  BY DEF IInv
<1>2. QED
  BY <1>1, Invariance, PTL

\* No cycle starts before its place on the grid.
THEOREM NeverEarly == Spec => []NoEarlyStep
<1>1. IInv => NoEarlyStep
  BY DEF IInv, Reached, Deadline, NoEarlyStep
<1>2. QED
  BY <1>1, Invariance, PTL

\* The cycles counted as missed are those that ended after their own deadline.
THEOREM MissedCorrect == Spec => []MissedExactly
<1>1. IInv => MissedExactly
  BY DEF IInv
<1>2. QED
  BY <1>1, Invariance, PTL

\* The run time that is printed is exact and at least one cycle per step.
THEOREM RunTimeCorrect == Spec => []RunTimeExact
<1>1. IInv => RunTimeExact
  BY DEF IInv
<1>2. QED
  BY <1>1, Invariance, PTL
=============================================================================
