----------------------------- MODULE Decimation -----------------------------
(***************************************************************************)
(* The counters that thin out what the cycles of the real-time thread      *)
(* send: states (XenoRosCommandBridge), data (XenoRosDataBridge) and text  *)
(* (XenoFrtMonitor).  They are unsigned numbers up to UintMax.  Whether    *)
(* a bridge may write at all (write_flag) is left to XenoFrtRosIco: here   *)
(* an output is due or not.                                                *)
(***************************************************************************)
EXTENDS Naturals

CONSTANTS
  UintMax,       \* 2^32 - 1 in the program
  Frequencies    \* what the constructors are given, in Hz

ASSUME DecimationAssumption ==
  UintMax \in Nat /\ Frequencies \subseteq 0 .. UintMax

Users == {"command", "data", "monitor"}

VARIABLES
  cycle_freq,
  freq,       \* the frequency each user was given
  traps,      \* the machine traps a division by 0, or gives 0
  running,    \* the constructors have returned
  counter,    \* decimation_counter or current_delay, per user
  due,        \* users whose output was due in the last cycle
  served,     \* history: users whose output was ever due
  waited,     \* history: cycles since the last output, or since the start
  gap         \* history: cycles between the last two outputs, 0 before

decimationVars == <<cycle_freq, freq, traps, running, counter, due, served, waited, gap>>

\* A division of unsigned numbers, where it does not trap.
Quotient(n, d) == IF d = 0 THEN 0 ELSE n \div d

\* The monitor waits one cycle at least, the bridges do not see to it.
Decimator(u) ==
  LET total == Quotient(cycle_freq, freq[u])
  IN  IF u = "monitor" /\ total < 1 THEN 1 ELSE total

\* Counted from the total instead of one less.
FirstCountLate(u) == Decimator(u)

\* One less than the total, which wraps when that is 0.
FirstCount(u) == IF Decimator(u) = 0 THEN UintMax ELSE Decimator(u) - 1

Count(u) == IF counter[u] = 0 THEN FirstCount(u) ELSE counter[u] - 1

DecimationInit(given) ==
  /\ cycle_freq \in given \ {0}
  /\ freq \in {[command |-> write, data |-> write, monitor |-> text] : write, text \in given}
  /\ traps \in {t \in BOOLEAN : t => 0 \in given}
  /\ running = ~(traps /\ \E u \in Users : freq[u] = 0)
  /\ counter = [u \in Users |-> FirstCount(u)]
  /\ due = {}
  /\ served = {}
  /\ waited = [u \in Users |-> 0]
  /\ gap = [u \in Users |-> 0]

\* One cycle.  The bridges look at the counter before they count, the monitor is
\* asked after it has counted; a monitor that is to be off does not count.
Cycle ==
  /\ running
  /\ counter' = [u \in Users |-> IF u = "monitor" /\ freq[u] = 0 THEN counter[u] ELSE Count(u)]
  /\ due' = {u \in Users : \/ u = "command" /\ counter[u] = 0
                           \/ u = "data" /\ counter[u] = 0 /\ freq[u] # 0
                           \/ u = "monitor" /\ counter'[u] = 0}
  /\ served' = served \cup due'
  /\ waited' = [u \in Users |-> IF u \in due' THEN 0
                                ELSE IF waited[u] > UintMax THEN waited[u] ELSE waited[u] + 1]
  /\ gap' = [u \in Users |-> IF u \in due' \cap served THEN waited[u] + 1 ELSE gap[u]]
  /\ UNCHANGED <<cycle_freq, freq, traps, running>>
-----------------------------------------------------------------------------
\* Who asks for no more outputs than there are cycles gets them at the slowest
\* regular rate that is not below the one asked for, whether or not the
\* frequencies divide, and waits no longer for the first.  Asking for more gives
\* text in every cycle, and states and data only each time the counter has gone
\* through all its values.  A bridge that is asked for 0 and does not trap sends
\* states at that rate too, and no data (constructors and update of the two
\* bridges and the monitor; MonitorCanBeDisabled is about a monitor asked for 0).
RatesAsAsked ==
  running =>
    \A u \in Users :
      IF freq[u] \in 1 .. cycle_freq
      THEN /\ (waited[u] + 1) * freq[u] <= cycle_freq
           /\ gap[u] # 0 => gap[u] * freq[u] <= cycle_freq /\ cycle_freq < (gap[u] + 1) * freq[u]
      ELSE CASE u = "monitor" -> freq[u] # 0 => waited[u] = 0 /\ gap[u] \in {0, 1}
             [] u = "data" /\ freq[u] = 0 -> u \notin served
             [] OTHER -> waited[u] <= UintMax /\ gap[u] \in {0, UintMax + 1}

\* XenoFrtMonitor: "To disable monitoring set to 0", and with 0 "nothing will be
\* printed".
MonitorCanBeDisabled == running /\ freq["monitor"] = 0 => "monitor" \notin served
=============================================================================
