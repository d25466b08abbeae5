----------------------------- MODULE XrfBuffers -----------------------------
(***************************************************************************)
(* The two cross-buffers between the real-time thread and Linux: "XenoCmd" *)
(* for commands and states, "Ros-Xeno" for setpoints and encoder values.   *)
(* The real-time side creates them non-blocking; the ROS node opens them   *)
(* by name.  A cross-buffer is a FIFO of messages in each direction, of a  *)
(* fixed size: a write that does not fit fails and nobody looks at the     *)
(* result, so the newest message is the one that is lost.                  *)
(***************************************************************************)
EXTENDS Naturals, Sequences

CONSTANTS
  StateSlots,   \* states the buffer to Linux holds
  DataSlots     \* encoder messages the buffer to Linux holds

ASSUME BuffersAssumption == StateSlots \in Nat \ {0} /\ DataSlots \in Nat \ {0}

VARIABLES
  command_in,   \* XenoCmd, Linux to Xenomai: commands
  command_out,  \* XenoCmd, Xenomai to Linux: states
  data_in,      \* Ros-Xeno, Linux to Xenomai: setpoints
  data_out      \* Ros-Xeno, Xenomai to Linux: encoder messages

bufferVars == <<command_in, command_out, data_in, data_out>>

\* Towards the real-time thread each buffer is sized for one message.
InSlots == 1

\* A buffer without a size.
WrittenAlways(buffer, slots, msg) == Append(buffer, msg)

Written(buffer, slots, msg) ==
  IF Len(buffer) < slots THEN Append(buffer, msg) ELSE buffer

BuffersInit ==
  /\ command_in = <<>>
  /\ command_out = <<>>
  /\ data_in = <<>>
  /\ data_out = <<>>
=============================================================================
