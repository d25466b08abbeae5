--------------------------- MODULE RosXenoBridge ---------------------------
(***************************************************************************)
(* The ROS node that carries messages between the topics and the cross-    *)
(* buffers.  It runs in a process of its own that may be killed and        *)
(* started again while the real-time thread keeps running.  Its executor   *)
(* has one thread: callbacks do not interleave with each other, and the    *)
(* two halves of the timer callback are two steps only because the real-   *)
(* time thread may run in between.  Draining a buffer is one step: a       *)
(* message that the real-time thread adds meanwhile is one that is found   *)
(* by the next callback.                                                   *)
(*                                                                         *)
(* Subscriptions keep one message: a newer one replaces it.                *)
(***************************************************************************)
EXTENDS Integers, XrfBuffers

CONSTANTS
  CommandValues,  \* the Int32 values published on the topic XenoCmd
  MaxCommands,    \* bound: commands published
  MaxSetpoints,   \* bound: setpoints published
  MaxLaunches     \* bound: times the node is started

ASSUME NodeAssumption ==
  /\ CommandValues \subseteq Int
  /\ MaxCommands \in Nat
  /\ MaxSetpoints \in Nat
  /\ MaxLaunches \in Nat

VARIABLES
  node,         \* "down", "spin", or "control": between the halves of the timer
  launches,     \* ghost: times the node was started
  commands,     \* ghost: commands published, the number of the last one
  setpoints,    \* ghost: setpoints published
  XenoCmd,      \* what waits in the subscription of the node
  Ros2Xeno,     \* what waits in the other subscription
  XenoState,    \* the last state published, as the operator sees it
  Xeno2Ros      \* the last encoder message published

topicVars == <<commands, setpoints, XenoCmd, Ros2Xeno>>
nodeVars == <<node, launches, topicVars, XenoState, Xeno2Ros>>

\* Nothing was published yet.
NoState == [state |-> 0, after |-> 0, old |-> FALSE]
NoData == [age |-> 0, old |-> FALSE]

NodeInit ==
  /\ node = "down"
  /\ launches = 0
  /\ commands = 0
  /\ setpoints = 0
  /\ XenoCmd = <<>>
  /\ Ros2Xeno = <<>>
  /\ XenoState = NoState
  /\ Xeno2Ros = NoData

\* Ghost: what a message in a buffer becomes when the node is started.
MarkOld(buffer) == [i \in DOMAIN buffer |-> [buffer[i] EXCEPT !.old = TRUE]]

\* A start that leaves both buffers as they are.
LaunchWithoutDrain ==
  /\ node = "down"
  /\ launches < MaxLaunches
  /\ node' = "spin"
  /\ launches' = launches + 1
  /\ data_out' = MarkOld(data_out)
  /\ command_out' = MarkOld(command_out)
  /\ UNCHANGED <<topicVars, XenoState, Xeno2Ros, command_in, data_in>>

\* The constructor: open the buffers, which the real-time thread has created,
\* empty Ros-Xeno, subscribe.
Launch ==
  /\ node = "down"
  /\ launches < MaxLaunches
  /\ node' = "spin"
  /\ launches' = launches + 1
  /\ data_out' = <<>>
  /\ command_out' = MarkOld(command_out)
  /\ UNCHANGED <<topicVars, XenoState, Xeno2Ros, command_in, data_in>>

\* The process is killed: what waits in its subscriptions is gone, what is in
\* the buffers stays.
Crash ==
  /\ node # "down"
  /\ node' = "down"
  /\ XenoCmd' = <<>>
  /\ Ros2Xeno' = <<>>
  /\ UNCHANGED <<launches, commands, setpoints, XenoState, Xeno2Ros, bufferVars>>

Spinning == node = "spin" /\ UNCHANGED <<node, launches>>

\* A callback that copies the message and leaves it with the executor.
ControlCallbackKeepsMessage ==
  /\ Spinning
  /\ XenoCmd # <<>>
  /\ command_in' = Written(command_in, InSlots, Head(XenoCmd))
  /\ UNCHANGED <<topicVars, XenoState, Xeno2Ros, command_out, data_in, data_out>>

\* controlCallback
ControlCallback ==
  /\ Spinning
  /\ XenoCmd # <<>>
  /\ command_in' = Written(command_in, InSlots, Head(XenoCmd))
  /\ XenoCmd' = Tail(XenoCmd)
  /\ UNCHANGED <<commands, setpoints, Ros2Xeno, XenoState, Xeno2Ros,
                 command_out, data_in, data_out>>

\* dataCallback
DataCallback ==
  /\ Spinning
  /\ Ros2Xeno # <<>>
  /\ data_in' = Written(data_in, InSlots, Head(Ros2Xeno))
  /\ Ros2Xeno' = Tail(Ros2Xeno)
  /\ UNCHANGED <<commands, setpoints, XenoCmd, XenoState, Xeno2Ros,
                 command_in, command_out, data_out>>

\* timerCallback, first half: of what is in Ros-Xeno only the newest message
\* is published.
TimerData ==
  /\ node = "spin"
  /\ node' = "control"
  /\ data_out' = <<>>
  /\ Xeno2Ros' = IF data_out = <<>> THEN Xeno2Ros ELSE data_out[Len(data_out)]
  /\ UNCHANGED <<launches, topicVars, XenoState, command_in, command_out, data_in>>

\* One message per callback, taken from the wrong end.
TimerControlNewestFirst ==
  /\ node = "control"
  /\ node' = "spin"
  /\ command_out' = SubSeq(command_out, 1, Len(command_out) - 1)
  /\ XenoState' = IF command_out = <<>> THEN XenoState ELSE command_out[Len(command_out)]
  /\ UNCHANGED <<launches, topicVars, Xeno2Ros, command_in, data_in, data_out>>

\* timerCallback, second half: the same for XenoCmd.
TimerControl ==
  /\ node = "control"
  /\ node' = "spin"
  /\ command_out' = <<>>
  /\ XenoState' = IF command_out = <<>> THEN XenoState ELSE command_out[Len(command_out)]
  /\ UNCHANGED <<launches, topicVars, Xeno2Ros, command_in, data_in, data_out>>

NodeNext ==
  \/ Launch
  \/ Crash
  \/ ControlCallback
  \/ DataCallback
  \/ TimerData
  \/ TimerControl
-----------------------------------------------------------------------------
\* External: the operator and the vision nodes publish.  A message reaches the
\* subscription of a running node and replaces the one that waits there.
Arrives(queue, msg) == IF node = "down" THEN queue ELSE <<msg>>

PublishCommand(value) ==
  /\ commands < MaxCommands
  /\ commands' = commands + 1
  /\ XenoCmd' = Arrives(XenoCmd, [id |-> commands', command |-> value])
  /\ UNCHANGED <<node, launches, setpoints, Ros2Xeno, XenoState, Xeno2Ros, bufferVars>>

PublishSetpoint ==
  /\ setpoints < MaxSetpoints
  /\ setpoints' = setpoints + 1
  /\ Ros2Xeno' = Arrives(Ros2Xeno, setpoints')
  /\ UNCHANGED <<node, launches, commands, XenoCmd, XenoState, Xeno2Ros, bufferVars>>

UserNext == PublishSetpoint \/ \E value \in CommandValues : PublishCommand(value)
=============================================================================
