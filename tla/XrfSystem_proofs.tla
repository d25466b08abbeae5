------------------------- MODULE XrfSystem_proofs -------------------------
(***************************************************************************)
(* Proofs about the messages of the composed system: types, the order of   *)
(* commands, states and setpoints, for any number of commands, setpoints   *)
(* and starts of the node, any sizes of the buffers and any decimation.    *)
(***************************************************************************)
EXTENDS XrfRunner_proofs

-----------------------------------------------------------------------------
(***************************************************************************)
(* Types.                                                                  *)
(***************************************************************************)

\* What a write does to a buffer.
LEMMA WrittenType ==
  ASSUME NEW S, NEW buffer \in Seq(S), NEW slots \in Nat, Len(buffer) <= slots, NEW msg \in S
  PROVE  /\ Written(buffer, slots, msg) \in Seq(S)
         /\ Len(Written(buffer, slots, msg)) <= slots
BY DEF Written

\* What a start of the node does to a buffer.
LEMMA MarkOldType ==
  ASSUME NEW S, NEW buffer \in Seq(S),
         \A m \in S : [m EXCEPT !.old = TRUE] \in S
  PROVE  /\ MarkOld(buffer) \in Seq(S)
         /\ Len(MarkOld(buffer)) = Len(buffer)
         /\ DOMAIN MarkOld(buffer) = DOMAIN buffer
         /\ \A i \in DOMAIN buffer : MarkOld(buffer)[i] = [buffer[i] EXCEPT !.old = TRUE]
BY DEF MarkOld

\* What a read does to a buffer.
LEMMA ReadType ==
  ASSUME NEW S, NEW buffer \in Seq(S), buffer # <<>>
  PROVE  /\ Tail(buffer) \in Seq(S)
         /\ Len(Tail(buffer)) = Len(buffer) - 1
         /\ Head(buffer) \in S
         /\ buffer[Len(buffer)] \in S
OBVIOUS

\* The flags of the thread, whose types need no arithmetic.
FlagTypes ==
  /\ command_write_flag \in BOOLEAN
  /\ data_write_flag \in BOOLEAN
  /\ initialsed \in BOOLEAN
  /\ started \in BOOLEAN

\* The other variables of the thread, without the machine.
ThreadTypes ==
  /\ pc \in {"update_io", "data_read", "data_write", "command_read", "command_write",
             "monitor", "log", "end"}
  /\ ret \in {0, 1}
  /\ command_counter \in 0 .. decimation_total - 1
  /\ data_counter \in 0 .. decimation_total - 1
  /\ ros_msg \in Nat
  /\ actuate_data \in Nat
  /\ fpga \in Nat
  /\ xeno_age \in 0 .. OldAge
  /\ handled \in Nat
  /\ types \in Seq(Log!VariableTypes)
  /\ Len(types) <= 100
  /\ data_size \in Nat
  /\ process \in {"up", "aborted", "exited"}

\* The log file.
FileType == file \in Seq(Log!Entries)

\* The cross-buffers.
BufferTypes ==
  /\ command_in \in Seq(Commands) /\ Len(command_in) <= InSlots
  /\ command_out \in Seq(Reports) /\ Len(command_out) <= StateSlots
  /\ data_in \in Seq(Nat) /\ Len(data_in) <= InSlots
  /\ data_out \in Seq(Samples) /\ Len(data_out) <= DataSlots

\* The node and the topics.
NodeTypes ==
  /\ node \in {"down", "spin", "control"}
  /\ launches \in Nat
  /\ commands \in Nat
  /\ setpoints \in Nat
  /\ XenoCmd \in Seq(Commands) /\ Len(XenoCmd) <= 1
  /\ Ros2Xeno \in Seq(Nat) /\ Len(Ros2Xeno) <= 1
  /\ XenoState \in Reports \union {NoState}
  /\ Xeno2Ros \in Samples

\* A counter counts down and starts again.
LEMMA CounterType ==
  ASSUME NEW counter \in 0 .. decimation_total - 1
  PROVE  NextCounter(counter) \in 0 .. decimation_total - 1
BY DecimationAssumption DEF NextCounter, DecimationAssumption

\* The parts together.
Types == FlagTypes /\ ThreadTypes /\ FileType /\ BufferTypes /\ NodeTypes

\* The type invariant of the system is these parts and the machine's.
LEMMA TypeParts == TypeOK <=> Types /\ FSM!TypeOK
BY DEF TypeOK, Types, FlagTypes, ThreadTypes, FileType, BufferTypes, NodeTypes, Log!LogTypeOK

\* The types hold at the start.
LEMMA TypesInit == Init => Types
<1> SUFFICES ASSUME Init PROVE Types
  OBVIOUS
<1>1. FlagTypes
  BY Zenon DEF Init, RtInit, FlagTypes
<1>2. ThreadTypes
  <2>1. decimation_total - 1 \in 0 .. decimation_total - 1
    BY DecimationAssumption DEF DecimationAssumption
  <2>2. RunnerTypes \in Seq(Log!VariableTypes) /\ Len(RunnerTypes) = 5
    BY DEF RunnerTypes, Log!VariableTypes
  <2>3. QED
    BY <2>1, <2>2 DEF Init, RtInit, ThreadTypes, OldAge
<1>3. FileType
  BY DEF Init, RtInit, FileType
<1>4. BufferTypes
  BY BuffersAssumption DEF Init, BuffersInit, BufferTypes, BuffersAssumption, InSlots
<1>5. NodeTypes
  BY DEF Init, NodeInit, NodeTypes, NoState, NoData, Samples, OldAge
<1>6. QED
  BY <1>1, <1>2, <1>3, <1>4, <1>5 DEF Types

\* Every step keeps the flags.
LEMMA FlagNext ==
  ASSUME FlagTypes, [Next]_vars
  PROVE  FlagTypes'
<1> USE DEF FlagTypes
<1>1. CASE CommandRead
  BY <1>1, Zenon DEF CommandRead, loggerVars, dataBridgeVars
<1>2. CASE DataRead
  BY <1>2, Zenon DEF DataRead, loggerVars, commandBridgeVars
<1>3. CASE Monitor
  <2>1. UNCHANGED <<command_write_flag, data_write_flag>>
    BY <1>3 DEF Monitor, commandBridgeVars, dataBridgeVars
  <2>2. initialsed' \in BOOLEAN /\ started' \in BOOLEAN
    BY <1>3, Zenon DEF Monitor, StateFunction, Initialising, Run, Stopping, Pausing, Idling,
                       loggerVars, Log!logger_initialise, Log!logger_start, Log!logger_stop
  <2>3. QED
    BY <2>1, <2>2
<1>4. CASE Logging
  BY <1>4, Zenon DEF Logging, Log!log, Log!Abort, Log!loggerVars, commandBridgeVars, dataBridgeVars
<1>5. CASE UpdateIo \/ DataWrite \/ CommandWrite
  BY <1>5, Zenon DEF UpdateIo, DataWrite, CommandWrite, loggerVars, commandBridgeVars, dataBridgeVars
<1>6. CASE UNCHANGED rtVars
  BY <1>6, Zenon DEF rtVars, loggerVars, commandBridgeVars, dataBridgeVars
<1>7. QED
  BY <1>1, <1>2, <1>3, <1>4, <1>5, <1>6, Zenon
     DEF Next, RtStep, RtNext, NodeStep, UserStep, vars

\* Every step keeps the log file a sequence of entries.
LEMMA FileNext ==
  ASSUME ThreadTypes, FileType, [Next]_vars
  PROVE  FileType'
<1> USE DEF FileType
<1>1. /\ Log!TornHeader \in Log!Entries
      /\ \A names \in Log!NameRows : Log!HeaderOf(types, names) \in Log!Entries
      /\ "whole" \in Log!NameRows
  BY DEF ThreadTypes, Log!HeaderOf, Log!TornHeader, Log!Entries, Log!NameRows
<1>2. Log!RowsOf(data_size) \in Log!Entries /\ Log!PartOfRow \in Log!Entries
  BY DEF ThreadTypes, Log!RowsOf, Log!PartOfRow, Log!Entries
<1>3. CASE Monitor
  <2>1. \/ UNCHANGED file
        \/ \E names \in Log!NameRows : file' = Append(file, Log!HeaderOf(types, names))
        \/ file' = Append(file, Log!TornHeader)
    BY <1>1, <1>3 DEF Monitor, StateFunction, Initialising, Run, Stopping, Pausing, Idling,
                      loggerVars, Log!logger_initialise, Log!logger_start, Log!logger_stop,
                      Log!NamesWritten
  <2>2. QED
    BY <1>1, <2>1
<1>4. CASE Logging
  <2>1. \/ UNCHANGED file
        \/ file' = Append(file, Log!RowsOf(data_size))
        \/ file' = Append(file, Log!PartOfRow)
    BY <1>4 DEF Logging, Log!log, Log!Abort, Log!loggerVars, Log!FileAfter, Log!AppendRun
  <2>2. QED
    BY <1>2, <2>1
<1>5. CASE UpdateIo \/ DataRead \/ DataWrite \/ CommandRead \/ CommandWrite
  BY <1>5 DEF UpdateIo, DataRead, DataWrite, CommandRead, CommandWrite, loggerVars
<1>6. CASE UNCHANGED rtVars
  BY <1>6 DEF rtVars, loggerVars
<1>7. QED
  BY <1>3, <1>4, <1>5, <1>6 DEF Next, RtStep, RtNext, NodeStep, UserStep, vars

\* Every step keeps the types of the thread.
LEMMA ThreadNext ==
  ASSUME ThreadTypes, BufferTypes, [Next]_vars
  PROVE  ThreadTypes'
<1> USE DEF ThreadTypes, At
<1>1. CASE UpdateIo
  BY <1>1 DEF UpdateIo, loggerVars, commandBridgeVars, dataBridgeVars, OldAge
<1>2. CASE DataRead
  <2>1. data_in # <<>> => Head(data_in) \in Nat
    BY DEF BufferTypes
  <2>2. QED
    BY <1>2, <2>1 DEF DataRead, loggerVars, commandBridgeVars
<1>3. CASE DataWrite
  BY <1>3, CounterType DEF DataWrite, loggerVars, commandBridgeVars, ioVars
<1>4. CASE CommandRead
  <2>1. command_in # <<>> => Head(command_in).id \in Nat
    <3>1. command_in # <<>> => Head(command_in) \in Commands
      BY DEF BufferTypes
    <3>2. QED
      BY <3>1 DEF Commands
  <2>2. QED
    BY <1>4, <2>1 DEF CommandRead, loggerVars, dataBridgeVars, ioVars
<1>5. CASE CommandWrite
  BY <1>5, CounterType DEF CommandWrite, loggerVars, dataBridgeVars, ioVars
<1>6. CASE Monitor
  <2>1. ret' \in {0, 1}
    BY <1>6 DEF Monitor, FSM!StepReturns
  <2>2. /\ UNCHANGED <<types, data_size>>
        /\ process' \in {"up", "aborted", "exited"}
        /\ xeno_age' \in 0 .. OldAge
        /\ UNCHANGED ros_msg
        /\ actuate_data' \in Nat
        /\ fpga' \in Nat
    BY <1>6 DEF Monitor, StateFunction, Initialising, Run, Stopping, Pausing, Idling,
                loggerVars, ioVars, Log!logger_initialise, Log!logger_start, Log!logger_stop, OldAge
  <2>3. QED
    BY <1>6, <2>1, <2>2 DEF Monitor, commandBridgeVars, dataBridgeVars
<1>7. CASE Logging
  BY <1>7 DEF Logging, Log!log, Log!Abort, Log!loggerVars, commandBridgeVars, dataBridgeVars,
              ioVars
<1>8. CASE UNCHANGED rtVars
  BY <1>8 DEF rtVars, loggerVars, commandBridgeVars, dataBridgeVars, ioVars
<1>9. QED
  BY <1>1, <1>2, <1>3, <1>4, <1>5, <1>6, <1>7, <1>8
     DEF Next, RtStep, RtNext, NodeStep, UserStep, vars

\* An emptied buffer.
LEMMA EmptyType ==
  ASSUME NEW S, NEW slots \in Nat
  PROVE  <<>> \in Seq(S) /\ Len(<<>>) <= slots
OBVIOUS

\* Every step keeps the types of the buffers, and their sizes.
LEMMA BufferNext ==
  ASSUME ThreadTypes, BufferTypes, NodeTypes, FSM!TypeOK, [Next]_vars
  PROVE  BufferTypes'
<1> USE DEF BufferTypes
<1>0. StateSlots \in Nat /\ DataSlots \in Nat
  BY BuffersAssumption DEF BuffersAssumption
<1>1. CASE DataRead
  <2>1. data_in' \in Seq(Nat) /\ Len(data_in') <= InSlots
    BY <1>1 DEF DataRead, InSlots
  <2>2. QED
    BY <1>1, <2>1 DEF DataRead
<1>2. CASE DataWrite
  <2>1. [age |-> xeno_age, old |-> FALSE] \in Samples
    BY DEF ThreadTypes, Samples
  <2>2. \/ UNCHANGED data_out
        \/ data_out' = Written(data_out, DataSlots, [age |-> xeno_age, old |-> FALSE])
    BY <1>2 DEF DataWrite
  <2>3. data_out' \in Seq(Samples) /\ Len(data_out') <= DataSlots
    BY <1>0, <2>1, <2>2, WrittenType
  <2>4. QED
    BY <1>2, <2>3 DEF DataWrite
<1>3. CASE CommandRead
  <2>1. command_in' \in Seq(Commands) /\ Len(command_in') <= InSlots
    BY <1>3 DEF CommandRead, InSlots
  <2>2. QED
    BY <1>3, <2>1 DEF CommandRead
<1>4. CASE CommandWrite
  <2>1. Report \in Reports
    BY DEF ThreadTypes, FSM!TypeOK, Report, Reports
  <2>2. UNCHANGED command_out \/ command_out' = Written(command_out, StateSlots, Report)
    BY <1>4 DEF CommandWrite
  <2>3. command_out' \in Seq(Reports) /\ Len(command_out') <= StateSlots
    BY <1>0, <2>1, <2>2, WrittenType
  <2>4. QED
    BY <1>4, <2>3 DEF CommandWrite
<1>5. CASE Launch
  <2>1. \A m \in Reports : [m EXCEPT !.old = TRUE] \in Reports
    BY DEF Reports
  <2>2. command_out' \in Seq(Reports) /\ Len(command_out') <= StateSlots
    BY <1>0, <1>5, <2>1, MarkOldType DEF Launch
  <2>3. data_out' \in Seq(Samples) /\ Len(data_out') <= DataSlots
    BY <1>0, <1>5, EmptyType DEF Launch
  <2>4. QED
    BY <1>5, <2>2, <2>3 DEF Launch
<1>6. CASE ControlCallback
  <2>1. Head(XenoCmd) \in Commands
    BY <1>6, ReadType DEF ControlCallback, NodeTypes
  <2>2. QED
    BY <1>6, <2>1, WrittenType DEF ControlCallback, InSlots
<1>7. CASE DataCallback
  <2>1. Head(Ros2Xeno) \in Nat
    BY <1>7, ReadType DEF DataCallback, NodeTypes
  <2>2. QED
    BY <1>7, <2>1, WrittenType DEF DataCallback, InSlots
<1>8. CASE TimerData \/ TimerControl
  <2>1. data_out' \in Seq(Samples) /\ Len(data_out') <= DataSlots
    BY <1>0, <1>8, EmptyType DEF TimerData, TimerControl
  <2>2. command_out' \in Seq(Reports) /\ Len(command_out') <= StateSlots
    BY <1>0, <1>8, EmptyType DEF TimerData, TimerControl
  <2>3. QED
    BY <1>8, <2>1, <2>2 DEF TimerData, TimerControl
<1>9. CASE UNCHANGED bufferVars
  BY <1>9 DEF bufferVars
<1>10. QED
  BY <1>1, <1>2, <1>3, <1>4, <1>5, <1>6, <1>7, <1>8, <1>9
     DEF Next, RtStep, RtNext, NodeStep, NodeNext, UserStep, UserNext, vars, UpdateIo, Monitor,
         Logging, Crash, PublishSetpoint, PublishCommand

\* A subscription that holds one message.
LEMMA ArrivesType ==
  ASSUME NEW S, NEW queue \in Seq(S), Len(queue) <= 1, NEW msg \in S
  PROVE  /\ Arrives(queue, msg) \in Seq(S)
         /\ Len(Arrives(queue, msg)) <= 1
         /\ \/ Arrives(queue, msg) = queue
            \/ /\ DOMAIN Arrives(queue, msg) = {1}
               /\ Arrives(queue, msg)[1] = msg
BY DEF Arrives

\* Every step keeps the types of the node and the topics.
LEMMA TopicNext ==
  ASSUME BufferTypes, NodeTypes, [Next]_vars
  PROVE  NodeTypes'
<1> USE DEF NodeTypes
<1>1. CASE Launch
  BY <1>1 DEF Launch, topicVars
<1>2. CASE Crash
  BY <1>2 DEF Crash
<1>3. CASE ControlCallback
  BY <1>3, ReadType DEF ControlCallback, Spinning
<1>4. CASE DataCallback
  BY <1>4, ReadType DEF DataCallback, Spinning
<1>5. CASE TimerData
  BY <1>5, ReadType DEF TimerData, topicVars, BufferTypes
<1>6. CASE TimerControl
  BY <1>6, ReadType DEF TimerControl, topicVars, BufferTypes
<1>7. ASSUME NEW value \in CommandValues, PublishCommand(value)
      PROVE  NodeTypes'
  <2> DEFINE msg == [id |-> commands + 1, command |-> value]
  <2>1. msg \in Commands
    BY NodeAssumption DEF NodeAssumption, Commands
  <2>2. commands' = commands + 1 /\ XenoCmd' = Arrives(XenoCmd, msg)
    BY <1>7 DEF PublishCommand
  <2> HIDE DEF msg
  <2>3. XenoCmd' \in Seq(Commands) /\ Len(XenoCmd') <= 1
    BY <2>1, <2>2, ArrivesType
  <2>4. QED
    BY <1>7, <2>2, <2>3 DEF PublishCommand
<1>8. CASE PublishSetpoint
  <2>1. Arrives(Ros2Xeno, setpoints + 1) \in Seq(Nat) /\ Len(Arrives(Ros2Xeno, setpoints + 1)) <= 1
    BY ArrivesType
  <2>2. QED
    BY <1>8, <2>1 DEF PublishSetpoint
<1>9. CASE UNCHANGED nodeVars
  BY <1>9 DEF nodeVars, topicVars
<1>10. QED
  BY <1>1, <1>2, <1>3, <1>4, <1>5, <1>6, <1>7, <1>8, <1>9
     DEF Next, RtStep, NodeStep, NodeNext, UserStep, UserNext, vars

\* The variables have their types, and no buffer ever holds more than its size.
THEOREM TypeCorrect == Spec => []TypeOK
<1>1. P!IInv => FSM!TypeOK
  BY StateNumbers, P!StateFacts DEF P!IInv, P!TypeOK, FSM!TypeOK, P!Functions, FSM!Functions
<1>2. Types /\ FSM!TypeOK /\ [Next]_vars => Types'
  BY FlagNext, FileNext, ThreadNext, BufferNext, TopicNext DEF Types
<1>3. QED
  BY <1>1, <1>2, TypesInit, TypeParts, MachineInvariance, PTL DEF Spec
-----------------------------------------------------------------------------
(***************************************************************************)
(* Commands and states.                                                    *)
(***************************************************************************)

\* A written message is at the end of the buffer or lost.
LEMMA WrittenItems ==
  ASSUME NEW S, NEW buffer \in Seq(S), NEW slots, NEW msg \in S
  PROVE  \A i \in DOMAIN Written(buffer, slots, msg) :
           \/ Written(buffer, slots, msg)[i] = msg
           \/ i \in DOMAIN buffer /\ Written(buffer, slots, msg)[i] = buffer[i]
BY DEF Written

\* The order holds at the start.
LEMMA CommandInit == Init => CommandsInOrder
BY DEF Init, BuffersInit, RtInit, NodeInit, CommandsInOrder

\* Every step keeps the order: a command moves from the subscription to the
\* buffer, from there to the state machine, and only a newer one takes its place.
LEMMA CommandNext ==
  ASSUME Types, CommandsInOrder, [Next]_vars
  PROVE  CommandsInOrder' /\ handled' >= handled
<1> USE DEF CommandsInOrder
<1> /\ handled \in Nat
    /\ commands \in Nat
    /\ command_in \in Seq(Commands)
    /\ Len(command_in) <= 1
    /\ XenoCmd \in Seq(Commands)
    /\ Len(XenoCmd) <= 1
  BY DEF Types, ThreadTypes, BufferTypes, NodeTypes, InSlots
<1>1. CASE CommandRead /\ UNCHANGED nodeVars
  <2>1. CASE command_in = <<>>
    BY <1>1, <2>1 DEF CommandRead, nodeVars, topicVars
  <2>2. CASE command_in # <<>>
    <3>1. /\ handled' = command_in[1].id
          /\ command_in' = <<>>
          /\ UNCHANGED <<commands, XenoCmd>>
      BY <1>1, <2>2 DEF CommandRead, nodeVars, topicVars, InSlots
    <3>2. 1 \in DOMAIN command_in /\ command_in[1] \in Commands
      BY <2>2
    <3>3. handled' \in Nat /\ handled' <= commands' /\ handled' >= handled
      BY <3>1, <3>2 DEF Commands
    <3>4. \A i \in DOMAIN XenoCmd : XenoCmd[i].id \in handled' + 1 .. commands
      BY <3>1, <3>2, <3>3 DEF Commands
    <3>5. QED
      BY <3>1, <3>3, <3>4
  <2>3. QED
    BY <2>1, <2>2
<1>2. CASE Crash /\ UNCHANGED handled
  BY <1>2 DEF Crash, bufferVars
<1>3. CASE ControlCallback /\ UNCHANGED handled
  <2>1. /\ XenoCmd # <<>>
        /\ XenoCmd' = <<>>
        /\ command_in' = Written(command_in, InSlots, XenoCmd[1])
        /\ UNCHANGED commands
    BY <1>3 DEF ControlCallback
  <2>2. 1 \in DOMAIN XenoCmd /\ XenoCmd[1] \in Commands
    BY <2>1
  <2>3. \A i \in DOMAIN command_in' :
          \/ command_in'[i] = XenoCmd[1]
          \/ i \in DOMAIN command_in /\ command_in'[i] = command_in[i]
    BY <2>1, <2>2, WrittenItems
  <2>4. \A i \in DOMAIN command_in' : command_in'[i].id \in handled + 1 .. commands
    BY <2>2, <2>3
  <2>5. QED
    BY <1>3, <2>1, <2>4
<1>4. ASSUME NEW value \in CommandValues, PublishCommand(value), UNCHANGED handled
      PROVE  CommandsInOrder' /\ handled' >= handled
  <2> DEFINE msg == [id |-> commands + 1, command |-> value]
  <2>1. msg \in Commands /\ msg.id = commands + 1
    BY NodeAssumption DEF NodeAssumption, Commands
  <2>2. /\ commands' = commands + 1
        /\ XenoCmd' = Arrives(XenoCmd, msg)
        /\ UNCHANGED command_in
    BY <1>4 DEF PublishCommand, bufferVars
  <2> HIDE DEF msg
  <2>3. XenoCmd' = XenoCmd \/ (DOMAIN XenoCmd' = {1} /\ XenoCmd'[1] = msg)
    BY <2>1, <2>2, ArrivesType
  <2>4. \A i \in DOMAIN XenoCmd' :
          /\ XenoCmd'[i].id \in handled + 1 .. commands + 1
          /\ \A j \in DOMAIN command_in : command_in[j].id < XenoCmd'[i].id
    BY <2>1, <2>3
  <2>5. QED
    BY <1>4, <2>2, <2>4
<1>5. CASE UNCHANGED <<handled, command_in, commands, XenoCmd>>
  BY <1>5
<1>6. QED
  BY <1>1, <1>2, <1>3, <1>4, <1>5
     DEF Next, RtStep, RtNext, NodeStep, NodeNext, UserStep, UserNext, vars, nodeVars, topicVars,
         rtVars, bufferVars, UpdateIo, DataRead, DataWrite, CommandWrite, Monitor, Logging,
         Launch, DataCallback, TimerData, TimerControl, Spinning, PublishSetpoint

\* The commands that reach the state machine do so in the order they were
\* published and once each, whatever is lost and however often the node dies.
THEOREM CommandOrder == Spec => []CommandsInOrder
<1>1. Types /\ CommandsInOrder /\ [Next]_vars => CommandsInOrder'
  BY CommandNext
<1>2. QED
  BY <1>1, CommandInit, TypeCorrect, TypeParts, PTL DEF Spec

\* Every state on its way to the operator is at least as new as the one shown,
\* and none is newer than the last command handled.
ReportInv ==
  /\ XenoState.after <= handled
  /\ \A i \in DOMAIN command_out : command_out[i].after \in XenoState.after .. handled
  /\ command_write_flag => handled > 0
  /\ NoReportBeforeCommand

\* Nothing is reported at the start.
LEMMA ReportInit == Init => ReportInv
BY DEF Init, BuffersInit, RtInit, NodeInit, ReportInv, NoReportBeforeCommand, NoState

\* Every step keeps that, and what is shown never goes back.
LEMMA ReportNext ==
  ASSUME Types, FSM!TypeOK, CommandsInOrder, ReportInv, [Next]_vars
  PROVE  ReportInv' /\ XenoState'.after >= XenoState.after
<1> USE DEF ReportInv, NoReportBeforeCommand
<1>0. command_out \in Seq(Reports) /\ XenoState \in Reports \union {NoState}
  BY DEF Types, BufferTypes, NodeTypes
<1>1. handled' >= handled /\ handled' \in Nat /\ handled \in Nat
  BY CommandNext, ThreadNext DEF Types, ThreadTypes
<1>2. XenoState.after \in Nat /\ \A i \in DOMAIN command_out : command_out[i].after \in Nat
  <2>1. \A i \in DOMAIN command_out : command_out[i] \in Reports
    BY <1>0
  <2>2. NoState.after = 0
    BY DEF NoState
  <2>3. \A m \in Reports : m.after \in Nat
    BY DEF Reports
  <2>4. QED
    BY <1>0, <2>1, <2>2, <2>3
<1>3. CASE CommandRead /\ UNCHANGED nodeVars
  <2>1. command_in # <<>> => handled' > 0
    <3>1. command_in # <<>> => 1 \in DOMAIN command_in /\ Head(command_in) = command_in[1]
      BY DEF Types, BufferTypes
    <3>2. QED
      BY <1>1, <1>3, <3>1 DEF CommandRead, CommandsInOrder
  <2>2. UNCHANGED <<command_out, XenoState>>
    BY <1>3 DEF CommandRead, nodeVars
  <2>3. command_write_flag' => handled' > 0
    BY <1>1, <1>3, <2>1 DEF CommandRead
  <2>4. QED
    BY <1>1, <1>2, <2>2, <2>3
<1>4. CASE CommandWrite /\ UNCHANGED nodeVars
  <2>1. Report \in Reports /\ Report.after = handled
    BY <1>1 DEF FSM!TypeOK, Report, Reports
  <2>2. \/ UNCHANGED command_out
        \/ command_write_flag /\ command_out' = Written(command_out, StateSlots, Report)
    BY <1>4 DEF CommandWrite
  <2>3. UNCHANGED <<handled, command_write_flag, XenoState>>
    BY <1>4 DEF CommandWrite, nodeVars
  <2>4. CASE command_write_flag /\ command_out' = Written(command_out, StateSlots, Report)
    <3>1. \A i \in DOMAIN command_out' :
            \/ command_out'[i] = Report
            \/ i \in DOMAIN command_out /\ command_out'[i] = command_out[i]
      BY <1>0, <2>1, <2>4, WrittenItems
    <3>2. \A i \in DOMAIN command_out' : command_out'[i].after \in XenoState.after .. handled
      BY <1>1, <1>2, <2>1, <3>1
    <3>3. QED
      BY <1>1, <1>2, <2>3, <2>4, <3>2
  <2>5. QED
    BY <1>1, <1>2, <2>2, <2>3, <2>4
<1>5. CASE Launch /\ UNCHANGED rtVars
  <2>1. \A m \in Reports : /\ [m EXCEPT !.old = TRUE] \in Reports
                            /\ [m EXCEPT !.old = TRUE].after = m.after
    BY DEF Reports
  <2>2. /\ command_out' = MarkOld(command_out)
        /\ UNCHANGED <<handled, command_write_flag, XenoState>>
    BY <1>5 DEF Launch, rtVars, commandBridgeVars
  <2>3. /\ DOMAIN command_out' = DOMAIN command_out
        /\ \A i \in DOMAIN command_out : command_out'[i] = [command_out[i] EXCEPT !.old = TRUE]
        /\ Len(command_out') = Len(command_out) /\ command_out' \in Seq(Reports)
    BY <1>0, <2>1, <2>2, MarkOldType
  <2>4. \A i \in DOMAIN command_out : command_out'[i].after = command_out[i].after
    <3>1. \A i \in DOMAIN command_out : command_out[i] \in Reports
      BY <1>0
    <3>2. QED
      BY <2>1, <2>3, <3>1
  <2>5. command_out = <<>> => command_out' = <<>>
    BY <1>0, <2>3
  <2>6. QED
    BY <1>1, <1>2, <2>2, <2>3, <2>4, <2>5
<1>6. CASE TimerControl /\ UNCHANGED rtVars
  <2>1. CASE command_out = <<>>
    BY <1>1, <1>2, <1>6, <2>1 DEF TimerControl, rtVars, commandBridgeVars
  <2>2. CASE command_out # <<>>
    <3>1. Len(command_out) \in DOMAIN command_out
      BY <1>0, <2>2
    <3>2. /\ XenoState' = command_out[Len(command_out)]
          /\ command_out' = <<>>
          /\ UNCHANGED <<handled, command_write_flag>>
      BY <1>6, <2>2 DEF TimerControl, rtVars, commandBridgeVars
    <3>3. QED
      BY <1>1, <1>2, <2>2, <3>1, <3>2
  <2>3. QED
    BY <2>1, <2>2
<1>7. CASE UNCHANGED <<handled, command_write_flag, command_out, XenoState>>
  BY <1>1, <1>2, <1>7
<1>8. QED
  BY <1>3, <1>4, <1>5, <1>6, <1>7
     DEF Next, RtStep, RtNext, NodeStep, NodeNext, UserStep, UserNext, vars, nodeVars, topicVars,
         rtVars, bufferVars, commandBridgeVars, UpdateIo, DataRead, DataWrite, Monitor, Logging,
         Crash, ControlCallback, DataCallback, TimerData, Spinning, PublishSetpoint, PublishCommand

\* What is reported, in every reachable state.
LEMMA ReportInvariance == Spec => [](Types /\ FSM!TypeOK /\ CommandsInOrder /\ ReportInv)
<1>1. Types /\ FSM!TypeOK /\ CommandsInOrder /\ ReportInv /\ [Next]_vars => ReportInv'
  BY ReportNext
<1>2. QED
  BY <1>1, ReportInit, TypeCorrect, TypeParts, CommandOrder, PTL DEF Spec

\* No state is sent before the first command was read.
THEOREM ReportsFollowCommands == Spec => []NoReportBeforeCommand
<1>1. ReportInv => NoReportBeforeCommand
  BY DEF ReportInv
<1>2. QED
  BY <1>1, ReportInvariance, PTL

\* The operator is never shown a state from before a command whose effect was
\* already shown, whatever the sizes of the buffers and the number of restarts.
THEOREM ReportsOrder == Spec => ReportsNeverGoBack
<1>1. ASSUME Types, FSM!TypeOK, CommandsInOrder, ReportInv, [Next]_vars
      PROVE  [XenoState'.after >= XenoState.after]_vars
  BY <1>1, ReportNext
<1>2. QED
  BY <1>1, ReportInvariance, PTL DEF Spec, ReportsNeverGoBack
-----------------------------------------------------------------------------
(***************************************************************************)
(* Setpoints and encoder messages.                                         *)
(***************************************************************************)

\* From the motors back to the topic every setpoint is newer than the one before
\* it, and the thread only answers after it received one.
SetpointInv ==
  /\ fpga <= ros_msg
  /\ ros_msg <= setpoints
  /\ \A i \in DOMAIN data_in : data_in[i] \in ros_msg + 1 .. setpoints
  /\ \A i \in DOMAIN Ros2Xeno : Ros2Xeno[i] \in ros_msg + 1 .. setpoints
  /\ \A i \in DOMAIN data_in, j \in DOMAIN Ros2Xeno : data_in[i] < Ros2Xeno[j]
  /\ data_write_flag => ros_msg > 0
  /\ data_out # <<>> => data_write_flag

\* No setpoint is on its way at the start.
LEMMA SetpointInit == Init => SetpointInv
BY DEF Init, BuffersInit, RtInit, NodeInit, SetpointInv

\* What a frame or a run of the state function does to the motors.
LEMMA MotorNext ==
  ASSUME MachineFacts, RunnerInv, RtStep
  PROVE  /\ fpga' = fpga \/ fpga' = ros_msg
         /\ UNCHANGED ros_msg \/ (DataRead /\ UNCHANGED fpga)
<1>1. CASE UpdateIo
  BY <1>1 DEF UpdateIo, RunnerInv, MotorInv
<1>2. CASE Monitor
  BY <1>2, Functions DEF Monitor, Rests, Prepares, Runs, Stops, Pauses, ioVars
<1>3. CASE DataRead
  BY <1>3 DEF DataRead
<1>4. CASE DataWrite \/ CommandRead \/ CommandWrite \/ Logging
  BY <1>4 DEF DataWrite, CommandRead, CommandWrite, Logging, ioVars
<1>5. QED
  BY <1>1, <1>2, <1>3, <1>4 DEF RtStep, RtNext

\* Every step keeps the order of the setpoints, and the motors never go back.
LEMMA SetpointNext ==
  ASSUME Types, MachineFacts, RunnerInv, SetpointInv, [Next]_vars
  PROVE  SetpointInv' /\ fpga' >= fpga
<1> USE DEF SetpointInv
<1> /\ fpga \in Nat
    /\ ros_msg \in Nat
    /\ setpoints \in Nat
    /\ data_in \in Seq(Nat)
    /\ Len(data_in) <= 1
    /\ Ros2Xeno \in Seq(Nat)
    /\ Len(Ros2Xeno) <= 1
  BY DEF Types, ThreadTypes, BufferTypes, NodeTypes, InSlots
<1>1. CASE RtStep
  <2>1. UNCHANGED <<setpoints, Ros2Xeno>>
    BY <1>1 DEF RtStep, nodeVars, topicVars
  <2>2. CASE DataRead /\ data_in # <<>>
    <3>1. /\ ros_msg' = data_in[1]
          /\ data_in' = <<>>
          /\ data_write_flag' = TRUE
          /\ UNCHANGED fpga
      BY <2>2 DEF DataRead
    <3>2. 1 \in DOMAIN data_in
      BY <2>2
    <3>3. QED
      BY <2>1, <3>1, <3>2
  <2>3. CASE UNCHANGED <<ros_msg, data_in>>
    <3>1. data_write_flag' => data_write_flag \/ (DataRead /\ data_in # <<>>)
      BY <1>1 DEF RtStep, RtNext, UpdateIo, DataRead, DataWrite, CommandRead, CommandWrite,
                  Monitor, Logging, dataBridgeVars
    <3>2. data_write_flag => data_write_flag'
      BY <1>1 DEF RtStep, RtNext, UpdateIo, DataRead, DataWrite, CommandRead, CommandWrite,
                  Monitor, Logging, dataBridgeVars
    <3>3. data_out' # <<>> => data_out # <<>> \/ data_write_flag
      BY <1>1 DEF RtStep, RtNext, UpdateIo, DataRead, DataWrite, CommandRead, CommandWrite,
                  Monitor, Logging, bufferVars
    <3>4. ~(DataRead /\ data_in # <<>>)
      BY <2>3 DEF DataRead
    <3>5. fpga' = fpga \/ fpga' = ros_msg
      BY <1>1, MotorNext
    <3>6. QED
      BY <2>1, <2>3, <3>1, <3>2, <3>3, <3>4, <3>5
  <2>4. QED
    BY <1>1, <2>2, <2>3, MotorNext
       DEF RtStep, RtNext, UpdateIo, DataRead, DataWrite, CommandRead, CommandWrite, Monitor,
           Logging, bufferVars
<1>2. CASE DataCallback /\ UNCHANGED rtVars
  <2>1. /\ Ros2Xeno # <<>>
        /\ Ros2Xeno' = <<>>
        /\ data_in' = Written(data_in, InSlots, Ros2Xeno[1])
        /\ UNCHANGED <<setpoints, data_out, ros_msg, fpga, data_write_flag>>
    BY <1>2 DEF DataCallback, rtVars, ioVars, dataBridgeVars
  <2>2. 1 \in DOMAIN Ros2Xeno /\ Ros2Xeno[1] \in Nat
    BY <2>1
  <2>3. \A i \in DOMAIN data_in' :
          \/ data_in'[i] = Ros2Xeno[1]
          \/ i \in DOMAIN data_in /\ data_in'[i] = data_in[i]
    BY <2>1, <2>2, WrittenItems
  <2>4. \A i \in DOMAIN data_in' : data_in'[i] \in ros_msg + 1 .. setpoints
    BY <2>2, <2>3
  <2>5. QED
    BY <2>1, <2>4
<1>3. CASE PublishSetpoint /\ UNCHANGED rtVars
  <2>1. /\ setpoints' = setpoints + 1
        /\ Ros2Xeno' = Arrives(Ros2Xeno, setpoints + 1)
        /\ UNCHANGED <<data_in, data_out, ros_msg, fpga, data_write_flag>>
    BY <1>3 DEF PublishSetpoint, rtVars, ioVars, dataBridgeVars, bufferVars
  <2>2. Ros2Xeno' = Ros2Xeno \/ (DOMAIN Ros2Xeno' = {1} /\ Ros2Xeno'[1] = setpoints + 1)
    BY <2>1, ArrivesType
  <2>3. QED
    BY <2>1, <2>2
<1>4. CASE Crash /\ UNCHANGED rtVars
  BY <1>4 DEF Crash, rtVars, ioVars, dataBridgeVars, bufferVars
<1>5. CASE /\ UNCHANGED <<setpoints, Ros2Xeno, data_in, ros_msg, fpga, data_write_flag>>
           /\ data_out' \in {<<>>, data_out}
  BY <1>5
<1>6. QED
  BY <1>1, <1>2, <1>3, <1>4, <1>5
     DEF Next, NodeStep, NodeNext, UserStep, UserNext, vars, nodeVars, topicVars, rtVars, ioVars,
         dataBridgeVars, bufferVars, Launch, ControlCallback, TimerData, TimerControl, Spinning,
         PublishCommand

\* The order of the setpoints, in every reachable state.
LEMMA SetpointInvariance == Spec => [](Types /\ MachineFacts /\ RunnerInv /\ SetpointInv)
<1>1. Types /\ MachineFacts /\ RunnerInv /\ SetpointInv /\ [Next]_vars => SetpointInv'
  BY SetpointNext
<1>2. QED
  BY <1>1, SetpointInit, TypeCorrect, TypeParts, RunnerInvariance, PTL DEF Spec

\* The motors never return to an older setpoint, whatever is lost on the way.
THEOREM SetpointOrder == Spec => SetpointsInOrder
<1>1. ASSUME Types, MachineFacts, RunnerInv, SetpointInv, [Next]_vars
      PROVE  [fpga' >= fpga]_vars
  BY <1>1, SetpointNext
<1>2. QED
  BY <1>1, SetpointInvariance, PTL DEF Spec, SetpointsInOrder

\* No encoder message is sent before the first ROS message was received.
THEOREM DataFollowsSetpoints == Spec => []NoDataBeforeSetpoint
<1>1. SetpointInv => NoDataBeforeSetpoint
  BY DEF SetpointInv, NoDataBeforeSetpoint
<1>2. QED
  BY <1>1, SetpointInvariance, PTL

\* A start of the node empties the buffer before anything in it can be published.
DataInv == NoOldData /\ \A i \in DOMAIN data_out : data_out[i].old = FALSE

\* Every step keeps that.
LEMMA DataNext ==
  ASSUME Types, DataInv, [Next]_vars
  PROVE  DataInv'
<1> USE DEF DataInv, NoOldData
<1> data_out \in Seq(Samples) /\ Xeno2Ros \in Samples
  BY DEF Types, BufferTypes, NodeTypes
<1>1. CASE DataWrite /\ UNCHANGED nodeVars
  <2> DEFINE msg == [age |-> xeno_age, old |-> FALSE]
  <2>1. msg \in Samples /\ msg.old = FALSE
    BY DEF Types, ThreadTypes, Samples
  <2>2. UNCHANGED data_out \/ data_out' = Written(data_out, DataSlots, msg)
    BY <1>1 DEF DataWrite
  <2> HIDE DEF msg
  <2>3. \A i \in DOMAIN data_out' : data_out'[i].old = FALSE
    BY <2>1, <2>2, WrittenItems
  <2>4. QED
    BY <1>1, <2>3 DEF nodeVars
<1>2. CASE TimerData
  <2>1. data_out # <<>> => Len(data_out) \in DOMAIN data_out
    OBVIOUS
  <2>2. QED
    BY <1>2, <2>1 DEF TimerData
<1>3. CASE Launch
  BY <1>3 DEF Launch
<1>4. CASE UNCHANGED <<data_out, Xeno2Ros>>
  BY <1>4
<1>5. QED
  BY <1>1, <1>2, <1>3, <1>4
     DEF Next, RtStep, RtNext, NodeStep, NodeNext, UserStep, UserNext, vars, nodeVars, bufferVars,
         UpdateIo, DataRead, CommandRead, CommandWrite, Monitor, Logging, Crash, ControlCallback,
         DataCallback, TimerControl, PublishSetpoint, PublishCommand

\* No encoder message from before a restart of the node is published after it.
THEOREM DataIsNew == Spec => []NoOldData
<1>1. Init => DataInv
  BY DEF Init, BuffersInit, NodeInit, DataInv, NoOldData, NoData
<1>2. Types /\ DataInv /\ [Next]_vars => DataInv'
  BY DataNext
<1>3. DataInv => NoOldData
  BY DEF DataInv
<1>4. QED
  BY <1>1, <1>2, <1>3, TypeCorrect, TypeParts, PTL DEF Spec
=============================================================================
