--------------------------- MODULE RemoteCapture ---------------------------
(***************************************************************************)
(* The receiver of the webcam stream (cam2image_vm2ros/remote_capture).    *)
(* The host sends each frame as base64 text in Chunks datagrams and a      *)
(* datagram "EOF", and "EOS" when it stops.  get_frame runs the io_service *)
(* in a thread of its own until nothing is left to do or the time-out has  *)
(* passed.  A receive that is still waiting when the time-out passes stays *)
(* registered; the next call registers another one, and all of them read   *)
(* into the same recv_buffer.                                              *)
(*                                                                         *)
(* A datagram is its number in the stream: frame f has the datagrams       *)
(* (f-1)*Period+1 .. f*Period, the last of them its "EOF".                 *)
(***************************************************************************)
EXTENDS Naturals, Sequences

CONSTANTS
  Frames,     \* frames the host sends before it ends the stream
  Chunks,     \* datagrams of base64 text per frame
  NetSlots    \* datagrams the socket of the node can hold

ASSUME CaptureAssumption ==
  Frames \in Nat \ {0} /\ Chunks \in Nat \ {0} /\ NetSlots \in Nat \ {0}

VARIABLES
  sent,          \* the number of datagrams the host has sent
  net,           \* datagrams in the socket of the node
  pc,            \* idle, run (in the io_service), joined (get_frame returns) or down
  pending,       \* receives that wait in the io_service
  completed,     \* received datagrams whose handler has not run
  recv_buffer,   \* the datagram that was written last
  frame_buffer,  \* the text received since the last "EOF"
  remote_buf,    \* the decoded image
  executed,      \* the call of run_for that runs has executed a handler
  webcam_down,
  fault          \* history: a datagram was lost or a call ran into the time-out

captureVars == <<sent, net, pc, pending, completed, recv_buffer, frame_buffer,
                 remote_buf, executed, webcam_down, fault>>

Period == Chunks + 1
EOS == Frames * Period + 1
IsEOF(d) == d # 0 /\ d < EOS /\ d % Period = 0

\* Number 0 stands for text that is no datagram: a piece of one, or the
\* bytes of two that were written over each other.
Scrap == 0

\* Marks are three bytes long, the last chunk of a frame is shorter than the others.
Size(d) == IF d = EOS \/ IsEOF(d) THEN "mark"
           ELSE IF d % Period = Chunks THEN "rest" ELSE "full"

Chunk(f, part) == (f - 1) * Period + part

WholeFrame(f) == [part \in 1 .. Chunks |-> Chunk(f, part)]

StartsWith(text, f) == Len(text) >= Chunks /\ SubSeq(text, 1, Chunks) = WholeFrame(f)

\* A matrix: frame 0 is the empty one, Frames + 1 one with a damaged picture;
\* turned and mirrored say how it differs from what was decoded; shown is
\* history, how often it was published.
Images == [frame : 0 .. Frames + 1, turned : BOOLEAN, mirrored : BOOLEAN,
           shown : {"never", "once", "again"}]
Decoded(f) == [frame |-> f, turned |-> FALSE, mirrored |-> FALSE, shown |-> "never"]
EmptyImage == Decoded(0)
Damaged == Decoded(Frames + 1)

\* What decoding the text may give.  The decoder of the picture stops at the
\* end of the first one; text that does not start with a whole frame gives a
\* damaged picture or none.
ImDecode(text) ==
  {Decoded(f) : f \in {g \in 1 .. Frames : StartsWith(text, g)}}
    \cup (IF \E f \in 1 .. Frames : text = WholeFrame(f) THEN {} ELSE {EmptyImage, Damaged})

CaptureInit ==
  /\ sent = 0
  /\ net = <<>>
  /\ pc = "idle"
  /\ pending = 0
  /\ completed = <<>>
  /\ recv_buffer = Scrap
  /\ frame_buffer = <<>>
  /\ remote_buf = EmptyImage
  /\ executed = FALSE
  /\ webcam_down = FALSE
  /\ fault = FALSE
-----------------------------------------------------------------------------
\* The host sends the next datagram; it arrives, or is lost on the way or
\* because the socket is full.
Send ==
  /\ sent < EOS
  /\ sent' = sent + 1
  /\ \/ Len(net) < NetSlots /\ net' = Append(net, sent + 1) /\ UNCHANGED fault
     \/ net' = net /\ fault' = TRUE
  /\ UNCHANGED <<pc, pending, completed, recv_buffer, frame_buffer, remote_buf,
                 executed, webcam_down>>

\* get_frame starts the thread, which registers a receive and enters run_for.
GetFrame ==
  /\ pc = "idle"
  /\ pc' = "run"
  /\ pending' = pending + 1
  /\ UNCHANGED <<sent, net, completed, recv_buffer, frame_buffer, remote_buf,
                 executed, webcam_down, fault>>

\* The io_service fills the buffer for the oldest receive; the handler runs later.
Receive ==
  /\ pc = "run" /\ pending > 0 /\ net # <<>>
  /\ pending' = pending - 1
  /\ net' = Tail(net)
  /\ recv_buffer' = Head(net)
  /\ completed' = Append(completed, Head(net))
  /\ UNCHANGED <<sent, pc, frame_buffer, remote_buf, executed, webcam_down, fault>>

\* A handler knows the length of its own datagram and reads the shared buffer.
ReceivedStr == IF Size(Head(completed)) = Size(recv_buffer) THEN recv_buffer ELSE Scrap

EndOfStream == ReceivedStr = EOS /\ webcam_down' = TRUE
               /\ UNCHANGED <<pending, frame_buffer, remote_buf>>

\* The text of a frame is kept after it was decoded.
EndOfFrameKeepsText ==
  /\ IsEOF(ReceivedStr)
  /\ IF frame_buffer = <<>> THEN remote_buf' = remote_buf
                            ELSE remote_buf' \in ImDecode(frame_buffer)
  /\ UNCHANGED <<pending, frame_buffer, webcam_down>>

EndOfFrame ==
  /\ IsEOF(ReceivedStr)
  /\ IF frame_buffer = <<>> THEN remote_buf' = remote_buf
                            ELSE remote_buf' \in ImDecode(frame_buffer)
  /\ frame_buffer' = <<>>
  /\ UNCHANGED <<pending, webcam_down>>

MoreText ==
  /\ ReceivedStr # EOS /\ ~IsEOF(ReceivedStr)
  /\ frame_buffer' = Append(frame_buffer, ReceivedStr)
  /\ pending' = pending + 1
  /\ UNCHANGED <<remote_buf, webcam_down>>

HandleReceive ==
  /\ pc = "run" /\ completed # <<>>
  /\ completed' = Tail(completed)
  /\ executed' = TRUE
  /\ EndOfStream \/ EndOfFrame \/ MoreText
  /\ UNCHANGED <<sent, net, pc, recv_buffer, fault>>

\* run_for has nothing left to do.
RunReturns ==
  /\ pc = "run" /\ pending = 0 /\ completed = <<>>
  /\ pc' = "joined"
  /\ executed' = FALSE
  /\ UNCHANGED <<sent, net, pending, completed, recv_buffer, frame_buffer, remote_buf,
                 webcam_down, fault>>

\* run in place of run_for: the call is never given up.
RunWithoutTimeOut == FALSE /\ UNCHANGED captureVars

\* run_for leaves with work outstanding.  A receive that completed during the
\* wait has its handler run by the same wait, unless others are before it.
RunTimesOut ==
  /\ pc = "run" /\ (pending > 0 \/ completed # <<>>)
  /\ executed \/ completed = <<>>
  /\ pc' = "joined"
  /\ webcam_down' = (webcam_down \/ ~executed)
  /\ executed' = FALSE
  /\ fault' = TRUE
  /\ UNCHANGED <<sent, net, pending, completed, recv_buffer, frame_buffer, remote_buf>>

CaptureNext == Receive \/ HandleReceive \/ RunReturns \/ RunTimesOut
=============================================================================
