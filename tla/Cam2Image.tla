----------------------------- MODULE Cam2Image -----------------------------
(***************************************************************************)
(* The camera node (cam2image_vm2ros/cam2image): a timer takes an image    *)
(* from the stream or from the local camera, turns it and publishes it on  *)
(* /image.  The node has one thread, so nothing else of it runs while      *)
(* get_frame waits.  The matrix from get_frame is the one RemoteCapture    *)
(* keeps: flipping and rotating it in place changes the next call's too.   *)
(***************************************************************************)
EXTENDS RemoteCapture

CONSTANTS
  Rotate,     \* the parameter "rotate"
  TopicDepth, \* messages a subscription of the vision nodes keeps
  MaxFlips    \* bound on the messages on flip_image

ASSUME CameraAssumption ==
  Rotate \in BOOLEAN /\ TopicDepth \in Nat \ {0} /\ MaxFlips \in Nat

VARIABLES
  remote_mode,     \* the parameter: stream or local camera
  is_flipped,
  image_topic,     \* images object_center has not taken
  flips            \* messages on flip_image so far

cameraVars == <<remote_mode, is_flipped, image_topic, flips>>

\* A subscription that keeps the last messages only.
KeepLast(topic, msg) ==
  LET all == Append(topic, msg)
  IN  IF Len(all) > TopicDepth THEN Tail(all) ELSE all

\* A flipped picture is not rotated.
TurnedOrMirrored(frame) ==
  [frame EXCEPT !.mirrored = (@ # is_flipped), !.turned = (@ # (Rotate /\ ~is_flipped)),
                !.shown = IF @ = "never" THEN "once" ELSE "again"]

Turned(frame) ==
  [frame EXCEPT !.mirrored = (@ # is_flipped), !.turned = (@ # Rotate),
                !.shown = IF @ = "never" THEN "once" ELSE "again"]

CameraInit ==
  /\ CaptureInit
  /\ remote_mode \in BOOLEAN
  /\ is_flipped = FALSE
  /\ image_topic = <<>>
  /\ flips = 0

Publish(frame) == image_topic' = KeepLast(image_topic, frame)
-----------------------------------------------------------------------------
\* The timer in remote mode, up to the wait for the thread.
TimerGetFrame == remote_mode /\ GetFrame /\ UNCHANGED cameraVars

\* The rest of the timer callback after get_frame has returned.
TimerShutdown ==
  /\ pc = "joined" /\ webcam_down
  /\ pc' = "down"
  /\ UNCHANGED <<remote_buf, image_topic>>

TimerEmpty ==
  /\ pc = "joined" /\ ~webcam_down /\ remote_buf.frame = 0
  /\ pc' = "idle"
  /\ UNCHANGED <<remote_buf, image_topic>>

TimerPublish ==
  /\ pc = "joined" /\ ~webcam_down /\ remote_buf.frame # 0
  /\ pc' = "idle"
  /\ remote_buf' = Turned(remote_buf)
  /\ Publish(Turned(remote_buf))

TimerReturns ==
  /\ TimerShutdown \/ TimerEmpty \/ TimerPublish
  /\ UNCHANGED <<sent, net, pending, completed, recv_buffer, frame_buffer, executed,
                 webcam_down, fault, remote_mode, is_flipped, flips>>

\* The timer with the local camera, which has an image of its own each time, or none.
TimerLocal ==
  /\ ~remote_mode /\ pc = "idle"
  /\ sent < Frames
  /\ sent' = sent + 1
  /\ Publish(Turned(Decoded(sent + 1)))
  /\ UNCHANGED <<net, pc, pending, completed, recv_buffer, frame_buffer, remote_buf,
                 executed, webcam_down, fault, remote_mode, is_flipped, flips>>

\* The callback of flip_image, between two timer callbacks.  A message with the
\* mode that is set already changes nothing.
FlipImage ==
  /\ pc = "idle" /\ flips < MaxFlips
  /\ flips' = flips + 1
  /\ is_flipped' = ~is_flipped
  /\ UNCHANGED <<captureVars, remote_mode, image_topic>>

\* The host sends to a node in remote mode.
HostSends == remote_mode /\ Send /\ UNCHANGED cameraVars

CameraStep ==
  \/ TimerGetFrame
  \/ CaptureNext /\ UNCHANGED cameraVars
  \/ TimerReturns
  \/ TimerLocal
=============================================================================
