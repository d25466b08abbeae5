---------------------------- MODULE VisionSystem ----------------------------
(***************************************************************************)
(* The chain from the host's webcam to the wheel setpoints: cam2image,     *)
(* object_center and sequence_controller, each a process of its own,       *)
(* joined by the topics /image and light_position.                         *)
(***************************************************************************)
EXTENDS Cam2Image, SequenceController

CONSTANTS
  Scenes     \* what the webcam may see: per frame the pixel of the object in an
             \* upright picture, -1 for none

ASSUME VisionAssumption ==
  /\ Width \in Nat \ {0} /\ Gain \in Int
  /\ Scenes \subseteq [1 .. Frames -> -1 .. Width - 1]

VARIABLES
  scene,     \* what the webcam sees, frame by frame
  found      \* where the object really is in the last picture with the object whose
             \* position reached the controller, 0 before the first (history)

vars == <<captureVars, cameraVars, steerVars, scene, found>>

Init == CameraInit /\ SteerInit /\ scene \in Scenes /\ found = 0

\* Pixel x of a row read from the other side.
Reflected(x) == IF x = -1 THEN -1 ELSE Width - 1 - x

\* The centre of the object's pixels in an image; the camera hangs upside
\* down, so a picture that was not turned, and one that was mirrored, has them
\* on the other side.  A damaged picture may show anything.
ImageCenter(image) ==
  IF image.frame \notin 1 .. Frames THEN -1 .. Width - 1
  ELSE IF image.turned # image.mirrored THEN {scene[image.frame]}
       ELSE {Reflected(scene[image.frame])}

\* Where the object is in an upright picture, -1 for no object; after a fault
\* the pictures are not compared with the scene.
PlaceOfObject(image) ==
  IF fault \/ image.frame \notin 1 .. Frames THEN -1
  ELSE IF image.mirrored THEN Reflected(scene[image.frame])
  ELSE scene[image.frame]

\* object_center: every image gives one position.
ImageCallback ==
  /\ image_topic # <<>>
  /\ image_topic' = Tail(image_topic)
  /\ \E x \in ImageCenter(Head(image_topic)) :
       light_topic' = KeepLast(light_topic, Point(x, PlaceOfObject(Head(image_topic))))
  /\ UNCHANGED <<captureVars, remote_mode, is_flipped, flips,
                 light_pos, setpoint, scene, found>>

\* The controller takes a position.
TakePosition ==
  /\ UpdateLightPos
  /\ found' = IF fault THEN 0
              ELSE IF Head(light_topic).place = -1 THEN found ELSE Head(light_topic).place
  /\ UNCHANGED <<captureVars, cameraVars, scene>>

\* The controller's timer.
Steer == SteerTimer /\ UNCHANGED <<captureVars, cameraVars, scene, found>>

ControllerStep == TakePosition \/ Steer

CameraNodeStep == CameraStep /\ UNCHANGED <<steerVars, scene, found>>

Next ==
  \/ HostSends /\ UNCHANGED <<steerVars, scene, found>>
  \/ FlipImage /\ UNCHANGED <<steerVars, scene, found>>
  \/ CameraNodeStep
  \/ ImageCallback
  \/ ControllerStep

Spec == Init /\ [][Next]_vars

\* The timer of the camera node and the time-out of run_for come due, the
\* io_service runs what is ready, and the executors of the other two nodes
\* serve their subscriptions and timers.  Nothing is assumed of the host.
Fairness ==
  /\ WF_vars(CameraNodeStep)
  /\ WF_vars(ImageCallback)
  /\ WF_vars(TakePosition)
  /\ WF_vars(Steer)

FairSpec == Spec /\ Fairness
-----------------------------------------------------------------------------
Points == [x : -1 .. Width - 1, place : -1 .. Width - 1]

\* The variables have their types; there is one datagram per number sent, and
\* the topics keep no more than their depth.
TypeOK ==
  /\ sent \in 0 .. EOS
  /\ net \in Seq(1 .. EOS) /\ Len(net) <= NetSlots
  /\ pc \in {"idle", "run", "joined", "down"}
  /\ pending \in Nat
  /\ completed \in Seq(1 .. EOS)
  /\ recv_buffer \in 0 .. EOS
  /\ frame_buffer \in Seq(0 .. EOS)
  /\ remote_buf \in Images
  /\ executed \in BOOLEAN
  /\ webcam_down \in BOOLEAN
  /\ fault \in BOOLEAN
  /\ remote_mode \in BOOLEAN
  /\ is_flipped \in BOOLEAN
  /\ image_topic \in Seq(Images) /\ Len(image_topic) <= TopicDepth
  /\ flips \in 0 .. MaxFlips
  /\ light_topic \in Seq(Points) /\ Len(light_topic) <= TopicDepth
  /\ light_pos \in 0 .. Width - 1
  /\ setpoint \in Int \X Int
  /\ scene \in Scenes
  /\ found \in 0 .. Width - 1

\* While no datagram is lost and no call runs into the time-out, frame after
\* frame is decoded whole, each once, and each is published once before the
\* next, turned as the parameter says, although the frames come through one
\* buffer that nothing empties between two calls (handle_receive, get_frame,
\* timerCallback).
EachFrameOnce ==
  [][~fault' /\ remote_mode /\ remote_buf' # remote_buf =>
       \/ /\ remote_buf'.shown = "never"
          /\ remote_buf'.frame = remote_buf.frame + 1
          /\ remote_buf = EmptyImage \/ remote_buf.shown = "once"
       \/ /\ remote_buf'.shown = "once"
          /\ remote_buf'.frame = remote_buf.frame
          /\ remote_buf'.turned = Rotate]_vars

\* An image is turned as the parameter says when it is published for the first
\* time, lost datagrams and time-outs or not: only an image that is published
\* again, because a call returned without a new one, can be the wrong way round
\* (timerCallback turns the matrix that get_frame keeps).
OnlyRepeatsAreWrong ==
  \A i \in 1 .. Len(image_topic) :
    image_topic[i].shown = "once" => image_topic[i].turned = Rotate

\* While the stream keeps up there is one registered receive or ready handler
\* during a call and none between two calls; only a time-out leaves one behind,
\* which then shares the buffer with the next call's (add_handler).
OneReceive ==
  ~fault => /\ pending + Len(completed) <= 1
            /\ pc # "run" => pending = 0 /\ completed = <<>>

\* Without losses and time-outs the velocities that the controller publishes
\* are those for the place where the object really is in the last picture with
\* the object that reached it, as that picture was mirrored: neither an earlier
\* place nor a later "not found" steers (imageCallback, update_light_pos and the
\* controller's timer).  Before the first such picture it steers by 0.
SteersByTheObject ==
  [][~fault /\ Rotate /\ setpoint' # setpoint =>
       setpoint' = <<Steering(found), - Steering(found)>>]_vars

\* A node in remote mode ends: the stream ends, or it falls silent and a whole
\* time-out passes without a datagram, even if "EOS" is lost (run_receiver).
NodeEnds == remote_mode ~> pc = "down"

\* After the camera node has ended the robot is not stopped: the velocities
\* settle at the steering by the last position (sequence_controller).
DrivesOn ==
  pc = "down" ~> (image_topic = <<>> /\ light_topic = <<>>
                  /\ setpoint = <<Steering(light_pos), - Steering(light_pos)>>)
=============================================================================
