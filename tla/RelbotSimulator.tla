-------------------------- MODULE RelbotSimulator --------------------------
(***************************************************************************)
(* The simulator node (relbot_simulator): callbacks for setpoints and      *)
(* pictures, a timer for the dynamics and one for the moving camera.  The  *)
(* plant's run is kept (Calculate, with its finish time); where its states *)
(* are after a step is chosen among Poses.                                 *)
(***************************************************************************)
EXTENDS Rational, SubImage

CONSTANTS
  FinishSteps,   \* steps until the finish time of the plant (550 s of 1 ms)
  Poses,         \* forward position x, and heading as the pixels it pans
  Pictures,      \* sizes of the pictures on /image
  Velocities,    \* setpoints, in rad/s and m/s
  Geometry       \* radius and distance of the wheels, and rad/s at full duty

\* The camera's pictures are at least as wide as they are high.
ASSUME SimulatorAssumption ==
  /\ FinishSteps \in Nat
  /\ \A pose \in Poses : pose.x \in Rationals /\ pose.pan \in Rationals
  /\ \A picture \in Pictures :
       picture.width \in Nat /\ picture.height \in 1 .. picture.width

NoPicture == [width |-> 0, height |-> 0]

VARIABLES
  useTwistCmd,     \* the parameter
  input_vector,    \* duty cycles left and right
  plant,           \* run state and time of the plant, in steps, and its pose
  output_vector,   \* the pose the node knows
  input_image,
  robot_pose,      \* the pose published last
  view,            \* picture and part of it published last
  spinning,        \* no callback has thrown: the node runs
  ticks            \* history: callbacks of the dynamics timer, up to FinishSteps + 2

simVars == <<useTwistCmd, input_vector, plant, output_vector, input_image,
             robot_pose, view, spinning, ticks>>

\* Where the robot is, and the time it was there (history).
At(pose, time) == [pose |-> pose, time |-> time]
Origin == [x |-> Zero, pan |-> Zero]

\* The constructor initialises the plant.
SimInit ==
  /\ useTwistCmd \in BOOLEAN
  /\ input_vector = <<Zero, Zero>>
  /\ plant = [state |-> "mainrun", time |-> 0, pose |-> Origin]
  /\ output_vector = At(Origin, 0)
  /\ input_image = NoPicture
  /\ robot_pose = At(Origin, 0)
  /\ view = [picture |-> NoPicture, crop |-> [x |-> 0, y |-> 0, dim |-> 0]]
  /\ spinning = TRUE
  /\ ticks = 0
-----------------------------------------------------------------------------
Duty(velocity) == velocity (/) Geometry.duty

MotorSetpoint ==
  /\ ~useTwistCmd
  /\ \E side \in 1 .. 2, v \in Velocities : input_vector' = [input_vector EXCEPT ![side] = Duty(v)]
  /\ UNCHANGED <<useTwistCmd, plant, output_vector, input_image, robot_pose, view, spinning, ticks>>

TwistCallback ==
  /\ useTwistCmd
  /\ \E linear, angular \in Velocities :
       LET turn == (angular (.) Geometry.base) (/) Whole(2)
       IN  input_vector' = <<Duty(Neg((linear (-) turn) (/) Geometry.radius)),
                             Duty((linear (+) turn) (/) Geometry.radius)>>
  /\ UNCHANGED <<useTwistCmd, plant, output_vector, input_image, robot_pose, view, spinning, ticks>>

WebcamCallback ==
  /\ \E picture \in Pictures : input_image' = picture
  /\ UNCHANGED <<useTwistCmd, input_vector, plant, output_vector, robot_pose, view, spinning, ticks>>

\* Calculate: a step while it ends before the finish time, and finished when
\* the next one would not.
Due(time) == time <= FinishSteps - 1
Ends(time) == time >= FinishSteps

Calculate ==
  IF plant.state = "mainrun" /\ Due(plant.time)
  THEN \E pose \in Poses :
         LET time == plant.time + 1
         IN  /\ plant' = [state |-> IF Ends(time) THEN "finished" ELSE "mainrun",
                          time |-> time, pose |-> pose]
             /\ output_vector' = At(pose, time)
  ELSE plant' = [plant EXCEPT !.state = "finished"] /\ UNCHANGED output_vector

\* The pose is published before the step.
DynamicsTimerPublishesFirst ==
  /\ Calculate
  /\ robot_pose' = output_vector
  /\ ticks' = IF ticks < FinishSteps + 2 THEN ticks + 1 ELSE ticks
  /\ UNCHANGED <<useTwistCmd, input_vector, input_image, view, spinning>>

\* The timer of the dynamics publishes whatever the plant did.
DynamicsTimer ==
  /\ Calculate
  /\ robot_pose' = output_vector'
  /\ ticks' = IF ticks < FinishSteps + 2 THEN ticks + 1 ELSE ticks
  /\ UNCHANGED <<useTwistCmd, input_vector, input_image, view, spinning>>

\* cv::resize to a window of no pixels throws before anything is published, and
\* nothing catches what a callback throws.
ImageTimer ==
  /\ input_image # NoPicture
  /\ LET w == input_image.width
         h == input_image.height
         center_x == Truncated(Whole(w \div 2) (-) output_vector.pose.pan)
         dim == Truncated(Ratio(h, 2) (-) (output_vector.pose.x (.) Ratio(h, 10)))
     IN  IF Window(h) = 0
         THEN spinning' = FALSE /\ UNCHANGED view
         ELSE /\ view' = [picture |-> input_image, crop |-> SubImage(w, h, center_x, h \div 2, dim)]
              /\ UNCHANGED spinning
  /\ UNCHANGED <<useTwistCmd, input_vector, plant, output_vector, input_image, robot_pose, ticks>>

SimNext ==
  /\ spinning
  /\ MotorSetpoint \/ TwistCallback \/ WebcamCallback \/ DynamicsTimer \/ ImageTimer
-----------------------------------------------------------------------------
\* What is published as the camera's picture has pixels, and shows a square inside
\* of the picture that came, wherever the robot has driven or turned to and whatever
\* picture came last (image_stream_timer_callback reads the pose and the picture
\* that other callbacks left, CreateCVSubimage pushes the square back into the
\* picture and resizes it to the window).
CropInside ==
  view.picture # NoPicture =>
    /\ Window(view.picture.height) >= 1
    /\ Inside(view.crop, view.picture.width, view.picture.height)

\* Every callback of the dynamics timer takes the plant one step further up to
\* the finish time and none after it: from then on the node goes on publishing
\* the pose the robot had at that time, whatever setpoints arrive
\* (dynamics_timer_callback does not look at IsFinished).
PoseOfTheTime ==
  /\ robot_pose.time = (IF ticks < FinishSteps THEN ticks ELSE FinishSteps)
  /\ robot_pose = At(plant.pose, plant.time)
=============================================================================
