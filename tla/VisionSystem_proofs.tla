------------------------ MODULE VisionSystem_proofs ------------------------
(***************************************************************************)
(* Proofs about the vision chain, for any number of frames and datagrams   *)
(* per frame, any size of the socket and depth of the topics, and whatever *)
(* is lost.                                                                *)
(***************************************************************************)
EXTENDS VisionSystem, TLAPS

-----------------------------------------------------------------------------
(***************************************************************************)
(* Types.                                                                  *)
(***************************************************************************)

\* What the constants are.
LEMMA Constants ==
  /\ Frames \in Nat \ {0} /\ Chunks \in Nat \ {0} /\ NetSlots \in Nat \ {0}
  /\ TopicDepth \in Nat \ {0} /\ MaxFlips \in Nat /\ Rotate \in BOOLEAN
  /\ Width \in Nat \ {0} /\ Gain \in Int
  /\ Scenes \subseteq [1 .. Frames -> -1 .. Width - 1]
BY CaptureAssumption, CameraAssumption, VisionAssumption
   DEF CaptureAssumption, CameraAssumption, VisionAssumption

\* The product of two natural numbers is one.
LEMMA ProductNat == ASSUME NEW a \in Nat, NEW b \in Nat PROVE a * b \in Nat
OBVIOUS

\* The product of two integers is one.
LEMMA ProductInt == ASSUME NEW a \in Int, NEW b \in Int PROVE a * b \in Int
OBVIOUS

\* A factor of at least one does not make it smaller.
LEMMA ProductGrows == ASSUME NEW a \in Nat, NEW b \in Nat, b >= 1 PROVE a <= a * b
<1>1. a * b = a + (a * (b - 1))
  OBVIOUS
<1>2. a * (b - 1) \in Nat
  BY ProductNat
<1>3. QED
  BY <1>1, <1>2

\* The number of the last datagram.
LEMMA LastDatagram == EOS \in Nat /\ EOS >= 1 /\ Period \in Nat /\ Period >= 2
<1>1. Period \in Nat /\ Period >= 2
  BY Constants DEF Period
<1>2. Frames * Period \in Nat
  BY <1>1, Constants, ProductNat
<1>3. QED
  BY <1>1, <1>2 DEF EOS

\* The empty sequence is one over every set.
LEMMA EmptySeqType == \A S : <<>> \in Seq(S)
OBVIOUS

\* What is left when the first element is taken.
LEMMA TailType ==
  ASSUME NEW S, NEW seq \in Seq(S), Len(seq) > 0
  PROVE  /\ Head(seq) \in S /\ Head(seq) = seq[1]
         /\ Tail(seq) \in Seq(S) /\ Len(Tail(seq)) = Len(seq) - 1
         /\ \A i \in 1 .. Len(Tail(seq)) : Tail(seq)[i] = seq[i + 1] /\ i + 1 \in 1 .. Len(seq)
<1>1. seq # <<>>
  OBVIOUS
<1>2. QED
  BY <1>1

\* A topic that keeps the last messages holds old ones and the new one.
LEMMA KeepLastType ==
  ASSUME NEW S, NEW topic \in Seq(S), Len(topic) <= TopicDepth, NEW msg \in S
  PROVE  /\ KeepLast(topic, msg) \in Seq(S)
         /\ Len(KeepLast(topic, msg)) <= TopicDepth
         /\ \A i \in 1 .. Len(KeepLast(topic, msg)) :
              \/ KeepLast(topic, msg)[i] = msg
              \/ \E j \in 1 .. Len(topic) : KeepLast(topic, msg)[i] = topic[j]
<1> DEFINE all == Append(topic, msg)
<1>1. /\ all \in Seq(S) /\ Len(all) = Len(topic) + 1
      /\ \A i \in 1 .. Len(all) : all[i] = msg \/ \E j \in 1 .. Len(topic) : all[i] = topic[j]
  OBVIOUS
<1> HIDE DEF all
<1>a. Len(topic) \in Nat
  OBVIOUS
<1>2. /\ Tail(all) \in Seq(S) /\ Len(Tail(all)) = Len(topic)
      /\ \A i \in 1 .. Len(Tail(all)) : Tail(all)[i] = all[i + 1] /\ i + 1 \in 1 .. Len(all)
  BY TailType, <1>1, <1>a
<1>3. CASE Len(all) > TopicDepth
  <2>1. KeepLast(topic, msg) = Tail(all)
    BY <1>3 DEF KeepLast, all
  <2>2. QED
    BY <2>1, <1>1, <1>2, <1>a, Constants
<1>4. CASE ~(Len(all) > TopicDepth)
  <2>1. KeepLast(topic, msg) = all
    BY <1>4 DEF KeepLast, all
  <2>2. QED
    BY <2>1, <1>1, <1>4, <1>a, Constants
<1>5. QED
  BY <1>3, <1>4

\* Where the control stands, and the flags.
ModeTypes ==
  /\ pc \in {"idle", "run", "joined", "down"}
  /\ executed \in BOOLEAN
  /\ webcam_down \in BOOLEAN
  /\ fault \in BOOLEAN
  /\ remote_mode \in BOOLEAN
  /\ is_flipped \in BOOLEAN

\* The datagrams on their way to the decoder.
StreamTypes ==
  /\ sent \in 0 .. EOS
  /\ net \in Seq(1 .. EOS) /\ Len(net) <= NetSlots
  /\ pending \in Nat
  /\ completed \in Seq(1 .. EOS)
  /\ recv_buffer \in 0 .. EOS
  /\ frame_buffer \in Seq(0 .. EOS)

\* The pictures and what is found in them.
PictureTypes ==
  /\ remote_buf \in Images
  /\ image_topic \in Seq(Images) /\ Len(image_topic) <= TopicDepth
  /\ flips \in 0 .. MaxFlips
  /\ light_topic \in Seq(Points) /\ Len(light_topic) <= TopicDepth
  /\ light_pos \in 0 .. Width - 1
  /\ setpoint \in Int \X Int
  /\ scene \in Scenes
  /\ found \in 0 .. Width - 1

\* The type invariant is these parts.
LEMMA TypeParts == TypeOK <=> ModeTypes /\ StreamTypes /\ PictureTypes
BY DEF TypeOK, ModeTypes, StreamTypes, PictureTypes

\* A decoded picture, the empty one and a damaged one are pictures.
LEMMA PictureKinds ==
  /\ EmptyImage \in Images /\ Damaged \in Images
  /\ \A f \in 0 .. Frames + 1 : Decoded(f) \in Images
BY Constants DEF EmptyImage, Damaged, Decoded, Images

\* Decoding gives pictures.
LEMMA DecodeType == \A text : ImDecode(text) \subseteq Images
BY PictureKinds, Constants DEF ImDecode

\* Turning a picture gives a picture.
LEMMA TurnedType ==
  ASSUME NEW frame \in Images, is_flipped \in BOOLEAN
  PROVE  /\ Turned(frame) \in Images
         /\ Turned(frame).frame = frame.frame
         /\ Turned(frame).turned = (frame.turned # Rotate)
         /\ Turned(frame).mirrored = (frame.mirrored # is_flipped)
         /\ Turned(frame).shown = (IF frame.shown = "never" THEN "once" ELSE "again")
BY Zenon, Constants DEF Turned, Images

\* The types hold at the start.
LEMMA TypesInit == Init => TypeOK
<1> SUFFICES ASSUME Init PROVE ModeTypes /\ StreamTypes /\ PictureTypes
  BY TypeParts
<1>1. ModeTypes
  BY Zenon DEF Init, CameraInit, CaptureInit, ModeTypes
<1>2. StreamTypes
  BY LastDatagram, Constants DEF Init, CameraInit, CaptureInit, StreamTypes, Scrap
<1>3. PictureTypes
  <2>1. 0 \in 0 .. Width - 1
    BY Constants
  <2>2. QED
    BY <2>1, PictureKinds, Constants
       DEF Init, CameraInit, CaptureInit, SteerInit, PictureTypes
<1>4. QED
  BY <1>1, <1>2, <1>3

\* Every step keeps the types of the control.
LEMMA ModeStep == ASSUME TypeOK, Next PROVE ModeTypes'
<1> USE DEF captureVars, cameraVars, steerVars
<1>0. ModeTypes
  BY TypeParts
<1>1. CASE HostSends /\ UNCHANGED steerVars
  BY <1>0, <1>1, Zenon DEF HostSends, Send, ModeTypes
<1>2. CASE FlipImage /\ UNCHANGED steerVars
  BY <1>0, <1>2, Zenon DEF FlipImage, ModeTypes
<1>3. CASE TimerGetFrame
  BY <1>0, <1>3, Zenon DEF TimerGetFrame, GetFrame, ModeTypes
<1>4. CASE Receive /\ UNCHANGED cameraVars
  BY <1>0, <1>4, Zenon DEF Receive, ModeTypes
<1>5. CASE HandleReceive /\ UNCHANGED cameraVars
  BY <1>0, <1>5, Zenon DEF HandleReceive, EndOfStream, EndOfFrame, MoreText, ModeTypes
<1>6. CASE (RunReturns \/ RunTimesOut) /\ UNCHANGED cameraVars
  BY <1>0, <1>6, Zenon DEF RunReturns, RunTimesOut, ModeTypes
<1>7. CASE TimerReturns
  BY <1>0, <1>7, Zenon DEF TimerReturns, TimerShutdown, TimerEmpty, TimerPublish, ModeTypes
<1>8. CASE TimerLocal
  BY <1>0, <1>8, Zenon DEF TimerLocal, ModeTypes
<1>9. CASE ImageCallback
  BY <1>0, <1>9, Zenon DEF ImageCallback, ModeTypes
<1>10. CASE ControllerStep
  BY <1>0, <1>10, Zenon DEF ControllerStep, TakePosition, Steer, ModeTypes
<1>11. QED
  BY <1>1, <1>2, <1>3, <1>4, <1>5, <1>6, <1>7, <1>8, <1>9, <1>10
     DEF Next, CameraNodeStep, CameraStep, CaptureNext

\* The handler reads a datagram or scrap.
LEMMA ReceivedType ==
  ASSUME TypeOK, completed # <<>>
  PROVE  /\ ReceivedStr \in 0 .. EOS
         /\ completed \in Seq(1 .. EOS) /\ Len(completed) > 0
         /\ Head(completed) \in 1 .. EOS
         /\ Tail(completed) \in Seq(1 .. EOS) /\ Len(Tail(completed)) = Len(completed) - 1
<1>1. completed \in Seq(1 .. EOS) /\ Len(completed) > 0
  BY DEF TypeOK
<1>2. ReceivedStr \in 0 .. EOS
  BY LastDatagram DEF TypeOK, ReceivedStr, Scrap
<1>3. QED
  BY <1>1, <1>2, TailType

\* Every step keeps the types of the datagrams.
LEMMA StreamStep == ASSUME TypeOK, Next PROVE StreamTypes'
<1> USE DEF captureVars, cameraVars, steerVars
<1>0. StreamTypes
  BY TypeParts
<1>1. CASE HostSends /\ UNCHANGED steerVars
  <2>1. Send
    BY <1>1 DEF HostSends
  <2>2. sent' \in 0 .. EOS /\ sent + 1 \in 1 .. EOS
    BY <1>0, <2>1, LastDatagram DEF Send, StreamTypes
  <2>3. net' \in Seq(1 .. EOS) /\ Len(net') <= NetSlots
    <3>1. net \in Seq(1 .. EOS) /\ Len(net) <= NetSlots /\ NetSlots \in Nat
      BY <1>0, Constants DEF StreamTypes
    <3>2. CASE Len(net) < NetSlots /\ net' = Append(net, sent + 1)
      BY <3>1, <3>2, <2>2
    <3>3. CASE net' = net
      BY <3>1, <3>3
    <3>4. QED
      BY <2>1, <3>2, <3>3 DEF Send
  <2>4. QED
    BY <1>0, <2>1, <2>2, <2>3 DEF Send, StreamTypes
<1>2. CASE FlipImage /\ UNCHANGED steerVars
  BY <1>0, <1>2 DEF FlipImage, StreamTypes
<1>3. CASE TimerGetFrame
  BY <1>0, <1>3 DEF TimerGetFrame, GetFrame, StreamTypes
<1>4. CASE Receive /\ UNCHANGED cameraVars
  <2>1. net \in Seq(1 .. EOS) /\ Len(net) > 0
    BY <1>0, <1>4 DEF Receive, StreamTypes
  <2>2. Head(net) \in 1 .. EOS /\ Tail(net) \in Seq(1 .. EOS) /\ Len(Tail(net)) = Len(net) - 1
    BY <2>1, TailType
  <2>3. completed' \in Seq(1 .. EOS)
    BY <1>0, <1>4, <2>2 DEF Receive, StreamTypes
  <2>4. pending' \in Nat /\ recv_buffer' \in 0 .. EOS
    BY <1>0, <1>4, <2>2, LastDatagram DEF Receive, StreamTypes
  <2>5. net' \in Seq(1 .. EOS) /\ Len(net') <= NetSlots
    BY <1>0, <1>4, <2>1, <2>2, Constants DEF Receive, StreamTypes
  <2>6. QED
    BY <1>0, <1>4, <2>3, <2>4, <2>5 DEF Receive, StreamTypes
<1>5. CASE HandleReceive /\ UNCHANGED cameraVars
  <2>1. completed' \in Seq(1 .. EOS) /\ ReceivedStr \in 0 .. EOS
    BY <1>5, ReceivedType DEF HandleReceive
  <2>2. CASE EndOfStream \/ EndOfFrame
    <3>1. frame_buffer' \in Seq(0 .. EOS) /\ pending' = pending
      BY <1>0, <2>2, EmptySeqType, Zenon DEF EndOfStream, EndOfFrame, StreamTypes
    <3>2. QED
      BY <1>0, <1>5, <2>1, <3>1 DEF HandleReceive, StreamTypes
  <2>3. CASE MoreText
    BY <1>0, <1>5, <2>1, <2>3 DEF HandleReceive, MoreText, StreamTypes
  <2>4. QED
    BY <1>5, <2>2, <2>3 DEF HandleReceive
<1>6. CASE (RunReturns \/ RunTimesOut) /\ UNCHANGED cameraVars
  BY <1>0, <1>6 DEF RunReturns, RunTimesOut, StreamTypes
<1>7. CASE TimerReturns
  BY <1>0, <1>7 DEF TimerReturns, StreamTypes
<1>8. CASE TimerLocal
  <2>1. Frames <= EOS
    <3>1. Frames <= Frames * Period
      BY Constants, LastDatagram, ProductGrows
    <3>2. QED
      BY <3>1, Constants, LastDatagram, ProductNat DEF EOS
  <2>2. sent' \in 0 .. EOS
    BY <1>0, <1>8, <2>1, Constants, LastDatagram DEF TimerLocal, StreamTypes
  <2>3. QED
    BY <1>0, <1>8, <2>2 DEF TimerLocal, StreamTypes
<1>9. CASE ImageCallback
  BY <1>0, <1>9 DEF ImageCallback, StreamTypes
<1>10. CASE ControllerStep
  BY <1>0, <1>10 DEF ControllerStep, TakePosition, Steer, StreamTypes
<1>11. QED
  BY <1>1, <1>2, <1>3, <1>4, <1>5, <1>6, <1>7, <1>8, <1>9, <1>10
     DEF Next, CameraNodeStep, CameraStep, CaptureNext

\* What decoding leaves behind.
LEMMA HandledPicture ==
  ASSUME TypeOK, HandleReceive
  PROVE  remote_buf' \in Images
<1>1. remote_buf \in Images
  BY DEF TypeOK
<1>2. CASE EndOfStream \/ MoreText
  BY <1>1, <1>2, Zenon DEF EndOfStream, MoreText
<1>3. CASE EndOfFrame
  BY <1>1, <1>3, DecodeType, Zenon DEF EndOfFrame
<1>4. QED
  BY <1>2, <1>3, Zenon DEF HandleReceive

\* A position found in a picture has its type.
LEMMA CenterType ==
  ASSUME scene \in Scenes, NEW image \in Images, NEW x \in ImageCenter(image)
  PROVE  Point(x, PlaceOfObject(image)) \in Points
<1>1. x \in -1 .. Width - 1
  BY Constants DEF ImageCenter, Reflected, Images
<1>2. PlaceOfObject(image) \in -1 .. Width - 1
  BY Constants DEF PlaceOfObject, Reflected, Images
<1>3. QED
  BY <1>1, <1>2 DEF Point, Points

\* Pictures that stay as they are.
LEMMA SamePictures ==
  ASSUME PictureTypes, UNCHANGED <<remote_buf, image_topic, flips, light_topic, light_pos, setpoint,
                                     scene, found>>
  PROVE  PictureTypes'
BY Zenon DEF PictureTypes

\* Every step keeps the types of the pictures.
LEMMA PictureStep == ASSUME TypeOK, Next PROVE PictureTypes'
<1> USE DEF captureVars, cameraVars, steerVars
<1> DEFINE Still == UNCHANGED <<steerVars, scene, found>>
<1>0. PictureTypes /\ is_flipped \in BOOLEAN
  BY TypeParts DEF ModeTypes
<1>1. CASE HostSends /\ Still
  BY <1>0, <1>1, SamePictures DEF HostSends, Send
<1>2. CASE FlipImage /\ Still
  BY <1>0, <1>2, Constants DEF FlipImage, PictureTypes
<1>3. CASE TimerGetFrame /\ Still
  BY <1>0, <1>3, SamePictures DEF TimerGetFrame, GetFrame
<1>4. CASE Receive /\ UNCHANGED cameraVars /\ Still
  BY <1>0, <1>4, SamePictures DEF Receive
<1>5. CASE HandleReceive /\ UNCHANGED cameraVars /\ Still
  BY <1>0, <1>5, HandledPicture, Zenon DEF PictureTypes
<1>6. CASE (RunReturns \/ RunTimesOut) /\ UNCHANGED cameraVars /\ Still
  BY <1>0, <1>6, SamePictures DEF RunReturns, RunTimesOut
<1>7. CASE TimerReturns /\ Still
  <2>1. CASE TimerShutdown \/ TimerEmpty
    BY <1>0, <1>7, <2>1, SamePictures DEF TimerReturns, TimerShutdown, TimerEmpty
  <2>2. CASE TimerPublish
    <3>1. Turned(remote_buf) \in Images
      BY <1>0, TurnedType DEF PictureTypes
    <3>2. remote_buf' = Turned(remote_buf) /\ image_topic' = KeepLast(image_topic, Turned(remote_buf))
      BY <2>2 DEF TimerPublish, Publish
    <3>3. image_topic' \in Seq(Images) /\ Len(image_topic') <= TopicDepth
      BY <1>0, <3>1, <3>2, KeepLastType DEF PictureTypes
    <3>4. QED
      BY <1>0, <1>7, <3>1, <3>2, <3>3, Zenon DEF TimerReturns, PictureTypes
  <2>3. QED
    BY <1>7, <2>1, <2>2 DEF TimerReturns
<1>8. CASE TimerLocal /\ Still
  <2>1. Turned(Decoded(sent + 1)) \in Images
    BY <1>0, <1>8, TurnedType, PictureKinds, Constants DEF TimerLocal, TypeOK
  <2>2. image_topic' \in Seq(Images) /\ Len(image_topic') <= TopicDepth
    BY <1>0, <1>8, <2>1, KeepLastType DEF TimerLocal, Publish, PictureTypes
  <2>3. QED
    BY <1>0, <1>8, <2>2, Zenon DEF TimerLocal, PictureTypes
<1>9. CASE ImageCallback
  <2>1. image_topic \in Seq(Images) /\ Len(image_topic) > 0
    BY <1>0, <1>9 DEF ImageCallback, PictureTypes
  <2>2. Head(image_topic) \in Images /\ image_topic' \in Seq(Images)
        /\ Len(image_topic') <= TopicDepth
    BY <1>0, <1>9, <2>1, TailType, Constants DEF ImageCallback, PictureTypes
  <2>3. PICK x \in ImageCenter(Head(image_topic)) :
          light_topic' = KeepLast(light_topic, Point(x, PlaceOfObject(Head(image_topic))))
    BY <1>9 DEF ImageCallback
  <2>4. light_topic' \in Seq(Points) /\ Len(light_topic') <= TopicDepth
    BY <1>0, <2>2, <2>3, CenterType, KeepLastType DEF PictureTypes
  <2>5. QED
    BY <1>0, <1>9, <2>2, <2>4 DEF ImageCallback, PictureTypes
<1>10. CASE ControllerStep
  <2>1. CASE Steer
    <3>1. Steering(light_pos) \in Int
      BY <1>0, Constants, ProductInt DEF Steering, PictureTypes
    <3>2. QED
      BY <1>0, <2>1, <3>1 DEF Steer, SteerTimer, PictureTypes
  <2>2. CASE TakePosition
    <3>1. light_topic \in Seq(Points) /\ Len(light_topic) > 0
      BY <1>0, <2>2 DEF TakePosition, UpdateLightPos, PictureTypes
    <3>2. Head(light_topic) \in Points /\ light_topic' \in Seq(Points)
          /\ Len(light_topic') <= TopicDepth
      BY <1>0, <2>2, <3>1, TailType, Constants DEF TakePosition, UpdateLightPos, PictureTypes
    <3>3. light_pos' \in 0 .. Width - 1 /\ found' \in 0 .. Width - 1
      <4>1. Head(light_topic).x \in -1 .. Width - 1 /\ Head(light_topic).place \in -1 .. Width - 1
        BY <3>2 DEF Points
      <4>2. light_pos \in 0 .. Width - 1 /\ found \in 0 .. Width - 1 /\ Width >= 1
        BY <1>0, Constants DEF PictureTypes
      <4>3. light_pos' \in 0 .. Width - 1
        BY <2>2, <4>1, <4>2, Constants DEF TakePosition, UpdateLightPos
      <4>4. found' \in 0 .. Width - 1
        <5>1. \/ found' = 0 \/ found' = found
              \/ Head(light_topic).place # -1 /\ found' = Head(light_topic).place
          BY <2>2, Zenon DEF TakePosition
        <5>2. QED
          BY <5>1, <4>1, <4>2, Constants
      <4>5. QED
        BY <4>3, <4>4
    <3>4. QED
      BY <1>0, <2>2, <3>2, <3>3, Zenon DEF TakePosition, UpdateLightPos, PictureTypes
  <2>3. QED
    BY <1>10, <2>1, <2>2 DEF ControllerStep
<1>11. QED
  BY <1>1, <1>2, <1>3, <1>4, <1>5, <1>6, <1>7, <1>8, <1>9, <1>10
     DEF Next, CameraNodeStep, CameraStep, CaptureNext

\* The variables keep their types whatever is lost and whenever a call is given
\* up (RemoteCapture, Cam2Image, ObjectCenter, SequenceController).
THEOREM TypeCorrect == Spec => []TypeOK
<1>1. Init => TypeOK
  BY TypesInit
<1>2. TypeOK /\ [Next]_vars => TypeOK'
  <2> SUFFICES ASSUME TypeOK, [Next]_vars PROVE TypeOK'
    OBVIOUS
  <2>1. CASE Next
    <3>1. ModeTypes' /\ StreamTypes' /\ PictureTypes'
      BY <2>1, ModeStep, StreamStep, PictureStep
    <3>2. QED
      BY <3>1, Zenon DEF TypeOK, ModeTypes, StreamTypes, PictureTypes
  <2>2. CASE UNCHANGED vars
    BY <2>2, Zenon DEF vars, captureVars, cameraVars, steerVars, TypeOK
  <2>3. QED
    BY <2>1, <2>2
<1>3. QED
  BY <1>1, <1>2, PTL DEF Spec
-----------------------------------------------------------------------------
(***************************************************************************)
(* The turning of the matrix that get_frame keeps.                         *)
(***************************************************************************)

\* A picture that was not published yet is as it was decoded.
NewIsUpright == remote_buf.shown = "never" => ~remote_buf.turned

\* What is decoded is not turned.
LEMMA DecodedUpright == \A text : \A p \in ImDecode(text) : ~p.turned
<1> SUFFICES ASSUME NEW text, NEW p \in ImDecode(text) PROVE ~p.turned
  OBVIOUS
<1>1. PICK f : p = Decoded(f)
  BY DEF ImDecode, EmptyImage, Damaged
<1>2. Decoded(f).turned = FALSE
  BY Zenon DEF Decoded
<1>3. QED
  BY <1>1, <1>2, Zenon

\* A picture that is published for the first time is turned as the parameter
\* says when it was not turned before.
LEMMA FirstTurn ==
  ASSUME NEW frame \in Images, is_flipped \in BOOLEAN,
         frame.shown = "never" => ~frame.turned, Turned(frame).shown = "once"
  PROVE  Turned(frame).turned = Rotate
<1>1. frame.shown = "never"
  BY TurnedType
<1>2. frame.turned = FALSE
  BY <1>1, Zenon DEF Images
<1>3. Turned(frame).turned = (frame.turned # Rotate)
  BY TurnedType
<1>4. QED
  BY <1>2, <1>3, Constants, Zenon

\* Publishing a picture that is right when it is new keeps the topic right.
LEMMA PublishRight ==
  ASSUME TypeOK, OnlyRepeatsAreWrong, NEW image \in Images,
         image.shown = "once" => image.turned = Rotate, Publish(image)
  PROVE  OnlyRepeatsAreWrong'
<1>1. image_topic \in Seq(Images) /\ Len(image_topic) <= TopicDepth
  BY DEF TypeOK
<1>2. \A i \in 1 .. Len(KeepLast(image_topic, image)) :
        \/ KeepLast(image_topic, image)[i] = image
        \/ \E j \in 1 .. Len(image_topic) : KeepLast(image_topic, image)[i] = image_topic[j]
  BY <1>1, KeepLastType
<1>3. image_topic' = KeepLast(image_topic, image)
  BY DEF Publish
<1>4. QED
  BY <1>2, <1>3, Zenon DEF OnlyRepeatsAreWrong

\* Every step keeps new pictures upright and the published ones right.
LEMMA TurningStep ==
  ASSUME TypeOK, NewIsUpright, OnlyRepeatsAreWrong, Next
  PROVE  NewIsUpright' /\ OnlyRepeatsAreWrong'
<1> USE DEF captureVars, cameraVars, steerVars
<1>0. remote_buf \in Images /\ is_flipped \in BOOLEAN
  BY DEF TypeOK
<1>1. ASSUME UNCHANGED <<remote_buf, image_topic>> PROVE NewIsUpright' /\ OnlyRepeatsAreWrong'
  BY <1>1, Zenon DEF NewIsUpright, OnlyRepeatsAreWrong
<1>2. CASE HostSends \/ FlipImage \/ TimerGetFrame
  BY <1>1, <1>2 DEF HostSends, Send, FlipImage, TimerGetFrame, GetFrame
<1>3. CASE (Receive \/ RunReturns \/ RunTimesOut) /\ UNCHANGED cameraVars
  BY <1>1, <1>3 DEF Receive, RunReturns, RunTimesOut
<1>4. CASE HandleReceive /\ UNCHANGED cameraVars
  <2>1. OnlyRepeatsAreWrong'
    BY <1>4, Zenon DEF OnlyRepeatsAreWrong
  <2>2. remote_buf' = remote_buf \/ remote_buf' \in ImDecode(frame_buffer)
    BY <1>4, Zenon DEF HandleReceive, EndOfStream, EndOfFrame, MoreText
  <2>3. NewIsUpright'
    BY <2>2, DecodedUpright, Zenon DEF NewIsUpright
  <2>4. QED
    BY <2>1, <2>3
<1>5. CASE TimerReturns
  <2>1. CASE TimerShutdown \/ TimerEmpty
    BY <1>1, <2>1 DEF TimerShutdown, TimerEmpty
  <2>2. CASE TimerPublish
    <3>1. remote_buf' = Turned(remote_buf) /\ Publish(Turned(remote_buf))
      BY <2>2 DEF TimerPublish
    <3>2. remote_buf'.shown # "never"
      BY <1>0, <3>1, TurnedType
    <3>3. Turned(remote_buf) \in Images
          /\ (Turned(remote_buf).shown = "once" => Turned(remote_buf).turned = Rotate)
      BY <1>0, TurnedType, FirstTurn DEF NewIsUpright
    <3>4. QED
      BY <3>1, <3>2, <3>3, PublishRight DEF NewIsUpright
  <2>3. QED
    BY <1>5, <2>1, <2>2 DEF TimerReturns
<1>6. CASE TimerLocal
  <2>1. Decoded(sent + 1) \in Images /\ Publish(Turned(Decoded(sent + 1)))
    BY <1>6, PictureKinds, Constants DEF TimerLocal, TypeOK
  <2>2. ~Decoded(sent + 1).turned
    BY Zenon DEF Decoded
  <2>3. /\ Turned(Decoded(sent + 1)) \in Images
        /\ Turned(Decoded(sent + 1)).shown = "once" => Turned(Decoded(sent + 1)).turned = Rotate
    BY <1>0, <2>1, <2>2, TurnedType, FirstTurn
  <2>4. OnlyRepeatsAreWrong'
    BY <2>1, <2>3, PublishRight
  <2>5. QED
    BY <1>6, <2>4, Zenon DEF TimerLocal, NewIsUpright
<1>7. CASE ImageCallback
  <2>1. /\ image_topic \in Seq(Images) /\ Len(image_topic) > 0
        /\ image_topic' = Tail(image_topic) /\ remote_buf' = remote_buf
    BY <1>7 DEF ImageCallback, TypeOK
  <2>2. \A i \in 1 .. Len(image_topic') :
          \E j \in 1 .. Len(image_topic) : image_topic'[i] = image_topic[j]
    BY <2>1, TailType
  <2>3. QED
    BY <2>1, <2>2, Zenon DEF NewIsUpright, OnlyRepeatsAreWrong
<1>8. CASE ControllerStep
  BY <1>1, <1>8 DEF ControllerStep, TakePosition, Steer
<1>9. QED
  BY <1>2, <1>3, <1>4, <1>5, <1>6, <1>7, <1>8
     DEF Next, CameraNodeStep, CameraStep, CaptureNext

\* An image is turned as the parameter says when it is published for the first
\* time, whatever is lost and whenever a call is given up: the matrix that
\* get_frame keeps is only turned twice when no new frame was decoded
\* (timerCallback).
THEOREM TurnedWhenNew == Spec => []OnlyRepeatsAreWrong
<1>1. Init => NewIsUpright /\ OnlyRepeatsAreWrong
  <2>1. ~EmptyImage.turned
    BY Zenon DEF EmptyImage, Decoded
  <2>2. Init => Len(image_topic) = 0 /\ remote_buf = EmptyImage
    BY DEF Init, CameraInit, CaptureInit
  <2>3. QED
    BY <2>1, <2>2 DEF NewIsUpright, OnlyRepeatsAreWrong
<1>2. /\ TypeOK /\ NewIsUpright /\ OnlyRepeatsAreWrong /\ [Next]_vars
      => NewIsUpright' /\ OnlyRepeatsAreWrong'
  <2>1. UNCHANGED vars /\ NewIsUpright /\ OnlyRepeatsAreWrong
        => NewIsUpright' /\ OnlyRepeatsAreWrong'
    BY Zenon DEF vars, captureVars, cameraVars, NewIsUpright, OnlyRepeatsAreWrong
  <2>2. QED
    BY <2>1, TurningStep
<1>3. QED
  BY <1>1, <1>2, TypeCorrect, PTL DEF Spec
-----------------------------------------------------------------------------
(***************************************************************************)
(* The stream while nothing is lost and no call is given up.               *)
(***************************************************************************)

\* After f whole frames and k datagrams of the next one were handled, these
\* are the numbers of the datagrams that follow.
Handled(f, k) == (f * Period) + k

\* The text of the frame in the buffer, and the datagrams that are still to
\* be handled, in the order they were sent.
InOrder(f, k) ==
  /\ frame_buffer = [j \in 1 .. k |-> Handled(f, j)]
  /\ \A i \in 1 .. Len(completed) : completed[i] = Handled(f, k) + i
  /\ \A i \in 1 .. Len(net) : net[i] = Handled(f, k) + Len(completed) + i
  /\ IF webcam_down THEN net = <<>> /\ completed = <<>> /\ sent = EOS
                    ELSE sent = Handled(f, k) + Len(completed) + Len(net)
  /\ completed # <<>> => recv_buffer = Head(completed)

\* No receive waits and no handler is ready.
Quiet == pending = 0 /\ completed = <<>>

\* A picture that was decoded and not yet published.
Fresh == remote_buf.shown = "never" /\ ~remote_buf.turned /\ ~remote_buf.mirrored

\* Frame f is the one that was decoded last; it is published between the
\* return of its call and the next call.
OneByOne(f, k) ==
  /\ f = 0 => remote_buf = EmptyImage
  /\ remote_buf.frame = f
  /\ pc # "run" => Quiet
  /\ Quiet => k = 0
  /\ ~Quiet => pending + Len(completed) = 1
  /\ ~Quiet \/ pc = "idle" => ~webcam_down /\ (f = 0 \/ remote_buf.shown = "once")
  /\ Quiet /\ pc \in {"run", "joined"} => webcam_down \/ (f # 0 /\ Fresh)
  /\ webcam_down => f = Frames

Place(f, k) ==
  /\ f \in 0 .. Frames /\ k \in 0 .. Chunks
  /\ f = Frames => k = 0
  /\ InOrder(f, k) /\ OneByOne(f, k)

StreamKeepsUp ==
  ~fault => IF remote_mode THEN \E f \in 0 .. Frames, k \in 0 .. Chunks : Place(f, k)
            ELSE pc = "idle" /\ Quiet
-----------------------------------------------------------------------------
\* The remainder of a number within its period.
LEMMA Remainder ==
  ASSUME NEW p \in Nat, p >= 1, NEW f \in Nat, NEW k \in 0 .. p - 1
  PROVE  ((f * p) + k) % p = k
OBVIOUS

\* Equal products with the same factor.
LEMMA Cancel ==
  ASSUME NEW p \in Nat, p >= 1, NEW f \in Nat, NEW g \in Nat, f * p = g * p
  PROVE  f = g
OBVIOUS

\* One more period.
LEMMA NextProduct ==
  ASSUME NEW p \in Nat, NEW f \in Nat
  PROVE  (f + 1) * p = (f * p) + p
OBVIOUS

\* A later period starts after the end of an earlier one.
LEMMA ProductMonotone ==
  ASSUME NEW p \in Nat, NEW f \in Nat, NEW g \in Nat, f < g
  PROVE  (f * p) + p <= g * p
OBVIOUS

\* The numbers go up by one, from a frame to the next one too.
LEMMA Numbering ==
  ASSUME NEW f \in Nat, NEW k \in Nat
  PROVE  /\ Handled(f, k) \in Nat
         /\ Handled(f, k + 1) = Handled(f, k) + 1
         /\ Handled(f + 1, 0) = Handled(f, Chunks) + 1
<1>1. f * Period \in Nat /\ (f + 1) * Period = (f * Period) + Period
  BY LastDatagram, ProductNat, NextProduct
<1>2. Period = Chunks + 1 /\ Chunks \in Nat
  BY Constants DEF Period
<1>3. QED
  BY <1>1, <1>2 DEF Handled

\* Which datagram comes next: a mark after the whole text of a frame, the end
\* of the stream after all frames, and text otherwise.
LEMMA NextDatagram ==
  ASSUME NEW f \in 0 .. Frames, NEW k \in 0 .. Chunks, f = Frames => k = 0
  PROVE  /\ Handled(f, k) + 1 = EOS <=> f = Frames
         /\ IsEOF(Handled(f, k) + 1) <=> f # Frames /\ k = Chunks
<1>1. /\ Period \in Nat /\ Period >= 1 /\ Period = Chunks + 1 /\ Chunks \in Nat
      /\ f \in Nat /\ k \in Nat /\ Frames \in Nat
  BY LastDatagram, Constants DEF Period
<1>2. f * Period \in Nat /\ Frames * Period \in Nat
  BY <1>1, ProductNat
<1>3. CASE f = Frames
  <2>1. Handled(f, k) + 1 = EOS
    BY <1>1, <1>2, <1>3 DEF Handled, EOS
  <2>2. ~(EOS < EOS)
    BY LastDatagram
  <2>3. QED
    BY <1>3, <2>1, <2>2 DEF IsEOF
<1>4. CASE f # Frames
  <2>1. (f * Period) + Period <= Frames * Period
    BY <1>1, <1>4, ProductMonotone
  <2>2. Handled(f, k) + 1 < EOS /\ Handled(f, k) + 1 # 0
    BY <1>1, <1>2, <2>1 DEF Handled, EOS
  <2>3. CASE k = Chunks
    <3>1. Handled(f, k) + 1 = ((f + 1) * Period) + 0
      BY <1>1, <1>2, <2>3, NextProduct DEF Handled
    <3>2. (((f + 1) * Period) + 0) % Period = 0
      BY <1>1, Remainder
    <3>3. QED
      BY <1>4, <2>2, <2>3, <3>1, <3>2, LastDatagram DEF IsEOF
  <2>4. CASE k # Chunks
    <3>1. Handled(f, k) + 1 = (f * Period) + (k + 1)
      BY <1>1, <1>2 DEF Handled
    <3>2. k + 1 \in 0 .. Period - 1
      BY <1>1, <2>4
    <3>3. ((f * Period) + (k + 1)) % Period = k + 1
      BY <1>1, <3>2, Remainder
    <3>4. ~IsEOF(Handled(f, k) + 1)
      BY <1>1, <3>1, <3>3 DEF IsEOF
    <3>5. QED
      BY <1>4, <2>2, <2>4, <3>4, LastDatagram
  <2>5. QED
    BY <2>3, <2>4
<1>5. QED
  BY <1>3, <1>4

\* The text of a whole frame gives its picture and nothing else.
LEMMA WholeFrameDecodes ==
  ASSUME NEW f \in 0 .. Frames - 1
  PROVE  ImDecode(WholeFrame(f + 1)) = {Decoded(f + 1)}
<1>1. Frames \in Nat /\ Chunks \in Nat \ {0} /\ Period \in Nat /\ Period >= 1
      /\ f \in Nat /\ f + 1 \in 1 .. Frames
  BY Constants, LastDatagram
<1>2. ASSUME NEW g \in 1 .. Frames, WholeFrame(f + 1) = WholeFrame(g) PROVE g = f + 1
  <2>1. WholeFrame(f + 1)[1] = Chunk(f + 1, 1) /\ WholeFrame(g)[1] = Chunk(g, 1)
    BY <1>1 DEF WholeFrame
  <2>2. g - 1 \in Nat /\ f + 1 - 1 = f
    BY <1>1
  <2>3. f * Period \in Nat /\ (g - 1) * Period \in Nat
    BY <1>1, <2>2, ProductNat
  <2>4. f * Period = (g - 1) * Period
    BY <1>2, <2>1, <2>2, <2>3 DEF Chunk
  <2>5. f = g - 1
    BY <1>1, <2>2, <2>4, Cancel
  <2>6. QED
    BY <2>5, <1>1
<1>3. Len(WholeFrame(f + 1)) = Chunks /\ SubSeq(WholeFrame(f + 1), 1, Chunks) = WholeFrame(f + 1)
  <2>1. Len(WholeFrame(f + 1)) = Chunks
    BY <1>1 DEF WholeFrame
  <2>2. \A j \in 1 .. Chunks : 1 + j - 1 = j
    BY <1>1
  <2>3. QED
    BY <1>1, <2>1, <2>2 DEF WholeFrame
<1>4. \A g \in 1 .. Frames : StartsWith(WholeFrame(f + 1), g) <=> g = f + 1
  BY <1>1, <1>2, <1>3 DEF StartsWith
<1>5. QED
  BY <1>1, <1>4 DEF ImDecode

\* What a place says of the types of its sequences.
LEMMA Sizes ==
  ASSUME TypeOK
  PROVE  /\ net \in Seq(1 .. EOS) /\ Len(net) \in Nat
         /\ completed \in Seq(1 .. EOS) /\ Len(completed) \in Nat
         /\ pending \in Nat /\ sent \in 0 .. EOS /\ EOS \in Nat
         /\ (completed = <<>> <=> Len(completed) = 0) /\ (net = <<>> <=> Len(net) = 0)
BY LastDatagram DEF TypeOK

\* A datagram that is sent and not lost is the next in the socket.
LEMMA PlaceSend ==
  ASSUME TypeOK, NEW f \in 0 .. Frames, NEW k \in 0 .. Chunks, Place(f, k),
         Send, ~fault, ~fault'
  PROVE  Place(f, k)'
<1>1. /\ sent < EOS /\ sent' = sent + 1 /\ net' = Append(net, sent + 1)
      /\ UNCHANGED <<pc, pending, completed, recv_buffer, frame_buffer, remote_buf, webcam_down>>
  BY DEF Send
<1>2. ~webcam_down
  BY <1>1, LastDatagram DEF Place, InOrder
<1>3. Handled(f, k) \in Nat
  BY Numbering, Constants
<1>4. sent = Handled(f, k) + Len(completed) + Len(net)
  BY <1>2 DEF Place, InOrder
<1>5. /\ Len(net') = Len(net) + 1
      /\ \A i \in 1 .. Len(net') : net'[i] = Handled(f, k) + Len(completed) + i
  <2>1. \A i \in 1 .. Len(net) : net[i] = Handled(f, k) + Len(completed) + i
    BY DEF Place, InOrder
  <2>2. QED
    BY <1>1, <1>3, <1>4, <2>1, Sizes
<1>6. sent' = Handled(f, k) + Len(completed') + Len(net')
  BY <1>1, <1>3, <1>4, <1>5, Sizes
<1>7. InOrder(f, k)'
  BY <1>1, <1>2, <1>5, <1>6 DEF Place, InOrder
<1>8. OneByOne(f, k)'
  BY <1>1, Zenon DEF Place, OneByOne, Quiet, Fresh
<1>9. QED
  BY <1>7, <1>8 DEF Place

\* A call starts with an empty buffer and one receive.
LEMMA PlaceGetFrame ==
  ASSUME TypeOK, NEW f \in 0 .. Frames, NEW k \in 0 .. Chunks, Place(f, k), GetFrame
  PROVE  Place(f, k)'
<1>1. /\ pc = "idle" /\ pc' = "run" /\ pending' = pending + 1
      /\ UNCHANGED <<sent, net, completed, recv_buffer, frame_buffer, remote_buf, webcam_down>>
  BY DEF GetFrame
<1>2. pending = 0 /\ completed = <<>> /\ ~webcam_down /\ (f = 0 \/ remote_buf.shown = "once")
  BY <1>1, Zenon DEF Place, OneByOne, Quiet
<1>3. pending' = 1 /\ Len(completed') = 0
  BY <1>1, <1>2
<1>4. InOrder(f, k)'
  BY <1>1, Zenon DEF Place, InOrder
<1>5. ~Quiet' /\ pending' + Len(completed') = 1
  BY <1>3 DEF Quiet
<1>6. (f = 0 => remote_buf' = EmptyImage) /\ remote_buf'.frame = f
  BY <1>1 DEF Place, OneByOne
<1>7. OneByOne(f, k)'
  BY <1>1, <1>2, <1>5, <1>6 DEF OneByOne
<1>8. QED
  BY <1>4, <1>7 DEF Place

\* The datagram that is received is the next one.
LEMMA PlaceReceive ==
  ASSUME TypeOK, NEW f \in 0 .. Frames, NEW k \in 0 .. Chunks, Place(f, k), Receive
  PROVE  Place(f, k)'
<1>1. /\ pc = "run" /\ pc' = pc /\ pending > 0 /\ net # <<>> /\ pending' = pending - 1
      /\ net' = Tail(net) /\ recv_buffer' = Head(net) /\ completed' = Append(completed, Head(net))
      /\ UNCHANGED <<sent, frame_buffer, remote_buf, webcam_down>>
  BY DEF Receive
<1>2. pending + Len(completed) = 1 /\ ~Quiet
  BY <1>1, Sizes DEF Place, OneByOne, Quiet
<1>3. pending = 1 /\ completed = <<>> /\ pending' = 0 /\ Len(completed) = 0
  BY <1>1, <1>2, Sizes
<1>4. Handled(f, k) \in Nat
  BY Numbering, Constants
<1>5. /\ Len(net) > 0 /\ Head(net) = net[1] /\ Len(Tail(net)) = Len(net) - 1
      /\ \A i \in 1 .. Len(Tail(net)) : Tail(net)[i] = net[i + 1] /\ i + 1 \in 1 .. Len(net)
  BY <1>1, Sizes, TailType
<1>6. ~webcam_down
  BY <1>1 DEF Place, InOrder
<1>7. /\ \A i \in 1 .. Len(net) : net[i] = Handled(f, k) + i
      /\ sent = Handled(f, k) + Len(net)
  BY <1>3, <1>4, <1>6, Sizes DEF Place, InOrder
<1>8. completed' = <<Head(net)>> /\ Len(completed') = 1 /\ Head(completed') = Head(net)
      /\ completed'[1] = Handled(f, k) + 1
  <2>1. Head(net) = Handled(f, k) + 1
    BY <1>5, <1>7, Sizes
  <2>2. QED
    BY <1>1, <1>3, <2>1
<1>9. InOrder(f, k)'
  <2>1. frame_buffer' = [j \in 1 .. k |-> Handled(f, j)]
    BY <1>1 DEF Place, InOrder
  <2>2. \A i \in 1 .. Len(completed') : completed'[i] = Handled(f, k) + i
    BY <1>8
  <2>3. \A i \in 1 .. Len(net') : net'[i] = Handled(f, k) + Len(completed') + i
    BY <1>1, <1>4, <1>5, <1>7, <1>8, Sizes
  <2>4. sent' = Handled(f, k) + Len(completed') + Len(net')
    BY <1>1, <1>4, <1>5, <1>7, <1>8, Sizes
  <2>5. QED
    BY <1>1, <1>6, <1>8, <2>1, <2>2, <2>3, <2>4 DEF InOrder
<1>10. ~Quiet' /\ pending' + Len(completed') = 1
  BY <1>3, <1>8 DEF Quiet
<1>11. OneByOne(f, k)'
  <2>1. (f = 0 => remote_buf' = EmptyImage) /\ remote_buf'.frame = f
        /\ (f = 0 \/ remote_buf'.shown = "once")
    BY <1>1, <1>2 DEF Place, OneByOne
  <2>2. QED
    BY <1>1, <1>6, <1>10, <2>1 DEF OneByOne
<1>12. QED
  BY <1>9, <1>11 DEF Place

\* The handler that runs is the only one, and reads its own datagram, the one
\* that comes next.
LEMMA OwnDatagram ==
  ASSUME TypeOK, NEW f \in 0 .. Frames, NEW k \in 0 .. Chunks, Place(f, k), HandleReceive
  PROVE  /\ pending = 0 /\ Len(completed) = 1 /\ completed' = <<>> /\ Len(completed') = 0
         /\ ReceivedStr = Handled(f, k) + 1
         /\ ~webcam_down /\ sent = Handled(f, k) + 1 + Len(net)
         /\ \A i \in 1 .. Len(net) : net[i] = Handled(f, k) + 1 + i
         /\ f = 0 \/ remote_buf.shown = "once"
         /\ Handled(f, k) \in Nat
<1>1. completed # <<>> /\ completed' = Tail(completed) /\ pc = "run"
  BY DEF HandleReceive
<1>2. ~Quiet /\ pending + Len(completed) = 1
  BY <1>1 DEF Place, OneByOne, Quiet
<1>3. pending = 0 /\ Len(completed) = 1
  <2>1. pending \in Nat /\ Len(completed) \in Nat /\ Len(completed) # 0
    BY <1>1, Sizes
  <2>2. pending + Len(completed) = 1
    BY <1>2
  <2>3. QED
    BY <2>1, <2>2
<1>4. Tail(completed) = <<>> /\ Head(completed) = completed[1]
  <2>1. Tail(completed) \in Seq(1 .. EOS) /\ Len(Tail(completed)) = 0
        /\ Head(completed) = completed[1]
    BY Sizes, <1>3, TailType
  <2>2. QED
    BY <2>1
<1>5. Handled(f, k) \in Nat
  BY Numbering, Constants
<1>6. ~webcam_down
  BY <1>1 DEF Place, InOrder
<1>7. recv_buffer = Head(completed) /\ completed[1] = Handled(f, k) + 1
  BY <1>1, <1>3 DEF Place, InOrder
<1>8. ReceivedStr = Handled(f, k) + 1
  BY <1>4, <1>7 DEF ReceivedStr
<1>9. /\ sent = Handled(f, k) + 1 + Len(net)
      /\ \A i \in 1 .. Len(net) : net[i] = Handled(f, k) + 1 + i
  BY <1>3, <1>6 DEF Place, InOrder
<1>10. f = 0 \/ remote_buf.shown = "once"
  BY <1>2 DEF Place, OneByOne
<1>11. QED
  BY <1>1, <1>3, <1>4, <1>5, <1>6, <1>8, <1>9, <1>10

\* After all frames the stream ends.
LEMMA PlaceEndOfStream ==
  ASSUME TypeOK, NEW f \in 0 .. Frames, NEW k \in 0 .. Chunks, Place(f, k), HandleReceive,
         f = Frames
  PROVE  Place(f, k)' /\ remote_buf' = remote_buf
<1>1. k = 0 /\ ReceivedStr = EOS /\ ~IsEOF(ReceivedStr)
  BY OwnDatagram, NextDatagram, Constants DEF Place
<1>2. /\ webcam_down' /\ completed' = <<>> /\ Len(completed') = 0
      /\ UNCHANGED <<sent, net, pc, pending, frame_buffer, remote_buf>>
  BY <1>1, OwnDatagram DEF HandleReceive, EndOfStream, EndOfFrame, MoreText
<1>3. sent = EOS /\ net = <<>>
  BY <1>1, OwnDatagram, Sizes
<1>4. InOrder(f, k)'
  <2>1. frame_buffer' = [j \in 1 .. k |-> Handled(f, j)]
    BY <1>2 DEF Place, InOrder
  <2>2. Len(net') = 0 /\ net' = <<>> /\ sent' = EOS
    BY <1>2, <1>3
  <2>3. QED
    BY <1>2, <2>1, <2>2 DEF InOrder
<1>5. OneByOne(f, k)'
  <2>1. Quiet' /\ pc' = "run"
    BY <1>2, OwnDatagram DEF Quiet, HandleReceive
  <2>2. (f = 0 => remote_buf' = EmptyImage) /\ remote_buf'.frame = f
    BY <1>2 DEF Place, OneByOne
  <2>3. QED
    BY <1>1, <1>2, <2>1, <2>2 DEF OneByOne
<1>6. QED
  BY <1>1, <1>2, <1>4, <1>5 DEF Place

\* Text within a frame is appended, and another receive waits.
LEMMA PlaceMoreText ==
  ASSUME TypeOK, NEW f \in 0 .. Frames, NEW k \in 0 .. Chunks, Place(f, k), HandleReceive,
         f # Frames, k # Chunks
  PROVE  k + 1 \in 0 .. Chunks /\ Place(f, k + 1)' /\ remote_buf' = remote_buf
<1>1. ReceivedStr # EOS /\ ~IsEOF(ReceivedStr)
  BY OwnDatagram, NextDatagram
<1>2. /\ frame_buffer' = Append(frame_buffer, ReceivedStr) /\ pending' = pending + 1
      /\ completed' = <<>> /\ Len(completed') = 0 /\ pc = "run" /\ ~webcam_down
      /\ UNCHANGED <<sent, net, pc, remote_buf, webcam_down>>
  BY <1>1, OwnDatagram DEF HandleReceive, EndOfStream, EndOfFrame, MoreText
<1>3. k + 1 \in 0 .. Chunks /\ k \in Nat /\ f \in Nat
  BY Constants
<1>4. Handled(f, k + 1) = Handled(f, k) + 1 /\ Handled(f, k + 1) \in Nat
  BY <1>3, Numbering
<1>5. InOrder(f, k + 1)'
  <2>1. frame_buffer' = [j \in 1 .. k + 1 |-> Handled(f, j)]
    <3>1. frame_buffer = [j \in 1 .. k |-> Handled(f, j)] /\ ReceivedStr = Handled(f, k + 1)
      BY <1>4, OwnDatagram DEF Place, InOrder
    <3>2. \A j \in 1 .. k : Handled(f, j) \in Nat
      <4>1. \A j \in 1 .. k : j \in Nat
        OBVIOUS
      <4>2. QED
        BY <1>3, <4>1, Numbering
    <3>3. frame_buffer \in Seq(Nat) /\ Len(frame_buffer) = k
      BY <1>3, <3>1, <3>2
    <3>4. QED
      BY <1>2, <1>3, <1>4, <3>1, <3>3
  <2>2. \A i \in 1 .. Len(net') : net'[i] = Handled(f, k + 1) + Len(completed') + i
    BY <1>2, <1>4, OwnDatagram, Sizes
  <2>3. sent' = Handled(f, k + 1) + Len(completed') + Len(net')
    BY <1>2, <1>4, OwnDatagram, Sizes
  <2>4. QED
    BY <1>2, <2>1, <2>2, <2>3 DEF InOrder
<1>6. OneByOne(f, k + 1)'
  <2>1. ~Quiet' /\ pending' + Len(completed') = 1
    BY <1>2, OwnDatagram DEF Quiet
  <2>2. (f = 0 => remote_buf' = EmptyImage) /\ remote_buf'.frame = f
        /\ (f = 0 \/ remote_buf'.shown = "once")
    BY <1>2, OwnDatagram DEF Place, OneByOne
  <2>3. QED
    BY <1>2, <2>1, <2>2 DEF OneByOne
<1>7. QED
  BY <1>2, <1>3, <1>5, <1>6 DEF Place

\* The mark after the text of a whole frame gives its picture.
LEMMA PlaceEndOfFrame ==
  ASSUME TypeOK, NEW f \in 0 .. Frames, NEW k \in 0 .. Chunks, Place(f, k), HandleReceive,
         f # Frames, k = Chunks
  PROVE  f + 1 \in 0 .. Frames /\ Place(f + 1, 0)' /\ remote_buf' = Decoded(f + 1)
<1>1. ReceivedStr # EOS /\ IsEOF(ReceivedStr)
  BY OwnDatagram, NextDatagram
<1>2. /\ IF frame_buffer = <<>> THEN remote_buf' = remote_buf
                                ELSE remote_buf' \in ImDecode(frame_buffer)
      /\ frame_buffer' = <<>> /\ completed' = <<>> /\ Len(completed') = 0
      /\ pc = "run" /\ ~webcam_down /\ UNCHANGED <<sent, net, pc, pending, webcam_down>>
  BY <1>1, OwnDatagram DEF HandleReceive, EndOfStream, EndOfFrame, MoreText
<1>3. f \in 0 .. Frames - 1 /\ f + 1 \in 0 .. Frames /\ f \in Nat /\ f + 1 \in 1 .. Frames + 1
  BY Constants
<1>4. frame_buffer = WholeFrame(f + 1) /\ frame_buffer # <<>>
  <2>1. \A j \in 1 .. Chunks : Handled(f, j) = Chunk(f + 1, j)
    BY <1>3 DEF Handled, Chunk
  <2>2. frame_buffer = [j \in 1 .. Chunks |-> Handled(f, j)]
    BY DEF Place, InOrder
  <2>3. frame_buffer = WholeFrame(f + 1)
    BY <2>1, <2>2 DEF WholeFrame
  <2>4. DOMAIN frame_buffer = 1 .. Chunks /\ 1 \in 1 .. Chunks
    BY <2>2, Constants
  <2>5. QED
    BY <2>3, <2>4
<1>5. remote_buf' = Decoded(f + 1)
  BY <1>2, <1>3, <1>4, WholeFrameDecodes
<1>6. Handled(f + 1, 0) = Handled(f, k) + 1 /\ Handled(f + 1, 0) \in Nat
  BY <1>3, Numbering, Constants
<1>7. InOrder(f + 1, 0)'
  <2>1. frame_buffer' = [j \in 1 .. 0 |-> Handled(f + 1, j)]
    BY <1>2
  <2>2. \A i \in 1 .. Len(net') : net'[i] = Handled(f + 1, 0) + Len(completed') + i
    BY <1>2, <1>6, OwnDatagram, Sizes
  <2>3. sent' = Handled(f + 1, 0) + Len(completed') + Len(net')
    BY <1>2, <1>6, OwnDatagram, Sizes
  <2>4. QED
    BY <1>2, <2>1, <2>2, <2>3 DEF InOrder
<1>8. OneByOne(f + 1, 0)'
  <2>1. Quiet'
    BY <1>2, OwnDatagram DEF Quiet
  <2>2. remote_buf'.frame = f + 1 /\ Fresh'
    BY <1>5, Zenon DEF Decoded, Fresh
  <2>3. f + 1 # 0
    BY <1>3
  <2>4. QED
    BY <1>2, <2>1, <2>2, <2>3 DEF OneByOne
<1>9. QED
  BY <1>3, <1>5, <1>7, <1>8, Constants DEF Place

\* The call returns when nothing waits any more.
LEMMA PlaceRunReturns ==
  ASSUME TypeOK, NEW f \in 0 .. Frames, NEW k \in 0 .. Chunks, Place(f, k), RunReturns
  PROVE  Place(f, k)'
<1>1. /\ pc = "run" /\ pc' = "joined" /\ Quiet
      /\ UNCHANGED <<sent, net, pending, completed, recv_buffer, frame_buffer, remote_buf, webcam_down>>
  BY DEF RunReturns, Quiet
<1>2. InOrder(f, k)'
  BY <1>1, Zenon DEF Place, InOrder
<1>3. OneByOne(f, k)'
  <2>1. Quiet' /\ k = 0 /\ (webcam_down \/ (f # 0 /\ Fresh)) /\ (webcam_down => f = Frames)
    BY <1>1 DEF Place, OneByOne, Quiet
  <2>2. (f = 0 => remote_buf' = EmptyImage) /\ remote_buf'.frame = f /\ Fresh' = Fresh
    BY <1>1, Zenon DEF Place, OneByOne, Fresh
  <2>3. QED
    BY <1>1, <2>1, <2>2 DEF OneByOne
<1>4. QED
  BY <1>2, <1>3 DEF Place

\* When a call has returned its frame is published, or the stream has ended.
LEMMA PlaceTimerReturns ==
  ASSUME TypeOK, NEW f \in 0 .. Frames, NEW k \in 0 .. Chunks, Place(f, k), TimerReturns
  PROVE  /\ Place(f, k)'
         /\ \/ remote_buf' = remote_buf
            \/ /\ f # 0 /\ Fresh
               /\ remote_buf' = Turned(remote_buf)
<1>0. remote_buf \in Images /\ is_flipped \in BOOLEAN
  BY DEF TypeOK
<1>1. /\ pc = "joined"
      /\ UNCHANGED <<sent, net, pending, completed, recv_buffer, frame_buffer, webcam_down>>
  BY DEF TimerReturns, TimerShutdown, TimerEmpty, TimerPublish
<1>2. Quiet /\ k = 0 /\ (webcam_down \/ (f # 0 /\ Fresh)) /\ (webcam_down => f = Frames)
      /\ remote_buf.frame = f
  BY <1>1 DEF Place, OneByOne
<1>3. InOrder(f, k)' /\ Quiet'
  BY <1>1, <1>2, Zenon DEF Place, InOrder, Quiet
<1>4. CASE TimerShutdown
  <2>1. pc' = "down" /\ remote_buf' = remote_buf
    BY <1>4 DEF TimerShutdown
  <2>2. (f = 0 => remote_buf' = EmptyImage) /\ remote_buf'.frame = f
    BY <2>1 DEF Place, OneByOne
  <2>3. OneByOne(f, k)'
    BY <1>1, <1>2, <1>3, <2>1, <2>2 DEF OneByOne
  <2>4. QED
    BY <1>3, <2>1, <2>3 DEF Place
<1>5. CASE TimerEmpty
  BY <1>2, <1>5 DEF TimerEmpty
<1>6. CASE TimerPublish
  <2>1. pc' = "idle" /\ remote_buf' = Turned(remote_buf) /\ ~webcam_down /\ f # 0 /\ Fresh
    BY <1>2, <1>6 DEF TimerPublish
  <2>2. remote_buf'.frame = f /\ remote_buf'.shown = "once"
    BY <1>0, <1>2, <2>1, TurnedType DEF Fresh
  <2>3. OneByOne(f, k)'
    BY <1>1, <1>2, <1>3, <2>1, <2>2 DEF OneByOne
  <2>4. QED
    BY <1>3, <2>1, <2>3 DEF Place
<1>7. QED
  BY <1>4, <1>5, <1>6 DEF TimerReturns

\* What a step may do to the matrix that get_frame keeps.
FrameStep ==
  remote_buf' # remote_buf =>
    \/ /\ remote_buf'.shown = "never"
       /\ remote_buf'.frame = remote_buf.frame + 1
       /\ remote_buf = EmptyImage \/ remote_buf.shown = "once"
    \/ /\ remote_buf'.shown = "once"
       /\ remote_buf'.frame = remote_buf.frame
       /\ remote_buf'.turned = Rotate

\* A step that loses nothing gives up no call that was not given up before.
LEMMA FaultStays == ASSUME [Next]_vars, ~fault' PROVE ~fault
<1> USE DEF captureVars, cameraVars, steerVars
<1>1. CASE UNCHANGED vars
  BY <1>1 DEF vars
<1>2. CASE HostSends \/ FlipImage \/ TimerGetFrame
  BY <1>2 DEF HostSends, Send, FlipImage, TimerGetFrame, GetFrame
<1>3. CASE Receive \/ HandleReceive \/ RunReturns \/ RunTimesOut
  BY <1>3 DEF Receive, HandleReceive, RunReturns, RunTimesOut
<1>4. CASE TimerReturns \/ TimerLocal \/ ImageCallback \/ ControllerStep
  BY <1>4 DEF TimerReturns, TimerLocal, ImageCallback, ControllerStep, TakePosition, Steer
<1>5. QED
  BY <1>1, <1>2, <1>3, <1>4 DEF Next, CameraNodeStep, CameraStep, CaptureNext

\* The handler of a datagram takes the stream to its next place.
LEMMA PlaceHandle ==
  ASSUME TypeOK, NEW f \in 0 .. Frames, NEW k \in 0 .. Chunks, Place(f, k), HandleReceive
  PROVE  (\E g \in 0 .. Frames, j \in 0 .. Chunks : Place(g, j)') /\ FrameStep
<1>1. CASE f = Frames
  BY <1>1, PlaceEndOfStream DEF FrameStep
<1>2. CASE f # Frames /\ k # Chunks
  BY <1>2, PlaceMoreText DEF FrameStep
<1>3. CASE f # Frames /\ k = Chunks
  <2>1. f + 1 \in 0 .. Frames /\ Place(f + 1, 0)' /\ remote_buf' = Decoded(f + 1)
    BY <1>3, PlaceEndOfFrame
  <2>2. 0 \in 0 .. Chunks
    BY Constants
  <2>3. remote_buf'.shown = "never" /\ remote_buf'.frame = f + 1
    BY <2>1, Zenon DEF Decoded
  <2>4. remote_buf.frame = f /\ (remote_buf = EmptyImage \/ remote_buf.shown = "once")
    BY OwnDatagram DEF Place, OneByOne
  <2>5. QED
    BY <2>1, <2>2, <2>3, <2>4 DEF FrameStep
<1>4. QED
  BY <1>1, <1>2, <1>3

\* Every step in remote mode goes from a place to a place, while nothing is
\* lost and no call is given up.
LEMMA PlaceStep ==
  ASSUME TypeOK, remote_mode, [Next]_vars, ~fault',
         NEW f \in 0 .. Frames, NEW k \in 0 .. Chunks, Place(f, k)
  PROVE  (\E g \in 0 .. Frames, j \in 0 .. Chunks : Place(g, j)') /\ FrameStep
<1> USE DEF captureVars, cameraVars, steerVars
<1>0. ~fault
  BY FaultStays
<1>1. ASSUME UNCHANGED captureVars PROVE Place(f, k)' /\ FrameStep
  BY <1>1, Zenon DEF Place, InOrder, OneByOne, Quiet, Fresh, FrameStep
<1>2. CASE UNCHANGED vars
  BY <1>1, <1>2 DEF vars
<1>3. CASE HostSends
  BY <1>0, <1>3, PlaceSend DEF HostSends, Send, FrameStep
<1>4. CASE FlipImage \/ ImageCallback \/ ControllerStep
  BY <1>1, <1>4 DEF FlipImage, ImageCallback, ControllerStep, TakePosition, Steer
<1>5. CASE TimerGetFrame
  BY <1>5, PlaceGetFrame DEF TimerGetFrame, GetFrame, FrameStep
<1>6. CASE Receive
  BY <1>6, PlaceReceive DEF Receive, FrameStep
<1>7. CASE HandleReceive
  BY <1>7, PlaceHandle
<1>8. CASE RunReturns
  BY <1>8, PlaceRunReturns DEF RunReturns, FrameStep
<1>9. CASE RunTimesOut
  BY <1>9 DEF RunTimesOut
<1>10. CASE TimerReturns
  <2>1. Place(f, k)'
    BY <1>10, PlaceTimerReturns
  <2>2. CASE remote_buf' = remote_buf
    BY <2>1, <2>2 DEF FrameStep
  <2>3. CASE Fresh /\ remote_buf' = Turned(remote_buf)
    <3>1. remote_buf \in Images /\ is_flipped \in BOOLEAN
      BY DEF TypeOK
    <3>2. remote_buf'.shown = "once" /\ remote_buf'.frame = remote_buf.frame
      BY <2>3, <3>1, TurnedType DEF Fresh
    <3>3. remote_buf'.turned = Rotate
      BY <2>3, <3>1, <3>2, FirstTurn, Zenon DEF Fresh
    <3>4. QED
      BY <2>1, <3>2, <3>3 DEF FrameStep
  <2>4. QED
    BY <1>10, <2>2, <2>3, PlaceTimerReturns
<1>11. CASE TimerLocal
  BY <1>11 DEF TimerLocal
<1>12. QED
  BY <1>2, <1>3, <1>4, <1>5, <1>6, <1>7, <1>8, <1>9, <1>10, <1>11
     DEF Next, CameraNodeStep, CameraStep, CaptureNext

\* The stream is at its beginning first.
LEMMA StreamBegins == Init => StreamKeepsUp
<1> SUFFICES ASSUME Init PROVE StreamKeepsUp
  OBVIOUS
<1>1. /\ sent = 0 /\ net = <<>> /\ pc = "idle" /\ pending = 0 /\ completed = <<>>
      /\ frame_buffer = <<>> /\ remote_buf = EmptyImage /\ webcam_down = FALSE
  BY DEF Init, CameraInit, CaptureInit
<1>2. Handled(0, 0) = 0 /\ 0 \in 0 .. Frames /\ 0 \in 0 .. Chunks
  BY LastDatagram, Constants DEF Handled
<1>3. InOrder(0, 0)
  BY <1>1, <1>2 DEF InOrder
<1>4. OneByOne(0, 0)
  <2>1. EmptyImage.frame = 0
    BY Zenon DEF EmptyImage, Decoded
  <2>2. QED
    BY <1>1, <2>1 DEF OneByOne, Quiet
<1>5. Place(0, 0)
  BY <1>2, <1>3, <1>4 DEF Place
<1>6. pc = "idle" /\ Quiet
  BY <1>1 DEF Quiet
<1>7. QED
  BY <1>2, <1>5, <1>6 DEF StreamKeepsUp

\* With the local camera the receiver is not used.
LEMMA LocalStep ==
  ASSUME ~remote_mode, pc = "idle", Quiet, [Next]_vars
  PROVE  pc' = "idle" /\ Quiet' /\ remote_buf' = remote_buf
<1> USE DEF captureVars, cameraVars, steerVars
<1>1. CASE UNCHANGED vars
  BY <1>1 DEF vars, Quiet
<1>2. CASE HostSends \/ FlipImage \/ TimerGetFrame
  BY <1>2 DEF HostSends, FlipImage, TimerGetFrame, Quiet
<1>3. CASE Receive \/ HandleReceive \/ RunReturns \/ RunTimesOut
  BY <1>3 DEF Receive, HandleReceive, RunReturns, RunTimesOut
<1>4. CASE TimerReturns
  BY <1>4 DEF TimerReturns, TimerShutdown, TimerEmpty, TimerPublish
<1>5. CASE TimerLocal \/ ImageCallback \/ ControllerStep
  BY <1>5 DEF TimerLocal, ImageCallback, ControllerStep, TakePosition, Steer, Quiet
<1>6. QED
  BY <1>1, <1>2, <1>3, <1>4, <1>5 DEF Next, CameraNodeStep, CameraStep, CaptureNext

\* The mode of the camera node never changes.
LEMMA ModeStays == ASSUME [Next]_vars PROVE remote_mode' = remote_mode
<1> USE DEF captureVars, cameraVars, steerVars
<1>1. CASE UNCHANGED vars
  BY <1>1 DEF vars
<1>2. CASE HostSends \/ FlipImage \/ CameraNodeStep
  BY <1>2 DEF HostSends, FlipImage, CameraNodeStep, CameraStep, TimerGetFrame, TimerReturns, TimerLocal
<1>3. CASE ImageCallback \/ ControllerStep
  BY <1>3 DEF ImageCallback, ControllerStep, TakePosition, Steer
<1>4. QED
  BY <1>1, <1>2, <1>3 DEF Next

\* The stream keeps its order while nothing is lost and no call is given up.
LEMMA StreamStays ==
  ASSUME TypeOK, StreamKeepsUp, [Next]_vars
  PROVE  StreamKeepsUp' /\ (~fault' /\ remote_mode => FrameStep)
<1> SUFFICES ASSUME ~fault'
             PROVE  /\ IF remote_mode' THEN (\E f \in 0 .. Frames, k \in 0 .. Chunks : Place(f, k)')
                                       ELSE pc' = "idle" /\ Quiet'
                    /\ remote_mode => FrameStep
  BY DEF StreamKeepsUp
<1>1. ~fault /\ remote_mode' = remote_mode
  BY FaultStays, ModeStays
<1>2. CASE remote_mode
  <2>1. PICK f \in 0 .. Frames, k \in 0 .. Chunks : Place(f, k)
    BY <1>1, <1>2 DEF StreamKeepsUp
  <2>2. QED
    BY <1>1, <1>2, <2>1, PlaceStep
<1>3. CASE ~remote_mode
  <2>1. pc = "idle" /\ Quiet
    BY <1>1, <1>3 DEF StreamKeepsUp
  <2>2. QED
    BY <1>1, <1>3, <2>1, LocalStep
<1>4. QED
  BY <1>2, <1>3

\* While no datagram is lost and no call runs into the time-out, the datagrams
\* are handled in the order they were sent, and the buffer holds the text of
\* the frame that is under way and of no other (handle_receive).
THEOREM StreamInOrder == Spec => []StreamKeepsUp
BY StreamBegins, StreamStays, TypeCorrect, PTL DEF Spec

\* Then frame after frame is decoded whole, each once, and published once
\* before the next one is decoded, turned as the parameter says (get_frame,
\* timerCallback).
THEOREM FramesOnce == Spec => EachFrameOnce
<1>1. TypeOK /\ StreamKeepsUp /\ [Next]_vars
      => [~fault' /\ remote_mode /\ remote_buf' # remote_buf =>
           \/ /\ remote_buf'.shown = "never"
              /\ remote_buf'.frame = remote_buf.frame + 1
              /\ remote_buf = EmptyImage \/ remote_buf.shown = "once"
           \/ /\ remote_buf'.shown = "once"
              /\ remote_buf'.frame = remote_buf.frame
              /\ remote_buf'.turned = Rotate]_vars
  BY StreamStays DEF FrameStep
<1>2. QED
  BY <1>1, StreamInOrder, TypeCorrect, PTL DEF Spec, EachFrameOnce

\* Then there is one registered receive or ready handler during a call and none
\* between two calls, so the one recv_buffer is enough (add_handler).
THEOREM ReceivesDoNotPileUp == Spec => []OneReceive
<1>1. TypeOK /\ StreamKeepsUp => OneReceive
  <2> SUFFICES ASSUME TypeOK, StreamKeepsUp, ~fault
               PROVE  /\ pending + Len(completed) <= 1
                      /\ pc # "run" => Quiet
    BY DEF OneReceive, Quiet
  <2>1. CASE remote_mode
    <3>1. PICK f \in 0 .. Frames, k \in 0 .. Chunks : Place(f, k)
      BY <2>1 DEF StreamKeepsUp
    <3>2. CASE Quiet
      BY <3>2, Sizes DEF Quiet
    <3>3. CASE ~Quiet
      BY <3>1, <3>3 DEF Place, OneByOne
    <3>4. QED
      BY <3>2, <3>3
  <2>2. CASE ~remote_mode
    BY <2>2, Sizes DEF StreamKeepsUp, Quiet
  <2>3. QED
    BY <2>1, <2>2
<1>2. QED
  BY <1>1, StreamInOrder, TypeCorrect, PTL
-----------------------------------------------------------------------------
(***************************************************************************)
(* The position the controller steers by.                                  *)
(***************************************************************************)

\* An image that may be published: never the empty one, and while nothing is
\* lost a whole frame, turned.
RightImage(image, lost) ==
  /\ image.frame # 0
  /\ ~lost => image.frame \in 1 .. Frames /\ image.turned = Rotate

\* A position found in such an image.
RightPoint(p, lost) == ~lost /\ Rotate => p.x = p.place

ImagesAreRight == \A i \in 1 .. Len(image_topic) : RightImage(image_topic[i], fault)

PointsAreRight == \A i \in 1 .. Len(light_topic) : RightPoint(light_topic[i], fault)

PositionIsRight == ~fault /\ Rotate => light_pos = found

\* A fault only makes the conditions weaker.
LEMMA RightStays ==
  ASSUME [Next]_vars
  PROVE  /\ \A image : RightImage(image, fault) => RightImage(image, fault')
         /\ \A p : RightPoint(p, fault) => RightPoint(p, fault')
<1>1. ~fault' => ~fault
  BY FaultStays
<1>2. QED
  BY <1>1, Zenon DEF RightImage, RightPoint

\* What is not touched stays right.
LEMMA SameStaysRight ==
  ASSUME [Next]_vars
  PROVE  /\ ImagesAreRight /\ image_topic' = image_topic => ImagesAreRight'
         /\ PointsAreRight /\ light_topic' = light_topic => PointsAreRight'
         /\ PositionIsRight /\ UNCHANGED <<light_pos, found>> => PositionIsRight'
<1>1. ImagesAreRight /\ image_topic' = image_topic => ImagesAreRight'
  BY RightStays, Zenon DEF ImagesAreRight
<1>2. PointsAreRight /\ light_topic' = light_topic => PointsAreRight'
  BY RightStays, Zenon DEF PointsAreRight
<1>3. PositionIsRight /\ UNCHANGED <<light_pos, found>> => PositionIsRight'
  BY FaultStays DEF PositionIsRight
<1>4. QED
  BY <1>1, <1>2, <1>3

\* A right image that is published keeps the topic right.
LEMMA PublishedRight ==
  ASSUME TypeOK, ImagesAreRight, [Next]_vars,
         NEW image \in Images, RightImage(image, fault'), Publish(image)
  PROVE  ImagesAreRight'
<1>1. image_topic \in Seq(Images) /\ Len(image_topic) <= TopicDepth
  BY DEF TypeOK
<1>2. \A i \in 1 .. Len(KeepLast(image_topic, image)) :
        \/ KeepLast(image_topic, image)[i] = image
        \/ \E j \in 1 .. Len(image_topic) : KeepLast(image_topic, image)[i] = image_topic[j]
  BY <1>1, KeepLastType
<1>3. image_topic' = KeepLast(image_topic, image)
  BY DEF Publish
<1>4. \A j \in 1 .. Len(image_topic) : RightImage(image_topic[j], fault')
  BY RightStays, Zenon DEF ImagesAreRight
<1>5. QED
  BY <1>2, <1>3, <1>4, Zenon DEF ImagesAreRight

\* The image the timer publishes is right.
LEMMA TimerPublishesRight ==
  ASSUME TypeOK, StreamKeepsUp, TimerPublish
  PROVE  Turned(remote_buf) \in Images /\ RightImage(Turned(remote_buf), fault)
<1>0. remote_buf \in Images /\ is_flipped \in BOOLEAN
  BY DEF TypeOK
<1>1. remote_buf.frame # 0 /\ pc = "joined" /\ ~webcam_down
  BY DEF TimerPublish
<1>2. Turned(remote_buf) \in Images /\ Turned(remote_buf).frame = remote_buf.frame
  BY <1>0, TurnedType
<1>3. ASSUME ~fault PROVE remote_buf.frame \in 1 .. Frames /\ Turned(remote_buf).turned = Rotate
  <2>1. remote_mode
    BY <1>1, <1>3 DEF StreamKeepsUp
  <2>2. PICK f \in 0 .. Frames, k \in 0 .. Chunks : Place(f, k)
    BY <1>3, <2>1 DEF StreamKeepsUp
  <2>3. remote_buf.frame = f /\ f # 0 /\ Fresh
    BY <1>1, <2>2 DEF Place, OneByOne
  <2>4. Turned(remote_buf).shown = "once"
    BY <1>0, <2>3, TurnedType DEF Fresh
  <2>5. Turned(remote_buf).turned = Rotate
    BY <1>0, <2>3, <2>4, FirstTurn DEF Fresh
  <2>6. f \in 1 .. Frames
    BY <2>3, Constants
  <2>7. QED
    BY <2>3, <2>5, <2>6
<1>4. QED
  BY <1>1, <1>2, <1>3, Zenon DEF RightImage

\* The image of the local camera is right.
LEMMA LocalPublishesRight ==
  ASSUME TypeOK, TimerLocal
  PROVE  Turned(Decoded(sent + 1)) \in Images /\ RightImage(Turned(Decoded(sent + 1)), fault)
<1>0. is_flipped \in BOOLEAN
  BY DEF TypeOK
<1>1. Decoded(sent + 1) \in Images /\ sent + 1 \in 1 .. Frames
  BY PictureKinds, Constants DEF TimerLocal, TypeOK
<1>2. ~Decoded(sent + 1).turned /\ Decoded(sent + 1).shown = "never"
      /\ Decoded(sent + 1).frame = sent + 1
  BY Zenon DEF Decoded
<1>3. /\ Turned(Decoded(sent + 1)) \in Images
      /\ Turned(Decoded(sent + 1)).frame = sent + 1
      /\ Turned(Decoded(sent + 1)).shown = "once"
  BY <1>0, <1>1, <1>2, TurnedType
<1>4. Turned(Decoded(sent + 1)).turned = Rotate
  BY <1>0, <1>1, <1>2, <1>3, FirstTurn
<1>5. sent + 1 # 0
  BY <1>1
<1>6. QED
  BY <1>1, <1>3, <1>4, <1>5, Zenon DEF RightImage

\* Every published image is right.
LEMMA ImagesStep ==
  ASSUME TypeOK, StreamKeepsUp, ImagesAreRight, Next
  PROVE  ImagesAreRight'
<1> USE DEF captureVars, cameraVars, steerVars
<1>0. /\ image_topic \in Seq(Images) /\ [Next]_vars
      /\ \A image : RightImage(image, fault) => RightImage(image, fault')
  BY RightStays DEF TypeOK
<1>1. ASSUME UNCHANGED image_topic PROVE ImagesAreRight'
  BY <1>0, <1>1, SameStaysRight
<1>2. CASE HostSends \/ FlipImage \/ TimerGetFrame \/ ControllerStep
  BY <1>1, <1>2 DEF HostSends, FlipImage, TimerGetFrame, ControllerStep, TakePosition, Steer
<1>3. CASE CaptureNext /\ UNCHANGED cameraVars
  BY <1>1, <1>3
<1>4. CASE TimerReturns
  <2>1. CASE TimerShutdown \/ TimerEmpty
    BY <1>1, <2>1 DEF TimerShutdown, TimerEmpty
  <2>2. CASE TimerPublish
    <3>1. Publish(Turned(remote_buf))
      BY <2>2 DEF TimerPublish
    <3>2. Turned(remote_buf) \in Images /\ RightImage(Turned(remote_buf), fault')
      BY <1>0, <2>2, TimerPublishesRight, Zenon
    <3>3. QED
      BY <1>0, <3>1, <3>2, PublishedRight
  <2>3. QED
    BY <1>4, <2>1, <2>2 DEF TimerReturns
<1>5. CASE TimerLocal
  <2>1. Publish(Turned(Decoded(sent + 1)))
    BY <1>5 DEF TimerLocal
  <2>2. Turned(Decoded(sent + 1)) \in Images /\ RightImage(Turned(Decoded(sent + 1)), fault')
    BY <1>0, <1>5, LocalPublishesRight, Zenon
  <2>3. QED
    BY <1>0, <2>1, <2>2, PublishedRight
<1>6. CASE ImageCallback
  <2>1. image_topic # <<>> /\ image_topic' = Tail(image_topic) /\ Len(image_topic) > 0
    BY <1>0, <1>6 DEF ImageCallback
  <2>2. \A i \in 1 .. Len(image_topic') :
          \E j \in 1 .. Len(image_topic) : image_topic'[i] = image_topic[j]
    BY <1>0, <2>1, TailType
  <2>3. QED
    BY <1>0, <2>2, Zenon DEF ImagesAreRight
<1>7. QED
  BY <1>2, <1>3, <1>4, <1>5, <1>6 DEF Next, CameraNodeStep, CameraStep

\* A position that is found in a right image is right.
LEMMA FoundRight ==
  ASSUME NEW image \in Images, RightImage(image, fault), NEW x \in ImageCenter(image)
  PROVE  RightPoint(Point(x, PlaceOfObject(image)), fault)
<1>1. Point(x, PlaceOfObject(image)).x = x
      /\ Point(x, PlaceOfObject(image)).place = PlaceOfObject(image)
  BY Zenon DEF Point
<1>2. ASSUME ~fault, Rotate PROVE x = PlaceOfObject(image)
  <2>1. image.frame \in 1 .. Frames /\ image.turned = TRUE
    BY <1>2, Constants, Zenon DEF RightImage
  <2>2. image.mirrored \in BOOLEAN
    BY DEF Images
  <2>3. CASE image.mirrored = TRUE
    <3>1. ImageCenter(image) = {Reflected(scene[image.frame])}
      BY <2>1, <2>3, Zenon DEF ImageCenter
    <3>2. PlaceOfObject(image) = Reflected(scene[image.frame])
      BY <1>2, <2>1, <2>3, Zenon DEF PlaceOfObject
    <3>3. QED
      BY <3>1, <3>2
  <2>4. CASE image.mirrored = FALSE
    <3>1. ImageCenter(image) = {scene[image.frame]}
      BY <2>1, <2>4, Zenon DEF ImageCenter
    <3>2. PlaceOfObject(image) = scene[image.frame]
      BY <1>2, <2>1, <2>4, Zenon DEF PlaceOfObject
    <3>3. QED
      BY <3>1, <3>2
  <2>5. QED
    BY <2>2, <2>3, <2>4
<1>3. QED
  BY <1>1, <1>2, Zenon DEF RightPoint

\* Every position that is found is right, and the controller keeps the last.
LEMMA PointsStep ==
  ASSUME TypeOK, ImagesAreRight, PointsAreRight, PositionIsRight, Next
  PROVE  PointsAreRight' /\ PositionIsRight'
<1> USE DEF captureVars, cameraVars, steerVars
<1>0. /\ image_topic \in Seq(Images) /\ light_topic \in Seq(Points) /\ scene \in Scenes
      /\ Len(light_topic) <= TopicDepth /\ fault \in BOOLEAN /\ [Next]_vars
  BY DEF TypeOK
<1>1. ASSUME UNCHANGED <<light_topic, light_pos, found>> PROVE PointsAreRight' /\ PositionIsRight'
  BY <1>0, <1>1, SameStaysRight
<1>2. CASE (HostSends \/ FlipImage \/ CameraNodeStep) /\ UNCHANGED <<steerVars, scene, found>>
  BY <1>1, <1>2
<1>3. CASE ImageCallback
  <2>1. image_topic # <<>> /\ Len(image_topic) > 0 /\ fault' = fault
        /\ light_pos' = light_pos /\ found' = found
    BY <1>0, <1>3 DEF ImageCallback
  <2>2. Head(image_topic) = image_topic[1] /\ Head(image_topic) \in Images
        /\ 1 \in 1 .. Len(image_topic)
    BY <1>0, <2>1, TailType
  <2>3. RightImage(Head(image_topic), fault)
    BY <2>2, Zenon DEF ImagesAreRight
  <2>4. PICK x \in ImageCenter(Head(image_topic)) :
          light_topic' = KeepLast(light_topic, Point(x, PlaceOfObject(Head(image_topic))))
    BY <1>3 DEF ImageCallback
  <2> DEFINE p == Point(x, PlaceOfObject(Head(image_topic)))
  <2>5. p \in Points /\ RightPoint(p, fault)
    BY <1>0, <2>2, <2>3, CenterType, FoundRight
  <2>6. light_topic' = KeepLast(light_topic, p)
    BY <2>4
  <2> HIDE DEF p
  <2>7. \A i \in 1 .. Len(KeepLast(light_topic, p)) :
          \/ KeepLast(light_topic, p)[i] = p
          \/ \E j \in 1 .. Len(light_topic) : KeepLast(light_topic, p)[i] = light_topic[j]
    BY <1>0, <2>5, KeepLastType
  <2>8. PointsAreRight'
    BY <2>1, <2>5, <2>6, <2>7, Zenon DEF PointsAreRight
  <2>9. QED
    BY <1>0, <2>1, <2>8, SameStaysRight
<1>4. CASE Steer
  BY <1>1, <1>4 DEF Steer, SteerTimer
<1>5. CASE TakePosition
  <2>1. /\ light_topic # <<>> /\ Len(light_topic) > 0 /\ fault' = fault
        /\ light_topic' = Tail(light_topic)
        /\ light_pos' = IF Head(light_topic).x = -1 THEN light_pos ELSE Head(light_topic).x
        /\ ~fault => found' = IF Head(light_topic).place = -1 THEN found
                              ELSE Head(light_topic).place
    BY <1>0, <1>5 DEF TakePosition, UpdateLightPos
  <2>2. Head(light_topic) = light_topic[1] /\ 1 \in 1 .. Len(light_topic)
        /\ \A i \in 1 .. Len(light_topic') :
             \E j \in 1 .. Len(light_topic) : light_topic'[i] = light_topic[j]
    BY <1>0, <2>1, TailType
  <2>3. PointsAreRight'
    BY <2>1, <2>2, Zenon DEF PointsAreRight
  <2>4. RightPoint(Head(light_topic), fault)
    BY <2>2, Zenon DEF PointsAreRight
  <2>5. PositionIsRight'
    BY <2>1, <2>4 DEF PositionIsRight, RightPoint
  <2>6. QED
    BY <2>3, <2>5
<1>6. QED
  BY <1>2, <1>3, <1>4, <1>5 DEF Next, CameraNodeStep, ControllerStep

\* While no datagram is lost and no call runs into the time-out the published
\* velocities steer by the place where the object really is in the last picture
\* with the object that reached the controller (update_light_pos, imageCallback,
\* timerCallback).
THEOREM SteersRight == Spec => SteersByTheObject
<1>1. Init => ImagesAreRight /\ PointsAreRight /\ PositionIsRight
  <2>1. Init => Len(image_topic) = 0 /\ Len(light_topic) = 0 /\ light_pos = 0 /\ found = 0
    BY DEF Init, CameraInit, SteerInit
  <2>2. QED
    BY <2>1 DEF ImagesAreRight, PointsAreRight, PositionIsRight
<1>2. /\ TypeOK /\ StreamKeepsUp /\ ImagesAreRight /\ PointsAreRight /\ PositionIsRight
      /\ [Next]_vars
      => ImagesAreRight' /\ PointsAreRight' /\ PositionIsRight'
  <2>1. UNCHANGED vars => UNCHANGED <<image_topic, light_topic, light_pos, found>>
    BY DEF vars, cameraVars, steerVars
  <2>2. QED
    BY <2>1, ImagesStep, PointsStep, SameStaysRight
<1>3. PositionIsRight /\ [Next]_vars
      => [~fault /\ Rotate /\ setpoint' # setpoint =>
            setpoint' = <<Steering(found), - Steering(found)>>]_vars
  <2> SUFFICES ASSUME PositionIsRight, Next, ~fault, Rotate, setpoint' # setpoint
               PROVE  setpoint' = <<Steering(found), - Steering(found)>>
    OBVIOUS
  <2>1. Steer
    BY DEF Next, CameraNodeStep, ImageCallback, ControllerStep, TakePosition, UpdateLightPos,
           steerVars
  <2>2. setpoint' = <<Steering(light_pos), - Steering(light_pos)>>
    BY <2>1 DEF Steer, SteerTimer
  <2>3. light_pos = found
    BY DEF PositionIsRight
  <2>4. QED
    BY <2>2, <2>3
<1>4. QED
  BY <1>1, <1>2, <1>3, StreamInOrder, TypeCorrect, PTL DEF Spec, SteersByTheObject
=============================================================================
