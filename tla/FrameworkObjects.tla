-------------------------- MODULE FrameworkObjects --------------------------
(***************************************************************************)
(* The two objects of the framework that any program may drive through     *)
(* their public methods, each under every order of calls: the state        *)
(* machine and the logger.  XenoFrtRosIco has them driven by the robot's   *)
(* own thread.  They share no state, and each behaviour is about one.      *)
(***************************************************************************)
EXTENDS FullStateMachine, XenoFrtLogger

VARIABLE subject

objectVars == <<subject, fsmVars, loggerVars>>

ObjectsInit == subject \in {"machine", "logger"} /\ Init /\ LogInit

ObjectsNext ==
  \/ subject = "machine" /\ Next /\ UNCHANGED <<subject, loggerVars>>
  \/ subject = "logger" /\ LogNext /\ UNCHANGED <<subject, fsmVars>>

ObjectsSpec == ObjectsInit /\ [][ObjectsNext]_objectVars
=============================================================================
