--------------------------- MODULE MCVisionSystem ---------------------------
(***************************************************************************)
(* The vision chain for TLC: the object is right of the middle in the      *)
(* first frame, and left of it or gone in the second.                      *)
(***************************************************************************)
EXTENDS VisionSystem

TwoScenes == {<<1, 0>>, <<1, -1>>}
=============================================================================
