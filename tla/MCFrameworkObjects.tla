------------------------- MODULE MCFrameworkObjects -------------------------
(***************************************************************************)
(* The state machine under every result of the state functions (six error  *)
(* codes, 0, 1 and an undocumented 2), and the logger with room for two    *)
(* variables of every type, any contents of its uninitialised flags, any   *)
(* outcome of a write, and a few headers and torn rows in the file.        *)
(***************************************************************************)
EXTENDS FrameworkObjects

MCReturns == -6 .. 2
=============================================================================
