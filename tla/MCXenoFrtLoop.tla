--------------------------- MODULE MCXenoFrtLoop ---------------------------
(***************************************************************************)
(* The loop with a second of 4 ticks and a cycle of 3 ticks, started at    *)
(* every phase of the second: carries fall in some cycles and not in       *)
(* others, and a step may overrun by more than one cycle.                  *)
(***************************************************************************)
EXTENDS XenoFrtLoop

MCStartTimes == 0 .. 3
MCGarbageCounts == {-1, 0, 7}
=============================================================================
