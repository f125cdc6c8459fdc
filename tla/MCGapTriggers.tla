---------------------------- MODULE MCGapTriggers ----------------------------
(* GapTriggers with two periods, a gap of each bucket in the first. *)
EXTENDS GapTriggers

CONSTANTS a1, a2, b1, p1, p2

GapPeriod == [g \in {a1, a2, b1} |-> IF g = a2 THEN p2 ELSE p1]
==============================================================================
