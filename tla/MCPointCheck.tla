---------------------------- MODULE MCPointCheck ----------------------------
(***************************************************************************)
(* Instances of PointCheck for TLC.  An instance is named for what the     *)
(* request context makes of its caveat: kt true, kf false, ku and kw       *)
(* undecided.                                                              *)
(***************************************************************************)
EXTENDS PointCheck

CONSTANTS a, b, c, d, kt, kf, ku, kw, plain

MCVerdict == [k \in Keys |-> CASE k = kt -> "true" [] k = kf -> "false" [] OTHER -> "unknown"]

\* A chain of one edge more than the bound, a cycle, and instances of every
\* verdict on both sides of the subtraction.
ChainViewers == {<<a, kt>>, <<b, ku>>, <<d, plain>>}
ChainBans == {<<a, ku>>, <<b, kw>>, <<d, kt>>}
ChainParents == {<<a, b, plain>>, <<b, c, plain>>, <<b, c, kf>>, <<c, d, plain>>, <<c, a, ku>>}

\* A cycle of two objects and one undecided viewer.
CycleViewers == {<<a, ku>>}
CycleBans == {}
CycleParents == {<<a, b, plain>>, <<b, a, plain>>}
=============================================================================
