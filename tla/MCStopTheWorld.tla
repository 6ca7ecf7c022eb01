---------------------------- MODULE MCStopTheWorld ----------------------------
(* An instance of StopTheWorld, and of its refinement of GCPause, for TLC. *)
EXTENDS StopTheWorldRefinement
===============================================================================
