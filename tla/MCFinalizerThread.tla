-------------------------- MODULE MCFinalizerThread ---------------------------
(* Instances of FinalizerThread for TLC. *)
EXTENDS FinalizerThread
===============================================================================
