------------------------ MODULE StopTheWorldRefinement ------------------------
(***************************************************************************)
(* The stop-the-world protocol implements the abstract pause of GCPause.   *)
(***************************************************************************)
EXTENDS StopTheWorld

\* Between the return of mmtk_stop_all_mutators and the request to resume.
worldBar == CASE wpc \in {"gc", "inc"} -> "stopped"
              [] wpc = "resume" -> "finished"
              [] OTHER -> "running"

\* A mutator is blocked from the moment it counts as stopped in mmtk_block_for_gc
\* until it leaves ThreadBlockInVM.
BlockedForGC(m) == Safe(m) /\ next_count[m] # 0

stateBar == [m \in Mutators |->
               IF ~Safe(m) THEN "running"
               ELSE IF next_count[m] # 0 THEN "blocked" ELSE "held"]

targetBar == [m \in Mutators |-> IF BlockedForGC(m) THEN next_count[m] ELSE 0]

Pause == INSTANCE GCPause WITH
           world <- worldBar, epoch <- count, state <- stateBar, target <- targetBar

\* The companion thread, the VM operation and the start-the-world counter together
\* keep the promise of the abstract pause: mmtk_stop_all_mutators,
\* mmtk_resume_mutators and mmtk_block_for_gc implement it.
ImplementsPause == Pause!Spec
===============================================================================
