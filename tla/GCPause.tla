-------------------------------- MODULE GCPause --------------------------------
(***************************************************************************)
(* What the VM promises mmtk-core about a collection pause, without any    *)
(* of the threads, monitors and VM operations that keep the promise:       *)
(* stop_all_mutators returns when no mutator runs, no mutator runs until   *)
(* resume_mutators, and a mutator in block_for_gc stays blocked until a    *)
(* collection that started after it blocked has finished                   *)
(* (mmtk/src/collection.rs, openjdk/mmtkUpcalls.cpp).                      *)
(***************************************************************************)
EXTENDS Naturals

CONSTANT Mutators

VARIABLES
  world,    \* "running", "stopped", or "finished": the collection is over but
            \* the mutators have not been released yet
  epoch,    \* number of finished collections
  state,    \* per mutator: "running", "held" at a safepoint, or "blocked" for GC
  target    \* per blocked mutator: the epoch it waits for; 0 for the others

pauseVars == <<world, epoch, state, target>>

Init ==
  /\ world = "running" /\ epoch = 0
  /\ state = [m \in Mutators |-> "running"]
  /\ target = [m \in Mutators |-> 0]

\* stop_all_mutators returns.
Stopped ==
  /\ world = "running"
  /\ \A m \in Mutators : state[m] # "running"
  /\ world' = "stopped"
  /\ UNCHANGED <<epoch, state, target>>

\* The collection is counted as finished while the mutators are still stopped.
Finished ==
  /\ world = "stopped"
  /\ world' = "finished"
  /\ epoch' = epoch + 1
  /\ UNCHANGED <<state, target>>

\* From here on mutators may run.
Released ==
  /\ world = "finished"
  /\ world' = "running"
  /\ UNCHANGED <<epoch, state, target>>

\* A mutator stops at a safepoint or in a VM operation of its own ...
Hold(m) ==
  /\ state[m] = "running"
  /\ state' = [state EXCEPT ![m] = "held"]
  /\ UNCHANGED <<world, epoch, target>>

\* ... and goes on, but not during a collection.
Unhold(m) ==
  /\ state[m] = "held" /\ world = "running"
  /\ state' = [state EXCEPT ![m] = "running"]
  /\ UNCHANGED <<world, epoch, target>>

\* A mutator blocks for the next collection to finish.
Block(m) ==
  /\ state[m] = "running"
  /\ state' = [state EXCEPT ![m] = "blocked"]
  /\ target' = [target EXCEPT ![m] = epoch + 1]
  /\ UNCHANGED <<world, epoch>>

\* It runs again only after that collection has finished.
Unblock(m) ==
  /\ state[m] = "blocked" /\ world = "running" /\ target[m] <= epoch
  /\ state' = [state EXCEPT ![m] = "running"]
  /\ target' = [target EXCEPT ![m] = 0]
  /\ UNCHANGED <<world, epoch>>

Next == \/ Stopped \/ Finished \/ Released
        \/ \E m \in Mutators : Hold(m) \/ Unhold(m) \/ Block(m) \/ Unblock(m)

Spec == Init /\ [][Next]_pauseVars
===============================================================================
