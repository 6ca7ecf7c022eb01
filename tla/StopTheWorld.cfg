\* The stop-the-world protocol: safety, refinement of GCPause, and liveness under the
\* fairness of FairSpec.
CONSTANTS
  Mutators = {m1, m2}
  MaxGCs = 2
  worker = worker
  companion = companion
  vm = vm
SPECIFICATION FairSpec
INVARIANTS WorldIsStopped AssertionsHold WaiterHasGC NoLostWakeup
PROPERTIES ImplementsPause BlockedMutatorResumes GCFinishes
