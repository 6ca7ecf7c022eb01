-------------------------- MODULE StopTheWorldProofs --------------------------
(***************************************************************************)
(* Proofs about StopTheWorld for every set of mutators and every bound on  *)
(* the number of collections: the invariant IInv is inductive, so every    *)
(* safety invariant holds; the action properties follow; and the protocol  *)
(* implements the abstract pause of GCPause.                               *)
(***************************************************************************)
EXTENDS StopTheWorldRefinement, TLAPS

\* The definitions that say what a state is made of, and the sets of places.
USE DEF companionVars, vmVars, mutatorVars, coreVars, sharedVars,
        StwState, WorkerPC, CompanionPC, VMThreadPC, SafePC, UnsafePC,
        Safe, Safepoint, Goto

-------------------------------------------------------------------------------
\* Each step of the GC worker preserves the inductive invariant.
LEMMA WorkerPreservesIInv ==
  ASSUME IInv, Worker
  PROVE  IInv'
<1> USE ThreadsDistinct DEF IInv, TypeOK, StatesTrackThreads, OperationsTracked,
      SafepointStopsMutators, NextCountBounded, RequestInProgress, WorldIsStopped,
      AssertionsHold, CounterFreshOnEntry, WaiterHasGC, NoLostWakeup
<1>1. CASE StartGC
  BY <1>1 DEF StartGC
<1>2. CASE StopAllMutators
  BY <1>2 DEF StopAllMutators, Request
<1>3. CASE MutatorsStopped
  <2>1. CASE reached = "suspended"
    <3>1. /\ vpc = "stw" /\ wpc' = "gc" /\ request_flag' = FALSE
          /\ UNCHANGED <<desired, reached, lockWait, count, cpc, vmVars, mutatorVars, goal>>
      BY <1>3, <2>1 DEF MutatorsStopped, AwaitReached
    <3>2. QED
      BY <1>3, <3>1 DEF MutatorsStopped, AwaitReached
  <2>2. CASE reached # "suspended"
    <3>1. /\ wpc' = wpc /\ wpc = "stopWait" /\ request_flag' = request_flag
          /\ lockWait' = lockWait \cup {worker}
          /\ UNCHANGED <<desired, reached, count, cpc, vmVars, mutatorVars, goal>>
      BY <1>3, <2>2 DEF MutatorsStopped, AwaitReached
    <3>2. QED
      BY <3>1
  <2>3. QED
    BY <2>1, <2>2
<1>4. CASE FinishGC
  BY <1>4 DEF FinishGC
<1>5. CASE IncrementCount
  BY <1>5 DEF IncrementCount
<1>6. CASE RequestResume
  BY <1>6 DEF RequestResume, Request
<1>7. CASE MutatorsResumed
  BY <1>7 DEF MutatorsResumed, AwaitReached
<1>8. CASE NotifyBlockedMutators
  BY <1>8 DEF NotifyBlockedMutators, GcLockFree
<1>9. QED
  BY <1>1, <1>2, <1>3, <1>4, <1>5, <1>6, <1>7, <1>8 DEF Worker

\* Each step of the companion thread preserves the inductive invariant.
LEMMA CompanionPreservesIInv ==
  ASSUME IInv, Companion
  PROVE  IInv'
<1> USE ThreadsDistinct DEF IInv, TypeOK, StatesTrackThreads, OperationsTracked,
      SafepointStopsMutators, NextCountBounded, RequestInProgress, WorldIsStopped,
      AssertionsHold, CounterFreshOnEntry, WaiterHasGC, NoLostWakeup
<1>1. CASE AwaitSuspendRequest
  BY <1>1 DEF AwaitSuspendRequest
<1>2. CASE DoitPrologue
  BY <1>2 DEF DoitPrologue
<1>3. CASE SubmitSTWOperation
  BY <1>3 DEF SubmitSTWOperation
<1>4. CASE DoitEpilogue
  BY <1>4 DEF DoitEpilogue, ResumedReachedIn
<1>5. QED
  BY <1>1, <1>2, <1>3, <1>4 DEF Companion

\* Each step of the VM thread preserves the inductive invariant.
LEMMA VMThreadPreservesIInv ==
  ASSUME IInv, VMThread
  PROVE  IInv'
<1> USE ThreadsDistinct DEF IInv, TypeOK, StatesTrackThreads, OperationsTracked,
      SafepointStopsMutators, NextCountBounded, RequestInProgress, WorldIsStopped,
      AssertionsHold, CounterFreshOnEntry, WaiterHasGC, NoLostWakeup
<1>1. CASE BeginSafepoint
  BY <1>1 DEF BeginSafepoint
<1>2. CASE SafepointReached
  BY <1>2 DEF SafepointReached
<1>3. ASSUME NEW m \in Mutators, EvaluateMutatorOp(m)
      PROVE  IInv'
  BY <1>3 DEF EvaluateMutatorOp
<1>4. CASE DoMMTkSTWOperation
  BY <1>4 DEF DoMMTkSTWOperation
<1>5. CASE AwaitResumeRequest
  BY <1>5 DEF AwaitResumeRequest, ResumedReachedIn
<1>6. CASE DrainQueue
  BY <1>6 DEF DrainQueue
<1>7. CASE EndSafepoint
  BY <1>7 DEF EndSafepoint
<1>8. CASE WakeRequesters
  <2>1. /\ vpc = "notify" /\ vpc' = "idle" /\ batch = {}
        /\ mpc' = [m \in Mutators |-> IF m \in completed THEN "exit" ELSE mpc[m]]
        /\ completed' \subseteq completed /\ completed' \cap Mutators = {}
        /\ UNCHANGED <<companionVars, count, wpc, vmq, batch, next_count, coreVars>>
    BY <1>8 DEF WakeRequesters
  <2>2. /\ deferred' \in BOOLEAN /\ cpc' \in {cpc, "epilogue"}
        /\ companion \in completed' => cpc' = cpc
        /\ companion \notin completed => cpc' = cpc
        /\ cpc' # cpc => companion \in completed
    BY <1>8 DEF WakeRequesters
  <2>3. \A m \in Mutators :
           \/ mpc[m] = "vmop" /\ mpc'[m] = "exit" /\ next_count[m] = 0
           \/ mpc'[m] = mpc[m] /\ m \notin completed
    BY <2>1
  <2>4. TypeOK' /\ StatesTrackThreads' /\ SafepointStopsMutators'
    BY <2>1, <2>2
  <2>5. OperationsTracked'
    BY <2>1, <2>2, <2>3
  <2>6. NextCountBounded' /\ CounterFreshOnEntry'
    BY <2>1, <2>3
  <2>7. (\E m \in Mutators : mpc'[m] = "lockWM") <=> (\E m \in Mutators : mpc[m] = "lockWM")
    BY <2>3
  <2>8. RequestInProgress'
    BY <2>1, <2>7
  <2>9. WaiterHasGC'
    BY <2>1, <2>3, <2>7
  <2>10. NoLostWakeup' /\ WorldIsStopped'
    BY <2>1, <2>3
  <2>11. AssertionsHold'
    BY <2>1, <2>2
  <2>12. QED
    BY <2>4, <2>5, <2>6, <2>8, <2>9, <2>10, <2>11
<1>9. QED
  BY <1>1, <1>2, <1>3, <1>4, <1>5, <1>6, <1>7, <1>8 DEF VMThread

\* Each step of a mutator preserves the inductive invariant.
LEMMA MutatorPreservesIInv ==
  ASSUME IInv, NEW m \in Mutators, Mutator(m)
  PROVE  IInv'
<1> USE ThreadsDistinct DEF IInv, TypeOK, StatesTrackThreads, OperationsTracked,
      SafepointStopsMutators, NextCountBounded, RequestInProgress, WorldIsStopped,
      AssertionsHold, CounterFreshOnEntry, WaiterHasGC, NoLostWakeup
<1>1. CASE Yield(m)
  BY <1>1 DEF Yield
<1>2. CASE SubmitVMOperation(m)
  BY <1>2 DEF SubmitVMOperation
<1>3. CASE Unyield(m)
  BY <1>3 DEF Unyield
<1>4. CASE LockHeap(m)
  BY <1>4 DEF LockHeap
<1>5. CASE UnlockHeap(m)
  BY <1>5 DEF UnlockHeap
<1>6. CASE TriggerGC(m)
  BY <1>6 DEF TriggerGC
<1>7. CASE HandOverRequest(m)
  BY <1>7 DEF HandOverRequest
<1>8. CASE LoadCount(m)
  BY <1>8 DEF LoadCount
<1>9. CASE EnterBlocked(m)
  BY <1>9 DEF EnterBlocked
<1>10. CASE LockGcLock(m)
  BY <1>10 DEF LockGcLock
<1>11. CASE TestCount(m)
  BY <1>11 DEF TestCount
<1>12. CASE WaitOnGcLock(m)
  BY <1>12 DEF WaitOnGcLock
<1>13. CASE LeaveBlocked(m)
  BY <1>13 DEF LeaveBlocked
<1>14. QED
  BY <1>1, <1>2, <1>3, <1>4, <1>5, <1>6, <1>7, <1>8, <1>9, <1>10, <1>11, <1>12, <1>13 DEF Mutator

\* So does every step of the system, spurious wakeups included.
LEMMA NextPreservesIInv ==
  ASSUME IInv, [Next]_vars
  PROVE  IInv'
<1>1. CASE SpuriousWakeup
  BY <1>1, ThreadsDistinct
  DEF SpuriousWakeup, IInv, TypeOK, StatesTrackThreads, OperationsTracked,
      SafepointStopsMutators, NextCountBounded, RequestInProgress, WorldIsStopped,
      AssertionsHold, CounterFreshOnEntry, WaiterHasGC, NoLostWakeup
<1>2. CASE UNCHANGED vars
  BY <1>2
  DEF vars, IInv, TypeOK, StatesTrackThreads, OperationsTracked,
      SafepointStopsMutators, NextCountBounded, RequestInProgress, WorldIsStopped,
      AssertionsHold, CounterFreshOnEntry, WaiterHasGC, NoLostWakeup
<1>3. QED
  BY <1>1, <1>2, WorkerPreservesIInv, CompanionPreservesIInv, VMThreadPreservesIInv,
     MutatorPreservesIInv DEF Next

\* The invariant holds initially.
LEMMA InitEstablishesIInv ==
  Init => IInv
<1> SUFFICES ASSUME Init PROVE IInv
  OBVIOUS
<1>1. TypeOK
  BY DEF Init, TypeOK
<1>2. StatesTrackThreads /\ OperationsTracked /\ SafepointStopsMutators
  BY DEF Init, StatesTrackThreads, OperationsTracked, SafepointStopsMutators
<1>3. NextCountBounded /\ RequestInProgress /\ WaiterHasGC
  BY DEF Init, NextCountBounded, RequestInProgress, WaiterHasGC
<1>4. WorldIsStopped /\ AssertionsHold /\ CounterFreshOnEntry /\ NoLostWakeup
  BY DEF Init, WorldIsStopped, AssertionsHold, CounterFreshOnEntry, NoLostWakeup
<1>5. QED
  BY <1>1, <1>2, <1>3, <1>4 DEF IInv

\* IInv is an invariant of the protocol between mmtk_stop_all_mutators,
\* mmtk_resume_mutators, mmtk_block_for_gc, the companion thread and the VM thread.
THEOREM InductiveInvariant == Spec => []IInv
<1>1. IInv /\ [Next]_vars => IInv'
  BY NextPreservesIInv
<1>2. QED
  BY <1>1, InitEstablishesIInv, PTL DEF Spec

\* Every variable keeps its type.
THEOREM TypeCorrect == Spec => []TypeOK
<1>1. IInv => TypeOK
  BY DEF IInv
<1>2. QED
  BY <1>1, InductiveInvariant, PTL

\* No mutator runs between the return of mmtk_stop_all_mutators and the request of
\* mmtk_resume_mutators to resume.
THEOREM StopTheWorldIsSafe == Spec => []WorldIsStopped
<1>1. IInv => WorldIsStopped
  BY DEF IInv
<1>2. QED
  BY <1>1, InductiveInvariant, PTL

\* The assertions of mmtkVMCompanionThread.cpp never fail.
THEOREM AssertionsNeverFail == Spec => []AssertionsHold
<1>1. IInv => AssertionsHold
  BY DEF IInv
<1>2. QED
  BY <1>1, InductiveInvariant, PTL

\* mmtk_block_for_gc enters the blocked state with a counter that is current.
THEOREM CounterIsFresh == Spec => []CounterFreshOnEntry
<1>1. IInv => CounterFreshOnEntry
  BY DEF IInv
<1>2. QED
  BY <1>1, InductiveInvariant, PTL

\* mmtk_block_for_gc waits only for a collection that is on its way.
THEOREM WaitersAreServed == Spec => []WaiterHasGC
<1>1. IInv => WaiterHasGC
  BY DEF IInv
<1>2. QED
  BY <1>1, InductiveInvariant, PTL

\* A mutator asleep on gc_lock after its collection still gets its notification.
THEOREM WakeupsAreNotLost == Spec => []NoLostWakeup
<1>1. IInv => NoLostWakeup
  BY DEF IInv
<1>2. QED
  BY <1>1, InductiveInvariant, PTL

-------------------------------------------------------------------------------
\* Only mmtk_resume_mutators moves the counter, by one, while all are stopped.
THEOREM CountMovesWhileStopped == Spec => CountOnlyWhileStopped
<1> DEFINE A == count' # count => /\ count' = count + 1
                                 /\ reached = "suspended"
                                 /\ \A m \in Mutators : Safe(m) /\ Safe(m)'
<1>1. ASSUME IInv, [Next]_vars
      PROVE  [A]_vars
  <2>1. CASE IncrementCount
    BY <1>1, <2>1 DEF IncrementCount, IInv, WorldIsStopped, StatesTrackThreads
  <2>2. CASE ~IncrementCount
    <3>1. count' = count
      BY <1>1, <2>2
      DEF Next, Worker, Companion, VMThread, Mutator, SpuriousWakeup, vars,
          StartGC, StopAllMutators, MutatorsStopped, AwaitReached, FinishGC,
          RequestResume, MutatorsResumed, NotifyBlockedMutators,
          AwaitSuspendRequest, DoitPrologue, SubmitSTWOperation, DoitEpilogue,
          BeginSafepoint, SafepointReached, EvaluateMutatorOp, DoMMTkSTWOperation,
          AwaitResumeRequest, DrainQueue, EndSafepoint, WakeRequesters,
          Yield, Unyield, SubmitVMOperation, LockHeap, UnlockHeap, TriggerGC,
          HandOverRequest, LoadCount, EnterBlocked, LockGcLock, TestCount,
          WaitOnGcLock, LeaveBlocked
    <3>2. QED
      BY <3>1
  <2>3. QED
    BY <2>1, <2>2
<1>2. QED
  BY <1>1, InductiveInvariant, PTL DEF Spec, CountOnlyWhileStopped

-------------------------------------------------------------------------------
(***************************************************************************)
(* The refinement of GCPause.                                              *)
(***************************************************************************)

\* A step that neither stops nor starts a mutator, nor moves the worker across the
\* bounds of the pause, is invisible.
LEMMA PauseStutters ==
  ASSUME count' = count, worldBar' = worldBar,
         \A m \in Mutators : /\ Safe(m)' <=> Safe(m)
                             /\ Safe(m) => next_count'[m] = next_count[m]
  PROVE  UNCHANGED Pause!pauseVars
<1>1. stateBar' = stateBar
  BY DEF stateBar
<1>2. targetBar' = targetBar
  BY DEF targetBar, BlockedForGC
<1>3. QED
  BY <1>1, <1>2 DEF Pause!pauseVars

\* The steps of the GC worker stop the world, finish the collection and release
\* the mutators.
LEMMA WorkerRefines ==
  ASSUME IInv, Worker
  PROVE  [Pause!Next]_Pause!pauseVars
<1>1. CASE MutatorsStopped
  <2>1. CASE wpc' = "gc"
    <3>1. /\ wpc = "stopWait" /\ reached = "suspended"
          /\ UNCHANGED <<count, mpc, next_count>>
      BY <1>1, <2>1 DEF MutatorsStopped, AwaitReached
    <3>2. \A m \in Mutators : Safe(m)
      BY <3>1 DEF IInv, StatesTrackThreads, SafepointStopsMutators
    <3>3. worldBar = "running" /\ worldBar' = "stopped"
      BY <2>1, <3>1 DEF worldBar
    <3>4. \A m \in Mutators : stateBar[m] # "running"
      BY <3>2 DEF stateBar
    <3>5. UNCHANGED <<stateBar, targetBar>>
      BY <3>1 DEF stateBar, targetBar, BlockedForGC
    <3>6. Pause!Stopped
      BY <3>1, <3>3, <3>4, <3>5 DEF Pause!Stopped
    <3>7. QED
      BY <3>6 DEF Pause!Next
  <2>2. CASE wpc' # "gc"
    <3>1. UNCHANGED <<wpc, count, mpc, next_count>>
      BY <1>1, <2>2 DEF MutatorsStopped, AwaitReached
    <3>2. QED
      BY <3>1, PauseStutters DEF worldBar
  <2>3. QED
    BY <2>1, <2>2
<1>2. CASE IncrementCount
  <2>1. /\ worldBar = "stopped" /\ worldBar' = "finished"
        /\ count' = count + 1
        /\ UNCHANGED <<stateBar, targetBar>>
    BY <1>2 DEF IncrementCount, worldBar, stateBar, targetBar, BlockedForGC
  <2>2. QED
    BY <2>1 DEF Pause!Next, Pause!Finished
<1>3. CASE RequestResume
  <2>1. /\ worldBar = "finished" /\ worldBar' = "running"
        /\ UNCHANGED <<count, stateBar, targetBar>>
    BY <1>3 DEF RequestResume, Request, worldBar, stateBar, targetBar, BlockedForGC
  <2>2. QED
    BY <2>1 DEF Pause!Next, Pause!Released
<1>4. CASE \/ StartGC \/ StopAllMutators \/ FinishGC \/ MutatorsResumed
           \/ NotifyBlockedMutators
  <2>1. worldBar' = worldBar /\ UNCHANGED <<count, next_count>>
    BY <1>4 DEF StartGC, StopAllMutators, FinishGC, MutatorsResumed, AwaitReached,
                NotifyBlockedMutators, worldBar
  <2>2. \A m \in Mutators : Safe(m)' <=> Safe(m)
    BY <1>4 DEF StartGC, StopAllMutators, FinishGC, MutatorsResumed, AwaitReached,
                NotifyBlockedMutators, IInv, TypeOK
  <2>3. QED
    BY <2>1, <2>2, PauseStutters
<1>5. QED
  BY <1>1, <1>2, <1>3, <1>4 DEF Worker

\* The companion thread, the VM thread and spurious wakeups are invisible: the VM
\* thread only moves mutators between two stopped places.
LEMMA OthersRefine ==
  ASSUME IInv, Companion \/ VMThread \/ SpuriousWakeup
  PROVE  [Pause!Next]_Pause!pauseVars
<1>1. UNCHANGED <<wpc, count, next_count>>
  BY DEF Companion, VMThread, SpuriousWakeup,
         AwaitSuspendRequest, DoitPrologue, SubmitSTWOperation, DoitEpilogue,
         BeginSafepoint, SafepointReached, EvaluateMutatorOp, DoMMTkSTWOperation,
         AwaitResumeRequest, DrainQueue, EndSafepoint, WakeRequesters
<1>2. worldBar' = worldBar
  BY <1>1 DEF worldBar
<1>3. ASSUME NEW m \in Mutators
      PROVE  Safe(m)' <=> Safe(m)
  <2>1. CASE WakeRequesters
    BY <2>1 DEF WakeRequesters, IInv, OperationsTracked, TypeOK
  <2>2. CASE SpuriousWakeup
    BY <2>2 DEF SpuriousWakeup, IInv, TypeOK
  <2>3. CASE Companion \/ (VMThread /\ ~WakeRequesters)
    <3>1. mpc' = mpc
      BY <2>3
      DEF Companion, VMThread,
         AwaitSuspendRequest, DoitPrologue, SubmitSTWOperation, DoitEpilogue,
         BeginSafepoint, SafepointReached, EvaluateMutatorOp, DoMMTkSTWOperation,
         AwaitResumeRequest, DrainQueue, EndSafepoint
    <3>2. QED
      BY <3>1
  <2>4. QED
    BY <2>1, <2>2, <2>3
<1>4. QED
  BY <1>1, <1>2, <1>3, PauseStutters

\* A mutator's step holds it, blocks it, or lets it run; it runs only when no
\* collection is in progress.
LEMMA MutatorRefines ==
  ASSUME IInv, NEW m \in Mutators, Mutator(m)
  PROVE  [Pause!Next]_Pause!pauseVars
<1> USE DEF IInv, TypeOK
<1>1. wpc' = wpc /\ worldBar' = worldBar /\ count' = count
  BY DEF Mutator, Yield, Unyield, SubmitVMOperation, LockHeap, UnlockHeap,
         TriggerGC, HandOverRequest, LoadCount, EnterBlocked, LockGcLock, TestCount,
         WaitOnGcLock, LeaveBlocked, worldBar
<1>2. ~Safepoint => worldBar = "running"
  BY DEF worldBar, WorldIsStopped
<1>3. CASE Yield(m) \/ SubmitVMOperation(m)
  <2>1. /\ mpc[m] = "java" /\ next_count[m] = 0 /\ next_count' = next_count
        /\ \E p \in {"yield", "vmop"} : mpc' = [mpc EXCEPT ![m] = p]
    BY <1>3 DEF Yield, SubmitVMOperation, NextCountBounded
  <2>2. stateBar[m] = "running" /\ stateBar' = [stateBar EXCEPT ![m] = "held"]
    BY <2>1 DEF stateBar
  <2>3. targetBar' = targetBar
    BY <2>1 DEF targetBar, BlockedForGC
  <2>4. Pause!Hold(m)
    BY <1>1, <2>2, <2>3 DEF Pause!Hold
  <2>5. QED
    BY <2>4 DEF Pause!Next
<1>4. CASE EnterBlocked(m)
  <2>1. /\ mpc[m] = "enter" /\ mpc' = [mpc EXCEPT ![m] = "acquire"]
        /\ next_count' = next_count /\ next_count[m] = count + 1
    BY <1>4 DEF EnterBlocked, CounterFreshOnEntry
  <2>2. stateBar[m] = "running" /\ stateBar' = [stateBar EXCEPT ![m] = "blocked"]
    <3>1. /\ ~Safe(m) /\ Safe(m)' /\ next_count'[m] # 0
          /\ \A n \in Mutators \ {m} : Safe(n)' <=> Safe(n)
      BY <2>1
    <3>2. QED
      BY <2>1, <3>1 DEF stateBar
  <2>3. targetBar' = [targetBar EXCEPT ![m] = count + 1]
    BY <2>1 DEF targetBar, BlockedForGC
  <2>4. Pause!Block(m)
    BY <1>1, <2>2, <2>3 DEF Pause!Block
  <2>5. QED
    BY <2>4 DEF Pause!Next
<1>5. CASE Unyield(m) \/ LeaveBlocked(m)
  <2>1. /\ mpc[m] \in {"yield", "exit"} /\ mpc' = [mpc EXCEPT ![m] = "java"]
        /\ next_count' = [next_count EXCEPT ![m] = 0]
        /\ next_count[m] <= count /\ worldBar = "running"
    BY <1>2, <1>5 DEF Unyield, LeaveBlocked, NextCountBounded
  <2>2. stateBar' = [stateBar EXCEPT ![m] = "running"]
    BY <2>1 DEF stateBar
  <2>3. CASE next_count[m] = 0
    <3>1. stateBar[m] = "held" /\ targetBar' = targetBar
      BY <2>1, <2>3 DEF stateBar, targetBar, BlockedForGC
    <3>2. Pause!Unhold(m)
      BY <1>1, <2>1, <2>2, <3>1 DEF Pause!Unhold
    <3>3. QED
      BY <3>2 DEF Pause!Next
  <2>4. CASE next_count[m] # 0
    <3>1. /\ stateBar[m] = "blocked" /\ targetBar[m] = next_count[m]
          /\ targetBar' = [targetBar EXCEPT ![m] = 0]
      BY <2>1, <2>4 DEF stateBar, targetBar, BlockedForGC
    <3>2. Pause!Unblock(m)
      BY <1>1, <2>1, <2>2, <3>1 DEF Pause!Unblock
    <3>3. QED
      BY <3>2 DEF Pause!Next
  <2>5. QED
    BY <2>3, <2>4
<1>6. CASE \/ LockHeap(m) \/ UnlockHeap(m) \/ TriggerGC(m) \/ HandOverRequest(m)
           \/ LoadCount(m) \/ LockGcLock(m) \/ TestCount(m) \/ WaitOnGcLock(m)
  <2>1. \A n \in Mutators : /\ Safe(n)' <=> Safe(n)
                            /\ Safe(n) => next_count'[n] = next_count[n]
    BY <1>6 DEF LockHeap, UnlockHeap, TriggerGC, HandOverRequest, LoadCount,
                LockGcLock, TestCount, WaitOnGcLock
  <2>2. QED
    BY <1>1, <2>1, PauseStutters
<1>7. QED
  BY <1>3, <1>4, <1>5, <1>6 DEF Mutator

\* The protocol of mmtkVMCompanionThread.cpp and mmtkUpcalls.cpp implements the
\* abstract pause, for every set of mutators.
THEOREM StopTheWorldRefinesPause == Spec => ImplementsPause
<1>1. Init => Pause!Init
  BY DEF Init, Pause!Init, worldBar, stateBar, targetBar, BlockedForGC
<1>2. ASSUME IInv, [Next]_vars
      PROVE  [Pause!Next]_Pause!pauseVars
  <2>1. CASE UNCHANGED vars
    BY <2>1, PauseStutters DEF vars, worldBar
  <2>2. QED
    BY <1>2, <2>1, WorkerRefines, OthersRefine, MutatorRefines DEF Next
<1>3. QED
  BY <1>1, <1>2, InductiveInvariant, PTL DEF Spec, ImplementsPause, Pause!Spec

===============================================================================
