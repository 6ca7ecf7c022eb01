----------------------------- MODULE StopTheWorld -----------------------------
(***************************************************************************)
(* How a GC worker stops and restarts the Java threads, and how a Java     *)
(* thread that ran out of memory waits for the collection it asked for.    *)
(*                                                                         *)
(* Four kinds of thread take part:                                         *)
(*  - the GC worker that calls the upcalls mmtk_stop_all_mutators and      *)
(*    mmtk_resume_mutators (openjdk/mmtkUpcalls.cpp);                      *)
(*  - the companion thread, which turns the worker's requests into a VM    *)
(*    operation (openjdk/mmtkVMCompanionThread.cpp, mmtkVMOperation.cpp);  *)
(*  - the VM thread of HotSpot, which executes VM operations at safepoints *)
(*    (external: modelled from what the comment at                         *)
(*    mmtkVMCompanionThread.cpp:133-162 says about it);                    *)
(*  - the mutators (Java threads), which trigger collections and block in  *)
(*    mmtk_block_for_gc.                                                   *)
(*                                                                         *)
(* Every section of code between taking _lock and releasing it (or waiting *)
(* on it) touches only what _lock protects, so it is one step.  The        *)
(* start-the-world counter is written without gc_lock, so the test and the *)
(* wait of mmtk_block_for_gc are two steps.                                *)
(***************************************************************************)
EXTENDS Naturals

CONSTANTS
  Mutators,   \* the Java threads
  MaxGCs      \* bound: no collection is triggered once this many have finished

CONSTANTS worker, companion, vm   \* the three other threads

ASSUME ThreadsDistinct ==
  /\ {worker, companion, vm} \cap Mutators = {}
  /\ worker # companion /\ worker # vm /\ companion # vm

ASSUME MaxGCsNat == MaxGCs \in Nat

VARIABLES
  desired,      \* MMTkVMCompanionThread::_desired_state
  reached,      \* MMTkVMCompanionThread::_reached_state
  lockWait,     \* the threads waiting on MMTkVMCompanionThread::_lock
  count,        \* mmtk_start_the_world_count
  wpc,          \* where the GC worker is
  cpc,          \* where the companion thread is
  vpc,          \* where the VM thread is
  vmq,          \* requesters of the VM operations that are queued
  batch,        \* requesters of the operations of the current safepoint
  completed,    \* requesters whose operation is done but who still sleep
  deferred,     \* the last batch left the companion thread asleep
  mpc,          \* where each mutator is
  next_count,   \* the local next_count of mmtk_block_for_gc
  request_flag, \* mmtk-core: a collection is requested, mutators not yet paused
  goal          \* mmtk-core: the request has been handed to the GC workers

companionVars == <<desired, reached, lockWait>>
vmVars        == <<vpc, vmq, batch, completed, deferred>>
mutatorVars   == <<mpc, next_count>>
coreVars      == <<request_flag, goal>>
vars == <<desired, reached, lockWait, count, wpc, cpc, vpc, vmq, batch,
          completed, deferred, mpc, next_count, request_flag, goal>>

StwState == {"suspended", "resumed"}

WorkerPC == {"parked", "stop", "stopWait", "gc", "inc", "resume",
             "resumeWait", "notify"}
CompanionPC == {"wait", "prologue", "submit", "execute", "epilogue"}
VMThreadPC  == {"idle", "sync", "eval", "stw", "notify"}

\* Where a mutator is while HotSpot counts it as stopped: blocked in VM or at
\* a safepoint poll.
SafePC   == {"yield", "vmop", "acquire", "check", "sleep", "waiting", "exit"}
\* Running, or inside the VM or mmtk-core in a state that delays a safepoint.
UnsafePC == {"java", "heap", "lockWM", "load", "enter"}

Safe(m) == mpc[m] \in SafePC

\* SafepointSynchronize is between begin() and end(): no thread may leave a
\* safe state.
Safepoint == vpc \in {"sync", "eval", "stw"}

\* The last parked GC worker runs mmtk_resume_mutators inside mmtk-core's
\* WorkerMonitor lock (mmtkVMCompanionThread.cpp:150-152).
WorkerMonitorHeld == wpc \in {"inc", "resume", "resumeWait", "notify"}

\* gc_lock is held by a mutator in mmtk_block_for_gc between locking and waiting.
GcLockFree == \A m \in Mutators : mpc[m] \notin {"check", "sleep"}

\* Heap_lock is held by the companion thread from doit_prologue to
\* doit_epilogue, or by a mutator.
HeapLockFree == /\ cpc \notin {"submit", "execute", "epilogue"}
                /\ \A m \in Mutators : mpc[m] # "heap"

Init ==
  /\ desired = "resumed" /\ reached = "resumed" /\ lockWait = {}
  /\ count = 0
  /\ wpc = "parked" /\ cpc = "wait" /\ vpc = "idle"
  /\ vmq = {} /\ batch = {} /\ completed = {} /\ deferred = FALSE
  /\ mpc = [m \in Mutators |-> "java"]
  /\ next_count = [m \in Mutators |-> 0]
  /\ request_flag = FALSE /\ goal = FALSE

-------------------------------------------------------------------------------
(***************************************************************************)
(* The GC worker.                                                          *)
(***************************************************************************)

\* mmtk-core: the parked workers see the request and start a collection.
StartGC ==
  /\ wpc = "parked" /\ goal
  /\ goal' = FALSE
  /\ wpc' = "stop"
  /\ UNCHANGED <<companionVars, count, cpc, vmVars, mutatorVars, request_flag>>

\* MMTkVMCompanionThread::request(state, true): store the desired state, wake
\* every waiter, and wait on _lock unless the state is already reached.
Request(state) ==
  /\ desired' = state
  /\ lockWait' = IF reached = state THEN {} ELSE {worker}
  /\ UNCHANGED reached

\* One turn of the wait loop of request(state, true).
AwaitReached(state, from, to) ==
  /\ wpc = from /\ worker \notin lockWait
  /\ IF reached = state
       THEN wpc' = to /\ UNCHANGED lockWait
       ELSE lockWait' = lockWait \cup {worker} /\ UNCHANGED wpc
  /\ UNCHANGED <<desired, reached, count, cpc, vmVars, mutatorVars>>

\* mmtk_stop_all_mutators, up to the wait.
StopAllMutators ==
  /\ wpc = "stop"
  /\ Request("suspended")
  /\ wpc' = "stopWait"
  /\ UNCHANGED <<count, cpc, vmVars, mutatorVars, coreVars>>

\* mmtk_stop_all_mutators returns once the state is reached; mmtk-core then
\* accepts new requests (it clears its request flag when mutators are paused).
MutatorsStopped ==
  /\ AwaitReached("suspended", "stopWait", "gc")
  /\ request_flag' = IF wpc' = "gc" THEN FALSE ELSE request_flag
  /\ UNCHANGED goal

\* mmtk-core: the collection is finished; the last parked worker goes on to
\* resume the mutators, with the WorkerMonitor locked.
FinishGC ==
  /\ wpc = "gc"
  /\ wpc' = "inc"
  /\ UNCHANGED <<companionVars, count, cpc, vmVars, mutatorVars, coreVars>>

\* mmtk_resume_mutators increments the counter before anything else can resume.
IncrementCount ==
  /\ wpc = "inc"
  /\ count' = count + 1
  /\ wpc' = "resume"
  /\ UNCHANGED <<companionVars, cpc, vmVars, mutatorVars, coreVars>>

RequestResume ==
  /\ wpc = "resume"
  /\ Request("resumed")
  /\ wpc' = "resumeWait"
  /\ UNCHANGED <<count, cpc, vmVars, mutatorVars, coreVars>>

MutatorsResumed ==
  /\ AwaitReached("resumed", "resumeWait", "notify")
  /\ UNCHANGED coreVars

\* Faulty variants of NotifyBlockedMutators: gc_lock is not taken; only one
\* waiter is notified.
NotifyWithoutLock ==
  /\ wpc = "notify"
  /\ mpc' = [m \in Mutators |-> IF mpc[m] = "waiting" THEN "acquire" ELSE mpc[m]]
  /\ wpc' = "parked"
  /\ UNCHANGED <<companionVars, count, cpc, vmVars, next_count, coreVars>>

NotifyOne ==
  /\ wpc = "notify" /\ GcLockFree
  /\ IF \E m \in Mutators : mpc[m] = "waiting"
       THEN \E m \in Mutators : /\ mpc[m] = "waiting"
                                /\ mpc' = [mpc EXCEPT ![m] = "acquire"]
       ELSE UNCHANGED mpc
  /\ wpc' = "parked"
  /\ UNCHANGED <<companionVars, count, cpc, vmVars, next_count, coreVars>>

\* gc_lock()->notify_all() with gc_lock held; then the worker parks and the
\* WorkerMonitor is released.
NotifyBlockedMutators ==
  /\ wpc = "notify" /\ GcLockFree
  /\ mpc' = [m \in Mutators |-> IF mpc[m] = "waiting" THEN "acquire" ELSE mpc[m]]
  /\ wpc' = "parked"
  /\ UNCHANGED <<companionVars, count, cpc, vmVars, next_count, coreVars>>

Worker == \/ StartGC \/ StopAllMutators \/ MutatorsStopped \/ FinishGC
          \/ IncrementCount \/ RequestResume \/ MutatorsResumed
          \/ NotifyBlockedMutators

-------------------------------------------------------------------------------
(***************************************************************************)
(* The companion thread: MMTkVMCompanionThread::run.                       *)
(***************************************************************************)

\* Faulty variant of ResumedReachedIn: the state is published only after
\* VMThread::execute() has returned (mmtkVMCompanionThread.cpp:137-153).
ResumedReachedLate == "epilogue"

\* The point at which _reached_state becomes "resumed": inside doit(), not
\* after VMThread::execute() has returned to the companion thread.
ResumedReachedIn == "doit"

AwaitSuspendRequest ==
  /\ cpc = "wait" /\ companion \notin lockWait
  /\ IF desired = "suspended"
       THEN cpc' = "prologue" /\ UNCHANGED lockWait
       ELSE lockWait' = lockWait \cup {companion} /\ UNCHANGED cpc
  /\ UNCHANGED <<desired, reached, count, wpc, vmVars, mutatorVars, coreVars>>

\* VMThread::execute runs doit_prologue in the calling thread.
DoitPrologue ==
  /\ cpc = "prologue" /\ HeapLockFree
  /\ cpc' = "submit"
  /\ UNCHANGED <<companionVars, count, wpc, vmVars, mutatorVars, coreVars>>

\* VMThread::execute queues the operation and blocks until it is told that the
\* operation is done.
SubmitSTWOperation ==
  /\ cpc = "submit"
  /\ vmq' = vmq \cup {companion}
  /\ cpc' = "execute"
  /\ UNCHANGED <<companionVars, count, wpc, vpc, batch, completed, deferred,
                 mutatorVars, coreVars>>

DoitEpilogue ==
  /\ cpc = "epilogue"
  /\ cpc' = "wait"
  /\ IF ResumedReachedIn = "doit"
       THEN UNCHANGED <<reached, lockWait>>
       ELSE reached' = "resumed" /\ lockWait' = {}
  /\ UNCHANGED <<desired, count, wpc, vmVars, mutatorVars, coreVars>>

Companion == \/ AwaitSuspendRequest \/ DoitPrologue \/ SubmitSTWOperation
             \/ DoitEpilogue

-------------------------------------------------------------------------------
(***************************************************************************)
(* The VM thread of HotSpot.                                               *)
(***************************************************************************)

BeginSafepoint ==
  /\ vpc = "idle" /\ vmq # {}
  /\ batch' = vmq /\ vmq' = {}
  /\ vpc' = "sync"
  /\ UNCHANGED <<companionVars, count, wpc, cpc, completed, deferred,
                 mutatorVars, coreVars>>

\* SafepointSynchronize::begin() returns once every mutator is stopped.
SafepointReached ==
  /\ vpc = "sync"
  /\ \A m \in Mutators : Safe(m)
  /\ vpc' = "eval"
  /\ UNCHANGED <<companionVars, count, wpc, cpc, vmq, batch, completed,
                 deferred, mutatorVars, coreVars>>

\* An operation that a mutator asked for, such as RevokeBias.
EvaluateMutatorOp(m) ==
  /\ vpc = "eval" /\ m \in batch
  /\ batch' = batch \ {m}
  /\ completed' = completed \cup {m}
  /\ UNCHANGED <<companionVars, count, wpc, cpc, vpc, vmq, deferred,
                 mutatorVars, coreVars>>

\* Faulty variant of DoMMTkSTWOperation: the state is published as soon as the
\* operation is taken from the queue, before the safepoint is reached.
SuspendedReachedEarly ==
  /\ vpc \in {"sync", "eval"} /\ companion \in batch
  /\ reached' = "suspended"
  /\ lockWait' = IF desired = "resumed" THEN {} ELSE {vm}
  /\ vpc' = "stw"
  /\ UNCHANGED <<desired, count, wpc, cpc, vmq, batch, completed, deferred,
                 mutatorVars, coreVars>>

\* VM_MMTkSTWOperation::doit, up to the wait of do_mmtk_stw_operation.
DoMMTkSTWOperation ==
  /\ vpc = "eval" /\ companion \in batch
  /\ reached' = "suspended"
  /\ lockWait' = IF desired = "resumed" THEN {} ELSE {vm}
  /\ vpc' = "stw"
  /\ UNCHANGED <<desired, count, wpc, cpc, vmq, batch, completed, deferred,
                 mutatorVars, coreVars>>

\* Faulty variant of AwaitResumeRequest: _reached_state is not reset.
LeaveWithoutReset ==
  /\ vpc = "stw" /\ vm \notin lockWait
  /\ desired = "resumed"
  /\ lockWait' = {}
  /\ vpc' = "eval"
  /\ batch' = batch \ {companion}
  /\ completed' = completed \cup {companion}
  /\ UNCHANGED <<desired, reached, count, wpc, cpc, vmq, deferred, mutatorVars,
                 coreVars>>

\* The rest of do_mmtk_stw_operation: one turn of the wait loop, and what
\* follows it.
AwaitResumeRequest ==
  /\ vpc = "stw" /\ vm \notin lockWait
  /\ \/ /\ desired = "resumed"
        /\ IF ResumedReachedIn = "doit"
             THEN reached' = "resumed" /\ lockWait' = {}
             ELSE UNCHANGED <<reached, lockWait>>
        /\ vpc' = "eval"
        /\ batch' = batch \ {companion}
        /\ completed' = completed \cup {companion}
     \/ /\ desired # "resumed"
        /\ lockWait' = lockWait \cup {vm}
        /\ UNCHANGED <<reached, vpc, batch, completed>>
  /\ UNCHANGED <<desired, count, wpc, cpc, vmq, deferred, mutatorVars, coreVars>>

\* Operations queued during the safepoint are executed in the same safepoint.
DrainQueue ==
  /\ vpc = "eval" /\ batch = {} /\ vmq # {}
  /\ batch' = vmq /\ vmq' = {}
  /\ UNCHANGED <<companionVars, count, wpc, cpc, vpc, completed, deferred,
                 mutatorVars, coreVars>>

\* SafepointSynchronize::end().
EndSafepoint ==
  /\ vpc = "eval" /\ batch = {} /\ vmq = {}
  /\ vpc' = "notify"
  /\ UNCHANGED <<companionVars, count, wpc, cpc, vmq, batch, completed,
                 deferred, mutatorVars, coreVars>>

\* The VM thread wakes the requesters of the finished operations.  In OpenJDK 11
\* it may leave the companion thread asleep until the next batch is done.
WakeRequesters ==
  /\ vpc = "notify"
  /\ vpc' = "idle"
  /\ mpc' = [m \in Mutators |-> IF m \in completed THEN "exit" ELSE mpc[m]]
  /\ \/ /\ completed' = {} /\ deferred' = FALSE
        /\ cpc' = IF companion \in completed THEN "epilogue" ELSE cpc
     \/ /\ companion \in completed /\ ~deferred /\ vmq # {}
        /\ completed' = {companion} /\ deferred' = TRUE
        /\ UNCHANGED cpc
  /\ UNCHANGED <<companionVars, count, wpc, vmq, batch, next_count, coreVars>>

VMThread == \/ BeginSafepoint \/ SafepointReached
            \/ \E m \in Mutators : EvaluateMutatorOp(m)
            \/ DoMMTkSTWOperation \/ AwaitResumeRequest
            \/ DrainQueue \/ EndSafepoint \/ WakeRequesters

-------------------------------------------------------------------------------
(***************************************************************************)
(* The mutators.                                                           *)
(***************************************************************************)

\* Mutator m moves between two places and nothing else changes.
Goto(m, from, to) ==
  /\ mpc[m] = from
  /\ mpc' = [mpc EXCEPT ![m] = to]

sharedVars == <<companionVars, count, wpc, cpc, vmVars>>

\* A running mutator stops at its next safepoint poll ...
Yield(m) ==
  /\ Safepoint
  /\ Goto(m, "java", "yield")
  /\ UNCHANGED <<sharedVars, next_count, coreVars>>

\* ... and goes on when the safepoint is over.
Unyield(m) ==
  /\ ~Safepoint
  /\ Goto(m, "yield", "java")
  /\ UNCHANGED <<sharedVars, next_count, coreVars>>

\* A mutator asks for a VM operation of its own and blocks.
SubmitVMOperation(m) ==
  /\ Goto(m, "java", "vmop")
  /\ vmq' = vmq \cup {m}
  /\ UNCHANGED <<companionVars, count, wpc, cpc, vpc, batch, completed,
                 deferred, next_count, coreVars>>

\* Heap_lock is also used by the Java threads (the reference handler).
LockHeap(m) ==
  /\ HeapLockFree
  /\ Goto(m, "java", "heap")
  /\ UNCHANGED <<sharedVars, next_count, coreVars>>

UnlockHeap(m) ==
  /\ Goto(m, "heap", "java")
  /\ UNCHANGED <<sharedVars, next_count, coreVars>>

\* mmtk-core: an allocation finds that a collection is needed.  The first
\* mutator to ask has to hand the request over under the WorkerMonitor lock.
TriggerGC(m) ==
  /\ count < MaxGCs
  /\ Goto(m, "java", IF request_flag THEN "load" ELSE "lockWM")
  /\ request_flag' = TRUE
  /\ UNCHANGED <<sharedVars, next_count, goal>>

HandOverRequest(m) ==
  /\ ~WorkerMonitorHeld
  /\ Goto(m, "lockWM", "load")
  /\ goal' = TRUE
  /\ UNCHANGED <<sharedVars, next_count, request_flag>>

\* mmtk_block_for_gc reads the counter while the mutator still delays the
\* safepoint, so that the collection it waits for cannot have finished.
LoadCount(m) ==
  /\ Goto(m, "load", "enter")
  /\ next_count' = [next_count EXCEPT ![m] = count + 1]
  /\ UNCHANGED <<sharedVars, coreVars>>

\* ThreadBlockInVM: from here on the mutator counts as stopped.
EnterBlocked(m) ==
  /\ Goto(m, "enter", "acquire")
  /\ UNCHANGED <<sharedVars, next_count, coreVars>>

\* Faulty variant of LockGcLock: the counter is read once the mutator already
\* counts as stopped.
LoadCountLate(m) ==
  /\ GcLockFree
  /\ Goto(m, "acquire", "check")
  /\ next_count' = [next_count EXCEPT ![m] = count + 1]
  /\ UNCHANGED <<sharedVars, coreVars>>

LockGcLock(m) ==
  /\ GcLockFree
  /\ Goto(m, "acquire", "check")
  /\ UNCHANGED <<sharedVars, next_count, coreVars>>

\* Faulty variant of TestCount: compares with my_count instead of next_count.
TestMyCount(m) ==
  /\ Goto(m, "check", IF count + 1 < next_count[m] THEN "sleep" ELSE "exit")
  /\ UNCHANGED <<sharedVars, next_count, coreVars>>

\* The loop condition is evaluated with gc_lock held; leaving the loop unlocks it.
TestCount(m) ==
  /\ Goto(m, "check", IF count < next_count[m] THEN "sleep" ELSE "exit")
  /\ UNCHANGED <<sharedVars, next_count, coreVars>>

\* gc_lock()->wait() releases gc_lock and sleeps.
WaitOnGcLock(m) ==
  /\ Goto(m, "sleep", "waiting")
  /\ UNCHANGED <<sharedVars, next_count, coreVars>>

\* The end of ThreadBlockInVM's scope: the mutator runs again unless a safepoint
\* is in progress.
LeaveBlocked(m) ==
  /\ ~Safepoint
  /\ Goto(m, "exit", "java")
  /\ next_count' = [next_count EXCEPT ![m] = 0]
  /\ UNCHANGED <<sharedVars, coreVars>>

Mutator(m) == \/ Yield(m) \/ Unyield(m) \/ SubmitVMOperation(m)
              \/ LockHeap(m) \/ UnlockHeap(m)
              \/ TriggerGC(m) \/ HandOverRequest(m) \/ LoadCount(m)
              \/ EnterBlocked(m) \/ LockGcLock(m) \/ TestCount(m)
              \/ WaitOnGcLock(m) \/ LeaveBlocked(m)

\* Monitor::wait may return without a notification.
SpuriousWakeup ==
  \/ /\ \E t \in lockWait : lockWait' = lockWait \ {t}
     /\ UNCHANGED <<desired, reached, mpc>>
     /\ UNCHANGED <<count, wpc, cpc, vmVars, next_count, coreVars>>
  \/ /\ \E m \in Mutators : Goto(m, "waiting", "acquire")
     /\ UNCHANGED <<sharedVars, next_count, coreVars>>

Next == \/ Worker \/ Companion \/ VMThread
        \/ \E m \in Mutators : Mutator(m)
        \/ SpuriousWakeup

Spec == Init /\ [][Next]_vars

(***************************************************************************)
(* Fairness.  Every thread keeps running; a thread that contends for a     *)
(* monitor, or for the end of a safepoint, is not overtaken for ever, and  *)
(* one that keeps coming back to Java code meets a safepoint poll.  No     *)
(* fairness is assumed for what the application decides (triggering a      *)
(* collection, asking for a VM operation, locking Heap_lock) or for        *)
(* spurious wakeups.                                                       *)
(***************************************************************************)
MutatorFairness(m) ==
  /\ WF_vars(UnlockHeap(m) \/ LoadCount(m) \/ EnterBlocked(m)
             \/ TestCount(m) \/ WaitOnGcLock(m))
  /\ SF_vars(Yield(m))
  /\ WF_vars(HandOverRequest(m))
  /\ SF_vars(LockGcLock(m))
  /\ SF_vars(Unyield(m) \/ LeaveBlocked(m))

Fairness ==
  /\ WF_vars(Worker) /\ SF_vars(NotifyBlockedMutators)
  /\ WF_vars(Companion) /\ SF_vars(DoitPrologue)
  /\ WF_vars(VMThread)
  /\ \A m \in Mutators : MutatorFairness(m)

FairSpec == Spec /\ Fairness

-------------------------------------------------------------------------------
(***************************************************************************)
(* Properties.                                                             *)
(***************************************************************************)

\* Every variable has the type of the C++ field or local it stands for.
TypeOK ==
  /\ desired \in StwState /\ reached \in StwState
  /\ lockWait \subseteq {worker, companion, vm}
  /\ count \in Nat
  /\ wpc \in WorkerPC /\ cpc \in CompanionPC /\ vpc \in VMThreadPC
  /\ vmq \subseteq Mutators \cup {companion}
  /\ batch \subseteq Mutators \cup {companion}
  /\ completed \subseteq Mutators \cup {companion}
  /\ deferred \in BOOLEAN
  /\ mpc \in [Mutators -> SafePC \cup UnsafePC]
  /\ next_count \in [Mutators -> Nat]
  /\ request_flag \in BOOLEAN /\ goal \in BOOLEAN

\* From the moment mmtk_stop_all_mutators returns until mmtk_resume_mutators asks
\* for the resumption, the VM thread sits in VM_MMTkSTWOperation and no mutator
\* runs Java code or code that may touch the heap.
WorldIsStopped ==
  wpc \in {"gc", "inc", "resume"} =>
    /\ vpc = "stw"
    /\ \A m \in Mutators : Safe(m)

\* The assertions of mmtkVMCompanionThread.cpp hold where they are evaluated:
\* lines 54 and 58 (the companion thread finds the threads resumed), line 88 (a
\* state is never requested twice), lines 163 and 164 (the VM thread leaves its
\* wait with resumption requested and the threads still suspended).
AssertionsHold ==
  /\ cpc \in {"wait", "prologue"} => reached = "resumed"
  /\ wpc = "stop" => desired # "suspended"
  /\ wpc = "resume" => desired # "resumed"
  /\ vpc = "stw" => reached = "suspended"

\* The counter a mutator read in mmtk_block_for_gc is still current when the
\* mutator enters the blocked state: no collection finishes in between
\* (mmtkUpcalls.cpp:115-124).
CounterFreshOnEntry ==
  \A m \in Mutators : mpc[m] = "enter" => next_count[m] = count + 1

\* A mutator that still has to wait in mmtk_block_for_gc has a collection to wait
\* for, one that is requested, being handed over or running: it never waits for a
\* collection that nobody asked for.
WaiterHasGC ==
  (\E m \in Mutators :
     /\ mpc[m] \in {"load", "enter", "acquire", "check", "sleep", "waiting"}
     /\ mpc[m] # "load" => count < next_count[m])
  => \/ goal
     \/ \E n \in Mutators : mpc[n] = "lockWM"
     \/ wpc \in {"stop", "stopWait", "gc", "inc"}

\* A mutator asleep on gc_lock whose collection is over has its notification
\* still to come, although the counter is incremented without gc_lock.
NoLostWakeup ==
  \A m \in Mutators :
    mpc[m] \in {"sleep", "waiting"} /\ next_count[m] <= count
      => wpc \in {"resume", "resumeWait", "notify"}

\* The counter moves by one, only while every mutator is stopped, and no mutator
\* starts to run in the same step (mmtkUpcalls.cpp:76-78).
CountOnlyWhileStopped ==
  [][ count' # count => /\ count' = count + 1
                        /\ reached = "suspended"
                        /\ \A m \in Mutators : Safe(m) /\ Safe(m)' ]_vars

\* The inductive invariant behind the safety properties.

\* _reached_state and _desired_state say exactly where the VM thread and the GC
\* worker are.
StatesTrackThreads ==
  /\ reached = "suspended" <=> vpc = "stw"
  /\ desired = "suspended" <=> wpc \in {"stopWait", "gc", "inc", "resume"}

\* Each VM operation is in one place, and its requester sleeps meanwhile.
OperationsTracked ==
  /\ vmq \cap batch = {} /\ vmq \cap completed = {} /\ batch \cap completed = {}
  /\ vpc \in {"idle", "notify"} => batch = {}
  /\ vpc = "stw" => companion \in batch
  /\ companion \in vmq \cup batch \cup completed => cpc = "execute"
  /\ \A m \in Mutators : m \in vmq \cup batch \cup completed => mpc[m] = "vmop"

\* While the VM thread executes operations no mutator runs.
SafepointStopsMutators == vpc \in {"eval", "stw"} => \A m \in Mutators : Safe(m)

\* A mutator waits for at most one collection more than have finished, and one
\* that is done waiting, or never waited, has nothing left to wait for.
NextCountBounded ==
  \A m \in Mutators :
    /\ next_count[m] <= count + 1
    /\ mpc[m] = "exit" => next_count[m] <= count
    /\ mpc[m] \in {"java", "heap", "lockWM", "load", "yield", "vmop"}
         => next_count[m] = 0

\* While mmtk-core has a collection on request, somebody is bringing it about.
RequestInProgress ==
  request_flag => \/ goal
                  \/ \E n \in Mutators : mpc[n] = "lockWM"
                  \/ wpc \in {"stop", "stopWait"}

\* All of it together, as the induction needs it: the bookkeeping of the two state
\* fields and of the VM operations carries WorldIsStopped and AssertionsHold, the
\* bounds on next_count and the request flag carry the properties of
\* mmtk_block_for_gc.
IInv ==
  /\ TypeOK /\ StatesTrackThreads /\ OperationsTracked /\ SafepointStopsMutators
  /\ NextCountBounded /\ RequestInProgress
  /\ WorldIsStopped /\ AssertionsHold /\ CounterFreshOnEntry /\ WaiterHasGC
  /\ NoLostWakeup

\* A mutator blocked for a collection is eventually running again.
BlockedMutatorResumes ==
  \A m \in Mutators : mpc[m] = "load" ~> mpc[m] = "java"

\* Every collection that is started is finished, and the workers park again.
GCFinishes == wpc = "stop" ~> wpc = "parked"

===============================================================================
