---------------------------- MODULE FinalizerThread ----------------------------
(***************************************************************************)
(* The thread that calls finalize() (openjdk/mmtkFinalizerThread.cpp), the *)
(* GC worker that schedules it at the end of a collection, and the start   *)
(* of the VM that creates it before collections are enabled                *)
(* (openjdk/mmtkHeap.cpp).                                                 *)
(*                                                                         *)
(* The collector is reduced to what the thread sees of it (external): a    *)
(* pause begins when the finalizer thread counts as stopped, moves some    *)
(* dead objects to the ready list, calls schedule_finalizer, and ends.     *)
(* JavaCalls::call_virtual (external) returns early, without calling the   *)
(* method, while an exception is pending on the thread.                    *)
(***************************************************************************)
EXTENDS Naturals, FiniteSets

CONSTANT Objects    \* objects with a finalizer

VARIABLES
  boot,         \* MMTkHeap::enable_collection: "start", "created", "enabled"
  instance,     \* MMTkFinalizerThread::instance is set
  is_scheduled, \* MMTkFinalizerThread::is_scheduled
  owner,        \* who holds the monitor m between two steps: "none" or "finalizer"
  fpc,          \* where the finalizer thread is
  obj,          \* the object it is working on, as a set of at most one
  exception,    \* an exception is pending on the finalizer thread
  wpc,          \* where the GC worker is
  registered,   \* objects added by add_finalizer and not yet found dead
  ready,        \* objects whose finalizer is due
  finalized     \* objects whose finalize() has been called

threadVars == <<boot, instance, is_scheduled, owner, fpc, obj, exception, wpc,
                registered, ready, finalized>>
finalizerVars == <<fpc, obj, exception, finalized>>
workerVars    == <<wpc, registered>>
bootVars      == <<boot, instance>>

\* Places where the finalizer thread counts as stopped: inside ThreadBlockInVM,
\* at a poll of the Java code it runs, or not started.
FinalizerStopped == fpc \in {"none", "acquire", "test", "waiting", "leave", "polled"}

\* A pause is wanted or in progress: nobody may leave a stopped place.
Safepoint == wpc # "idle"

InitFinalizer ==
  /\ boot = "start" /\ instance = FALSE
  /\ is_scheduled = FALSE /\ owner = "none"
  /\ fpc = "none" /\ obj = {} /\ exception = FALSE
  /\ wpc = "idle"
  /\ registered = Objects /\ ready = {} /\ finalized = {}

-------------------------------------------------------------------------------
\* MMTkFinalizerThread::initialize: instance is set before the thread is started.
Initialize ==
  /\ boot = "start"
  /\ boot' = "created"
  /\ instance' = TRUE
  /\ fpc' = "enter"
  /\ UNCHANGED <<is_scheduled, owner, obj, exception, workerVars, ready, finalized>>

\* MMTkHeap::enable_collection calls initialize_collection after initialize().
EnableCollection ==
  /\ boot = "created"
  /\ boot' = "enabled"
  /\ UNCHANGED <<instance, is_scheduled, owner, finalizerVars, workerVars, ready>>

-------------------------------------------------------------------------------
(***************************************************************************)
(* finalizer_thread_entry.                                                 *)
(***************************************************************************)
FinalizerUnchanged == UNCHANGED <<bootVars, workerVars, exception, finalized>>

\* The constructor of ThreadBlockInVM: the thread counts as stopped from now on.
EnterBlocked ==
  /\ fpc = "enter"
  /\ fpc' = "acquire"
  /\ UNCHANGED <<is_scheduled, owner, obj, ready>> /\ FinalizerUnchanged

\* Faulty variant of LockMonitor: the old request is cleared before waiting.
LockMonitorClearRequest ==
  /\ fpc = "acquire" /\ owner = "none"
  /\ owner' = "finalizer"
  /\ is_scheduled' = FALSE
  /\ fpc' = "test"
  /\ UNCHANGED <<obj, ready>> /\ FinalizerUnchanged

LockMonitor ==
  /\ fpc = "acquire" /\ owner = "none"
  /\ owner' = "finalizer"
  /\ fpc' = "test"
  /\ UNCHANGED <<is_scheduled, obj, ready>> /\ FinalizerUnchanged

\* Faulty variant of TestScheduled: the scopes of the monitor and of ThreadBlockInVM
\* end in the wrong order, so the monitor is held until the safepoint is over.
KeepMonitorAcrossSafepoint ==
  /\ fpc = "test"
  /\ \/ is_scheduled /\ is_scheduled' = FALSE /\ fpc' = "leave" /\ UNCHANGED owner
     \/ ~is_scheduled /\ UNCHANGED is_scheduled /\ fpc' = "waiting" /\ owner' = "none"
  /\ UNCHANGED <<obj, ready>> /\ FinalizerUnchanged

\* The wait loop.  A request is consumed before the monitor is released; without a
\* request the thread waits, which releases the monitor.
TestScheduled ==
  /\ fpc = "test"
  /\ owner' = "none"
  /\ \/ is_scheduled /\ is_scheduled' = FALSE /\ fpc' = "leave"
     \/ ~is_scheduled /\ UNCHANGED is_scheduled /\ fpc' = "waiting"
  /\ UNCHANGED <<obj, ready>> /\ FinalizerUnchanged

SpuriousFinalizerWakeup ==
  /\ fpc = "waiting"
  /\ fpc' = "acquire"
  /\ UNCHANGED <<is_scheduled, owner, obj, ready>> /\ FinalizerUnchanged

\* The destructor of ThreadBlockInVM, after the monitor is released: wait for the
\* end of a safepoint.
LeaveBlocked ==
  /\ fpc = "leave" /\ ~Safepoint
  /\ fpc' = "drain"
  /\ UNCHANGED <<is_scheduled, owner, obj, ready>> /\ FinalizerUnchanged

\* get_finalized_object: take an object, or go back to waiting when there is none.
GetFinalizedObject ==
  /\ fpc = "drain"
  /\ \/ /\ \E o \in ready : obj' = {o} /\ ready' = ready \ {o}
        /\ fpc' = "invoke"
     \/ /\ ready = {}
        /\ fpc' = "enter"
        /\ obj' = {}
        /\ UNCHANGED ready
  /\ UNCHANGED <<is_scheduled, owner>> /\ FinalizerUnchanged

\* JavaCalls::call_virtual starts the Java method, unless an exception is pending.
InvokeFinalize ==
  /\ fpc = "invoke"
  /\ \/ exception /\ fpc' = "drain" /\ UNCHANGED finalized
     \/ ~exception /\ fpc' = "java" /\ finalized' = finalized \cup obj
  /\ UNCHANGED <<bootVars, workerVars, is_scheduled, owner, obj, ready, exception>>

\* Faulty variant of FinalizeReturns: the list is not drained, one object is taken for
\* each request.
FinalizeReturnsToWait ==
  /\ fpc = "java"
  /\ fpc' = "enter"
  /\ exception' \in {exception, TRUE}
  /\ UNCHANGED <<bootVars, workerVars, is_scheduled, owner, obj, ready, finalized>>

\* finalize() returns, or throws; the exception stays pending.
FinalizeReturns ==
  /\ fpc = "java"
  /\ fpc' = "drain"
  /\ \/ UNCHANGED exception
     \/ exception' = TRUE
  /\ UNCHANGED <<bootVars, workerVars, is_scheduled, owner, obj, ready, finalized>>

\* Java code stops at a safepoint poll, and goes on afterwards.
Poll ==
  /\ fpc = "java" /\ Safepoint
  /\ fpc' = "polled"
  /\ UNCHANGED <<is_scheduled, owner, obj, ready>> /\ FinalizerUnchanged

Unpoll ==
  /\ fpc = "polled" /\ ~Safepoint
  /\ fpc' = "java"
  /\ UNCHANGED <<is_scheduled, owner, obj, ready>> /\ FinalizerUnchanged

Finalizer == \/ EnterBlocked \/ LockMonitor \/ TestScheduled \/ LeaveBlocked
             \/ GetFinalizedObject \/ InvokeFinalize \/ FinalizeReturns
             \/ Poll \/ Unpoll

-------------------------------------------------------------------------------
(***************************************************************************)
(* The collector (external) and MMTkFinalizerThread::schedule.             *)
(***************************************************************************)
GCUnchanged == UNCHANGED <<bootVars, obj, exception, finalized>>

\* A collection starts only once collections are enabled.
RequestGC ==
  /\ wpc = "idle" /\ boot = "enabled"
  /\ registered # {}
  /\ wpc' = "stop"
  /\ UNCHANGED <<is_scheduled, owner, fpc, registered, ready>> /\ GCUnchanged

WorldStopped ==
  /\ wpc = "stop" /\ FinalizerStopped
  /\ wpc' = "collect"
  /\ UNCHANGED <<is_scheduled, owner, fpc, registered, ready>> /\ GCUnchanged

\* Some objects are found dead and become ready for finalization.
FindDead ==
  /\ wpc = "collect"
  /\ \E dead \in SUBSET registered :
       /\ registered' = registered \ dead
       /\ ready' = ready \cup dead
  /\ wpc' = "schedule"
  /\ UNCHANGED <<is_scheduled, owner, fpc>> /\ GCUnchanged

\* schedule_finalizer: with the monitor held, set the flag and notify unless it is
\* set already.  The pause ends after it.
Schedule ==
  /\ wpc = "schedule" /\ owner = "none"
  /\ IF is_scheduled
       THEN UNCHANGED <<is_scheduled, fpc>>
       ELSE /\ is_scheduled' = TRUE
            /\ fpc' = IF fpc = "waiting" THEN "acquire" ELSE fpc
  /\ wpc' = "idle"
  /\ UNCHANGED <<owner, registered, ready>> /\ GCUnchanged

GCWorker == WorldStopped \/ FindDead \/ Schedule

NextFinalizer ==
  \/ Initialize \/ EnableCollection
  \/ Finalizer \/ SpuriousFinalizerWakeup
  \/ RequestGC \/ GCWorker

SpecFinalizer == InitFinalizer /\ [][NextFinalizer]_threadVars

\* The threads keep running; collections need not happen.  A finalize() method
\* returns even if pauses interrupt it, and contention for m and the wait for the
\* end of a safepoint are not lost for ever.
FairnessFinalizer ==
  /\ WF_threadVars(Initialize) /\ WF_threadVars(EnableCollection)
  /\ WF_threadVars(Finalizer) /\ SF_threadVars(FinalizeReturns)
  /\ SF_threadVars(LockMonitor) /\ SF_threadVars(LeaveBlocked \/ Unpoll)
  /\ WF_threadVars(GCWorker) /\ SF_threadVars(Schedule)

FairSpecFinalizer == SpecFinalizer /\ FairnessFinalizer

-------------------------------------------------------------------------------
\* Every variable has the type of the field or local it stands for.
TypeOK ==
  /\ boot \in {"start", "created", "enabled"} /\ instance \in BOOLEAN
  /\ is_scheduled \in BOOLEAN /\ owner \in {"none", "finalizer"}
  /\ fpc \in {"none", "enter", "acquire", "test", "waiting", "leave", "drain",
              "invoke", "java", "polled"}
  /\ obj \subseteq Objects /\ Cardinality(obj) <= 1
  /\ exception \in BOOLEAN
  /\ wpc \in {"idle", "stop", "collect", "schedule"}
  /\ registered \subseteq Objects /\ ready \subseteq Objects
  /\ finalized \subseteq Objects

\* Objects are never left on the list with nobody on the way to them: as long as there
\* are any, a request is pending or about to be made, or the thread is draining the list
\* and will look at it again before it waits.
ReadyObjectsAnnounced ==
  ready # {} => \/ is_scheduled \/ wpc = "schedule"
                \/ fpc \in {"leave", "drain", "invoke", "java", "polled"}

\* finalize() is called for every object that became ready.
EveryReadyObjectFinalized ==
  \A o \in Objects : o \in ready ~> o \in finalized

\* Every object that became ready is finalized, unless a finalize() method has thrown:
\* a request made while the thread drains the list, tests the flag or falls asleep is
\* not lost.
FinalizedUnlessThrown ==
  \A o \in Objects : o \in ready ~> (o \in finalized \/ exception)

\* A pause ends although the GC worker takes the monitor of the finalizer thread.
PauseEnds == wpc = "stop" ~> wpc = "idle"
===============================================================================
