----------------------------- MODULE HeapStartup ------------------------------
(***************************************************************************)
(* From the command line to the first collections: flags                   *)
(* (openjdk/thirdPartyHeapArguments.cpp), MMTkHeap::initialize,            *)
(* post_initialize and enable_collection (openjdk/mmtkHeap.cpp), the       *)
(* options and the two singletons of the Rust half (mmtk/src/api.rs,       *)
(* lib.rs), the life of mutator and collector threads                      *)
(* (openjdk/mmtkMutator.cpp, mmtkBarrierSet.cpp, mmtkUpcalls.cpp,          *)
(* mmtk/src/active_plan.rs), and the scanning of objects in a pause, which *)
(* relies on all of it.                                                    *)
(*                                                                         *)
(* The value of an option is the name of the source it comes from; the     *)
(* heap size is the value of gc_trigger, and -Xms and -Xmx are its flags.  *)
(* External: HotSpot creates the main thread before the heap, chooses the  *)
(* encoding of class pointers after the heap is initialized, and keeps a   *)
(* list of Java threads that does not change during a pause.  mmtk-core    *)
(* collects only after initialize_collection.                              *)
(***************************************************************************)
EXTENDS ObjectScanning

CONSTANTS
  None,         \* no singleton, no pause, no scan
  Main,         \* the main thread
  Others,       \* other Java threads
  NWorkers,     \* GC workers that mmtk-core asks for
  Settings,     \* what may be given: [Options -> SUBSET {"env", "flag", "bulk"}]
  NarrowKlass   \* base and shift that HotSpot may choose for class pointers

Options == {"threads", "transparent_hugepages", "gc_trigger", "plan"}
JvmFlags == {"threads", "transparent_hugepages"}
Threads == Others \cup {Main}
Sources == {"mmtk-core", "openjdk", "env", "flag", "bulk", "build"}

ASSUME ThreadsAssumption == Main \notin Others /\ NWorkers \in Nat \ {0}
ASSUME SettingsAssumption ==
  \A g \in Settings : /\ g \in [Options -> SUBSET {"env", "flag", "bulk"}]
                      /\ "flag" \notin g["plan"]
ASSUME NoneAssumption == None \notin [options : [Options -> Sources], compressed : BOOLEAN]
ASSUME NarrowKlassAssumption ==   \* classes are aligned, and behind the base
  \A k \in NarrowKlass : /\ k.base \in 0 .. KlassAddress /\ k.shift \in {0, 3}
                         /\ (KlassAddress - k.base) % Times(k.shift) = 0

VARIABLES
  phase,        \* how far the main thread has come in starting the VM
  flag,         \* UseCompressedOops
  classFlag,    \* UseCompressedClassPointers
  narrowKlass,  \* HotSpot's base and shift of class pointers, zero at first
  given,        \* options given by environment, JVM flags and ThirdPartyHeapOptions
  forced,       \* a plan was selected when the library was built
  enabled,      \* USE_COMPRESSED_OOPS
  builder,      \* BUILDER.options
  mmtk,         \* the singleton: None, or its options and its COMPRESSED
  upcalls,      \* UPCALLS is set
  klassDecode,  \* COMPRESSED_KLASS_BASE and COMPRESSED_KLASS_SHIFT
  companion,    \* the companion thread runs
  finalizer,    \* MMTkFinalizerThread::instance is set
  workers,      \* collector threads started, MMTkHeap::_n_workers
  thread,       \* [Threads -> how far each thread has come in its life]
  mutator,      \* [Threads -> its third_party_heap_mutator: unbound, bound, destroyed]
  visited,      \* mutators given to mmtk-core in this pause; None between pauses
  scan          \* the object scanned last, and what was found

cmdVars == <<flag, narrowKlass, given, forced>>
rustVars == <<enabled, builder, mmtk, upcalls, klassDecode>>
threadVars == <<companion, finalizer, workers>>
lifeVars == <<thread, mutator>>
gcVars == <<visited, scan>>
vars == <<phase, cmdVars, classFlag, rustVars, threadVars, lifeVars, gcVars>>

Init ==
  /\ phase = "create"
  /\ flag \in BOOLEAN /\ classFlag \in BOOLEAN
  /\ narrowKlass = [base |-> 0, shift |-> 0] /\ given \in Settings /\ forced \in BOOLEAN
  /\ enabled = FALSE /\ builder = [o \in Options |-> "mmtk-core"] /\ mmtk = None
  /\ upcalls = FALSE /\ klassDecode = [base |-> 0, shift |-> 0]
  /\ companion = FALSE /\ finalizer = FALSE /\ workers = 0
  /\ thread = [t \in Threads |-> "none"] /\ mutator = [t \in Threads |-> "unbound"]
  /\ visited = None /\ scan = None

\* The main thread takes one step of start-up, or the VM exits.
Step(from, to) == phase = from /\ phase' = to
Exit(from) == Step(from, "exit")

\* Forcing a singleton (with_singleton!, or lazy_static::initialize): the first one to
\* do so creates mmtk-core with the options the builder has at this moment.
Singleton ==
  IF mmtk = None THEN [options |-> builder, compressed |-> enabled] ELSE mmtk

-------------------------------------------------------------------------------
(***************************************************************************)
(* Mutator threads.                                                        *)
(***************************************************************************)

\* Faulty variant of IsReadyToBind.
AlwaysReadyToBind == TRUE

\* MMTkMutatorContext::is_ready_to_bind.
IsReadyToBind == mmtk # None

\* MMTkMutatorContext::bind; the copy of the mutator becomes a part of the thread.
Bind(t) ==
  /\ mutator' = [mutator EXCEPT ![t] = "bound"]
  /\ mmtk' = Singleton

\* HotSpot creates a thread, and binds a mutator if it can.
NewThread(t) ==
  /\ thread' = [thread EXCEPT ![t] = "created"]
  /\ IF IsReadyToBind THEN Bind(t) ELSE UNCHANGED <<mutator, mmtk>>

CreateMainThread ==
  /\ Step("create", "arguments")
  /\ NewThread(Main)
  /\ UNCHANGED <<cmdVars, classFlag, enabled, builder, upcalls, klassDecode, threadVars,
                 gcVars>>

LifeUnchanged ==
  UNCHANGED <<cmdVars, classFlag, enabled, builder, upcalls, klassDecode,
              threadVars, gcVars>>

CreateThread(t) ==
  /\ phase \in {"enable", "spawn", "running"} /\ thread[t] = "none"
  /\ NewThread(t)
  /\ UNCHANGED phase /\ LifeUnchanged

\* The thread joins the list, the main thread before collections are enabled.
\* on_thread_attach flushes its mutator.
OnThreadAttach(t) ==
  /\ thread[t] = "created" /\ visited = None
  /\ \/ t = Main /\ Step("attach", "enable")
     \/ t # Main /\ UNCHANGED phase
  /\ thread' = [thread EXCEPT ![t] = "listed"]
  /\ UNCHANGED <<mutator, mmtk>> /\ LifeUnchanged

\* The thread leaves the list; on_thread_detach flushes.
OnThreadDetach(t) ==
  /\ t # Main /\ thread[t] = "listed" /\ visited = None
  /\ thread' = [thread EXCEPT ![t] = "detached"]
  /\ UNCHANGED <<phase, mutator, mmtk>> /\ LifeUnchanged

\* flush(), then destroy().
OnThreadDestroy(t) ==
  /\ thread[t] = "detached"
  /\ thread' = [thread EXCEPT ![t] = "gone"]
  /\ mutator' = [mutator EXCEPT ![t] = "destroyed"]
  /\ UNCHANGED <<phase, mmtk>> /\ LifeUnchanged

-------------------------------------------------------------------------------
(***************************************************************************)
(* ThirdPartyHeapArguments::initialize and MMTkHeap::initialize.           *)
(***************************************************************************)
OptionsUnchanged ==
  UNCHANGED <<cmdVars, mmtk, upcalls, klassDecode, threadVars, lifeVars, gcVars>>

\* Faulty variant of ArgumentsInitialize: class pointers keep their own flag.
ArgumentsInitializeThreadsOnly ==
  /\ Step("arguments", "flags") \/ Exit("arguments")
  /\ UNCHANGED <<classFlag, enabled, builder>> /\ OptionsUnchanged

\* Class pointers are compressed if and only if references are.  The VM exits if it is
\* to run without GC threads.
ArgumentsInitialize ==
  /\ Step("arguments", "flags") \/ Exit("arguments")
  /\ classFlag' = flag
  /\ UNCHANGED <<enabled, builder>> /\ OptionsUnchanged

\* set_bool_option_from_env_var, which aborts on an unknown value, and
\* mmtk_enable_compressed_oops.
EnableCompressedOops ==
  /\ \/ Step("flags", "defaults") /\ enabled' = flag
     \/ Exit("flags") /\ UNCHANGED enabled
  /\ UNCHANGED <<classFlag, builder>> /\ OptionsUnchanged

SetOptions(os, source) == [o \in Options |-> IF o \in os THEN source ELSE builder[o]]
GivenBy(source) == {o \in Options : source \in given[o]}

\* set_mmtk_options(true): the JVM flags that have their default value.
SetDefaultOptions ==
  /\ Step("defaults", "env")
  /\ builder' = SetOptions(JvmFlags \ GivenBy("flag"), "openjdk")
  /\ UNCHANGED <<classFlag, enabled>> /\ OptionsUnchanged

ReadEnvVarSettings ==
  /\ Step("env", "flagged")
  /\ builder' = SetOptions(GivenBy("env"), "env")
  /\ UNCHANGED <<classFlag, enabled>> /\ OptionsUnchanged

\* set_mmtk_options(false): the JVM flags that have been set.
SetNonDefaultOptions ==
  /\ Step("flagged", "bulk")
  /\ builder' = SetOptions(JvmFlags \cap GivenBy("flag"), "flag")
  /\ UNCHANGED <<classFlag, enabled>> /\ OptionsUnchanged

\* process_bulk; an invalid string ends the VM.
ProcessBulk ==
  /\ \/ Step("bulk", "heapsize") /\ builder' = SetOptions(GivenBy("bulk"), "bulk")
     \/ Exit("bulk") /\ UNCHANGED builder
  /\ UNCHANGED <<classFlag, enabled>> /\ OptionsUnchanged

\* The sizes that the collector policy has: those of the command line, or HotSpot's defaults.
PolicySizes == IF "flag" \in given["gc_trigger"] THEN "flag" ELSE "openjdk"

\* mmtk_set_heap_size overwrites gc_trigger, whatever it was; sizes may be refused.
SetHeapSize ==
  /\ \/ Step("heapsize", "init") /\ builder' = SetOptions({"gc_trigger"}, PolicySizes)
     \/ Exit("heapsize") /\ UNCHANGED builder
  /\ UNCHANGED <<classFlag, enabled>> /\ OptionsUnchanged

\* openjdk_gc_init: the upcalls, the plan selected at build time, the singleton.  It
\* panics if there is a singleton already, and may panic because memory layouts differ
\* or compressed references cannot cover the heap.
OpenjdkGcInit ==
  LET planned == IF forced THEN SetOptions({"plan"}, "build") ELSE builder IN
  /\ upcalls' = TRUE
  /\ \/ /\ mmtk = None /\ Step("init", "threads")
        /\ builder' = planned /\ mmtk' = [options |-> planned, compressed |-> enabled]
     \/ Exit("init") /\ builder' \in {builder, planned} /\ UNCHANGED mmtk
  /\ UNCHANGED <<cmdVars, classFlag, enabled, klassDecode, threadVars, lifeVars, gcVars>>

\* The rest of MMTkHeap::initialize: what needs the singleton, and the companion thread,
\* which may fail to start.
FinishInitialize ==
  /\ \/ Step("threads", "metaspace") /\ companion' = TRUE
     \/ Exit("threads") /\ UNCHANGED companion
  /\ mmtk' = Singleton
  /\ UNCHANGED <<cmdVars, classFlag, enabled, builder, upcalls, klassDecode, finalizer,
                 workers, lifeVars, gcVars>>

\* HotSpot places the classes (external).
ChooseNarrowKlass ==
  /\ Step("metaspace", "bindmain")
  /\ narrowKlass' \in NarrowKlass
  /\ UNCHANGED <<flag, given, forced, classFlag, rustVars, threadVars, lifeVars, gcVars>>

\* HotSpot binds the main thread, which is older than the heap.  The first bind ends the
\* VM if the two halves disagree about the size of an allocator.
BindMainThread ==
  /\ \/ Step("bindmain", "post") /\ Bind(Main)
     \/ Exit("bindmain") /\ UNCHANGED <<mutator, mmtk>>
  /\ UNCHANGED <<cmdVars, classFlag, enabled, builder, upcalls, klassDecode, threadVars,
                 thread, gcVars>>

-------------------------------------------------------------------------------
(***************************************************************************)
(* post_initialize and enable_collection.                                  *)
(***************************************************************************)
StartUnchanged == UNCHANGED <<cmdVars, classFlag, enabled, builder, upcalls, lifeVars, gcVars>>

PostInitialize ==
  /\ Step("post", "attach")
  /\ IF flag THEN klassDecode' = narrowKlass ELSE UNCHANGED klassDecode
  /\ UNCHANGED <<mmtk, threadVars>> /\ StartUnchanged

\* Faulty variant of EnableCollection: the workers do not wait for the finalizer thread.
EnableCollectionFirst ==
  /\ Step("enable", "spawn") \/ Exit("enable")
  /\ UNCHANGED <<finalizer, mmtk, klassDecode, companion, workers>> /\ StartUnchanged

\* MMTkFinalizerThread::initialize, before initialize_collection is called.
EnableCollection ==
  /\ \/ Step("enable", "spawn") /\ finalizer' = TRUE
     \/ Exit("enable") /\ UNCHANGED finalizer
  /\ UNCHANGED <<mmtk, klassDecode, companion, workers>> /\ StartUnchanged

\* mmtk_spawn_gc_thread and MMTkCollectorThread::run, once for each worker, inside
\* initialize_collection.  Creating the thread may fail.
SpawnGcThread ==
  /\ \/ Exit("spawn") /\ UNCHANGED workers
     \/ /\ Step("spawn", IF workers + 1 = NWorkers THEN "running" ELSE "spawn")
        /\ workers' = workers + 1
  /\ mmtk' = Singleton
  /\ UNCHANGED <<klassDecode, companion, finalizer>> /\ StartUnchanged

-------------------------------------------------------------------------------
(***************************************************************************)
(* Collections.                                                            *)
(***************************************************************************)
GcUnchanged == UNCHANGED <<phase, cmdVars, classFlag, rustVars, threadVars, lifeVars>>

\* Threads::list, over which mmtk_stop_all_mutators and mmtk_get_mutators iterate.
ThreadList == {t \in Threads : thread[t] = "listed"}

StopAllMutators ==
  /\ phase = "running" /\ visited = None
  /\ visited' = ThreadList
  /\ UNCHANGED scan /\ GcUnchanged

\* An object of HotSpot is scanned and measured, with the widths the Rust half assumes.
\* Scanning changes nothing, so one object in each pause is enough.
ScanObject(s, no_reference_types) ==
  LET o == HotSpotObject(flag, classFlag, s, narrowKlass.base, narrowKlass.shift) IN
  /\ visited # None /\ scan = None
  /\ scan' = [shape |-> s, no_reference_types |-> no_reference_types,
              klass |-> KlassField(enabled, o, klassDecode.base, klassDecode.shift),
              slots |-> OopIterate(enabled, o, no_reference_types),
              size |-> Size(enabled, o)]
  /\ UNCHANGED visited /\ GcUnchanged

ResumeMutators ==
  /\ visited # None
  /\ visited' = None /\ scan' = None
  /\ GcUnchanged

Startup == \/ CreateMainThread \/ ArgumentsInitialize \/ EnableCompressedOops
           \/ SetDefaultOptions \/ ReadEnvVarSettings \/ SetNonDefaultOptions
           \/ ProcessBulk \/ SetHeapSize \/ OpenjdkGcInit \/ FinishInitialize
           \/ ChooseNarrowKlass \/ BindMainThread \/ PostInitialize \/ EnableCollection

Next == \/ Startup \/ SpawnGcThread
        \/ \E t \in Threads : \/ CreateThread(t) \/ OnThreadAttach(t)
                              \/ OnThreadDetach(t) \/ OnThreadDestroy(t)
        \/ StopAllMutators \/ ResumeMutators
        \/ \E s \in Shapes, no_reference_types \in BOOLEAN : ScanObject(s, no_reference_types)

Spec == Init /\ [][Next]_vars

-------------------------------------------------------------------------------
(***************************************************************************)
(* Properties.                                                             *)
(***************************************************************************)

\* The priorities in the comment of MMTkHeap::initialize.  Both kinds of command line
\* argument have the highest one; the later of them in the code wins.
Priority(o) ==
  IF "bulk" \in given[o] THEN "bulk"
  ELSE IF "flag" \in given[o] THEN "flag"
  ELSE IF "env" \in given[o] THEN "env"
  ELSE IF o \in JvmFlags THEN "openjdk" ELSE "mmtk-core"

\* mmtk-core is created once, with the reference width of the JVM, and with every option
\* but gc_trigger from the source of the highest priority; a plan selected at build time
\* comes before all.  Of gc_trigger only this is said: a heap size on the command line
\* takes effect.  What HotSpot's default sizes overwrite is left to the next property.
CreatedWithFinalOptions ==
  mmtk # None =>
    /\ mmtk.compressed = flag
    /\ \A o \in Options \ {"gc_trigger"} :
         mmtk.options[o] = IF o = "plan" /\ forced THEN "build" ELSE Priority(o)
    /\ "flag" \in given["gc_trigger"] => mmtk.options["gc_trigger"] = "flag"

\* The comment numbers the priorities of the sources.
Levels == <<{"mmtk-core"}, {"openjdk"}, {"env"}, {"flag", "bulk"}, {"build"}>>
Level(source) == CHOOSE i \in DOMAIN Levels : source \in Levels[i]

\* What the comment of MMTkHeap::initialize promises of every option: "the values from the
\* highest priority source will take effect".  No option has been given by a source whose
\* priority is higher than that of the source in effect.
HighestPriorityTakesEffect ==
  mmtk # None =>
    \A o \in Options : \A source \in given[o] : Level(source) <= Level(mmtk.options[o])

\* Whenever the world is stopped, all that a collection uses exists: the upcalls, the
\* companion thread, the finalizer thread; and it sees all Java threads, each of them
\* with a mutator that is bound and not destroyed.
CollectionFindsAllReady ==
  visited # None =>
    /\ upcalls /\ companion /\ finalizer
    /\ visited = ThreadList /\ Main \in visited
    /\ \A t \in visited : mutator[t] = "bound"

\* Scanning an object visits the slots that hold its strong references, each of them
\* once, in every layout that HotSpot may have been told to use.
ScanVisitsStrongSlots ==
  scan # None =>
    /\ scan.klass = KlassAddress
    /\ Range(scan.slots) =
         StrongSlots(flag, classFlag, scan.shape, scan.no_reference_types)
    /\ IsInjective(scan.slots)

\* The size is that of the object, to the byte: what copying moves is all of it, and ends
\* where the next object begins.
SizeIsExact ==
  scan # None => scan.size = ObjectBytes(flag, classFlag, scan.shape)
===============================================================================
