----------------------------- MODULE ObjectBarrier -----------------------------
(***************************************************************************)
(* The write barrier of the generational plans: it remembers the old       *)
(* objects that may refer to young ones (mmtkObjectBarrier.cpp and the     *)
(* files mmtkBarrierSet*.* in openjdk/).  Four kinds of code store         *)
(* references: the runtime (the Access API), assembler code (interpreter   *)
(* and stubs), and code of the compilers C1 and C2.  Each has its own rule *)
(* for leaving the barrier out.                                            *)
(*                                                                         *)
(* The barrier follows the store: it tests the unlog bit of the object     *)
(* and, if it is set, calls mmtk_object_reference_write_slow.  Whether the *)
(* bit is first tested by generated code (mmtk_enable_barrier_fastpath) or *)
(* by mmtk-core (mmtk_object_reference_write_post) makes no difference to  *)
(* these steps.  No thread stops at a safepoint inside them.               *)
(*                                                                         *)
(* External (mmtk-core): what the slow path does with the bit and the      *)
(* buffer, and the collection itself, which sees young objects only        *)
(* through remembered objects and through the stacks.  Each object has one *)
(* field; a copied region is remembered as the array it belongs to.        *)
(***************************************************************************)
EXTENDS Naturals, FiniteSets

CONSTANTS
  Objects,         \* addresses, reused once an object is dead
  Mutators,        \* Java threads
  AllocFastpath,   \* mmtk_enable_allocation_fastpath
  Null             \* the null reference

ASSUME NullAssumption == Null \notin Objects
ASSUME AllocFastpathAssumption == AllocFastpath \in BOOLEAN

VARIABLES
  gen,       \* per object: "none" (not allocated), "young" or "old"
  field,     \* per object: what it refers to
  unlogged,  \* per object: the unlog bit in the side metadata
  modbuf,    \* per mutator: the objects its barrier has remembered
  flushed,   \* remembered objects that were handed over to the collector
  pc,        \* per mutator: where it is
  obj,       \* per mutator: the object its barrier or allocation is about
  fresh      \* per mutator: the object that compiled code has just allocated

heapVars == <<gen, field, unlogged>>
vars == <<gen, field, unlogged, modbuf, flushed, pc, obj, fresh>>

Allocated == {o \in Objects : gen[o] # "none"}
Young == {o \in Objects : gen[o] = "young"}

\* Places where a mutator counts as stopped; "detached" and "exited" threads are no
\* longer in the thread list.
SafePC == {"idle", "allocated", "detached", "exited"}
BarrierPC == {"runtime", "assembler", "c1", "c2", "slow", "enqueue", "copyPost"}
AtSafepoint == \A m \in Mutators : pc[m] \in SafePC

\* What the collector is told of: the buffers of the threads in the list, and what
\* was flushed before.
Remembered == flushed \cup UNION {modbuf[m] : m \in {n \in Mutators : pc[n] \in SafePC \ {"detached", "exited"}}}

Init ==
  /\ gen = [o \in Objects |-> "none"]
  /\ field = [o \in Objects |-> Null]
  /\ unlogged = [o \in Objects |-> FALSE]
  /\ modbuf = [m \in Mutators |-> {}]
  /\ flushed = {}
  /\ pc = [m \in Mutators |-> "idle"]
  /\ obj = [m \in Mutators |-> Null]
  /\ fresh = [m \in Mutators |-> Null]

Goto(m, to, o) == pc' = [pc EXCEPT ![m] = to] /\ obj' = [obj EXCEPT ![m] = o]

-------------------------------------------------------------------------------
(***************************************************************************)
(* Allocation.  New objects are young and their unlog bit is clear         *)
(* (external).                                                             *)
(***************************************************************************)
NewObject(o, content) ==
  /\ gen[o] = "none"
  /\ gen' = [gen EXCEPT ![o] = "young"]
  /\ field' = [field EXCEPT ![o] = content]
  /\ UNCHANGED unlogged

\* Compiled code bumps the pointer itself.
FastAlloc(m, o) ==
  /\ pc[m] = "idle" /\ AllocFastpath
  /\ NewObject(o, Null)
  /\ fresh' = [fresh EXCEPT ![m] = o]
  /\ UNCHANGED <<modbuf, flushed, pc, obj>>

\* Compiled code calls the runtime; a safepoint may follow before it returns.
SlowAlloc(m, o) ==
  /\ pc[m] = "idle"
  /\ NewObject(o, Null)
  /\ Goto(m, "allocated", o)
  /\ UNCHANGED <<modbuf, flushed, fresh>>

\* Faulty variant of SlowpathAllocationExit: no barrier on the way out.
ExitWithoutBarrier(m) ==
  /\ pc[m] = "allocated"
  /\ fresh' = [fresh EXCEPT ![m] = obj[m]]
  /\ Goto(m, "idle", Null)
  /\ UNCHANGED <<heapVars, modbuf, flushed>>

\* on_slowpath_allocation_exit, called when the slow path returns to code of C2: the
\* object may have been promoted by now, and then it is remembered as if it had been
\* written already.
SlowpathAllocationExit(m) ==
  /\ pc[m] = "allocated"
  /\ modbuf' = IF unlogged[obj[m]] THEN [modbuf EXCEPT ![m] = @ \cup {obj[m]}] ELSE modbuf
  /\ fresh' = [fresh EXCEPT ![m] = obj[m]]
  /\ Goto(m, "idle", Null)
  /\ UNCHANGED <<heapVars, flushed>>

\* The slow path returns to other code, which never leaves a barrier out.
OtherAllocationExit(m) ==
  /\ pc[m] = "allocated"
  /\ Goto(m, "idle", Null)
  /\ UNCHANGED <<heapVars, modbuf, flushed, fresh>>

\* AccessBarrier::clone_in_heap: the runtime copies into an object that it has just
\* allocated, without a barrier.
CloneInHeap(m, src, o) ==
  /\ pc[m] = "idle" /\ src \in Allocated
  /\ NewObject(o, field[src])
  /\ UNCHANGED <<modbuf, flushed, pc, obj, fresh>>

-------------------------------------------------------------------------------
(***************************************************************************)
(* Stores.  "done" is FALSE for a compare-and-exchange that fails: the     *)
(* barrier runs all the same.                                              *)
(***************************************************************************)
RawStore(m, o, v, done) ==
  /\ pc[m] = "idle" /\ o \in Allocated
  /\ field' = IF done THEN [field EXCEPT ![o] = v] ELSE field
  /\ UNCHANGED <<gen, unlogged, modbuf, flushed, fresh>>

\* The post-barrier is executed by code of the given kind, unless it is removed.
Then(m, o, kind, removed) ==
  IF removed THEN UNCHANGED <<pc, obj>> ELSE Goto(m, kind, o)

\* AccessBarrier::oop_store_in_heap_at and the two atomic accesses.
RuntimeStore(m, o, v, done) ==
  RawStore(m, o, v, done) /\ Then(m, o, "runtime", FALSE)

\* MMTkBarrierSetAssembler::can_remove_barrier: a store of a constant null.
AssemblerCanRemoveBarrier(constNull) == constNull

\* MMTkBarrierSetAssembler::store_at.
AssemblerStore(m, o, v, constNull) ==
  /\ constNull => v = Null
  /\ RawStore(m, o, v, TRUE)
  /\ Then(m, o, "assembler", AssemblerCanRemoveBarrier(constNull))

\* MMTkBarrierSetC1::store_at_resolved and the two atomic accesses.
C1Store(m, o, v, done) ==
  RawStore(m, o, v, done) /\ Then(m, o, "c1", FALSE)

\* Faulty variant of C2CanRemoveBarrier: an object that was allocated some time ago.
C2CanRemoveAllocated(m, o, constNull) ==
  constNull \/ (AllocFastpath /\ fresh[m] # Null)

\* MMTkBarrierSetC2::can_remove_barrier: a constant null, or an object that was
\* allocated just before.
C2CanRemoveBarrier(m, o, constNull) == constNull \/ (AllocFastpath /\ o = fresh[m])

\* MMTkBarrierSetC2::store_at_resolved and the atomic accesses.
C2Store(m, o, v, done, constNull) ==
  /\ constNull => v = Null
  /\ RawStore(m, o, v, done)
  /\ Then(m, o, "c2", C2CanRemoveBarrier(m, o, constNull))

\* AccessBarrier::oop_arraycopy_in_heap, and the copy stubs with arraycopy_epilogue,
\* which has no barrier if the destination was allocated just before.
ArrayCopy(m, src, dst, uninitialized) ==
  /\ src \in Allocated
  /\ RawStore(m, dst, field[src], TRUE)
  /\ uninitialized => dst = fresh[m]
  /\ Then(m, dst, "copyPost", uninitialized)

-------------------------------------------------------------------------------
(***************************************************************************)
(* The post-barrier.                                                       *)
(***************************************************************************)
TestUnlogBit(m) ==
  /\ IF unlogged[obj[m]] THEN Goto(m, "slow", obj[m]) ELSE Goto(m, "idle", Null)
  /\ UNCHANGED <<heapVars, modbuf, flushed, fresh>>

RuntimeWritePost(m) == pc[m] = "runtime" /\ TestUnlogBit(m)
AssemblerWritePost(m) == pc[m] = "assembler" /\ TestUnlogBit(m)

C1WritePost(m) == pc[m] = "c1" /\ TestUnlogBit(m)
C2WritePost(m) == pc[m] = "c2" /\ TestUnlogBit(m)

\* mmtk_object_reference_write_slow: the bit is cleared by an atomic operation, which
\* one of several threads wins ...
LogObject(m) ==
  /\ pc[m] = "slow"
  /\ IF unlogged[obj[m]] THEN Goto(m, "enqueue", obj[m]) ELSE Goto(m, "idle", Null)
  /\ unlogged' = [unlogged EXCEPT ![obj[m]] = FALSE]
  /\ UNCHANGED <<gen, field, modbuf, flushed, fresh>>

\* ... and the winner puts the object into its buffer.
Enqueue(m) ==
  /\ pc[m] = "enqueue"
  /\ modbuf' = [modbuf EXCEPT ![m] = @ \cup {obj[m]}]
  /\ Goto(m, "idle", Null)
  /\ UNCHANGED <<heapVars, flushed, fresh>>

\* object_reference_array_copy_post: the region is remembered unless it is young.
ArrayCopyPost(m) ==
  /\ pc[m] = "copyPost"
  /\ modbuf' = IF gen[obj[m]] = "young" THEN modbuf
               ELSE [modbuf EXCEPT ![m] = @ \cup {obj[m]}]
  /\ Goto(m, "idle", Null)
  /\ UNCHANGED <<heapVars, flushed, fresh>>

-------------------------------------------------------------------------------
(***************************************************************************)
(* Threads that come and go.                                               *)
(***************************************************************************)
FlushMutator(m) ==
  /\ flushed' = flushed \cup modbuf[m]
  /\ modbuf' = [modbuf EXCEPT ![m] = {}]

\* Faulty variant of OnThreadDetach: the buffer is left to on_thread_destroy.
DetachWithoutFlush(m) ==
  /\ pc[m] = "idle"
  /\ Goto(m, "detached", Null)
  /\ fresh' = [fresh EXCEPT ![m] = Null]
  /\ UNCHANGED <<heapVars, modbuf, flushed>>

\* on_thread_detach: the thread flushes, then leaves the list of threads.
OnThreadDetach(m) ==
  /\ pc[m] = "idle"
  /\ FlushMutator(m)
  /\ Goto(m, "detached", Null)
  /\ fresh' = [fresh EXCEPT ![m] = Null]
  /\ UNCHANGED heapVars

\* on_thread_destroy: flush, then destroy; not ordered with collections any more.
OnThreadDestroy(m) ==
  /\ pc[m] = "detached"
  /\ FlushMutator(m)
  /\ Goto(m, "exited", Null)
  /\ UNCHANGED <<heapVars, fresh>>

\* on_thread_attach: a new thread, with a new mutator.
OnThreadAttach(m) ==
  /\ pc[m] = "exited"
  /\ FlushMutator(m)
  /\ Goto(m, "idle", Null)
  /\ UNCHANGED <<heapVars, fresh>>

-------------------------------------------------------------------------------
(***************************************************************************)
(* Collections (external), one step each: the world is stopped.            *)
(***************************************************************************)

\* A set of objects that holds everything its members refer to within "space".
Closed(S, space) == \A o \in S : field[o] \in space => field[o] \in S

\* Objects that mutators are about to use.
InUse == {obj[m] : m \in Mutators} \ {Null}

\* The survivors become old, with their unlog bit set; the bits of the remembered
\* objects are set again.  "dead" is what the collection frees.
Collect(survivors, dead) ==
  /\ gen' = [o \in Objects |-> IF o \in survivors THEN "old"
                               ELSE IF o \in dead THEN "none" ELSE gen[o]]
  /\ field' = [o \in Objects |-> IF o \in dead THEN Null ELSE field[o]]
  /\ unlogged' = [o \in Objects |-> IF o \in dead THEN FALSE
                                    ELSE o \in survivors \cup Remembered \/ unlogged[o]]
  /\ modbuf' = [m \in Mutators |->
                  IF pc[m] \in {"detached", "exited"} THEN modbuf[m] ELSE {}]
  /\ flushed' = {}
  /\ fresh' = [m \in Mutators |-> Null]
  /\ UNCHANGED <<pc, obj>>

\* A collection of the nursery keeps the young objects that remembered objects or
\* stacks refer to.  The stacks hold InUse and anything else.
NurseryCollection ==
  /\ AtSafepoint
  /\ \E survivors \in SUBSET Young :
       /\ Closed(survivors, Young)
       /\ InUse \cap Young \subseteq survivors
       /\ {field[o] : o \in Remembered} \cap Young \subseteq survivors
       /\ Collect(survivors, Young \ survivors)

\* A full collection traces everything from the stacks.
FullCollection ==
  /\ AtSafepoint
  /\ \E survivors \in SUBSET Allocated :
       /\ Closed(survivors, Allocated)
       /\ InUse \subseteq survivors
       /\ Collect(survivors, Allocated \ survivors)

-------------------------------------------------------------------------------
MutatorStep(m) ==
  \/ \E o \in Objects : FastAlloc(m, o) \/ SlowAlloc(m, o)
  \/ SlowpathAllocationExit(m) \/ OtherAllocationExit(m)
  \/ \E src, o \in Objects : CloneInHeap(m, src, o)
  \/ \E o \in Objects, v \in Allocated \cup {Null}, b \in BOOLEAN :
       \/ RuntimeStore(m, o, v, b) \/ AssemblerStore(m, o, v, b) \/ C1Store(m, o, v, b)
       \/ \E done \in BOOLEAN : C2Store(m, o, v, done, b)
  \/ \E src, dst \in Objects, b \in BOOLEAN : ArrayCopy(m, src, dst, b)
  \/ RuntimeWritePost(m) \/ AssemblerWritePost(m) \/ C1WritePost(m) \/ C2WritePost(m)
  \/ LogObject(m) \/ Enqueue(m) \/ ArrayCopyPost(m)
  \/ OnThreadDetach(m) \/ OnThreadDestroy(m) \/ OnThreadAttach(m)

Next == \/ \E m \in Mutators : MutatorStep(m)
        \/ NurseryCollection \/ FullCollection

Spec == Init /\ [][Next]_vars

-------------------------------------------------------------------------------
\* Every variable has the type of the metadata, buffer or local it stands for.
TypeOK ==
  /\ gen \in [Objects -> {"none", "young", "old"}]
  /\ field \in [Objects -> Objects \cup {Null}]
  /\ unlogged \in [Objects -> BOOLEAN]
  /\ modbuf \in [Mutators -> SUBSET Objects] /\ flushed \subseteq Objects
  /\ pc \in [Mutators -> SafePC \cup BarrierPC]
  /\ obj \in [Mutators -> Objects \cup {Null}]
  /\ fresh \in [Mutators -> Objects \cup {Null}]

\* Whenever a collection may begin, the collector is told of every old object that
\* refers to a young one: whichever code did the store, with whatever barrier left
\* out, and although the thread may have exited since.
RememberedSetComplete ==
  AtSafepoint =>
    \A o \in Objects : gen[o] = "old" /\ field[o] \in Young => o \in Remembered

\* No object, and no thread, refers to an object that a collection has freed.
NoDanglingReference ==
  /\ \A o \in Allocated : field[o] \in Allocated \cup {Null}
  /\ InUse \subseteq Allocated

\* An old object whose bit is clear, so that the barrier skips it, is remembered, or
\* the thread that cleared the bit is still about to remember it.
SkippedObjectsRemembered ==
  \A o \in Objects : gen[o] = "old" /\ ~unlogged[o] =>
    \/ o \in flushed
    \/ \E m \in Mutators : \/ o \in modbuf[m] /\ pc[m] \notin {"detached", "exited"}
                           \/ pc[m] = "enqueue" /\ obj[m] = o
===============================================================================
