------------------------------ MODULE SATBBarrier ------------------------------
(***************************************************************************)
(* The barrier of the concurrent plan (mmtkSATBBarrier.cpp and the files   *)
(* mmtkBarrierSet*.* in openjdk/).  While mutators run, the collector      *)
(* marks what was reachable in the initial pause, the snapshot.  Before a  *)
(* reference is overwritten the write barrier records the old value, and   *)
(* a barrier on loads records what is taken out of a Reference object,     *)
(* which marking does not look through.  The runtime (the Access API),     *)
(* assembler code, and code of the compilers C1 and C2 each have their own *)
(* rules for leaving a barrier out.                                        *)
(*                                                                         *)
(* Whether the unlog bit is tested by generated code or by mmtk-core       *)
(* (mmtk_enable_barrier_fastpath) makes no difference to these steps.  No  *)
(* thread stops at a safepoint between a barrier and its access.           *)
(*                                                                         *)
(* External (mmtk-core, the concurrent plan): the slow path, marking, and  *)
(* the pauses.  The final pause does not scan the stacks again.  Each      *)
(* object has one field, which is the referent of a Reference.             *)
(***************************************************************************)
EXTENDS Naturals, FiniteSets

CONSTANTS
  Objects,         \* addresses, reused once an object is dead
  MaxReferences,   \* bound: how many of them may hold Reference objects
  Mutators,        \* Java threads
  AllocFastpath,   \* mmtk_enable_allocation_fastpath
  Null             \* the null reference

ASSUME ObjectsAssumption == Null \notin Objects /\ MaxReferences \in Nat
ASSUME AllocFastpathAssumption == AllocFastpath \in BOOLEAN

VARIABLES
  references,  \* addresses where Reference objects are allocated: never changes
  live,        \* objects that are allocated
  field,       \* per object: what it refers to
  unlogged,    \* objects whose unlog bit is set
  marked,      \* objects that marking has visited, or allocated since it began
  grey,        \* objects that marking has still to visit, those recorded included
  candidates,  \* References that were scanned: add_weak_candidate
  phase,       \* "idle", or "marking" from an initial to a final pause
  world,       \* "running", "stopped", or "resuming": stopped, flag up to date
  cmActive,    \* CONCURRENT_MARKING_ACTIVE
  locals,      \* objects on the stacks
  pc,          \* per mutator: where it is
  obj, val,    \* per mutator: the object it is about to access, the value it writes
  fresh,       \* per mutator: the object that compiled code has just allocated
  snapshot     \* history: what was reachable in the initial pause

heapVars == <<live, field, unlogged>>
markVars == <<marked, grey, candidates>>
gcVars == <<references, phase, world, cmActive, snapshot>>
accessVars == <<pc, obj, val>>
vars == <<references, live, field, unlogged, marked, grey, candidates, phase,
          world, cmActive, locals, pc, obj, val, fresh, snapshot>>

SafePC == {"idle", "allocated"}
AtSafepoint == world = "running" /\ \A m \in Mutators : pc[m] \in SafePC

\* What marking finds in an object: scan_object does not visit the referent of a
\* Reference.
StrongField(o) == IF o \in references THEN {} ELSE {field[o]} \ {Null}

\* The least set that holds S and what its members refer to, those in "black" excepted,
\* whose fields are not looked at (again).
Closure(S, black) ==
  {o \in live : \A C \in SUBSET live :
     S \subseteq C /\ (\A p \in C \ black : StrongField(p) \subseteq C) => o \in C}

Reach(S) == Closure(S, {})

\* What a final pause keeps if it comes now: objects that are marked are not scanned again.
WillBeMarked == Closure(marked \cup grey, marked)

\* What the stacks keep alive.
Roots == locals \cup ({obj[m] : m \in Mutators} \ {Null})

Init ==
  /\ references \in {S \in SUBSET Objects : Cardinality(S) <= MaxReferences}
  /\ live = {} /\ field = [o \in Objects |-> Null] /\ unlogged = {}
  /\ marked = {} /\ grey = {} /\ candidates = {}
  /\ phase = "idle" /\ world = "running" /\ cmActive = 0
  /\ locals = {}
  /\ pc = [m \in Mutators |-> "idle"]
  /\ obj = [m \in Mutators |-> Null] /\ val = [m \in Mutators |-> Null]
  /\ fresh = [m \in Mutators |-> Null]
  /\ snapshot = {}

Goto(m, to, o, v) ==
  /\ pc' = [pc EXCEPT ![m] = to]
  /\ obj' = [obj EXCEPT ![m] = o] /\ val' = [val EXCEPT ![m] = v]

\* What a barrier records gets to the marker, from the final pause at the latest; it
\* is dropped while no marking is going on (external).
Record(S) == grey' = IF phase = "marking" THEN grey \cup S ELSE grey

Idle(m) == world = "running" /\ pc[m] = "idle"

-------------------------------------------------------------------------------
(***************************************************************************)
(* Allocation.  An object that is allocated during marking counts as       *)
(* marked; its fields are null and its unlog bit is clear (external).      *)
(***************************************************************************)
NewObject(o) ==
  /\ o \notin live
  /\ live' = live \cup {o}
  /\ marked' = IF phase = "marking" THEN marked \cup {o} ELSE marked
  /\ UNCHANGED <<field, unlogged, grey, candidates, gcVars>>

\* Compiled code bumps the pointer itself.
FastAlloc(m, o) ==
  /\ Idle(m) /\ AllocFastpath
  /\ NewObject(o)
  /\ locals' = locals \cup {o}
  /\ fresh' = [fresh EXCEPT ![m] = o]
  /\ UNCHANGED accessVars

\* Compiled code or the runtime takes the slow path; a safepoint may follow.
SlowAlloc(m, o) ==
  /\ Idle(m)
  /\ NewObject(o)
  /\ Goto(m, "allocated", o, Null)
  /\ UNCHANGED <<locals, fresh>>

\* on_slowpath_allocation_exit: object_probable_write is empty, although C2 leaves
\* out the barriers of the stores that follow.
SlowpathAllocationExit(m) ==
  /\ world = "running" /\ pc[m] = "allocated"
  /\ locals' = locals \cup {obj[m]}
  /\ fresh' = [fresh EXCEPT ![m] = obj[m]]
  /\ Goto(m, "idle", Null, Null)
  /\ UNCHANGED <<heapVars, markVars, gcVars>>

\* AccessBarrier::clone_in_heap: the runtime copies into the new object, without a
\* barrier.
CloneInHeap(m, src) ==
  /\ world = "running" /\ pc[m] = "allocated"
  /\ src \in locals \ references /\ obj[m] \notin references
  /\ field' = [field EXCEPT ![obj[m]] = field[src]]
  /\ locals' = locals \cup {obj[m]}
  /\ Goto(m, "idle", Null, Null)
  /\ UNCHANGED <<live, unlogged, markVars, gcVars, fresh>>

-------------------------------------------------------------------------------
(***************************************************************************)
(* Stores.  The barrier comes first: it tests the unlog bit of the object  *)
(* and calls mmtk_object_reference_write_slow if the bit is set.  A bit    *)
(* that is clear stays clear until the next pause, so the test and the     *)
(* access that follows at once are one step.  A compare-and-exchange that  *)
(* fails has run the barrier all the same: only if that took the slow path *)
(* is it a step of its own ("done" is FALSE).                              *)
(***************************************************************************)
Access(o, v, done) == field' = IF done THEN [field EXCEPT ![o] = v] ELSE field

WritePre(m, o, v, slow) ==
  /\ Idle(m)
  /\ IF slow
     THEN Goto(m, "slow", o, v) /\ UNCHANGED field
     ELSE Access(o, v, TRUE) /\ UNCHANGED accessVars
  /\ UNCHANGED <<live, unlogged, markVars, gcVars, locals, fresh>>

\* MMTkSATBBarrierSetRuntime::object_reference_write_pre.
RuntimeWritePre(m, o, v) == WritePre(m, o, v, o \in unlogged)

\* MMTkSATBBarrierSetAssembler::object_reference_write_pre.  A store of null has a
\* barrier as well: skip_const_null is false.
AssemblerWritePre(m, o, v) == WritePre(m, o, v, o \in unlogged)

\* MMTkSATBBarrierSetC1::object_reference_write_pre.  Code that is still to be
\* patched goes to the slow path without a test.
C1WritePre(m, o, v, needsPatching) ==
  WritePre(m, o, v, needsPatching \/ o \in unlogged)

\* Faulty variant of C2CanRemoveBarrier: as for the object barrier, a store of null
\* needs no barrier.
C2CanRemoveNull(m, o, v) == v = Null \/ (AllocFastpath /\ o = fresh[m])

\* MMTkBarrierSetC2::can_remove_barrier with skip_const_null = false.
C2CanRemoveBarrier(m, o, v) == AllocFastpath /\ o = fresh[m]

\* MMTkSATBBarrierSetC2::object_reference_write_pre.
C2WritePre(m, o, v) ==
  WritePre(m, o, v, ~C2CanRemoveBarrier(m, o, v) /\ o \in unlogged)

\* mmtk_object_reference_write_slow records all fields of the object ...
RecordFields(m) ==
  /\ pc[m] = "slow"
  /\ Record(StrongField(obj[m]))
  /\ candidates' = candidates \cup ({obj[m]} \cap references)
  /\ Goto(m, "log", obj[m], val[m])
  /\ UNCHANGED <<heapVars, marked, gcVars, locals, fresh>>

\* ... and then clears the bit, so that later stores take the fast path.
LogObject(m) ==
  /\ pc[m] = "log"
  /\ unlogged' = unlogged \ {obj[m]}
  /\ Goto(m, "store", obj[m], val[m])
  /\ UNCHANGED <<live, field, markVars, gcVars, locals, fresh>>

\* The access that follows the slow path.
StoreAfterSlow(m, done) ==
  /\ pc[m] = "store"
  /\ Access(obj[m], val[m], done)
  /\ Goto(m, "idle", Null, Null)
  /\ UNCHANGED <<live, unlogged, markVars, gcVars, locals, fresh>>

-------------------------------------------------------------------------------
(***************************************************************************)
(* Array copies.                                                           *)
(***************************************************************************)

\* object_reference_array_copy_pre and arraycopy_prologue: what the destination holds
\* is recorded, whatever its unlog bit; a copy of length zero does nothing.
ArrayCopyPre(m, src, dst) ==
  /\ Idle(m) /\ {src, dst} \subseteq locals \ references
  /\ Record(StrongField(dst))
  /\ Goto(m, "copy", dst, src)
  /\ UNCHANGED <<heapVars, marked, candidates, gcVars, locals, fresh>>

CopyElements(m) ==
  /\ pc[m] = "copy"
  /\ field' = [field EXCEPT ![obj[m]] = field[val[m]]]
  /\ Goto(m, "idle", Null, Null)
  /\ UNCHANGED <<live, unlogged, markVars, gcVars, locals, fresh>>

\* C2 copies into an array that it has just allocated without a barrier:
\* array_copy_requires_gc_barriers is false.
C2ArrayCopy(m, src, dst) ==
  /\ Idle(m) /\ {src, dst} \subseteq locals \ references /\ dst = fresh[m]
  /\ field' = [field EXCEPT ![dst] = field[src]]
  /\ UNCHANGED <<live, unlogged, markVars, gcVars, locals, accessVars, fresh>>

-------------------------------------------------------------------------------
(***************************************************************************)
(* Loads.                                                                  *)
(***************************************************************************)

\* A strong field: no barrier.
LoadField(m, o) ==
  /\ Idle(m) /\ o \in locals
  /\ locals' = locals \cup StrongField(o)
  /\ UNCHANGED <<heapVars, markVars, gcVars, accessVars, fresh>>

\* The accesses to a referent that each kind of code makes (external): code that
\* knows it is one (Reference.get), and code that does not (Unsafe, reflection).
Loads == ({"runtime", "c1"} \X {"weak", "phantom", "unknown"})
         \cup ({"assembler"} \X {"weak", "phantom"}) \cup ({"c2"} \X {"weak", "unknown"})

RuntimeNeedsEnqueue(decorator) == decorator # "strong"
AssemblerOnReference(decorator) == decorator \in {"weak", "phantom"}

\* Faulty variant of C1OnReference: no barrier for an access to an unknown field.
C1OnKnownReference(decorator, r) == decorator \in {"weak", "phantom"}

\* An unknown access has a barrier if the object turns out to be a Reference.
C1OnReference(decorator, r) ==
  decorator \in {"weak", "phantom"} \/ (decorator = "unknown" /\ r \in references)
C2NeedReadBarrier(decorator, r) ==
  decorator = "weak" \/ (decorator = "unknown" /\ r \in references)

NeedsLoadBarrier(kind, decorator, r) ==
  CASE kind = "runtime"   -> RuntimeNeedsEnqueue(decorator)
    [] kind = "assembler" -> AssemblerOnReference(decorator)
    [] kind = "c1"        -> C1OnReference(decorator, r)
    [] kind = "c2"        -> C2NeedReadBarrier(decorator, r)

\* Faulty variant of LoadReference: null is recorded like any other value.
LoadReferenceOrNull(v) ==
  IF cmActive = 1 THEN Record({v}) ELSE UNCHANGED grey

\* load_reference: the slow path is taken during marking, for a value other than null.
LoadReference(v) ==
  IF cmActive = 1 /\ v # Null THEN Record({v}) ELSE UNCHANGED grey

\* A load of the referent, with the barrier that follows it.
LoadReferent(m, r) ==
  /\ Idle(m) /\ r \in locals
  /\ \E barrier \in {NeedsLoadBarrier(load[1], load[2], r) : load \in Loads} :
       IF barrier THEN LoadReference(field[r]) ELSE UNCHANGED grey
  /\ locals' = locals \cup ({field[r]} \ {Null})
  /\ UNCHANGED <<heapVars, marked, candidates, gcVars, accessVars, fresh>>

\* A variable goes out of scope.
Forget(o) ==
  /\ world = "running" /\ o \in locals
  /\ locals' = locals \ {o}
  /\ fresh' = [m \in Mutators |-> IF fresh[m] = o THEN Null ELSE fresh[m]]
  /\ UNCHANGED <<heapVars, markVars, gcVars, accessVars>>

-------------------------------------------------------------------------------
(***************************************************************************)
(* The collector (external), and the flag that resume_mutators sets.       *)
(***************************************************************************)

\* Every pause ends with resume_mutators.
Pause ==
  /\ AtSafepoint
  /\ world' = "stopped"
  /\ fresh' = [m \in Mutators |-> Null]
  /\ UNCHANGED <<references, cmActive, locals, accessVars>>

\* The initial pause scans the stacks and sets all unlog bits.
InitialPause ==
  /\ phase = "idle" /\ Pause
  /\ phase' = "marking"
  /\ marked' = {} /\ grey' = Roots /\ candidates' = {}
  /\ unlogged' = live
  /\ snapshot' = Reach(Roots)
  /\ UNCHANGED <<live, field>>

\* A GC worker visits an object, while mutators run.
MarkObject(o) ==
  /\ phase = "marking" /\ world = "running" /\ o \in grey
  /\ grey' = (grey \ {o}) \cup (IF o \in marked THEN {} ELSE StrongField(o))
  /\ marked' = marked \cup {o}
  /\ candidates' = IF o \in marked THEN candidates ELSE candidates \cup ({o} \cap references)
  /\ UNCHANGED <<heapVars, gcVars, locals, accessVars, fresh>>

\* Everything but "kept" is freed, and the References among the candidates are cleared
\* if their referent is.
Sweep(kept, cands) ==
  /\ live' = kept
  /\ field' = [o \in Objects |->
                 IF o \notin kept \/ (o \in cands /\ field[o] \notin kept) THEN Null
                 ELSE field[o]]
  /\ unlogged' = {} /\ marked' = {} /\ grey' = {} /\ candidates' = {}
  /\ phase' = "idle" /\ snapshot' = {}

\* The final pause marks what is left, and frees the rest.
FinalPause ==
  /\ phase = "marking" /\ Pause
  /\ Sweep(WillBeMarked, candidates \cup (references \cap (WillBeMarked \ marked)))

\* A full collection, which gives up marking.
FullPause ==
  /\ Pause
  /\ Sweep(Reach(Roots), references)

\* Faulty variant of SetConcurrentMarkingActive: the flag is not kept up to date.
LeaveFlag ==
  /\ world = "stopped"
  /\ world' = "resuming"
  /\ UNCHANGED <<references, heapVars, markVars, phase, cmActive, snapshot, locals,
                 accessVars, fresh>>

\* VMCollection::resume_mutators asks the plan whether marking is going on ...
SetConcurrentMarkingActive ==
  /\ world = "stopped"
  /\ cmActive' = IF phase = "marking" THEN 1 ELSE 0
  /\ world' = "resuming"
  /\ UNCHANGED <<references, heapVars, markVars, phase, snapshot, locals, accessVars, fresh>>

\* ... before the mutators run again.
ResumeMutators ==
  /\ world = "resuming"
  /\ world' = "running"
  /\ UNCHANGED <<references, heapVars, markVars, phase, cmActive, snapshot, locals,
                 accessVars, fresh>>

-------------------------------------------------------------------------------
MutatorStep(m) ==
  \/ \E o \in Objects : FastAlloc(m, o) \/ SlowAlloc(m, o)
  \/ SlowpathAllocationExit(m) \/ (\E src \in Objects : CloneInHeap(m, src))
  \/ \E o \in locals, v \in locals \cup {Null} :
       \/ RuntimeWritePre(m, o, v) \/ AssemblerWritePre(m, o, v) \/ C2WritePre(m, o, v)
       \/ \E needsPatching \in BOOLEAN : C1WritePre(m, o, v, needsPatching)
  \/ RecordFields(m) \/ LogObject(m) \/ (\E done \in BOOLEAN : StoreAfterSlow(m, done))
  \/ \E src, dst \in Objects : ArrayCopyPre(m, src, dst) \/ C2ArrayCopy(m, src, dst)
  \/ CopyElements(m)
  \/ \E o \in Objects : LoadField(m, o)
  \/ \E r \in references : LoadReferent(m, r)

Next ==
  \/ \E m \in Mutators : MutatorStep(m)
  \/ \E o \in Objects : Forget(o) \/ MarkObject(o)
  \/ InitialPause \/ FinalPause \/ FullPause
  \/ SetConcurrentMarkingActive \/ ResumeMutators

Spec == Init /\ [][Next]_vars

-------------------------------------------------------------------------------
\* Every variable has its type; in particular null is never recorded, which mmtk-core
\* could not represent.
TypeOK ==
  /\ references \subseteq Objects
  /\ live \subseteq Objects /\ field \in [Objects -> Objects \cup {Null}]
  /\ unlogged \subseteq Objects /\ marked \subseteq Objects /\ grey \subseteq Objects
  /\ candidates \subseteq references
  /\ phase \in {"idle", "marking"} /\ world \in {"running", "stopped", "resuming"}
  /\ cmActive \in {0, 1} /\ locals \subseteq Objects
  /\ pc \in [Mutators -> SafePC \cup {"slow", "log", "store", "copy"}]
  /\ obj \in [Mutators -> Objects \cup {Null}] /\ val \in [Mutators -> Objects \cup {Null}]
  /\ fresh \in [Mutators -> Objects \cup {Null}] /\ snapshot \subseteq Objects

\* Whenever a final pause may come, everything that was reachable in the initial pause
\* has been or will be marked, although its only reference may have been overwritten
\* by any kind of code and with any barrier left out.
SnapshotKept == phase = "marking" /\ AtSafepoint => snapshot \subseteq WillBeMarked

\* The same holds for whatever the stacks hold by now: what was loaded from fields or
\* referents, and what is new.
HeldObjectsKept == phase = "marking" /\ AtSafepoint => Roots \subseteq WillBeMarked

\* No stack and no object refers to an object that a collection has freed.
NoDanglingReference ==
  /\ Roots \subseteq live
  /\ \A o \in live : field[o] \in live \cup {Null}
===============================================================================
