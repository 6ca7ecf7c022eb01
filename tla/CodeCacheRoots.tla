---------------------------- MODULE CodeCacheRoots ----------------------------
(***************************************************************************)
(* The remembered roots in compiled code: MMTkHeap::register_nmethod and   *)
(* unregister_nmethod (openjdk/mmtkHeap.cpp), the two maps they keep       *)
(* (mmtk/src/api.rs, mmtk/src/lib.rs) and ScanCodeCacheRoots, which scans  *)
(* them and moves the entries of one to the other (mmtk/src/gc_work.rs).   *)
(*                                                                         *)
(* A collection of the nursery scans only what was registered since the    *)
(* last collection, so a slot of older code must not hold a reference to a *)
(* young object.                                                           *)
(*                                                                         *)
(* External: installing, patching and freeing compiled code (HotSpot).  A  *)
(* thread that installs or patches code is in the VM until the code is     *)
(* registered, so no pause begins meanwhile.  Nothing is assumed about     *)
(* when code is unregistered: it may run into a pause, where only the      *)
(* locks of the two maps order it; the code itself is freed between        *)
(* pauses.  The entries of an absent key are {}: only non-empty ones are   *)
(* ever inserted.                                                          *)
(***************************************************************************)
EXTENDS Naturals, FiniteSets

CONSTANTS
  NMethods,   \* addresses of compiled methods, reused after a method is freed
  OopSlots,   \* places in a method that may hold a reference
  Threads     \* threads that install, patch or unregister code

CONSTANT NoNMethod   \* not the address of a method
ASSUME NoNMethodAssumption == NoNMethod \notin NMethods

VARIABLES
  nursery,    \* NURSERY_CODE_CACHE_ROOTS
  mature,     \* MATURE_CODE_CACHE_ROOTS
  cache,      \* NMETHOD_SLOTS of each thread
  tpc,        \* what each thread is doing
  target,     \* the method it is working on
  installed,  \* methods whose code has not been freed
  code,       \* slots of each method that hold a reference
  young,      \* slots of each method that hold a reference to a young object
  gc,         \* where the work packet ScanCodeCacheRoots is; "none": no pause
  kind,       \* the current collection: "nursery" or "full"
  reported    \* slots passed to create_process_roots_work in this collection

mapVars == <<nursery, mature>>
threadVars == <<cache, tpc, target>>
codeVars == <<installed, code, young>>
gcVars == <<gc, kind, reported>>
codeCacheVars == <<nursery, mature, cache, tpc, target, installed, code, young,
                   gc, kind, reported>>

Empty == [nm \in NMethods |-> {}]

InitCodeCache ==
  /\ nursery = Empty /\ mature = Empty
  /\ cache = [t \in Threads |-> {}]
  /\ tpc = [t \in Threads |-> "idle"]
  /\ target = [t \in Threads |-> NoNMethod]
  /\ installed = {} /\ code = Empty /\ young = Empty
  /\ gc = "none" /\ kind = "full" /\ reported = Empty

\* ScanCodeCacheRoots holds the lock of the mature map from its scan to its drain.
\* The lock of the nursery map is never held from one step to another.
MatureLockFree == gc # "drain"

\* No other thread is working on the method.
Available(nm) == \A t \in Threads : target[t] # nm

\* Thread t goes on to pc, working on nm.
Goto(t, pc, nm) ==
  /\ tpc' = [tpc EXCEPT ![t] = pc]
  /\ target' = [target EXCEPT ![t] = nm]

-------------------------------------------------------------------------------
(***************************************************************************)
(* register_nmethod.                                                       *)
(***************************************************************************)

\* HotSpot installs new code or patches a reference into existing code; the objects
\* may be young.  register_nmethod follows.
WriteCode(t, nm, new) ==
  /\ tpc[t] = "idle" /\ gc = "none" /\ Available(nm)
  /\ nm \in installed => new # {}
  /\ installed' = installed \cup {nm}
  /\ code' = [code EXCEPT ![nm] = @ \cup new]
  /\ young' = [young EXCEPT ![nm] = @ \cup new]
  /\ Goto(t, "scan", nm)
  /\ UNCHANGED <<mapVars, cache, gcVars>>

\* nm->oops_do(&reg_cl): every slot is appended to the cache of the thread.
AddNMethodOops(t) ==
  /\ tpc[t] = "scan"
  /\ cache' = [cache EXCEPT ![t] = @ \cup code[target[t]]]
  /\ Goto(t, "register", target[t])
  /\ UNCHANGED <<mapVars, codeVars, gcVars>>

\* Faulty variant of RegisterNMethod: a method that is known already is not
\* registered again.
RegisterOnce(t) ==
  /\ tpc[t] = "register"
  /\ LET nm == target[t] IN
       nursery' = IF cache[t] = {} \/ mature[nm] # {} THEN nursery
                  ELSE [nursery EXCEPT ![nm] = cache[t]]
  /\ cache' = [cache EXCEPT ![t] = {}]
  /\ Goto(t, "idle", NoNMethod)
  /\ UNCHANGED <<mature, codeVars, gcVars>>

\* Faulty variant of RegisterNMethod: the cache is copied instead of taken.
RegisterKeepCache(t) ==
  /\ tpc[t] = "register"
  /\ nursery' = IF cache[t] = {} THEN nursery
                ELSE [nursery EXCEPT ![target[t]] = cache[t]]
  /\ Goto(t, "idle", NoNMethod)
  /\ UNCHANGED <<mature, cache, codeVars, gcVars>>

\* mmtk_register_nmethod: the cached slots become the entry of the method in the
\* nursery map, whatever was there.
RegisterNMethod(t) ==
  /\ tpc[t] = "register"
  /\ nursery' = IF cache[t] = {} THEN nursery
                ELSE [nursery EXCEPT ![target[t]] = cache[t]]
  /\ cache' = [cache EXCEPT ![t] = {}]
  /\ Goto(t, "idle", NoNMethod)
  /\ UNCHANGED <<mature, codeVars, gcVars>>

-------------------------------------------------------------------------------
(***************************************************************************)
(* unregister_nmethod.                                                     *)
(***************************************************************************)

\* Faulty variant of FirstUnregistered: the maps in the other order.
MatureFirst == "mature"

\* The map that mmtk_unregister_nmethod locks first.
FirstUnregistered == "nursery"

RemoveFrom(which, nm) ==
  IF which = "nursery"
    THEN nursery' = [nursery EXCEPT ![nm] = {}] /\ UNCHANGED mature
    ELSE MatureLockFree /\ mature' = [mature EXCEPT ![nm] = {}] /\ UNCHANGED nursery

\* The first lock of mmtk_unregister_nmethod ...
UnregisterFirst(t, nm) ==
  /\ tpc[t] = "idle" /\ nm \in installed /\ Available(nm)
  /\ RemoveFrom(FirstUnregistered, nm)
  /\ Goto(t, "unregister", nm)
  /\ UNCHANGED <<cache, codeVars, gcVars>>

\* ... and the second one.
UnregisterSecond(t) ==
  /\ tpc[t] = "unregister"
  /\ RemoveFrom(IF FirstUnregistered = "nursery" THEN "mature" ELSE "nursery", target[t])
  /\ Goto(t, "free", target[t])
  /\ UNCHANGED <<cache, codeVars, gcVars>>

\* HotSpot frees the code; the address may be used for new code.
FreeCode(t) ==
  /\ tpc[t] = "free" /\ gc = "none"
  /\ installed' = installed \ {target[t]}
  /\ code' = [code EXCEPT ![target[t]] = {}]
  /\ young' = [young EXCEPT ![target[t]] = {}]
  /\ Goto(t, "idle", NoNMethod)
  /\ UNCHANGED <<mapVars, cache, gcVars>>

-------------------------------------------------------------------------------
(***************************************************************************)
(* ScanCodeCacheRoots::do_work.                                            *)
(***************************************************************************)

\* The pause begins once no thread is between writing code and registering it.
BeginPause(k) ==
  /\ gc = "none"
  /\ \A t \in Threads : tpc[t] \notin {"scan", "register"}
  /\ gc' = "scan" /\ kind' = k
  /\ UNCHANGED <<mapVars, threadVars, codeVars, reported>>

\* Faulty variant of ScanMature: mature roots are never scanned.
SkipMature ==
  /\ gc = "scan"
  /\ gc' = "drain"
  /\ UNCHANGED <<mapVars, threadVars, codeVars, kind, reported>>

\* Lock the mature map; only a full collection scans it.
ScanMature ==
  /\ gc = "scan"
  /\ reported' = IF kind = "full" THEN mature ELSE reported
  /\ gc' = "drain"
  /\ UNCHANGED <<mapVars, threadVars, codeVars, kind>>

\* Lock the nursery map, scan all of it and move its entries to the mature map, where
\* they replace older ones; then both locks are released.
DrainNursery ==
  /\ gc = "drain"
  /\ reported' = [nm \in NMethods |-> reported[nm] \cup nursery[nm]]
  /\ mature' = [nm \in NMethods |-> IF nursery[nm] # {} THEN nursery[nm] ELSE mature[nm]]
  /\ nursery' = Empty
  /\ gc' = "trace"
  /\ UNCHANGED <<threadVars, codeVars, kind>>

\* mmtk-core traces from the roots (external): what a reported slot refers to is no
\* longer young, and the slot is updated.
EndPause ==
  /\ gc = "trace"
  /\ gc' = "none"
  /\ young' = [nm \in NMethods |-> young[nm] \ reported[nm]]
  /\ reported' = Empty
  /\ UNCHANGED <<mapVars, threadVars, installed, code, kind>>

NextCodeCache ==
  \/ \E t \in Threads :
       \/ \E nm \in NMethods, new \in SUBSET OopSlots : WriteCode(t, nm, new)
       \/ AddNMethodOops(t) \/ RegisterNMethod(t)
       \/ \E nm \in NMethods : UnregisterFirst(t, nm)
       \/ UnregisterSecond(t) \/ FreeCode(t)
  \/ \E k \in {"nursery", "full"} : BeginPause(k)
  \/ ScanMature \/ DrainNursery \/ EndPause

SpecCodeCache == InitCodeCache /\ [][NextCodeCache]_codeCacheVars

-------------------------------------------------------------------------------
\* Every variable has the type of the map or cache it stands for.
TypeOKCodeCache ==
  /\ nursery \in [NMethods -> SUBSET OopSlots] /\ mature \in [NMethods -> SUBSET OopSlots]
  /\ cache \in [Threads -> SUBSET OopSlots]
  /\ tpc \in [Threads -> {"idle", "scan", "register", "unregister", "free"}]
  /\ target \in [Threads -> NMethods \cup {NoNMethod}]
  /\ installed \subseteq NMethods /\ code \in [NMethods -> SUBSET OopSlots]
  /\ young \in [NMethods -> SUBSET OopSlots]
  /\ gc \in {"none", "scan", "drain", "trace"} /\ kind \in {"nursery", "full"}
  /\ reported \in [NMethods -> SUBSET OopSlots]

\* Code that is neither unregistered nor about to be freed.
Registered(nm) ==
  /\ nm \in installed
  /\ \A t \in Threads : target[t] = nm => tpc[t] \notin {"unregister", "free"}

\* Every collection, of the nursery too, is told of all slots in compiled code that
\* hold a reference to a young object: a slot in code that was patched after its
\* entry became mature is no exception.
YoungRootsReported ==
  gc = "trace" => \A nm \in NMethods : Registered(nm) => young[nm] \subseteq reported[nm]

\* A full collection is told of all slots in compiled code.
FullCollectionSeesAll ==
  gc = "trace" /\ kind = "full" =>
    \A nm \in NMethods : Registered(nm) => code[nm] \subseteq reported[nm]

\* No slot in code that has been freed is remembered or reported, although an entry
\* may move from one map to the other while it is being removed.
NoDanglingRoots ==
  \A nm \in NMethods :
    nursery[nm] \cup mature[nm] \cup reported[nm] # {} => nm \in installed

\* What is remembered of a method are slots of that method which hold a reference.
RootsAreOops ==
  \A nm \in NMethods : nursery[nm] \cup mature[nm] \cup reported[nm] \subseteq code[nm]
===============================================================================
