--------------------------- MODULE ReferencePending ---------------------------
(***************************************************************************)
(* Reference processing: what scanning does with java.lang.ref.Reference   *)
(* objects (mmtk/src/object_scanning.rs), the upcall that links cleared    *)
(* References into HotSpot's pending list (mmtk_enqueue_references in      *)
(* openjdk/mmtkUpcalls.cpp), and the VM operation that holds Heap_lock     *)
(* around the pause and notifies the Reference handler                     *)
(* (openjdk/mmtkVMOperation.cpp).                                          *)
(*                                                                         *)
(* External: mmtk-core keeps the candidates of each kind in a table, drops *)
(* those without a referent, clears the referents that died and calls      *)
(* enqueue_references once per kind, with an array that may name a         *)
(* Reference more than once (mmtkUpcalls.cpp:302-310).  The handler thread *)
(* waits on Heap_lock for a non-empty list, takes the whole list under     *)
(* Heap_lock, and unlinks one Reference after the other.                   *)
(***************************************************************************)
EXTENDS Naturals, Sequences, FiniteSets

CONSTANTS
  Refs,          \* Reference objects
  Null,          \* the null reference
  TypeOf,        \* their ReferenceType
  ArrayLengths   \* how long the arrays of mmtk-core may be

ASSUME RefsAssumption == IsFiniteSet(Refs) /\ Null \notin Refs
ASSUME TypesAssumption ==
  TypeOf \in [Refs -> {"Soft", "Weak", "Phantom", "Final", "Other"}]
ASSUME LengthsAssumption ==   \* any lengths, among them those of arrays without duplicates
  ArrayLengths \subseteq Nat /\ 0 .. Cardinality(Refs) \subseteq ArrayLengths

VARIABLES
  no_reference_types,  \* the option of this name
  allocated,   \* References not freed yet
  held,        \* References the application can still reach
  referent,    \* [Refs -> BOOLEAN]: the referent field is not null
  discovered,  \* [Refs -> Refs \cup {Null}]: the discovered field
  pending,     \* Universe::_reference_pending_list
  gpc,         \* where the GC worker and the companion thread are
  cleared,     \* References this collection has cleared and not enqueued yet
  hpc,         \* where the Reference handler is
  hlist,       \* the list the handler took, its static field pendingList
  current,     \* the Reference the handler is working on
  due          \* history: References cleared by a collection and not handled yet

heapVars    == <<allocated, held, referent, discovered>>
gcVars      == <<gpc, cleared>>
handlerVars == <<hpc, hlist, current>>
vars == <<no_reference_types, heapVars, pending, gcVars, handlerVars, due>>

Init ==
  /\ no_reference_types \in BOOLEAN
  /\ allocated = Refs /\ held = Refs
  /\ referent = [r \in Refs |-> TRUE]
  /\ discovered = [r \in Refs |-> Null]
  /\ pending = Null
  /\ gpc = "idle" /\ cleared = {}
  /\ hpc = "await" /\ hlist = Null /\ current = Null
  /\ due = {}

\* Heap_lock is held by the companion thread from doit_prologue to doit_epilogue.
\* The other users hold it only within one step.
HeapLockFree == gpc = "idle"

\* No thread runs between the safepoint and its end.
WorldRuns == gpc \notin {"stopped", "enqueue"}

-------------------------------------------------------------------------------
(***************************************************************************)
(* The application.  A Reference it creates later behaves like one that no *)
(* collection has cleared yet.                                             *)
(***************************************************************************)
AppUnchanged == UNCHANGED <<no_reference_types, pending, gcVars, handlerVars, due>>

DropReference(r) ==
  /\ WorldRuns /\ r \in held
  /\ held' = held \ {r}
  /\ UNCHANGED <<allocated, referent, discovered>> /\ AppUnchanged

\* Reference.clear()
ClearReference(r) ==
  /\ WorldRuns /\ r \in held /\ referent[r]
  /\ referent' = [referent EXCEPT ![r] = FALSE]
  /\ UNCHANGED <<allocated, held, discovered>> /\ AppUnchanged

-------------------------------------------------------------------------------
(***************************************************************************)
(* Scanning a Reference (InstanceRefKlass::oop_iterate).                   *)
(***************************************************************************)

\* Faulty variant of ScannedLinks: discovered is left to the collector, as in the
\* collectors of OpenJDK itself.
ScannedLinksNone(r) == {}

\* The References that scanning r leads to: discovered is a strong field.
ScannedLinks(r) == {discovered[r]} \ {Null}

\* The referent is not a strong field: the Reference is added to a table instead.
IsCandidate(r) == ~no_reference_types /\ TypeOf[r] \in {"Soft", "Weak", "Phantom"}

\* References that tracing reaches from the application, the pending list (a root
\* of the Universe) and the handler, as the smallest set closed under scanning.
Roots == held \cup ({pending, hlist, current} \ {Null})
Reached ==
  {r \in Refs : \A S \in SUBSET Refs :
     Roots \subseteq S /\ (\A x \in S : ScannedLinks(x) \subseteq S) => r \in S}

-------------------------------------------------------------------------------
(***************************************************************************)
(* mmtk_enqueue_references.                                                *)
(***************************************************************************)

\* Faulty variant of LinkNext: the discovered field is not tested.
LinkNextUnlessLast(list, reff) ==
  IF reff = list.last
    THEN list
    ELSE [discovered |-> [list.discovered EXCEPT ![list.last] = reff], last |-> reff]

\* One turn of the loop: skip a Reference that is the last of the list or has its
\* discovered field set, append any other.
LinkNext(list, reff) ==
  IF reff = list.last \/ list.discovered[reff] # Null
    THEN list
    ELSE [discovered |-> [list.discovered EXCEPT ![list.last] = reff], last |-> reff]

\* The list after each turn of the loop, which begins with the first Reference of the
\* array as a list of its own.
LinkedAfter(objects) ==
  LET list[i \in 1 .. Len(objects)] ==
        IF i = 1 THEN [discovered |-> discovered, last |-> objects[1]]
                 ELSE LinkNext(list[i - 1], objects[i])
  IN list

\* The list made of the array: the discovered fields and the last node.
Linked(objects) == LinkedAfter(objects)[Len(objects)]

\* The new list is put in front of the pending list.
EnqueueReferences(objects) ==
  IF objects = <<>> THEN UNCHANGED <<pending, discovered>>
  ELSE LET list == Linked(objects) IN
       /\ pending' = objects[1]
       /\ discovered' = [list.discovered EXCEPT ![list.last] = pending]

-------------------------------------------------------------------------------
(***************************************************************************)
(* The collection.                                                         *)
(***************************************************************************)

\* VM_MMTkSTWOperation::doit_prologue.
DoitPrologue ==
  /\ gpc = "idle"
  /\ gpc' = "locked"
  /\ UNCHANGED <<no_reference_types, heapVars, pending, cleared, handlerVars, due>>

\* Handler and application stop wherever they are.
StopTheWorld ==
  /\ gpc = "locked"
  /\ gpc' = "stopped"
  /\ UNCHANGED <<no_reference_types, heapVars, pending, cleared, handlerVars, due>>

\* What mmtk-core may hand over for a set of References: all of them in some order, each
\* of them any number of times.
ArraysOf(refs) ==
  {a \in UNION {[1 .. n -> refs] : n \in ArrayLengths} :
     \A r \in refs : \E i \in DOMAIN a : a[i] = r}

\* mmtk-core traces the heap, clears the referents that died and frees what it did not
\* reach.  Scanning has put the candidates into its tables; clear_referent stores null.
ProcessReferences ==
  /\ gpc = "stopped"
  /\ \E dead \in SUBSET {r \in Reached : IsCandidate(r) /\ referent[r]} :
       /\ cleared' = dead
       /\ referent' = [r \in Refs |-> referent[r] /\ r \in Reached \ dead]
       /\ due' = due \cup dead
  /\ allocated' = allocated \cap Reached
  /\ gpc' = "enqueue"
  /\ UNCHANGED <<no_reference_types, held, discovered, pending, handlerVars>>

\* One call for each kind.
Enqueue(kind) ==
  LET refs == {r \in cleared : TypeOf[r] = kind} IN
  /\ gpc = "enqueue"
  /\ \E objects \in ArraysOf(refs) : EnqueueReferences(objects)
  /\ cleared' = cleared \ refs
  /\ UNCHANGED <<no_reference_types, allocated, held, referent, gpc, handlerVars, due>>

\* The world runs again before the companion thread leaves VMThread::execute().
ResumeTheWorld ==
  /\ gpc = "enqueue" /\ cleared = {}
  /\ gpc' = "epilogue"
  /\ UNCHANGED <<no_reference_types, heapVars, pending, cleared, handlerVars, due>>

\* Faulty variant of DoitEpilogue: nobody is notified.
UnlockOnly ==
  /\ gpc = "epilogue"
  /\ gpc' = "idle"
  /\ UNCHANGED <<no_reference_types, heapVars, pending, cleared, handlerVars, due>>

\* VM_MMTkSTWOperation::doit_epilogue: notify if the list is not empty, and unlock.
DoitEpilogue ==
  /\ gpc = "epilogue"
  /\ gpc' = "idle"
  /\ hpc' = IF pending # Null /\ hpc = "waiting" THEN "await" ELSE hpc
  /\ UNCHANGED <<no_reference_types, heapVars, pending, cleared, hlist, current, due>>

Collector == \/ StopTheWorld \/ ProcessReferences \/ ResumeTheWorld \/ DoitEpilogue
             \/ \E kind \in {"Soft", "Weak", "Phantom"} : Enqueue(kind)

-------------------------------------------------------------------------------
(***************************************************************************)
(* The Reference handler of OpenJDK.                                       *)
(***************************************************************************)
HandlerUnchanged ==
  UNCHANGED <<no_reference_types, allocated, held, referent, gcVars>>

\* waitForReferencePendingList, with Heap_lock held.
AwaitPendingList ==
  /\ WorldRuns /\ hpc = "await" /\ HeapLockFree
  /\ hpc' = IF pending = Null THEN "waiting" ELSE "take"
  /\ UNCHANGED <<discovered, pending, hlist, current, due>> /\ HandlerUnchanged

SpuriousWakeup ==
  /\ hpc = "waiting"
  /\ hpc' = "await"
  /\ UNCHANGED <<discovered, pending, hlist, current, due>> /\ HandlerUnchanged

\* getAndClearReferencePendingList, with Heap_lock held.
TakePendingList ==
  /\ WorldRuns /\ hpc = "take" /\ HeapLockFree
  /\ hlist' = pending /\ pending' = Null
  /\ hpc' = "next"
  /\ UNCHANGED <<discovered, current, due>> /\ HandlerUnchanged

\* ref = pendingList; pendingList = ref.discovered.
NextReference ==
  /\ WorldRuns /\ hpc = "next"
  /\ \/ /\ hlist # Null
        /\ current' = hlist /\ hlist' = discovered[hlist]
        /\ hpc' = "unlink"
     \/ /\ hlist = Null
        /\ hpc' = "await"
        /\ UNCHANGED <<hlist, current>>
  /\ UNCHANGED <<discovered, pending, due>> /\ HandlerUnchanged

\* ref.discovered = null, and ref goes to its queue.
HandleReference ==
  /\ WorldRuns /\ hpc = "unlink"
  /\ discovered' = [discovered EXCEPT ![current] = Null]
  /\ due' = due \ {current}
  /\ current' = Null
  /\ hpc' = "next"
  /\ UNCHANGED <<pending, hlist>> /\ HandlerUnchanged

Handler == AwaitPendingList \/ TakePendingList \/ NextReference \/ HandleReference

Next == \/ \E r \in Refs : DropReference(r) \/ ClearReference(r)
        \/ DoitPrologue \/ Collector
        \/ Handler \/ SpuriousWakeup

Spec == Init /\ [][Next]_vars

\* A collection that has begun goes on.  The handler keeps running; collections may
\* take Heap_lock and stop the world again and again, but not always just when the
\* handler could go on.
Fairness == WF_vars(Collector) /\ SF_vars(Handler)

FairSpec == Spec /\ Fairness

-------------------------------------------------------------------------------
(***************************************************************************)
(* Properties.                                                             *)
(***************************************************************************)

\* The nodes of the list that starts at r, where next gives the discovered fields: the
\* smallest set that has r and the successor of each of its nodes.
Chain(next, r) ==
  {x \in Refs : \A S \in SUBSET Refs :
     r \in S \cup {Null} /\ (\A y \in S : next[y] \in S \cup {Null}) => x \in S}

\* The list that starts at r ends: one of its nodes has no successor.
ChainEnds(next, r) == r = Null \/ \E x \in Chain(next, r) : next[x] = Null

ListFrom(r) == Chain(discovered, r)
Ends(r) == ChainEnds(discovered, r)

\* Every Reference that a collection cleared is in exactly one place, waiting to be
\* handled: to be enqueued by mmtk-core, on the pending list, or with the handler.  No
\* list runs in a circle or into another one, whatever duplicates the arrays hold.
DueReferencesOnOneList ==
  LET taken == ListFrom(hlist)
      working == {current} \ {Null}
  IN /\ Ends(pending) /\ Ends(hlist)
     /\ due = cleared \cup ListFrom(pending) \cup taken \cup working
     /\ ListFrom(pending) \cap (taken \cup working \cup cleared) = {}
     /\ cleared \cap (taken \cup working) = {} /\ taken \cap working = {}

\* The discovered field is null in every Reference that is on no list, so that the
\* test for duplicates in mmtk_enqueue_references drops no Reference; and nothing on
\* a list has been freed, although the application may have dropped it.
LinksOnlyOnLists ==
  /\ due \subseteq allocated
  /\ \A r \in allocated \ (due \ cleared) : discovered[r] = Null

\* Every Reference cleared by a collection is handled in the end: the handler does
\* not sleep through the notification of doit_epilogue.
DueReferencesHandled == \A r \in Refs : r \in due ~> r \notin due
===============================================================================
