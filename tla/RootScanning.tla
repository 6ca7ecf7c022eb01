----------------------------- MODULE RootScanning -----------------------------
(***************************************************************************)
(* The roots in a pause: the work packets that scan stacks and the other   *)
(* roots of the VM (mmtk/src/scanning.rs, gc_work.rs), the upcalls they    *)
(* make, each with a closure of its own (RootsClosure), and the derived    *)
(* pointers of compiled frames, which have to follow their base            *)
(* (openjdk/mmtkUpcalls.cpp).                                              *)
(*                                                                         *)
(* External: HotSpot's DerivedPointerTable.  While it is active, a walk    *)
(* over a compiled frame replaces each derived pointer by the location of  *)
(* its base and notes the offset; update_pointers adds the offset to what  *)
(* the base has become, and deactivates the table.  mmtk-core updates the  *)
(* slots of a packet at any time after it has received it; a compacting    *)
(* plan marks in a first pass, asks for all roots once more, and updates   *)
(* the slots of the second pass only.                                      *)
(***************************************************************************)
EXTENDS RootsClosure, Integers, SequencesExt

CONSTANTS
  Sources,    \* Java threads and the kinds of VM-specific root
  RootsOf,    \* [Sources -> Seq(Slots)]: the slots of each, in the order of the walk
  Derived,    \* slots of compiled frames that are the base of a derived pointer
  Location,   \* [Slots -> Int]: where a slot lies
  Objects,    \* objects that roots refer to
  Addresses,  \* where objects may lie
  None        \* no object, no source

ASSUME RootsOfAssumption ==
  /\ RootsOf \in [Sources -> Seq(Slots)] /\ Derived \subseteq Slots
  /\ \A s \in Sources : Len(RootsOf[s]) <= MaxVisits
\* Together the walks reach every root.  A frame belongs to one thread, so that the base of
\* a derived pointer is met once.
ASSUME WalksAssumption ==
  /\ \A p \in Slots : \E s \in Sources : p \in Range(RootsOf[s])
  /\ \A s, t \in Sources : \A i \in DOMAIN RootsOf[s], j \in DOMAIN RootsOf[t] :
       RootsOf[s][i] = RootsOf[t][j] /\ RootsOf[s][i] \in Derived => s = t /\ i = j
ASSUME AddressesAssumption == Addresses \subseteq Nat \ {0} /\ None \notin Objects \cup Sources

VARIABLES
  refersTo,    \* [Slots -> Objects \cup {None}]: what the program means by each slot
  address,     \* [Objects -> Addresses]: where each object lies when the pause ends
  content,     \* [Slots -> Int]: the address that a slot holds, 0 for null
  derived,     \* [Derived -> Int]: the derived pointer beside its base
  active,      \* DerivedPointerTable::_active
  table,       \* the entries: a function from slots to offsets
  pass,        \* 0 between pauses, else how often the roots have been asked for
  compacting,  \* this pause is that of a compacting plan
  todo,        \* sources not scanned yet in this pass
  source,      \* the source being scanned
  rest,        \* what is left of its slots
  received     \* slots that finished walks of this pass have reported

closureVars == vars
heapVars == <<refersTo, address, content>>
tableVars == <<derived, active, table>>
scanVars == <<pass, compacting, todo, source, rest>>
allVars == <<closureVars, heapVars, tableVars, scanVars, received>>

\* A derived pointer points into its object.
Interior == 1
Holding(o, a) == IF o = None THEN 0 ELSE a[o]
Pointing(o, a) == IF o = None THEN 0 ELSE a[o] + Interior

Placements == {a \in [Objects -> Addresses] : \A o, p \in Objects : a[o] = a[p] => o = p}

InitRootScanning ==
  /\ Init
  /\ refersTo \in [Slots -> Objects \cup {None}] /\ address \in Placements
  /\ content = [s \in Slots |-> Holding(refersTo[s], address)]
  /\ derived = [s \in Derived |-> Pointing(refersTo[s], address)]
  /\ active = FALSE /\ table = <<>>
  /\ pass = 0 /\ compacting = FALSE /\ todo = {} /\ source = None /\ rest = <<>>
  /\ received = {}

-------------------------------------------------------------------------------
(***************************************************************************)
(* HotSpot's table of derived pointers.                                    *)
(***************************************************************************)
Clear == active' = TRUE /\ table' = <<>>

\* add(): the walk over a frame meets the base slot s, which is not null.
AddDerived(s) ==
  IF active /\ s \in Derived
    THEN /\ table' = [t \in DOMAIN table \cup {s} |->
                        IF t = s THEN derived[s] - content[s] ELSE table[t]]
         /\ derived' = [derived EXCEPT ![s] = Location[s]]
    ELSE UNCHANGED <<derived, table>>

UpdatedPointers ==
  [s \in Derived |-> IF s \in DOMAIN table THEN content[s] + table[s] ELSE derived[s]]

-------------------------------------------------------------------------------
\* scan_roots_in_mutator_thread for each mutator, and scan_vm_specific_roots, which adds a
\* packet for each other kind of root.
RequestRoots == todo' = Sources

\* mmtk_stop_all_mutators and the packets that follow.  Where objects will lie is
\* mmtk-core's choice, which nobody sees before slots are updated.
StopAllMutators ==
  /\ pass = 0
  /\ Clear
  /\ pass' = 1 /\ compacting' \in BOOLEAN /\ RequestRoots
  /\ address' \in Placements
  /\ UNCHANGED <<closureVars, refersTo, content, derived, source, rest, received>>

\* A packet makes its upcall, which creates a closure.
ScanRoots(s) ==
  /\ pass > 0 /\ source = None /\ s \in todo
  /\ Construct
  /\ source' = s /\ rest' = RootsOf[s] /\ todo' = todo \ {s}
  /\ UNCHANGED <<heapVars, tableVars, pass, compacting, received>>

\* The walk goes on to the next slot.
VisitRoot ==
  /\ source # None /\ rest # <<>>
  /\ LET s == Head(rest) IN
       IF content[s] = 0
         THEN UNCHANGED <<closureVars, derived, table>>
         ELSE DoOop(s) /\ AddDerived(s)
  /\ rest' = Tail(rest)
  /\ UNCHANGED <<heapVars, active, pass, compacting, todo, source, received>>

\* The upcall returns and destroys its closure.
FinishScan ==
  /\ source # None /\ rest = <<>> /\ pc = "scanning"
  /\ Destruct
  /\ UNCHANGED <<heapVars, tableVars, scanVars, received>>

\* Slots in packets, and those among them that do not hold the new address yet.
Handed == received \cup {e.slot : e \in Range(delivered)}
Stale == {s \in Handed : content[s] # address[refersTo[s]]}

\* The closure has gone.
ForgetClosure ==
  /\ pc = "done"
  /\ received' = Handed
  /\ source' = None
  /\ pc' = "start" /\ buffer' = <<>> /\ cap' = 0 /\ owned' = FALSE
  /\ delivered' = <<>> /\ packets' = 0 /\ allocated' = 0 /\ released' = 0 /\ visited' = <<>>
  /\ UNCHANGED <<heapVars, tableVars, pass, compacting, todo, rest>>

\* mmtk-core updates the slots in the packets it has got so far.
UpdateSlots ==
  /\ Stale # {} /\ (compacting => pass = 2)
  /\ content' = [s \in Slots |-> IF s \in Handed THEN address[refersTo[s]] ELSE content[s]]
  /\ UNCHANGED <<closureVars, refersTo, address, tableVars, scanVars, received>>

PassDone == pass > 0 /\ todo = {} /\ source = None

\* Faulty variant of PrepareForRootsReScanning: nothing needs to be done, as nothing has
\* moved yet.
PrepareForRootsReScanningNot ==
  /\ PassDone /\ compacting /\ pass = 1
  /\ pass' = 2 /\ RequestRoots /\ received' = {}
  /\ UNCHANGED <<closureVars, heapVars, tableVars, compacting, source, rest>>

\* mmtk_prepare_for_roots_re_scanning, and the packets of the second pass.
PrepareForRootsReScanning ==
  /\ PassDone /\ compacting /\ pass = 1
  /\ derived' = UpdatedPointers /\ Clear
  /\ pass' = 2 /\ RequestRoots /\ received' = {}
  /\ UNCHANGED <<closureVars, heapVars, compacting, source, rest>>

\* mmtk_resume_mutators.
ResumeMutators ==
  /\ PassDone /\ Stale = {} /\ (compacting => pass = 2)
  /\ derived' = UpdatedPointers /\ active' = FALSE /\ table' = <<>>
  /\ pass' = 0 /\ compacting' = FALSE /\ received' = {}
  /\ UNCHANGED <<closureVars, heapVars, todo, source, rest>>

NextRootScanning ==
  \/ StopAllMutators \/ PrepareForRootsReScanning \/ ResumeMutators
  \/ \E s \in Sources : ScanRoots(s)
  \/ VisitRoot \/ FinishScan \/ ForgetClosure \/ UpdateSlots

SpecRootScanning == InitRootScanning /\ [][NextRootScanning]_allVars

-------------------------------------------------------------------------------
\* When the world runs, every root holds the address of the object it refers to, wherever
\* the pause has moved it, and every derived pointer points to the same place in that
\* object as before, whether roots were scanned once or twice.
RootsFollowObjects ==
  pass = 0 =>
    /\ \A s \in Slots : content[s] = Holding(refersTo[s], address)
    /\ \A s \in Derived : derived[s] = Pointing(refersTo[s], address)
===============================================================================
