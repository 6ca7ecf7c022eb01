-------------------------- MODULE ObjectBarrierProofs --------------------------
(***************************************************************************)
(* Proofs about ObjectBarrier for any set of objects and any number of     *)
(* threads, with and without the fast path of allocation.                  *)
(***************************************************************************)
EXTENDS ObjectBarrier, TLAPS

Left == {"detached", "exited"}
StorePC == {"runtime", "assembler", "c1", "c2", "slow", "copyPost"}

\* The collector will be told of the object: it is remembered in a place that the next
\* collection looks at, or the thread that won the race for its bit is about to put it
\* into such a place.
Covered(o) ==
  \/ o \in flushed
  \/ \E m \in Mutators : \/ o \in modbuf[m] /\ pc[m] \notin Left
                         \/ pc[m] = "enqueue" /\ obj[m] = o

\* A thread works on an object exactly while it is inside an operation, and the object
\* is allocated.
LocalsAllocated ==
  \A m \in Mutators :
    /\ pc[m] \in {"idle", "detached", "exited"} <=> obj[m] = Null
    /\ obj[m] # Null => obj[m] \in Allocated

\* An address that is free holds no reference, and only old objects are unlogged or
\* remembered; a thread that has left the list has an empty buffer.
FreeObjectsClean == \A o \in Objects : gen[o] = "none" => field[o] = Null
OnlyOldUnlogged == \A o \in Objects : unlogged[o] => gen[o] = "old"
OnlyOldRemembered ==
  /\ \A o \in Objects : Covered(o) => gen[o] = "old"
  /\ \A m \in Mutators : pc[m] \in Left => modbuf[m] = {}

\* What C2 takes for freshly allocated is young, or the collector will be told of it.
FreshCovered ==
  \A m \in Mutators : fresh[m] # Null =>
    /\ fresh[m] \in Allocated
    /\ gen[fresh[m]] = "young" \/ Covered(fresh[m])

\* A store of a young reference into an old object is covered, or its barrier is still
\* under way.
StoresCovered ==
  \A o \in Objects : gen[o] = "old" /\ field[o] \in Young =>
    Covered(o) \/ \E m \in Mutators : pc[m] \in StorePC /\ obj[m] = o

\* An old object that the barrier skips is covered: SkippedObjectsRemembered in other words.
SkippedCovered == \A o \in Objects : gen[o] = "old" /\ ~unlogged[o] => Covered(o)

\* References are null or lead to allocated objects.
FieldsAllocated == \A o \in Objects : field[o] # Null => field[o] \in Allocated

HeapInv == LocalsAllocated /\ FreeObjectsClean /\ OnlyOldUnlogged /\ FieldsAllocated
CoverInv == OnlyOldRemembered /\ FreshCovered /\ StoresCovered /\ SkippedCovered
BarrierInv == TypeOK /\ HeapInv /\ CoverInv

USE NullAssumption, AllocFastpathAssumption

-------------------------------------------------------------------------------
\* Nothing is allocated at first.
LEMMA InitBarrier == Init => BarrierInv
<1> SUFFICES ASSUME Init PROVE BarrierInv
  OBVIOUS
<1>1. TypeOK
  BY DEF Init, TypeOK, SafePC, BarrierPC
<1>2. HeapInv
  BY DEF Init, HeapInv, LocalsAllocated, FreeObjectsClean, OnlyOldUnlogged,
         FieldsAllocated, Allocated
<1>3. CoverInv
  BY DEF Init, CoverInv, OnlyOldRemembered, FreshCovered, StoresCovered, SkippedCovered,
         Covered, Left, Young
<1>4. QED
  BY <1>1, <1>2, <1>3 DEF BarrierInv

\* An allocation: the new object is young, and nobody refers to it yet.
LEMMA AllocationPreserves ==
  ASSUME BarrierInv, NEW m \in Mutators, NEW o \in Objects, NEW c \in Allocated \cup {Null},
         pc[m] = "idle", NewObject(o, c), UNCHANGED <<modbuf, flushed>>,
         \/ UNCHANGED <<pc, obj>> /\ (UNCHANGED fresh \/ fresh' = [fresh EXCEPT ![m] = o])
         \/ Goto(m, "allocated", o) /\ UNCHANGED fresh
  PROVE  BarrierInv'
<1> USE DEF BarrierInv, HeapInv, CoverInv
<1>1. TypeOK'
  BY DEF TypeOK, NewObject, Goto, Allocated, SafePC
<1>2. /\ \A p \in Objects : p # o => gen'[p] = gen[p] /\ field'[p] = field[p]
      /\ gen[o] = "none" /\ gen'[o] = "young" /\ field'[o] = c /\ unlogged' = unlogged
      /\ Allocated' = Allocated \cup {o} /\ Young' = Young \cup {o}
  BY DEF TypeOK, NewObject, Allocated, Young
<1>3. \A p \in Objects : Covered(p)' <=> Covered(p)
  BY DEF Covered, TypeOK, Goto, LocalsAllocated, Left
<1>4. HeapInv'
  <2>1. LocalsAllocated'
    BY <1>2 DEF TypeOK, LocalsAllocated, Goto
  <2>2. FreeObjectsClean' /\ OnlyOldUnlogged'
    BY <1>2 DEF FreeObjectsClean, OnlyOldUnlogged, TypeOK
  <2>3. FieldsAllocated'
    BY <1>2 DEF FieldsAllocated, TypeOK
  <2>4. QED
    BY <2>1, <2>2, <2>3
<1>5. CoverInv'
  <2>1. OnlyOldRemembered'
    BY <1>2, <1>3 DEF OnlyOldRemembered, TypeOK, Goto, Left
  <2>2. FreshCovered'
    BY <1>2, <1>3 DEF FreshCovered, TypeOK
  <2>3. StoresCovered'
    BY <1>2, <1>3 DEF StoresCovered, TypeOK, FieldsAllocated, Allocated, Goto, StorePC
  <2>4. SkippedCovered'
    BY <1>2, <1>3 DEF SkippedCovered, TypeOK
  <2>5. QED
    BY <2>1, <2>2, <2>3, <2>4
<1>6. QED
  BY <1>1, <1>4, <1>5

\* The slow path of allocation returns, to code of C2 or to other code.
LEMMA AllocationExitPreserves ==
  ASSUME BarrierInv, NEW m \in Mutators, SlowpathAllocationExit(m) \/ OtherAllocationExit(m)
  PROVE  BarrierInv'
<1> USE DEF BarrierInv, HeapInv, CoverInv
<1>1. /\ pc[m] = "allocated" /\ obj[m] \in Allocated /\ obj[m] \in Objects
      /\ Goto(m, "idle", Null) /\ UNCHANGED <<gen, field, unlogged, flushed>>
      /\ Allocated' = Allocated /\ Young' = Young
  BY DEF SlowpathAllocationExit, OtherAllocationExit, LocalsAllocated, TypeOK, heapVars,
         Allocated, Young
<1>2. /\ modbuf' \in [Mutators -> SUBSET Objects]
      /\ \A n \in Mutators : /\ n # m => modbuf'[n] = modbuf[n]
                             /\ modbuf[n] \subseteq modbuf'[n]
      /\ \A o \in modbuf'[m] : o \in modbuf[m] \/ (o = obj[m] /\ unlogged[o])
  BY <1>1 DEF SlowpathAllocationExit, OtherAllocationExit, TypeOK
<1>3. TypeOK'
  BY <1>1, <1>2 DEF TypeOK, SlowpathAllocationExit, OtherAllocationExit, Goto, SafePC
<1>4. HeapInv'
  BY <1>1 DEF TypeOK, LocalsAllocated, FreeObjectsClean, OnlyOldUnlogged, FieldsAllocated,
              Goto
<1>5. \A o \in Objects : /\ Covered(o) => Covered(o)'
                         /\ Covered(o)' => Covered(o) \/ (o = obj[m] /\ unlogged[o])
  BY <1>1, <1>2 DEF Covered, TypeOK, Goto, Left
<1>6. CoverInv'
  <2>1. OnlyOldRemembered'
    BY <1>1, <1>2, <1>5 DEF OnlyOldRemembered, OnlyOldUnlogged, TypeOK, Goto, Left
  <2>2. FreshCovered'
    <3>1. CASE SlowpathAllocationExit(m)
      <4>1. PICK a \in Objects : a = obj[m]
        BY <1>1
      <4>2. gen[a] = "young" \/ Covered(a)'
        <5>1. CASE unlogged[a]
          BY <1>1, <3>1, <4>1, <5>1 DEF SlowpathAllocationExit, Covered, Goto, Left, TypeOK
        <5>2. CASE ~unlogged[a]
          BY <1>1, <1>5, <4>1, <5>2 DEF SkippedCovered, TypeOK, Allocated
        <5>3. QED
          BY <5>1, <5>2
      <4>3. fresh' = [fresh EXCEPT ![m] = a]
        BY <3>1, <4>1 DEF SlowpathAllocationExit
      <4>4. QED
        BY <1>1, <1>5, <4>1, <4>2, <4>3 DEF FreshCovered, TypeOK
    <3>2. CASE OtherAllocationExit(m)
      BY <1>1, <1>5, <3>2 DEF OtherAllocationExit, FreshCovered, TypeOK
    <3>3. QED
      BY <3>1, <3>2
  <2>3. StoresCovered'
    BY <1>1, <1>5 DEF StoresCovered, TypeOK, Goto, StorePC
  <2>4. SkippedCovered'
    BY <1>1, <1>5 DEF SkippedCovered, TypeOK
  <2>5. QED
    BY <2>1, <2>2, <2>3, <2>4
<1>7. QED
  BY <1>3, <1>4, <1>6

\* A store of any kind of code, whose barrier is under way or rightly left out.
LEMMA StorePreserves ==
  ASSUME BarrierInv, NEW m \in Mutators, NEW o \in Objects, NEW v \in Allocated \cup {Null},
         NEW done \in BOOLEAN, RawStore(m, o, v, done),
         \/ (v = Null \/ o = fresh[m]) /\ UNCHANGED <<pc, obj>>
         \/ \E kind \in StorePC : Goto(m, kind, o)
  PROVE  BarrierInv'
<1> USE DEF BarrierInv, HeapInv, CoverInv
<1>1. /\ pc[m] = "idle" /\ o \in Allocated /\ UNCHANGED <<gen, unlogged, modbuf, flushed, fresh>>
      /\ \A p \in Objects : p # o => field'[p] = field[p]
      /\ field'[o] = v \/ field'[o] = field[o]
      /\ Allocated' = Allocated /\ Young' = Young
      /\ field' \in [Objects -> Objects \cup {Null}]
  BY DEF RawStore, TypeOK, Allocated, Young
<1>2. /\ pc' \in [Mutators -> SafePC \cup BarrierPC] /\ obj' \in [Mutators -> Objects \cup {Null}]
      /\ \A n \in Mutators : n # m => pc'[n] = pc[n] /\ obj'[n] = obj[n]
      /\ \/ pc'[m] = "idle" /\ obj'[m] = Null /\ (v = Null \/ o = fresh[m])
         \/ pc'[m] \in StorePC /\ obj'[m] = o
  BY <1>1 DEF Goto, TypeOK, LocalsAllocated, StorePC, BarrierPC
<1>3. TypeOK'
  BY <1>1, <1>2 DEF TypeOK
<1>4. HeapInv'
  BY <1>1, <1>2
  DEF TypeOK, LocalsAllocated, FreeObjectsClean, OnlyOldUnlogged, FieldsAllocated, StorePC,
      Allocated
<1>5. \A p \in Objects : Covered(p)' <=> Covered(p)
  BY <1>1, <1>2 DEF Covered, Left, StorePC
<1>6. CoverInv'
  <2>1. OnlyOldRemembered'
    BY <1>1, <1>2, <1>5 DEF OnlyOldRemembered, Left, StorePC
  <2>2. FreshCovered' /\ SkippedCovered'
    BY <1>1, <1>5 DEF FreshCovered, SkippedCovered, TypeOK
  <2>3. StoresCovered'
    <3> SUFFICES ASSUME NEW p \in Objects, gen[p] = "old", field'[p] \in Young
                 PROVE  Covered(p)' \/ \E n \in Mutators : pc'[n] \in StorePC /\ obj'[n] = p
      BY <1>1 DEF StoresCovered
    <3>1. CASE field'[p] = field[p]
      BY <1>1, <1>2, <1>5, <3>1 DEF StoresCovered, StorePC
    <3>2. CASE field'[p] # field[p]
      <4>1. p = o /\ v \in Young /\ v # Null
        BY <1>1, <3>2 DEF Young
      <4>2. CASE pc'[m] \in StorePC /\ obj'[m] = o
        BY <4>1, <4>2
      <4>3. CASE o = fresh[m]
        BY <1>5, <4>1, <4>3 DEF FreshCovered
      <4>4. QED
        BY <1>2, <4>1, <4>2, <4>3
    <3>3. QED
      BY <3>1, <3>2
  <2>4. QED
    BY <2>1, <2>2, <2>3
<1>7. QED
  BY <1>3, <1>4, <1>6

\* The barrier ends if the bit is clear, as the object is covered then.
LEMMA TestPreserves ==
  ASSUME BarrierInv, NEW m \in Mutators, pc[m] \in StorePC, TestUnlogBit(m)
  PROVE  BarrierInv'
<1> USE DEF BarrierInv, HeapInv, CoverInv
<1>1. PICK a \in Objects : a = obj[m] /\ a \in Allocated
  BY DEF LocalsAllocated, TypeOK, StorePC
<1>2. /\ UNCHANGED <<gen, field, unlogged, modbuf, flushed, fresh>>
      /\ Allocated' = Allocated /\ Young' = Young
      /\ \/ unlogged[a] /\ Goto(m, "slow", a)
         \/ ~unlogged[a] /\ Goto(m, "idle", Null)
  BY <1>1 DEF TestUnlogBit, heapVars, Allocated, Young
<1>3. TypeOK'
  BY <1>2 DEF TypeOK, Goto, SafePC, BarrierPC
<1>4. HeapInv'
  BY <1>1, <1>2 DEF TypeOK, LocalsAllocated, FreeObjectsClean, OnlyOldUnlogged,
                    FieldsAllocated, Goto
<1>5. \A o \in Objects : Covered(o)' <=> Covered(o)
  BY <1>2 DEF Covered, TypeOK, Goto, Left, StorePC
<1>6. CoverInv'
  <2>1. OnlyOldRemembered'
    BY <1>2, <1>5 DEF OnlyOldRemembered, TypeOK, Goto, Left
  <2>2. FreshCovered' /\ SkippedCovered'
    BY <1>2, <1>5 DEF FreshCovered, SkippedCovered, TypeOK
  <2>3. StoresCovered'
    BY <1>1, <1>2, <1>5 DEF StoresCovered, SkippedCovered, TypeOK, Goto, StorePC
  <2>4. QED
    BY <2>1, <2>2, <2>3
<1>7. QED
  BY <1>3, <1>4, <1>6

\* The thread that clears the bit is about to remember the object.
LEMMA LogObjectPreserves ==
  ASSUME BarrierInv, NEW m \in Mutators, LogObject(m)
  PROVE  BarrierInv'
<1> USE DEF BarrierInv, HeapInv, CoverInv
<1>1. PICK a \in Objects : a = obj[m] /\ a \in Allocated
  BY DEF LogObject, LocalsAllocated, TypeOK
<1>2. /\ pc[m] = "slow" /\ UNCHANGED <<gen, field, modbuf, flushed, fresh>>
      /\ Allocated' = Allocated /\ Young' = Young
      /\ unlogged' = [unlogged EXCEPT ![a] = FALSE]
      /\ \/ unlogged[a] /\ Goto(m, "enqueue", a)
         \/ ~unlogged[a] /\ Goto(m, "idle", Null)
  BY <1>1 DEF LogObject, Allocated, Young
<1>3. TypeOK'
  BY <1>2 DEF TypeOK, Goto, SafePC, BarrierPC
<1>4. HeapInv'
  BY <1>1, <1>2 DEF TypeOK, LocalsAllocated, FreeObjectsClean, OnlyOldUnlogged,
                    FieldsAllocated, Goto
<1>5. /\ \A o \in Objects : o # a => (Covered(o)' <=> Covered(o))
      /\ Covered(a) => Covered(a)'
  BY <1>2 DEF Covered, TypeOK, Goto, Left
<1>6. Covered(a)' \/ gen[a] = "young"
  <2>1. CASE unlogged[a]
    BY <1>2, <2>1 DEF Covered, TypeOK, Goto
  <2>2. CASE ~unlogged[a]
    BY <1>1, <1>2, <1>5, <2>2 DEF SkippedCovered, TypeOK, Allocated
  <2>3. QED
    BY <2>1, <2>2
<1>7. Covered(a)' => gen[a] = "old"
  <2>1. CASE unlogged[a]
    BY <2>1 DEF OnlyOldUnlogged
  <2>2. CASE ~unlogged[a]
    BY <1>2, <2>2 DEF Covered, TypeOK, Goto, Left, OnlyOldRemembered
  <2>3. QED
    BY <2>1, <2>2
<1>8. CoverInv'
  <2>1. OnlyOldRemembered'
    BY <1>2, <1>5, <1>7 DEF OnlyOldRemembered, TypeOK, Goto, Left
  <2>2. FreshCovered'
    BY <1>1, <1>2, <1>5 DEF FreshCovered, TypeOK
  <2>3. StoresCovered'
    BY <1>1, <1>2, <1>5, <1>6 DEF StoresCovered, TypeOK, Goto, StorePC
  <2>4. SkippedCovered'
    BY <1>2, <1>5, <1>6 DEF SkippedCovered, TypeOK
  <2>5. QED
    BY <2>1, <2>2, <2>3, <2>4
<1>9. QED
  BY <1>3, <1>4, <1>8

\* The winner remembers the object; a copied region is remembered if it is old.
LEMMA RememberPreserves ==
  ASSUME BarrierInv, NEW m \in Mutators, Enqueue(m) \/ ArrayCopyPost(m)
  PROVE  BarrierInv'
<1> USE DEF BarrierInv, HeapInv, CoverInv
<1>1. PICK a \in Objects : a = obj[m] /\ a \in Allocated
  BY DEF Enqueue, ArrayCopyPost, LocalsAllocated, TypeOK
<1>2. /\ pc[m] \in {"enqueue", "copyPost"} /\ UNCHANGED <<gen, field, unlogged, flushed, fresh>>
      /\ Allocated' = Allocated /\ Young' = Young /\ Goto(m, "idle", Null)
  BY <1>1 DEF Enqueue, ArrayCopyPost, heapVars, Allocated, Young
<1>3. \/ modbuf' = [modbuf EXCEPT ![m] = @ \cup {a}] /\ gen[a] = "old"
      \/ modbuf' = modbuf /\ gen[a] = "young" /\ pc[m] = "copyPost"
  <2>1. CASE Enqueue(m)
    <3>1. Covered(a)
      BY <1>1, <2>1 DEF Enqueue, Covered
    <3>2. QED
      BY <1>1, <2>1, <3>1 DEF Enqueue, OnlyOldRemembered
  <2>2. CASE ArrayCopyPost(m)
    BY <1>1, <2>2 DEF ArrayCopyPost, Allocated, TypeOK
  <2>3. QED
    BY <2>1, <2>2
<1>4. TypeOK'
  BY <1>2, <1>3 DEF TypeOK, Goto, SafePC
<1>5. HeapInv'
  BY <1>2 DEF TypeOK, LocalsAllocated, FreeObjectsClean, OnlyOldUnlogged, FieldsAllocated,
              Goto
<1>6. \A o \in Objects : /\ Covered(o) => Covered(o)'
                         /\ Covered(o)' => Covered(o) \/ (o = a /\ gen[a] = "old")
  BY <1>1, <1>2, <1>3 DEF Covered, TypeOK, Goto, Left
<1>7. gen[a] = "old" => Covered(a)'
  BY <1>2, <1>3 DEF Covered, TypeOK, Goto, Left
<1>8. CoverInv'
  <2>1. OnlyOldRemembered'
    BY <1>2, <1>3, <1>6 DEF OnlyOldRemembered, TypeOK, Goto, Left
  <2>2. FreshCovered' /\ SkippedCovered'
    BY <1>2, <1>6 DEF FreshCovered, SkippedCovered, TypeOK
  <2>3. StoresCovered'
    BY <1>1, <1>2, <1>6, <1>7 DEF StoresCovered, TypeOK, Goto, StorePC
  <2>4. QED
    BY <2>1, <2>2, <2>3
<1>9. QED
  BY <1>4, <1>5, <1>8

\* Threads flush before they leave the list of threads, and have nothing left to flush
\* afterwards.
LEMMA ThreadPreserves ==
  ASSUME BarrierInv, NEW m \in Mutators,
         OnThreadDetach(m) \/ OnThreadDestroy(m) \/ OnThreadAttach(m)
  PROVE  BarrierInv'
<1> USE DEF BarrierInv, HeapInv, CoverInv
<1>1. /\ pc[m] \in {"idle", "detached", "exited"} /\ UNCHANGED <<gen, field, unlogged>>
      /\ flushed' = flushed \cup modbuf[m] /\ modbuf' = [modbuf EXCEPT ![m] = {}]
      /\ \E to \in {"idle", "detached", "exited"} : Goto(m, to, Null)
      /\ fresh' = fresh \/ fresh' = [fresh EXCEPT ![m] = Null]
      /\ Allocated' = Allocated /\ Young' = Young
  BY DEF OnThreadDetach, OnThreadDestroy, OnThreadAttach, FlushMutator, heapVars, Allocated,
         Young
<1>2. TypeOK'
  BY <1>1 DEF TypeOK, Goto, SafePC
<1>3. HeapInv'
  BY <1>1 DEF TypeOK, LocalsAllocated, FreeObjectsClean, OnlyOldUnlogged, FieldsAllocated,
              Goto
<1>4. \A o \in Objects : Covered(o)' <=> Covered(o)
  <2> SUFFICES ASSUME NEW o \in Objects PROVE Covered(o)' <=> Covered(o)
    OBVIOUS
  <2>1. /\ \A n \in Mutators : n # m => pc'[n] = pc[n] /\ obj'[n] = obj[n]
                                         /\ modbuf'[n] = modbuf[n]
        /\ pc'[m] # "enqueue" /\ modbuf'[m] = {}
    BY <1>1 DEF TypeOK, Goto
  <2>2. o \in modbuf[m] => pc[m] \notin Left
    BY <1>1 DEF OnlyOldRemembered
  <2>3. QED
    BY <1>1, <2>1, <2>2 DEF Covered
<1>5. CoverInv'
  <2>1. OnlyOldRemembered'
    BY <1>1, <1>4 DEF OnlyOldRemembered, TypeOK, Goto, Left
  <2>2. FreshCovered' /\ SkippedCovered'
    BY <1>1, <1>4 DEF FreshCovered, SkippedCovered, TypeOK
  <2>3. StoresCovered'
    BY <1>1, <1>4 DEF StoresCovered, TypeOK, Goto, StorePC
  <2>4. QED
    BY <2>1, <2>2, <2>3
<1>6. QED
  BY <1>2, <1>3, <1>5

\* When the world is stopped, covered means remembered: nobody is inside a barrier.
LEMMA CoveredIsRemembered ==
  ASSUME BarrierInv, AtSafepoint
  PROVE  /\ \A o \in Objects : Covered(o) => o \in Remembered
         /\ \A o \in Remembered : o \in Objects /\ gen[o] = "old"
<1>1. \A m \in Mutators : pc[m] \in SafePC /\ pc[m] # "enqueue"
  BY DEF AtSafepoint, SafePC
<1>2. \A o : o \in Remembered <=>
        o \in flushed \/ \E m \in Mutators : o \in modbuf[m] /\ pc[m] \in SafePC \ Left
  BY DEF Remembered, Left
<1>3. ASSUME NEW o \in Objects, Covered(o) PROVE o \in Remembered
  BY <1>1, <1>2, <1>3 DEF Covered
<1>4. ASSUME NEW o \in Remembered PROVE o \in Objects /\ gen[o] = "old"
  <2>1. o \in Objects
    BY <1>2, <1>4 DEF BarrierInv, TypeOK
  <2>2. Covered(o)
    BY <1>2, <1>4 DEF Covered
  <2>3. QED
    BY <2>1, <2>2 DEF BarrierInv, CoverInv, OnlyOldRemembered
<1>5. QED
  BY <1>3, <1>4

\* A collection that keeps everything its survivors and the surviving old objects refer
\* to, and everything in use, leaves no young object behind: no old object needs to be
\* remembered, and every old object has its bit set.
LEMMA CollectPreserves ==
  ASSUME BarrierInv, AtSafepoint, NEW survivors \in SUBSET Allocated,
         NEW dead \in SUBSET Allocated, dead \cap survivors = {},
         Young \subseteq survivors \cup dead,
         \A o \in Allocated \ dead : field[o] \notin dead,
         \A m \in Mutators : obj[m] \notin dead,
         Collect(survivors, dead)
  PROVE  BarrierInv'
<1> USE DEF BarrierInv, HeapInv, CoverInv
<1>1. /\ survivors \subseteq Objects /\ dead \subseteq Objects
      /\ \A o \in Objects : gen[o] # "none" <=> o \in Allocated
      /\ \A o \in Objects : gen[o] = "young" <=> o \in Young
  BY DEF Allocated, Young
<1>2. /\ \A o \in Objects : gen'[o] = IF o \in survivors THEN "old"
                                       ELSE IF o \in dead THEN "none" ELSE gen[o]
      /\ \A o \in Objects : field'[o] = IF o \in dead THEN Null ELSE field[o]
      /\ \A o \in Objects : unlogged'[o] = IF o \in dead THEN FALSE
                               ELSE o \in survivors \cup Remembered \/ unlogged[o]
      /\ \A m \in Mutators : modbuf'[m] = {}
      /\ flushed' = {} /\ fresh' = [m \in Mutators |-> Null] /\ UNCHANGED <<pc, obj>>
  BY DEF Collect, OnlyOldRemembered, Left
<1>3. TypeOK'
  <2>1. gen' \in [Objects -> {"none", "young", "old"}] /\ field' \in [Objects -> Objects \cup {Null}]
    BY DEF Collect, TypeOK
  <2>2. unlogged' \in [Objects -> BOOLEAN]
    BY DEF Collect, TypeOK
  <2>3. modbuf' \in [Mutators -> SUBSET Objects]
    BY DEF Collect, TypeOK
  <2>4. QED
    BY <1>2, <2>1, <2>2, <2>3 DEF TypeOK
<1>4. Allocated' = Allocated \ dead /\ Young' = {}
  BY <1>1, <1>2 DEF Allocated, Young
<1>5. HeapInv'
  <2>1. LocalsAllocated'
    BY <1>2, <1>4 DEF LocalsAllocated
  <2>2. FreeObjectsClean'
    BY <1>1, <1>2 DEF FreeObjectsClean
  <2>3. OnlyOldUnlogged'
    BY <1>1, <1>2, CoveredIsRemembered DEF OnlyOldUnlogged
  <2>4. FieldsAllocated'
    BY <1>1, <1>2, <1>4 DEF FieldsAllocated, FreeObjectsClean, TypeOK
  <2>5. QED
    BY <2>1, <2>2, <2>3, <2>4
<1>6. CoverInv'
  <2>1. \A o \in Objects : ~Covered(o)'
    BY <1>2 DEF Covered, AtSafepoint, SafePC
  <2>2. OnlyOldRemembered' /\ FreshCovered' /\ StoresCovered'
    BY <1>2, <1>4, <2>1 DEF OnlyOldRemembered, FreshCovered, StoresCovered
  <2>3. SkippedCovered'
    <3> SUFFICES ASSUME NEW o \in Objects, gen'[o] = "old" PROVE unlogged'[o]
      BY DEF SkippedCovered
    <3>1. o \notin dead /\ (o \in survivors \/ gen[o] = "old")
      BY <1>2
    <3>2. o \in survivors \/ o \in Remembered \/ unlogged[o]
      BY <3>1, CoveredIsRemembered DEF SkippedCovered
    <3>3. QED
      BY <1>2, <3>1, <3>2
  <2>4. QED
    BY <2>2, <2>3
<1>7. QED
  BY <1>3, <1>5, <1>6

\* Old objects that refer to young ones are remembered, so the nursery collection keeps
\* what it has to.
LEMMA NurseryCollectionPreserves ==
  ASSUME BarrierInv, NurseryCollection
  PROVE  BarrierInv'
<1> USE DEF BarrierInv, HeapInv, CoverInv
<1>1. AtSafepoint
  BY DEF NurseryCollection
<1>2. PICK survivors \in SUBSET Young :
        /\ Closed(survivors, Young)
        /\ InUse \cap Young \subseteq survivors
        /\ {field[o] : o \in Remembered} \cap Young \subseteq survivors
        /\ Collect(survivors, Young \ survivors)
  BY DEF NurseryCollection
<1>3. Young \subseteq Allocated
  BY DEF Young, Allocated
<1>4. ASSUME NEW o \in Allocated \ (Young \ survivors) PROVE field[o] \notin Young \ survivors
  <2>1. CASE o \in survivors
    BY <1>2, <2>1 DEF Closed
  <2>2. CASE o \notin survivors
    <3>1. o \in Objects /\ gen[o] = "old"
      BY <2>2 DEF Allocated, Young, TypeOK
    <3>2. field[o] \in Young => o \in Remembered
      BY <1>1, <3>1, CoveredIsRemembered DEF StoresCovered, AtSafepoint, SafePC, StorePC
    <3>3. QED
      BY <1>2, <3>2
  <2>3. QED
    BY <2>1, <2>2
<1>5. ASSUME NEW m \in Mutators PROVE obj[m] \notin Young \ survivors
  BY <1>2 DEF InUse, Young
<1>6. QED
  BY <1>1, <1>2, <1>3, <1>4, <1>5, CollectPreserves

\* A full collection keeps a closed set.
LEMMA FullCollectionPreserves ==
  ASSUME BarrierInv, FullCollection
  PROVE  BarrierInv'
<1> USE DEF BarrierInv, HeapInv
<1>1. AtSafepoint
  BY DEF FullCollection
<1>2. PICK survivors \in SUBSET Allocated :
        /\ Closed(survivors, Allocated) /\ InUse \subseteq survivors
        /\ Collect(survivors, Allocated \ survivors)
  BY DEF FullCollection
<1>3. Young \subseteq Allocated /\ Allocated \subseteq Objects
  BY DEF Young, Allocated
<1>4. ASSUME NEW o \in Allocated \ (Allocated \ survivors)
      PROVE  field[o] \notin Allocated \ survivors
  BY <1>2 DEF Closed
<1>5. ASSUME NEW m \in Mutators PROVE obj[m] \notin Allocated \ survivors
  BY <1>2, <1>3 DEF InUse
<1>6. QED
  BY <1>1, <1>2, <1>3, <1>4, <1>5, CollectPreserves

-------------------------------------------------------------------------------
\* Each step of a mutator is one of the cases above.
LEMMA MutatorStepPreserves ==
  ASSUME BarrierInv, NEW m \in Mutators, MutatorStep(m)
  PROVE  BarrierInv'
<1>1. ASSUME NEW o \in Objects, FastAlloc(m, o) \/ SlowAlloc(m, o) PROVE BarrierInv'
  BY <1>1, AllocationPreserves DEF FastAlloc, SlowAlloc
<1>2. CASE SlowpathAllocationExit(m) \/ OtherAllocationExit(m)
  BY <1>2, AllocationExitPreserves
<1>3. ASSUME NEW src \in Objects, NEW o \in Objects, CloneInHeap(m, src, o) PROVE BarrierInv'
  <2>1. field[src] \in Allocated \cup {Null}
    BY DEF BarrierInv, HeapInv, FieldsAllocated
  <2>2. QED
    BY <1>3, <2>1, AllocationPreserves DEF CloneInHeap
<1>4. ASSUME NEW o \in Objects, NEW v \in Allocated \cup {Null}, NEW b \in BOOLEAN,
             \/ RuntimeStore(m, o, v, b) \/ AssemblerStore(m, o, v, b) \/ C1Store(m, o, v, b)
             \/ \E done \in BOOLEAN : C2Store(m, o, v, done, b)
      PROVE  BarrierInv'
  BY <1>4, StorePreserves
  DEF RuntimeStore, AssemblerStore, C1Store, C2Store, Then, AssemblerCanRemoveBarrier,
      C2CanRemoveBarrier, StorePC
<1>5. ASSUME NEW src \in Objects, NEW dst \in Objects, NEW b \in BOOLEAN,
             ArrayCopy(m, src, dst, b)
      PROVE  BarrierInv'
  <2>1. field[src] \in Allocated \cup {Null}
    BY DEF BarrierInv, HeapInv, FieldsAllocated
  <2>2. QED
    BY <1>5, <2>1, StorePreserves DEF ArrayCopy, Then, StorePC
<1>6. CASE RuntimeWritePost(m) \/ AssemblerWritePost(m) \/ C1WritePost(m) \/ C2WritePost(m)
  BY <1>6, TestPreserves
  DEF RuntimeWritePost, AssemblerWritePost, C1WritePost, C2WritePost, StorePC
<1>7. CASE LogObject(m)
  BY <1>7, LogObjectPreserves
<1>8. CASE Enqueue(m) \/ ArrayCopyPost(m)
  BY <1>8, RememberPreserves
<1>9. CASE OnThreadDetach(m) \/ OnThreadDestroy(m) \/ OnThreadAttach(m)
  BY <1>9, ThreadPreserves
<1>10. QED
  BY <1>1, <1>2, <1>3, <1>4, <1>5, <1>6, <1>7, <1>8, <1>9 DEF MutatorStep

\* BarrierInv is an inductive invariant.
LEMMA BarrierInvariant == Spec => []BarrierInv
<1>1. BarrierInv /\ [Next]_vars => BarrierInv'
  <2> SUFFICES ASSUME BarrierInv, [Next]_vars PROVE BarrierInv'
    OBVIOUS
  <2>1. CASE \E m \in Mutators : MutatorStep(m)
    BY <2>1, MutatorStepPreserves
  <2>2. CASE NurseryCollection \/ FullCollection
    BY <2>2, NurseryCollectionPreserves, FullCollectionPreserves
  <2>3. CASE UNCHANGED vars
    BY <2>3
    DEF vars, BarrierInv, TypeOK, HeapInv, LocalsAllocated, FreeObjectsClean,
        OnlyOldUnlogged, FieldsAllocated, CoverInv, OnlyOldRemembered, FreshCovered,
        StoresCovered, SkippedCovered, Covered, Allocated, Young
  <2>4. QED
    BY <2>1, <2>2, <2>3 DEF Next
<1>2. QED
  BY <1>1, InitBarrier, PTL DEF Spec

\* The write barrier never misses a reference from an old to a young object, whichever of
\* the four kinds of code did the store and whichever rule removed a barrier.
THEOREM BarrierIsComplete == Spec => []RememberedSetComplete
<1>1. BarrierInv => RememberedSetComplete
  <2> SUFFICES ASSUME BarrierInv, AtSafepoint, NEW o \in Objects, gen[o] = "old",
                      field[o] \in Young
               PROVE  o \in Remembered
    BY DEF RememberedSetComplete
  <2>1. Covered(o)
    BY DEF BarrierInv, CoverInv, StoresCovered, AtSafepoint, SafePC, StorePC
  <2>2. QED
    BY <2>1, CoveredIsRemembered
<1>2. QED
  BY <1>1, BarrierInvariant, PTL

\* Losing the race for the unlog bit is harmless: the winner has remembered the object or
\* will do so before the next collection.
THEOREM SkippingIsSafe == Spec => []SkippedObjectsRemembered
<1>1. BarrierInv => SkippedObjectsRemembered
  BY DEF BarrierInv, CoverInv, SkippedCovered, SkippedObjectsRemembered, Covered, Left
<1>2. QED
  BY <1>1, BarrierInvariant, PTL

\* Collections of the nursery, which trust the remembered set, free nothing that is in use.
THEOREM CollectionsAreSafe == Spec => []NoDanglingReference
<1>1. BarrierInv => NoDanglingReference
  BY DEF BarrierInv, HeapInv, LocalsAllocated, FieldsAllocated, NoDanglingReference, InUse,
         Allocated
<1>2. QED
  BY <1>1, BarrierInvariant, PTL
===============================================================================
