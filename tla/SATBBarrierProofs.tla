--------------------------- MODULE SATBBarrierProofs ---------------------------
(***************************************************************************)
(* Proofs about SATBBarrier for any number of objects and threads.         *)
(***************************************************************************)
EXTENDS SATBBarrier, TLAPS

\* Places in the code where the object at hand is about to be written without a (further)
\* barrier.
OpenPC == {"allocated", "log", "copy"}
AccessPC == {"slow", "log", "store", "copy"}

\* Objects whose fields marking does not count on: it has scanned them, their fields have been
\* recorded or were null, or compiled code may leave barriers out.
Settled ==
  marked \cup (live \ unlogged)
  \cup {obj[m] : m \in {n \in Mutators : pc[n] \in OpenPC}} \cup {fresh[m] : m \in Mutators}

\* What marking will reach whatever mutators do.
Sure == Closure(marked \cup grey, Settled)

HeapInv ==
  /\ unlogged \cup marked \cup grey \cup snapshot \cup locals \subseteq live
  /\ \A o \in live : field[o] \in live \cup {Null}
  /\ \A o \in Objects \ live : field[o] = Null

\* What each place in the code relies on.
PlaceInv ==
  /\ world # "running" => \A m \in Mutators : pc[m] \in SafePC
  /\ world # "stopped" => (cmActive = 1 <=> phase = "marking")
  /\ \A m \in Mutators :
       /\ obj[m] \in live \cup {Null} /\ val[m] \in live \cup {Null}
       /\ pc[m] = "idle" => obj[m] = Null
       /\ pc[m] \in SafePC => val[m] = Null
       /\ pc[m] \in AccessPC \cup {"allocated"} => obj[m] # Null
       /\ pc[m] = "store" => obj[m] \notin unlogged
       /\ pc[m] = "copy" => val[m] # Null /\ val[m] \notin references

\* A new object that its thread has not got yet is empty, and nobody else has it.
NewInv ==
  \A m \in Mutators : pc[m] = "allocated" =>
    /\ field[obj[m]] = Null /\ obj[m] \notin locals
    /\ \A o \in Objects : field[o] # obj[m]
    /\ \A n \in Mutators \ {m} : obj[n] # obj[m] /\ val[n] # obj[m]

\* Marking will reach the snapshot, whatever threads hold, and whatever the settled objects
\* refer to.
MarkInv ==
  phase = "marking" =>
    /\ snapshot \cup locals \subseteq Sure
    /\ \A m \in Mutators : obj[m] \in Sure \cup {Null} /\ val[m] \in Sure \cup {Null}
    /\ \A o \in Settled \cap live : StrongField(o) \subseteq Sure
    /\ \A r \in references \cap marked : r \in candidates \/ field[r] \in Sure \cup {Null}

SATBInv == TypeOK /\ HeapInv /\ PlaceInv /\ NewInv /\ MarkInv

USE ObjectsAssumption, AllocFastpathAssumption

-------------------------------------------------------------------------------
(***************************************************************************)
(* What is marked in the end.                                              *)
(***************************************************************************)

\* A closure holds what it starts from, and follows the fields of what is not black.
LEMMA ClosureFacts ==
  ASSUME \A p \in live : StrongField(p) \subseteq live, NEW S \in SUBSET live, NEW black
  PROVE  /\ S \subseteq Closure(S, black) /\ Closure(S, black) \subseteq live
         /\ \A p \in Closure(S, black) \ black : StrongField(p) \subseteq Closure(S, black)
<1>1. S \subseteq Closure(S, black) /\ Closure(S, black) \subseteq live
  BY DEF Closure
<1>2. ASSUME NEW p \in Closure(S, black) \ black, NEW x \in StrongField(p)
      PROVE  x \in Closure(S, black)
  <2>1. p \in live /\ x \in live
    BY <1>1, <1>2
  <2>2. ASSUME NEW C \in SUBSET live, S \subseteq C,
               \A q \in C \ black : StrongField(q) \subseteq C
        PROVE  x \in C
    <3>1. p \in C
      BY <1>2, <2>2 DEF Closure
    <3>2. QED
      BY <1>2, <2>2, <3>1
  <2>3. QED
    BY <2>1, <2>2 DEF Closure
<1>3. QED
  BY <1>1, <1>2

\* Fields lead to objects that are allocated.
LEMMA FieldsLive ==
  ASSUME HeapInv
  PROVE  \A p \in live : StrongField(p) \subseteq live
  BY DEF HeapInv, StrongField

LEMMA SureFacts ==
  ASSUME HeapInv
  PROVE  /\ marked \cup grey \subseteq Sure /\ Sure \subseteq live
         /\ \A p \in Sure \ Settled : StrongField(p) \subseteq Sure
<1>1. (marked \cup grey) \in SUBSET live
  BY DEF HeapInv
<1>2. QED
  BY <1>1, FieldsLive, ClosureFacts DEF Sure

\* During marking, what can be reached from there will be marked as well.
LEMMA SureClosed ==
  ASSUME SATBInv, phase = "marking"
  PROVE  \A p \in Sure : StrongField(p) \subseteq Sure
<1>1. \A p \in Sure : p \in live
  BY SureFacts DEF SATBInv
<1>2. QED
  BY <1>1, SureFacts DEF SATBInv, MarkInv

\* The final pause marks all of it.
LEMMA SureWillBeMarked == Sure \subseteq WillBeMarked
<1> SUFFICES ASSUME NEW o \in Sure PROVE o \in WillBeMarked
  OBVIOUS
<1>1. o \in live
  BY DEF Sure, Closure
<1>2. ASSUME NEW C \in SUBSET live, marked \cup grey \subseteq C,
             \A p \in C \ marked : StrongField(p) \subseteq C
      PROVE  o \in C
  <2>1. \A p \in C \ Settled : StrongField(p) \subseteq C
    BY <1>2 DEF Settled
  <2>2. QED
    BY <1>2, <2>1 DEF Sure, Closure
<1>3. QED
  BY <1>1, <1>2 DEF WillBeMarked, Closure

\* What will be marked stays so if the fields of objects that have not been settled yet stay as
\* they are, or are recorded.
LEMMA SureGrows ==
  ASSUME HeapInv, references' = references, live \subseteq live',
         marked \cup grey \subseteq marked' \cup grey',
         \A p \in live \ Settled : \/ StrongField(p) \subseteq marked' \cup grey'
                                   \/ p \notin Settled' /\ field'[p] = field[p]
  PROVE  Sure \subseteq Sure'
<1> SUFFICES ASSUME NEW o \in Sure PROVE o \in Sure'
  OBVIOUS
<1>1. o \in live'
  BY SureFacts
<1>2. ASSUME NEW C \in SUBSET live', marked' \cup grey' \subseteq C,
             \A p \in C \ Settled' : StrongField(p)' \subseteq C
      PROVE  o \in C
  <2>1. C \cap live \in SUBSET live /\ marked \cup grey \subseteq C \cap live
    BY <1>2 DEF HeapInv
  <2>2. ASSUME NEW p \in (C \cap live) \ Settled PROVE StrongField(p) \subseteq C \cap live
    <3>1. StrongField(p) \subseteq live
      BY <2>2, FieldsLive
    <3>2. CASE StrongField(p) \subseteq marked' \cup grey'
      BY <1>2, <3>1, <3>2
    <3>3. CASE p \notin Settled' /\ field'[p] = field[p]
      <4>1. StrongField(p)' = StrongField(p)
        BY <3>3 DEF StrongField
      <4>2. QED
        BY <1>2, <2>2, <3>1, <3>3, <4>1
    <3>4. QED
      BY <2>2, <3>2, <3>3
  <2>3. o \in C \cap live
    BY <2>1, <2>2 DEF Sure, Closure
  <2>4. QED
    BY <2>3
<1>3. QED
  BY <1>1, <1>2 DEF Sure, Closure

\* What a step during marking has to see to.
LEMMA MarkingStep ==
  ASSUME SATBInv, HeapInv', phase = "marking", UNCHANGED <<references, snapshot>>,
         live \subseteq live', marked \subseteq marked', grey \subseteq marked' \cup grey',
         candidates \subseteq candidates',
         \A p \in live \ Settled : \/ StrongField(p) \subseteq marked' \cup grey'
                                   \/ p \notin Settled' /\ field'[p] = field[p],
         \A p \in live' : \/ field'[p] \in Sure \cup {Null}
                          \/ p \in live /\ field'[p] = field[p],
         locals' \subseteq Sure \cup marked' \cup grey',
         \A n \in Mutators : /\ obj'[n] \in Sure \cup marked' \cup grey' \cup {Null}
                             /\ val'[n] \in Sure \cup marked' \cup grey' \cup {Null},
         \A r \in references \cap marked' : r \in candidates' \/ r \in marked \/ field'[r] = Null
  PROVE  MarkInv'
<1>1. Sure \subseteq Sure'
  BY SureGrows DEF SATBInv
<1>2. marked' \cup grey' \subseteq Sure'
  BY DEF HeapInv, Sure, Closure
<1>3. snapshot' \cup locals' \subseteq Sure'
  BY <1>1, <1>2 DEF SATBInv, MarkInv
<1>4. \A n \in Mutators : obj'[n] \in Sure' \cup {Null} /\ val'[n] \in Sure' \cup {Null}
  BY <1>1, <1>2
<1>5. ASSUME NEW p \in Settled' \cap live' PROVE StrongField(p)' \subseteq Sure'
  <2>1. CASE field'[p] \in Sure \cup {Null}
    BY <1>1, <2>1 DEF StrongField
  <2>2. CASE p \in live /\ field'[p] = field[p]
    <3>1. StrongField(p)' = StrongField(p)
      BY <2>2 DEF StrongField
    <3>2. CASE p \in Settled
      BY <1>1, <2>2, <3>1, <3>2 DEF SATBInv, MarkInv
    <3>3. CASE p \notin Settled
      BY <1>2, <1>5, <2>2, <3>1, <3>3
    <3>4. QED
      BY <3>2, <3>3
  <2>3. QED
    BY <1>5, <2>1, <2>2
<1>6. ASSUME NEW r \in references' \cap marked'
      PROVE  r \in candidates' \/ field'[r] \in Sure' \cup {Null}
  <2>1. CASE r \in marked
    <3>1. r \in live /\ r \in live'
      BY <2>1 DEF SATBInv, HeapInv
    <3>2. r \in candidates \/ field[r] \in Sure \cup {Null}
      BY <1>6, <2>1 DEF SATBInv, MarkInv
    <3>3. QED
      BY <1>1, <3>1, <3>2
  <2>2. CASE r \notin marked
    BY <1>6, <2>2
  <2>3. QED
    BY <2>1, <2>2
<1>7. QED
  BY <1>3, <1>4, <1>5, <1>6 DEF MarkInv

-------------------------------------------------------------------------------
(***************************************************************************)
(* Mutators.                                                               *)
(***************************************************************************)
USE DEF SATBInv

\* An object is allocated: it is empty, nobody refers to it, and it is marked if marking is
\* going on.
LEMMA AllocationPreserves ==
  ASSUME SATBInv, NEW m \in Mutators, NEW o \in Objects, Idle(m), NewObject(o),
         \/ locals' = locals \cup {o} /\ fresh' = [fresh EXCEPT ![m] = o] /\ UNCHANGED accessVars
         \/ Goto(m, "allocated", o, Null) /\ UNCHANGED <<locals, fresh>>
  PROVE  SATBInv'
<1>1. /\ o \notin live /\ live' = live \cup {o} /\ field[o] = Null /\ pc[m] = "idle"
      /\ marked' = (IF phase = "marking" THEN marked \cup {o} ELSE marked)
      /\ UNCHANGED <<field, unlogged, grey, candidates, references, phase, world, cmActive,
                     snapshot>>
      /\ world = "running" /\ locals \subseteq locals' /\ locals' \subseteq locals \cup {o}
  BY DEF NewObject, Idle, gcVars, HeapInv
<1>2. /\ \A n \in Mutators : n # m => pc'[n] = pc[n] /\ obj'[n] = obj[n] /\ val'[n] = val[n]
      /\ \A n \in Mutators : n # m => fresh'[n] = fresh[n]
      /\ \/ pc'[m] = "idle" /\ obj'[m] = Null /\ val'[m] = Null
         \/ pc'[m] = "allocated" /\ obj'[m] = o /\ val'[m] = Null /\ locals' = locals
      /\ fresh'[m] \in {fresh[m], o}
  BY <1>1 DEF TypeOK, Goto, accessVars, PlaceInv, SafePC
<1>3. TypeOK'
  BY <1>1, <1>2 DEF TypeOK, Goto, accessVars, SafePC
<1>4. HeapInv'
  BY <1>1 DEF HeapInv
<1>5. PlaceInv'
  BY <1>1, <1>2 DEF PlaceInv, SafePC, AccessPC
<1>6. NewInv'
  <2>1. \A p \in Objects : field[p] # o
    BY <1>1 DEF HeapInv
  <2>2. \A n \in Mutators : obj[n] # o /\ val[n] # o
    BY <1>1 DEF PlaceInv
  <2>3. o \notin locals
    BY <1>1 DEF HeapInv
  <2>4. \A n \in Mutators : pc[n] = "allocated" => obj[n] # Null
    BY DEF PlaceInv
  <2>5. ASSUME NEW n \in Mutators, pc'[n] = "allocated", n # m
        PROVE  /\ field[obj'[n]] = Null /\ obj'[n] \notin locals'
               /\ \A p \in Objects : field[p] # obj'[n]
               /\ \A k \in Mutators \ {n} : obj'[k] # obj'[n] /\ val'[k] # obj'[n]
    BY <1>1, <1>2, <2>2, <2>4, <2>5 DEF NewInv
  <2>6. ASSUME pc'[m] = "allocated"
        PROVE  /\ field[obj'[m]] = Null /\ obj'[m] \notin locals'
               /\ \A p \in Objects : field[p] # obj'[m]
               /\ \A k \in Mutators \ {m} : obj'[k] # obj'[m] /\ val'[k] # obj'[m]
    BY <1>1, <1>2, <2>1, <2>2, <2>3, <2>6
  <2>7. QED
    BY <1>1, <2>5, <2>6 DEF NewInv
<1>7. MarkInv'
  <2>1. CASE phase = "marking"
    <3>1. marked' = marked \cup {o}
      BY <1>1, <2>1
    <3>2. \A p \in live \ Settled : p \notin Settled'
      BY <1>1, <1>2, <3>1 DEF Settled, OpenPC, TypeOK
    <3>3. \A p \in live' : field'[p] \in Sure \cup {Null} \/ (p \in live /\ field'[p] = field[p])
      BY <1>1
    <3>4. locals' \subseteq Sure \cup marked'
      BY <1>1, <2>1, <3>1 DEF MarkInv
    <3>5. \A n \in Mutators : /\ obj'[n] \in Sure \cup marked' \cup {Null}
                              /\ val'[n] \in Sure \cup marked' \cup {Null}
      BY <1>2, <2>1, <3>1 DEF MarkInv
    <3>6. \A r \in references \cap marked' : r \in marked \/ field'[r] = Null
      BY <1>1, <3>1
    <3>7. QED
      BY <1>1, <1>4, <2>1, <3>1, <3>2, <3>3, <3>4, <3>5, <3>6, MarkingStep
  <2>2. CASE phase # "marking"
    BY <1>1, <2>2 DEF MarkInv
  <2>3. QED
    BY <2>1, <2>2
<1>8. QED
  BY <1>3, <1>4, <1>5, <1>6, <1>7

\* The slow path of allocation returns to code that may leave barriers out.
LEMMA AllocationExitPreserves ==
  ASSUME SATBInv, NEW m \in Mutators, SlowpathAllocationExit(m)
  PROVE  SATBInv'
<1>1. /\ world = "running" /\ pc[m] = "allocated" /\ locals' = locals \cup {obj[m]}
      /\ fresh' = [fresh EXCEPT ![m] = obj[m]]
      /\ UNCHANGED <<live, field, unlogged, marked, grey, candidates, references, phase, world,
                     cmActive, snapshot>>
      /\ obj[m] \in live
  BY DEF SlowpathAllocationExit, heapVars, markVars, gcVars, PlaceInv
<1>2. /\ \A n \in Mutators : n # m => /\ pc'[n] = pc[n] /\ obj'[n] = obj[n] /\ val'[n] = val[n]
                                      /\ fresh'[n] = fresh[n]
      /\ pc'[m] = "idle" /\ obj'[m] = Null /\ val'[m] = Null /\ fresh'[m] = obj[m]
  BY <1>1 DEF SlowpathAllocationExit, TypeOK, Goto
<1>3. TypeOK'
  BY <1>1 DEF TypeOK, SlowpathAllocationExit, Goto, SafePC
<1>4. HeapInv'
  BY <1>1 DEF HeapInv
<1>5. PlaceInv'
  BY <1>1, <1>2 DEF PlaceInv, SafePC, AccessPC
<1>6. NewInv'
  <2>1. \A n \in Mutators : pc[n] = "allocated" => obj[n] # Null
    BY DEF PlaceInv
  <2>2. QED
    BY <1>1, <1>2, <2>1 DEF NewInv
<1>7. MarkInv'
  <2>1. CASE phase = "marking"
    <3>1. \A p \in live \ Settled : p \notin Settled'
      BY <1>1, <1>2 DEF Settled, OpenPC
    <3>2. locals' \subseteq Sure
      BY <1>1, <2>1 DEF MarkInv, TypeOK
    <3>3. \A n \in Mutators : obj'[n] \in Sure \cup {Null} /\ val'[n] \in Sure \cup {Null}
      BY <1>2, <2>1 DEF MarkInv
    <3>4. QED
      BY <1>1, <1>4, <2>1, <3>1, <3>2, <3>3, MarkingStep
  <2>2. CASE phase # "marking"
    BY <1>1, <2>2 DEF MarkInv
  <2>3. QED
    BY <2>1, <2>2
<1>8. QED
  BY <1>3, <1>4, <1>5, <1>6, <1>7

\* A field is written: the object is settled, so that nothing counts on the old value, and
\* the new value will be marked.
Write(m, o, v) ==
  /\ world = "running" /\ o \in live /\ v \in live \cup {Null}
  /\ field' = [field EXCEPT ![o] = v]
  /\ UNCHANGED <<live, unlogged, markVars, gcVars, fresh>>
  /\ UNCHANGED accessVars \/ Goto(m, "idle", Null, Null)
  /\ locals' = locals \/ (pc[m] = "allocated" /\ locals' = locals \cup {obj[m]})
  /\ \A n \in Mutators : pc[n] = "allocated" => v # obj[n] /\ (o # obj[n] \/ n = m)
  /\ pc[m] = "allocated" => o = obj[m] /\ Goto(m, "idle", Null, Null)
  /\ phase = "marking" => o \in Settled /\ (v \in Sure \cup {Null} \/ v = field[o])

LEMMA WritePreserves ==
  ASSUME SATBInv, NEW m \in Mutators, NEW o, NEW v, Write(m, o, v)
  PROVE  SATBInv'
<1> USE DEF Write
<1>1. /\ field'[o] = v /\ \A p \in Objects : p # o => field'[p] = field[p]
      /\ UNCHANGED <<marked, grey, candidates, references, phase, world, cmActive, snapshot>>
  BY DEF TypeOK, markVars, gcVars
<1>2. /\ \A n \in Mutators : n # m => pc'[n] = pc[n] /\ obj'[n] = obj[n] /\ val'[n] = val[n]
      /\ \/ pc'[m] = pc[m] /\ obj'[m] = obj[m] /\ val'[m] = val[m] /\ pc[m] # "allocated"
         \/ pc'[m] = "idle" /\ obj'[m] = Null /\ val'[m] = Null
  <2>1. CASE UNCHANGED accessVars /\ pc[m] # "allocated"
    BY <2>1 DEF accessVars
  <2>2. CASE Goto(m, "idle", Null, Null)
    BY <2>2 DEF Goto, TypeOK
  <2>3. QED
    BY <2>1, <2>2
<1>3. TypeOK'
  <2>1. /\ pc' \in [Mutators -> SafePC \cup {"slow", "log", "store", "copy"}]
        /\ obj' \in [Mutators -> Objects \cup {Null}] /\ val' \in [Mutators -> Objects \cup {Null}]
    BY DEF TypeOK, accessVars, Goto, SafePC
  <2>2. field' \in [Objects -> Objects \cup {Null}] /\ locals' \subseteq Objects
    BY DEF TypeOK, PlaceInv
  <2>3. QED
    BY <1>1, <2>1, <2>2 DEF TypeOK
<1>4. HeapInv'
  <2>1. locals' \subseteq live /\ live \subseteq Objects
    BY DEF HeapInv, TypeOK, PlaceInv
  <2>2. QED
    BY <1>1, <2>1 DEF HeapInv
<1>5. PlaceInv'
  BY <1>1, <1>2 DEF PlaceInv, SafePC, AccessPC
<1>6. NewInv'
  <2>1. ASSUME NEW n \in Mutators, pc'[n] = "allocated"
        PROVE  /\ field'[obj'[n]] = Null /\ obj'[n] \notin locals'
               /\ \A p \in Objects : field'[p] # obj'[n]
               /\ \A k \in Mutators \ {n} : obj'[k] # obj'[n] /\ val'[k] # obj'[n]
    <3>1. n # m /\ pc[n] = "allocated" /\ obj'[n] = obj[n]
      BY <1>2, <2>1
    <3>2. obj[n] \in live /\ obj[n] \in Objects /\ obj[n] # o /\ obj[n] # v /\ obj[n] # Null
      BY <3>1 DEF PlaceInv, TypeOK
    <3>3. /\ field[obj[n]] = Null /\ obj[n] \notin locals
          /\ \A p \in Objects : field[p] # obj[n]
          /\ \A k \in Mutators \ {n} : obj[k] # obj[n] /\ val[k] # obj[n]
      BY <3>1 DEF NewInv
    <3>4. QED
      BY <1>1, <1>2, <3>1, <3>2, <3>3
  <2>2. QED
    BY <2>1 DEF NewInv
<1>7. MarkInv'
  <2>1. CASE phase = "marking"
    <3>1. \A p \in live : p \notin Settled => p \notin Settled'
      BY <1>1, <1>2 DEF Settled, OpenPC
    <3>2. \A p \in live \ Settled : p \notin Settled' /\ field'[p] = field[p]
      BY <1>1, <2>1, <3>1 DEF TypeOK
    <3>3. \A p \in live : field'[p] \in Sure \cup {Null} \/ field'[p] = field[p]
      BY <1>1, <2>1 DEF TypeOK
    <3>4. locals' \subseteq Sure
      BY <2>1 DEF MarkInv, PlaceInv
    <3>5. \A n \in Mutators : obj'[n] \in Sure \cup {Null} /\ val'[n] \in Sure \cup {Null}
      BY <1>2, <2>1 DEF MarkInv
    <3>6. QED
      BY <1>1, <1>4, <2>1, <3>2, <3>3, <3>4, <3>5, MarkingStep
  <2>2. CASE phase # "marking"
    BY <1>1, <2>2 DEF MarkInv
  <2>3. QED
    BY <2>1, <2>2
<1>8. QED
  BY <1>3, <1>4, <1>5, <1>6, <1>7

\* A thread goes on to the next part of a barrier.
LEMMA BarrierPreserves ==
  ASSUME SATBInv, NEW m \in Mutators, world = "running", pc[m] # "allocated",
         NEW to \in AccessPC, NEW o \in live, NEW v \in live \cup {Null}, Goto(m, to, o, v),
         \A n \in Mutators : pc[n] = "allocated" => obj[n] # o /\ obj[n] # v,
         to = "store" => o \notin unlogged', to = "copy" => v # Null /\ v \notin references,
         UNCHANGED <<live, field, marked, gcVars, locals, fresh>>,
         unlogged' \subseteq unlogged, grey \subseteq grey', grey' \subseteq live,
         candidates \subseteq candidates', candidates' \subseteq references,
         phase = "marking" =>
           /\ o \in Sure /\ v \in Sure \cup {Null}
           /\ \A p \in live \ Settled : p \in Settled' => StrongField(p) \subseteq marked \cup grey'
  PROVE  SATBInv'
<1>1. UNCHANGED <<references, phase, world, cmActive, snapshot>>
  BY DEF gcVars
<1>2. /\ \A n \in Mutators : n # m => pc'[n] = pc[n] /\ obj'[n] = obj[n] /\ val'[n] = val[n]
      /\ pc'[m] = to /\ obj'[m] = o /\ val'[m] = v
  BY DEF TypeOK, Goto
<1>3. TypeOK'
  <2>1. to \in {"slow", "log", "store", "copy"} /\ o \in Objects /\ v \in Objects \cup {Null}
    BY DEF TypeOK, AccessPC
  <2>2. /\ pc' \in [Mutators -> SafePC \cup {"slow", "log", "store", "copy"}]
        /\ obj' \in [Mutators -> Objects \cup {Null}] /\ val' \in [Mutators -> Objects \cup {Null}]
    BY <2>1 DEF TypeOK, Goto, SafePC
  <2>3. unlogged' \subseteq Objects /\ grey' \subseteq Objects /\ candidates' \subseteq references'
    BY <1>1 DEF TypeOK
  <2>4. QED
    BY <1>1, <2>2, <2>3 DEF TypeOK
<1>4. HeapInv'
  BY <1>1 DEF HeapInv
<1>5. PlaceInv'
  <2>1. o # Null
    BY DEF TypeOK
  <2>2. QED
    BY <1>1, <1>2, <2>1 DEF PlaceInv, SafePC, AccessPC
<1>6. NewInv'
  <2>1. ASSUME NEW n \in Mutators, pc'[n] = "allocated"
        PROVE  /\ field'[obj'[n]] = Null /\ obj'[n] \notin locals'
               /\ \A p \in Objects : field'[p] # obj'[n]
               /\ \A k \in Mutators \ {n} : obj'[k] # obj'[n] /\ val'[k] # obj'[n]
    <3>1. n # m /\ pc[n] = "allocated" /\ obj'[n] = obj[n]
      BY <1>2, <2>1 DEF AccessPC
    <3>2. QED
      BY <1>2, <3>1 DEF NewInv
  <2>2. QED
    BY <2>1 DEF NewInv
<1>7. MarkInv'
  <2>1. CASE phase = "marking"
    <3>1. \A p \in live \ Settled : \/ StrongField(p) \subseteq marked' \cup grey'
                                    \/ p \notin Settled' /\ field'[p] = field[p]
      BY <2>1
    <3>2. locals' \subseteq Sure
      BY <2>1 DEF MarkInv
    <3>3. \A n \in Mutators : obj'[n] \in Sure \cup {Null} /\ val'[n] \in Sure \cup {Null}
      BY <1>2, <2>1 DEF MarkInv
    <3>4. QED
      BY <1>1, <1>4, <2>1, <3>1, <3>2, <3>3, MarkingStep
  <2>2. CASE phase # "marking"
    BY <1>1, <2>2 DEF MarkInv
  <2>3. QED
    BY <2>1, <2>2
<1>8. QED
  BY <1>3, <1>4, <1>5, <1>6, <1>7

\* What threads have in hand is not an object that another one is just allocating.
LEMMA HeldIsNotNew ==
  ASSUME SATBInv, NEW n \in Mutators, pc[n] = "allocated"
  PROVE  /\ obj[n] \notin locals /\ obj[n] # Null
         /\ \A o \in Objects : field[o] # obj[n]
         /\ \A m \in Mutators \ {n} : obj[m] # obj[n] /\ val[m] # obj[n]
  BY DEF NewInv, PlaceInv

\* The write barriers of all kinds of code: the barrier is left out only if the object is
\* settled.
LEMMA WritePrePreserves ==
  ASSUME SATBInv, NEW m \in Mutators, NEW o \in locals, NEW v \in locals \cup {Null},
         NEW slow \in BOOLEAN, WritePre(m, o, v, slow),
         ~slow => o \notin unlogged \/ o = fresh[m]
  PROVE  SATBInv'
<1>1. /\ world = "running" /\ pc[m] = "idle" /\ o \in live /\ v \in live \cup {Null}
      /\ UNCHANGED <<live, unlogged, markVars, gcVars, locals, fresh>>
  BY DEF WritePre, Idle, HeapInv
<1>2. \A n \in Mutators : pc[n] = "allocated" => obj[n] # o /\ obj[n] # v
  BY HeldIsNotNew
<1>3. phase = "marking" => o \in Sure /\ v \in Sure \cup {Null}
  BY DEF MarkInv
<1>4. CASE slow
  <2>1. Goto(m, "slow", o, v) /\ UNCHANGED <<field, grey, marked, candidates>>
    BY <1>1, <1>4 DEF WritePre, markVars
  <2>2. \A p \in live \ Settled : p \notin Settled'
    BY <1>1, <2>1 DEF Settled, OpenPC, Goto, TypeOK
  <2>3. grey \subseteq live /\ candidates \subseteq references
    BY DEF HeapInv, TypeOK
  <2>4. "slow" \in AccessPC
    BY DEF AccessPC
  <2>5. QED
    BY <1>1, <1>2, <1>3, <2>1, <2>2, <2>3, <2>4, BarrierPreserves
<1>5. CASE ~slow
  <2>1. field' = [field EXCEPT ![o] = v] /\ UNCHANGED accessVars
    BY <1>5 DEF WritePre, Access
  <2>2. o \in Settled
    BY <1>1, <1>5 DEF Settled
  <2>3. Write(m, o, v)
    BY <1>1, <1>2, <1>3, <2>1, <2>2 DEF Write
  <2>4. QED
    BY <2>3, WritePreserves
<1>6. QED
  BY <1>4, <1>5

\* The places inside a barrier.
LEMMA AccessFacts ==
  ASSUME SATBInv, NEW m \in Mutators, pc[m] \in AccessPC
  PROVE  /\ world = "running" /\ pc[m] # "allocated" /\ obj[m] \in live
         /\ val[m] \in live \cup {Null}
         /\ \A n \in Mutators : pc[n] = "allocated" => obj[n] # obj[m] /\ obj[n] # val[m]
         /\ phase = "marking" => obj[m] \in Sure /\ val[m] \in Sure \cup {Null}
<1>1. pc[m] # "allocated" /\ pc[m] \notin SafePC
  BY DEF AccessPC, SafePC
<1>2. world = "running" /\ obj[m] \in live /\ val[m] \in live \cup {Null} /\ obj[m] # Null
  BY <1>1 DEF PlaceInv
<1>3. \A n \in Mutators : pc[n] = "allocated" => obj[n] # obj[m] /\ obj[n] # val[m]
  BY <1>1, HeldIsNotNew
<1>4. QED
  BY <1>1, <1>2, <1>3 DEF MarkInv

\* What the slow path records.
LEMMA RecordFacts ==
  ASSUME SATBInv, NEW S \in SUBSET live, Record(S)
  PROVE  /\ grey \subseteq grey' /\ grey' \subseteq live
         /\ phase = "marking" => S \subseteq grey'
  BY DEF Record, HeapInv

LEMMA RecordFieldsPreserves ==
  ASSUME SATBInv, NEW m \in Mutators, RecordFields(m)
  PROVE  SATBInv'
<1>1. PICK o \in live, v \in live \cup {Null} : o = obj[m] /\ v = val[m]
  BY AccessFacts DEF RecordFields, AccessPC
<1>2. /\ pc[m] \in AccessPC /\ Goto(m, "log", o, v) /\ Record(StrongField(o))
      /\ candidates' = candidates \cup ({o} \cap references)
      /\ UNCHANGED <<live, field, unlogged, marked, gcVars, locals, fresh>>
  BY <1>1 DEF RecordFields, heapVars, AccessPC
<1>3. /\ grey \subseteq grey' /\ grey' \subseteq live
      /\ phase = "marking" => StrongField(o) \subseteq grey'
  BY <1>2, FieldsLive, RecordFacts
<1>4. \A p \in live \ Settled : p \in Settled' => p = o
  BY <1>1, <1>2 DEF Settled, OpenPC, Goto, TypeOK
<1>5. candidates' \subseteq references /\ "log" \in AccessPC
  BY <1>2 DEF TypeOK, AccessPC
<1>6. QED
  BY <1>1, <1>2, <1>3, <1>4, <1>5, AccessFacts, BarrierPreserves

\* The fields of the object have been recorded when its bit is cleared.
LEMMA LogObjectPreserves ==
  ASSUME SATBInv, NEW m \in Mutators, LogObject(m)
  PROVE  SATBInv'
<1>1. PICK o \in live, v \in live \cup {Null} : o = obj[m] /\ v = val[m]
  BY AccessFacts DEF LogObject, AccessPC
<1>2. /\ pc[m] = "log" /\ pc[m] \in AccessPC /\ Goto(m, "store", o, v) /\ unlogged' = unlogged \ {o}
      /\ UNCHANGED <<live, field, marked, grey, candidates, gcVars, locals, fresh>>
  BY <1>1 DEF LogObject, markVars, AccessPC
<1>3. o \in Settled
  BY <1>1, <1>2 DEF Settled, OpenPC
<1>4. \A p \in live \ Settled : p \notin Settled'
  BY <1>1, <1>2, <1>3 DEF Settled, OpenPC, Goto, TypeOK
<1>5. candidates \subseteq references /\ grey \subseteq live /\ "store" \in AccessPC
  BY DEF TypeOK, HeapInv, AccessPC
<1>6. QED
  BY <1>1, <1>2, <1>4, <1>5, AccessFacts, BarrierPreserves

LEMMA StoreAfterSlowPreserves ==
  ASSUME SATBInv, NEW m \in Mutators, NEW done \in BOOLEAN, StoreAfterSlow(m, done)
  PROVE  SATBInv'
<1>1. PICK o \in live, v \in live \cup {Null} : o = obj[m] /\ v = val[m]
  BY AccessFacts DEF StoreAfterSlow, AccessPC
<1>2. /\ pc[m] = "store" /\ pc[m] \in AccessPC /\ Goto(m, "idle", Null, Null)
      /\ UNCHANGED <<live, unlogged, markVars, gcVars, locals, fresh>>
  BY DEF StoreAfterSlow, AccessPC
<1>3. o \in Settled /\ field[o] \in live \cup {Null}
  BY <1>1, <1>2 DEF PlaceInv, Settled, HeapInv
<1>4. CASE done
  <2>1. field' = [field EXCEPT ![o] = v]
    BY <1>1, <1>4 DEF StoreAfterSlow, Access
  <2>2. Write(m, o, v)
    BY <1>1, <1>2, <1>3, <2>1, AccessFacts DEF Write
  <2>3. QED
    BY <2>2, WritePreserves
<1>5. CASE ~done
  <2>1. PICK w \in live \cup {Null} : w = field[o]
    BY <1>3
  <2>2. field' = field /\ field' = [field EXCEPT ![o] = w]
    BY <1>5, <2>1 DEF StoreAfterSlow, Access, TypeOK
  <2>3. \A n \in Mutators : pc[n] = "allocated" => w # obj[n]
    BY <2>1, HeldIsNotNew DEF TypeOK
  <2>4. Write(m, o, w)
    BY <1>1, <1>2, <1>3, <2>1, <2>2, <2>3, AccessFacts DEF Write
  <2>5. QED
    BY <2>4, WritePreserves
<1>6. QED
  BY <1>4, <1>5

\* What a field holds that marking looks at may be copied.
LEMMA FieldFacts ==
  ASSUME SATBInv, NEW src \in live \ references, phase = "marking" => src \in Sure
  PROVE  /\ field[src] \in live \cup {Null}
         /\ phase = "marking" => field[src] \in Sure \cup {Null}
         /\ \A n \in Mutators : pc[n] = "allocated" => field[src] # obj[n]
<1>1. field[src] \in live \cup {Null} /\ src \in Objects
  BY DEF HeapInv, TypeOK
<1>2. phase = "marking" => field[src] \in Sure \cup {Null}
  BY SureClosed DEF StrongField
<1>3. QED
  BY <1>1, <1>2, HeldIsNotNew

\* The barrier of an array copy: what the destination holds has been recorded.
LEMMA ArrayCopyPrePreserves ==
  ASSUME SATBInv, NEW m \in Mutators, NEW src \in Objects, NEW dst \in Objects,
         ArrayCopyPre(m, src, dst)
  PROVE  SATBInv'
<1>1. /\ world = "running" /\ pc[m] = "idle" /\ src \in locals /\ dst \in locals
      /\ src \notin references /\ src \in live /\ dst \in live /\ src # Null
      /\ Record(StrongField(dst)) /\ Goto(m, "copy", dst, src)
      /\ UNCHANGED <<live, field, unlogged, marked, candidates, gcVars, locals, fresh>>
  BY DEF ArrayCopyPre, Idle, HeapInv, heapVars
<1>2. /\ grey \subseteq grey' /\ grey' \subseteq live
      /\ phase = "marking" => StrongField(dst) \subseteq grey'
  BY <1>1, FieldsLive, RecordFacts
<1>3. \A p \in live \ Settled : p \in Settled' => p = dst
  BY <1>1 DEF Settled, OpenPC, Goto, TypeOK
<1>4. \A n \in Mutators : pc[n] = "allocated" => obj[n] # dst /\ obj[n] # src
  BY <1>1, HeldIsNotNew
<1>5. phase = "marking" => dst \in Sure /\ src \in Sure
  BY <1>1 DEF MarkInv
<1>6. candidates' \subseteq references /\ "copy" \in AccessPC
  BY <1>1 DEF TypeOK, AccessPC
<1>7. QED
  BY <1>1, <1>2, <1>3, <1>4, <1>5, <1>6, BarrierPreserves

LEMMA CopyElementsPreserves ==
  ASSUME SATBInv, NEW m \in Mutators, CopyElements(m)
  PROVE  SATBInv'
<1>1. PICK o \in live, src \in live \ references : o = obj[m] /\ src = val[m]
  BY AccessFacts DEF CopyElements, AccessPC, PlaceInv
<1>2. /\ pc[m] = "copy" /\ pc[m] \in AccessPC /\ Goto(m, "idle", Null, Null) /\ locals' = locals
      /\ field' = [field EXCEPT ![o] = field[src]]
      /\ UNCHANGED <<live, unlogged, markVars, gcVars, fresh>>
  BY <1>1 DEF CopyElements, AccessPC
<1>3. o \in Settled
  BY <1>1, <1>2 DEF Settled, OpenPC
<1>4. phase = "marking" => src \in Sure
  BY <1>1, <1>2, AccessFacts DEF TypeOK
<1>5. Write(m, o, field[src])
  BY <1>1, <1>2, <1>3, <1>4, AccessFacts, FieldFacts DEF Write
<1>6. QED
  BY <1>5, WritePreserves

\* Copies into a new object, which have no barrier.
LEMMA NewCopyPreserves ==
  ASSUME SATBInv, NEW m \in Mutators, NEW src \in Objects, NEW dst \in Objects,
         C2ArrayCopy(m, src, dst)
  PROVE  SATBInv'
<1>1. /\ world = "running" /\ pc[m] = "idle" /\ src \in locals /\ dst \in locals
      /\ src \in live \ references /\ dst \in live /\ locals' = locals
      /\ field' = [field EXCEPT ![dst] = field[src]]
      /\ UNCHANGED <<live, unlogged, markVars, gcVars, fresh, accessVars>>
  BY DEF C2ArrayCopy, Idle, HeapInv
<1>2. dst \in Settled
  BY DEF C2ArrayCopy, Settled
<1>3. phase = "marking" => src \in Sure
  BY <1>1 DEF MarkInv
<1>4. \A n \in Mutators : pc[n] = "allocated" => obj[n] # dst
  BY <1>1, HeldIsNotNew
<1>5. Write(m, dst, field[src])
  BY <1>1, <1>2, <1>3, <1>4, FieldFacts DEF Write
<1>6. QED
  BY <1>5, WritePreserves

LEMMA CloneInHeapPreserves ==
  ASSUME SATBInv, NEW m \in Mutators, NEW src \in Objects, CloneInHeap(m, src)
  PROVE  SATBInv'
<1>1. PICK o \in live : o = obj[m]
  BY DEF CloneInHeap, PlaceInv
<1>2. /\ world = "running" /\ pc[m] = "allocated" /\ src \in locals /\ src \in live \ references
      /\ field' = [field EXCEPT ![o] = field[src]] /\ locals' = locals \cup {obj[m]}
      /\ Goto(m, "idle", Null, Null) /\ UNCHANGED <<live, unlogged, markVars, gcVars, fresh>>
  BY <1>1 DEF CloneInHeap, HeapInv
<1>3. o \in Settled
  BY <1>1, <1>2 DEF Settled, OpenPC
<1>4. phase = "marking" => src \in Sure
  BY <1>2 DEF MarkInv
<1>5. \A n \in Mutators : pc[n] = "allocated" => o # obj[n] \/ n = m
  BY <1>1, <1>2, HeldIsNotNew
<1>6. Write(m, o, field[src])
  BY <1>1, <1>2, <1>3, <1>4, <1>5, FieldFacts DEF Write
<1>7. QED
  BY <1>6, WritePreserves

\* A thread loads what marking will reach or what it records.
Load(S) ==
  /\ world = "running" /\ S \subseteq live /\ locals' = locals \cup S
  /\ grey \subseteq grey' /\ grey' \subseteq live
  /\ \A n \in Mutators : pc[n] = "allocated" => obj[n] \notin S
  /\ phase = "marking" => S \subseteq Sure \cup grey'
  /\ UNCHANGED <<heapVars, marked, candidates, gcVars, accessVars, fresh>>

LEMMA LoadPreserves ==
  ASSUME SATBInv, NEW S, Load(S)
  PROVE  SATBInv'
<1> USE DEF Load
<1>1. UNCHANGED <<live, field, unlogged, marked, candidates, references, phase, world, cmActive,
                  snapshot, pc, obj, val, fresh>>
  BY DEF heapVars, gcVars, accessVars
<1>2. TypeOK'
  BY <1>1 DEF TypeOK
<1>3. HeapInv'
  BY <1>1 DEF HeapInv
<1>4. PlaceInv'
  BY <1>1 DEF PlaceInv
<1>5. NewInv'
  BY <1>1 DEF NewInv
<1>6. MarkInv'
  <2>1. CASE phase = "marking"
    <3>1. Settled' = Settled
      BY <1>1 DEF Settled
    <3>2. locals' \subseteq Sure \cup grey'
      BY <2>1 DEF MarkInv
    <3>3. \A n \in Mutators : obj'[n] \in Sure \cup {Null} /\ val'[n] \in Sure \cup {Null}
      BY <1>1, <2>1 DEF MarkInv
    <3>4. QED
      BY <1>1, <1>3, <2>1, <3>1, <3>2, <3>3, MarkingStep
  <2>2. CASE phase # "marking"
    BY <1>1, <2>2 DEF MarkInv
  <2>3. QED
    BY <2>1, <2>2
<1>7. QED
  BY <1>2, <1>3, <1>4, <1>5, <1>6

LEMMA LoadFieldPreserves ==
  ASSUME SATBInv, NEW m \in Mutators, NEW o \in Objects, LoadField(m, o)
  PROVE  SATBInv'
<1>1. /\ world = "running" /\ o \in locals /\ o \in live /\ grey' = grey /\ grey \subseteq live
      /\ locals' = locals \cup StrongField(o)
      /\ UNCHANGED <<heapVars, marked, candidates, gcVars, accessVars, fresh>>
  BY DEF LoadField, Idle, markVars, HeapInv
<1>2. phase = "marking" => o \in Sure
  BY <1>1 DEF MarkInv
<1>3. /\ phase = "marking" => StrongField(o) \subseteq Sure
      /\ StrongField(o) \subseteq live
      /\ \A n \in Mutators : pc[n] = "allocated" => obj[n] \notin StrongField(o)
  <2>1. CASE o \in references
    BY <2>1 DEF StrongField
  <2>2. CASE o \notin references
    BY <1>1, <1>2, <2>2, FieldFacts DEF StrongField
  <2>3. QED
    BY <2>1, <2>2
<1>4. Load(StrongField(o))
  BY <1>1, <1>3 DEF Load
<1>5. QED
  BY <1>4, LoadPreserves

\* Every kind of code has a barrier on every kind of load from a Reference.
LEMMA ReferentLoadsHaveBarriers ==
  ASSUME NEW r \in references, NEW load \in Loads
  PROVE  NeedsLoadBarrier(load[1], load[2], r)
<1>1. CASE load \in {"runtime", "c1"} \X {"weak", "phantom", "unknown"}
  <2>1. load[1] \in {"runtime", "c1"} /\ load[2] \in {"weak", "phantom", "unknown"}
    BY <1>1
  <2>2. QED
    BY <2>1 DEF NeedsLoadBarrier, RuntimeNeedsEnqueue, C1OnReference
<1>2. CASE load \in {"assembler"} \X {"weak", "phantom"}
  <2>1. load[1] = "assembler" /\ load[2] \in {"weak", "phantom"}
    BY <1>2
  <2>2. QED
    BY <2>1 DEF NeedsLoadBarrier, AssemblerOnReference
<1>3. CASE load \in {"c2"} \X {"weak", "unknown"}
  <2>1. load[1] = "c2" /\ load[2] \in {"weak", "unknown"}
    BY <1>3
  <2>2. QED
    BY <2>1 DEF NeedsLoadBarrier, C2NeedReadBarrier
<1>4. QED
  BY <1>1, <1>2, <1>3 DEF Loads

\* Marking does not look through a Reference: what is loaded from it is recorded.
LEMMA LoadReferentPreserves ==
  ASSUME SATBInv, NEW m \in Mutators, NEW r \in references, LoadReferent(m, r)
  PROVE  SATBInv'
<1>1. /\ world = "running" /\ r \in live /\ r \in Objects /\ grey \subseteq live
      /\ locals' = locals \cup ({field[r]} \ {Null})
      /\ UNCHANGED <<heapVars, marked, candidates, gcVars, accessVars, fresh>>
  BY DEF LoadReferent, Idle, HeapInv, TypeOK
<1>2. LoadReference(field[r])
  BY ReferentLoadsHaveBarriers DEF LoadReferent
<1>3. cmActive = 1 <=> phase = "marking"
  BY <1>1 DEF PlaceInv
<1>4. field[r] \in live \cup {Null}
  BY <1>1 DEF HeapInv
<1>5. /\ grey \subseteq grey' /\ grey' \subseteq live
      /\ phase = "marking" /\ field[r] # Null => field[r] \in grey'
  BY <1>1, <1>2, <1>3, <1>4 DEF LoadReference, Record
<1>6. \A n \in Mutators : pc[n] = "allocated" => obj[n] # field[r]
  BY <1>1, HeldIsNotNew
<1>7. Load({field[r]} \ {Null})
  BY <1>1, <1>4, <1>5, <1>6 DEF Load
<1>8. QED
  BY <1>7, LoadPreserves

\* A variable is forgotten, and with it that compiled code may leave out barriers: the fields of
\* the object will be marked anyway.
LEMMA ForgetPreserves ==
  ASSUME SATBInv, NEW o \in Objects, Forget(o)
  PROVE  SATBInv'
<1>1. /\ UNCHANGED <<live, field, unlogged, marked, grey, candidates, references, phase, world,
                     cmActive, snapshot, pc, obj, val>>
      /\ locals' = locals \ {o} /\ fresh' = [n \in Mutators |-> IF fresh[n] = o THEN Null ELSE fresh[n]]
  BY DEF Forget, heapVars, markVars, gcVars, accessVars
<1>2. TypeOK'
  BY <1>1 DEF TypeOK
<1>3. HeapInv'
  BY <1>1 DEF HeapInv
<1>4. PlaceInv'
  BY <1>1 DEF PlaceInv
<1>5. NewInv'
  BY <1>1 DEF NewInv
<1>6. MarkInv'
  <2>1. CASE phase = "marking"
    <3>1. \A p \in live \ Settled : p \notin Settled'
      BY <1>1 DEF Settled, TypeOK
    <3>2. locals' \subseteq Sure
      BY <1>1, <2>1 DEF MarkInv
    <3>3. \A n \in Mutators : obj'[n] \in Sure \cup {Null} /\ val'[n] \in Sure \cup {Null}
      BY <1>1, <2>1 DEF MarkInv
    <3>4. QED
      BY <1>1, <1>3, <2>1, <3>1, <3>2, <3>3, MarkingStep
  <2>2. CASE phase # "marking"
    BY <1>1, <2>2 DEF MarkInv
  <2>3. QED
    BY <2>1, <2>2
<1>7. QED
  BY <1>2, <1>3, <1>4, <1>5, <1>6

-------------------------------------------------------------------------------
(***************************************************************************)
(* The collector.                                                          *)
(***************************************************************************)
LEMMA MarkObjectPreserves ==
  ASSUME SATBInv, NEW o \in Objects, MarkObject(o)
  PROVE  SATBInv'
<1>1. /\ UNCHANGED <<live, field, unlogged, references, phase, world, cmActive, snapshot, locals,
                     pc, obj, val, fresh>>
      /\ phase = "marking" /\ o \in grey /\ o \in live
  BY DEF MarkObject, heapVars, gcVars, accessVars, HeapInv
<1>2. /\ marked' = marked \cup {o} /\ grey \subseteq grey' \cup {o}
      /\ grey' \subseteq grey \cup StrongField(o)
      /\ o \notin marked => StrongField(o) \subseteq grey'
      /\ candidates \subseteq candidates' /\ candidates' \subseteq candidates \cup ({o} \cap references)
      /\ o \in references \ marked => o \in candidates'
  BY DEF MarkObject
<1>3. StrongField(o) \subseteq live
  BY <1>1, FieldsLive
<1>4. TypeOK'
  BY <1>1, <1>2, <1>3 DEF TypeOK
<1>5. HeapInv'
  BY <1>1, <1>2, <1>3 DEF HeapInv
<1>6. PlaceInv' /\ NewInv'
  BY <1>1 DEF PlaceInv, NewInv
<1>7. MarkInv'
  <2>1. \A p \in live \ Settled : p # o => p \notin Settled'
    BY <1>1, <1>2 DEF Settled
  <2>2. o \notin Settled => StrongField(o) \subseteq marked' \cup grey'
    BY <1>2 DEF Settled
  <2>3. locals' \subseteq Sure
    BY <1>1 DEF MarkInv
  <2>4. \A n \in Mutators : obj'[n] \in Sure \cup {Null} /\ val'[n] \in Sure \cup {Null}
    BY <1>1 DEF MarkInv
  <2>5. QED
    BY <1>1, <1>2, <1>5, <2>1, <2>2, <2>3, <2>4, MarkingStep
<1>8. QED
  BY <1>4, <1>5, <1>6, <1>7

\* Threads stop where they hold references in variables or to new objects only.
LEMMA RootsLive == ASSUME SATBInv PROVE Roots \in SUBSET live
  BY DEF Roots, HeapInv, PlaceInv

\* Marking starts from the stacks: objects that are being allocated are still empty, so that
\* all of the snapshot will be marked.
LEMMA InitialPausePreserves ==
  ASSUME SATBInv, InitialPause
  PROVE  SATBInv'
<1>1. /\ UNCHANGED <<references, cmActive, locals, pc, obj, val, live, field>>
      /\ world = "running" /\ world' = "stopped" /\ fresh' = [n \in Mutators |-> Null]
      /\ \A n \in Mutators : pc[n] \in SafePC
      /\ phase' = "marking" /\ marked' = {} /\ grey' = Roots /\ candidates' = {}
      /\ unlogged' = live /\ snapshot' = Reach(Roots)
  BY DEF InitialPause, Pause, AtSafepoint, accessVars
<1>2. Roots \subseteq live /\ Reach(Roots) \subseteq live
  BY RootsLive DEF Reach, Closure
<1>3. TypeOK'
  BY <1>1, <1>2 DEF TypeOK
<1>4. HeapInv'
  BY <1>1, <1>2 DEF HeapInv
<1>5. PlaceInv'
  BY <1>1 DEF PlaceInv, SafePC
<1>6. NewInv'
  BY <1>1 DEF NewInv
<1>7. MarkInv'
  <2>1. \A p \in Settled' \cap live' : StrongField(p)' = {}
    <3> SUFFICES ASSUME NEW p \in Settled' \cap live' PROVE StrongField(p)' = {}
      OBVIOUS
    <3>1. PICK n \in Mutators : pc[n] = "allocated" /\ p = obj[n]
      BY <1>1 DEF Settled, OpenPC, SafePC, TypeOK
    <3>2. field'[p] = Null
      BY <1>1, <3>1 DEF NewInv
    <3>3. QED
      BY <3>2 DEF StrongField
  <2>2. Roots \subseteq Sure'
    BY <1>1, <1>2 DEF Sure, Closure
  <2>3. ASSUME NEW o \in Reach(Roots) PROVE o \in Sure'
    <3>1. ASSUME NEW C \in SUBSET live', marked' \cup grey' \subseteq C,
                 \A p \in C \ Settled' : StrongField(p)' \subseteq C
          PROVE  o \in C
      <4>1. ASSUME NEW p \in C PROVE StrongField(p) \subseteq C
        <5>1. StrongField(p)' = StrongField(p)
          BY <1>1 DEF StrongField
        <5>2. QED
          BY <2>1, <3>1, <5>1
      <4>2. QED
        BY <1>1, <2>3, <3>1, <4>1 DEF Reach, Closure
    <3>2. QED
      BY <1>1, <1>2, <2>3, <3>1 DEF Sure, Closure
  <2>4. locals' \subseteq Roots /\ \A n \in Mutators : obj'[n] \in Roots \cup {Null}
    BY <1>1 DEF Roots
  <2>5. \A n \in Mutators : val'[n] = Null
    BY <1>1 DEF PlaceInv
  <2>6. QED
    BY <1>1, <2>1, <2>2, <2>3, <2>4, <2>5 DEF MarkInv
<1>8. QED
  BY <1>3, <1>4, <1>5, <1>6, <1>7

\* A pause may free what the stacks and what is kept do not refer to.
LEMMA SweepPreserves ==
  ASSUME SATBInv, NEW kept \in SUBSET live, NEW cands, Pause, Sweep(kept, cands),
         Roots \subseteq kept, \A p \in kept : field[p] \in kept \cup {Null} \/ p \in cands
  PROVE  SATBInv'
<1>1. /\ UNCHANGED <<references, cmActive, locals, pc, obj, val>>
      /\ world = "running" /\ world' = "stopped" /\ fresh' = [n \in Mutators |-> Null]
      /\ \A n \in Mutators : pc[n] \in SafePC
      /\ live' = kept /\ unlogged' = {} /\ marked' = {} /\ grey' = {} /\ candidates' = {}
      /\ phase' = "idle" /\ snapshot' = {}
  BY DEF Pause, AtSafepoint, accessVars, Sweep
<1>2. /\ kept \subseteq Objects /\ field' \in [Objects -> Objects \cup {Null}]
      /\ \A p \in Objects : field'[p] \in {field[p], Null}
      /\ \A p \in Objects \ kept : field'[p] = Null
      /\ \A p \in kept : field'[p] \in kept \cup {Null}
  BY DEF Sweep, TypeOK
<1>3. locals \subseteq kept /\ \A n \in Mutators : obj[n] \in kept \cup {Null}
  BY DEF Roots
<1>4. TypeOK'
  BY <1>1, <1>2 DEF TypeOK
<1>5. HeapInv'
  BY <1>1, <1>2, <1>3 DEF HeapInv
<1>6. PlaceInv'
  BY <1>1, <1>3 DEF PlaceInv, SafePC, AccessPC
<1>7. NewInv'
  <2>1. ASSUME NEW n \in Mutators, pc[n] = "allocated"
        PROVE  /\ field'[obj[n]] = Null /\ obj[n] \notin locals
               /\ \A p \in Objects : field'[p] # obj[n]
               /\ \A k \in Mutators \ {n} : obj[k] # obj[n] /\ val[k] # obj[n]
    <3>1. obj[n] # Null /\ obj[n] \in Objects
      BY <2>1 DEF PlaceInv, TypeOK
    <3>2. QED
      BY <1>2, <2>1, <3>1 DEF NewInv
  <2>2. QED
    BY <1>1, <2>1 DEF NewInv
<1>8. MarkInv'
  BY <1>1 DEF MarkInv
<1>9. QED
  BY <1>4, <1>5, <1>6, <1>7, <1>8

\* During marking, what the stacks hold will be marked.
LEMMA RootsSure == ASSUME SATBInv, phase = "marking" PROVE Roots \subseteq Sure
  BY DEF Roots, MarkInv

\* The final pause keeps what is marked, and clears the References that were met: those that
\* were not, because they are new, refer to objects that are marked.
LEMMA FinalPausePreserves ==
  ASSUME SATBInv, FinalPause
  PROVE  SATBInv'
<1> DEFINE cands == candidates \cup (references \cap (WillBeMarked \ marked))
<1>1. phase = "marking" /\ Pause /\ Sweep(WillBeMarked, cands)
  BY DEF FinalPause
<1>2. (marked \cup grey) \in SUBSET live
  BY DEF HeapInv
<1>3. /\ WillBeMarked \in SUBSET live
      /\ \A p \in WillBeMarked \ marked : StrongField(p) \subseteq WillBeMarked
  BY <1>2, FieldsLive, ClosureFacts DEF WillBeMarked
<1>4. Sure \subseteq WillBeMarked /\ Roots \subseteq WillBeMarked
  BY <1>1, SureWillBeMarked, RootsSure
<1>5. ASSUME NEW p \in WillBeMarked PROVE field[p] \in WillBeMarked \cup {Null} \/ p \in cands
  <2>1. CASE p \notin marked
    BY <1>3, <2>1 DEF StrongField
  <2>2. CASE p \in marked /\ p \in references
    BY <1>1, <1>4, <2>2 DEF MarkInv
  <2>3. CASE p \in marked /\ p \notin references
    <3>1. StrongField(p) \subseteq Sure
      BY <1>1, <1>3, <2>3 DEF MarkInv, Settled
    <3>2. QED
      BY <1>4, <2>3, <3>1 DEF StrongField
  <2>4. QED
    BY <2>1, <2>2, <2>3
<1> HIDE DEF cands
<1>6. QED
  BY <1>1, <1>3, <1>4, <1>5, SweepPreserves

\* A full collection keeps what the stacks reach, and clears the References to the rest.
LEMMA FullPausePreserves ==
  ASSUME SATBInv, FullPause
  PROVE  SATBInv'
<1>1. Pause /\ Sweep(Reach(Roots), references)
  BY DEF FullPause
<1>2. /\ Roots \subseteq Reach(Roots) /\ Reach(Roots) \in SUBSET live
      /\ \A p \in Reach(Roots) : StrongField(p) \subseteq Reach(Roots)
  BY RootsLive, FieldsLive, ClosureFacts DEF Reach
<1>3. \A p \in Reach(Roots) : field[p] \in Reach(Roots) \cup {Null} \/ p \in references
  BY <1>2 DEF StrongField
<1>4. QED
  BY <1>1, <1>2, <1>3, SweepPreserves

\* Mutators run again once the flag tells them whether marking is going on.
LEMMA ResumePreserves ==
  ASSUME SATBInv, SetConcurrentMarkingActive \/ ResumeMutators
  PROVE  SATBInv'
<1>1. /\ UNCHANGED <<references, live, field, unlogged, marked, grey, candidates, phase, snapshot,
                     locals, pc, obj, val, fresh>>
      /\ \/ world' = "resuming" /\ cmActive' = IF phase = "marking" THEN 1 ELSE 0
         \/ world = "resuming" /\ world' = "running" /\ cmActive' = cmActive
      /\ world # "running"
  BY DEF SetConcurrentMarkingActive, ResumeMutators, heapVars, markVars, accessVars, TypeOK
<1>2. TypeOK'
  BY <1>1 DEF TypeOK
<1>3. HeapInv' /\ NewInv'
  BY <1>1 DEF HeapInv, NewInv
<1>4. PlaceInv'
  BY <1>1 DEF PlaceInv, TypeOK
<1>5. MarkInv'
  <2>1. CASE phase = "marking"
    <3>1. Settled' = Settled
      BY <1>1 DEF Settled
    <3>2. locals' \subseteq Sure
      BY <1>1, <2>1 DEF MarkInv
    <3>3. \A n \in Mutators : obj'[n] \in Sure \cup {Null} /\ val'[n] \in Sure \cup {Null}
      BY <1>1, <2>1 DEF MarkInv
    <3>4. QED
      BY <1>1, <1>3, <2>1, <3>1, <3>2, <3>3, MarkingStep
  <2>2. CASE phase # "marking"
    BY <1>1, <2>2 DEF MarkInv
  <2>3. QED
    BY <2>1, <2>2
<1>6. QED
  BY <1>2, <1>3, <1>4, <1>5

-------------------------------------------------------------------------------
(***************************************************************************)
(* The invariant, and what follows from it.                                *)
(***************************************************************************)
LEMMA InitInv == Init => SATBInv
<1> SUFFICES ASSUME Init PROVE SATBInv
  OBVIOUS
<1>1. TypeOK
  BY DEF Init, TypeOK, SafePC
<1>2. HeapInv /\ PlaceInv /\ NewInv /\ MarkInv
  BY DEF Init, HeapInv, PlaceInv, NewInv, MarkInv, SafePC, AccessPC
<1>3. QED
  BY <1>1, <1>2

LEMMA MutatorPreserves ==
  ASSUME SATBInv, NEW m \in Mutators, MutatorStep(m)
  PROVE  SATBInv'
<1>1. ASSUME NEW o \in Objects, FastAlloc(m, o) \/ SlowAlloc(m, o) PROVE SATBInv'
  BY <1>1, AllocationPreserves DEF FastAlloc, SlowAlloc
<1>2. ASSUME NEW o \in locals, NEW v \in locals \cup {Null},
             \/ RuntimeWritePre(m, o, v) \/ AssemblerWritePre(m, o, v) \/ C2WritePre(m, o, v)
             \/ \E needsPatching \in BOOLEAN : C1WritePre(m, o, v, needsPatching)
      PROVE  SATBInv'
  <2>1. ASSUME NEW slow \in BOOLEAN, WritePre(m, o, v, slow),
               ~slow => o \notin unlogged \/ o = fresh[m]
        PROVE  SATBInv'
    BY <2>1, WritePrePreserves
  <2>2. CASE RuntimeWritePre(m, o, v) \/ AssemblerWritePre(m, o, v)
    <3>1. WritePre(m, o, v, o \in unlogged)
      BY <2>2 DEF RuntimeWritePre, AssemblerWritePre
    <3>2. (o \in unlogged) \in BOOLEAN
      OBVIOUS
    <3>3. QED
      BY <2>1, <3>1, <3>2
  <2>3. CASE C2WritePre(m, o, v)
    BY <2>1, <2>3 DEF C2WritePre, C2CanRemoveBarrier
  <2>4. ASSUME NEW needsPatching \in BOOLEAN, C1WritePre(m, o, v, needsPatching) PROVE SATBInv'
    BY <2>1, <2>4 DEF C1WritePre
  <2>5. QED
    BY <1>2, <2>2, <2>3, <2>4
<1>3. ASSUME NEW src \in Objects, NEW dst \in Objects,
             ArrayCopyPre(m, src, dst) \/ C2ArrayCopy(m, src, dst)
      PROVE  SATBInv'
  BY <1>3, ArrayCopyPrePreserves, NewCopyPreserves
<1>4. CASE SlowpathAllocationExit(m) \/ (\E src \in Objects : CloneInHeap(m, src))
  BY <1>4, AllocationExitPreserves, CloneInHeapPreserves
<1>5. CASE \/ RecordFields(m) \/ LogObject(m) \/ (\E done \in BOOLEAN : StoreAfterSlow(m, done))
           \/ CopyElements(m)
  BY <1>5, RecordFieldsPreserves, LogObjectPreserves, StoreAfterSlowPreserves,
     CopyElementsPreserves
<1>6. CASE (\E o \in Objects : LoadField(m, o)) \/ (\E r \in references : LoadReferent(m, r))
  BY <1>6, LoadFieldPreserves, LoadReferentPreserves
<1>7. QED
  BY <1>1, <1>2, <1>3, <1>4, <1>5, <1>6 DEF MutatorStep

LEMMA NextInv == SATBInv /\ [Next]_vars => SATBInv'
<1> SUFFICES ASSUME SATBInv, [Next]_vars PROVE SATBInv'
  OBVIOUS
<1>1. CASE \E m \in Mutators : MutatorStep(m)
  BY <1>1, MutatorPreserves
<1>2. CASE \E o \in Objects : Forget(o) \/ MarkObject(o)
  BY <1>2, ForgetPreserves, MarkObjectPreserves
<1>3. CASE InitialPause \/ FinalPause \/ FullPause
  BY <1>3, InitialPausePreserves, FinalPausePreserves, FullPausePreserves
<1>4. CASE SetConcurrentMarkingActive \/ ResumeMutators
  BY <1>4, ResumePreserves
<1>5. CASE UNCHANGED vars
  <2>1. TypeOK' /\ HeapInv' /\ PlaceInv' /\ NewInv'
    BY <1>5 DEF vars, TypeOK, HeapInv, PlaceInv, NewInv
  <2>2. Settled' = Settled
    BY <1>5 DEF vars, Settled
  <2>3. \A p : StrongField(p)' = StrongField(p)
    BY <1>5 DEF vars, StrongField
  <2>4. Sure' = Sure
    BY <1>5, <2>2, <2>3 DEF vars, Sure, Closure
  <2>5. MarkInv'
    BY <1>5, <2>2, <2>3, <2>4 DEF vars, MarkInv
  <2>6. QED
    BY <2>1, <2>5
<1>6. QED
  BY <1>1, <1>2, <1>3, <1>4, <1>5 DEF Next

LEMMA SATBInvariant == Spec => []SATBInv
<1> HIDE DEF SATBInv
<1>1. QED
  BY InitInv, NextInv, PTL DEF Spec

\* Every variable keeps its type: in particular no barrier ever records null.
THEOREM SATBTypes == Spec => []TypeOK
<1>1. SATBInv => TypeOK
  OBVIOUS
<1>2. QED
  BY <1>1, SATBInvariant, PTL

\* Everything that was reachable in the initial pause is marked in the final one, whatever
\* mutators have overwritten and whatever barriers the compilers have left out.
THEOREM SnapshotIsMarked == Spec => []SnapshotKept
<1>1. SATBInv => SnapshotKept
  BY SureWillBeMarked DEF SnapshotKept, MarkInv
<1>2. QED
  BY <1>1, SATBInvariant, PTL

\* So is everything that the stacks hold when the final pause comes, although it does not scan
\* them again.
THEOREM HeldObjectsAreMarked == Spec => []HeldObjectsKept
<1>1. SATBInv => HeldObjectsKept
  BY SureWillBeMarked, RootsSure DEF HeldObjectsKept
<1>2. QED
  BY <1>1, SATBInvariant, PTL

\* No collection frees what a stack or an object refers to.
THEOREM NothingDangles == Spec => []NoDanglingReference
<1>1. SATBInv => NoDanglingReference
  BY RootsLive DEF NoDanglingReference, HeapInv
<1>2. QED
  BY <1>1, SATBInvariant, PTL
===============================================================================
