------------------------ MODULE ReferenceHandlingProofs ------------------------
(***************************************************************************)
(* Proofs about the two threads to which a collection hands what it has    *)
(* found dead: the Reference handler, with the pending list that           *)
(* mmtk_enqueue_references builds (ReferencePending), and the finalizer    *)
(* thread (FinalizerThread).  They hold for any number of References and   *)
(* objects, and for arrays of any length.                                  *)
(***************************************************************************)
EXTENDS ReferencePending, FinalizerThread, FiniteSetTheorems, SequenceTheorems,
        WellFoundedInduction, TLAPS

-------------------------------------------------------------------------------
(***************************************************************************)
(* Induction.  The provers cannot apply an induction theorem, which has an *)
(* operator as its parameter; a least element of a set is a fact they can. *)
(***************************************************************************)

\* The order of the natural numbers is well founded.
LEMMA NatIsWellFounded ==
  \E R : /\ IsWellFoundedOn(R, Nat)
         /\ \A x, y \in Nat : x < y => <<x, y>> \in R
<1>1. \A x, y \in Nat : x < y => <<x, y>> \in OpToRel(<, Nat)
  BY DEF OpToRel
<1> QED BY <1>1, NatLessThanWellFounded, Zenon

\* A set of natural numbers that is not empty has a least element.
LEMMA LeastElement ==
  ASSUME NEW T, T \subseteq Nat, T # {}
  PROVE  \E m \in T : \A k \in T : m <= k
<1>1. PICK R : /\ IsWellFoundedOn(R, Nat)
               /\ \A x, y \in Nat : x < y => <<x, y>> \in R
  BY NatIsWellFounded, Zenon
<1>2. IsWellFoundedOn(R, Nat)
  BY <1>1
<1>3. \E m \in T : \A k \in T : ~(<<k, m>> \in R)
  BY <1>2, WFMin, Zenon
<1>4. PICK m \in T : \A k \in T : ~(<<k, m>> \in R)
  BY <1>3
<1>5. \A k \in T : ~(k < m)
  BY <1>1, <1>4, Zenon
<1>6. \A k \in T : m <= k
  BY <1>5
<1> QED BY <1>6

-------------------------------------------------------------------------------
(***************************************************************************)
(* Lists.                                                                  *)
(***************************************************************************)
Successors == [Refs -> Refs \cup {Null}]
ClosedUnder(next, S) == \A y \in S : next[y] \in S \cup {Null}

\* The nodes of a list contain its first node and the successor of each of them.
LEMMA ChainClosed ==
  ASSUME NEW next \in Successors, NEW r \in Refs \cup {Null}
  PROVE  /\ Chain(next, r) \subseteq Refs
         /\ r \in Chain(next, r) \cup {Null}
         /\ ClosedUnder(next, Chain(next, r))
<1>1. \A y \in Chain(next, r) : next[y] \in Refs \cup {Null}
  BY DEF Chain, Successors
<1>2. ASSUME NEW y \in Chain(next, r), next[y] # Null, NEW S \in SUBSET Refs,
             r \in S \cup {Null}, \A z \in S : next[z] \in S \cup {Null}
      PROVE  next[y] \in S
  BY <1>2 DEF Chain
<1>3. \A y \in Chain(next, r) : next[y] \in Chain(next, r) \cup {Null}
  BY <1>1, <1>2 DEF Chain
<1> QED BY <1>3 DEF Chain, ClosedUnder

\* They are the smallest such set.
LEMMA ChainLeast ==
  ASSUME NEW next, NEW r, NEW S \in SUBSET Refs, r \in S \cup {Null}, ClosedUnder(next, S)
  PROVE  Chain(next, r) \subseteq S
BY DEF Chain, ClosedUnder

\* The empty list has no node.
LEMMA ChainNull ==
  ASSUME NEW next PROVE Chain(next, Null) = {}
<1>1. {} \in SUBSET Refs /\ Null \in {} \cup {Null} /\ ClosedUnder(next, {})
  BY DEF ClosedUnder
<1> QED BY <1>1, ChainLeast

\* A list is its first node and the list of its successor.
LEMMA ChainStep ==
  ASSUME NEW next \in Successors, NEW r \in Refs
  PROVE  Chain(next, r) = {r} \cup Chain(next, next[r])
<1> DEFINE rest == Chain(next, next[r])
<1>0. next[r] \in Refs \cup {Null} /\ r \in Refs \cup {Null}
  BY DEF Successors
<1>1. /\ rest \subseteq Refs /\ next[r] \in rest \cup {Null}
      /\ ClosedUnder(next, rest)
  BY <1>0, ChainClosed
<1>2. ClosedUnder(next, {r} \cup rest)
  BY <1>1 DEF ClosedUnder
<1>3. Chain(next, r) \subseteq {r} \cup rest
  <2> {r} \cup rest \in SUBSET Refs
    BY <1>1
  <2> QED BY <1>2, ChainLeast
<1>4. /\ Chain(next, r) \subseteq Refs /\ r \in Chain(next, r)
      /\ ClosedUnder(next, Chain(next, r))
  BY <1>0, ChainClosed, RefsAssumption
<1>5. next[r] \in Chain(next, r) \cup {Null}
  BY <1>4 DEF ClosedUnder
<1>6. rest \subseteq Chain(next, r)
  BY <1>4, <1>5, ChainLeast
<1> QED BY <1>3, <1>4, <1>6

\* A list depends only on the successors of its nodes.
LEMMA ChainAgrees ==
  ASSUME NEW next \in Successors, NEW other \in Successors, NEW r \in Refs \cup {Null},
         \A y \in Chain(next, r) : other[y] = next[y]
  PROVE  /\ Chain(other, r) = Chain(next, r)
         /\ ChainEnds(next, r) => ChainEnds(other, r)
<1>1. /\ Chain(next, r) \subseteq Refs /\ r \in Chain(next, r) \cup {Null}
      /\ ClosedUnder(next, Chain(next, r))
  BY ChainClosed
<1>2. ClosedUnder(other, Chain(next, r))
  BY <1>1 DEF ClosedUnder
<1>3. Chain(other, r) \subseteq Chain(next, r)
  BY <1>1, <1>2, ChainLeast
<1>4. /\ Chain(other, r) \subseteq Refs /\ r \in Chain(other, r) \cup {Null}
      /\ ClosedUnder(other, Chain(other, r))
  BY ChainClosed
<1>5. ClosedUnder(next, Chain(other, r))
  BY <1>3, <1>4 DEF ClosedUnder
<1>6. Chain(next, r) \subseteq Chain(other, r)
  BY <1>4, <1>5, ChainLeast
<1> QED BY <1>3, <1>6 DEF ChainEnds

\* A list that ends does not come back to its first node, and what follows the first
\* node ends as well.
LEMMA ChainAcyclic ==
  ASSUME NEW next \in Successors, NEW r \in Refs, ChainEnds(next, r)
  PROVE  /\ r \notin Chain(next, next[r])
         /\ ChainEnds(next, next[r])
<1>1. PICK x \in Chain(next, r) : next[x] = Null
  BY RefsAssumption DEF ChainEnds
<1>2. Chain(next, r) = {r} \cup Chain(next, next[r])
  BY ChainStep
<1>3. ChainEnds(next, next[r])
  BY <1>1, <1>2 DEF ChainEnds
<1>4. ASSUME r \in Chain(next, next[r]) PROVE FALSE
  <2> DEFINE Back == {y \in Chain(next, r) : r \in Chain(next, y)}
  <2>1. /\ Chain(next, r) \subseteq Refs /\ r \in Chain(next, r)
        /\ ClosedUnder(next, Chain(next, r))
    BY ChainClosed, RefsAssumption
  <2>2. ASSUME NEW y \in Back PROVE next[y] \in Back
    <3>1. y \in Refs /\ Chain(next, y) = {y} \cup Chain(next, next[y])
      BY <2>1, ChainStep
    <3>2. r \in Chain(next, next[y])
      BY <1>4, <3>1
    <3>3. next[y] # Null
      BY <3>2, ChainNull
    <3> QED BY <2>1, <3>2, <3>3 DEF ClosedUnder
  <2>3. Chain(next, r) \subseteq Back
    <3>1. Back \in SUBSET Refs /\ r \in Back
      BY <2>1
    <3>2. ClosedUnder(next, Back)
      BY <2>2 DEF ClosedUnder
    <3> QED BY <3>1, <3>2, ChainLeast
  <2>4. next[x] \in Refs
    BY <1>1, <2>1, <2>2, <2>3
  <2> QED BY <1>1, <2>4, RefsAssumption
<1> QED BY <1>3, <1>4

-------------------------------------------------------------------------------
(***************************************************************************)
(* mmtk_enqueue_references.                                                *)
(***************************************************************************)
FirstList(objects) == [discovered |-> discovered, last |-> objects[1]]

\* What the turns of the loop make of the first n References.
Turns(objects, n, list) ==
  list = [i \in 1 .. n |-> IF i = 1 THEN FirstList(objects)
                                    ELSE LinkNext(list[i - 1], objects[i])]

\* However long the array is, the loop runs through it.
LEMMA LoopRuns ==
  ASSUME NEW objects, NEW n \in Nat
  PROVE  \E list : Turns(objects, n, list)
<1> DEFINE Bad == {k \in Nat : ~ \E list : Turns(objects, k, list)}
<1> SUFFICES ASSUME Bad # {} PROVE FALSE
  OBVIOUS
<1>1. PICK m \in Bad : \A k \in Bad : m <= k
  <2> Bad \subseteq Nat
    OBVIOUS
  <2> HIDE DEF Bad
  <2> QED BY LeastElement
<1>2. m \in Nat /\ \A list : ~Turns(objects, m, list)
  BY <1>1
<1>3. m # 0
  <2>1. Turns(objects, 0, [i \in 1 .. 0 |-> FirstList(objects)])
    BY DEF Turns
  <2> QED BY <1>2, <2>1
<1>4. m - 1 \in Nat /\ ~(m <= m - 1)
  BY <1>2, <1>3
<1>5. m - 1 \notin Bad
  BY <1>1, <1>4
<1>6. PICK list : Turns(objects, m - 1, list)
  BY <1>4, <1>5
<1> DEFINE longer == [i \in 1 .. m |->
                        IF i = 1 THEN FirstList(objects)
                                 ELSE LinkNext(list[i - 1], objects[i])]
<1>7. \A i \in 1 .. m - 1 : longer[i] = list[i]
  <2> TAKE i \in 1 .. m - 1
  <2>1. i \in 1 .. m
    BY <1>2
  <2>2. list[i] = IF i = 1 THEN FirstList(objects)
                           ELSE LinkNext(list[i - 1], objects[i])
    BY <1>6 DEF Turns
  <2> QED BY <2>1, <2>2
<1>8. \A i \in 1 .. m : i # 1 => longer[i - 1] = list[i - 1]
  <2> HIDE DEF longer
  <2> QED BY <1>2, <1>7
<1>9. Turns(objects, m, longer)
  BY <1>8 DEF Turns
<1> QED BY <1>2, <1>9

\* LinkedAfter computes it.
LEMMA LinkedAfterTurns ==
  ASSUME NEW objects, Len(objects) \in Nat
  PROVE  Turns(objects, Len(objects), LinkedAfter(objects))
<1>1. LinkedAfter(objects) = CHOOSE list : Turns(objects, Len(objects), list)
  BY DEF LinkedAfter, Turns, FirstList
<1>2. \E list : Turns(objects, Len(objects), list)
  BY LoopRuns
<1> QED BY <1>1, <1>2, Zenon

\* The References that the first i turns have seen.
Seen(objects, i) == {objects[j] : j \in 1 .. i}

\* The list after i turns: the References seen so far and no others, from the first
\* of the array to the last, with the rest of the heap as it was.
LinkedList(objects, i, list) ==
  /\ list.discovered \in Successors
  /\ list.last \in Seen(objects, i) /\ list.discovered[list.last] = Null
  /\ \A r \in Seen(objects, i) \ {list.last} : list.discovered[r] \in Seen(objects, i)
  /\ \A r \in Refs \ Seen(objects, i) : list.discovered[r] = discovered[r]
  /\ Seen(objects, i) \subseteq Chain(list.discovered, objects[1])

\* A set that follows the links of a list with one more link follows those of the list.
LEMMA OneMoreLink ==
  ASSUME NEW next \in Successors, NEW last \in Refs, NEW r \in Refs \cup {Null},
         next[last] = Null, NEW first \in Refs
  PROVE  /\ [next EXCEPT ![last] = r] \in Successors
         /\ Chain(next, first) \subseteq Chain([next EXCEPT ![last] = r], first)
<1> DEFINE more == [next EXCEPT ![last] = r]
           C == Chain(more, first)
<1>1. more \in Successors
  BY DEF Successors
<1>2. C \in SUBSET Refs /\ first \in C \cup {Null} /\ ClosedUnder(more, C)
  <2> HIDE DEF more
  <2> QED BY <1>1, ChainClosed
<1>3. \A y \in C : next[y] = more[y] \/ next[y] = Null
  BY <1>2 DEF Successors
<1>4. ClosedUnder(next, C)
  <2> HIDE DEF more, C
  <2> QED BY <1>2, <1>3 DEF ClosedUnder
<1>5. Chain(next, first) \subseteq C
  <2> HIDE DEF more, C
  <2> QED BY <1>2, <1>4, ChainLeast
<1> QED BY <1>1, <1>5

\* One turn of the loop keeps the list, whether the Reference is new or a duplicate.
LEMMA OneTurn ==
  ASSUME NEW objects, NEW i \in Nat, i >= 1, NEW list, LinkedList(objects, i, list),
         discovered \in Successors,
         Seen(objects, i + 1) \subseteq Refs,
         \A r \in Seen(objects, i + 1) : discovered[r] = Null
  PROVE  LinkedList(objects, i + 1, LinkNext(list, objects[i + 1]))
<1> DEFINE reff == objects[i + 1]
           more == [list.discovered EXCEPT ![list.last] = reff]
<1>1. Seen(objects, i + 1) = Seen(objects, i) \cup {reff} /\ objects[1] \in Seen(objects, i)
  BY DEF Seen
<1>2. reff \in Refs /\ objects[1] \in Refs /\ list.last \in Refs
  BY <1>1 DEF LinkedList
<1>3. CASE reff \in Seen(objects, i)
  <2>1. Seen(objects, i + 1) = Seen(objects, i)
    BY <1>1, <1>3
  <2>2. reff = list.last \/ list.discovered[reff] # Null
    <3>1. Null \notin Seen(objects, i)
      BY <1>1, RefsAssumption
    <3> QED BY <1>3, <3>1 DEF LinkedList
  <2>3. LinkNext(list, reff) = list
    BY <2>2 DEF LinkNext
  <2> QED BY <2>1, <2>3 DEF LinkedList
<1>4. CASE reff \notin Seen(objects, i)
  <2>1. reff # list.last /\ list.discovered[reff] = Null
    BY <1>1, <1>2, <1>4 DEF LinkedList
  <2>2. LinkNext(list, reff) = [discovered |-> more, last |-> reff]
    BY <2>1 DEF LinkNext
  <2>3. /\ more \in Successors
        /\ Chain(list.discovered, objects[1]) \subseteq Chain(more, objects[1])
    BY <1>2, OneMoreLink DEF LinkedList
  <2>4. /\ more[reff] = Null /\ more[list.last] = reff
        /\ \A r \in Refs \ {list.last} : more[r] = list.discovered[r]
    BY <1>2, <2>1 DEF LinkedList, Successors
  <2> HIDE DEF more
  <2>5. \A r \in Seen(objects, i + 1) \ {reff} : more[r] \in Seen(objects, i + 1)
    BY <1>1, <2>4 DEF LinkedList
  <2>6. \A r \in Refs \ Seen(objects, i + 1) : more[r] = discovered[r]
    BY <1>1, <2>4 DEF LinkedList
  <2>7. reff \in Chain(more, objects[1])
    <3>1. list.last \in Chain(more, objects[1])
      BY <2>3 DEF LinkedList
    <3>2. ClosedUnder(more, Chain(more, objects[1]))
      BY <1>2, <2>3, ChainClosed
    <3> QED BY <1>2, <2>4, <3>1, <3>2, RefsAssumption DEF ClosedUnder
  <2>8. Seen(objects, i + 1) \subseteq Chain(more, objects[1])
    BY <1>1, <2>3, <2>7 DEF LinkedList
  <2> DEFINE new == [discovered |-> more, last |-> reff]
  <2>9. new.discovered = more /\ new.last = reff
    OBVIOUS
  <2> HIDE DEF new
  <2>10. LinkedList(objects, i + 1, new)
    BY <1>1, <2>3, <2>4, <2>5, <2>6, <2>8, <2>9 DEF LinkedList
  <2> QED BY <2>2, <2>10 DEF new
<1> QED BY <1>3, <1>4

\* The whole loop makes one list of all References of the array, if none of them was on
\* a list before.
LEMMA LinkedIsList ==
  ASSUME NEW objects \in Seq(Refs), objects # <<>>, discovered \in Successors,
         \A j \in 1 .. Len(objects) : discovered[objects[j]] = Null
  PROVE  LinkedList(objects, Len(objects), Linked(objects))
<1> DEFINE n == Len(objects)
           list == LinkedAfter(objects)
           Bad == {k \in 1 .. n : ~LinkedList(objects, k, list[k])}
<1>1. n \in Nat /\ n >= 1 /\ objects[1] \in Refs
  <2>1. n \in Nat /\ n # 0
    BY EmptySeq
  <2> QED BY <2>1
<1>2. Turns(objects, n, list)
  BY <1>1, LinkedAfterTurns
<1>3. /\ list[1] = FirstList(objects)
      /\ \A i \in 1 .. n : i # 1 => list[i] = LinkNext(list[i - 1], objects[i])
  <2> HIDE DEF list
  <2> QED BY <1>1, <1>2 DEF Turns
<1>4. \A k \in 1 .. n : Seen(objects, k) \subseteq Refs
                        /\ \A r \in Seen(objects, k) : discovered[r] = Null
  BY DEF Seen
<1>5. LinkedList(objects, 1, list[1])
  <2>1. Seen(objects, 1) = {objects[1]}
    BY DEF Seen
  <2>2. objects[1] \in Chain(discovered, objects[1])
    BY <1>1, ChainClosed, RefsAssumption
  <2>3. list[1].discovered = discovered /\ list[1].last = objects[1]
    BY <1>3 DEF FirstList
  <2>4. discovered[objects[1]] = Null
    BY <1>1
  <2> HIDE DEF list
  <2> QED BY <2>1, <2>2, <2>3, <2>4 DEF LinkedList
<1>6. ASSUME Bad # {} PROVE FALSE
  <2>1. PICK m \in Bad : \A k \in Bad : m <= k
    <3> Bad \subseteq Nat
      OBVIOUS
    <3> HIDE DEF Bad
    <3> QED BY <1>6, LeastElement
  <2>2. m \in 1 .. n /\ ~LinkedList(objects, m, list[m])
    BY <2>1
  <2>3. m # 1
    BY <1>5, <2>2
  <2>4. m - 1 \in 1 .. n /\ m - 1 \in Nat /\ m - 1 >= 1 /\ ~(m <= m - 1) /\ (m - 1) + 1 = m
    BY <1>1, <2>2, <2>3
  <2>5. LinkedList(objects, m - 1, list[m - 1])
    BY <2>1, <2>4
  <2>6. LinkedList(objects, m, LinkNext(list[m - 1], objects[m]))
    <3> DEFINE i == m - 1
    <3>1. i \in Nat /\ i >= 1 /\ i + 1 = m
      BY <2>4
    <3> HIDE DEF i, list
    <3>2. LinkedList(objects, i, list[i])
      BY <2>5 DEF i
    <3>3. LinkedList(objects, i + 1, LinkNext(list[i], objects[i + 1]))
      BY <1>4, <2>2, <3>1, <3>2, OneTurn
    <3> QED BY <3>1, <3>3 DEF i
  <2> QED BY <1>3, <2>2, <2>3, <2>6
<1>7. n \notin Bad
  BY <1>6
<1>8. LinkedList(objects, n, list[n])
  BY <1>1, <1>7
<1> QED BY <1>8 DEF Linked

-------------------------------------------------------------------------------
(***************************************************************************)
(* The inductive invariant.                                                *)
(***************************************************************************)
PendingTypes ==
  /\ allocated \subseteq Refs /\ held \subseteq allocated
  /\ referent \in [Refs -> BOOLEAN]
  /\ discovered \in Successors
  /\ pending \in Refs \cup {Null} /\ hlist \in Refs \cup {Null}
  /\ current \in Refs \cup {Null}
  /\ cleared \subseteq Refs /\ due \subseteq Refs

\* The handler holds a list only while it works on it.  The Reference it is about to
\* unlink still has the rest of that list behind it.
HandlerOwns ==
  /\ hpc \in {"await", "waiting", "take"} => hlist = Null
  /\ hpc = "unlink" => current # Null /\ discovered[current] = hlist
  /\ hpc # "unlink" => current = Null

\* References wait to be enqueued within a pause only.
ClearedInPause == cleared # {} => gpc = "enqueue"

\* No collection clears a Reference that waits to be handled again.
DueAreCleared == \A r \in due : ~referent[r]

PendingInv ==
  /\ PendingTypes /\ HandlerOwns /\ ClearedInPause /\ DueAreCleared
  /\ DueReferencesOnOneList /\ LinksOnlyOnLists

\* DueReferencesOnOneList without the variables: next are the discovered fields, p is the
\* pending list, h and c the list and the Reference of the handler.
Places(next, p, h, c, waiting, d) ==
  LET working == {c} \ {Null} IN
  /\ ChainEnds(next, p) /\ ChainEnds(next, h)
  /\ d = waiting \cup Chain(next, p) \cup Chain(next, h) \cup working
  /\ Chain(next, p) \cap (Chain(next, h) \cup working \cup waiting) = {}
  /\ waiting \cap (Chain(next, h) \cup working) = {} /\ Chain(next, h) \cap working = {}

LEMMA PlacesDef ==
  /\ DueReferencesOnOneList = Places(discovered, pending, hlist, current, cleared, due)
  /\ DueReferencesOnOneList' = Places(discovered', pending', hlist', current', cleared', due')
BY DEF DueReferencesOnOneList, Places, ListFrom, Ends, Chain, ChainEnds

LEMMA PendingInit == Init => PendingInv
<1> SUFFICES ASSUME Init PROVE PendingInv
  OBVIOUS
<1>1. PendingTypes /\ HandlerOwns /\ ClearedInPause /\ DueAreCleared /\ LinksOnlyOnLists
  BY DEF Init, PendingTypes, HandlerOwns, ClearedInPause, DueAreCleared, LinksOnlyOnLists,
         Successors
<1>2. Places(discovered, pending, hlist, current, cleared, due)
  BY ChainNull DEF Init, Places, ChainEnds
<1> QED BY <1>1, <1>2, PlacesDef DEF PendingInv

\* Enqueueing puts the References of the array in front of the pending list.
LEMMA EnqueueLinks ==
  ASSUME NEW objects \in Seq(Refs), objects # <<>>, discovered \in Successors,
         pending \in Refs \cup {Null},
         \A j \in 1 .. Len(objects) : discovered[objects[j]] = Null,
         Chain(discovered, pending) \cap Seen(objects, Len(objects)) = {},
         ChainEnds(discovered, pending),
         EnqueueReferences(objects)
  PROVE  /\ discovered' \in Successors
         /\ pending' \in Refs
         /\ \A r \in Refs \ Seen(objects, Len(objects)) : discovered'[r] = discovered[r]
         /\ Chain(discovered', pending') =
              Seen(objects, Len(objects)) \cup Chain(discovered, pending)
         /\ ChainEnds(discovered', pending')
<1> DEFINE seen == Seen(objects, Len(objects))
           list == Linked(objects)
           links == list.discovered
           old == Chain(discovered, pending)
<1>1. LinkedList(objects, Len(objects), list)
  BY LinkedIsList
<1>2. /\ pending' = objects[1]
      /\ discovered' = [links EXCEPT ![list.last] = pending]
  BY DEF EnqueueReferences
<1>3. seen \subseteq Refs /\ objects[1] \in Refs /\ objects[1] \in seen
  <2>1. Len(objects) \in Nat \ {0}
    BY EmptySeq
  <2> QED BY <2>1 DEF Seen
<1> HIDE DEF list, seen
<1>4. /\ links \in Successors /\ list.last \in seen /\ links[list.last] = Null
      /\ \A r \in seen \ {list.last} : links[r] \in seen
      /\ \A r \in Refs \ seen : links[r] = discovered[r]
      /\ seen \subseteq Chain(links, objects[1])
  BY <1>1 DEF LinkedList, seen
<1> HIDE DEF links
<1>5. discovered' \in Successors
  BY <1>2, <1>4 DEF Successors
<1>6. /\ discovered'[list.last] = pending
      /\ \A r \in Refs \ {list.last} : discovered'[r] = links[r]
  BY <1>2, <1>3, <1>4 DEF Successors
<1>7. \A r \in Refs \ seen : discovered'[r] = discovered[r]
  BY <1>4, <1>6
<1>8. old \subseteq Refs /\ pending \in old \cup {Null} /\ ClosedUnder(discovered, old)
  BY ChainClosed
<1>9. old \cap seen = {}
  BY DEF seen
<1> DEFINE C == Chain(discovered', objects[1])
<1>10. C \subseteq seen \cup old
  <2>1. seen \cup old \in SUBSET Refs
    BY <1>3, <1>8
  <2>2. \A r \in seen : discovered'[r] \in seen \cup old \cup {Null}
    BY <1>3, <1>4, <1>6, <1>8
  <2>3. \A r \in old : discovered'[r] \in seen \cup old \cup {Null}
    <3> HIDE DEF old
    <3> QED BY <1>7, <1>8, <1>9 DEF ClosedUnder
  <2>4. ClosedUnder(discovered', seen \cup old)
    BY <2>2, <2>3 DEF ClosedUnder
  <2> HIDE DEF old
  <2> QED BY <1>3, <2>1, <2>4, ChainLeast
<1>11. /\ C \subseteq Refs /\ objects[1] \in C
       /\ ClosedUnder(discovered', C)
  BY <1>3, <1>5, ChainClosed, RefsAssumption
<1>12. seen \subseteq C
  BY <1>2, <1>3, <1>4, OneMoreLink
<1>13. Chain(discovered', pending) = old /\ ChainEnds(discovered', pending)
  BY <1>5, <1>7, <1>8, <1>9, ChainAgrees
<1>14. old \subseteq C
  <2>1. pending \in C \cup {Null}
    <3> HIDE DEF C
    <3> QED BY <1>4, <1>6, <1>11, <1>12 DEF ClosedUnder
  <2> HIDE DEF C
  <2>2. Chain(discovered', pending) \subseteq C
    BY <1>11, <2>1, ChainLeast
  <2> QED BY <1>13, <2>2
<1>15. C = seen \cup old
  BY <1>10, <1>12, <1>14
<1>16. ChainEnds(discovered', objects[1])
  <2>1. CASE pending = Null
    BY <1>4, <1>6, <1>12, <2>1 DEF ChainEnds
  <2>2. CASE pending # Null
    BY <1>13, <1>14, <2>2 DEF ChainEnds
  <2> QED BY <2>1, <2>2
<1> QED BY <1>2, <1>3, <1>5, <1>7, <1>15, <1>16 DEF seen

-------------------------------------------------------------------------------
(***************************************************************************)
(* Every step keeps the invariant.                                         *)
(***************************************************************************)

\* Steps that leave lists and links alone: those of the application, the ones that take
\* and leave Heap_lock, and waiting for the pending list.
LEMMA QuietPreserves ==
  ASSUME PendingInv,
         UNCHANGED <<allocated, discovered, pending, cleared, hlist, current, due>>,
         held' \subseteq held,
         referent' \in [Refs -> BOOLEAN], \A r \in Refs : referent'[r] => referent[r],
         cleared # {} => gpc' = "enqueue",
         \/ hpc' = hpc
         \/ hpc \in {"await", "waiting", "take"} /\ hpc' \in {"await", "waiting", "take"}
         \/ hpc = "next" /\ hlist = Null /\ hpc' = "await"
  PROVE  PendingInv'
<1>1. PendingTypes'
  BY DEF PendingInv, PendingTypes
<1>2. HandlerOwns'
  BY DEF PendingInv, HandlerOwns
<1>3. ClearedInPause'
  BY DEF PendingInv, ClearedInPause
<1>4. DueAreCleared'
  BY DEF PendingInv, PendingTypes, DueAreCleared
<1>5. DueReferencesOnOneList'
  BY PlacesDef DEF PendingInv
<1>6. LinksOnlyOnLists'
  BY DEF PendingInv, LinksOnlyOnLists
<1> QED BY <1>1, <1>2, <1>3, <1>4, <1>5, <1>6 DEF PendingInv

\* Tracing finds the lists, and nothing that an earlier collection has freed.
LEMMA ReachedFacts ==
  ASSUME PendingInv, cleared = {}
  PROVE  /\ held \subseteq Reached /\ due \subseteq Reached
         /\ Reached \subseteq allocated
<1>1. /\ PendingTypes /\ HandlerOwns /\ LinksOnlyOnLists
      /\ Places(discovered, pending, hlist, current, cleared, due)
  BY PlacesDef DEF PendingInv
<1>2. Roots \subseteq Refs
  BY <1>1 DEF PendingTypes, Roots
<1>3. Reached \subseteq Refs /\ Roots \subseteq Reached
  BY <1>2 DEF Reached
<1>4. ClosedUnder(discovered, Reached)
  <2> SUFFICES ASSUME NEW y \in Reached, discovered[y] # Null
               PROVE  discovered[y] \in Reached
    BY DEF ClosedUnder
  <2>1. discovered[y] \in Refs
    BY <1>1, <1>3 DEF PendingTypes, Successors
  <2>2. ASSUME NEW S \in SUBSET Refs, Roots \subseteq S,
               \A x \in S : ScannedLinks(x) \subseteq S
        PROVE  discovered[y] \in S
    <3>1. y \in S
      BY <2>2 DEF Reached
    <3> QED BY <2>2, <3>1 DEF ScannedLinks
  <2> QED BY <2>1, <2>2 DEF Reached
<1>5. due \subseteq Reached
  <2>1. /\ pending \in Reached \cup {Null} /\ hlist \in Reached \cup {Null}
        /\ current \in Reached \cup {Null}
    BY <1>3 DEF Roots
  <2>2. Chain(discovered, pending) \subseteq Reached /\ Chain(discovered, hlist) \subseteq Reached
    BY <1>3, <1>4, <2>1, ChainLeast
  <2> QED BY <1>1, <2>1, <2>2 DEF Places
<1>6. Roots \subseteq allocated
  <2>1. /\ pending \in Chain(discovered, pending) \cup {Null}
        /\ hlist \in Chain(discovered, hlist) \cup {Null}
    BY <1>1, ChainClosed DEF PendingTypes
  <2>2. pending \in due \cup {Null} /\ hlist \in due \cup {Null} /\ current \in due \cup {Null}
    BY <1>1, <2>1 DEF Places
  <2> QED BY <1>1, <2>2 DEF Roots, LinksOnlyOnLists, PendingTypes
<1>7. \A x \in allocated : ScannedLinks(x) \subseteq allocated
  <2> SUFFICES ASSUME NEW x \in allocated, discovered[x] # Null
               PROVE  discovered[x] \in allocated
    BY DEF ScannedLinks
  <2>1. x \in due
    BY <1>1 DEF LinksOnlyOnLists
  <2>2. /\ ClosedUnder(discovered, Chain(discovered, pending))
        /\ ClosedUnder(discovered, Chain(discovered, hlist))
        /\ hlist \in Chain(discovered, hlist) \cup {Null}
    BY <1>1, ChainClosed DEF PendingTypes
  <2>3. CASE x \in Chain(discovered, pending)
    BY <1>1, <2>2, <2>3 DEF Places, LinksOnlyOnLists, ClosedUnder
  <2>4. CASE x \in Chain(discovered, hlist)
    BY <1>1, <2>2, <2>4 DEF Places, LinksOnlyOnLists, ClosedUnder
  <2>5. CASE x = current /\ current # Null
    <3>1. discovered[x] = hlist
      BY <1>1, <2>5 DEF HandlerOwns
    <3> QED BY <1>1, <2>2, <3>1 DEF Places, LinksOnlyOnLists
  <2> QED BY <1>1, <2>1, <2>3, <2>4, <2>5 DEF Places
<1>8. Reached \subseteq allocated
  BY <1>1, <1>6, <1>7 DEF Reached, PendingTypes
<1> QED BY <1>3, <1>5, <1>8 DEF Roots

LEMMA ProcessPreserves ==
  ASSUME PendingInv, ProcessReferences PROVE PendingInv'
<1>1. PICK dead \in SUBSET {r \in Reached : IsCandidate(r) /\ referent[r]} :
        /\ cleared' = dead
        /\ referent' = [r \in Refs |-> referent[r] /\ r \in Reached \ dead]
        /\ due' = due \cup dead
  BY DEF ProcessReferences
<1>2. /\ gpc = "stopped" /\ gpc' = "enqueue" /\ allocated' = allocated \cap Reached
      /\ UNCHANGED <<held, discovered, pending, hpc, hlist, current>>
  BY DEF ProcessReferences, handlerVars
<1>3. cleared = {}
  BY <1>2 DEF PendingInv, ClearedInPause
<1>4. held \subseteq Reached /\ due \subseteq Reached /\ Reached \subseteq allocated
  BY <1>3, ReachedFacts
<1>5. dead \cap due = {}
  BY <1>1 DEF PendingInv, DueAreCleared
<1>6. PendingTypes'
  <2>1. referent' \in [Refs -> BOOLEAN]
    BY <1>1
  <2> QED BY <1>1, <1>2, <1>4, <2>1 DEF PendingInv, PendingTypes
<1>7. HandlerOwns'
  BY <1>2 DEF PendingInv, HandlerOwns
<1>8. ClearedInPause'
  BY <1>2 DEF ClearedInPause
<1>9. DueAreCleared'
  <2> SUFFICES ASSUME NEW r \in due' PROVE ~referent'[r]
    BY DEF DueAreCleared
  <2>1. r \in Refs
    BY <1>6 DEF PendingTypes
  <2>2. referent'[r] = (referent[r] /\ r \in Reached \ dead)
    BY <1>1, <2>1
  <2>3. r \in due \/ r \in dead
    BY <1>1
  <2> QED BY <2>2, <2>3 DEF PendingInv, DueAreCleared
<1>10. DueReferencesOnOneList'
  <2>1. Places(discovered, pending, hlist, current, {}, due)
    BY <1>3, PlacesDef DEF PendingInv
  <2>2. Places(discovered, pending, hlist, current, dead, due \cup dead)
    BY <1>5, <2>1 DEF Places
  <2> QED BY <1>1, <1>2, <2>2, PlacesDef
<1>11. LinksOnlyOnLists'
  <2>1. due' \subseteq allocated'
    BY <1>1, <1>2, <1>4
  <2>2. ASSUME NEW r \in allocated', r \notin due' \ cleared' PROVE discovered'[r] = Null
    BY <1>1, <1>2, <1>3, <1>5, <2>2 DEF PendingInv, LinksOnlyOnLists
  <2> QED BY <2>1, <2>2 DEF LinksOnlyOnLists
<1> QED BY <1>6, <1>7, <1>8, <1>9, <1>10, <1>11 DEF PendingInv

\* An array of mmtk-core is a sequence of the References it is made for, all of them.
LEMMA ArrayFacts ==
  ASSUME NEW refs \in SUBSET Refs, NEW objects \in ArraysOf(refs)
  PROVE  /\ objects \in Seq(Refs)
         /\ Seen(objects, Len(objects)) = refs
         /\ objects = <<>> => refs = {}
<1>1. PICK n \in ArrayLengths :
        /\ objects \in [1 .. n -> refs]
        /\ \A r \in refs : \E i \in DOMAIN objects : objects[i] = r
  BY DEF ArraysOf
<1>2. n \in Nat
  BY LengthsAssumption
<1>3. objects \in Seq(Refs) /\ Len(objects) = n
  BY <1>1, <1>2
<1>4. Seen(objects, n) = refs
  BY <1>1 DEF Seen
<1>5. objects = <<>> => refs = {}
  BY <1>3, <1>4, EmptySeq DEF Seen
<1> QED BY <1>3, <1>4, <1>5

LEMMA EnqueuePreserves ==
  ASSUME PendingInv, NEW kind, Enqueue(kind) PROVE PendingInv'
<1> DEFINE refs == {r \in cleared : TypeOf[r] = kind}
<1>1. /\ PendingTypes /\ HandlerOwns /\ LinksOnlyOnLists /\ DueAreCleared
      /\ Places(discovered, pending, hlist, current, cleared, due)
  BY PlacesDef DEF PendingInv
<1>2. PICK objects \in ArraysOf(refs) : EnqueueReferences(objects)
  BY DEF Enqueue
<1>3. /\ gpc = "enqueue" /\ cleared' = cleared \ refs
      /\ UNCHANGED <<allocated, held, referent, gpc, hpc, hlist, current, due>>
  BY DEF Enqueue, handlerVars
<1>4. refs \in SUBSET Refs /\ refs \subseteq cleared
  BY <1>1 DEF PendingTypes
<1> HIDE DEF refs
<1>5. /\ objects \in Seq(Refs) /\ Seen(objects, Len(objects)) = refs
      /\ objects = <<>> => refs = {}
  BY <1>4, ArrayFacts
<1>6. CASE objects = <<>>
  <2>1. refs = {} /\ cleared' = cleared
    BY <1>3, <1>5, <1>6
  <2>2. UNCHANGED <<pending, discovered>>
    BY <1>2, <1>6 DEF EnqueueReferences
  <2>3. referent' \in [Refs -> BOOLEAN] /\ \A r \in Refs : referent'[r] => referent[r]
    BY <1>1, <1>3 DEF PendingTypes
  <2> QED BY <1>3, <2>1, <2>2, <2>3, QuietPreserves
<1>7. CASE objects # <<>>
  <2>1. \A r \in refs : discovered[r] = Null
    <3>1. cleared \subseteq allocated
      BY <1>1 DEF Places, LinksOnlyOnLists
    <3> QED BY <1>1, <1>4, <3>1 DEF LinksOnlyOnLists
  <2>2. \A j \in 1 .. Len(objects) : discovered[objects[j]] = Null
    BY <1>5, <2>1 DEF Seen
  <2>3. Chain(discovered, pending) \cap refs = {} /\ ChainEnds(discovered, pending)
    BY <1>1, <1>4 DEF Places
  <2>4. discovered \in Successors /\ pending \in Refs \cup {Null} /\ hlist \in Refs \cup {Null}
    BY <1>1 DEF PendingTypes
  <2>5. /\ discovered' \in Successors /\ pending' \in Refs
        /\ \A r \in Refs \ refs : discovered'[r] = discovered[r]
        /\ Chain(discovered', pending') = refs \cup Chain(discovered, pending)
        /\ ChainEnds(discovered', pending')
    BY <1>2, <1>5, <1>7, <2>2, <2>3, <2>4, EnqueueLinks
  <2>6. Chain(discovered, hlist) \cap refs = {} /\ Chain(discovered, hlist) \subseteq Refs
    <3>1. Chain(discovered, hlist) \subseteq Refs
      BY <2>4, ChainClosed
    <3> QED BY <1>1, <1>4, <3>1 DEF Places
  <2>7. Chain(discovered', hlist) = Chain(discovered, hlist) /\ ChainEnds(discovered', hlist)
    <3>1. ChainEnds(discovered, hlist)
      BY <1>1 DEF Places
    <3>2. \A y \in Chain(discovered, hlist) : discovered'[y] = discovered[y]
      BY <2>5, <2>6
    <3> QED BY <2>4, <2>5, <3>1, <3>2, ChainAgrees
  <2>8. PendingTypes'
    BY <1>1, <1>3, <2>5 DEF PendingTypes
  <2>9. HandlerOwns'
    <3>1. current # Null => current \in Refs \ refs
      BY <1>1, <1>4 DEF Places, PendingTypes
    <3> QED BY <1>1, <1>3, <2>5, <3>1 DEF HandlerOwns
  <2>10. ClearedInPause'
    BY <1>3 DEF ClearedInPause
  <2>11. DueAreCleared'
    BY <1>1, <1>3 DEF DueAreCleared
  <2>12. DueReferencesOnOneList'
    <3>1. Places(discovered', pending', hlist, current, cleared \ refs, due)
      BY <1>1, <1>4, <2>5, <2>7 DEF Places
    <3> QED BY <1>3, <3>1, PlacesDef
  <2>13. LinksOnlyOnLists'
    <3>1. ASSUME NEW r \in allocated, r \notin due \ (cleared \ refs) PROVE discovered'[r] = Null
      <4>1. refs \subseteq due
        BY <1>1, <1>4 DEF Places
      <4>2. r \in Refs /\ r \notin refs /\ r \notin due \ cleared
        BY <1>1, <1>4, <3>1, <4>1 DEF PendingTypes
      <4> QED BY <1>1, <2>5, <4>2 DEF LinksOnlyOnLists
    <3> QED BY <1>1, <1>3, <3>1 DEF LinksOnlyOnLists
  <2> QED BY <2>8, <2>9, <2>10, <2>11, <2>12, <2>13 DEF PendingInv
<1> QED BY <1>6, <1>7

LEMMA TakePreserves ==
  ASSUME PendingInv, TakePendingList PROVE PendingInv'
<1>1. /\ hpc = "take" /\ hpc' = "next" /\ hlist' = pending /\ pending' = Null
      /\ UNCHANGED <<allocated, held, referent, discovered, gpc, cleared, current, due>>
  BY DEF TakePendingList, HandlerUnchanged, gcVars
<1>2. hlist = Null
  BY <1>1 DEF PendingInv, HandlerOwns
<1>3. DueReferencesOnOneList'
  <2>1. Places(discovered, pending, Null, current, cleared, due)
    BY <1>2, PlacesDef DEF PendingInv
  <2>2. Places(discovered, Null, pending, current, cleared, due)
    BY <1>1, <2>1, ChainNull DEF Places, ChainEnds, PendingInv, HandlerOwns
  <2> QED BY <1>1, <2>2, PlacesDef
<1>4. PendingTypes' /\ HandlerOwns' /\ ClearedInPause' /\ DueAreCleared' /\ LinksOnlyOnLists'
  BY <1>1 DEF PendingInv, PendingTypes, HandlerOwns, ClearedInPause, DueAreCleared,
              LinksOnlyOnLists
<1> QED BY <1>3, <1>4 DEF PendingInv

LEMMA NextReferencePreserves ==
  ASSUME PendingInv, NextReference PROVE PendingInv'
<1>1. /\ hpc = "next"
      /\ UNCHANGED <<allocated, held, referent, discovered, pending, gpc, cleared, due>>
  BY DEF NextReference, HandlerUnchanged, gcVars
<1>2. CASE hlist = Null
  <2>1. hpc' = "await" /\ UNCHANGED <<hlist, current>>
    BY <1>2 DEF NextReference
  <2>2. referent' \in [Refs -> BOOLEAN] /\ \A r \in Refs : referent'[r] => referent[r]
    BY <1>1 DEF PendingInv, PendingTypes
  <2>3. cleared # {} => gpc' = "enqueue"
    BY <1>1 DEF PendingInv, ClearedInPause
  <2> QED BY <1>1, <1>2, <2>1, <2>2, <2>3, QuietPreserves
<1>3. CASE hlist # Null
  <2>1. current' = hlist /\ hlist' = discovered[hlist] /\ hpc' = "unlink"
    BY <1>3 DEF NextReference
  <2>2. current = Null /\ hlist \in Refs /\ discovered \in Successors
    BY <1>1, <1>3 DEF PendingInv, HandlerOwns, PendingTypes
  <2>3. Places(discovered, pending, hlist, Null, cleared, due)
    BY <2>2, PlacesDef DEF PendingInv
  <2>4. /\ Chain(discovered, hlist) = {hlist} \cup Chain(discovered, discovered[hlist])
        /\ hlist \notin Chain(discovered, discovered[hlist])
        /\ ChainEnds(discovered, discovered[hlist])
    BY <2>2, <2>3, ChainStep, ChainAcyclic DEF Places
  <2>5. Places(discovered, pending, discovered[hlist], hlist, cleared, due)
    BY <1>3, <2>3, <2>4 DEF Places
  <2>6. DueReferencesOnOneList'
    BY <1>1, <2>1, <2>5, PlacesDef
  <2>7. discovered[hlist] \in Refs \cup {Null}
    BY <2>2 DEF Successors
  <2>8. PendingTypes' /\ HandlerOwns' /\ ClearedInPause' /\ DueAreCleared' /\ LinksOnlyOnLists'
    BY <1>1, <1>3, <2>1, <2>2, <2>7
       DEF PendingInv, PendingTypes, HandlerOwns, ClearedInPause, DueAreCleared,
           LinksOnlyOnLists
  <2> QED BY <2>6, <2>8 DEF PendingInv
<1> QED BY <1>2, <1>3

LEMMA HandlePreserves ==
  ASSUME PendingInv, HandleReference PROVE PendingInv'
<1>1. /\ hpc = "unlink" /\ hpc' = "next" /\ current' = Null
      /\ discovered' = [discovered EXCEPT ![current] = Null]
      /\ due' = due \ {current}
      /\ UNCHANGED <<allocated, held, referent, pending, hlist, gpc, cleared>>
  BY DEF HandleReference, HandlerUnchanged, gcVars
<1>2. /\ PendingTypes /\ LinksOnlyOnLists
      /\ Places(discovered, pending, hlist, current, cleared, due)
  BY PlacesDef DEF PendingInv
<1>3. current \in Refs /\ current # Null
  BY <1>1 DEF PendingInv, PendingTypes, HandlerOwns
<1>4. discovered \in Successors /\ pending \in Refs \cup {Null} /\ hlist \in Refs \cup {Null}
  BY <1>2 DEF PendingTypes
<1>5. /\ discovered' \in Successors /\ discovered'[current] = Null
      /\ \A r \in Refs \ {current} : discovered'[r] = discovered[r]
  BY <1>1, <1>3, <1>4 DEF Successors
<1>6. /\ Chain(discovered, pending) \subseteq Refs \ {current}
      /\ Chain(discovered, hlist) \subseteq Refs \ {current}
      /\ current \notin cleared
      /\ ChainEnds(discovered, pending) /\ ChainEnds(discovered, hlist)
  <2>1. Chain(discovered, pending) \subseteq Refs /\ Chain(discovered, hlist) \subseteq Refs
    BY <1>4, ChainClosed
  <2> QED BY <1>2, <1>3, <2>1 DEF Places
<1>7. Chain(discovered', pending) = Chain(discovered, pending) /\ ChainEnds(discovered', pending)
  <2>1. \A y \in Chain(discovered, pending) : discovered'[y] = discovered[y]
    BY <1>5, <1>6
  <2> QED BY <1>4, <1>5, <1>6, <2>1, ChainAgrees
<1>8. Chain(discovered', hlist) = Chain(discovered, hlist) /\ ChainEnds(discovered', hlist)
  <2>1. \A y \in Chain(discovered, hlist) : discovered'[y] = discovered[y]
    BY <1>5, <1>6
  <2> QED BY <1>4, <1>5, <1>6, <2>1, ChainAgrees
<1>9. DueReferencesOnOneList'
  <2>1. Places(discovered', pending, hlist, Null, cleared, due \ {current})
    BY <1>2, <1>3, <1>6, <1>7, <1>8 DEF Places
  <2> QED BY <1>1, <2>1, PlacesDef
<1>10. LinksOnlyOnLists'
  <2>1. due' \subseteq allocated'
    BY <1>1, <1>2 DEF LinksOnlyOnLists
  <2>2. ASSUME NEW r \in allocated, r \notin (due \ {current}) \ cleared
        PROVE  discovered'[r] = Null
    BY <1>2, <1>5, <2>2 DEF LinksOnlyOnLists, PendingTypes
  <2> QED BY <1>1, <2>1, <2>2 DEF LinksOnlyOnLists
<1>11. PendingTypes'
  BY <1>1, <1>2, <1>5 DEF PendingTypes
<1>12. HandlerOwns' /\ ClearedInPause' /\ DueAreCleared'
  BY <1>1 DEF PendingInv, HandlerOwns, ClearedInPause, DueAreCleared
<1> QED BY <1>9, <1>10, <1>11, <1>12 DEF PendingInv

LEMMA PendingStep == PendingInv /\ [Next]_vars => PendingInv'
<1> SUFFICES ASSUME PendingInv, [Next]_vars PROVE PendingInv'
  OBVIOUS
<1> USE DEF heapVars, gcVars, handlerVars
<1>1. /\ referent \in [Refs -> BOOLEAN]
      /\ cleared # {} => gpc = "enqueue"
  BY DEF PendingInv, PendingTypes, ClearedInPause
<1>2. ASSUME NEW r \in Refs, DropReference(r) PROVE PendingInv'
  BY <1>1, <1>2, QuietPreserves DEF DropReference, AppUnchanged
<1>3. ASSUME NEW r \in Refs, ClearReference(r) PROVE PendingInv'
  <2>1. referent' = [referent EXCEPT ![r] = FALSE]
    BY <1>3 DEF ClearReference
  <2>2. referent' \in [Refs -> BOOLEAN] /\ \A x \in Refs : referent'[x] => referent[x]
    BY <1>1, <2>1
  <2> QED BY <1>1, <1>3, <2>2, QuietPreserves DEF ClearReference, AppUnchanged
<1>4. CASE DoitPrologue
  BY <1>1, <1>4, QuietPreserves DEF DoitPrologue
<1>5. CASE StopTheWorld
  BY <1>1, <1>5, QuietPreserves DEF StopTheWorld
<1>6. CASE ProcessReferences
  BY <1>6, ProcessPreserves
<1>7. ASSUME NEW kind, Enqueue(kind) PROVE PendingInv'
  BY <1>7, EnqueuePreserves
<1>8. CASE ResumeTheWorld
  BY <1>1, <1>8, QuietPreserves DEF ResumeTheWorld
<1>9. CASE DoitEpilogue
  BY <1>1, <1>9, QuietPreserves DEF DoitEpilogue
<1>10. CASE AwaitPendingList
  BY <1>1, <1>10, QuietPreserves DEF AwaitPendingList, HandlerUnchanged
<1>11. CASE SpuriousWakeup
  BY <1>1, <1>11, QuietPreserves DEF SpuriousWakeup, HandlerUnchanged
<1>12. CASE TakePendingList
  BY <1>12, TakePreserves
<1>13. CASE NextReference
  BY <1>13, NextReferencePreserves
<1>14. CASE HandleReference
  BY <1>14, HandlePreserves
<1>15. CASE UNCHANGED vars
  BY <1>1, <1>15, QuietPreserves DEF vars
<1> QED
  BY <1>2, <1>3, <1>4, <1>5, <1>6, <1>7, <1>8, <1>9, <1>10, <1>11, <1>12, <1>13, <1>14, <1>15
     DEF Next, Collector, Handler

-------------------------------------------------------------------------------
(***************************************************************************)
(* Theorems.                                                               *)
(***************************************************************************)

\* For any set of References, and arrays of any length with any duplicates,
\* mmtk_enqueue_references keeps every cleared Reference in exactly one place, on a list
\* that ends.
THEOREM DueOnOneList == Spec => []DueReferencesOnOneList
<1>1. PendingInv => DueReferencesOnOneList
  BY DEF PendingInv
<1> QED BY PendingInit, PendingStep, <1>1, PTL DEF Spec

\* No Reference that waits to be handled is freed, and the discovered field, by which
\* mmtk_enqueue_references knows a duplicate, is set on no Reference outside the lists.
THEOREM LinksAreExact == Spec => []LinksOnlyOnLists
<1>1. PendingInv => LinksOnlyOnLists
  BY DEF PendingInv
<1> QED BY PendingInit, PendingStep, <1>1, PTL DEF Spec

-------------------------------------------------------------------------------
(***************************************************************************)
(* The finalizer thread.                                                   *)
(***************************************************************************)

\* The thread does nothing before it has been started.
AnnouncedInv == ReadyObjectsAnnounced /\ (boot = "start" => fpc = "none")

\* Only a thread that works on the list of ready objects, or has found it empty, goes to sleep,
\* and only a request that is pending stands for one that is made again.
LEMMA AnnouncedStep == AnnouncedInv /\ [NextFinalizer]_threadVars => AnnouncedInv'
<1> SUFFICES ASSUME AnnouncedInv, [NextFinalizer]_threadVars PROVE AnnouncedInv'
  OBVIOUS
<1> USE DEF AnnouncedInv, ReadyObjectsAnnounced, bootVars
<1>1. CASE Initialize \/ EnableCollection
  BY <1>1 DEF Initialize, EnableCollection, finalizerVars, workerVars
<1>2. CASE EnterBlocked \/ LockMonitor \/ TestScheduled \/ LeaveBlocked \/ SpuriousFinalizerWakeup
  BY <1>2 DEF EnterBlocked, LockMonitor, TestScheduled, LeaveBlocked, SpuriousFinalizerWakeup,
              FinalizerUnchanged, workerVars
<1>3. CASE GetFinalizedObject
  BY <1>3 DEF GetFinalizedObject, FinalizerUnchanged, workerVars
<1>4. CASE InvokeFinalize \/ FinalizeReturns \/ Poll \/ Unpoll
  BY <1>4 DEF InvokeFinalize, FinalizeReturns, Poll, Unpoll, FinalizerUnchanged, workerVars
<1>5. CASE RequestGC \/ WorldStopped \/ FindDead \/ Schedule
  BY <1>5 DEF RequestGC, WorldStopped, FindDead, Schedule, GCUnchanged
<1>6. CASE UNCHANGED threadVars
  BY <1>6 DEF threadVars
<1>7. QED
  BY <1>1, <1>2, <1>3, <1>4, <1>5, <1>6 DEF NextFinalizer, Finalizer, GCWorker

\* No object is left on the list of ready objects with nobody on the way to it, however requests,
\* pauses, wake-ups and the draining of the list interleave.
THEOREM ReadyObjectsAreAnnounced == SpecFinalizer => []ReadyObjectsAnnounced
<1>1. InitFinalizer => AnnouncedInv
  BY DEF InitFinalizer, AnnouncedInv, ReadyObjectsAnnounced
<1>2. AnnouncedInv => ReadyObjectsAnnounced
  BY DEF AnnouncedInv
<1>3. QED
  BY <1>1, <1>2, AnnouncedStep, PTL DEF SpecFinalizer
===============================================================================
