------------------------------ MODULE RootsProofs ------------------------------
(***************************************************************************)
(* Proofs about the roots of a collection: RootsClosure, RootScanning      *)
(* which uses it, and CodeCacheRoots, the roots in compiled code; for      *)
(* every set of slots, every packet capacity, every number of roots, and   *)
(* any number of methods and threads.                                      *)
(***************************************************************************)
EXTENDS RootScanning, CodeCacheRoots, SequenceTheorems, TLAPS

USE SlotsAssumption, CapacityAssumption, MaxVisitsAssumption

\* Appending to the buffer appends to what has been taken over so far.
LEMMA AppendToBuffer ==
  ASSUME NEW S, NEW d \in Seq(S), NEW b \in Seq(S), NEW x \in S
  PROVE  d \o Append(b, x) = Append(d \o b, x)
<1>1. Append(b, x) = b \o <<x>> /\ Append(d \o b, x) = (d \o b) \o <<x>>
  BY AppendIsConcat, ConcatProperties
<1>2. (d \o b) \o <<x>> = d \o (b \o <<x>>)
  BY ConcatAssociative
<1>3. QED
  BY <1>1, <1>2

\* What is expected grows by the tagged slot.
LEMMA ExpectedGrows ==
  ASSUME TypeOK, NEW p \in Slots, visited' = Append(visited, p)
  PROVE  /\ Tag(p) \in TaggedSlots
         /\ Expected \in Seq(TaggedSlots)
         /\ Expected' = Append(Expected, Tag(p))
<1>1. \A q \in Slots : Tag(q) \in TaggedSlots
  BY DEF Tag, TaggedSlots
<1>2. Expected \in Seq(TaggedSlots) /\ Len(Expected) = Len(visited)
  BY <1>1 DEF Expected, TypeOK
<1>3. /\ Len(visited') = Len(visited) + 1
      /\ \A i \in 1..Len(visited) : visited'[i] = visited[i]
      /\ visited'[Len(visited) + 1] = p
  BY AppendProperties DEF TypeOK
<1>4. /\ Append(Expected, Tag(p)) \in Seq(TaggedSlots)
      /\ Len(Append(Expected, Tag(p))) = Len(visited) + 1
      /\ \A i \in 1..Len(visited) : Append(Expected, Tag(p))[i] = Tag(visited[i])
      /\ Append(Expected, Tag(p))[Len(visited) + 1] = Tag(p)
  BY <1>1, <1>2, AppendProperties DEF Expected
<1>5. /\ Expected' \in Seq(TaggedSlots)
      /\ Len(Expected') = Len(visited) + 1
      /\ \A i \in 1..Len(visited) : Expected'[i] = Tag(visited[i])
      /\ Expected'[Len(visited) + 1] = Tag(p)
  BY <1>1, <1>3 DEF Expected, TypeOK
<1>6. Expected' = Append(Expected, Tag(p))
  BY <1>4, <1>5, SeqEqual DEF TypeOK
<1>7. QED
  BY <1>1, <1>2, <1>6

\* The inductive invariant: the properties themselves, and what the fields are before
\* the constructor and after the destructor has run.
Lifetime ==
  /\ pc = "start" => buffer = <<>> /\ ~owned /\ delivered = <<>> /\ visited = <<>>
  /\ pc = "scanning" => cap = Capacity
  /\ pc = "done" => buffer = <<>>

RootsInv == TypeOK /\ Lifetime /\ RootsDeliveredOnce /\ WritesInBounds /\ BuffersAccounted

\* Construction establishes an empty buffer with room for one slot.
LEMMA InitRoots == Init => RootsInv
<1> SUFFICES ASSUME Init PROVE RootsInv
  OBVIOUS
<1>1. TypeOK
  BY EmptySeq DEF Init, TypeOK
<1>2. Lifetime /\ WritesInBounds /\ BuffersAccounted
  BY DEF Init, Lifetime, WritesInBounds, BuffersAccounted
<1>3. RootsDeliveredOnce
  <2>1. Expected \in Seq(TaggedSlots) /\ Len(Expected) = 0
    BY DEF Init, Expected
  <2>2. Expected = <<>>
    BY <2>1, EmptySeq
  <2>3. QED
    BY <2>2, ConcatEmptySeq, EmptySeq DEF Init, RootsDeliveredOnce
<1>4. QED
  BY <1>1, <1>2, <1>3 DEF RootsInv

\* Each step of the closure preserves the invariant.
LEMMA NextRoots == RootsInv /\ [Next]_vars => RootsInv'
<1> SUFFICES ASSUME RootsInv, [Next]_vars
             PROVE  RootsInv'
  OBVIOUS
<1> USE DEF RootsInv
<1>1. CASE Construct
  <2>1. /\ pc = "start" /\ pc' = "scanning" /\ buffer' = <<>> /\ buffer = <<>>
        /\ delivered' = delivered /\ packets' = packets /\ ~owned /\ owned'
        /\ allocated' = allocated + 1 /\ cap' = Capacity
        /\ UNCHANGED <<released, visited>>
    BY <1>1 DEF Construct, ReportSlotsAndRenewBuffer, Lifetime
  <2>2. TypeOK' /\ Lifetime' /\ WritesInBounds' /\ BuffersAccounted'
    BY <2>1, EmptySeq DEF TypeOK, Lifetime, WritesInBounds, BuffersAccounted
  <2>3. RootsDeliveredOnce'
    BY <2>1 DEF RootsDeliveredOnce, Expected
  <2>4. QED
    BY <2>2, <2>3
<1>2. ASSUME NEW p \in Slots, DoOop(p)
      PROVE  RootsInv'
  <2>1. /\ pc = "scanning" /\ pc' = "scanning" /\ owned /\ cap = Capacity
        /\ visited' = Append(visited, p) /\ released' = released
    BY <1>2 DEF DoOop, WritesInBounds, Lifetime
  <2>2. /\ Tag(p) \in TaggedSlots /\ Expected \in Seq(TaggedSlots)
        /\ Expected' = Append(Expected, Tag(p))
    BY <2>1, ExpectedGrows
  <2>3. /\ Append(buffer, Tag(p)) \in Seq(TaggedSlots)
        /\ Len(Append(buffer, Tag(p))) = Len(buffer) + 1
        /\ visited' \in Seq(Slots)
    BY <2>1, <2>2, AppendProperties DEF TypeOK
  <2>4. delivered \o Append(buffer, Tag(p)) = Expected'
    BY <2>2, AppendToBuffer DEF TypeOK, RootsDeliveredOnce
  <2>5. CASE Len(buffer) + 1 >= cap
    <3>1. /\ delivered' = delivered \o Append(buffer, Tag(p)) /\ buffer' = <<>>
          /\ packets' = packets + 1 /\ allocated' = allocated + 1
          /\ cap' = Capacity /\ owned'
      BY <1>2, <2>1, <2>5 DEF DoOop, ReportSlotsAndRenewBuffer
    <3>2. delivered' \in Seq(TaggedSlots) /\ buffer' \in Seq(TaggedSlots) /\ Len(buffer') = 0
      BY <2>3, <3>1, ConcatProperties, EmptySeq DEF TypeOK
    <3>3. TypeOK' /\ Lifetime' /\ WritesInBounds' /\ BuffersAccounted'
      BY <1>2, <2>1, <2>3, <3>1, <3>2
      DEF DoOop, ReportSlotsAndRenewBuffer, TypeOK, Lifetime, WritesInBounds, BuffersAccounted
    <3>4. RootsDeliveredOnce'
      BY <2>1, <2>4, <3>1, <3>2, ConcatEmptySeq DEF RootsDeliveredOnce
    <3>5. QED
      BY <3>3, <3>4
  <2>6. CASE ~(Len(buffer) + 1 >= cap)
    <3>1. /\ buffer' = Append(buffer, Tag(p))
          /\ UNCHANGED <<cap, owned, delivered, packets, allocated>>
      BY <1>2, <2>6 DEF DoOop
    <3>2. TypeOK' /\ Lifetime' /\ WritesInBounds' /\ BuffersAccounted'
      BY <2>1, <2>3, <2>6, <3>1
      DEF TypeOK, Lifetime, WritesInBounds, BuffersAccounted
    <3>3. RootsDeliveredOnce'
      BY <2>1, <2>4, <3>1 DEF RootsDeliveredOnce
    <3>4. QED
      BY <3>2, <3>3
  <2>7. QED
    BY <2>5, <2>6
<1>3. CASE Destruct
  <2>1. /\ pc = "scanning" /\ pc' = "done" /\ buffer' = <<>> /\ owned /\ ~owned'
        /\ visited' = visited /\ released' = released + 1 /\ cap' = Capacity
        /\ Expected' = Expected
    BY <1>3 DEF Destruct, WritesInBounds, Expected
  <2>2. delivered' = delivered \o buffer
    <3>1. Len(buffer) = 0 => buffer = <<>>
      BY EmptySeq DEF TypeOK
    <3>2. QED
      BY <1>3, <3>1, ConcatEmptySeq, LenProperties DEF Destruct, TypeOK
  <2>3. delivered' \in Seq(TaggedSlots) /\ buffer' \in Seq(TaggedSlots)
    BY <2>1, <2>2, ConcatProperties, EmptySeq DEF TypeOK
  <2>4. \/ packets' = packets + 1 /\ allocated' = allocated + 1
        \/ packets' = packets /\ allocated' = allocated
    <3>1. CASE Len(buffer) > 0
      BY <1>3, <3>1 DEF Destruct
    <3>2. CASE ~(Len(buffer) > 0)
      BY <1>3, <3>2 DEF Destruct
    <3>3. QED
      BY <3>1, <3>2
  <2>5. owned' = FALSE
    BY <1>3 DEF Destruct
  <2>6. TypeOK'
    <3>1. packets \in Nat /\ allocated \in Nat /\ released \in Nat /\ visited \in Seq(Slots)
      BY DEF TypeOK
    <3>2. packets' \in Nat /\ allocated' \in Nat /\ released' \in Nat
      BY <2>1, <2>4, <3>1
    <3>3. cap' \in Nat /\ visited' \in Seq(Slots) /\ owned' \in BOOLEAN
      BY <2>1, <2>5, <3>1
    <3>4. QED
      BY <2>1, <2>3, <3>2, <3>3 DEF TypeOK
  <2>7. Lifetime' /\ WritesInBounds'
    BY <2>1 DEF Lifetime, WritesInBounds
  <2>8. BuffersAccounted'
    <3>1. allocated = packets + released + 1
      BY <2>1 DEF BuffersAccounted
    <3>2. packets \in Nat /\ allocated \in Nat /\ released \in Nat
      BY DEF TypeOK
    <3>3. allocated' = packets' + released'
      BY <2>1, <2>4, <3>1, <3>2
    <3>4. packets' \in Nat /\ released' \in Nat
      BY <2>1, <2>4, <3>2
    <3>5. QED
      BY <2>5, <3>3, <3>4 DEF BuffersAccounted
  <2>9. RootsDeliveredOnce'
    BY <2>1, <2>2, <2>3, ConcatEmptySeq DEF RootsDeliveredOnce
  <2>10. QED
    BY <2>6, <2>7, <2>8, <2>9
<1>4. CASE UNCHANGED vars
  BY <1>4 DEF vars, TypeOK, Lifetime, RootsDeliveredOnce, WritesInBounds,
              BuffersAccounted, Expected
<1>5. QED
  BY <1>1, <1>2, <1>3, <1>4 DEF Next

\* MMTkRootsClosure delivers every root exactly once and in order, for every packet
\* capacity and every sequence of roots.
THEOREM RootsAreDelivered == Spec => []RootsDeliveredOnce
<1>1. RootsInv => RootsDeliveredOnce
  BY DEF RootsInv
<1>2. QED
  BY <1>1, InitRoots, NextRoots, PTL DEF Spec

\* It never writes outside the Vec it owns.
THEOREM BufferIsNeverOverrun == Spec => []WritesInBounds
<1>1. RootsInv => WritesInBounds
  BY DEF RootsInv
<1>2. QED
  BY <1>1, InitRoots, NextRoots, PTL DEF Spec

\* It neither leaks a Vec nor frees one twice.
THEOREM NoBufferLeaks == Spec => []BuffersAccounted
<1>1. RootsInv => BuffersAccounted
  BY DEF RootsInv
<1>2. QED
  BY <1>1, InitRoots, NextRoots, PTL DEF Spec

-------------------------------------------------------------------------------
(***************************************************************************)
(* Scanning: closures come and go, and derived pointers follow.            *)
(***************************************************************************)
Meant(s) == refersTo[s] # None

HeapInv ==
  /\ refersTo \in [Slots -> Objects \cup {None}] /\ address \in [Objects -> Addresses]
  /\ content \in [Slots -> Int] /\ \A s \in Slots : content[s] # 0 <=> Meant(s)
  /\ pass = 0 => \A s \in Slots : content[s] = Holding(refersTo[s], address)

\* Where a scan is: a closure exists while there is a source, and what is left of the source
\* has no derived pointer twice.
ScanInv ==
  /\ pass \in {0, 1, 2} /\ todo \subseteq Sources /\ source \in (Sources \cup {None}) \ todo
  /\ source = None <=> pc = "start"
  /\ source = None \/ pc = "done" => rest = <<>>
  /\ pass = 0 => todo = {} /\ source = None /\ received = {}
  /\ rest \in Seq(Slots)
  /\ \A i \in DOMAIN rest : rest[i] \in Range(RootsOf[source])
  /\ \A i, j \in DOMAIN rest : rest[i] = rest[j] /\ rest[i] \in Derived => i = j

\* A derived pointer is as far from its base as it has to be; once the walk has met its base,
\* the table says how far that is.
TableInv ==
  /\ active <=> pass > 0
  /\ pass = 0 => DOMAIN table = {}
  /\ DOMAIN derived = Derived /\ DOMAIN table \subseteq Derived
  /\ \A s \in DOMAIN table : Meant(s) /\ table[s] = Interior
  /\ \A s \in Derived \ DOMAIN table : derived[s] = IF Meant(s) THEN content[s] + Interior ELSE 0

\* What has been met, and what has still to be.
MetInv ==
  /\ \A s \in received \cup Range(visited) :
       s \in Slots /\ Meant(s) /\ (s \in Derived => s \in DOMAIN table)
  /\ \A t \in todo : \A i \in DOMAIN RootsOf[t] : RootsOf[t][i] \notin DOMAIN table
  /\ \A i \in DOMAIN rest : rest[i] \notin DOMAIN table
  /\ pass > 0 =>
       \A t \in Sources \ todo : \A s \in Range(RootsOf[t]) :
         Meant(s) => \/ s \in received
                     \/ t = source /\ s \in Range(visited) \cup Range(rest)

ScanningInv == RootsInv /\ HeapInv /\ ScanInv /\ TableInv /\ MetInv

LEMMA RangeAppend ==
  ASSUME NEW S, NEW q \in Seq(S), NEW x \in S
  PROVE  Range(Append(q, x)) = Range(q) \cup {x}
<1>1. /\ Len(Append(q, x)) = Len(q) + 1 /\ Append(q, x)[Len(q) + 1] = x
      /\ \A i \in 1 .. Len(q) : Append(q, x)[i] = q[i]
      /\ Len(q) \in Nat /\ DOMAIN q = 1 .. Len(q)
      /\ DOMAIN Append(q, x) = 1 .. Len(q) + 1
  BY AppendProperties, LenProperties
<1>2. QED
  BY <1>1 DEF Range

\* The head of what is left, and the rest of it.
LEMMA HeadAndTail ==
  ASSUME NEW S, NEW q \in Seq(S), q # <<>>
  PROVE  /\ Head(q) \in S /\ Tail(q) \in Seq(S)
         /\ 1 \in DOMAIN q /\ Head(q) = q[1]
         /\ \A i \in DOMAIN Tail(q) : i + 1 \in DOMAIN q /\ Tail(q)[i] = q[i + 1] /\ i + 1 # 1
         /\ Range(q) = {Head(q)} \cup Range(Tail(q))
<1>1. Len(q) \in Nat /\ Len(q) # 0 /\ DOMAIN q = 1 .. Len(q)
  BY EmptySeq, LenProperties
<1>2. Head(q) = q[1] /\ Head(q) \in S
  BY <1>1, HeadTailProperties
<1>3. /\ Tail(q) \in Seq(S) /\ Len(Tail(q)) = Len(q) - 1
      /\ \A i \in 1 .. Len(Tail(q)) : Tail(q)[i] = q[i + 1]
  BY HeadTailProperties
<1>4. DOMAIN Tail(q) = 1 .. Len(q) - 1
  BY <1>3, LenProperties
<1>5. \A i \in DOMAIN Tail(q) : i + 1 \in DOMAIN q /\ Tail(q)[i] = q[i + 1] /\ i + 1 # 1
  BY <1>1, <1>3, <1>4
<1>6. Range(q) = {Head(q)} \cup Range(Tail(q))
  <2>1. \A i \in DOMAIN q : i = 1 \/ (i - 1 \in DOMAIN Tail(q) /\ Tail(q)[i - 1] = q[i])
    BY <1>1, <1>3, <1>4
  <2>2. 1 \in DOMAIN q
    BY <1>1
  <2>3. ASSUME NEW x \in Range(q) PROVE x \in {Head(q)} \cup Range(Tail(q))
    <3>1. PICK i \in DOMAIN q : x = q[i]
      BY <2>3 DEF Range
    <3>2. QED
      BY <1>2, <2>1, <3>1 DEF Range
  <2>4. ASSUME NEW x \in {Head(q)} \cup Range(Tail(q)) PROVE x \in Range(q)
    <3>1. CASE x = Head(q)
      BY <1>2, <2>2, <3>1 DEF Range
    <3>2. CASE x \in Range(Tail(q))
      <4>1. PICK i \in DOMAIN Tail(q) : x = Tail(q)[i]
        BY <3>2 DEF Range
      <4>2. QED
        BY <1>5, <4>1 DEF Range
    <3>3. QED
      BY <2>4, <3>1, <3>2
  <2>5. QED
    BY <2>3, <2>4
<1>7. QED
  BY <1>1, <1>2, <1>3, <1>5, <1>6

\* What mmtk-core has got are slots that were met; all of them, once the closure is gone.
LEMMA HandedFacts ==
  ASSUME RootsInv
  PROVE  /\ Handed \subseteq received \cup Range(visited)
         /\ pc = "done" => Handed = received \cup Range(visited)
<1> USE DEF RootsInv
<1>1. /\ delivered \in Seq(TaggedSlots) /\ buffer \in Seq(TaggedSlots) /\ visited \in Seq(Slots)
      /\ Len(delivered) \in Nat /\ Len(buffer) \in Nat /\ Len(visited) \in Nat
      /\ DOMAIN delivered = 1 .. Len(delivered) /\ DOMAIN visited = 1 .. Len(visited)
  BY LenProperties DEF TypeOK
<1>2. /\ Len(delivered \o buffer) = Len(delivered) + Len(buffer)
      /\ \A i \in 1 .. Len(delivered) : (delivered \o buffer)[i] = delivered[i]
  BY <1>1, ConcatProperties
<1>3. Len(Expected) = Len(visited) /\ \A i \in 1 .. Len(visited) : Expected[i] = Tag(visited[i])
  BY <1>1 DEF Expected
<1>4. Len(delivered) <= Len(visited)
  BY <1>1, <1>2, <1>3 DEF RootsDeliveredOnce
<1>5. \A i \in DOMAIN delivered : i \in DOMAIN visited /\ delivered[i].slot = visited[i]
  <2> SUFFICES ASSUME NEW i \in DOMAIN delivered
               PROVE  i \in DOMAIN visited /\ delivered[i].slot = visited[i]
    OBVIOUS
  <2>1. i \in 1 .. Len(visited)
    BY <1>1, <1>4
  <2>2. delivered[i] = Tag(visited[i])
    BY <1>1, <1>2, <1>3, <2>1 DEF RootsDeliveredOnce
  <2>3. QED
    BY <1>1, <2>1, <2>2 DEF Tag
<1>6. Handed \subseteq received \cup Range(visited)
  BY <1>5 DEF Handed, Range
<1>7. pc = "done" => DOMAIN delivered = DOMAIN visited
  BY <1>1, <1>3 DEF RootsDeliveredOnce
<1>8. QED
  BY <1>5, <1>6, <1>7 DEF Handed, Range

LEMMA PlacementTypes == \A a \in Placements : a \in [Objects -> Addresses]
  BY DEF Placements

USE RootsOfAssumption, WalksAssumption, AddressesAssumption

\* Before the first pause.
LEMMA InitScanning == InitRootScanning => ScanningInv
<1> SUFFICES ASSUME InitRootScanning PROVE ScanningInv
  OBVIOUS
<1>1. RootsInv
  BY InitRoots DEF InitRootScanning
<1>2. address \in [Objects -> Addresses]
  BY PlacementTypes DEF InitRootScanning
<1>3. HeapInv
  <2>1. ASSUME NEW s \in Slots
        PROVE  content[s] = Holding(refersTo[s], address) /\ content[s] \in Int
               /\ (content[s] # 0 <=> Meant(s))
    <3>1. content[s] = Holding(refersTo[s], address) /\ refersTo[s] \in Objects \cup {None}
      BY DEF InitRootScanning
    <3>2. Meant(s) => address[refersTo[s]] \in Nat \ {0}
      BY <1>2, <3>1 DEF Meant
    <3>3. QED
      BY <3>1, <3>2 DEF Holding, Meant
  <2>2. refersTo \in [Slots -> Objects \cup {None}] /\ content \in [Slots -> Int]
    BY <2>1 DEF InitRootScanning
  <2>3. QED
    BY <1>2, <2>1, <2>2 DEF HeapInv
<1>4. ScanInv
  BY EmptySeq DEF InitRootScanning, Init, ScanInv
<1>5. TableInv
  <2>1. \A s \in Derived : derived[s] = IF Meant(s) THEN content[s] + Interior ELSE 0
    BY DEF InitRootScanning, Pointing, Holding, Meant
  <2>2. ~active /\ pass = 0 /\ DOMAIN table = {} /\ DOMAIN derived = Derived
    BY DEF InitRootScanning
  <2>3. QED
    BY <2>1, <2>2 DEF TableInv
<1>6. MetInv
  BY DEF InitRootScanning, Init, MetInv, Range
<1>7. QED
  BY <1>1, <1>3, <1>4, <1>5, <1>6 DEF ScanningInv

\* The roots are asked for: nothing has been met yet.
LEMMA StopAllMutatorsPreserves ==
  ASSUME ScanningInv, StopAllMutators
  PROVE  ScanningInv'
<1> USE DEF ScanningInv
<1>1. /\ pass = 0 /\ pass' = 1 /\ todo' = Sources /\ active' = TRUE /\ table' = <<>>
      /\ address' \in [Objects -> Addresses] /\ source = None /\ received = {}
      /\ UNCHANGED <<refersTo, content, derived, source, rest, received>> /\ UNCHANGED vars
  BY PlacementTypes DEF StopAllMutators, Clear, RequestRoots, closureVars, ScanInv
<1>2. RootsInv'
  BY <1>1, NextRoots
<1>3. HeapInv'
  BY <1>1 DEF HeapInv, Meant
<1>4. pc' = pc /\ visited' = visited /\ visited = <<>> /\ rest = <<>>
  BY <1>1 DEF vars, ScanInv, RootsInv, Lifetime
<1>5. ScanInv'
  BY <1>1, <1>4 DEF ScanInv
<1>6. TableInv'
  <2>1. DOMAIN table' = {} /\ DOMAIN table = {} /\ pass' > 0
    BY <1>1 DEF TableInv
  <2>2. QED
    BY <1>1, <2>1 DEF TableInv, Meant
<1>7. MetInv'
  BY <1>1, <1>4 DEF MetInv, Range
<1>8. QED
  BY <1>2, <1>3, <1>5, <1>6, <1>7

\* A walk begins.
LEMMA ScanRootsPreserves ==
  ASSUME ScanningInv, NEW s \in Sources, ScanRoots(s)
  PROVE  ScanningInv'
<1> USE DEF ScanningInv
<1>1. /\ pass > 0 /\ source = None /\ s \in todo /\ source' = s /\ rest' = RootsOf[s]
      /\ todo' = todo \ {s} /\ Construct
      /\ UNCHANGED <<refersTo, address, content, derived, active, table, pass, received>>
  BY DEF ScanRoots, heapVars, tableVars
<1>2. RootsInv'
  BY <1>1, NextRoots DEF Next
<1>3. HeapInv' /\ TableInv'
  BY <1>1 DEF HeapInv, TableInv, Meant
<1>4. pc' = "scanning" /\ visited' = visited /\ visited = <<>>
  BY <1>1 DEF Construct, RootsInv, Lifetime
<1>5. ScanInv'
  BY <1>1, <1>4 DEF ScanInv, Range
<1>6. MetInv'
  <2>1. \A i \in DOMAIN rest' : rest'[i] \notin DOMAIN table
    BY <1>1 DEF MetInv
  <2>2. \A t \in Sources \ todo' : \A u \in Range(RootsOf[t]) :
          Meant(u) => u \in received \/ (t = s /\ u \in Range(rest'))
    <3>1. \A t \in Sources \ todo' : t = s \/ (t \notin todo /\ t # source)
      BY <1>1
    <3>2. QED
      BY <1>1, <3>1 DEF MetInv
  <2>3. QED
    BY <1>1, <1>4, <2>1, <2>2 DEF MetInv, Meant
<1>7. QED
  BY <1>2, <1>3, <1>5, <1>6

\* The walk meets a slot.
LEMMA VisitRootPreserves ==
  ASSUME ScanningInv, VisitRoot
  PROVE  ScanningInv'
<1> USE DEF ScanningInv
<1>1. /\ source # None /\ rest # <<>> /\ rest' = Tail(rest) /\ rest \in Seq(Slots)
      /\ UNCHANGED <<refersTo, address, content, active, pass, todo, source, received>>
      /\ pass > 0 /\ source \in Sources /\ active
  <2>1. /\ source # None /\ rest # <<>> /\ rest' = Tail(rest)
        /\ UNCHANGED <<refersTo, address, content, active, pass, todo, source, received>>
    BY DEF VisitRoot, heapVars
  <2>2. rest \in Seq(Slots) /\ pass > 0 /\ source \in Sources
    BY <2>1 DEF ScanInv
  <2>3. QED
    BY <2>1, <2>2 DEF TableInv
<1>2. PICK s \in Slots : s = Head(rest)
  BY <1>1, HeadAndTail
<1>3. /\ rest' \in Seq(Slots) /\ 1 \in DOMAIN rest /\ s = rest[1]
      /\ \A i \in DOMAIN rest' : i + 1 \in DOMAIN rest /\ rest'[i] = rest[i + 1] /\ i + 1 # 1
      /\ Range(rest) = {s} \cup Range(rest')
  BY <1>1, <1>2, HeadAndTail
<1>4. s \in Range(RootsOf[source]) /\ s \notin DOMAIN table
  BY <1>3 DEF ScanInv, MetInv
<1>5. \A i \in DOMAIN rest' : rest'[i] \in Derived => rest'[i] # s
  BY <1>3 DEF ScanInv
<1>6. /\ \A i \in DOMAIN rest' : rest'[i] \in Range(RootsOf[source])
      /\ \A i, j \in DOMAIN rest' : rest'[i] = rest'[j] /\ rest'[i] \in Derived => i = j
  <2>1. \A i \in DOMAIN rest' : rest'[i] \in Range(RootsOf[source])
    BY <1>3 DEF ScanInv
  <2>2. ASSUME NEW i \in DOMAIN rest', NEW j \in DOMAIN rest', rest'[i] = rest'[j],
               rest'[i] \in Derived
        PROVE  i = j
    <3>1. i \in Nat /\ j \in Nat
      BY <1>3, LenProperties
    <3>2. i + 1 = j + 1
      BY <1>3, <2>2 DEF ScanInv
    <3>3. QED
      BY <3>1, <3>2
  <2>3. QED
    BY <2>1, <2>2
<1>7. HeapInv'
  BY <1>1 DEF HeapInv, Meant
<1>8. CASE content[s] = 0
  <2>1. UNCHANGED vars /\ UNCHANGED <<derived, table>> /\ ~Meant(s)
    BY <1>2, <1>8 DEF VisitRoot, closureVars, HeapInv
  <2>2. pc' = pc /\ visited' = visited /\ pc # "done"
    BY <1>1, <2>1 DEF vars, ScanInv
  <2>3. RootsInv'
    BY <2>1, NextRoots
  <2>4. ScanInv'
    BY <1>1, <1>3, <1>6, <2>2 DEF ScanInv
  <2>5. TableInv'
    BY <1>1, <2>1 DEF TableInv, Meant
  <2>6. MetInv'
    <3>1. \A i \in DOMAIN rest' : rest'[i] \notin DOMAIN table
      BY <1>3 DEF MetInv
    <3>2. QED
      BY <1>1, <1>3, <2>1, <2>2, <3>1 DEF MetInv, Meant
  <2>7. QED
    BY <1>7, <2>3, <2>4, <2>5, <2>6
<1>9. CASE content[s] # 0
  <2>1. DoOop(s) /\ AddDerived(s) /\ Meant(s)
    BY <1>2, <1>9 DEF VisitRoot, HeapInv
  <2>2. pc = "scanning" /\ pc' = "scanning" /\ visited' = Append(visited, s)
    BY <2>1 DEF DoOop
  <2>3. RootsInv'
    BY <2>1, NextRoots DEF Next
  <2>4. Range(visited') = Range(visited) \cup {s}
    BY <2>2, RangeAppend DEF RootsInv, TypeOK
  <2>5. ScanInv'
    BY <1>1, <1>3, <1>6, <2>2 DEF ScanInv
  <2>6. CASE s \in Derived
    <3>1. /\ DOMAIN table' = DOMAIN table \cup {s} /\ table'[s] = derived[s] - content[s]
          /\ \A t \in DOMAIN table : t # s => table'[t] = table[t]
          /\ derived' = [derived EXCEPT ![s] = Location[s]]
      BY <1>1, <2>1, <2>6 DEF AddDerived
    <3>2. content[s] \in Int /\ derived[s] = content[s] + Interior
      BY <1>4, <2>1, <2>6 DEF HeapInv, TableInv
    <3>3. table'[s] = Interior
      BY <3>1, <3>2 DEF Interior
    <3>4. TableInv'
      <4>1. DOMAIN derived' = Derived /\ DOMAIN table' \subseteq Derived
        BY <2>6, <3>1 DEF TableInv
      <4>2. \A t \in DOMAIN table' : Meant(t)' /\ table'[t] = Interior
        BY <1>1, <2>1, <3>1, <3>3 DEF TableInv, Meant
      <4>3. \A t \in Derived \ DOMAIN table' : t # s /\ derived'[t] = derived[t]
        BY <3>1 DEF TableInv
      <4>4. \A t \in Derived \ DOMAIN table' :
              derived'[t] = IF Meant(t)' THEN content'[t] + Interior ELSE 0
        BY <1>1, <3>1, <4>3 DEF TableInv, Meant
      <4>5. active' /\ pass' > 0 /\ pass' # 0
        BY <1>1
      <4>6. QED
        BY <4>1, <4>2, <4>4, <4>5 DEF TableInv
    <3>5. MetInv'
      <4>1. \A t \in received' \cup Range(visited') :
              t \in Slots /\ Meant(t)' /\ (t \in Derived => t \in DOMAIN table')
        BY <1>1, <2>1, <2>4, <3>1 DEF MetInv, Meant
      <4>2. \A t \in todo' : \A i \in DOMAIN RootsOf[t] : RootsOf[t][i] \notin DOMAIN table'
        <5>1. \A t \in todo : t \in Sources /\ t # source
          BY DEF ScanInv
        <5>2. \A t \in todo : \A i \in DOMAIN RootsOf[t] : RootsOf[t][i] # s
          BY <1>1, <1>4, <2>6, <5>1 DEF Range
        <5>3. QED
          BY <1>1, <3>1, <5>2 DEF MetInv
      <4>3. \A i \in DOMAIN rest' : rest'[i] \notin DOMAIN table'
        BY <1>3, <1>5, <2>6, <3>1 DEF MetInv
      <4>4. \A t \in Sources \ todo' : \A u \in Range(RootsOf[t]) :
              Meant(u)' => \/ u \in received'
                           \/ t = source' /\ u \in Range(visited') \cup Range(rest')
        BY <1>1, <1>3, <2>4 DEF MetInv, Meant
      <4>5. QED
        BY <4>1, <4>2, <4>3, <4>4 DEF MetInv
    <3>6. QED
      BY <1>7, <2>3, <2>5, <3>4, <3>5
  <2>7. CASE s \notin Derived
    <3>1. UNCHANGED <<derived, table>>
      BY <2>1, <2>7 DEF AddDerived
    <3>2. TableInv'
      BY <1>1, <3>1 DEF TableInv, Meant
    <3>3. MetInv'
      <4>1. \A t \in received' \cup Range(visited') :
              t \in Slots /\ Meant(t)' /\ (t \in Derived => t \in DOMAIN table')
        BY <1>1, <2>1, <2>4, <2>7, <3>1 DEF MetInv, Meant
      <4>2. \A i \in DOMAIN rest' : rest'[i] \notin DOMAIN table'
        BY <1>3, <3>1 DEF MetInv
      <4>3. \A t \in Sources \ todo' : \A u \in Range(RootsOf[t]) :
              Meant(u)' => \/ u \in received'
                           \/ t = source' /\ u \in Range(visited') \cup Range(rest')
        BY <1>1, <1>3, <2>4 DEF MetInv, Meant
      <4>4. QED
        BY <1>1, <3>1, <4>1, <4>2, <4>3 DEF MetInv
    <3>4. QED
      BY <1>7, <2>3, <2>5, <3>2, <3>3
  <2>8. QED
    BY <2>6, <2>7
<1>10. QED
  BY <1>8, <1>9

\* The closure is destroyed ...
LEMMA FinishScanPreserves ==
  ASSUME ScanningInv, FinishScan
  PROVE  ScanningInv'
<1> USE DEF ScanningInv
<1>1. /\ source # None /\ rest = <<>> /\ Destruct
      /\ UNCHANGED <<refersTo, address, content, derived, active, table, pass, todo, source, rest,
                     received>>
  BY DEF FinishScan, heapVars, tableVars, scanVars
<1>2. RootsInv'
  BY <1>1, NextRoots DEF Next
<1>3. pc' = "done" /\ visited' = visited
  BY <1>1 DEF Destruct
<1>4. HeapInv' /\ TableInv'
  BY <1>1 DEF HeapInv, TableInv, Meant
<1>5. ScanInv'
  BY <1>1, <1>3 DEF ScanInv
<1>6. MetInv'
  BY <1>1, <1>3 DEF MetInv, Meant
<1>7. QED
  BY <1>2, <1>4, <1>5, <1>6

\* ... and gone: the slots of the source have all been handed over.
LEMMA ForgetClosurePreserves ==
  ASSUME ScanningInv, ForgetClosure
  PROVE  ScanningInv'
<1> USE DEF ScanningInv
<1>1. /\ pc = "done" /\ received' = Handed /\ source' = None
      /\ UNCHANGED <<refersTo, address, content, derived, active, table, pass, todo, rest>>
      /\ Init'
  BY DEF ForgetClosure, heapVars, tableVars, Init
<1>2. RootsInv'
  <2>1. Init' => RootsInv'
    BY InitRoots, PTL
  <2>2. QED
    BY <1>1, <2>1
<1>3. received' = received \cup Range(visited)
  BY <1>1, HandedFacts
<1>4. pc' = "start" /\ visited' = <<>> /\ rest = <<>> /\ source # None /\ pass # 0
  BY <1>1 DEF Init, ScanInv
<1>5. HeapInv' /\ TableInv'
  BY <1>1 DEF HeapInv, TableInv, Meant
<1>6. ScanInv'
  BY <1>1, <1>4 DEF ScanInv
<1>7. Range(visited') = {} /\ Range(rest) = {}
  BY <1>4 DEF Range
<1>8. MetInv'
  BY <1>1, <1>3, <1>4, <1>7 DEF MetInv, Meant
<1>9. QED
  BY <1>2, <1>5, <1>6, <1>8

\* Slots are updated: the table has the derived pointers of all of them.
LEMMA UpdateSlotsPreserves ==
  ASSUME ScanningInv, UpdateSlots
  PROVE  ScanningInv'
<1> USE DEF ScanningInv
<1>1. /\ UNCHANGED <<refersTo, address, derived, active, table, pass, todo, source, rest, received>>
      /\ UNCHANGED vars /\ Stale # {}
      /\ content' = [s \in Slots |-> IF s \in Handed THEN address[refersTo[s]] ELSE content[s]]
  BY DEF UpdateSlots, closureVars, tableVars, scanVars
<1>2. RootsInv'
  BY <1>1, NextRoots
<1>3. pc' = pc /\ visited' = visited
  BY <1>1 DEF vars
<1>4. \A s \in Handed : s \in Slots /\ Meant(s) /\ (s \in Derived => s \in DOMAIN table)
  BY HandedFacts DEF MetInv
<1>5. \A s \in Handed : address[refersTo[s]] \in Int /\ address[refersTo[s]] # 0
  <2> SUFFICES ASSUME NEW s \in Handed
               PROVE  address[refersTo[s]] \in Int /\ address[refersTo[s]] # 0
    OBVIOUS
  <2>1. refersTo[s] \in Objects
    BY <1>4 DEF HeapInv, Meant
  <2>2. address[refersTo[s]] \in Addresses
    BY <2>1 DEF HeapInv
  <2>3. address[refersTo[s]] \in Nat \ {0}
    BY <2>2
  <2>4. QED
    BY <2>3
<1>6. pass # 0
  <2>1. pass = 0 => received = {} /\ visited = <<>>
    BY DEF ScanInv, RootsInv, Lifetime
  <2>2. pass = 0 => received \cup Range(visited) = {}
    BY <2>1 DEF Range
  <2>3. QED
    BY <1>1, <2>2, HandedFacts DEF Stale
<1>7. HeapInv'
  BY <1>1, <1>4, <1>5, <1>6 DEF HeapInv, Meant
<1>8. TableInv'
  BY <1>1, <1>4 DEF TableInv, Meant
<1>9. ScanInv' /\ MetInv'
  BY <1>1, <1>3 DEF ScanInv, MetInv, Meant
<1>10. QED
  BY <1>2, <1>7, <1>8, <1>9

\* Bringing the derived pointers up to date puts each of them at its place.
LEMMA UpdatedPointersFacts ==
  ASSUME ScanningInv
  PROVE  /\ DOMAIN UpdatedPointers = Derived
         /\ \A s \in Derived : UpdatedPointers[s] = IF Meant(s) THEN content[s] + Interior ELSE 0
  BY DEF ScanningInv, TableInv, UpdatedPointers

LEMMA PrepareForRootsReScanningPreserves ==
  ASSUME ScanningInv, PrepareForRootsReScanning
  PROVE  ScanningInv'
<1> USE DEF ScanningInv
<1>1. /\ source = None /\ pass = 1 /\ pass' = 2 /\ todo' = Sources /\ active' = TRUE
      /\ table' = <<>> /\ derived' = UpdatedPointers /\ received' = {} /\ UNCHANGED vars
      /\ UNCHANGED <<refersTo, address, content, source, rest>>
  BY DEF PrepareForRootsReScanning, PassDone, Clear, RequestRoots, closureVars, heapVars
<1>2. RootsInv'
  BY <1>1, NextRoots
<1>3. pc' = pc /\ visited' = visited /\ visited = <<>> /\ rest = <<>>
  BY <1>1 DEF vars, ScanInv, RootsInv, Lifetime
<1>4. HeapInv'
  BY <1>1 DEF HeapInv, Meant
<1>5. ScanInv'
  BY <1>1, <1>3 DEF ScanInv
<1>6. TableInv'
  <2>1. DOMAIN table' = {} /\ (active' <=> pass' > 0) /\ DOMAIN derived' = Derived
    BY <1>1, UpdatedPointersFacts
  <2>2. \A s \in Derived : derived'[s] = IF Meant(s)' THEN content'[s] + Interior ELSE 0
    BY <1>1, UpdatedPointersFacts DEF Meant
  <2>3. QED
    BY <2>1, <2>2 DEF TableInv
<1>7. MetInv'
  BY <1>1, <1>3 DEF MetInv, Range
<1>8. QED
  BY <1>2, <1>4, <1>5, <1>6, <1>7

\* The pause ends: every root has been met, and none of them is stale.
LEMMA ResumeMutatorsPreserves ==
  ASSUME ScanningInv, ResumeMutators
  PROVE  ScanningInv'
<1> USE DEF ScanningInv
<1>1. /\ source = None /\ pass > 0 /\ pass' = 0 /\ todo = {} /\ active' = FALSE
      /\ table' = <<>> /\ derived' = UpdatedPointers /\ received' = {} /\ UNCHANGED vars
      /\ UNCHANGED <<refersTo, address, content, source, rest, todo>> /\ Stale = {}
  BY DEF ResumeMutators, PassDone, closureVars, heapVars
<1>2. RootsInv'
  BY <1>1, NextRoots
<1>3. pc' = pc /\ visited' = visited /\ visited = <<>> /\ rest = <<>>
  BY <1>1 DEF vars, ScanInv, RootsInv, Lifetime
<1>4. HeapInv'
  <2>1. ASSUME NEW s \in Slots PROVE content[s] = Holding(refersTo[s], address)
    <3>1. CASE Meant(s)
      <4>1. PICK t \in Sources : s \in Range(RootsOf[t])
        OBVIOUS
      <4>2. s \in received
        BY <1>1, <3>1, <4>1 DEF MetInv
      <4>3. s \notin Stale
        BY <1>1
      <4>4. QED
        BY <3>1, <4>2, <4>3 DEF Stale, Handed, Holding, Meant
    <3>2. CASE ~Meant(s)
      BY <3>2 DEF HeapInv, Holding, Meant
    <3>3. QED
      BY <3>1, <3>2
  <2>2. QED
    BY <1>1, <2>1 DEF HeapInv, Meant, Holding
<1>5. ScanInv'
  BY <1>1, <1>3 DEF ScanInv
<1>6. TableInv'
  <2>1. DOMAIN table' = {} /\ (active' <=> pass' > 0) /\ DOMAIN derived' = Derived
    BY <1>1, UpdatedPointersFacts
  <2>2. \A s \in Derived : derived'[s] = IF Meant(s)' THEN content'[s] + Interior ELSE 0
    BY <1>1, UpdatedPointersFacts DEF Meant
  <2>3. QED
    BY <2>1, <2>2 DEF TableInv
<1>7. MetInv'
  BY <1>1, <1>3 DEF MetInv, Range
<1>8. QED
  BY <1>2, <1>4, <1>5, <1>6, <1>7

LEMMA ScanningInvariant == SpecRootScanning => []ScanningInv
<1>1. ScanningInv /\ [NextRootScanning]_allVars => ScanningInv'
  <2> SUFFICES ASSUME ScanningInv, [NextRootScanning]_allVars PROVE ScanningInv'
    OBVIOUS
  <2>1. CASE StopAllMutators
    BY <2>1, StopAllMutatorsPreserves
  <2>2. CASE PrepareForRootsReScanning
    BY <2>2, PrepareForRootsReScanningPreserves
  <2>3. CASE ResumeMutators
    BY <2>3, ResumeMutatorsPreserves
  <2>4. ASSUME NEW s \in Sources, ScanRoots(s) PROVE ScanningInv'
    BY <2>4, ScanRootsPreserves
  <2>5. CASE VisitRoot
    BY <2>5, VisitRootPreserves
  <2>6. CASE FinishScan
    BY <2>6, FinishScanPreserves
  <2>7. CASE ForgetClosure
    BY <2>7, ForgetClosurePreserves
  <2>8. CASE UpdateSlots
    BY <2>8, UpdateSlotsPreserves
  <2>9. CASE UNCHANGED allVars
    <3>1. /\ UNCHANGED vars
          /\ UNCHANGED <<refersTo, address, content, derived, active, table, pass, todo, source,
                         rest, received>>
      BY <2>9 DEF allVars, closureVars, heapVars, tableVars, scanVars
    <3>2. RootsInv'
      BY <3>1, NextRoots DEF ScanningInv
    <3>3. pc' = pc /\ visited' = visited
      BY <3>1 DEF vars
    <3>4. HeapInv' /\ ScanInv' /\ TableInv' /\ MetInv'
      BY <3>1, <3>3 DEF ScanningInv, HeapInv, ScanInv, TableInv, MetInv, Meant
    <3>5. QED
      BY <3>2, <3>4 DEF ScanningInv
  <2>10. QED
    BY <2>1, <2>2, <2>3, <2>4, <2>5, <2>6, <2>7, <2>8, <2>9 DEF NextRootScanning
<1>2. QED
  BY <1>1, InitScanning, PTL DEF SpecRootScanning

\* After every pause, of whichever kind and with whatever packets, each root holds the new
\* address of its object, and each derived pointer the same place in it
\* (mmtk_stop_all_mutators, mmtk_prepare_for_roots_re_scanning, mmtk_resume_mutators).
THEOREM RootsFollow == SpecRootScanning => []RootsFollowObjects
<1>1. ScanningInv => RootsFollowObjects
  BY DEF ScanningInv, HeapInv, TableInv, RootsFollowObjects, Holding, Pointing, Meant
<1>2. QED
  BY <1>1, ScanningInvariant, PTL

\* What is proved of one closure holds of every closure of every scan in every pause.
THEOREM EveryClosureDelivers ==
  SpecRootScanning => [](RootsDeliveredOnce /\ WritesInBounds /\ BuffersAccounted)
<1>1. ScanningInv => RootsDeliveredOnce /\ WritesInBounds /\ BuffersAccounted
  BY DEF ScanningInv, RootsInv
<1>2. QED
  BY <1>1, ScanningInvariant, PTL

-------------------------------------------------------------------------------
(***************************************************************************)
(* Roots in compiled code (CodeCacheRoots).                                *)
(***************************************************************************)

\* A thread that is busy works on a method of its own, which is not freed.
TargetsExclusive ==
  /\ \A t \in Threads : tpc[t] = "idle" <=> target[t] = NoNMethod
  /\ \A t \in Threads : target[t] # NoNMethod => target[t] \in installed
  /\ \A t, u \in Threads : target[t] = target[u] /\ target[t] # NoNMethod => t = u

\* No pause begins while code is being registered, and a thread that registers code
\* has cached exactly the slots of that method.
RegistrationAtomic ==
  /\ gc # "none" => \A t \in Threads : tpc[t] \notin {"scan", "register"}
  /\ \A t \in Threads : tpc[t] # "register" => cache[t] = {}
  /\ \A t \in Threads : tpc[t] = "register" => cache[t] = code[target[t]]

\* An entry that was removed from the nursery map does not come back.
RemovedForGood ==
  \A t \in Threads :
    /\ tpc[t] \in {"unregister", "free"} => nursery[target[t]] = {}
    /\ tpc[t] = "free" => mature[target[t]] = {}

\* The slots of freed code are gone, and young objects are referred to from slots.
CodeSlots ==
  \A nm \in NMethods : /\ young[nm] \subseteq code[nm]
                       /\ nm \notin installed => code[nm] = {}

\* The newest entry of a method that nobody is working on has all its slots.
EntriesComplete ==
  \A nm \in NMethods :
    Available(nm) => /\ nursery[nm] # {} => nursery[nm] = code[nm]
                     /\ nursery[nm] = {} => mature[nm] = code[nm]

\* Between collections, every slot with a young reference is in the nursery map.
YoungInNursery ==
  gc # "trace" => \A nm \in NMethods : Available(nm) => young[nm] \subseteq nursery[nm]

\* How far the scan of the current collection has come.
ScanProgress ==
  /\ gc \in {"none", "scan"} => reported = Empty
  /\ gc = "drain" => reported = IF kind = "full" THEN mature ELSE Empty
  /\ gc = "trace" => \A nm \in NMethods : Available(nm) =>
                       /\ young[nm] \subseteq reported[nm]
                       /\ kind = "full" => code[nm] \subseteq reported[nm]

CodeCacheInv ==
  /\ TypeOKCodeCache /\ TargetsExclusive /\ RegistrationAtomic /\ RemovedForGood /\ CodeSlots
  /\ EntriesComplete /\ YoungInNursery /\ ScanProgress /\ RootsAreOops

USE NoNMethodAssumption

\* The maps are empty at first.
LEMMA InitCodeCacheInv == InitCodeCache => CodeCacheInv
  BY DEF InitCodeCache, Empty, CodeCacheInv, TypeOKCodeCache, TargetsExclusive, RegistrationAtomic, RemovedForGood, CodeSlots,
     EntriesComplete, YoungInNursery, ScanProgress, RootsAreOops, Available

\* Code is written between pauses, to a method nobody else works on.
LEMMA WriteCodePreserves ==
  ASSUME NEW t \in Threads, NEW nm \in NMethods, NEW new \in SUBSET OopSlots,
         CodeCacheInv, WriteCode(t, nm, new)
  PROVE  CodeCacheInv'
<1> USE DEF CodeCacheInv
<1>1. TypeOKCodeCache'
  BY DEF WriteCode, Goto, Available, mapVars, gcVars, TypeOKCodeCache, Empty
<1>2. TargetsExclusive'
  BY DEF WriteCode, Goto, Available, mapVars, gcVars, TargetsExclusive, TypeOKCodeCache
<1>3. RegistrationAtomic'
  BY DEF WriteCode, Goto, Available, mapVars, gcVars, RegistrationAtomic, TypeOKCodeCache,
     TargetsExclusive
<1>4. RemovedForGood'
  BY DEF WriteCode, Goto, Available, mapVars, gcVars, RemovedForGood, TypeOKCodeCache,
     TargetsExclusive
<1>5. CodeSlots'
  BY DEF WriteCode, Goto, Available, mapVars, gcVars, CodeSlots, TypeOKCodeCache
<1>6. EntriesComplete'
  BY DEF WriteCode, Goto, Available, mapVars, gcVars, EntriesComplete, TypeOKCodeCache,
     TargetsExclusive, RegistrationAtomic, CodeSlots, RootsAreOops
<1>7. YoungInNursery'
  BY DEF WriteCode, Goto, Available, mapVars, gcVars, YoungInNursery, TypeOKCodeCache,
     TargetsExclusive, RegistrationAtomic, CodeSlots, ScanProgress
<1>8. ScanProgress'
  BY DEF WriteCode, Goto, Available, mapVars, gcVars, ScanProgress, Empty, TypeOKCodeCache,
     TargetsExclusive, RegistrationAtomic, CodeSlots, EntriesComplete,
     YoungInNursery
<1>9. RootsAreOops'
  BY DEF WriteCode, Goto, Available, mapVars, gcVars, RootsAreOops, TypeOKCodeCache,
     TargetsExclusive, RegistrationAtomic, RemovedForGood, ScanProgress
<1>10. QED
  BY <1>1, <1>2, <1>3, <1>4, <1>5, <1>6, <1>7, <1>8, <1>9

\* The cache of the thread is empty when oops_do starts.
LEMMA AddNMethodOopsPreserves ==
  ASSUME NEW t \in Threads, CodeCacheInv, AddNMethodOops(t)
  PROVE  CodeCacheInv'
<1> USE DEF CodeCacheInv
<1>1. TypeOKCodeCache'
  BY DEF AddNMethodOops, Goto, mapVars, codeVars, gcVars, TypeOKCodeCache, Empty,
     TargetsExclusive
<1>2. TargetsExclusive'
  BY DEF AddNMethodOops, Goto, mapVars, codeVars, gcVars, TargetsExclusive, TypeOKCodeCache
<1>3. RegistrationAtomic'
  BY DEF AddNMethodOops, Goto, mapVars, codeVars, gcVars, RegistrationAtomic,
     TypeOKCodeCache, TargetsExclusive
<1>4. RemovedForGood'
  BY DEF AddNMethodOops, Goto, mapVars, codeVars, gcVars, RemovedForGood, TypeOKCodeCache,
     TargetsExclusive
<1>5. CodeSlots'
  BY DEF AddNMethodOops, Goto, mapVars, codeVars, gcVars, CodeSlots, TypeOKCodeCache
<1>6. EntriesComplete'
  BY DEF AddNMethodOops, Goto, mapVars, codeVars, gcVars, EntriesComplete,
     Available, TypeOKCodeCache, TargetsExclusive, RegistrationAtomic, CodeSlots,
     RootsAreOops
<1>7. YoungInNursery'
  BY DEF AddNMethodOops, Goto, mapVars, codeVars, gcVars, YoungInNursery, Available,
     TypeOKCodeCache, TargetsExclusive, RegistrationAtomic, CodeSlots, ScanProgress
<1>8. ScanProgress'
  BY DEF AddNMethodOops, Goto, mapVars, codeVars, gcVars, ScanProgress, Available,
     Empty, TypeOKCodeCache, TargetsExclusive, RegistrationAtomic, CodeSlots,
     EntriesComplete, YoungInNursery
<1>9. RootsAreOops'
  BY DEF AddNMethodOops, Goto, mapVars, codeVars, gcVars, RootsAreOops, TypeOKCodeCache,
     TargetsExclusive, RegistrationAtomic, RemovedForGood, ScanProgress
<1>10. QED
  BY <1>1, <1>2, <1>3, <1>4, <1>5, <1>6, <1>7, <1>8, <1>9

\* The entry that is inserted has all slots of the method.
LEMMA RegisterNMethodPreserves ==
  ASSUME NEW t \in Threads, CodeCacheInv, RegisterNMethod(t)
  PROVE  CodeCacheInv'
<1> USE DEF CodeCacheInv
<1>1. TypeOKCodeCache'
  BY DEF RegisterNMethod, Goto, codeVars, gcVars, TypeOKCodeCache, Empty
<1>2. TargetsExclusive'
  BY DEF RegisterNMethod, Goto, codeVars, gcVars, TargetsExclusive, TypeOKCodeCache
<1>3. RegistrationAtomic'
  BY DEF RegisterNMethod, Goto, codeVars, gcVars, RegistrationAtomic, TypeOKCodeCache,
     TargetsExclusive
<1>4. RemovedForGood'
  BY DEF RegisterNMethod, Goto, codeVars, gcVars, RemovedForGood, TypeOKCodeCache,
     TargetsExclusive
<1>5. CodeSlots'
  BY DEF RegisterNMethod, Goto, codeVars, gcVars, CodeSlots, TypeOKCodeCache
<1>6. EntriesComplete'
  <2>1. target[t] \in NMethods /\ cache[t] = code[target[t]]
    BY DEF RegisterNMethod, TypeOKCodeCache, TargetsExclusive, RegistrationAtomic
  <2>2. ASSUME NEW nm \in NMethods, Available(nm)'
        PROVE  /\ nursery'[nm] # {} => nursery'[nm] = code'[nm]
               /\ nursery'[nm] = {} => mature'[nm] = code'[nm]
    <3>1. CASE nm = target[t]
      BY <2>1, <3>1 DEF RegisterNMethod, codeVars, TypeOKCodeCache, RootsAreOops
    <3>2. CASE nm # target[t]
      <4>1. Available(nm)
        BY <2>2, <3>2 DEF RegisterNMethod, Goto, Available, TypeOKCodeCache
      <4>2. nursery'[nm] = nursery[nm] /\ mature'[nm] = mature[nm] /\ code'[nm] = code[nm]
        BY <2>1, <3>2 DEF RegisterNMethod, codeVars, TypeOKCodeCache
      <4>3. QED
        BY <4>1, <4>2 DEF EntriesComplete
    <3>3. QED
      BY <3>1, <3>2
  <2>3. QED
    BY <2>2 DEF EntriesComplete
<1>7. YoungInNursery'
  BY DEF RegisterNMethod, Goto, codeVars, gcVars, YoungInNursery, Available, TypeOKCodeCache,
     TargetsExclusive, RegistrationAtomic, CodeSlots, ScanProgress
<1>8. ScanProgress'
  BY DEF RegisterNMethod, Goto, codeVars, gcVars, ScanProgress, Available, Empty,
     TypeOKCodeCache, TargetsExclusive, RegistrationAtomic, CodeSlots, EntriesComplete,
     YoungInNursery
<1>9. RootsAreOops'
  BY DEF RegisterNMethod, Goto, codeVars, gcVars, RootsAreOops, TypeOKCodeCache,
     TargetsExclusive, RegistrationAtomic, RemovedForGood, ScanProgress
<1>10. QED
  BY <1>1, <1>2, <1>3, <1>4, <1>5, <1>6, <1>7, <1>8, <1>9

\* From here on the method has no entry in the nursery map that could move.
LEMMA UnregisterFirstPreserves ==
  ASSUME NEW t \in Threads, NEW nm \in NMethods, CodeCacheInv, UnregisterFirst(t, nm)
  PROVE  CodeCacheInv'
<1> USE DEF CodeCacheInv
<1>1. TypeOKCodeCache'
  BY DEF UnregisterFirst, RemoveFrom, FirstUnregistered, Goto, Available, codeVars,
     gcVars, TypeOKCodeCache, Empty
<1>2. TargetsExclusive'
  BY DEF UnregisterFirst, RemoveFrom, FirstUnregistered, Goto, Available, codeVars,
     gcVars, TargetsExclusive, TypeOKCodeCache
<1>3. RegistrationAtomic'
  BY DEF UnregisterFirst, RemoveFrom, FirstUnregistered, Goto, Available, codeVars,
     gcVars, RegistrationAtomic, TypeOKCodeCache, TargetsExclusive
<1>4. RemovedForGood'
  BY DEF UnregisterFirst, RemoveFrom, FirstUnregistered, Goto, Available, codeVars,
     gcVars, RemovedForGood, TypeOKCodeCache, TargetsExclusive
<1>5. CodeSlots'
  BY DEF UnregisterFirst, RemoveFrom, FirstUnregistered, Goto, Available, codeVars,
     gcVars, CodeSlots, TypeOKCodeCache
<1>6. EntriesComplete'
  BY DEF UnregisterFirst, RemoveFrom, FirstUnregistered, Goto, Available, codeVars,
     gcVars, EntriesComplete, TypeOKCodeCache, TargetsExclusive, RegistrationAtomic,
     CodeSlots, RootsAreOops
<1>7. YoungInNursery'
  BY DEF UnregisterFirst, RemoveFrom, FirstUnregistered, Goto, Available, codeVars,
     gcVars, YoungInNursery, TypeOKCodeCache, TargetsExclusive, RegistrationAtomic,
     CodeSlots, ScanProgress
<1>8. ScanProgress'
  BY DEF UnregisterFirst, RemoveFrom, FirstUnregistered, Goto, Available, codeVars,
     gcVars, ScanProgress, Empty, TypeOKCodeCache, TargetsExclusive, RegistrationAtomic,
     CodeSlots, EntriesComplete, YoungInNursery
<1>9. RootsAreOops'
  BY DEF UnregisterFirst, RemoveFrom, FirstUnregistered, Goto, Available, codeVars,
     gcVars, RootsAreOops, TypeOKCodeCache, TargetsExclusive, RegistrationAtomic,
     RemovedForGood, ScanProgress
<1>10. QED
  BY <1>1, <1>2, <1>3, <1>4, <1>5, <1>6, <1>7, <1>8, <1>9

\* The lock of the mature map keeps this step out of a drain.
LEMMA UnregisterSecondPreserves ==
  ASSUME NEW t \in Threads, CodeCacheInv, UnregisterSecond(t)
  PROVE  CodeCacheInv'
<1> USE DEF CodeCacheInv
<1>1. TypeOKCodeCache'
  BY DEF UnregisterSecond, RemoveFrom, FirstUnregistered, MatureLockFree, Goto,
     codeVars, gcVars, TypeOKCodeCache, Empty
<1>2. TargetsExclusive'
  BY DEF UnregisterSecond, RemoveFrom, FirstUnregistered, MatureLockFree, Goto,
     codeVars, gcVars, TargetsExclusive, TypeOKCodeCache
<1>3. RegistrationAtomic'
  BY DEF UnregisterSecond, RemoveFrom, FirstUnregistered, MatureLockFree, Goto,
     codeVars, gcVars, RegistrationAtomic, TypeOKCodeCache, TargetsExclusive
<1>4. RemovedForGood'
  BY DEF UnregisterSecond, RemoveFrom, FirstUnregistered, MatureLockFree, Goto,
     codeVars, gcVars, RemovedForGood, TypeOKCodeCache, TargetsExclusive
<1>5. CodeSlots'
  BY DEF UnregisterSecond, RemoveFrom, FirstUnregistered, MatureLockFree, Goto,
     codeVars, gcVars, CodeSlots, TypeOKCodeCache
<1>6. EntriesComplete'
  BY DEF UnregisterSecond, RemoveFrom, FirstUnregistered, MatureLockFree, Goto,
     codeVars, gcVars, EntriesComplete, Available, TypeOKCodeCache, TargetsExclusive,
     RegistrationAtomic, CodeSlots, RootsAreOops
<1>7. YoungInNursery'
  BY DEF UnregisterSecond, RemoveFrom, FirstUnregistered, MatureLockFree, Goto,
     codeVars, gcVars, YoungInNursery, Available, TypeOKCodeCache, TargetsExclusive,
     RegistrationAtomic, CodeSlots, ScanProgress
<1>8. ScanProgress'
  BY DEF UnregisterSecond, RemoveFrom, FirstUnregistered, MatureLockFree, Goto,
     codeVars, gcVars, ScanProgress, Available, Empty, TypeOKCodeCache, TargetsExclusive,
     RegistrationAtomic, CodeSlots, EntriesComplete, YoungInNursery
<1>9. RootsAreOops'
  BY DEF UnregisterSecond, RemoveFrom, FirstUnregistered, MatureLockFree, Goto,
     codeVars, gcVars, RootsAreOops, TypeOKCodeCache, TargetsExclusive, RegistrationAtomic,
     RemovedForGood, ScanProgress
<1>10. QED
  BY <1>1, <1>2, <1>3, <1>4, <1>5, <1>6, <1>7, <1>8, <1>9

\* Freed code has no entry left.
LEMMA FreeCodePreserves ==
  ASSUME NEW t \in Threads, CodeCacheInv, FreeCode(t)
  PROVE  CodeCacheInv'
<1> USE DEF CodeCacheInv
<1>1. TypeOKCodeCache'
  BY DEF FreeCode, Goto, mapVars, gcVars, TypeOKCodeCache, Empty
<1>2. TargetsExclusive'
  BY DEF FreeCode, Goto, mapVars, gcVars, TargetsExclusive, TypeOKCodeCache
<1>3. RegistrationAtomic'
  BY DEF FreeCode, Goto, mapVars, gcVars, RegistrationAtomic, TypeOKCodeCache,
     TargetsExclusive
<1>4. RemovedForGood'
  BY DEF FreeCode, Goto, mapVars, gcVars, RemovedForGood, TypeOKCodeCache, TargetsExclusive
<1>5. CodeSlots'
  BY DEF FreeCode, Goto, mapVars, gcVars, CodeSlots, TypeOKCodeCache
<1>6. EntriesComplete'
  BY DEF FreeCode, Goto, mapVars, gcVars, EntriesComplete, Available, TypeOKCodeCache,
     TargetsExclusive, RegistrationAtomic, CodeSlots, RootsAreOops, RemovedForGood
<1>7. YoungInNursery'
  BY DEF FreeCode, Goto, mapVars, gcVars, YoungInNursery, Available, TypeOKCodeCache,
     TargetsExclusive, RegistrationAtomic, CodeSlots, ScanProgress
<1>8. ScanProgress'
  BY DEF FreeCode, Goto, mapVars, gcVars, ScanProgress, Available, Empty, TypeOKCodeCache,
     TargetsExclusive, RegistrationAtomic, CodeSlots, EntriesComplete,
     YoungInNursery
<1>9. RootsAreOops'
  BY DEF FreeCode, Goto, mapVars, gcVars, RootsAreOops, TypeOKCodeCache, TargetsExclusive,
     RegistrationAtomic, RemovedForGood, ScanProgress, Empty
<1>10. QED
  BY <1>1, <1>2, <1>3, <1>4, <1>5, <1>6, <1>7, <1>8, <1>9

\* A pause begins with nothing reported.
LEMMA BeginPausePreserves ==
  ASSUME NEW k \in {"nursery", "full"}, CodeCacheInv, BeginPause(k)
  PROVE  CodeCacheInv'
<1> USE DEF CodeCacheInv
<1>1. TypeOKCodeCache'
  BY DEF BeginPause, mapVars, threadVars, codeVars, TypeOKCodeCache, Empty
<1>2. TargetsExclusive'
  BY DEF BeginPause, mapVars, threadVars, codeVars, TargetsExclusive, TypeOKCodeCache
<1>3. RegistrationAtomic'
  BY DEF BeginPause, mapVars, threadVars, codeVars, RegistrationAtomic, TypeOKCodeCache,
     TargetsExclusive
<1>4. RemovedForGood'
  BY DEF BeginPause, mapVars, threadVars, codeVars, RemovedForGood, TypeOKCodeCache,
     TargetsExclusive
<1>5. CodeSlots'
  BY DEF BeginPause, mapVars, threadVars, codeVars, CodeSlots, TypeOKCodeCache
<1>6. EntriesComplete'
  BY DEF BeginPause, mapVars, threadVars, codeVars, EntriesComplete, Available,
     TypeOKCodeCache, TargetsExclusive, RegistrationAtomic, CodeSlots, RootsAreOops
<1>7. YoungInNursery'
  BY DEF BeginPause, mapVars, threadVars, codeVars, YoungInNursery, Available,
     TypeOKCodeCache, TargetsExclusive, RegistrationAtomic, CodeSlots, ScanProgress
<1>8. ScanProgress'
  BY DEF BeginPause, mapVars, threadVars, codeVars, ScanProgress, Available, Empty,
     TypeOKCodeCache, TargetsExclusive, RegistrationAtomic, CodeSlots, EntriesComplete,
     YoungInNursery
<1>9. RootsAreOops'
  BY DEF BeginPause, mapVars, threadVars, codeVars, RootsAreOops, TypeOKCodeCache,
     TargetsExclusive, RegistrationAtomic, RemovedForGood, ScanProgress
<1>10. QED
  BY <1>1, <1>2, <1>3, <1>4, <1>5, <1>6, <1>7, <1>8, <1>9

\* A full collection reports the mature map.
LEMMA ScanMaturePreserves ==
  ASSUME CodeCacheInv, ScanMature
  PROVE  CodeCacheInv'
<1> USE DEF CodeCacheInv
<1>1. TypeOKCodeCache'
  BY DEF ScanMature, mapVars, threadVars, codeVars, TypeOKCodeCache, Empty
<1>2. TargetsExclusive'
  BY DEF ScanMature, mapVars, threadVars, codeVars, TargetsExclusive, TypeOKCodeCache
<1>3. RegistrationAtomic'
  BY DEF ScanMature, mapVars, threadVars, codeVars, RegistrationAtomic, TypeOKCodeCache,
     TargetsExclusive
<1>4. RemovedForGood'
  BY DEF ScanMature, mapVars, threadVars, codeVars, RemovedForGood, TypeOKCodeCache,
     TargetsExclusive
<1>5. CodeSlots'
  BY DEF ScanMature, mapVars, threadVars, codeVars, CodeSlots, TypeOKCodeCache
<1>6. EntriesComplete'
  BY DEF ScanMature, mapVars, threadVars, codeVars, EntriesComplete, Available,
     TypeOKCodeCache, TargetsExclusive, RegistrationAtomic, CodeSlots, RootsAreOops
<1>7. YoungInNursery'
  BY DEF ScanMature, mapVars, threadVars, codeVars, YoungInNursery, Available,
     TypeOKCodeCache, TargetsExclusive, RegistrationAtomic, CodeSlots, ScanProgress
<1>8. ScanProgress'
  BY DEF ScanMature, mapVars, threadVars, codeVars, ScanProgress, Available, Empty,
     TypeOKCodeCache, TargetsExclusive, RegistrationAtomic, CodeSlots, EntriesComplete,
     YoungInNursery
<1>9. RootsAreOops'
  BY DEF ScanMature, mapVars, threadVars, codeVars, RootsAreOops, TypeOKCodeCache,
     TargetsExclusive, RegistrationAtomic, RemovedForGood, ScanProgress
<1>10. QED
  BY <1>1, <1>2, <1>3, <1>4, <1>5, <1>6, <1>7, <1>8, <1>9

\* The drain reports the nursery map and empties it.
LEMMA DrainNurseryPreserves ==
  ASSUME CodeCacheInv, DrainNursery
  PROVE  CodeCacheInv'
<1> USE DEF CodeCacheInv
<1>1. TypeOKCodeCache'
  BY DEF DrainNursery, threadVars, codeVars, TypeOKCodeCache, Empty
<1>2. TargetsExclusive'
  BY DEF DrainNursery, threadVars, codeVars, TargetsExclusive, TypeOKCodeCache
<1>3. RegistrationAtomic'
  BY DEF DrainNursery, threadVars, codeVars, RegistrationAtomic, TypeOKCodeCache,
     TargetsExclusive
<1>4. RemovedForGood'
  BY DEF DrainNursery, threadVars, codeVars, RemovedForGood, TypeOKCodeCache,
     TargetsExclusive, Empty
<1>5. CodeSlots'
  BY DEF DrainNursery, threadVars, codeVars, CodeSlots, TypeOKCodeCache
<1>6. EntriesComplete'
  BY DEF DrainNursery, threadVars, codeVars, EntriesComplete, Available, TypeOKCodeCache,
     TargetsExclusive, RegistrationAtomic, CodeSlots, RootsAreOops, Empty
<1>7. YoungInNursery'
  BY DEF DrainNursery, threadVars, codeVars, YoungInNursery, Available, TypeOKCodeCache,
     TargetsExclusive, RegistrationAtomic, CodeSlots, ScanProgress
<1>8. ScanProgress'
  BY DEF DrainNursery, threadVars, codeVars, ScanProgress, Available, Empty, TypeOKCodeCache,
     TargetsExclusive, RegistrationAtomic, CodeSlots, EntriesComplete,
     YoungInNursery
<1>9. RootsAreOops'
  BY DEF DrainNursery, threadVars, codeVars, RootsAreOops, TypeOKCodeCache, TargetsExclusive,
     RegistrationAtomic, RemovedForGood, ScanProgress, Empty
<1>10. QED
  BY <1>1, <1>2, <1>3, <1>4, <1>5, <1>6, <1>7, <1>8, <1>9

\* What has been reported is no longer young.
LEMMA EndPausePreserves ==
  ASSUME CodeCacheInv, EndPause
  PROVE  CodeCacheInv'
<1> USE DEF CodeCacheInv
<1>1. TypeOKCodeCache'
  BY DEF EndPause, mapVars, threadVars, TypeOKCodeCache, Empty
<1>2. TargetsExclusive'
  BY DEF EndPause, mapVars, threadVars, TargetsExclusive, TypeOKCodeCache
<1>3. RegistrationAtomic'
  BY DEF EndPause, mapVars, threadVars, RegistrationAtomic, TypeOKCodeCache, TargetsExclusive
<1>4. RemovedForGood'
  BY DEF EndPause, mapVars, threadVars, RemovedForGood, TypeOKCodeCache, TargetsExclusive
<1>5. CodeSlots'
  BY DEF EndPause, mapVars, threadVars, CodeSlots, TypeOKCodeCache
<1>6. EntriesComplete'
  BY DEF EndPause, mapVars, threadVars, EntriesComplete, Available, TypeOKCodeCache,
     TargetsExclusive, RegistrationAtomic, CodeSlots, RootsAreOops
<1>7. YoungInNursery'
  BY DEF EndPause, mapVars, threadVars, YoungInNursery, Available, TypeOKCodeCache,
     TargetsExclusive, RegistrationAtomic, CodeSlots, ScanProgress
<1>8. ScanProgress'
  BY DEF EndPause, mapVars, threadVars, ScanProgress, Available, Empty, TypeOKCodeCache,
     TargetsExclusive, RegistrationAtomic, CodeSlots, EntriesComplete,
     YoungInNursery
<1>9. RootsAreOops'
  BY DEF EndPause, mapVars, threadVars, RootsAreOops, TypeOKCodeCache, TargetsExclusive,
     RegistrationAtomic, RemovedForGood, ScanProgress, Empty
<1>10. QED
  BY <1>1, <1>2, <1>3, <1>4, <1>5, <1>6, <1>7, <1>8, <1>9

\* Every step preserves the invariant.
LEMMA NextCodeCacheInv == CodeCacheInv /\ [NextCodeCache]_codeCacheVars => CodeCacheInv'
<1> SUFFICES ASSUME CodeCacheInv, [NextCodeCache]_codeCacheVars PROVE CodeCacheInv'
  OBVIOUS
<1>1. CASE UNCHANGED codeCacheVars
  <2> USE <1>1 DEF codeCacheVars, CodeCacheInv
  <2>1. TypeOKCodeCache' /\ RootsAreOops'
    BY DEF TypeOKCodeCache, RootsAreOops
  <2>2. TargetsExclusive' /\ RegistrationAtomic' /\ RemovedForGood'
    BY DEF TargetsExclusive, RegistrationAtomic, RemovedForGood
  <2>3. CodeSlots' /\ EntriesComplete' /\ YoungInNursery'
    BY DEF CodeSlots, EntriesComplete, YoungInNursery, Available
  <2>4. ScanProgress'
    BY DEF ScanProgress, Available, Empty
  <2>5. QED
    BY <2>1, <2>2, <2>3, <2>4
<1>2. CASE NextCodeCache
  BY <1>2, WriteCodePreserves, AddNMethodOopsPreserves, RegisterNMethodPreserves,
     UnregisterFirstPreserves, UnregisterSecondPreserves, FreeCodePreserves,
     BeginPausePreserves, ScanMaturePreserves,
     DrainNurseryPreserves, EndPausePreserves DEF NextCodeCache
<1>3. QED
  BY <1>1, <1>2

\* The invariant holds throughout.
LEMMA CodeCacheInvariant == SpecCodeCache => []CodeCacheInv
  BY InitCodeCacheInv, NextCodeCacheInv, PTL DEF SpecCodeCache

\* A nursery collection may skip the mature map: no slot with a young reference is ever
\* missed, for any number of methods, slots and threads.
THEOREM NurseryRootsSuffice == SpecCodeCache => []YoungRootsReported
<1>1. CodeCacheInv => YoungRootsReported
  BY DEF CodeCacheInv, TypeOKCodeCache, TargetsExclusive, RegistrationAtomic, ScanProgress,
     YoungRootsReported, Registered, Available
<1>2. QED
  BY <1>1, CodeCacheInvariant, PTL

\* The two maps together always have every slot a full collection needs.
THEOREM FullCollectionMissesNothing == SpecCodeCache => []FullCollectionSeesAll
<1>1. CodeCacheInv => FullCollectionSeesAll
  BY DEF CodeCacheInv, TypeOKCodeCache, TargetsExclusive, RegistrationAtomic, ScanProgress,
     FullCollectionSeesAll, Registered, Available
<1>2. QED
  BY <1>1, CodeCacheInvariant, PTL

\* unregister_nmethod removes every trace of a method before its code is freed, even if
\* a collection moves the entry between the two steps.
THEOREM UnregisteredForGood == SpecCodeCache => []NoDanglingRoots
<1>1. CodeCacheInv => NoDanglingRoots
  BY DEF CodeCacheInv, RootsAreOops, NoDanglingRoots, CodeSlots
<1>2. QED
  BY <1>1, CodeCacheInvariant, PTL

\* The thread-local cache never leaks a slot into the entry of another method: what is
\* remembered of a method, or reported to a collection, are its own slots.
THEOREM EntriesAreTheirOwn == SpecCodeCache => []RootsAreOops
<1>1. CodeCacheInv => RootsAreOops
  BY DEF CodeCacheInv
<1>2. QED
  BY <1>1, CodeCacheInvariant, PTL
===============================================================================
