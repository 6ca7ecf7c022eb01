------------------------- MODULE CompressedOopsProofs -------------------------
(***************************************************************************)
(* Proofs about CompressedOops for every size of a gigabyte, of a page and *)
(* of the heap: in particular for the real ones, 2^30 and 4096.            *)
(***************************************************************************)
EXTENDS CompressedOops, TLAPS

USE SizesAssumption, HeapSizesAssumption, ArrayAssumption

\* "as u32" keeps a value that fits in 32 bits.
LEMMA FitsInWord ==
  ASSUME NEW v \in Nat, v < Word32
  PROVE  v % Word32 = v
  BY DEF Word32

\* Dividing an aligned offset by the granule loses nothing.
LEMMA AlignedOffset ==
  ASSUME NEW d \in Nat, d % 8 = 0
  PROVE  d \div 8 \in Nat /\ (d \div 8) * 8 = d
  OBVIOUS

\* An offset that is aligned for the shift, not zero and in the reach of 32 bits is
\* encoded without loss.
LEMMA EncodeDecode ==
  ASSUME NEW b \in Nat, NEW s \in {0, 3}, NEW o \in Nat,
         o > b, (o - b) % 8 = 0, o - b < Word32 * Unit(s)
  PROVE  /\ CompressWith(b, s, o) # 0
         /\ DecompressWith(b, s, CompressWith(b, s, o)) = o
<1> DEFINE d == o - b
<1>1. d \in Nat /\ d > 0 /\ d % 8 = 0 /\ o = b + d
  OBVIOUS
<1>2. CASE s = 0
  <2>1. d < Word32 /\ d \div Unit(s) = d
    BY <1>1, <1>2 DEF Unit, Word32
  <2>2. CompressWith(b, s, o) = d
    BY <1>1, <2>1, FitsInWord DEF CompressWith
  <2>3. QED
    BY <1>1, <1>2, <2>2 DEF DecompressWith, Unit
<1>3. CASE s = 3
  <2>1. d < Word32 * 8 /\ d \div Unit(s) = d \div 8
    BY <1>1, <1>3 DEF Unit, Word32
  <2>2. d \div 8 \in Nat /\ (d \div 8) * 8 = d /\ d \div 8 < Word32 /\ d \div 8 > 0
    BY <1>1, <2>1, AlignedOffset DEF Word32
  <2>3. CompressWith(b, s, o) = d \div 8
    BY <2>1, <2>2, FitsInWord DEF CompressWith
  <2>4. QED
    BY <1>1, <1>3, <2>2, <2>3 DEF DecompressWith, Unit
<1>4. QED
  BY <1>2, <1>3

\* The three layouts of set_compressed_pointer_vm_layout, with the base and shift
\* that initialize_compressed_oops_base_and_shift derives from each.
Layout ==
  phase \in {"inited", "running"} /\ enabled =>
    /\ heapStart = OneG /\ size \in Nat /\ OneG + size <= heapEnd
    /\ \/ heapEnd = 4 * OneG /\ base = 0 /\ shift = 0
       \/ heapEnd = 32 * OneG /\ base = 0 /\ shift = 3
       \/ heapEnd = 33 * OneG /\ base = OneG - Page /\ shift = 3

DefaultLayout ==
  phase \in {"inited", "running"} /\ ~enabled =>
    heapStart \in Nat /\ heapStart + size <= heapEnd

LayoutInv == Layout /\ DefaultLayout

\* No step but openjdk_gc_init changes the layout.
LEMMA InitLayout == Init => LayoutInv
  BY DEF Init, LayoutInv, Layout, DefaultLayout

LEMMA NextLayout == LayoutInv /\ [Next]_vars => LayoutInv'
<1> SUFFICES ASSUME LayoutInv, [Next]_vars PROVE LayoutInv'
  OBVIOUS
<1>1. CASE EnableCompressedOops
  BY <1>1 DEF EnableCompressedOops, LayoutInv, Layout, DefaultLayout
<1>2. ASSUME NEW sz \in HeapSizes, OpenjdkGcInit(sz) PROVE LayoutInv'
  <2>1. sz \in Nat /\ size' = sz /\ enabled' = enabled
    BY <1>2 DEF OpenjdkGcInit
  <2>2. CASE enabled /\ sz <= 32 * OneG
    <3>1. /\ heapStart' = OneG /\ heapEnd' = LayoutEnd(sz)
          /\ base' = LayoutBase(OneG, LayoutEnd(sz))
          /\ shift' = LayoutShift(LayoutEnd(sz))
      BY <1>2, <2>1, <2>2 DEF OpenjdkGcInit
    <3>2. CASE OneG + sz <= 4 * OneG
      BY <2>1, <2>2, <3>1, <3>2
      DEF LayoutInv, Layout, DefaultLayout, LayoutEnd, LayoutBase, LayoutShift
    <3>3. CASE OneG + sz > 4 * OneG /\ OneG + sz <= 32 * OneG
      BY <2>1, <2>2, <3>1, <3>3
      DEF LayoutInv, Layout, DefaultLayout, LayoutEnd, LayoutBase, LayoutShift
    <3>4. CASE OneG + sz > 32 * OneG
      BY <2>1, <2>2, <3>1, <3>4
      DEF LayoutInv, Layout, DefaultLayout, LayoutEnd, LayoutBase, LayoutShift
    <3>5. QED
      BY <2>1, <3>2, <3>3, <3>4
  <2>3. CASE enabled /\ ~(sz <= 32 * OneG)
    BY <1>2, <2>1, <2>3 DEF OpenjdkGcInit, LayoutInv, Layout, DefaultLayout
  <2>4. CASE ~enabled
    BY <1>2, <2>1, <2>4 DEF OpenjdkGcInit, LayoutInv, Layout, DefaultLayout
  <2>5. QED
    BY <2>2, <2>3, <2>4
<1>3. CASE SetNarrowOop
  BY <1>3 DEF SetNarrowOop, layoutVars, LayoutInv, Layout, DefaultLayout
<1>4. ASSUME NEW s, NEW o, HotSpotStore(s, o) \/ Store(s, o) PROVE LayoutInv'
  BY <1>4 DEF HotSpotStore, Store, Access, layoutVars, LayoutInv, Layout, DefaultLayout
<1>5. ASSUME NEW from, NEW to, NEW n, Copy(from, to, n) PROVE LayoutInv'
  BY <1>5 DEF Copy, layoutVars, LayoutInv, Layout, DefaultLayout
<1>6. CASE UNCHANGED vars
  BY <1>6 DEF vars, layoutVars, LayoutInv, Layout, DefaultLayout
<1>7. QED
  BY <1>1, <1>2, <1>3, <1>4, <1>5, <1>6 DEF Next

LEMMA LayoutInvariant == Spec => []LayoutInv
  BY InitLayout, NextLayout, PTL DEF Spec

\* Every object has a code of its own: the offset from the base is aligned and fits, unless
\* the object lies in the last page of the layout with a base.
LEMMA LayoutRoundTrip ==
  ASSUME ~LastPageUsed, LayoutInv
  PROVE  RoundTrip
<1> SUFFICES ASSUME phase \in {"inited", "running"}, enabled, NEW o \in Addresses
             PROVE  Compress(o) # 0 /\ Decompress(Compress(o)) = o
  BY DEF RoundTrip
<1>1. /\ heapStart = OneG
      /\ \/ heapEnd = 4 * OneG /\ base = 0 /\ shift = 0
         \/ heapEnd = 32 * OneG /\ base = 0 /\ shift = 3
         \/ heapEnd = 33 * OneG /\ base = OneG - Page /\ shift = 3
  BY DEF LayoutInv, Layout
<1>2. o \in Nat /\ o >= OneG /\ o + 8 <= ObjectLimit /\ o % 8 = 0
  BY <1>1 DEF Addresses, IsObject, Granule
<1>3. /\ base \in Nat /\ shift \in {0, 3} /\ o > base
      /\ (o - base) % 8 = 0 /\ o - base < Word32 * Unit(shift)
  BY <1>1, <1>2 DEF ObjectLimit, Word32, Unit, Granule
<1>4. QED
  BY <1>2, <1>3, EncodeDecode DEF Compress, Decompress

-------------------------------------------------------------------------------
(***************************************************************************)
(* Memory: which words a slot takes, and what they hold.                   *)
(***************************************************************************)
Footprint(s) == IF Narrow(s) THEN {WordOf(s)} ELSE {WordOf(s), WordOf(s) + 1}

Code(o) == IF o = Null THEN 0 ELSE Compress(o)
Holds(m, s, o) ==
  IF Narrow(s) THEN m[WordOf(s)] = Code(o)
               ELSE m[WordOf(s)] = o % Word32 /\ m[WordOf(s) + 1] = o \div Word32

\* The two halves of the VM agree on widths, base and shift.
Agreed ==
  /\ flag \in BOOLEAN /\ enabled \in BOOLEAN
  /\ phase # "start" => enabled = flag
  /\ phase = "running" /\ flag => narrowBase = base /\ narrowShift = shift

\* The inductive invariant: the words of every slot hold the reference last written to it.
\* Slots have nothing but null before there is a heap.
MemoryInv ==
  /\ DOMAIN mem = Words /\ DOMAIN ref = Slots
  /\ phase # "running" => (\A w \in Words : mem[w] = 0) /\ (\A s \in Slots : ref[s] = Null)
  /\ phase = "running" =>
       \A s \in Slots : ref[s] \in Addresses \cup {Null} /\ Holds(mem, s, ref[s])

SlotInv == LayoutInv /\ Agreed /\ MemoryInv

\* Slots take one word or two, and no two slots share a word.
LEMMA FootprintsApart ==
  ASSUME flag \in BOOLEAN, NEW s \in Slots, NEW t \in Slots, s # t
  PROVE  Footprint(s) \cap Footprint(t) = {}
<1>1. s \in Nat /\ t \in Nat /\ s <= NElems + 1 /\ t <= NElems + 1
  BY DEF Slots
<1>2. CASE flag
  BY <1>1, <1>2 DEF Footprint, Narrow, WordOf, WideRoot
<1>3. CASE ~flag
  BY <1>1, <1>3 DEF Footprint, Narrow, WordOf, WideRoot
<1>4. QED
  BY <1>2, <1>3

LEMMA FootprintInMemory ==
  ASSUME flag \in BOOLEAN, NEW s \in Slots
  PROVE  Footprint(s) \subseteq Words /\ WordOf(s) \in Nat
<1>1. s \in Nat /\ s <= NElems + 1
  BY DEF Slots
<1>2. QED
  BY <1>1 DEF Footprint, Narrow, WordOf, WideRoot, Words

\* What a slot holds depends on its own words only.
LEMMA HoldsFrame ==
  ASSUME NEW m, NEW k, NEW s \in Slots, NEW o, Holds(m, s, o),
         \A w \in Footprint(s) : k[w] = m[w]
  PROVE  Holds(k, s, o)
  BY DEF Holds, Footprint

\* Two words hold a full-width reference without loss.
LEMMA SplitWord ==
  ASSUME NEW o \in Nat
  PROVE  (o % Word32) + (o \div Word32) * Word32 = o
<1>1. Word32 \in Nat /\ Word32 > 0
  BY DEF Word32
<1>2. QED
  BY <1>1

\* A store by either side writes the words of the slot, and no other word.
Put(s, o) == IF Narrow(s) THEN Write32(mem, WordOf(s), Code(o)) ELSE Write64(mem, WordOf(s), o)

LEMMA StoresAgree ==
  ASSUME Agreed, phase = "running", NEW s \in Slots, NEW o
  PROVE  StoreTo(Reported(s), o) = Put(s, o) /\ HotSpotStoreTo(s, o) = Put(s, o)
<1>1. enabled = flag /\ flag \in BOOLEAN
  BY DEF Agreed
<1>2. enabled /\ IsCompressed(Reported(s)) <=> Narrow(s)
  BY <1>1 DEF IsCompressed, Reported, Narrow
<1>3. Reported(s).addr = WordOf(s)
  BY DEF Reported
<1>4. StoreTo(Reported(s), o) = Put(s, o)
  BY <1>2, <1>3 DEF StoreTo, Put, Code
<1>5. HotSpotStoreTo(s, o) = Put(s, o)
  BY <1>1 DEF Agreed, HotSpotStoreTo, Put, Code, Compress, Narrow
<1>6. QED
  BY <1>4, <1>5

LEMMA PutFacts ==
  ASSUME flag \in BOOLEAN, DOMAIN mem = Words, NEW s \in Slots, NEW o
  PROVE  /\ DOMAIN Put(s, o) = Words
         /\ Holds(Put(s, o), s, o)
         /\ \A w \in Words \ Footprint(s) : Put(s, o)[w] = mem[w]
<1>1. Footprint(s) \subseteq Words /\ WordOf(s) \in Nat
  BY FootprintInMemory
<1>2. CASE Narrow(s)
  BY <1>1, <1>2 DEF Put, Write32, Holds, Footprint
<1>3. CASE ~Narrow(s)
  BY <1>1, <1>3 DEF Put, Write64, Holds, Footprint
<1>4. QED
  BY <1>2, <1>3

\* An access preserves the invariant.
LEMMA AccessPreserves ==
  ASSUME SlotInv, NEW s \in Slots, NEW o \in Addresses \cup {Null}, Access(s, o, Put(s, o))
  PROVE  MemoryInv'
<1>1. /\ phase = "running" /\ mem' = Put(s, o) /\ ref' = [ref EXCEPT ![s] = o]
      /\ UNCHANGED <<phase, flag, enabled, size, heapStart, heapEnd, base, shift>>
  BY DEF Access, layoutVars
<1>2. /\ flag \in BOOLEAN /\ DOMAIN mem = Words /\ DOMAIN ref = Slots
      /\ \A t \in Slots : ref[t] \in Addresses \cup {Null} /\ Holds(mem, t, ref[t])
  BY <1>1 DEF SlotInv, Agreed, MemoryInv
<1>3. /\ DOMAIN mem' = Words /\ Holds(mem', s, o)
      /\ \A w \in Words \ Footprint(s) : mem'[w] = mem[w]
  BY <1>1, <1>2, PutFacts
<1>4. ASSUME NEW t \in Slots
      PROVE  ref'[t] \in Addresses \cup {Null} /\ Holds(mem', t, ref'[t])
  <2>1. CASE t = s
    BY <1>1, <1>2, <1>3, <2>1
  <2>2. CASE t # s
    <3>1. ref'[t] = ref[t]
      BY <1>1, <1>2, <2>2
    <3>2. \A w \in Footprint(t) : mem'[w] = mem[w]
      BY <1>2, <1>3, <2>2, FootprintsApart, FootprintInMemory
    <3>3. Holds(mem', t, ref[t])
      BY <1>2, <3>2, HoldsFrame
    <3>4. QED
      BY <1>2, <3>1, <3>3
  <2>3. QED
    BY <2>1, <2>2
<1>5. Addresses' = Addresses /\ \A t \in Slots : Holds(mem', t, ref'[t]) => Holds(mem, t, ref[t])'
  BY <1>1 DEF Addresses, IsObject, ObjectLimit, Holds, Narrow, WordOf, Code, Compress
<1>6. DOMAIN ref' = Slots
  BY <1>1, <1>2
<1>7. QED
  BY <1>1, <1>3, <1>4, <1>5, <1>6 DEF MemoryInv

\* Elements move together with their words, whatever their width, and however the ranges
\* overlap.
LEMMA CopyPreserves ==
  ASSUME SlotInv, NEW from \in 0 .. NElems, NEW to \in 0 .. NElems, NEW n \in 0 .. NElems,
         Copy(from, to, n)
  PROVE  MemoryInv'
<1>1. /\ phase = "running" /\ from + n <= NElems /\ to + n <= NElems
      /\ mem' = CopyWords(WordOf(from), WordOf(to), IF enabled THEN n ELSE 2 * n)
      /\ ref' = [s \in Slots |-> IF s \in to .. to + n - 1 THEN ref[from + (s - to)] ELSE ref[s]]
      /\ UNCHANGED <<phase, flag, enabled, size, heapStart, heapEnd, base, shift>>
  BY DEF Copy, layoutVars
<1>2. /\ flag \in BOOLEAN /\ enabled = flag
      /\ \A t \in Slots : ref[t] \in Addresses \cup {Null} /\ Holds(mem, t, ref[t])
  BY <1>1 DEF SlotInv, Agreed, MemoryInv
<1>3. NElems \in Nat /\ from \in Nat /\ to \in Nat /\ n \in Nat
  OBVIOUS
<1>4. DOMAIN mem' = Words /\ DOMAIN ref' = Slots
  BY <1>1 DEF CopyWords
<1>5. ASSUME NEW t \in Slots
      PROVE  ref'[t] \in Addresses \cup {Null} /\ Holds(mem', t, ref'[t])
  <2>1. CASE t \in to .. to + n - 1
    <3>1. PICK e \in Slots : e = from + (t - to) /\ e < NElems /\ t < NElems
      BY <1>1, <1>3, <2>1 DEF Slots
    <3>2. ref'[t] = ref[e]
      BY <1>1, <2>1, <3>1
    <3>3. CASE flag
      <4>1. /\ Narrow(t) /\ Narrow(e) /\ WordOf(t) = t /\ WordOf(e) = e
            /\ WordOf(from) = from /\ WordOf(to) = to
        BY <1>1, <1>3, <3>1, <3>3 DEF Narrow, WordOf, WideRoot, Slots
      <4>2. t \in Words /\ e = from + (t - to)
        BY <1>3, <3>1 DEF Words, Slots
      <4>3. mem'[t] = mem[e]
        BY <1>1, <1>2, <2>1, <3>3, <4>1, <4>2 DEF CopyWords
      <4>4. QED
        BY <1>2, <3>2, <4>1, <4>3 DEF Holds
    <3>4. CASE ~flag
      <4>1. /\ ~Narrow(t) /\ ~Narrow(e) /\ WordOf(t) = 2 * t /\ WordOf(e) = 2 * e
            /\ WordOf(from) = 2 * from /\ WordOf(to) = 2 * to
        BY <3>4 DEF Narrow, WordOf
      <4>2. /\ t \in Nat /\ e \in Nat /\ 2 * t \in Words /\ 2 * t + 1 \in Words
            /\ 2 * t \in 2 * to .. 2 * to + 2 * n - 1 /\ 2 * t + 1 \in 2 * to .. 2 * to + 2 * n - 1
            /\ 2 * e = 2 * from + (2 * t - 2 * to)
            /\ 2 * e + 1 = 2 * from + ((2 * t + 1) - 2 * to)
        BY <1>3, <2>1, <3>1 DEF Words, Slots
      <4>3. mem'[2 * t] = mem[2 * e] /\ mem'[2 * t + 1] = mem[2 * e + 1]
        BY <1>1, <1>2, <3>4, <4>1, <4>2 DEF CopyWords
      <4>4. QED
        BY <1>2, <3>2, <4>1, <4>3 DEF Holds
    <3>5. QED
      BY <1>2, <3>3, <3>4
  <2>2. CASE t \notin to .. to + n - 1
    <3>1. ref'[t] = ref[t]
      BY <1>1, <2>2
    <3>2. t \in Nat /\ (t < to \/ t >= to + n) /\ t <= NElems + 1
      BY <1>3, <2>2 DEF Slots
    <3>3. ASSUME NEW w \in Footprint(t) PROVE mem'[w] = mem[w]
      <4>1. w \in Words /\ w \in Nat
        BY <1>2, <3>3, FootprintInMemory DEF Words
      <4>2. w \notin WordOf(to) .. WordOf(to) + (IF enabled THEN n ELSE 2 * n) - 1
        <5>1. CASE flag
          BY <1>1, <1>2, <1>3, <3>2, <3>3, <5>1 DEF Footprint, Narrow, WordOf, WideRoot
        <5>2. CASE ~flag
          BY <1>1, <1>2, <1>3, <3>2, <3>3, <5>2 DEF Footprint, Narrow, WordOf, WideRoot
        <5>3. QED
          BY <1>2, <5>1, <5>2
      <4>3. QED
        BY <1>1, <4>1, <4>2 DEF CopyWords
    <3>4. Holds(mem', t, ref[t])
      BY <1>2, <3>3, HoldsFrame
    <3>5. QED
      BY <1>2, <3>1, <3>4
  <2>3. QED
    BY <2>1, <2>2
<1>6. Addresses' = Addresses /\ \A t \in Slots : Holds(mem', t, ref'[t]) => Holds(mem, t, ref[t])'
  BY <1>1 DEF Addresses, IsObject, ObjectLimit, Holds, Narrow, WordOf, Code, Compress
<1>7. QED
  BY <1>1, <1>4, <1>5, <1>6 DEF MemoryInv

\* Every step preserves the invariant.
LEMMA SlotInvariant == Spec => []SlotInv
<1>1. Init => SlotInv
  BY InitLayout DEF Init, SlotInv, Agreed, MemoryInv, Null
<1>2. SlotInv /\ [Next]_vars => SlotInv'
  <2> SUFFICES ASSUME SlotInv, [Next]_vars PROVE SlotInv'
    OBVIOUS
  <2>1. LayoutInv'
    BY NextLayout DEF SlotInv
  <2>2. CASE EnableCompressedOops
    <3>1. Agreed'
      BY <2>2 DEF EnableCompressedOops, SlotInv, Agreed
    <3>2. MemoryInv'
      BY <2>2 DEF EnableCompressedOops, SlotInv, MemoryInv
    <3>3. QED
      BY <2>1, <3>1, <3>2 DEF SlotInv
  <2>3. ASSUME NEW sz \in HeapSizes, OpenjdkGcInit(sz) PROVE SlotInv'
    <3>1. phase = "options" /\ phase' \in {"inited", "panic"} /\ UNCHANGED <<flag, enabled, mem, ref>>
      BY <2>3 DEF OpenjdkGcInit
    <3>2. QED
      BY <2>1, <3>1 DEF SlotInv, Agreed, MemoryInv
  <2>4. CASE SetNarrowOop
    <3>1. /\ phase = "inited" /\ phase' = "running"
          /\ UNCHANGED <<flag, enabled, heapStart, heapEnd, base, shift, mem, ref>>
          /\ flag => narrowBase' = base /\ narrowShift' = shift
      BY <2>4 DEF SetNarrowOop, layoutVars
    <3>2. Agreed'
      BY <3>1 DEF SlotInv, Agreed
    <3>3. ASSUME NEW s \in Slots PROVE Holds(mem, s, ref[s])'
      <4>1. ref'[s] = 0 /\ \A w \in Footprint(s) : mem'[w] = 0
        BY <3>1, FootprintInMemory DEF SlotInv, Agreed, MemoryInv, Null
      <4>2. 0 % Word32 = 0 /\ 0 \div Word32 = 0
        BY DEF Word32
      <4>3. Narrow(s)' = Narrow(s) /\ WordOf(s)' = WordOf(s)
        BY <3>1 DEF Narrow, WordOf
      <4>4. QED
        BY <4>1, <4>2, <4>3 DEF Holds, Footprint, Code, Null
    <3>4. MemoryInv'
      BY <3>1, <3>3 DEF SlotInv, MemoryInv
    <3>5. QED
      BY <2>1, <3>2, <3>4 DEF SlotInv
  <2>5. ASSUME NEW s \in Slots, NEW o \in SomeObjects \cup {Null},
               HotSpotStore(s, o) \/ Store(s, o)
        PROVE  SlotInv'
    <3>1. phase = "running"
      BY <2>5 DEF HotSpotStore, Store, Access
    <3>2. Access(s, o, Put(s, o))
      BY <2>5, <3>1, StoresAgree DEF SlotInv, HotSpotStore, Store
    <3>3. MemoryInv'
      BY <2>5, <3>2, AccessPreserves DEF SomeObjects
    <3>4. Agreed'
      BY <3>2 DEF Access, layoutVars, hotspotVars, SlotInv, Agreed
    <3>5. QED
      BY <2>1, <3>3, <3>4 DEF SlotInv
  <2>6. ASSUME NEW from \in 0 .. NElems, NEW to \in 0 .. NElems, NEW n \in 0 .. NElems,
               Copy(from, to, n)
        PROVE  SlotInv'
    <3>1. MemoryInv'
      BY <2>6, CopyPreserves
    <3>2. Agreed'
      BY <2>6 DEF Copy, layoutVars, hotspotVars, SlotInv, Agreed
    <3>3. QED
      BY <2>1, <3>1, <3>2 DEF SlotInv
  <2>7. CASE UNCHANGED vars
    BY <2>1, <2>7 DEF vars, layoutVars, hotspotVars, SlotInv, Agreed, MemoryInv, Holds, Narrow,
                      WordOf, Code, Compress, Addresses, IsObject, ObjectLimit
  <2>8. QED
    BY <2>2, <2>3, <2>4, <2>5, <2>6, <2>7 DEF Next
<1>3. QED
  BY <1>1, <1>2, PTL DEF Spec

\* A slot that holds a reference gives it back when it is read.
LEMMA HeldIsRead ==
  ASSUME ~LastPageUsed, SlotInv, phase = "running", NEW s \in Slots
  PROVE  /\ Narrow(s) => Decompress(mem[WordOf(s)]) = ref[s]
         /\ ~Narrow(s) => Read64(mem, WordOf(s)) = ref[s]
<1>1. Holds(mem, s, ref[s]) /\ ref[s] \in Addresses \cup {Null}
  BY DEF SlotInv, MemoryInv
<1>2. ASSUME Narrow(s) PROVE Decompress(mem[WordOf(s)]) = ref[s]
  <2>1. enabled /\ mem[WordOf(s)] = Code(ref[s])
    BY <1>1, <1>2 DEF SlotInv, Agreed, Narrow, Holds
  <2>2. CASE ref[s] = Null
    BY <2>1, <2>2 DEF Code, Decompress, DecompressWith
  <2>3. CASE ref[s] # Null
    BY <1>1, <2>1, <2>3, LayoutRoundTrip DEF SlotInv, RoundTrip, Code
  <2>4. QED
    BY <2>2, <2>3
<1>3. ASSUME ~Narrow(s) PROVE Read64(mem, WordOf(s)) = ref[s]
  <2>1. ref[s] \in Nat
    <3>1. heapStart \in Nat
      BY DEF SlotInv, Agreed, LayoutInv, Layout, DefaultLayout
    <3>2. QED
      BY <1>1, <3>1 DEF Addresses, Null
  <2>2. QED
    BY <1>1, <1>3, <2>1, SplitWord DEF Holds, Read64
<1>4. QED
  BY <1>2, <1>3

-------------------------------------------------------------------------------
(***************************************************************************)
(* The theorems.                                                           *)
(***************************************************************************)

\* Every object of the heap that is not in the last page of the 33 GB layout survives
\* compression, whatever the heap size.
THEOREM CompressionIsLossless ==
  ASSUME ~LastPageUsed
  PROVE  Spec => []RoundTrip
<1>1. LayoutInv => RoundTrip
  BY LayoutRoundTrip
<1>2. QED
  BY <1>1, LayoutInvariant, PTL

\* The address range that is set up always has room for the heap that was asked for.
THEOREM HeapAlwaysFits == Spec => []HeapFits
<1>1. LayoutInv => HeapFits
  BY DEF LayoutInv, Layout, DefaultLayout, HeapFits
<1>2. QED
  BY <1>1, LayoutInvariant, PTL

\* OpenJDKSlot::load gives back what was last stored by OpenJDKSlot::store, by HotSpot or by
\* an array copy, for every array length, every heap size and every mix of wide and narrow
\* slots.
THEOREM RustReadsBack ==
  ASSUME ~LastPageUsed
  PROVE  Spec => []RustSeesReferences
<1>1. SlotInv => RustSeesReferences
  <2> SUFFICES ASSUME SlotInv, phase = "running", NEW s \in Slots PROVE Load(Reported(s)) = ref[s]
    BY DEF RustSeesReferences
  <2>1. enabled = flag /\ flag \in BOOLEAN
    BY DEF SlotInv, Agreed
  <2>2. (enabled /\ IsCompressed(Reported(s)) <=> Narrow(s)) /\ Reported(s).addr = WordOf(s)
    BY <2>1 DEF IsCompressed, Reported, Narrow
  <2>3. QED
    BY <2>2, HeldIsRead DEF Load
<1>2. QED
  BY <1>1, SlotInvariant, PTL

\* HotSpot reads the same references, with the base and shift that it was given.
THEOREM HotSpotReadsBack ==
  ASSUME ~LastPageUsed
  PROVE  Spec => []HotSpotSeesReferences
<1>1. SlotInv => HotSpotSeesReferences
  <2> SUFFICES ASSUME SlotInv, phase = "running", NEW s \in Slots PROVE HotSpotLoad(s) = ref[s]
    BY DEF HotSpotSeesReferences
  <2>1. Narrow(s) => narrowBase = base /\ narrowShift = shift
    BY DEF SlotInv, Agreed, Narrow
  <2>2. QED
    BY <2>1, HeldIsRead DEF HotSpotLoad, Decompress
<1>2. QED
  BY <1>1, SlotInvariant, PTL
===============================================================================
