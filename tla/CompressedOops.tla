---------------------------- MODULE CompressedOops ----------------------------
(***************************************************************************)
(* Slots and compressed references (mmtk/src/slots.rs), the heap layout    *)
(* they depend on (set_compressed_pointer_vm_layout and the singletons in  *)
(* mmtk/src/lib.rs), and the order in which MMTkHeap::initialize sets them *)
(* up (openjdk/mmtkHeap.cpp).                                              *)
(*                                                                         *)
(* Sizes are parameters: OneG stands for 2^30 and Page for 4096, so that a *)
(* 32-bit word holds the values below 4 * OneG.  Memory is an array of     *)
(* 32-bit words: a narrow slot is one word, a full-width slot is two.      *)
(***************************************************************************)
EXTENDS Integers

CONSTANTS
  OneG,          \* bytes in a "gigabyte"
  Page,          \* the 4096 of initialize_compressed_oops_base_and_shift
  HeapSizes,     \* the maximum heap sizes that may be asked for
  NElems,        \* length of the reference array in memory
  LastPageUsed   \* TRUE: objects may lie in the last page of the address range

Granule == 8     \* object alignment, and 1 << 3
Word32 == 4 * OneG

ASSUME SizesAssumption ==
  /\ OneG \in Nat /\ OneG > 0 /\ OneG % Granule = 0
  /\ Page \in Nat /\ Page > 0 /\ Page % Granule = 0 /\ Page < OneG
ASSUME HeapSizesAssumption == HeapSizes \subseteq Nat
ASSUME ArrayAssumption == NElems \in Nat /\ LastPageUsed \in BOOLEAN

VARIABLES
  phase,          \* how far MMTkHeap::initialize is; "panic": the VM is gone
  flag,           \* UseCompressedOops, the JVM flag
  enabled,        \* USE_COMPRESSED_OOPS
  size,           \* the maximum heap size asked for
  heapStart,      \* VMLayout::heap_start
  heapEnd,        \* VMLayout::heap_end, also last_heap_address()
  base, shift,    \* BASE and SHIFT
  narrowBase,     \* Universe::narrow_oop_base(): what HotSpot compresses with
  narrowShift,    \* Universe::narrow_oop_shift()
  mem,            \* 32-bit words: an array, a full-width root, a narrow root
  ref             \* history: the reference last written to each slot

layoutVars == <<size, heapStart, heapEnd, base, shift>>
hotspotVars == <<narrowBase, narrowShift>>
vars == <<phase, flag, enabled, layoutVars, hotspotVars, mem, ref>>

Null == 0

-------------------------------------------------------------------------------
(***************************************************************************)
(* Encoding.                                                               *)
(***************************************************************************)

\* 1 << s, for the two shifts in use.
Unit(s) == IF s = 3 THEN 8 ELSE 1

\* OpenJDKSlot::compress with base b and shift s; "as u32" keeps the low 32 bits.
CompressWith(b, s, o) == ((o - b) \div Unit(s)) % Word32

\* OpenJDKSlot::decompress: zero is the null reference.
DecompressWith(b, s, v) == IF v = 0 THEN Null ELSE b + v * Unit(s)

Compress(o) == CompressWith(base, shift, o)
Decompress(v) == DecompressWith(base, shift, v)

\* Object addresses that mmtk-core hands out (external): aligned, inside the heap.
\* The layout with a non-zero base spans exactly 32 GB, and the last page of it is
\* special.
ObjectLimit == IF base # 0 /\ ~LastPageUsed THEN heapEnd - Page ELSE heapEnd
IsObject(o) == o >= heapStart /\ o + Granule <= ObjectLimit /\ o % Granule = 0
Addresses == {o \in heapStart..heapEnd : IsObject(o)}

-------------------------------------------------------------------------------
(***************************************************************************)
(* Memory.  Slots 0 .. NElems - 1 are the elements of an array, followed   *)
(* by a full-width root (a pointer in compiled code) and a narrow root.    *)
(***************************************************************************)
WideRoot == NElems
Slots == 0 .. NElems + 1
Words == 0 .. 2 * NElems + 3

\* The slot holds a narrowOop.
Narrow(s) == flag /\ s # WideRoot

\* Where the slot is: BYTES_IN_SLOT is 4 or 8, and the full-width root takes 8.
WordOf(s) == IF flag THEN (IF s <= WideRoot THEN s ELSE s + 1) ELSE 2 * s

\* The slot as the C++ code reports it: bit 63 set on full-width slots when
\* compressed oops are in use.
Reported(s) == [addr |-> WordOf(s), bit63 |-> flag /\ ~Narrow(s)]

\* OpenJDKSlot::is_compressed: bit 63 is clear.
IsCompressed(sl) == ~sl.bit63

Write32(m, w, v) == [m EXCEPT ![w] = v]
Write64(m, w, v) == [m EXCEPT ![w] = v % Word32, ![w + 1] = v \div Word32]
Read64(m, w) == m[w] + m[w + 1] * Word32

\* OpenJDKSlot::load.
Load(sl) == IF enabled /\ IsCompressed(sl) THEN Decompress(mem[sl.addr])
                                           ELSE Read64(mem, sl.addr)

\* Faulty variant of StoreTo: a full-width store whatever the slot is.
StoreFullWidth(sl, o) == Write64(mem, sl.addr, o)

\* OpenJDKSlot::store and store_null: memory after the store.
StoreTo(sl, o) ==
  IF enabled /\ IsCompressed(sl)
    THEN Write32(mem, sl.addr, IF o = Null THEN 0 ELSE Compress(o))
    ELSE Write64(mem, sl.addr, o)

\* HotSpot's own accesses (external), with the base and shift it was given.
HotSpotLoad(s) ==
  IF Narrow(s) THEN DecompressWith(narrowBase, narrowShift, mem[WordOf(s)])
               ELSE Read64(mem, WordOf(s))
HotSpotStoreTo(s, o) ==
  IF Narrow(s)
    THEN Write32(mem, WordOf(s), IF o = Null THEN 0
                                 ELSE CompressWith(narrowBase, narrowShift, o))
    ELSE Write64(mem, WordOf(s), o)

-------------------------------------------------------------------------------
(***************************************************************************)
(* MMTkHeap::initialize.                                                   *)
(***************************************************************************)
Init ==
  /\ phase = "start" /\ flag \in BOOLEAN /\ enabled = FALSE
  /\ size = 0 /\ heapStart = 0 /\ heapEnd = 0 /\ base = 0 /\ shift = 0
  /\ narrowBase = 0 /\ narrowShift = 0
  /\ mem = [w \in Words |-> 0] /\ ref = [s \in Slots |-> Null]

\* if (UseCompressedOops) mmtk_enable_compressed_oops();
EnableCompressedOops ==
  /\ phase = "start"
  /\ phase' = "options"
  /\ enabled' = flag
  /\ UNCHANGED <<flag, layoutVars, hotspotVars, mem, ref>>

\* Faulty variant of LayoutEnd: the start of the heap is not counted.
LayoutEndFromSize(sz) ==
  IF sz <= 4 * OneG THEN 4 * OneG
  ELSE IF sz <= 32 * OneG THEN 32 * OneG
  ELSE OneG + 32 * OneG

\* set_compressed_pointer_vm_layout: the end of the address range (chunk aligned
\* already).
LayoutEnd(sz) ==
  IF OneG + sz <= 4 * OneG THEN 4 * OneG
  ELSE IF OneG + sz <= 32 * OneG THEN 32 * OneG
  ELSE OneG + 32 * OneG

\* Faulty variant of LayoutBase: null coincides with the first object.
LayoutBaseAtStart(start, end) == IF end <= 32 * OneG THEN 0 ELSE start

\* initialize_compressed_oops_base_and_shift.
LayoutBase(start, end) == IF end <= 32 * OneG THEN 0 ELSE start - Page
LayoutShift(end) == IF end <= 4 * OneG THEN 0 ELSE 3

\* openjdk_gc_init forces one of the two singletons.  The compressed one sets the
\* layout, initialises mmtk-core, then BASE and SHIFT; it panics on a heap of more
\* than 32 GB.  The other one keeps mmtk-core's own layout (external).
OpenjdkGcInit(sz) ==
  /\ phase = "options"
  /\ size' = sz
  /\ \/ /\ enabled /\ sz <= 32 * OneG
        /\ heapStart' = OneG /\ heapEnd' = LayoutEnd(sz)
        /\ base' = LayoutBase(OneG, LayoutEnd(sz)) /\ shift' = LayoutShift(LayoutEnd(sz))
        /\ phase' = "inited"
     \/ /\ enabled /\ sz > 32 * OneG
        /\ phase' = "panic"
        /\ UNCHANGED <<heapStart, heapEnd, base, shift>>
     \/ /\ ~enabled
        /\ heapStart' = 128 * OneG /\ heapEnd' = 128 * OneG + sz
        /\ phase' = "inited"
        /\ UNCHANGED <<base, shift>>
  /\ UNCHANGED <<flag, enabled, hotspotVars, mem, ref>>

\* Faulty variant of SetNarrowOop: only the base is handed to HotSpot.
SetNarrowOopBaseOnly ==
  /\ phase = "inited"
  /\ phase' = "running"
  /\ IF flag THEN narrowBase' = base ELSE UNCHANGED narrowBase
  /\ UNCHANGED <<flag, enabled, layoutVars, narrowShift, mem, ref>>

\* HotSpot takes over base and shift through mmtk_narrow_oop_base and _shift.
SetNarrowOop ==
  /\ phase = "inited"
  /\ phase' = "running"
  /\ IF flag THEN narrowBase' = base /\ narrowShift' = shift
             ELSE UNCHANGED hotspotVars
  /\ UNCHANGED <<flag, enabled, layoutVars, mem, ref>>

-------------------------------------------------------------------------------
(***************************************************************************)
(* Accesses.  Of all objects, the first two and the last are enough.       *)
(***************************************************************************)
SomeObjects == {heapStart, heapStart + Granule, ObjectLimit - Granule} \cap Addresses

Access(s, o, m) ==
  /\ phase = "running"
  /\ mem' = m
  /\ ref' = [ref EXCEPT ![s] = o]
  /\ UNCHANGED <<phase, flag, enabled, layoutVars, hotspotVars>>

HotSpotStore(s, o) == Access(s, o, HotSpotStoreTo(s, o))

\* A slot that C++ code reported is updated from Rust.
Store(s, o) == Access(s, o, StoreTo(Reported(s), o))

\* std::ptr::copy: the ranges may overlap.
CopyWords(from, to, n) ==
  [w \in Words |-> IF w \in to .. to + n - 1 THEN mem[from + (w - to)] ELSE mem[w]]

\* OpenJDKSlotRange::copy of n elements, 4 or 8 bytes each.
Copy(from, to, n) ==
  /\ phase = "running"
  /\ from + n <= NElems /\ to + n <= NElems
  /\ mem' = CopyWords(WordOf(from), WordOf(to), IF enabled THEN n ELSE 2 * n)
  /\ ref' = [s \in Slots |-> IF s \in to .. to + n - 1 THEN ref[from + (s - to)] ELSE ref[s]]
  /\ UNCHANGED <<phase, flag, enabled, layoutVars, hotspotVars>>

Next ==
  \/ EnableCompressedOops \/ SetNarrowOop
  \/ \E sz \in HeapSizes : OpenjdkGcInit(sz)
  \/ \E s \in Slots, o \in SomeObjects \cup {Null} : HotSpotStore(s, o) \/ Store(s, o)
  \/ \E from, to, n \in 0 .. NElems : Copy(from, to, n)

Spec == Init /\ [][Next]_vars

-------------------------------------------------------------------------------
\* Every variable has the type of the field it stands for; memory holds 32-bit words.
TypeOK ==
  /\ phase \in {"start", "options", "inited", "running", "panic"}
  /\ flag \in BOOLEAN /\ enabled \in BOOLEAN
  /\ size \in Nat /\ heapStart \in Nat /\ heapEnd \in Nat
  /\ base \in Nat /\ shift \in {0, 3}
  /\ narrowBase \in Nat /\ narrowShift \in {0, 3}
  /\ \A w \in Words : mem[w] \in 0 .. Word32 - 1
  /\ \A s \in Slots : ref[s] \in Nat

\* Every object of the heap has a compressed form of its own, which is not that of
\* null: compressing and decompressing gives the object back, in all three layouts.
RoundTrip ==
  phase \in {"inited", "running"} /\ enabled =>
    \A o \in Addresses : /\ Compress(o) # 0
                         /\ Decompress(Compress(o)) = o

\* The range of addresses has room for the heap size that was asked for.
HeapFits == phase \in {"inited", "running"} => heapStart + size <= heapEnd

\* Loading any slot from Rust gives the reference last stored in it, by whichever
\* side: widths and tags agree, and no store runs into the neighbouring slot.
RustSeesReferences ==
  phase = "running" => \A s \in Slots : Load(Reported(s)) = ref[s]

\* HotSpot reads the same references back, with the base and shift it was given.
HotSpotSeesReferences ==
  phase = "running" => \A s \in Slots : HotSpotLoad(s) = ref[s]
===============================================================================
