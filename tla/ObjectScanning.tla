---------------------------- MODULE ObjectScanning ----------------------------
(***************************************************************************)
(* How the Rust half reads HotSpot's objects: the class of an object, its  *)
(* reference slots (mmtk/src/object_scanning.rs) and its size              *)
(* (mmtk/src/abi.rs).                                                      *)
(*                                                                         *)
(* External: HotSpot lays out objects and classes, depending on            *)
(* UseCompressedOops (coops) and UseCompressedClassPointers (ccp).  The    *)
(* Rust half knows one switch only, COMPRESSED (c), which stands for both. *)
(* Offsets and sizes are in bytes; an object is the 32-bit cells at those  *)
(* offsets that the Rust half reads.                                       *)
(***************************************************************************)
EXTENDS Integers, Sequences, SequencesExt, FiniteSets

CONSTANTS
  NFields,       \* fields of an instance, each as wide as a reference
  Shapes,        \* the objects
  KlassAddress   \* where their class is

AlignUp(n, a) == ((n + a - 1) \div a) * a
Times(shift) == IF shift = 3 THEN 8 ELSE 1

\* Offsets of n consecutive reference slots of the given width.
SlotsFrom(start, n, width) == [i \in 1 .. n |-> start + (i - 1) * width]

-------------------------------------------------------------------------------
(***************************************************************************)
(* HotSpot (external).  A shape describes an object independently of the   *)
(* widths: refs are the positions of its reference fields among its        *)
(* fields, len the length of an array or the number of static references   *)
(* of a mirror.                                                            *)
(***************************************************************************)
HalfWord == 1024          \* stands for 2^32

OopBytes(coops) == IF coops THEN 4 ELSE 8
HeaderBytes(ccp) == IF ccp THEN 12 ELSE 16
Referent == 0
Discovered == 3

FieldOffset(coops, ccp, i) ==
  AlignUp(HeaderBytes(ccp), OopBytes(coops)) + i * OopBytes(coops)
InstanceBytes(coops, ccp) == AlignUp(FieldOffset(coops, ccp, NFields), 8)
ArrayHeaderBytes(ccp) == AlignUp(HeaderBytes(ccp) + 4, 8)

IsArray(s) == s.id \in {"ObjArray", "TypeArray"}

\* A class has one of the six KlassIDs.  HotSpot takes referent and discovered out of the oop
\* maps of a Reference, gives every Reference class a type, and cannot tell the size of a
\* mirror by its class.
IsShape(s) ==
  /\ s.id \in {"Instance", "InstanceClassLoader", "InstanceMirror", "InstanceRef",
              "ObjArray", "TypeArray"}
  /\ s.refs \in SUBSET (0 .. NFields - 1) /\ s.len \in Nat
  /\ s.vtable \in Nat /\ s.itable \in Nat /\ s.slow \in BOOLEAN
  /\ IsArray(s) => s.refs = {}
  /\ s.id = "TypeArray" => s.log2 \in 0 .. 3
  /\ s.id = "InstanceRef" => /\ s.refs \cap {Referent, Discovered} = {}
                             /\ s.type \in {"Soft", "Weak", "Phantom", "Final", "Other"}
  /\ s.id = "InstanceMirror" => s.slow
  /\ s.len # 0 => IsArray(s) \/ s.id = "InstanceMirror"

ASSUME ShapesAssumption == NFields \in Nat /\ KlassAddress \in Nat /\ \A s \in Shapes : IsShape(s)

Log2Element(coops, s) == IF s.id = "TypeArray" THEN s.log2 ELSE IF coops THEN 2 ELSE 3

ObjectBytes(coops, ccp, s) ==
  IF IsArray(s)
    THEN AlignUp(ArrayHeaderBytes(ccp) + s.len * 2 ^ Log2Element(coops, s), 8)
    ELSE AlignUp(InstanceBytes(coops, ccp) + s.len * OopBytes(coops), 8)

\* The slots that have to be visited.  The referent of a Soft, Weak or Phantom
\* Reference is one of them only if all References are strong.
StrongSlots(coops, ccp, s, no_reference_types) ==
  LET strong == CASE s.id = "InstanceRef" ->
                       s.refs \cup {Discovered}
                         \cup (IF no_reference_types \/ s.type \in {"Final", "Other"}
                                 THEN {Referent} ELSE {})
                  [] OTHER -> s.refs
      fields == {FieldOffset(coops, ccp, i) : i \in strong}
      elements == CASE s.id = "InstanceMirror" ->
                         SlotsFrom(InstanceBytes(coops, ccp), s.len, OopBytes(coops))
                    [] s.id = "ObjArray" ->
                         SlotsFrom(ArrayHeaderBytes(ccp), s.len, OopBytes(coops))
                    [] OTHER -> <<>>
  IN fields \cup Range(elements)

\* Oop maps: one block for each run of reference fields, in some order.
Runs(refs) == {r \in (0 .. NFields - 1) \X (1 .. NFields) :
                 /\ r[1] .. r[1] + r[2] - 1 \subseteq refs
                 /\ r[1] - 1 \notin refs /\ r[1] + r[2] \notin refs}
OopMaps(coops, ccp, refs) ==
  LET blocks == SetToSeq(Runs(refs))
  IN [i \in DOMAIN blocks |-> [offset |-> FieldOffset(coops, ccp, blocks[i][1]),
                               count |-> blocks[i][2]]]

\* The layout helper, an i32: the size of an instance, with the low bit set if it must
\* not be relied on, or tag, header size and element size of an array.  Instances are much
\* smaller than 2^31 bytes.
LayoutHelper(coops, ccp, s) ==
  CASE IsArray(s) -> (IF s.id = "ObjArray" THEN -2 ELSE -1) * 2 ^ 30
                       + ArrayHeaderBytes(ccp) * 2 ^ 16 + 12 * 2 ^ 8
                       + Log2Element(coops, s)
    [] OTHER -> InstanceBytes(coops, ccp) + (IF s.slow THEN 1 ELSE 0)

\* The class: behind the fixed part follow vtable, itable and oop maps, in words.
Class(coops, ccp, s) ==
  LET maps == OopMaps(coops, ccp, s.refs) IN
  [id |-> s.id, layout_helper |-> LayoutHelper(coops, ccp, s), reference_type |-> s.type,
   vtable_len |-> s.vtable, itable_len |-> s.itable, nonstatic_oop_map_size |-> Len(maps),
   tail |-> [i \in 1 .. s.vtable + s.itable |-> "method"] \o maps]

\* The header: the class pointer at 8, as 4 or 8 bytes, then the length of an array.
Cells(ccp, s, narrowKlassBase, narrowKlassShift) ==
  LET len == IF IsArray(s) THEN s.len ELSE 0
      cells == IF ccp
                 THEN <<(KlassAddress - narrowKlassBase) \div Times(narrowKlassShift), len, 0>>
                 ELSE <<KlassAddress % HalfWord, KlassAddress \div HalfWord, len>>
  IN [offset \in {8, 12, 16} |-> cells[(offset - 4) \div 4]]

\* What the upcalls tell about References, mirrors and objects of irregular size.
HotSpotObject(coops, ccp, s, narrowKlassBase, narrowKlassShift) ==
  [cells |-> Cells(ccp, s, narrowKlassBase, narrowKlassShift),
   class |-> Class(coops, ccp, s),
   size |-> ObjectBytes(coops, ccp, s),
   offset_of_static_fields |-> InstanceBytes(coops, ccp),
   static_oop_field_count |-> s.len,
   referent_offset |-> FieldOffset(coops, ccp, Referent),
   discovered_offset |-> FieldOffset(coops, ccp, Discovered)]

-------------------------------------------------------------------------------
(***************************************************************************)
(* OopDesc and ArrayOopDesc.                                               *)
(***************************************************************************)
KlassOffset == 8
BytesInOop(c) == IF c THEN 4 ELSE 8

\* OopDesc::klass: the address of the class.
KlassField(c, o, base, shift) ==
  IF c THEN base + o.cells[KlassOffset] * Times(shift)
       ELSE o.cells[KlassOffset] + o.cells[KlassOffset + 4] * HalfWord

LengthOffset(c) == KlassOffset + (IF c THEN 4 ELSE 8)
Length(c, o) == o.cells[LengthOffset(c)]

\* ArrayOopDesc::header_size in words, for the only element type in use, T_OBJECT.
HeaderSize(c) == AlignUp(LengthOffset(c) + 4, 8) \div 8
Base(c) == HeaderSize(c) * 8

-------------------------------------------------------------------------------
(***************************************************************************)
(* oop_iterate: the offsets of the slots visited, in order.                *)
(***************************************************************************)

\* InstanceKlass::nonstatic_oop_maps: a block takes one word.
NonstaticOopMaps(k) ==
  LET start == k.vtable_len + k.itable_len
  IN SubSeq(k.tail, start + 1, start + k.nonstatic_oop_map_size)

OopMapBlockIterate(c, map) == SlotsFrom(map.offset, map.count, BytesInOop(c))

InstanceIterate(c, k) ==
  LET maps == NonstaticOopMaps(k)
  IN FlattenSeq([i \in DOMAIN maps |-> OopMapBlockIterate(c, maps[i])])

MirrorIterate(c, k, o) ==
  InstanceIterate(c, k)
    \o SlotsFrom(o.offset_of_static_fields, o.static_oop_field_count, BytesInOop(c))

ObjArrayIterate(c, o) == SlotsFrom(Base(c), Length(c, o), BytesInOop(c))

\* Soft, Weak and Phantom References become candidates instead of having their
\* referent visited.  A Reference without a type, which IsShape rules out, is a panic.
RefIterate(c, k, o, no_reference_types) ==
  InstanceIterate(c, k) \o <<o.discovered_offset>>
    \o (IF no_reference_types \/ k.reference_type \in {"Final", "Other"}
          THEN <<o.referent_offset>> ELSE <<>>)

OopIterate(c, o, no_reference_types) ==
  LET k == o.class IN
  CASE k.id \in {"Instance", "InstanceClassLoader"} -> InstanceIterate(c, k)
    [] k.id = "InstanceMirror" -> MirrorIterate(c, k, o)
    [] k.id = "ObjArray" -> ObjArrayIterate(c, o)
    [] k.id = "TypeArray" -> <<>>
    [] k.id = "InstanceRef" -> RefIterate(c, k, o, no_reference_types)

-------------------------------------------------------------------------------
(***************************************************************************)
(* OopDesc::size.                                                          *)
(***************************************************************************)

\* Shifts and masks of the layout helper, on a 32-bit two's complement number.
Log2ElementSize(lh) == lh % 64
LhHeaderSize(lh) == (lh \div 2 ^ 16) % 256
NeedsSlowPath(lh) == lh % 2 = 1

\* Faulty variant of Size: the size of an array is not rounded up.
SizeUnaligned(c, o) ==
  LET lh == o.class.layout_helper IN
  IF lh > 0
    THEN IF NeedsSlowPath(lh) THEN o.size ELSE lh
    ELSE Length(c, o) * 2 ^ Log2ElementSize(lh) + LhHeaderSize(lh)

\* size_slow asks HotSpot (mmtk_get_object_size).
Size(c, o) ==
  LET lh == o.class.layout_helper IN
  CASE lh > 0 /\ ~NeedsSlowPath(lh) -> lh
    [] lh < 0 -> AlignUp(Length(c, o) * 2 ^ Log2ElementSize(lh) + LhHeaderSize(lh), 8)
    [] OTHER -> o.size
===============================================================================
