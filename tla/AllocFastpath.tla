----------------------------- MODULE AllocFastpath -----------------------------
(***************************************************************************)
(* Allocation: the fast paths that the assembler (interpreter and C1) and  *)
(* C2 generate (eden_allocate in mmtkBarrierSetAssembler_x86.cpp,          *)
(* expand_allocate in mmtkBarrierSetC2.cpp) and the slow path              *)
(* (MMTkMutatorContext::alloc in mmtkMutator.cpp).                         *)
(*                                                                         *)
(* A fast path bumps the cursor of the thread's buffer and then sets the   *)
(* valid-object bit of the object, by a load and a store of the byte that  *)
(* holds the bit.  The unit of addresses and sizes is the granule of 8     *)
(* bytes, so that a byte of bits stands for 8 granules.                    *)
(*                                                                         *)
(* External (mmtk-core): buffers, and a collection, which takes all of     *)
(* them back.  A buffer is a whole number of bytes of bits long.           *)
(***************************************************************************)
EXTENDS Integers, FiniteSets

CONSTANTS
  Mutators,    \* Java threads
  Buffers,     \* addresses of buffers that mmtk-core may hand out
  BufferSize,  \* their size
  Sizes,       \* sizes of objects
  MaxNonLos,   \* possible values of max_non_los_default_alloc_bytes
  Tags,        \* possible tags of the default allocator
  Half         \* 2^32; machine words wrap around at its square

Word == Half * Half
PerByte == 8

ASSUME BuffersAssumption ==
  /\ Buffers \subseteq Nat \ {0} /\ BufferSize \in Nat
  /\ BufferSize % PerByte = 0 /\ \A b \in Buffers : b % PerByte = 0
  /\ \A b, c \in Buffers : b < c => b + BufferSize <= c
  /\ \A b \in Buffers : 2 * (b + BufferSize) < Word
ASSUME SizesAssumption ==
  /\ Half \in Nat /\ Half > 2 /\ Half % 2 = 0 /\ Sizes \subseteq 1 .. Word - 1
  /\ MaxNonLos \subseteq (2 .. (Half \div 2) - 1) \cup {Word - 1, Word - 2}

VARIABLES
  tag,       \* tag of the AllocatorSelector of AllocatorDefault
  max,       \* MMTkMutatorContext::max_non_los_default_alloc_bytes
  cursor,    \* per mutator: the cursor of its buffer ...
  limit,     \* ... and the limit
  free,      \* buffers that mmtk-core may hand out
  objects,   \* objects in the default space: address, start (header included), size
  voBits,    \* granules whose valid-object bit is set
  pc,        \* per mutator: where it is
  size,      \* per mutator: the size it is to allocate
  top, end,  \* per mutator: cursor and limit as it has loaded them, then the new object
  byte       \* per mutator: the byte of bits it has loaded

configVars == <<tag, max>>
bufferVars == <<cursor, limit, free>>
localVars == <<size, top, end, byte>>
vars == <<tag, max, cursor, limit, free, objects, voBits, pc, size, top, end, byte>>

\* extra_header: MarkCompact keeps a forwarding pointer in front of an object.
ExtraHeader == IF tag = "MARK_COMPACT" THEN 1 ELSE 0

\* Faulty variant of ByteOf: four bytes are loaded and stored.
FourBytesOf(a) == LET first == a - (a % (4 * PerByte)) IN first .. first + 4 * PerByte - 1

\* The granules whose bits are in the same byte as that of a.
ByteOf(a) == LET first == a - (a % PerByte) IN first .. first + PerByte - 1

SafePC == {"idle", "slow"}

Init ==
  /\ tag \in Tags /\ max \in MaxNonLos
  /\ cursor = [m \in Mutators |-> 0] /\ limit = [m \in Mutators |-> 0]
  /\ free = Buffers /\ objects = {} /\ voBits = {}
  /\ pc = [m \in Mutators |-> "idle"]
  /\ size = [m \in Mutators |-> 0] /\ top = [m \in Mutators |-> 0]
  /\ end = [m \in Mutators |-> 0] /\ byte = [m \in Mutators |-> {}]

-------------------------------------------------------------------------------
(***************************************************************************)
(* The size checks.                                                        *)
(***************************************************************************)
Signed(w) == IF w < Word \div 2 THEN w ELSE w - Word

\* A 64-bit value as the 32-bit immediate operand of an instruction, which the
\* processor sign-extends.
Immediate(w) == LET low == w % Half
                IN  IF low < Half \div 2 THEN low ELSE Word - Half + low

\* Faulty variant of ConstTooLarge: the header is forgotten.
ConstAboveLimit(sz) == sz > max

\* Both fast paths, for a size known when the code is generated.
ConstTooLarge(sz) == sz > max - ExtraHeader

\* eden_allocate compares a size in a register with an immediate operand, unsigned.
AssemblerVarTooLarge(sz) == sz >= Immediate(max - ExtraHeader)

\* expand_allocate compares signed 64-bit integers.
C2VarTooLarge(sz) == Signed(sz) >= Signed(max - ExtraHeader)

\* Allocators without a bump pointer.
NoFastpath == tag \in {"MALLOC", "LARGE_OBJECT", "FREE_LIST"}

Start(m, sz, tooLarge, to) ==
  /\ pc[m] = "idle"
  /\ pc' = [pc EXCEPT ![m] = IF tooLarge \/ NoFastpath THEN "slow" ELSE to]
  /\ size' = [size EXCEPT ![m] = sz]
  /\ UNCHANGED <<configVars, bufferVars, objects, voBits, top, end, byte>>

EdenAllocate(m, sz, const) ==
  Start(m, sz, IF const THEN ConstTooLarge(sz) ELSE AssemblerVarTooLarge(sz), "assembler")

\* C2 has checked the length of an array by then: a size is not negative.
ExpandAllocate(m, sz, const) ==
  /\ Signed(sz) >= 0
  /\ Start(m, sz, IF const THEN ConstTooLarge(sz) ELSE C2VarTooLarge(sz), "c2")

\* Code that never takes a fast path: the runtime, and objects with a finalizer.
AllocateInRuntime(m, sz) == Start(m, sz, TRUE, "slow")

-------------------------------------------------------------------------------
(***************************************************************************)
(* Bumping the pointer.                                                    *)
(***************************************************************************)

\* Cursor and limit are loaded; the object begins behind its header.
LoadTop(m) ==
  /\ pc[m] \in {"assembler", "c2"}
  /\ top' = [top EXCEPT ![m] = cursor[m] + ExtraHeader]
  /\ end' = [end EXCEPT ![m] = limit[m]]
  /\ pc' = [pc EXCEPT ![m] = IF @ = "c2" THEN "c2Bump" ELSE "assemblerBump"]
  /\ UNCHANGED <<configVars, bufferVars, objects, voBits, size, byte>>

NewTop(m) == (top[m] + size[m]) % Word

NewObject(a, sz) == [addr |-> a, start |-> a - ExtraHeader, size |-> sz]

Bump(m, fits) ==
  /\ IF fits
     THEN /\ cursor' = [cursor EXCEPT ![m] = NewTop(m)]
          /\ objects' = objects \cup {NewObject(top[m], size[m])}
          /\ pc' = [pc EXCEPT ![m] = "loadBits"]
     ELSE /\ pc' = [pc EXCEPT ![m] = "slow"]
          /\ UNCHANGED <<cursor, objects>>
  /\ UNCHANGED <<configVars, limit, free, voBits, localVars>>

\* Faulty variant of AssemblerBump: no check that the sum has wrapped around.
AssemblerBumpUnchecked(m) ==
  /\ pc[m] = "assemblerBump"
  /\ Bump(m, NewTop(m) <= end[m])

\* eden_allocate: an object that fills the buffer is allocated here.
AssemblerBump(m) ==
  /\ pc[m] = "assemblerBump"
  /\ Bump(m, NewTop(m) >= top[m] /\ NewTop(m) <= end[m])

\* expand_allocate: an object that fills the buffer goes to the slow path; there is no
\* check that the sum has wrapped around.
C2Bump(m) ==
  /\ pc[m] = "c2Bump"
  /\ Bump(m, NewTop(m) < end[m])

-------------------------------------------------------------------------------
(***************************************************************************)
(* The valid-object bit, in builds that have it and with MarkCompact.      *)
(***************************************************************************)
LoadVoByte(m) ==
  /\ pc[m] = "loadBits"
  /\ byte' = [byte EXCEPT ![m] = voBits \cap ByteOf(top[m])]
  /\ pc' = [pc EXCEPT ![m] = "storeBits"]
  /\ UNCHANGED <<configVars, bufferVars, objects, voBits, size, top, end>>

StoreVoByte(m) ==
  /\ pc[m] = "storeBits"
  /\ voBits' = (voBits \ ByteOf(top[m])) \cup byte[m] \cup {top[m]}
  /\ pc' = [pc EXCEPT ![m] = "idle"]
  /\ byte' = [byte EXCEPT ![m] = {}]
  /\ size' = [size EXCEPT ![m] = 0]
  /\ top' = [top EXCEPT ![m] = 0] /\ end' = [end EXCEPT ![m] = 0]
  /\ UNCHANGED <<configVars, bufferVars, objects>>

-------------------------------------------------------------------------------
(***************************************************************************)
(* The slow path.                                                          *)
(***************************************************************************)
Return(m) ==
  /\ pc[m] = "slow"
  /\ pc' = [pc EXCEPT ![m] = "idle"]
  /\ size' = [size EXCEPT ![m] = 0]
  /\ top' = [top EXCEPT ![m] = 0] /\ end' = [end EXCEPT ![m] = 0]
  /\ UNCHANGED <<configVars, byte>>

\* MMTkMutatorContext::alloc: large objects go to another space.
UseLos(m) == size[m] >= max

AllocLos(m) ==
  /\ UseLos(m) /\ Return(m)
  /\ UNCHANGED <<bufferVars, objects, voBits>>

\* Otherwise mmtk-core bumps the cursor of the given buffer, and the post-allocation
\* hook sets the bit.
AllocDefault(m, from, to) ==
  /\ ~UseLos(m) /\ Return(m)
  /\ from + ExtraHeader + size[m] <= to
  /\ cursor' = [cursor EXCEPT ![m] = from + ExtraHeader + size[m]]
  /\ limit' = [limit EXCEPT ![m] = to]
  /\ objects' = objects \cup {NewObject(from + ExtraHeader, size[m])}
  /\ voBits' = voBits \cup {from + ExtraHeader}

\* The buffer the thread has, or a new one if it has no room.
AllocInBuffer(m) == AllocDefault(m, cursor[m], limit[m]) /\ UNCHANGED free

AllocInNewBuffer(m, b) ==
  /\ b \in free /\ cursor[m] + ExtraHeader + size[m] > limit[m]
  /\ AllocDefault(m, b, b + BufferSize)
  /\ free' = free \ {b}

\* Faulty variant of OutOfMemory: the hook is called all the same.
HookOnNull(m) ==
  /\ Return(m)
  /\ voBits' = voBits \cup {0}
  /\ UNCHANGED <<bufferVars, objects>>

\* mmtk-core returns null: no hook is called.
OutOfMemory(m) ==
  /\ Return(m)
  /\ UNCHANGED <<bufferVars, objects, voBits>>

\* A collection (external): every thread loses its buffer, some objects survive in
\* place, and buffers without survivors are free again.
Collect ==
  /\ \A m \in Mutators : pc[m] \in SafePC
  /\ \E kept \in SUBSET objects :
       /\ objects' = kept
       /\ voBits' = {o.addr : o \in kept}
       /\ free' = {b \in Buffers : \A o \in kept : o.addr < b \/ o.addr >= b + BufferSize}
  /\ cursor' = [m \in Mutators |-> 0] /\ limit' = [m \in Mutators |-> 0]
  /\ UNCHANGED <<configVars, pc, localVars>>

-------------------------------------------------------------------------------
MutatorStep(m) ==
  \/ \E sz \in Sizes :
       \/ AllocateInRuntime(m, sz)
       \/ \E const \in BOOLEAN : EdenAllocate(m, sz, const) \/ ExpandAllocate(m, sz, const)
  \/ LoadTop(m) \/ AssemblerBump(m) \/ C2Bump(m)
  \/ LoadVoByte(m) \/ StoreVoByte(m)
  \/ AllocLos(m) \/ AllocInBuffer(m) \/ OutOfMemory(m)
  \/ \E b \in Buffers : AllocInNewBuffer(m, b)

Next == Collect \/ \E m \in Mutators : MutatorStep(m)

Spec == Init /\ [][Next]_vars

-------------------------------------------------------------------------------
InHeap(o) == \E b \in Buffers : b <= o.start /\ o.addr + o.size <= b + BufferSize

\* Every variable has the type of the register, field or metadata it stands for.
TypeOK ==
  /\ tag \in Tags /\ max \in MaxNonLos
  /\ cursor \in [Mutators -> 0 .. Word - 1] /\ limit \in [Mutators -> 0 .. Word - 1]
  /\ free \subseteq Buffers
  /\ \A o \in objects : o = NewObject(o.addr, o.size) /\ o.size \in Sizes
  /\ voBits \subseteq 1 .. Word - 1
  /\ pc \in [Mutators -> {"idle", "assembler", "c2", "assemblerBump", "c2Bump", "loadBits",
                          "storeBits", "slow"}]
  /\ size \in [Mutators -> Sizes \cup {0}]
  /\ top \in [Mutators -> 0 .. Word - 1] /\ end \in [Mutators -> 0 .. Word - 1]
  /\ byte \in [Mutators -> SUBSET (1 .. Word - 1)]

\* Objects lie inside buffers, and no two of them, nor their headers, overlap: whichever
\* thread allocated them, on whichever path, whatever their size.
ObjectsDisjoint ==
  /\ \A o \in objects : InHeap(o)
  /\ \A o, p \in objects :
       o = p \/ o.addr + o.size <= p.start \/ p.addr + p.size <= o.start

\* What remains of a buffer is free, and belongs to one thread only.
BuffersExclusive ==
  \A m \in Mutators : cursor[m] < limit[m] =>
    /\ \A o \in objects : o.addr + o.size <= cursor[m] \/ limit[m] <= o.start
    /\ \A n \in Mutators \ {m} : limit[n] <= cursor[m] \/ limit[m] <= cursor[n]
                                 \/ cursor[n] = limit[n]

\* Memory has one owner: fast and slow paths of all threads give out every granule once.
MemoryHasOneOwner == ObjectsDisjoint /\ BuffersExclusive

\* At every safepoint the bits that are set are those of the objects: no bit is lost to
\* another thread that stores to the same byte.
VoBitsExact ==
  (\A m \in Mutators : pc[m] \in SafePC) => voBits = {o.addr : o \in objects}

\* No object in the default space is, with its header, larger than its allocator allows,
\* whichever of the four comparisons let it in.
LargeObjectsInLos == \A o \in objects : o.size + ExtraHeader <= max
===============================================================================
