-------------------------- MODULE AllocFastpathProofs --------------------------
(***************************************************************************)
(* Proofs about AllocFastpath for any number of threads, any buffers and   *)
(* any sizes, with machine words of any width.                             *)
(***************************************************************************)
EXTENDS AllocFastpath, TLAPS

Ends(o) == o.addr + o.size
Within(o, b) == b <= o.start /\ Ends(o) <= b + BufferSize

\* A thread has no buffer at all, or one that is not free and that no other thread has.
BufferInv ==
  /\ \A m \in Mutators :
       \/ cursor[m] = 0 /\ limit[m] = 0
       \/ \E b \in Buffers \ free :
            b <= cursor[m] /\ cursor[m] <= limit[m] /\ limit[m] = b + BufferSize
  /\ \A m, n \in Mutators : m # n /\ limit[m] = limit[n] => limit[m] = 0

\* Objects lie in buffers that are not free, below the cursor of the thread that has the
\* buffer, and do not overlap.
ObjectInv ==
  /\ \A o \in objects : o.addr \in Nat
  /\ \A o \in objects : \E b \in Buffers \ free :
       /\ Within(o, b)
       /\ \A m \in Mutators : limit[m] = b + BufferSize => Ends(o) <= cursor[m]
  /\ \A o, p \in objects : o = p \/ Ends(o) <= p.start \/ Ends(p) <= o.start

\* What each place in the generated code relies on: the size has passed its check, the
\* registers still hold cursor and limit, and the bit to be set is that of an object in
\* the thread's own buffer.
BumpPC == {"assemblerBump", "c2Bump"}
FastPC == {"assembler", "c2"} \cup BumpPC
BitPC == {"loadBits", "storeBits"}
LocalInv ==
  \A m \in Mutators :
    /\ pc[m] # "idle" => size[m] \in Sizes
    /\ pc[m] \in FastPC => size[m] + ExtraHeader <= max
    /\ pc[m] \in {"c2", "c2Bump"} => 2 * size[m] + 2 <= Word
    /\ pc[m] \in BumpPC => top[m] = cursor[m] + ExtraHeader /\ end[m] = limit[m]
    /\ pc[m] \in BitPC => /\ \E b \in Buffers : /\ limit[m] = b + BufferSize
                                                /\ b <= top[m] /\ top[m] < limit[m]
                          /\ \E o \in objects : o.addr = top[m]

\* The bits that are set are those of the objects, but for the bits that threads are
\* about to set; a byte that a thread has loaded is still up to date.
Pending == {top[m] : m \in {n \in Mutators : pc[n] \in BitPC}}
BitInv ==
  /\ voBits = {o.addr : o \in objects} \ Pending
  /\ \A m \in Mutators : pc[m] = "storeBits" => byte[m] = voBits \cap ByteOf(top[m])

AllocInv == TypeOK /\ BufferInv /\ ObjectInv /\ LocalInv /\ BitInv /\ LargeObjectsInLos

-------------------------------------------------------------------------------
(***************************************************************************)
(* Arithmetic.                                                             *)
(***************************************************************************)

\* A machine word has twice as many bits as its half.
LEMMA WordFacts == /\ Word \in Nat /\ Half \in Nat /\ Half >= 4 /\ Half <= Word
                   /\ Half \div 2 \in Nat /\ 2 * (Half \div 2) = Half
<1>1. Half \in Nat /\ Half >= 4
  BY SizesAssumption
<1>2. Half * Half \in Nat /\ Half <= Half * Half
  BY <1>1
<1>3. Half \div 2 \in Nat /\ 2 * (Half \div 2) = Half
  BY <1>1, SizesAssumption
<1>4. QED
  BY <1>1, <1>2, <1>3 DEF Word

\* A word that is small enough does not wrap around.
LEMMA NoWrap == ASSUME NEW w \in Nat, NEW r \in Nat, r < w PROVE r % w = r
  OBVIOUS

\* The header takes a granule or none.
LEMMA HeaderFacts == ExtraHeader \in {0, 1}
  BY DEF ExtraHeader

\* No object is empty.
LEMMA SizeFacts == \A sz \in Sizes : sz \in Nat /\ sz > 0 /\ sz < Word
  BY SizesAssumption, WordFacts

\* Buffers lie in the lower half of the address space, and do not overlap.
LEMMA BufferFacts ==
  /\ BufferSize \in Nat /\ \A b \in Buffers : b \in Nat /\ b > 0 /\ 2 * (b + BufferSize) < Word
  /\ \A b, c \in Buffers : b = c \/ b + BufferSize <= c \/ c + BufferSize <= b
<1>1. \A b, c \in Buffers : b \in Nat /\ c \in Nat /\ (b < c => b + BufferSize <= c)
                            /\ (c < b => c + BufferSize <= b)
  BY BuffersAssumption
<1>2. QED
  BY <1>1, BuffersAssumption

\* The byte of bits of an address in a buffer has no bit of an address outside of it.
LEMMA BytesInBuffer ==
  ASSUME NEW b \in Buffers, NEW a \in Nat, b <= a, a < b + BufferSize
  PROVE  \A x \in ByteOf(a) : b <= x /\ x < b + BufferSize
<1>1. b \in Nat /\ BufferSize \in Nat /\ b % 8 = 0 /\ BufferSize % 8 = 0
  BY BuffersAssumption DEF PerByte
<1>2. PICK i \in Nat, j \in Nat : b = 8 * i /\ BufferSize = 8 * j
  <2>1. b = 8 * (b \div 8) /\ BufferSize = 8 * (BufferSize \div 8)
    BY <1>1
  <2>2. b \div 8 \in Nat /\ BufferSize \div 8 \in Nat
    BY <1>1
  <2>3. QED
    BY <2>1, <2>2
<1>3. PICK k \in Nat : a - (a % 8) = 8 * k /\ 8 * k <= a /\ a <= 8 * k + 7
  <2>1. a - (a % 8) = 8 * (a \div 8) /\ a \div 8 \in Nat /\ a % 8 \in 0 .. 7
    OBVIOUS
  <2>2. QED
    BY <2>1
<1>4. i <= k /\ k < i + j
  BY <1>2, <1>3
<1>5. \A x \in ByteOf(a) : x \in Int /\ 8 * k <= x /\ x <= 8 * k + 7
  BY <1>3 DEF ByteOf, PerByte
<1>6. QED
  BY <1>2, <1>4, <1>5

\* The low half of a word whose high half is all ones.
LEMMA LowHalf == ASSUME NEW low \in 0 .. Half - 1 PROVE ((Word - Half) + low) % Half = low
<1>1. Half \in Nat /\ Half >= 4
  BY WordFacts
<1>2. (Word - Half) + low = (Half - 1) * Half + low
  BY <1>1 DEF Word
<1>3. \A q \in Nat : (q * Half + low) % Half = low
  BY <1>1
<1> QED BY <1>1, <1>2, <1>3

\* Each of the size checks of a fast path refuses what the default space cannot hold.
LEMMA SizeChecks ==
  ASSUME NEW sz \in Sizes, max \in MaxNonLos
  PROVE  /\ ~ConstTooLarge(sz) => sz + ExtraHeader <= max
         /\ ~AssemblerVarTooLarge(sz) => sz + ExtraHeader <= max
         /\ Signed(sz) >= 0 => 2 * sz + 2 <= Word
         /\ Signed(sz) >= 0 /\ ~C2VarTooLarge(sz) => sz + ExtraHeader <= max
<1> DEFINE w == max - ExtraHeader
<1>1. /\ sz \in Nat /\ sz >= 1 /\ sz < Word /\ Word \in Nat /\ Half \in Nat
      /\ Half >= 4 /\ Half <= Word /\ Half \div 2 \in Nat /\ 2 * (Half \div 2) = Half
  BY WordFacts, SizesAssumption
<1>2. \/ max \in Nat /\ 2 <= max /\ max < Half \div 2
      \/ max \in Int /\ (max = Word - 1 \/ max = Word - 2)
  BY <1>1, SizesAssumption
<1>3. w \in Int /\ max \in Int /\ ExtraHeader \in {0, 1} /\ max = w + ExtraHeader
  BY <1>2, HeaderFacts
<1>4. Word \div 2 \in Nat /\ 2 * (Word \div 2) <= Word /\ Word <= 2 * (Word \div 2) + 1
  BY <1>1
<1>5. ~ConstTooLarge(sz) => sz + ExtraHeader <= max
  BY <1>1, <1>3 DEF ConstTooLarge
<1>6. Signed(sz) >= 0 => 2 * sz + 2 <= Word
  BY <1>1, <1>4 DEF Signed
<1>7. ~AssemblerVarTooLarge(sz) => sz + ExtraHeader <= max
  <2>1. ~AssemblerVarTooLarge(sz) <=> ~(sz >= Immediate(w))
    BY DEF AssemblerVarTooLarge
  <2>2. CASE 2 <= max /\ max < Half \div 2
    <3>1. w \in Nat /\ w < Half \div 2 /\ w < Half
      BY <1>1, <1>2, <1>3, <2>2
    <3>2. w % Half = w
      BY <1>1, <3>1
    <3>3. Immediate(w) = w
      BY <3>1, <3>2 DEF Immediate
    <3>4. QED
      BY <1>1, <1>3, <2>1, <3>3
  <2>3. CASE max = Word - 1 \/ max = Word - 2
    <3>1. PICK low \in 1 .. Half - 1 : w = (Word - Half) + low
      <4>1. (w - Word) + Half \in 1 .. Half - 1
        BY <1>1, <1>3, <2>3
      <4> QED BY <1>1, <1>3, <4>1
    <3>2. w % Half = low
      BY <1>1, <3>1, LowHalf
    <3>3. Immediate(w) \in Int /\ Immediate(w) <= w
      BY <1>1, <3>1, <3>2 DEF Immediate
    <3>4. QED
      BY <1>1, <1>3, <2>1, <3>3
  <2>4. QED
    BY <1>2, <2>2, <2>3
<1>8. Signed(sz) >= 0 /\ ~C2VarTooLarge(sz) => sz + ExtraHeader <= max
  <2>1. Signed(sz) >= 0 => Signed(sz) = sz
    BY <1>1, <1>4 DEF Signed
  <2>2. Signed(w) \in Int /\ (Signed(w) = w \/ Signed(w) = w - Word)
    BY <1>1, <1>3 DEF Signed
  <2>3. Signed(w) <= w
    BY <1>1, <1>3, <2>2
  <2>4. QED
    BY <1>1, <1>3, <2>1, <2>2, <2>3 DEF C2VarTooLarge
<1>9. QED
  BY <1>5, <1>6, <1>7, <1>8

-------------------------------------------------------------------------------
(***************************************************************************)
(* Placing an object: what the fast paths and the slow path share.         *)
(***************************************************************************)

\* The fields of an object are numbers.
LEMMA ObjectTypes ==
  ASSUME AllocInv, NEW o \in objects
  PROVE  o.addr \in Nat /\ o.size \in Nat /\ o.size > 0 /\ o.start \in Int /\ o.start <= o.addr
<1>1. o = NewObject(o.addr, o.size) /\ o.size \in Sizes /\ o.addr \in Nat
  BY DEF AllocInv, TypeOK, ObjectInv
<1>2. o.start = o.addr - ExtraHeader
  BY <1>1 DEF NewObject
<1>3. o.size \in Nat /\ o.size > 0
  BY <1>1, SizeFacts
<1>4. QED
  BY <1>1, <1>2, <1>3, HeaderFacts

\* The buffer b has room for sz granules behind "from": it is the rest of the thread's own
\* buffer, or a free one.
HasRoom(m, b, from, sz) ==
  /\ from + ExtraHeader + sz <= b + BufferSize
  /\ \/ b \notin free /\ from = cursor[m] /\ limit[m] = b + BufferSize
     \/ b \in free /\ from = b

Place(m, b, from, sz) ==
  /\ cursor' = [cursor EXCEPT ![m] = from + ExtraHeader + sz]
  /\ limit' = [limit EXCEPT ![m] = b + BufferSize]
  /\ free' = free \ {b}
  /\ objects' = objects \cup {NewObject(from + ExtraHeader, sz)}
  /\ tag' = tag

\* The room is not used by any object, and no other thread has the buffer.
LEMMA RoomIsFree ==
  ASSUME AllocInv, NEW m \in Mutators, NEW b \in Buffers, NEW from \in Nat, NEW sz \in Nat,
         sz > 0, HasRoom(m, b, from, sz)
  PROVE  /\ b <= from /\ from + ExtraHeader < b + BufferSize
         /\ \A o \in objects : Ends(o) <= from \/ b + BufferSize <= o.start
         /\ \A n \in Mutators \ {m} : limit[n] # b + BufferSize
<1> USE DEF AllocInv
<1>1. b \in Nat /\ b > 0 /\ BufferSize \in Nat
  BY BufferFacts
<1>2. cursor \in [Mutators -> Nat] /\ limit \in [Mutators -> Nat]
  BY WordFacts DEF TypeOK
<1>3. b <= from /\ from + ExtraHeader < b + BufferSize
  <2>1. from + ExtraHeader < b + BufferSize
    BY <1>1, HeaderFacts DEF HasRoom
  <2>2. CASE b \in free
    BY <1>1, <2>1, <2>2 DEF HasRoom
  <2>3. CASE b \notin free
    <3>1. from = cursor[m] /\ limit[m] = b + BufferSize
      BY <2>3 DEF HasRoom
    <3>2. PICK c \in Buffers : c <= cursor[m] /\ limit[m] = c + BufferSize
      BY <1>1, <3>1 DEF BufferInv
    <3>3. c = b
      BY <1>1, <3>1, <3>2, BufferFacts
    <3>4. QED
      BY <2>1, <3>1, <3>2, <3>3
  <2>4. QED
    BY <2>2, <2>3
<1>4. ASSUME NEW o \in objects PROVE Ends(o) <= from \/ b + BufferSize <= o.start
  <2>1. PICK c \in Buffers \ free :
          /\ Within(o, c)
          /\ \A n \in Mutators : limit[n] = c + BufferSize => Ends(o) <= cursor[n]
    BY <1>4 DEF ObjectInv
  <2>2. Ends(o) \in Nat /\ o.start \in Int /\ c \in Nat
    BY <1>4, <2>1, ObjectTypes, BufferFacts DEF Ends
  <2>3. CASE c = b
    BY <2>1, <2>3 DEF HasRoom
  <2>4. CASE c # b
    <3>1. c + BufferSize <= b \/ b + BufferSize <= c
      BY <2>1, <2>4, BufferFacts
    <3>2. QED
      BY <1>1, <1>3, <2>1, <2>2, <3>1 DEF Within
  <2>5. QED
    BY <2>3, <2>4
<1>5. ASSUME NEW n \in Mutators \ {m} PROVE limit[n] # b + BufferSize
  <2> SUFFICES ASSUME limit[n] = b + BufferSize PROVE FALSE
    OBVIOUS
  <2>1. CASE b \in free
    <3>1. PICK c \in Buffers \ free : limit[n] = c + BufferSize
      BY <1>1 DEF BufferInv
    <3>2. c = b
      BY <1>1, <3>1, BufferFacts
    <3>3. QED
      BY <2>1, <3>1, <3>2
  <2>2. CASE b \notin free
    BY <1>1, <2>2 DEF HasRoom, BufferInv
  <2>3. QED
    BY <2>1, <2>2
<1>6. QED
  BY <1>3, <1>4, <1>5

\* Placing an object there keeps buffers exclusive and objects disjoint, and the address of
\* the object is new.
LEMMA PlacePreserves ==
  ASSUME AllocInv, NEW m \in Mutators, NEW b \in Buffers, NEW from \in Nat, NEW sz \in Sizes,
         HasRoom(m, b, from, sz), Place(m, b, from, sz)
  PROVE  /\ BufferInv' /\ ObjectInv'
         /\ cursor' \in [Mutators -> 0 .. Word - 1] /\ limit' \in [Mutators -> 0 .. Word - 1]
         /\ free' \subseteq Buffers
         /\ \A o \in objects' : o = NewObject(o.addr, o.size)' /\ o.size \in Sizes
         /\ \A o \in objects : o.addr # from + ExtraHeader
         /\ {o.addr : o \in objects'} = {o.addr : o \in objects} \cup {from + ExtraHeader}
         /\ b <= from + ExtraHeader /\ from + ExtraHeader < b + BufferSize
<1> USE DEF AllocInv
<1> DEFINE new == NewObject(from + ExtraHeader, sz)
<1>1. /\ b \in Nat /\ b > 0 /\ BufferSize \in Nat /\ 2 * (b + BufferSize) < Word
      /\ sz \in Nat /\ sz > 0 /\ ExtraHeader \in Nat /\ Word \in Nat
  BY BufferFacts, SizesAssumption, WordFacts, HeaderFacts
<1>2. /\ b <= from /\ from + ExtraHeader < b + BufferSize
      /\ \A o \in objects : Ends(o) <= from \/ b + BufferSize <= o.start
      /\ \A n \in Mutators \ {m} : limit[n] # b + BufferSize
  BY <1>1, RoomIsFree
<1>3. /\ new.addr = from + ExtraHeader /\ new.size = sz /\ new.start = from
      /\ Ends(new) = from + ExtraHeader + sz /\ Ends(new) <= b + BufferSize
  BY <1>1 DEF NewObject, Ends, HasRoom
<1>4. /\ cursor \in [Mutators -> 0 .. Word - 1] /\ limit \in [Mutators -> 0 .. Word - 1]
      /\ free \subseteq Buffers
  BY DEF TypeOK
<1>5. /\ cursor'[m] = from + ExtraHeader + sz /\ limit'[m] = b + BufferSize
      /\ \A n \in Mutators \ {m} : cursor'[n] = cursor[n] /\ limit'[n] = limit[n]
      /\ objects' = objects \cup {new} /\ free' = free \ {b} /\ ExtraHeader' = ExtraHeader
  BY <1>4 DEF Place, ExtraHeader
<1>6. /\ cursor' \in [Mutators -> 0 .. Word - 1] /\ limit' \in [Mutators -> 0 .. Word - 1]
      /\ free' \subseteq Buffers
  <2>1. from + ExtraHeader + sz \in 0 .. Word - 1 /\ b + BufferSize \in 0 .. Word - 1
    BY <1>1, <1>3
  <2>2. QED
    BY <1>4, <2>1 DEF Place
<1>7. BufferInv'
  <2>1. ASSUME NEW n \in Mutators
        PROVE  \/ cursor'[n] = 0 /\ limit'[n] = 0
               \/ \E c \in Buffers \ free' :
                    c <= cursor'[n] /\ cursor'[n] <= limit'[n] /\ limit'[n] = c + BufferSize
    <3>1. CASE n = m
      BY <1>1, <1>2, <1>3, <1>5, <3>1
    <3>2. CASE n # m
      BY <1>5, <2>1, <3>2 DEF BufferInv
    <3>3. QED
      BY <3>1, <3>2
  <2>2. ASSUME NEW n \in Mutators, NEW k \in Mutators, n # k, limit'[n] = limit'[k]
        PROVE  limit'[n] = 0
    BY <1>2, <1>5, <2>2 DEF BufferInv
  <2>3. QED
    BY <2>1, <2>2 DEF BufferInv
<1>8. \A o \in objects : o.addr # from + ExtraHeader
  <2> SUFFICES ASSUME NEW o \in objects, o.addr = from + ExtraHeader PROVE FALSE
    OBVIOUS
  <2>1. Ends(o) > from + ExtraHeader /\ o.start <= from + ExtraHeader /\ Ends(o) \in Nat
        /\ o.start \in Int
    BY <1>1, ObjectTypes DEF Ends
  <2>2. QED
    BY <1>1, <1>2, <2>1
<1>9. ObjectInv'
  <2>1. ASSUME NEW o \in objects' PROVE o.addr \in Nat
    BY <1>1, <1>3, <1>5, <2>1 DEF ObjectInv
  <2>2. ASSUME NEW o \in objects'
        PROVE  \E c \in Buffers \ free' :
                 /\ Within(o, c)
                 /\ \A n \in Mutators : limit'[n] = c + BufferSize => Ends(o) <= cursor'[n]
    <3>1. CASE o = new
      <4>1. Within(new, b)
        BY <1>2, <1>3 DEF Within
      <4>2. ASSUME NEW n \in Mutators, limit'[n] = b + BufferSize PROVE Ends(new) <= cursor'[n]
        BY <1>1, <1>2, <1>3, <1>5, <4>2
      <4>3. QED
        BY <1>5, <3>1, <4>1, <4>2
    <3>2. CASE o \in objects
      <4>1. PICK c \in Buffers \ free :
              /\ Within(o, c)
              /\ \A n \in Mutators : limit[n] = c + BufferSize => Ends(o) <= cursor[n]
        BY <3>2 DEF ObjectInv
      <4>2. c \in Nat /\ Ends(o) \in Nat /\ o.start \in Int /\ o.start < Ends(o)
        BY <3>2, <4>1, ObjectTypes, BufferFacts DEF Ends
      <4>3. c = b => Ends(o) <= from
        BY <1>1, <1>2, <3>2, <4>1, <4>2 DEF Within
      <4>4. ASSUME NEW n \in Mutators, limit'[n] = c + BufferSize PROVE Ends(o) <= cursor'[n]
        <5>1. CASE n = m
          <6>1. c = b
            BY <1>1, <1>5, <4>2, <4>4, <5>1
          <6>2. QED
            BY <1>1, <1>5, <4>2, <4>3, <5>1, <6>1
        <5>2. CASE n # m
          BY <1>5, <4>1, <4>4, <5>2
        <5>3. QED
          BY <5>1, <5>2
      <4>5. QED
        BY <1>5, <4>1, <4>4
    <3>3. QED
      BY <1>5, <2>2, <3>1, <3>2
  <2>3. ASSUME NEW o \in objects', NEW p \in objects'
        PROVE  o = p \/ Ends(o) <= p.start \/ Ends(p) <= o.start
    <3>1. ASSUME NEW q \in objects PROVE Ends(q) <= new.start \/ Ends(new) <= q.start
      <4>1. q.start \in Int
        BY <3>1, ObjectTypes
      <4>2. QED
        BY <1>1, <1>2, <1>3, <3>1, <4>1
    <3>2. QED
      BY <1>5, <2>3, <3>1 DEF ObjectInv
  <2>4. QED
    BY <2>1, <2>2, <2>3 DEF ObjectInv, Within, Ends
<1>10. \A o \in objects' : o = NewObject(o.addr, o.size)' /\ o.size \in Sizes
  BY <1>3, <1>5 DEF TypeOK, NewObject
<1>11. {o.addr : o \in objects'} = {o.addr : o \in objects} \cup {from + ExtraHeader}
  BY <1>3, <1>5
<1>12. b <= from + ExtraHeader /\ from + ExtraHeader < b + BufferSize
  BY <1>1, <1>2
<1>13. QED
  BY <1>6, <1>7, <1>8, <1>9, <1>10, <1>11, <1>12

-------------------------------------------------------------------------------
(***************************************************************************)
(* The steps.                                                              *)
(***************************************************************************)
USE DEF AllocInv

\* A bit that a thread sets is not in the byte that another thread has loaded.
LEMMA BytesApart ==
  ASSUME AllocInv, NEW n \in Mutators, pc[n] \in BitPC,
         NEW b \in Buffers, NEW a \in Nat, b <= a, a < b + BufferSize,
         limit[n] # b + BufferSize
  PROVE  a \notin ByteOf(top[n]) /\ a # top[n]
<1>1. PICK c \in Buffers : limit[n] = c + BufferSize /\ c <= top[n] /\ top[n] < c + BufferSize
  BY DEF LocalInv
<1>2. top[n] \in Nat /\ b \in Nat /\ c \in Nat /\ BufferSize \in Nat
  BY WordFacts, BufferFacts DEF TypeOK
<1>3. b + BufferSize <= c \/ c + BufferSize <= b
  BY <1>1, BufferFacts
<1>4. \A x \in ByteOf(top[n]) : c <= x /\ x < c + BufferSize
  BY <1>1, <1>2, BytesInBuffer
<1>5. a # top[n]
  BY <1>1, <1>2, <1>3
<1>6. QED
  BY <1>2, <1>3, <1>4, <1>5

\* Nothing is allocated at first.
LEMMA InitAlloc == Init => AllocInv
<1> SUFFICES ASSUME Init PROVE AllocInv
  OBVIOUS
<1>1. TypeOK
  BY WordFacts DEF Init, TypeOK
<1>2. BufferInv /\ ObjectInv /\ LargeObjectsInLos
  BY DEF Init, BufferInv, ObjectInv, LargeObjectsInLos
<1>3. LocalInv
  BY DEF Init, LocalInv, FastPC, BumpPC, BitPC
<1>4. BitInv
  BY DEF Init, BitInv
<1>5. QED
  BY <1>1, <1>2, <1>3, <1>4

\* A fast path is entered only with a size that has passed its check.
LEMMA StartPreserves ==
  ASSUME AllocInv, NEW m \in Mutators, NEW sz \in Sizes, NEW tooLarge \in BOOLEAN,
         NEW to \in {"assembler", "c2", "slow"}, Start(m, sz, tooLarge, to),
         ~tooLarge => to # "slow" /\ sz + ExtraHeader <= max /\ (to = "c2" => 2 * sz + 2 <= Word)
  PROVE  AllocInv'
<1>1. /\ UNCHANGED <<tag, max, cursor, limit, free, objects, voBits, top, end, byte>>
      /\ ExtraHeader' = ExtraHeader
      /\ pc[m] = "idle" /\ size' = [size EXCEPT ![m] = sz]
      /\ \/ pc' = [pc EXCEPT ![m] = "slow"]
         \/ pc' = [pc EXCEPT ![m] = to] /\ ~tooLarge
  BY DEF Start, configVars, bufferVars, ExtraHeader
<1>2. TypeOK'
  BY <1>1 DEF TypeOK, NewObject
<1>3. BufferInv' /\ ObjectInv' /\ LargeObjectsInLos'
  BY <1>1 DEF BufferInv, ObjectInv, LargeObjectsInLos
<1>4. \A n \in Mutators : n # m => pc'[n] = pc[n] /\ size'[n] = size[n]
  BY <1>1 DEF TypeOK
<1>5. /\ size'[m] = sz /\ pc'[m] \notin BitPC /\ pc'[m] \notin BumpPC
      /\ pc'[m] # "slow" => pc'[m] = to /\ ~tooLarge
  BY <1>1 DEF TypeOK, BitPC, BumpPC
<1>6. LocalInv'
  BY <1>1, <1>4, <1>5 DEF LocalInv, FastPC, BumpPC, BitPC
<1>7. BitInv'
  BY <1>1, <1>4, <1>5 DEF BitInv, Pending, BitPC
<1>8. QED
  BY <1>2, <1>3, <1>6, <1>7

\* Cursor and limit are loaded.
LEMMA LoadTopPreserves ==
  ASSUME AllocInv, NEW m \in Mutators, LoadTop(m)
  PROVE  AllocInv'
<1>1. /\ UNCHANGED <<tag, max, cursor, limit, free, objects, voBits, size, byte>>
      /\ ExtraHeader' = ExtraHeader
      /\ top' = [top EXCEPT ![m] = cursor[m] + ExtraHeader] /\ end' = [end EXCEPT ![m] = limit[m]]
      /\ \/ pc[m] = "assembler" /\ pc' = [pc EXCEPT ![m] = "assemblerBump"]
         \/ pc[m] = "c2" /\ pc' = [pc EXCEPT ![m] = "c2Bump"]
  BY DEF LoadTop, configVars, bufferVars, ExtraHeader
<1>2. cursor[m] + ExtraHeader \in 0 .. Word - 1
  <2>1. cursor[m] \in Nat /\ Word \in Nat /\ Word >= 2 /\ ExtraHeader \in {0, 1}
    BY WordFacts, HeaderFacts DEF TypeOK
  <2>2. 2 * cursor[m] < Word
    BY <2>1, BufferFacts DEF BufferInv
  <2>3. QED
    BY <2>1, <2>2
<1>3. TypeOK'
  BY <1>1, <1>2 DEF TypeOK, NewObject
<1>4. BufferInv' /\ ObjectInv' /\ LargeObjectsInLos'
  BY <1>1 DEF BufferInv, ObjectInv, LargeObjectsInLos
<1>5. \A n \in Mutators : n # m => pc'[n] = pc[n] /\ top'[n] = top[n] /\ end'[n] = end[n]
  BY <1>1 DEF TypeOK
<1>6. top'[m] = cursor[m] + ExtraHeader /\ end'[m] = limit[m]
  BY <1>1 DEF TypeOK
<1>7. LocalInv'
  BY <1>1, <1>5, <1>6 DEF LocalInv, FastPC, BumpPC, BitPC, TypeOK
<1>8. BitInv'
  <2>1. Pending' = Pending
    BY <1>1, <1>5 DEF Pending, BitPC, TypeOK
  <2>2. QED
    BY <1>1, <1>5, <2>1 DEF BitInv, TypeOK
<1>9. QED
  BY <1>3, <1>4, <1>7, <1>8

\* The pointer is bumped: the object fits into the rest of the buffer.
LEMMA BumpPreserves ==
  ASSUME AllocInv, NEW m \in Mutators, pc[m] \in BumpPC, NEW fits \in BOOLEAN, Bump(m, fits),
         fits => NewTop(m) = top[m] + size[m] /\ NewTop(m) <= end[m]
  PROVE  AllocInv'
<1>1. /\ UNCHANGED <<tag, max, limit, free, voBits, size, top, end, byte>>
      /\ ExtraHeader' = ExtraHeader
  BY DEF Bump, configVars, localVars, ExtraHeader
<1>2. /\ size[m] \in Sizes /\ size[m] + ExtraHeader <= max /\ top[m] = cursor[m] + ExtraHeader
      /\ end[m] = limit[m]
  BY DEF LocalInv, FastPC, BumpPC
<1>3. CASE ~fits
  <2>1. pc' = [pc EXCEPT ![m] = "slow"] /\ UNCHANGED <<cursor, objects>>
    BY <1>3 DEF Bump
  <2>2. TypeOK'
    BY <1>1, <2>1 DEF TypeOK, NewObject
  <2>3. BufferInv' /\ ObjectInv' /\ LargeObjectsInLos'
    BY <1>1, <2>1 DEF BufferInv, ObjectInv, LargeObjectsInLos
  <2>4. LocalInv'
    BY <1>1, <1>2, <2>1 DEF LocalInv, FastPC, BumpPC, BitPC, TypeOK
  <2>5. Pending' = Pending
    BY <1>1, <2>1 DEF Pending, BitPC, BumpPC, TypeOK
  <2>6. BitInv'
    BY <1>1, <2>1, <2>5 DEF BitInv, TypeOK
  <2>7. QED
    BY <2>2, <2>3, <2>4, <2>6
<1>4. CASE fits
  <2>1. PICK from \in Nat, sz \in Sizes : from = cursor[m] /\ sz = size[m]
    BY <1>2, WordFacts DEF TypeOK
  <2>2. /\ pc' = [pc EXCEPT ![m] = "loadBits"]
        /\ objects' = objects \cup {NewObject(from + ExtraHeader, sz)}
        /\ cursor' = [cursor EXCEPT ![m] = from + ExtraHeader + sz]
        /\ from + ExtraHeader + sz <= limit[m]
    BY <1>2, <1>4, <2>1 DEF Bump
  <2>3. sz \in Nat /\ sz > 0 /\ limit[m] \in Nat /\ limit[m] > 0 /\ ExtraHeader \in Nat
    BY <2>2, SizeFacts, WordFacts, HeaderFacts DEF TypeOK
  <2>4. PICK b \in Buffers \ free : limit[m] = b + BufferSize
    BY <2>3 DEF BufferInv
  <2>5. limit' = [limit EXCEPT ![m] = b + BufferSize] /\ free' = free \ {b}
    BY <1>1, <2>4 DEF TypeOK
  <2>6. HasRoom(m, b, from, sz) /\ Place(m, b, from, sz)
    BY <1>1, <2>1, <2>2, <2>4, <2>5 DEF HasRoom, Place
  <2>7. /\ BufferInv' /\ ObjectInv'
        /\ cursor' \in [Mutators -> 0 .. Word - 1] /\ limit' \in [Mutators -> 0 .. Word - 1]
        /\ free' \subseteq Buffers
        /\ \A o \in objects' : o = NewObject(o.addr, o.size)' /\ o.size \in Sizes
        /\ \A o \in objects : o.addr # from + ExtraHeader
        /\ {o.addr : o \in objects'} = {o.addr : o \in objects} \cup {from + ExtraHeader}
        /\ b <= from + ExtraHeader /\ from + ExtraHeader < b + BufferSize
    BY <2>6, PlacePreserves
  <2>8. TypeOK'
    BY <1>1, <2>2, <2>7 DEF TypeOK
  <2>9. LargeObjectsInLos'
    BY <1>1, <1>2, <2>1, <2>2 DEF LargeObjectsInLos, NewObject
  <2>10. \A n \in Mutators : n # m => pc'[n] = pc[n] /\ cursor'[n] = cursor[n]
    BY <2>2 DEF TypeOK
  <2>11. pc'[m] = "loadBits" /\ top[m] = from + ExtraHeader
    BY <1>2, <2>1, <2>2 DEF TypeOK
  <2>12. LocalInv'
    <3>1. \E o \in objects' : o.addr = top[m]
      <4>1. NewObject(from + ExtraHeader, sz).addr = from + ExtraHeader
        BY DEF NewObject
      <4>2. NewObject(from + ExtraHeader, sz) \in objects'
        BY <2>2
      <4>3. QED
        BY <2>11, <4>1, <4>2
    <3>2. objects \subseteq objects'
      BY <2>2
    <3>3. QED
      BY <1>1, <1>2, <2>4, <2>7, <2>10, <2>11, <3>1, <3>2
      DEF LocalInv, FastPC, BumpPC, BitPC
  <2>13. Pending' = Pending \cup {from + ExtraHeader}
    BY <1>1, <2>10, <2>11 DEF Pending, BitPC, BumpPC
  <2>14. BitInv'
    <3>1. voBits' = {o.addr : o \in objects'} \ Pending'
      BY <1>1, <2>7, <2>13 DEF BitInv
    <3>2. QED
      BY <1>1, <2>10, <2>11, <3>1 DEF BitInv
  <2>15. QED
    BY <2>7, <2>8, <2>9, <2>12, <2>14
<1>5. QED
  BY <1>3, <1>4

\* The assembler tests for a wrapped sum ...
LEMMA AssemblerBumpPreserves ==
  ASSUME AllocInv, NEW m \in Mutators, AssemblerBump(m)
  PROVE  AllocInv'
<1>1. /\ top[m] \in Nat /\ top[m] < Word /\ size[m] \in Nat /\ size[m] < Word /\ Word \in Nat
      /\ end[m] \in Nat
  BY WordFacts, SizeFacts DEF AssemblerBump, LocalInv, TypeOK
<1>2. NewTop(m) >= top[m] => NewTop(m) = top[m] + size[m]
  <2>1. CASE top[m] + size[m] < Word
    BY <1>1, <2>1 DEF NewTop
  <2>2. CASE top[m] + size[m] >= Word
    <3>1. PICK r \in Nat : r = top[m] + size[m] - Word /\ r < Word /\ r < top[m]
      BY <1>1, <2>2
    <3>2. (r + Word) % Word = r
      BY <1>1, <3>1
    <3>3. NewTop(m) = r
      BY <1>1, <3>1, <3>2 DEF NewTop
    <3>4. QED
      BY <1>1, <3>1, <3>3
  <2>3. QED
    BY <1>1, <2>1, <2>2
<1>3. QED
  BY <1>2, BumpPreserves DEF AssemblerBump, BumpPC

\* ... and C2 need not: its sizes are too small for that.
LEMMA C2BumpPreserves ==
  ASSUME AllocInv, NEW m \in Mutators, C2Bump(m)
  PROVE  AllocInv'
<1>1. /\ cursor[m] \in Nat /\ size[m] \in Nat /\ Word \in Nat /\ end[m] \in Nat
      /\ 2 * size[m] + 2 <= Word /\ top[m] = cursor[m] + ExtraHeader /\ ExtraHeader \in {0, 1}
  BY WordFacts, SizeFacts, HeaderFacts DEF C2Bump, LocalInv, TypeOK, BumpPC
<1>2. 2 * cursor[m] < Word
  BY <1>1, BufferFacts DEF BufferInv
<1>3. top[m] + size[m] \in Nat /\ top[m] + size[m] < Word
  BY <1>1, <1>2
<1>4. NewTop(m) = top[m] + size[m]
  <2>1. PICK r \in Nat : r = top[m] + size[m] /\ r < Word
    BY <1>3
  <2>2. r % Word = r
    BY <1>1, <2>1, NoWrap
  <2>3. QED
    BY <2>1, <2>2 DEF NewTop
<1>5. NewTop(m) < end[m] => NewTop(m) <= end[m]
  BY <1>1, <1>3, <1>4
<1> DEFINE fits == NewTop(m) < end[m]
<1>6. Bump(m, fits) /\ pc[m] \in BumpPC
  BY DEF C2Bump, BumpPC
<1>7. fits \in BOOLEAN
  OBVIOUS
<1>8. fits => NewTop(m) = top[m] + size[m] /\ NewTop(m) <= end[m]
  BY <1>4, <1>5
<1> HIDE DEF fits
<1>9. QED
  BY <1>6, <1>7, <1>8, BumpPreserves

\* The byte is loaded.
LEMMA LoadVoBytePreserves ==
  ASSUME AllocInv, NEW m \in Mutators, LoadVoByte(m)
  PROVE  AllocInv'
<1>1. /\ UNCHANGED <<tag, max, cursor, limit, free, objects, voBits, size, top, end>>
      /\ ExtraHeader' = ExtraHeader /\ pc[m] = "loadBits"
      /\ byte' = [byte EXCEPT ![m] = voBits \cap ByteOf(top[m])]
      /\ pc' = [pc EXCEPT ![m] = "storeBits"]
  BY DEF LoadVoByte, configVars, bufferVars, ExtraHeader
<1>2. \A n \in Mutators : n # m => pc'[n] = pc[n]
  BY <1>1 DEF TypeOK
<1>3. pc'[m] = "storeBits"
  BY <1>1 DEF TypeOK
<1>4. Pending' = Pending
  BY <1>1, <1>2, <1>3 DEF Pending, BitPC
<1>5. TypeOK'
  <2>1. byte' \in [Mutators -> SUBSET (1 .. Word - 1)]
    BY <1>1 DEF TypeOK
  <2>2. QED
    BY <1>1, <2>1 DEF TypeOK, NewObject
<1>6. BufferInv' /\ ObjectInv' /\ LargeObjectsInLos'
  BY <1>1 DEF BufferInv, ObjectInv, LargeObjectsInLos
<1>7. LocalInv'
  BY <1>1, <1>2, <1>3 DEF LocalInv, FastPC, BumpPC, BitPC
<1>8. BitInv'
  <2>1. /\ byte'[m] = voBits \cap ByteOf(top[m])
        /\ \A n \in Mutators : n # m => byte'[n] = byte[n]
    BY <1>1 DEF TypeOK
  <2>2. \A n \in Mutators : pc'[n] = "storeBits" => byte'[n] = voBits \cap ByteOf(top[n])
    BY <1>2, <2>1 DEF BitInv
  <2>3. QED
    BY <1>1, <1>4, <2>2 DEF BitInv, ByteOf
<1>9. QED
  BY <1>5, <1>6, <1>7, <1>8

\* The byte is stored: no other thread has stored to it in the meantime, so that only the
\* bit of the object changes.
LEMMA StoreVoBytePreserves ==
  ASSUME AllocInv, NEW m \in Mutators, StoreVoByte(m)
  PROVE  AllocInv'
<1>1. /\ UNCHANGED <<tag, max, cursor, limit, free, objects>>
      /\ ExtraHeader' = ExtraHeader /\ pc[m] = "storeBits"
      /\ voBits' = (voBits \ ByteOf(top[m])) \cup byte[m] \cup {top[m]}
      /\ byte' = [byte EXCEPT ![m] = {}] /\ pc' = [pc EXCEPT ![m] = "idle"]
      /\ size' = [size EXCEPT ![m] = 0] /\ top' = [top EXCEPT ![m] = 0]
      /\ end' = [end EXCEPT ![m] = 0]
  BY DEF StoreVoByte, configVars, bufferVars, ExtraHeader
<1>2. \A n \in Mutators : n # m => /\ pc'[n] = pc[n] /\ size'[n] = size[n] /\ top'[n] = top[n]
                                   /\ end'[n] = end[n] /\ byte'[n] = byte[n]
  BY <1>1 DEF TypeOK
<1>3. pc'[m] = "idle"
  BY <1>1 DEF TypeOK
<1>4. PICK b \in Buffers : limit[m] = b + BufferSize /\ b <= top[m] /\ top[m] < limit[m]
  BY <1>1 DEF LocalInv, BitPC
<1>5. PICK a \in Nat : a = top[m] /\ b <= a /\ a < b + BufferSize /\ a \in 1 .. Word - 1
  BY <1>4, WordFacts, BufferFacts DEF TypeOK
<1>6. \A n \in Mutators : n # m /\ pc[n] \in BitPC => a \notin ByteOf(top[n]) /\ a # top[n]
  <2> SUFFICES ASSUME NEW n \in Mutators, n # m, pc[n] \in BitPC
               PROVE  a \notin ByteOf(top[n]) /\ a # top[n]
    OBVIOUS
  <2>1. limit[n] # b + BufferSize
    BY <1>4, BufferFacts DEF BufferInv
  <2>2. QED
    BY <1>5, <2>1, BytesApart
<1>7. voBits' = voBits \cup {a}
  <2>1. byte[m] = voBits \cap ByteOf(a)
    BY <1>1, <1>5 DEF BitInv
  <2>2. QED
    BY <1>1, <1>5, <2>1
<1>8. Pending = Pending' \cup {a} /\ a \notin Pending'
  BY <1>1, <1>2, <1>3, <1>5, <1>6 DEF Pending, BitPC
<1>9. TypeOK'
  <2>1. /\ byte' \in [Mutators -> SUBSET (1 .. Word - 1)] /\ voBits' \subseteq 1 .. Word - 1
        /\ size' \in [Mutators -> Sizes \cup {0}]
    BY <1>1, <1>5, <1>7 DEF TypeOK
  <2>2. top' \in [Mutators -> 0 .. Word - 1] /\ end' \in [Mutators -> 0 .. Word - 1]
    BY <1>1, <1>5, WordFacts DEF TypeOK
  <2>3. QED
    BY <1>1, <2>1, <2>2 DEF TypeOK, NewObject
<1>10. BufferInv' /\ ObjectInv' /\ LargeObjectsInLos'
  BY <1>1 DEF BufferInv, ObjectInv, LargeObjectsInLos
<1>11. LocalInv'
  BY <1>1, <1>2, <1>3 DEF LocalInv, FastPC, BumpPC, BitPC
<1>12. BitInv'
  <2>1. a \in {o.addr : o \in objects}
    BY <1>1, <1>5 DEF LocalInv, BitPC
  <2>2. voBits' = {o.addr : o \in objects} \ Pending'
    BY <1>7, <1>8, <2>1 DEF BitInv
  <2>3. ASSUME NEW n \in Mutators, pc'[n] = "storeBits"
        PROVE  byte'[n] = voBits' \cap ByteOf(top[n])
    <3>1. n # m /\ pc[n] = "storeBits" /\ byte'[n] = byte[n]
      BY <1>2, <1>3, <2>3
    <3>2. byte[n] = voBits \cap ByteOf(top[n]) /\ a \notin ByteOf(top[n])
      BY <1>6, <3>1 DEF BitInv, BitPC
    <3>3. QED
      BY <1>7, <3>1, <3>2
  <2>4. \A n \in Mutators : pc'[n] = "storeBits" => top'[n] = top[n]
    BY <1>2, <1>3
  <2>5. \A n \in Mutators : pc'[n] = "storeBits" => byte'[n] = voBits' \cap ByteOf(top'[n])
    BY <2>3, <2>4
  <2>6. QED
    BY <1>1, <2>2, <2>5 DEF BitInv, ByteOf
<1>13. QED
  BY <1>9, <1>10, <1>11, <1>12

\* The slow path returns: no other thread is disturbed, and no bit was pending for this one.
LEMMA ReturnFacts ==
  ASSUME AllocInv, NEW m \in Mutators, Return(m)
  PROVE  /\ UNCHANGED <<tag, max, byte>> /\ ExtraHeader' = ExtraHeader
         /\ pc[m] = "slow" /\ pc'[m] = "idle" /\ Pending' = Pending
         /\ \A n \in Mutators : n # m => /\ pc'[n] = pc[n] /\ size'[n] = size[n]
                                         /\ top'[n] = top[n] /\ end'[n] = end[n]
         /\ pc' \in [Mutators -> {"idle", "assembler", "c2", "assemblerBump", "c2Bump",
                                  "loadBits", "storeBits", "slow"}]
         /\ size' \in [Mutators -> Sizes \cup {0}]
         /\ top' \in [Mutators -> 0 .. Word - 1] /\ end' \in [Mutators -> 0 .. Word - 1]
<1>1. /\ UNCHANGED <<tag, max, byte>> /\ ExtraHeader' = ExtraHeader /\ pc[m] = "slow"
      /\ pc' = [pc EXCEPT ![m] = "idle"] /\ size' = [size EXCEPT ![m] = 0]
      /\ top' = [top EXCEPT ![m] = 0] /\ end' = [end EXCEPT ![m] = 0]
  BY DEF Return, configVars, ExtraHeader
<1>2. /\ \A n \in Mutators : n # m => /\ pc'[n] = pc[n] /\ size'[n] = size[n]
                                      /\ top'[n] = top[n] /\ end'[n] = end[n]
      /\ pc'[m] = "idle"
  BY <1>1 DEF TypeOK
<1>3. 0 \in 0 .. Word - 1
  BY WordFacts
<1>4. Pending' = Pending
  BY <1>1, <1>2 DEF Pending, BitPC
<1>5. QED
  BY <1>1, <1>2, <1>3, <1>4 DEF TypeOK

\* A large object is allocated elsewhere, or there is no memory.
LEMMA ElsewherePreserves ==
  ASSUME AllocInv, NEW m \in Mutators, Return(m), UNCHANGED <<bufferVars, objects, voBits>>
  PROVE  AllocInv'
<1>1. UNCHANGED <<cursor, limit, free, objects, voBits, tag, max, byte>>
  BY ReturnFacts DEF bufferVars
<1>2. TypeOK'
  BY <1>1, ReturnFacts DEF TypeOK, NewObject
<1>3. BufferInv' /\ ObjectInv' /\ LargeObjectsInLos'
  BY <1>1, ReturnFacts DEF BufferInv, ObjectInv, LargeObjectsInLos
<1>4. LocalInv'
  BY <1>1, ReturnFacts DEF LocalInv, FastPC, BumpPC, BitPC
<1>5. BitInv'
  <2>1. \A n \in Mutators : pc'[n] = "storeBits" => n # m /\ top'[n] = top[n] /\ pc[n] = "storeBits"
    BY ReturnFacts
  <2>2. \A n \in Mutators : pc'[n] = "storeBits" => byte[n] = voBits \cap ByteOf(top'[n])
    BY <2>1 DEF BitInv
  <2>3. QED
    BY <1>1, <2>2, ReturnFacts DEF BitInv, ByteOf
<1>6. QED
  BY <1>2, <1>3, <1>4, <1>5

\* The slow path places an object where there is room, and sets its bit.
LEMMA AllocDefaultPreserves ==
  ASSUME AllocInv, NEW m \in Mutators, NEW b \in Buffers, NEW from \in Nat,
         HasRoom(m, b, from, size[m]), AllocDefault(m, from, b + BufferSize),
         free' = free \ {b}
  PROVE  AllocInv'
<1>1. Return(m)
  BY DEF AllocDefault
<1>2. PICK sz \in Sizes : sz = size[m]
  BY <1>1, ReturnFacts DEF LocalInv
<1>3. PICK a \in Nat : a = from + ExtraHeader
  BY HeaderFacts
<1>4. /\ cursor' = [cursor EXCEPT ![m] = from + ExtraHeader + sz]
      /\ limit' = [limit EXCEPT ![m] = b + BufferSize]
      /\ objects' = objects \cup {NewObject(a, sz)} /\ voBits' = voBits \cup {a}
      /\ ~(sz >= max)
  BY <1>2, <1>3 DEF AllocDefault, UseLos
<1>5. HasRoom(m, b, from, sz) /\ Place(m, b, from, sz)
  BY <1>1, <1>2, <1>3, <1>4, ReturnFacts DEF Place
<1>6. /\ BufferInv' /\ ObjectInv'
      /\ cursor' \in [Mutators -> 0 .. Word - 1] /\ limit' \in [Mutators -> 0 .. Word - 1]
      /\ free' \subseteq Buffers
      /\ \A o \in objects' : o = NewObject(o.addr, o.size)' /\ o.size \in Sizes
      /\ \A o \in objects : o.addr # a
      /\ {o.addr : o \in objects'} = {o.addr : o \in objects} \cup {a}
      /\ b <= a /\ a < b + BufferSize
  BY <1>3, <1>5, PlacePreserves
<1>7. voBits' \subseteq 1 .. Word - 1
  <2>1. a \in 1 .. Word - 1
    BY <1>6, BufferFacts, WordFacts
  <2>2. QED
    BY <1>4, <2>1 DEF TypeOK
<1>8. TypeOK'
  BY <1>1, <1>6, <1>7, ReturnFacts DEF TypeOK
<1>9. LargeObjectsInLos'
  <2>1. sz \in Int /\ max \in Int
    BY SizeFacts, SizesAssumption, WordFacts DEF TypeOK
  <2>2. sz + ExtraHeader <= max
    BY <1>4, <2>1, HeaderFacts
  <2>3. max' = max /\ ExtraHeader' = ExtraHeader
    BY <1>1, ReturnFacts
  <2>4. QED
    BY <1>4, <2>2, <2>3 DEF LargeObjectsInLos, NewObject
<1>10. \A n \in Mutators : n # m => cursor'[n] = cursor[n] /\ limit'[n] = limit[n]
  BY <1>4 DEF TypeOK
<1>11. objects \subseteq objects'
  BY <1>4
<1>12. LocalInv'
  BY <1>1, <1>10, <1>11, ReturnFacts DEF LocalInv, FastPC, BumpPC, BitPC
<1>13. BitInv'
  <2>1. Pending \subseteq {o.addr : o \in objects}
    BY DEF Pending, LocalInv
  <2>2. voBits' = {o.addr : o \in objects'} \ Pending'
    BY <1>1, <1>4, <1>6, <2>1, ReturnFacts DEF BitInv
  <2>3. ASSUME NEW n \in Mutators, pc'[n] = "storeBits"
        PROVE  byte'[n] = voBits' \cap ByteOf(top'[n])
    <3>1. n # m /\ pc[n] = "storeBits" /\ byte'[n] = byte[n] /\ top'[n] = top[n]
      BY <1>1, <2>3, ReturnFacts
    <3>2. limit[n] # b + BufferSize
      BY <1>5, <3>1, RoomIsFree, SizeFacts
    <3>3. a \notin ByteOf(top[n])
      BY <1>6, <3>1, <3>2, BytesApart DEF BitPC
    <3>4. byte[n] = voBits \cap ByteOf(top[n])
      BY <3>1 DEF BitInv
    <3>5. QED
      BY <1>4, <3>1, <3>3, <3>4
  <2>4. QED
    BY <2>2, <2>3 DEF BitInv, ByteOf
<1>14. QED
  BY <1>6, <1>8, <1>9, <1>12, <1>13

\* In the rest of the buffer that the thread has ...
LEMMA AllocInBufferPreserves ==
  ASSUME AllocInv, NEW m \in Mutators, AllocInBuffer(m)
  PROVE  AllocInv'
<1>1. /\ AllocDefault(m, cursor[m], limit[m]) /\ free' = free
      /\ cursor[m] + ExtraHeader + size[m] <= limit[m] /\ Return(m)
  BY DEF AllocInBuffer, AllocDefault
<1>2. PICK from \in Nat : from = cursor[m]
  BY WordFacts DEF TypeOK
<1>3. size[m] \in Nat /\ size[m] > 0 /\ limit[m] \in Nat /\ ExtraHeader \in Nat
  BY <1>1, ReturnFacts, SizeFacts, WordFacts, HeaderFacts DEF LocalInv, TypeOK
<1>4. limit[m] > 0
  BY <1>1, <1>2, <1>3
<1>5. PICK b \in Buffers \ free : limit[m] = b + BufferSize
  BY <1>3, <1>4 DEF BufferInv
<1>6. HasRoom(m, b, from, size[m]) /\ AllocDefault(m, from, b + BufferSize) /\ free' = free \ {b}
  BY <1>1, <1>2, <1>5 DEF HasRoom
<1>7. QED
  BY <1>6, AllocDefaultPreserves

\* ... or in a new one.
LEMMA AllocInNewBufferPreserves ==
  ASSUME AllocInv, NEW m \in Mutators, NEW b \in Buffers, AllocInNewBuffer(m, b)
  PROVE  AllocInv'
<1>1. /\ AllocDefault(m, b, b + BufferSize) /\ free' = free \ {b} /\ b \in free
      /\ b + ExtraHeader + size[m] <= b + BufferSize
  BY DEF AllocInNewBuffer, AllocDefault
<1>2. HasRoom(m, b, b, size[m])
  BY <1>1 DEF HasRoom
<1>3. b \in Nat
  BY BufferFacts
<1>4. QED
  BY <1>1, <1>2, <1>3, AllocDefaultPreserves

\* A collection takes all buffers back; those of the survivors are not free.
LEMMA CollectPreserves ==
  ASSUME AllocInv, Collect
  PROVE  AllocInv'
<1>1. PICK kept \in SUBSET objects :
        /\ objects' = kept /\ voBits' = {o.addr : o \in kept}
        /\ free' = {b \in Buffers : \A o \in kept : o.addr < b \/ o.addr >= b + BufferSize}
  BY DEF Collect
<1>2. /\ \A n \in Mutators : pc[n] \in SafePC
      /\ cursor' = [n \in Mutators |-> 0] /\ limit' = [n \in Mutators |-> 0]
      /\ UNCHANGED <<tag, max, pc, size, top, end, byte>> /\ ExtraHeader' = ExtraHeader
  BY DEF Collect, configVars, localVars, ExtraHeader
<1>3. ASSUME NEW o \in objects
      PROVE  /\ \E b \in Buffers : Within(o, b) /\ b <= o.addr /\ o.addr < b + BufferSize
             /\ o.addr \in 1 .. Word - 1
  <2>1. PICK b \in Buffers : Within(o, b)
    BY <1>3 DEF ObjectInv
  <2>2. b <= o.addr /\ o.addr < b + BufferSize
    BY <1>3, <2>1, ObjectTypes, BufferFacts DEF Within, Ends
  <2>3. o.addr \in 1 .. Word - 1
    BY <1>3, <2>2, ObjectTypes, BufferFacts, WordFacts
  <2>4. QED
    BY <2>1, <2>2, <2>3
<1>4. TypeOK'
  <2>1. 0 \in 0 .. Word - 1
    BY WordFacts
  <2>2. voBits' \subseteq 1 .. Word - 1
    BY <1>1, <1>3
  <2>3. \A o \in objects' : o = NewObject(o.addr, o.size)' /\ o.size \in Sizes
    BY <1>1, <1>2 DEF TypeOK, NewObject
  <2>4. free' \subseteq Buffers
    BY <1>1
  <2>5. QED
    BY <1>2, <2>1, <2>2, <2>3, <2>4 DEF TypeOK
<1>5. BufferInv' /\ LargeObjectsInLos'
  BY <1>1, <1>2 DEF BufferInv, LargeObjectsInLos
<1>6. ObjectInv'
  <2>1. ASSUME NEW o \in objects'
        PROVE  \E b \in Buffers \ free' :
                 /\ Within(o, b)
                 /\ \A n \in Mutators : limit'[n] = b + BufferSize => Ends(o) <= cursor'[n]
    <3>1. PICK b \in Buffers : Within(o, b) /\ b <= o.addr /\ o.addr < b + BufferSize
      BY <1>1, <1>3, <2>1
    <3>2. o.addr \in Nat /\ b \in Nat /\ b > 0 /\ BufferSize \in Nat
      BY <1>1, <2>1, ObjectTypes, BufferFacts
    <3>3. b \notin free'
      BY <1>1, <2>1, <3>1, <3>2
    <3>4. \A n \in Mutators : limit'[n] # b + BufferSize
      BY <1>2, <3>2
    <3>5. QED
      BY <3>1, <3>3, <3>4
  <2>2. /\ \A o \in objects' : o.addr \in Nat
        /\ \A o, p \in objects' : o = p \/ Ends(o) <= p.start \/ Ends(p) <= o.start
    BY <1>1 DEF ObjectInv
  <2>3. QED
    BY <2>1, <2>2 DEF ObjectInv, Within, Ends
<1>7. LocalInv'
  BY <1>2 DEF LocalInv, FastPC, BumpPC, BitPC, SafePC
<1>8. BitInv'
  BY <1>1, <1>2 DEF BitInv, Pending, BitPC, SafePC
<1>9. QED
  BY <1>4, <1>5, <1>6, <1>7, <1>8

\* Every step of a thread.
LEMMA MutatorStepPreserves ==
  ASSUME AllocInv, NEW m \in Mutators, MutatorStep(m)
  PROVE  AllocInv'
<1>1. max \in MaxNonLos
  BY DEF TypeOK
<1>2. ASSUME NEW sz \in Sizes, AllocateInRuntime(m, sz) PROVE AllocInv'
  BY <1>2, StartPreserves DEF AllocateInRuntime
<1>3. ASSUME NEW sz \in Sizes, NEW const \in BOOLEAN, EdenAllocate(m, sz, const)
      PROVE  AllocInv'
  <2> DEFINE tooLarge == IF const THEN ConstTooLarge(sz) ELSE AssemblerVarTooLarge(sz)
  <2>1. Start(m, sz, tooLarge, "assembler")
    BY <1>3 DEF EdenAllocate
  <2>2. tooLarge \in BOOLEAN
    <3>1. ConstTooLarge(sz) \in BOOLEAN /\ AssemblerVarTooLarge(sz) \in BOOLEAN
      BY DEF ConstTooLarge, AssemblerVarTooLarge
    <3>2. QED
      BY <3>1
  <2>3. ~tooLarge => sz + ExtraHeader <= max
    BY <1>1, SizeChecks
  <2> HIDE DEF tooLarge
  <2>4. QED
    BY <2>1, <2>2, <2>3, StartPreserves
<1>4. ASSUME NEW sz \in Sizes, NEW const \in BOOLEAN, ExpandAllocate(m, sz, const)
      PROVE  AllocInv'
  <2> DEFINE tooLarge == IF const THEN ConstTooLarge(sz) ELSE C2VarTooLarge(sz)
  <2>1. Start(m, sz, tooLarge, "c2") /\ Signed(sz) >= 0
    BY <1>4 DEF ExpandAllocate
  <2>2. tooLarge \in BOOLEAN
    <3>1. ConstTooLarge(sz) \in BOOLEAN /\ C2VarTooLarge(sz) \in BOOLEAN
      BY DEF ConstTooLarge, C2VarTooLarge
    <3>2. QED
      BY <3>1
  <2>3. ~tooLarge => sz + ExtraHeader <= max /\ 2 * sz + 2 <= Word
    BY <1>1, <2>1, SizeChecks
  <2> HIDE DEF tooLarge
  <2>4. QED
    BY <2>1, <2>2, <2>3, StartPreserves
<1>5. CASE LoadTop(m)
  BY <1>5, LoadTopPreserves
<1>6. CASE AssemblerBump(m)
  BY <1>6, AssemblerBumpPreserves
<1>7. CASE C2Bump(m)
  BY <1>7, C2BumpPreserves
<1>8. CASE LoadVoByte(m)
  BY <1>8, LoadVoBytePreserves
<1>9. CASE StoreVoByte(m)
  BY <1>9, StoreVoBytePreserves
<1>10. CASE AllocLos(m) \/ OutOfMemory(m)
  BY <1>10, ElsewherePreserves DEF AllocLos, OutOfMemory
<1>11. CASE AllocInBuffer(m)
  BY <1>11, AllocInBufferPreserves
<1>12. ASSUME NEW b \in Buffers, AllocInNewBuffer(m, b) PROVE AllocInv'
  BY <1>12, AllocInNewBufferPreserves
<1>13. QED
  BY <1>2, <1>3, <1>4, <1>5, <1>6, <1>7, <1>8, <1>9, <1>10, <1>11, <1>12 DEF MutatorStep

\* The invariant says of every state what the properties say.
LEMMA AllocInvSuffices == AllocInv => MemoryHasOneOwner /\ VoBitsExact
<1> SUFFICES ASSUME AllocInv PROVE MemoryHasOneOwner /\ VoBitsExact
  OBVIOUS
<1>1. ObjectsDisjoint
  BY DEF ObjectsDisjoint, ObjectInv, InHeap, Within, Ends
<1>2. ASSUME NEW m \in Mutators, cursor[m] < limit[m]
      PROVE  /\ \A o \in objects : o.addr + o.size <= cursor[m] \/ limit[m] <= o.start
             /\ \A n \in Mutators \ {m} : \/ limit[n] <= cursor[m] \/ limit[m] <= cursor[n]
                                          \/ cursor[n] = limit[n]
  <2>1. PICK b \in Buffers \ free : b <= cursor[m] /\ limit[m] = b + BufferSize
    BY <1>2 DEF BufferInv
  <2>2. cursor \in [Mutators -> Nat] /\ limit \in [Mutators -> Nat]
    BY WordFacts DEF TypeOK
  <2>3. b \in Nat /\ b > 0 /\ BufferSize \in Nat
    BY BufferFacts
  <2>4. ASSUME NEW o \in objects PROVE o.addr + o.size <= cursor[m] \/ limit[m] <= o.start
    <3>1. PICK c \in Buffers \ free :
            /\ Within(o, c)
            /\ \A n \in Mutators : limit[n] = c + BufferSize => Ends(o) <= cursor[n]
      BY <2>4 DEF ObjectInv
    <3>2. Ends(o) \in Nat /\ o.start \in Int /\ c \in Nat
      BY <2>4, <3>1, ObjectTypes, BufferFacts DEF Ends
    <3>3. CASE c = b
      BY <2>1, <3>1, <3>3 DEF Ends
    <3>4. CASE c # b
      <4>1. c + BufferSize <= b \/ b + BufferSize <= c
        BY <2>1, <3>1, <3>4, BufferFacts
      <4>2. Ends(o) <= cursor[m] \/ limit[m] <= o.start
        BY <2>1, <2>2, <2>3, <3>1, <3>2, <4>1 DEF Within
      <4>3. QED
        BY <4>2 DEF Ends
    <3>5. QED
      BY <3>3, <3>4
  <2>5. ASSUME NEW n \in Mutators \ {m}, cursor[n] # limit[n]
        PROVE  limit[n] <= cursor[m] \/ limit[m] <= cursor[n]
    <3>1. PICK c \in Buffers \ free :
            c <= cursor[n] /\ cursor[n] <= limit[n] /\ limit[n] = c + BufferSize
      BY <2>5 DEF BufferInv
    <3>2. c \in Nat /\ c # b
      BY <2>1, <2>3, <2>5, <3>1, BufferFacts DEF BufferInv
    <3>3. c + BufferSize <= b \/ b + BufferSize <= c
      BY <2>1, <3>1, <3>2, BufferFacts
    <3>4. QED
      BY <2>1, <2>2, <2>3, <3>1, <3>2, <3>3
  <2>6. QED
    BY <2>4, <2>5
<1>3. BuffersExclusive
  BY <1>2 DEF BuffersExclusive
<1>4. VoBitsExact
  <2>1. (\A m \in Mutators : pc[m] \in SafePC) => Pending = {}
    BY DEF Pending, SafePC, BitPC
  <2>2. QED
    BY <2>1 DEF VoBitsExact, BitInv
<1>5. QED
  BY <1>1, <1>3, <1>4 DEF MemoryHasOneOwner

-------------------------------------------------------------------------------
(***************************************************************************)
(* The theorems.                                                           *)
(***************************************************************************)

\* The inductive invariant holds in every reachable state.
LEMMA AllocInvariant == Spec => []AllocInv
<1>1. AllocInv /\ [Next]_vars => AllocInv'
  <2> SUFFICES ASSUME AllocInv, [Next]_vars PROVE AllocInv'
    OBVIOUS
  <2>1. CASE Collect
    BY <2>1, CollectPreserves
  <2>2. ASSUME NEW m \in Mutators, MutatorStep(m) PROVE AllocInv'
    BY <2>2, MutatorStepPreserves
  <2>3. CASE UNCHANGED vars
    BY <2>3 DEF vars, TypeOK, BufferInv, ObjectInv, LocalInv, BitInv, LargeObjectsInLos,
                Within, Ends, Pending, NewObject, ExtraHeader
  <2>4. QED
    BY <2>1, <2>2, <2>3 DEF Next
<1>2. QED
  BY <1>1, InitAlloc, PTL DEF Spec

\* Registers, fields and metadata keep their types: no address leaves the machine word.
THEOREM AllocTypes == Spec => []TypeOK
<1>1. Spec => []AllocInv
  BY AllocInvariant
<1>2. AllocInv => TypeOK
  OBVIOUS
<1>3. QED
  BY <1>1, <1>2, PTL

\* Every granule is given out once, by whichever path and to whichever thread: objects and
\* their headers lie inside buffers and do not overlap, and what remains of a buffer belongs
\* to one thread (eden_allocate, expand_allocate, MMTkMutatorContext::alloc).  C2 does
\* without a check for a sum that wraps around.
THEOREM OneOwner == Spec => []MemoryHasOneOwner
<1>1. Spec => []AllocInv
  BY AllocInvariant
<1>2. AllocInv => MemoryHasOneOwner
  BY AllocInvSuffices
<1>3. QED
  BY <1>1, <1>2, PTL

\* The load and store of a byte of valid-object bits lose no bit, although neither is atomic:
\* at every safepoint exactly the objects have theirs set.
THEOREM BitsAreExact == Spec => []VoBitsExact
<1>1. Spec => []AllocInv
  BY AllocInvariant
<1>2. AllocInv => VoBitsExact
  BY AllocInvSuffices
<1>3. QED
  BY <1>1, <1>2, PTL

\* The three size checks of the fast paths and that of the slow path keep objects that the
\* default allocator cannot hold out of its space.
THEOREM LargeElsewhere == Spec => []LargeObjectsInLos
<1>1. Spec => []AllocInv
  BY AllocInvariant
<1>2. AllocInv => LargeObjectsInLos
  OBVIOUS
<1>3. QED
  BY <1>1, <1>2, PTL
===============================================================================
