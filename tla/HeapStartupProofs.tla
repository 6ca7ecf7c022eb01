--------------------------- MODULE HeapStartupProofs ---------------------------
(***************************************************************************)
(* Proofs about HeapStartup for any number of threads and workers, any     *)
(* settings, and any place of the classes.  What the Rust half finds in an *)
(* object comes first: it does not depend on how the VM was started.       *)
(***************************************************************************)
EXTENDS HeapStartup, FiniteSetTheorems, SequenceTheorems, WellFoundedInduction, TLAPS

-------------------------------------------------------------------------------
(***************************************************************************)
(* Fields lie side by side, behind the header.                             *)
(***************************************************************************)

\* Where they are, and that the object goes on behind them.
LEMMA FieldOffsets ==
  ASSUME NEW c \in BOOLEAN
  PROVE  \E start \in {12, 16}, width \in {4, 8} :
           /\ BytesInOop(c) = width /\ OopBytes(c) = width
           /\ \A i \in Nat : FieldOffset(c, c, i) = start + i * width
           /\ InstanceBytes(c, c) >= start + NFields * width
<1>1. CASE c
  <2>1. \A i \in Nat : FieldOffset(c, c, i) = 12 + i * 4
    BY <1>1 DEF FieldOffset, AlignUp, HeaderBytes, OopBytes
  <2>2. InstanceBytes(c, c) = ((12 + NFields * 4 + 8 - 1) \div 8) * 8
    BY <2>1, ShapesAssumption DEF InstanceBytes, AlignUp
  <2>3. BytesInOop(c) = 4 /\ OopBytes(c) = 4
    BY <1>1 DEF BytesInOop, OopBytes
  <2>4. InstanceBytes(c, c) >= 12 + NFields * 4
    BY <2>2, ShapesAssumption
  <2> WITNESS 12 \in {12, 16}, 4 \in {4, 8}
  <2> QED BY <2>1, <2>3, <2>4
<1>2. CASE ~c
  <2>1. \A i \in Nat : FieldOffset(c, c, i) = 16 + i * 8
    BY <1>2 DEF FieldOffset, AlignUp, HeaderBytes, OopBytes
  <2>2. InstanceBytes(c, c) = ((16 + NFields * 8 + 8 - 1) \div 8) * 8
    BY <2>1, ShapesAssumption DEF InstanceBytes, AlignUp
  <2>3. BytesInOop(c) = 8 /\ OopBytes(c) = 8
    BY <1>2 DEF BytesInOop, OopBytes
  <2>4. InstanceBytes(c, c) >= 16 + NFields * 8
    BY <2>2, ShapesAssumption
  <2> WITNESS 16 \in {12, 16}, 8 \in {4, 8}
  <2> QED BY <2>1, <2>3, <2>4
<1> QED BY <1>1, <1>2

\* Instances end on a word.
LEMMA InstanceBytesFacts ==
  ASSUME NEW c \in BOOLEAN
  PROVE  \E q \in Nat : q > 0 /\ q * 8 = InstanceBytes(c, c)
<1>1. PICK start \in {12, 16}, width \in {4, 8} :
        \A i \in Nat : FieldOffset(c, c, i) = start + i * width
  BY FieldOffsets
<1>2. FieldOffset(c, c, NFields) \in Nat /\ FieldOffset(c, c, NFields) >= 12
  <2>1. CASE width = 4
    BY <1>1, <2>1, ShapesAssumption
  <2>2. CASE width = 8
    BY <1>1, <2>2, ShapesAssumption
  <2> QED BY <1>1, <2>1, <2>2
<1> DEFINE q == (FieldOffset(c, c, NFields) + 8 - 1) \div 8
<1>3. q \in Nat /\ q > 0
  BY <1>2
<1>4. q * 8 = InstanceBytes(c, c)
  BY DEF InstanceBytes, AlignUp
<1> QED BY <1>3, <1>4

-------------------------------------------------------------------------------
(***************************************************************************)
(* The size of an object, as the Rust half computes it.                    *)
(***************************************************************************)

\* The layout helper says all that there is to know about an array.
LEMMA LayoutHelperFacts ==
  ASSUME NEW c \in BOOLEAN, NEW s \in Shapes, IsArray(s)
  PROVE  /\ LayoutHelper(c, c, s) < 0
         /\ Log2ElementSize(LayoutHelper(c, c, s)) = Log2Element(c, s)
         /\ LhHeaderSize(LayoutHelper(c, c, s)) = ArrayHeaderBytes(c)
<1>1. s.id = "ObjArray" \/ (s.id = "TypeArray" /\ s.log2 \in 0 .. 3)
  BY ShapesAssumption DEF IsShape, IsArray
<1>2. PICK h \in {16, 24} : h = ArrayHeaderBytes(c)
  BY DEF ArrayHeaderBytes, HeaderBytes, AlignUp
<1>3. PICK e \in 0 .. 3 : e = Log2Element(c, s)
  BY <1>1 DEF Log2Element
<1>4. PICK tag \in {-2, -1} : LayoutHelper(c, c, s) = tag * 2 ^ 30 + h * 2 ^ 16 + 12 * 2 ^ 8 + e
  BY <1>2, <1>3 DEF LayoutHelper
<1>5. /\ tag * 2 ^ 30 + h * 2 ^ 16 + 12 * 2 ^ 8 + e < 0
      /\ (tag * 2 ^ 30 + h * 2 ^ 16 + 12 * 2 ^ 8 + e) % 64 = e
      /\ ((tag * 2 ^ 30 + h * 2 ^ 16 + 12 * 2 ^ 8 + e) \div 2 ^ 16) % 256 = h
  OBVIOUS
<1>6. QED
  BY <1>2, <1>3, <1>4, <1>5 DEF Log2ElementSize, LhHeaderSize

\* The length of an array is behind the class pointer, whatever its width.
LEMMA LengthFacts ==
  ASSUME NEW c \in BOOLEAN, NEW s \in Shapes, IsArray(s), NEW base, NEW shift
  PROVE  Length(c, HotSpotObject(c, c, s, base, shift)) = s.len
<1>1. Cells(c, s, base, shift)[LengthOffset(c)] = s.len
  <2>1. CASE c
    BY <2>1 DEF Cells, LengthOffset, KlassOffset
  <2>2. CASE ~c
    BY <2>2 DEF Cells, LengthOffset, KlassOffset
  <2>3. QED
    BY <2>1, <2>2
<1>2. QED
  BY <1>1 DEF Length, HotSpotObject

\* The size is exact if references and class pointers have the width that was assumed.
LEMMA SizeFacts ==
  ASSUME NEW c \in BOOLEAN, NEW s \in Shapes, NEW base, NEW shift
  PROVE  Size(c, HotSpotObject(c, c, s, base, shift)) = ObjectBytes(c, c, s)
<1> DEFINE o == HotSpotObject(c, c, s, base, shift)
           lh == LayoutHelper(c, c, s)
<1>1. o.class.layout_helper = lh /\ o.size = ObjectBytes(c, c, s)
  BY DEF HotSpotObject, Class
<1>2. CASE IsArray(s)
  <2>1. lh < 0 /\ Length(c, o) = s.len
    BY <1>2, LayoutHelperFacts, LengthFacts
  <2>2. PICK n \in Nat, h \in {16, 24}, e \in 0 .. 3 :
          n = s.len /\ h = ArrayHeaderBytes(c) /\ e = Log2Element(c, s)
    <3>1. s.len \in Nat /\ (s.id = "ObjArray" \/ (s.id = "TypeArray" /\ s.log2 \in 0 .. 3))
      BY <1>2, ShapesAssumption DEF IsShape, IsArray
    <3>2. ArrayHeaderBytes(c) \in {16, 24}
      BY DEF ArrayHeaderBytes, HeaderBytes, AlignUp
    <3>3. Log2Element(c, s) \in 0 .. 3
      BY <3>1 DEF Log2Element
    <3>4. QED
      BY <3>1, <3>2, <3>3
  <2>3. n * 2 ^ e + h = h + n * 2 ^ e
    <3>1. 2 ^ e \in {1, 2, 4, 8}
      <4>1. 2 ^ 0 = 1 /\ 2 ^ 1 = 2 /\ 2 ^ 2 = 4 /\ 2 ^ 3 = 8
        OBVIOUS
      <4>2. e = 0 \/ e = 1 \/ e = 2 \/ e = 3
        OBVIOUS
      <4>3. QED
        BY <4>1, <4>2
    <3>2. \A w \in {1, 2, 4, 8} : n * w + h = h + n * w
      OBVIOUS
    <3>3. QED
      BY <3>1, <3>2
  <2>4. Size(c, o) = AlignUp(n * 2 ^ e + h, 8)
    BY <1>1, <1>2, <2>1, <2>2, LayoutHelperFacts DEF Size
  <2>5. ObjectBytes(c, c, s) = AlignUp(h + n * 2 ^ e, 8)
    BY <1>2, <2>2 DEF ObjectBytes
  <2>6. QED
    BY <2>3, <2>4, <2>5
<1>3. CASE ~IsArray(s)
  <2>1. PICK q \in Nat : q > 0 /\ q * 8 = InstanceBytes(c, c)
    BY InstanceBytesFacts
  <2> DEFINE b == q * 8
  <2>2. lh = b + (IF s.slow THEN 1 ELSE 0) /\ s.slow \in BOOLEAN
    BY <1>3, <2>1, ShapesAssumption DEF LayoutHelper, IsShape
  <2>3. CASE s.slow
    <3>1. NeedsSlowPath(lh) /\ lh > 0 /\ ~(lh < 0)
      BY <2>2, <2>3 DEF NeedsSlowPath
    <3>2. QED
      BY <1>1, <3>1 DEF Size
  <2>4. CASE ~s.slow
    <3>1. ~NeedsSlowPath(lh) /\ lh > 0 /\ lh = b
      <4>1. b % 2 # 1 /\ b > 0 /\ b + 0 = b
        BY <2>1
      <4>2. lh = b
        BY <2>2, <2>4, <4>1
      <4>3. QED
        BY <4>1, <4>2 DEF NeedsSlowPath
    <3>2. s.len = 0
      BY <1>3, <2>4, ShapesAssumption DEF IsShape
    <3>3. b + 0 * OopBytes(c) = b
      BY DEF OopBytes
    <3>4. AlignUp(b, 8) = b
      BY DEF AlignUp
    <3>5. ObjectBytes(c, c, s) = b
      BY <1>3, <2>1, <3>2, <3>3, <3>4 DEF ObjectBytes
    <3>6. QED
      BY <1>1, <3>1, <3>5 DEF Size
  <2>5. QED
    BY <2>2, <2>3, <2>4
<1>4. QED
  BY <1>2, <1>3

-------------------------------------------------------------------------------
(***************************************************************************)
(* Induction. The provers cannot apply an induction theorem, which has an  *)
(* operator as its parameter; a least element of a set is a fact they can. *)
(***************************************************************************)

\* The order of the natural numbers is well founded.
LEMMA NatIsWellFounded ==
  \E R : /\ IsWellFoundedOn(R, Nat)
         /\ \A x, y \in Nat : x < y => <<x, y>> \in R
<1>1. \A x, y \in Nat : x < y => <<x, y>> \in OpToRel(<, Nat)
  BY DEF OpToRel
<1> QED BY <1>1, NatLessThanWellFounded, Zenon

\* A set of natural numbers that is not empty has a least element.
LEMMA LeastElement ==
  ASSUME NEW T, T \subseteq Nat, T # {}
  PROVE  \E m \in T : \A k \in T : m <= k
<1>1. PICK R : /\ IsWellFoundedOn(R, Nat)
               /\ \A x, y \in Nat : x < y => <<x, y>> \in R
  BY NatIsWellFounded, Zenon
<1>2. IsWellFoundedOn(R, Nat)
  BY <1>1
<1>3. \E m \in T : \A k \in T : ~(<<k, m>> \in R)
  BY <1>2, WFMin, Zenon
<1>4. PICK m \in T : \A k \in T : ~(<<k, m>> \in R)
  BY <1>3
<1>5. \A k \in T : ~(k < m)
  BY <1>1, <1>4, Zenon
<1>6. \A k \in T : m <= k
  BY <1>5
<1> QED BY <1>6

-------------------------------------------------------------------------------
(***************************************************************************)
(* Slots that are visited one after the other.                             *)
(***************************************************************************)

\* The slots in S are visited, each of them once.
Visits(slots, S) == slots \in Seq(Nat) /\ Range(slots) = S /\ IsInjective(slots)

\* No slot: nothing is visited.
LEMMA VisitsNone == Visits(<<>>, {})
BY DEF Visits, Range, IsInjective

\* One slot.
LEMMA VisitsOne ==
  ASSUME NEW x \in Nat PROVE Visits(<<x>>, {x})
BY DEF Visits, Range, IsInjective

\* Some slots, and then others.
LEMMA VisitsBoth ==
  ASSUME NEW a, NEW S, Visits(a, S), NEW b, NEW T, Visits(b, T), S \cap T = {}
  PROVE  Visits(a \o b, S \cup T)
<1> DEFINE ab == a \o b
<1>1. a \in Seq(Nat) /\ b \in Seq(Nat)
  BY DEF Visits
<1>2. /\ ab \in Seq(Nat) /\ Len(ab) = Len(a) + Len(b)
      /\ \A i \in 1 .. Len(a) + Len(b) : ab[i] = IF i <= Len(a) THEN a[i] ELSE b[i - Len(a)]
  BY <1>1, ConcatProperties
<1>3. /\ Len(a) \in Nat /\ Len(b) \in Nat /\ DOMAIN a = 1 .. Len(a) /\ DOMAIN b = 1 .. Len(b)
      /\ DOMAIN ab = 1 .. Len(a) + Len(b)
  BY <1>1, <1>2
<1> HIDE DEF ab
<1>4. /\ \A i \in 1 .. Len(a) : a[i] \in S
      /\ \A i \in 1 .. Len(b) : b[i] \in T
      /\ \A x \in S : \E i \in 1 .. Len(a) : a[i] = x
      /\ \A x \in T : \E i \in 1 .. Len(b) : b[i] = x
      /\ \A i, j \in 1 .. Len(a) : a[i] = a[j] => i = j
      /\ \A i, j \in 1 .. Len(b) : b[i] = b[j] => i = j
  BY <1>3 DEF Visits, Range, IsInjective
<1>5. \A i \in 1 .. Len(a) : i \in DOMAIN ab /\ ab[i] = a[i]
  BY <1>2, <1>3
<1>6. \A i \in 1 .. Len(b) : Len(a) + i \in DOMAIN ab /\ ab[Len(a) + i] = b[i]
  <2> TAKE i \in 1 .. Len(b)
  <2>1. /\ Len(a) + i \in 1 .. Len(a) + Len(b) /\ ~(Len(a) + i <= Len(a))
        /\ (Len(a) + i) - Len(a) = i
    BY <1>3
  <2> QED BY <1>2, <1>3, <2>1
<1>7. \A k \in DOMAIN ab : \/ k \in 1 .. Len(a)
                           \/ k - Len(a) \in 1 .. Len(b) /\ k = Len(a) + (k - Len(a))
  BY <1>3
<1>8. Range(ab) = S \cup T
  <2>1. \A x \in S \cup T : \E k \in DOMAIN ab : ab[k] = x
    BY <1>4, <1>5, <1>6
  <2>2. ASSUME NEW k \in DOMAIN ab PROVE ab[k] \in S \cup T
    <3>1. CASE k \in 1 .. Len(a)
      BY <1>4, <1>5, <3>1
    <3>2. CASE k - Len(a) \in 1 .. Len(b) /\ k = Len(a) + (k - Len(a))
      BY <1>4, <1>6, <3>2
    <3> QED BY <1>7, <3>1, <3>2
  <2> QED BY <2>1, <2>2 DEF Range
<1>9. ASSUME NEW k \in DOMAIN ab, NEW l \in DOMAIN ab, ab[k] = ab[l] PROVE k = l
  <2>1. CASE k \in 1 .. Len(a) /\ l \in 1 .. Len(a)
    BY <1>4, <1>5, <1>9, <2>1
  <2>2. CASE k \in 1 .. Len(a) /\ l - Len(a) \in 1 .. Len(b) /\ l = Len(a) + (l - Len(a))
    <3>1. ab[k] \in S
      BY <1>4, <1>5, <2>2
    <3>2. ab[l] \in T
      BY <1>4, <1>6, <2>2
    <3> QED BY <1>9, <3>1, <3>2
  <2>3. CASE l \in 1 .. Len(a) /\ k - Len(a) \in 1 .. Len(b) /\ k = Len(a) + (k - Len(a))
    <3>1. ab[l] \in S
      BY <1>4, <1>5, <2>3
    <3>2. ab[k] \in T
      BY <1>4, <1>6, <2>3
    <3> QED BY <1>9, <3>1, <3>2
  <2>4. CASE /\ k - Len(a) \in 1 .. Len(b) /\ k = Len(a) + (k - Len(a))
             /\ l - Len(a) \in 1 .. Len(b) /\ l = Len(a) + (l - Len(a))
    <3>1. b[k - Len(a)] = b[l - Len(a)]
      BY <1>6, <1>9, <2>4
    <3>2. k - Len(a) = l - Len(a)
      BY <1>4, <2>4, <3>1
    <3> QED BY <1>3, <2>4, <3>2
  <2> QED BY <1>7, <2>1, <2>2, <2>3, <2>4
<1> QED BY <1>2, <1>8, <1>9 DEF Visits, IsInjective, ab

\* The slots of a block.
LEMMA VisitsBlock ==
  ASSUME NEW start \in Nat, NEW n \in Nat, NEW width \in {4, 8}
  PROVE  Visits(SlotsFrom(start, n, width), {start + i * width : i \in 0 .. n - 1})
<1> DEFINE slots == [i \in 1 .. n |-> start + (i - 1) * width]
           S == {start + i * width : i \in 0 .. n - 1}
<1>1. \A i \in 1 .. n : start + (i - 1) * width \in Nat
  OBVIOUS
<1>2. slots \in Seq(Nat)
  BY <1>1, IsASeq
<1>3. \A i \in 0 .. n - 1 : i + 1 \in 1 .. n /\ slots[i + 1] = start + i * width
  <2> TAKE i \in 0 .. n - 1
  <2>1. i + 1 \in 1 .. n /\ (i + 1) - 1 = i
    OBVIOUS
  <2> QED BY <2>1
<1>4. \A i \in 1 .. n : i - 1 \in 0 .. n - 1 /\ slots[i] = start + (i - 1) * width
  OBVIOUS
<1>5. Range(slots) = S
  <2>1. \A x \in S : \E i \in DOMAIN slots : slots[i] = x
    BY <1>3
  <2>2. \A i \in DOMAIN slots : slots[i] \in S
    BY <1>4
  <2> HIDE DEF slots
  <2> QED BY <2>1, <2>2 DEF Range
<1>6. \A i, j \in 1 .. n : start + (i - 1) * width = start + (j - 1) * width => i = j
  OBVIOUS
<1>7. IsInjective(slots)
  BY <1>4, <1>6 DEF IsInjective
<1> HIDE DEF slots
<1> QED BY <1>2, <1>5, <1>7 DEF Visits, SlotsFrom, slots

\* What FlattenSeq makes of the first n sequences.
Flattening(seqs, n, flatten) ==
  flatten = [i \in 1 .. n |-> IF i = 1 THEN seqs[i] ELSE flatten[i - 1] \o seqs[i]]

\* However many sequences there are, they can be put together.
LEMMA FlatteningExists ==
  ASSUME NEW seqs, NEW n \in Nat
  PROVE  \E flatten : Flattening(seqs, n, flatten)
<1> DEFINE Bad == {k \in Nat : ~ \E flatten : Flattening(seqs, k, flatten)}
<1> SUFFICES ASSUME Bad # {} PROVE FALSE
  OBVIOUS
<1>1. PICK m \in Bad : \A k \in Bad : m <= k
  <2> Bad \subseteq Nat
    OBVIOUS
  <2> HIDE DEF Bad
  <2> QED BY LeastElement
<1>2. m \in Nat /\ \A flatten : ~Flattening(seqs, m, flatten)
  BY <1>1
<1>3. m # 0
  <2>1. Flattening(seqs, 0, [i \in 1 .. 0 |-> seqs[i]])
    BY DEF Flattening
  <2> QED BY <1>2, <2>1
<1>4. m - 1 \in Nat /\ ~(m <= m - 1)
  BY <1>2, <1>3
<1>5. m - 1 \notin Bad
  BY <1>1, <1>4
<1>6. PICK flatten : Flattening(seqs, m - 1, flatten)
  BY <1>4, <1>5
<1> DEFINE longer == [i \in 1 .. m |-> IF i = 1 THEN seqs[i] ELSE flatten[i - 1] \o seqs[i]]
<1>7. \A i \in 1 .. m - 1 : longer[i] = flatten[i]
  <2> TAKE i \in 1 .. m - 1
  <2>1. i \in 1 .. m
    BY <1>2
  <2>2. flatten[i] = IF i = 1 THEN seqs[i] ELSE flatten[i - 1] \o seqs[i]
    BY <1>6 DEF Flattening
  <2> QED BY <2>1, <2>2
<1>8. \A i \in 1 .. m : i # 1 => longer[i - 1] = flatten[i - 1]
  <2> HIDE DEF longer
  <2> QED BY <1>2, <1>7
<1>9. Flattening(seqs, m, longer)
  BY <1>8 DEF Flattening
<1> QED BY <1>2, <1>9

\* Sequences that visit disjoint sets visit, one after the other, all of these sets.
LEMMA VisitsAll ==
  ASSUME NEW n \in Nat, NEW seqs, NEW sets, DOMAIN seqs = 1 .. n, seqs \in Seq(Seq(Nat)),
         \A i \in 1 .. n : Visits(seqs[i], sets[i]),
         \A i, j \in 1 .. n : i # j => sets[i] \cap sets[j] = {},
         NEW S, S = UNION {sets[i] : i \in 1 .. n}
  PROVE  Visits(FlattenSeq(seqs), S)
<1>0. Len(seqs) = n
  <2>1. Len(seqs) \in Nat /\ 1 .. Len(seqs) = 1 .. n
    BY LenProperties
  <2> QED BY <2>1
<1>1. CASE n = 0
  <2>1. FlattenSeq(seqs) = <<>>
    BY <1>0, <1>1, EmptySeq DEF FlattenSeq
  <2>2. UNION {sets[i] : i \in 1 .. n} = {}
    BY <1>1
  <2> QED BY <2>1, <2>2, VisitsNone
<1>2. CASE n # 0
  <2>1. FlattenSeq(seqs) = (CHOOSE flatten : Flattening(seqs, n, flatten))[n]
    BY <1>0, <1>2 DEF FlattenSeq, Flattening
  <2> DEFINE flatten == CHOOSE flatten : Flattening(seqs, n, flatten)
             Upto(m) == UNION {sets[i] : i \in 1 .. m}
             Bad == {m \in Nat : m \in 1 .. n /\ ~Visits(flatten[m], Upto(m))}
  <2>2. Flattening(seqs, n, flatten)
    BY FlatteningExists, Zenon
  <2> HIDE DEF flatten
  <2>3. \A m \in 1 .. n : flatten[m] = IF m = 1 THEN seqs[m] ELSE flatten[m - 1] \o seqs[m]
    BY <2>2 DEF Flattening
  <2>4. ASSUME Bad # {} PROVE FALSE
    <3>1. PICK m \in Bad : \A k \in Bad : m <= k
      <4> Bad \subseteq Nat
        OBVIOUS
      <4> HIDE DEF Bad
      <4> QED BY <2>4, LeastElement
    <3>2. m \in 1 .. n /\ ~Visits(flatten[m], Upto(m))
      BY <3>1
    <3>3. CASE m = 1
      <4>1. Upto(m) = sets[m] /\ flatten[m] = seqs[m]
        BY <2>3, <3>2, <3>3
      <4> QED BY <3>2, <4>1
    <3>4. CASE m # 1
      <4>1. m - 1 \in 1 .. n /\ m - 1 \in Nat /\ ~(m <= m - 1)
        BY <3>2, <3>4
      <4>2. Visits(flatten[m - 1], Upto(m - 1))
        BY <3>1, <4>1
      <4>3. \A i \in 1 .. m : i = m \/ (i \in 1 .. m - 1 /\ i \in 1 .. n /\ i # m)
        BY <3>2
      <4>4. \A i \in 1 .. m - 1 : i \in 1 .. m /\ i # m /\ i \in 1 .. n
        BY <3>2
      <4>5. m \in 1 .. m
        BY <3>2
      <4>6. Upto(m) = Upto(m - 1) \cup sets[m]
        BY <4>3, <4>4, <4>5
      <4>7. Upto(m - 1) \cap sets[m] = {}
        BY <3>2, <4>4
      <4>8. Visits(flatten[m - 1] \o seqs[m], Upto(m - 1) \cup sets[m])
        <5> HIDE DEF Upto
        <5> QED BY <3>2, <4>2, <4>7, VisitsBoth
      <4> QED BY <2>3, <3>2, <3>4, <4>6, <4>8
    <3> QED BY <3>3, <3>4
  <2>5. n \in 1 .. n
    BY <1>2
  <2>6. Visits(flatten[n], Upto(n))
    BY <2>4, <2>5
  <2> QED BY <2>1, <2>6 DEF flatten
<1> QED BY <1>1, <1>2

\* A sequence of the elements of a finite set, each of them once.
LEMMA SetToSeqFacts ==
  ASSUME NEW S, IsFiniteSet(S)
  PROVE  LET f == SetToSeq(S)
             n == Cardinality(S)
         IN /\ n \in Nat /\ f \in [1 .. n -> S] /\ \A i, j \in 1 .. n : f[i] = f[j] => i = j
            /\ \A x \in S : \E i \in 1 .. n : f[i] = x
<1> DEFINE n == Cardinality(S)
<1>1. n \in Nat /\ ExistsBijection(1 .. n, S)
  BY FS_CardinalityType
<1>2. \E f \in [1 .. n -> S] : IsInjective(f)
  BY <1>1 DEF ExistsBijection, Bijection, Injection
<1>3. SetToSeq(S) \in [1 .. n -> S] /\ IsInjective(SetToSeq(S))
  BY <1>2, Zenon DEF SetToSeq
<1>4. SetToSeq(S) \in Injection(1 .. n, S)
  BY <1>3 DEF Injection
<1>5. Cardinality(1 .. n) = n
  BY <1>1, FS_Interval
<1>6. SetToSeq(S) \in Surjection(1 .. n, S)
  BY <1>4, <1>5, FS_Injection
<1> QED BY <1>1, <1>3, <1>6 DEF Surjection, IsInjective

-------------------------------------------------------------------------------
(***************************************************************************)
(* Oop maps: the runs of reference fields of a class.                      *)
(***************************************************************************)

\* The fields of a run.
Fields(r) == r[1] .. r[1] + r[2] - 1

\* A run lies among the reference fields and cannot be made longer.
LEMMA RunFacts ==
  ASSUME NEW refs \in SUBSET (0 .. NFields - 1), NEW r \in Runs(refs)
  PROVE  /\ r[1] \in Nat /\ r[2] \in Nat /\ r = <<r[1], r[2]>> /\ r[1] + r[2] \in Nat
         /\ Fields(r) \subseteq refs /\ r[2] >= 1
         /\ r[1] - 1 \notin refs /\ r[1] + r[2] \notin refs
BY ShapesAssumption DEF Runs, Fields

\* So two runs that meet are the same.
LEMMA RunsDisjoint ==
  ASSUME NEW refs \in SUBSET (0 .. NFields - 1), NEW r \in Runs(refs), NEW q \in Runs(refs),
         NEW i \in Fields(r) \cap Fields(q)
  PROVE  r = q
<1>1. ASSUME NEW a \in Runs(refs), NEW b \in Runs(refs), i \in Fields(a), i \in Fields(b)
      PROVE  ~(a[1] < b[1]) /\ ~(a[1] + a[2] < b[1] + b[2])
  <2>1. /\ a[1] \in Nat /\ a[2] \in Nat /\ b[1] \in Nat /\ b[2] \in Nat
        /\ b[1] - 1 \notin refs /\ a[1] + a[2] \notin refs
        /\ Fields(a) \subseteq refs /\ Fields(b) \subseteq refs
    BY <1>1, RunFacts
  <2>2. i \in Int /\ a[1] <= i /\ i <= a[1] + a[2] - 1 /\ b[1] <= i /\ i <= b[1] + b[2] - 1
    BY <1>1, <2>1 DEF Fields
  <2>3. a[1] < b[1] => b[1] - 1 \in Fields(a)
    BY <2>1, <2>2 DEF Fields
  <2>4. a[1] + a[2] < b[1] + b[2] => a[1] + a[2] \in Fields(b)
    BY <2>1, <2>2 DEF Fields
  <2> QED BY <2>1, <2>3, <2>4
<1>2. /\ ~(r[1] < q[1]) /\ ~(q[1] < r[1])
      /\ ~(r[1] + r[2] < q[1] + q[2]) /\ ~(q[1] + q[2] < r[1] + r[2])
  BY <1>1
<1>3. /\ r[1] \in Nat /\ r[2] \in Nat /\ r = <<r[1], r[2]>>
      /\ q[1] \in Nat /\ q[2] \in Nat /\ q = <<q[1], q[2]>>
  BY RunFacts
<1>4. r[1] = q[1] /\ r[2] = q[2]
  BY <1>2, <1>3
<1> QED BY <1>3, <1>4

\* Every reference field is in a run: it starts at the first and ends at the last field
\* with nothing but references between it and this one.
LEMMA RunsCover ==
  ASSUME NEW refs \in SUBSET (0 .. NFields - 1), NEW i \in refs
  PROVE  \E r \in Runs(refs) : i \in Fields(r)
<1> DEFINE Starts == {k \in Nat : k <= i /\ k .. i \subseteq refs}
           Ends == {k \in Nat : k >= i /\ k + 1 \notin refs}
<1>1. NFields \in Nat /\ i \in 0 .. NFields - 1
  BY ShapesAssumption
<1>2. i \in Starts /\ NFields - 1 \in Ends
  BY <1>1
<1>3. PICK m \in Starts : \A k \in Starts : m <= k
  <2> Starts \subseteq Nat /\ Starts # {}
    BY <1>2
  <2> HIDE DEF Starts
  <2> QED BY LeastElement
<1>4. PICK n \in Ends : \A k \in Ends : n <= k
  <2> Ends \subseteq Nat /\ Ends # {}
    BY <1>2
  <2> HIDE DEF Ends
  <2> QED BY LeastElement
<1>5. m \in Nat /\ n \in Nat /\ m <= i /\ i <= n /\ n <= NFields - 1
  BY <1>2, <1>3, <1>4
<1>6. m - 1 \notin refs
  <2> SUFFICES ASSUME m - 1 \in refs PROVE FALSE
    OBVIOUS
  <2>1. m - 1 \in Nat
    BY <1>1, <1>5
  <2>2. \A k \in m - 1 .. i : k = m - 1 \/ k \in m .. i
    BY <1>1, <1>5
  <2>3. m - 1 .. i \subseteq refs
    BY <1>3, <2>2
  <2>4. m - 1 \in Starts /\ ~(m <= m - 1)
    BY <1>1, <1>5, <2>1, <2>3
  <2> QED BY <1>3, <2>4
<1>7. m .. n \subseteq refs
  <2> SUFFICES ASSUME NEW k \in m .. n, k \notin refs PROVE FALSE
    OBVIOUS
  <2>1. k \in Int /\ k > i
    BY <1>1, <1>3, <1>5
  <2>2. k - 1 \in Nat /\ k - 1 >= i /\ (k - 1) + 1 = k /\ ~(n <= k - 1)
    BY <1>1, <1>5, <2>1
  <2>3. k - 1 \in Ends
    BY <2>2
  <2> QED BY <1>4, <2>2, <2>3
<1>8. /\ m \in 0 .. NFields - 1 /\ n - m + 1 \in 1 .. NFields
      /\ m + (n - m + 1) - 1 = n /\ m + (n - m + 1) = n + 1
  BY <1>1, <1>5
<1>9. n + 1 \notin refs
  BY <1>4
<1> DEFINE r == <<m, n - m + 1>>
<1>10. r \in Runs(refs)
  BY <1>6, <1>7, <1>8, <1>9 DEF Runs
<1>11. i \in Fields(r)
  BY <1>1, <1>5, <1>8 DEF Fields
<1> QED BY <1>10, <1>11

\* There are finitely many runs, so they can be put in an order.
LEMMA RunsFinite ==
  ASSUME NEW refs PROVE IsFiniteSet(Runs(refs))
<1>1. IsFiniteSet(0 .. NFields - 1) /\ IsFiniteSet(1 .. NFields)
  <2>1. \A a, b \in Int : IsFiniteSet(a .. b)
    BY FS_Interval
  <2>2. NFields \in Int /\ NFields - 1 \in Int
    BY ShapesAssumption
  <2> QED BY <2>1, <2>2
<1>2. IsFiniteSet((0 .. NFields - 1) \X (1 .. NFields))
  BY <1>1, FS_Product
<1>3. Runs(refs) \in SUBSET ((0 .. NFields - 1) \X (1 .. NFields))
  BY DEF Runs
<1> QED BY <1>2, <1>3, FS_Subset

\* Slots of the given width that lie side by side.
LEMMA SlotsFacts ==
  ASSUME NEW start \in Nat, NEW width \in {4, 8}
  PROVE  /\ \A i \in Nat : start + i * width \in Nat
         /\ \A i, j \in Nat : start + i * width = start + j * width => i = j
         /\ \A i, j \in Nat : start + (i + j) * width = (start + i * width) + j * width
<1>1. CASE width = 4
  BY <1>1
<1>2. CASE width = 8
  BY <1>2
<1> QED BY <1>1, <1>2

\* The slots of some fields.
FieldSlots(c, refs) == {FieldOffset(c, c, i) : i \in refs}

\* Behind the vtable and the itable, the oop maps are found.
LEMMA OopMapsFound ==
  ASSUME NEW v \in Nat, NEW maps, NEW n \in Nat, DOMAIN maps = 1 .. n, maps \in Seq(Range(maps))
  PROVE  SubSeq([i \in 1 .. v |-> "method"] \o maps, v + 1, v + n) = maps
<1> DEFINE S == {"method"} \cup Range(maps)
           methods == [i \in 1 .. v |-> "method"]
           tail == methods \o maps
           found == SubSeq(tail, v + 1, v + n)
<1>1. methods \in Seq(S) /\ Len(methods) = v
  <2>1. \A i \in 1 .. v : "method" \in S
    OBVIOUS
  <2>2. methods \in Seq(S)
    BY <2>1, IsASeq
  <2> QED BY <2>2
<1>2. maps \in Seq(S) /\ Len(maps) = n
  <2>1. maps \in Seq(S)
    BY SeqMonotonic
  <2>2. Len(maps) \in Nat /\ 1 .. Len(maps) = 1 .. n
    BY LenProperties
  <2> QED BY <2>1, <2>2
<1> HIDE DEF methods, S
<1>3. /\ tail \in Seq(S) /\ Len(tail) = v + n
      /\ \A i \in 1 .. v + n : tail[i] = IF i <= v THEN methods[i] ELSE maps[i - v]
  BY <1>1, <1>2, ConcatProperties
<1> HIDE DEF tail
<1>4. \A i \in v + 1 .. v + n : tail[i] \in S
  BY <1>3, ElementOfSeq
<1>5. /\ found \in Seq(S) /\ Len(found) = n
      /\ \A i \in 1 .. n : found[i] = tail[v + i]
  <2>0. v + 1 \in Int /\ v + n \in Int
    OBVIOUS
  <2>1. /\ found \in Seq(S)
        /\ Len(found) = IF v + 1 <= v + n THEN (v + n) - (v + 1) + 1 ELSE 0
        /\ \A i \in 1 .. (v + n) - (v + 1) + 1 : found[i] = tail[(v + 1) + i - 1]
    BY <1>4, <2>0, SubSeqProperties
  <2>2. \A i \in 1 .. n : i \in 1 .. (v + n) - (v + 1) + 1 /\ (v + 1) + i - 1 = v + i
    OBVIOUS
  <2>3. (IF v + 1 <= v + n THEN (v + n) - (v + 1) + 1 ELSE 0) = n
    OBVIOUS
  <2> QED BY <2>1, <2>2, <2>3
<1>6. ASSUME NEW i \in 1 .. n PROVE tail[v + i] = maps[i]
  <2>1. v + i \in 1 .. v + n /\ ~(v + i <= v) /\ (v + i) - v = i
    OBVIOUS
  <2> QED BY <1>3, <2>1
<1> HIDE DEF found
<1>7. found = maps
  BY <1>2, <1>5, <1>6, SeqEqual
<1> QED BY <1>7 DEF found, tail, methods

\* The oop maps of a class: a block for each run of reference fields.
LEMMA OopMapsFacts ==
  ASSUME NEW c \in BOOLEAN, NEW refs \in SUBSET (0 .. NFields - 1)
  PROVE  LET maps == OopMaps(c, c, refs)
             blocks == SetToSeq(Runs(refs))
             n == Cardinality(Runs(refs))
         IN /\ n \in Nat /\ DOMAIN maps = 1 .. n /\ maps \in Seq(Range(maps)) /\ Len(maps) = n
            /\ \A i \in 1 .. n : /\ blocks[i] \in Runs(refs)
                                 /\ maps[i].offset = FieldOffset(c, c, blocks[i][1])
                                 /\ maps[i].count = blocks[i][2]
<1> DEFINE maps == OopMaps(c, c, refs)
           blocks == SetToSeq(Runs(refs))
           n == Cardinality(Runs(refs))
<1>1. n \in Nat /\ blocks \in [1 .. n -> Runs(refs)]
  BY RunsFinite, SetToSeqFacts
<1> HIDE DEF blocks, n
<1>2. maps = [i \in 1 .. n |-> [offset |-> FieldOffset(c, c, blocks[i][1]),
                                count |-> blocks[i][2]]]
  BY <1>1 DEF OopMaps, blocks
<1> HIDE DEF maps
<1>3. DOMAIN maps = 1 .. n /\ \A i \in 1 .. n : maps[i] \in Range(maps)
  BY <1>2 DEF Range
<1>4. maps = [i \in 1 .. n |-> maps[i]]
  BY <1>2
<1>5. [i \in 1 .. n |-> maps[i]] \in Seq(Range(maps))
  BY <1>1, <1>3, IsASeq
<1>6. maps \in Seq(Range(maps))
  BY <1>4, <1>5
<1>7. Len(maps) = n
  <2>1. Len(maps) \in Nat /\ 1 .. Len(maps) = 1 .. n
    BY <1>3, <1>6, LenProperties
  <2> QED BY <1>1, <2>1
<1>8. \A i \in 1 .. n : /\ blocks[i] \in Runs(refs)
                        /\ maps[i].offset = FieldOffset(c, c, blocks[i][1])
                        /\ maps[i].count = blocks[i][2]
  BY <1>1, <1>2
<1> QED BY <1>1, <1>3, <1>6, <1>7, <1>8 DEF maps, blocks, n

\* The slots of a run.
LEMMA RunVisits ==
  ASSUME NEW c \in BOOLEAN, NEW a \in Nat, NEW n \in Nat
  PROVE  Visits(SlotsFrom(FieldOffset(c, c, a), n, BytesInOop(c)),
                FieldSlots(c, a .. a + n - 1))
<1>1. PICK start \in {12, 16}, width \in {4, 8} :
        BytesInOop(c) = width /\ \A i \in Nat : FieldOffset(c, c, i) = start + i * width
  BY FieldOffsets
<1>2. start \in Nat
  BY <1>1
<1>3. /\ \A i \in Nat : start + i * width \in Nat
      /\ \A i, j \in Nat : start + (i + j) * width = (start + i * width) + j * width
  BY <1>1, <1>2, SlotsFacts
<1> DEFINE first == FieldOffset(c, c, a)
<1>4. first = start + a * width /\ first \in Nat
  BY <1>1, <1>3
<1>5. \A j \in 0 .. n - 1 : a + j \in a .. a + n - 1 /\ a + j \in Nat /\ j \in Nat
  OBVIOUS
<1>6. \A f \in a .. a + n - 1 : f - a \in 0 .. n - 1 /\ a + (f - a) = f
  OBVIOUS
<1>7. \A j \in 0 .. n - 1 : FieldOffset(c, c, a + j) = first + j * width
  <2> TAKE j \in 0 .. n - 1
  <2>1. FieldOffset(c, c, a + j) = start + (a + j) * width
    BY <1>1, <1>5
  <2>2. start + (a + j) * width = (start + a * width) + j * width
    BY <1>3, <1>5
  <2> QED BY <1>4, <2>1, <2>2
<1> HIDE DEF first
<1>8. {first + j * width : j \in 0 .. n - 1} = FieldSlots(c, a .. a + n - 1)
  <2>1. \A j \in 0 .. n - 1 : first + j * width \in FieldSlots(c, a .. a + n - 1)
    BY <1>5, <1>7 DEF FieldSlots
  <2>2. \A f \in a .. a + n - 1 : FieldOffset(c, c, f) = first + (f - a) * width
    BY <1>6, <1>7
  <2>3. \A f \in a .. a + n - 1 : FieldOffset(c, c, f) \in {first + j * width : j \in 0 .. n - 1}
    BY <1>6, <2>2
  <2> QED BY <2>1, <2>3 DEF FieldSlots
<1>9. Visits(SlotsFrom(first, n, width), {first + j * width : j \in 0 .. n - 1})
  BY <1>1, <1>4, VisitsBlock
<1> QED BY <1>1, <1>8, <1>9 DEF first

\* Different fields have different slots.
LEMMA FieldSlotsDisjoint ==
  ASSUME NEW c \in BOOLEAN, NEW F, F \subseteq Nat, NEW G, G \subseteq Nat, F \cap G = {}
  PROVE  FieldSlots(c, F) \cap FieldSlots(c, G) = {}
<1>1. PICK start \in {12, 16}, width \in {4, 8} :
        \A i \in Nat : FieldOffset(c, c, i) = start + i * width
  BY FieldOffsets
<1>2. \A i, j \in Nat : start + i * width = start + j * width => i = j
  BY <1>1, SlotsFacts
<1>3. \A i \in F, j \in G : FieldOffset(c, c, i) # FieldOffset(c, c, j)
  BY <1>1, <1>2
<1> QED BY <1>3 DEF FieldSlots

\* The blocks of the oop maps have the slots of all reference fields.
LEMMA BlocksVisit ==
  ASSUME NEW c \in BOOLEAN, NEW refs \in SUBSET (0 .. NFields - 1)
  PROVE  LET maps == OopMaps(c, c, refs)
         IN  Visits(FlattenSeq([i \in DOMAIN maps |-> OopMapBlockIterate(c, maps[i])]),
                    FieldSlots(c, refs))
<1> DEFINE maps == OopMaps(c, c, refs)
           blocks == SetToSeq(Runs(refs))
           n == Cardinality(Runs(refs))
           seqs == [i \in 1 .. n |-> OopMapBlockIterate(c, maps[i])]
           sets == [i \in 1 .. n |-> FieldSlots(c, Fields(blocks[i]))]
<1>1. /\ n \in Nat /\ DOMAIN maps = 1 .. n
      /\ \A i \in 1 .. n : /\ blocks[i] \in Runs(refs)
                           /\ maps[i].offset = FieldOffset(c, c, blocks[i][1])
                           /\ maps[i].count = blocks[i][2]
  BY OopMapsFacts
<1>2. /\ \A i, j \in 1 .. n : blocks[i] = blocks[j] => i = j
      /\ \A r \in Runs(refs) : \E i \in 1 .. n : blocks[i] = r
  BY RunsFinite, SetToSeqFacts
<1> HIDE DEF maps, blocks, n
<1>3. \A r \in Runs(refs) : /\ r[1] \in Nat /\ r[2] \in Nat
                            /\ Fields(r) \subseteq refs /\ Fields(r) \subseteq Nat
  <2>1. refs \subseteq Nat
    BY ShapesAssumption
  <2> QED BY <2>1, RunFacts
<1>4. ASSUME NEW i \in 1 .. n PROVE Visits(seqs[i], sets[i])
  <2>1. seqs[i] = SlotsFrom(FieldOffset(c, c, blocks[i][1]), blocks[i][2], BytesInOop(c))
    BY <1>1 DEF OopMapBlockIterate
  <2>2. sets[i] = FieldSlots(c, blocks[i][1] .. blocks[i][1] + blocks[i][2] - 1)
    BY DEF Fields
  <2>3. blocks[i][1] \in Nat /\ blocks[i][2] \in Nat
    BY <1>1, <1>3
  <2> HIDE DEF seqs, sets
  <2> QED BY <2>1, <2>2, <2>3, RunVisits
<1>5. ASSUME NEW i \in 1 .. n, NEW j \in 1 .. n, i # j PROVE sets[i] \cap sets[j] = {}
  <2>1. blocks[i] \in Runs(refs) /\ blocks[j] \in Runs(refs) /\ blocks[i] # blocks[j]
    BY <1>1, <1>2, <1>5
  <2>2. Fields(blocks[i]) \cap Fields(blocks[j]) = {}
    BY <2>1, RunsDisjoint
  <2>3. Fields(blocks[i]) \subseteq Nat /\ Fields(blocks[j]) \subseteq Nat
    BY <1>3, <2>1
  <2>4. FieldSlots(c, Fields(blocks[i])) \cap FieldSlots(c, Fields(blocks[j])) = {}
    BY <2>2, <2>3, FieldSlotsDisjoint
  <2> QED BY <2>4
<1>6. UNION {sets[i] : i \in 1 .. n} = FieldSlots(c, refs)
  <2>1. ASSUME NEW f \in refs PROVE \E i \in 1 .. n : f \in Fields(blocks[i])
    <3>1. PICK r \in Runs(refs) : f \in Fields(r)
      BY RunsCover
    <3> QED BY <1>2, <3>1
  <2>2. \A i \in 1 .. n : Fields(blocks[i]) \subseteq refs
    BY <1>1, <1>3
  <2> QED BY <2>1, <2>2 DEF FieldSlots
<1>7. seqs \in Seq(Seq(Nat)) /\ DOMAIN seqs = 1 .. n
  <2>1. \A i \in 1 .. n : OopMapBlockIterate(c, maps[i]) \in Seq(Nat)
    BY <1>4 DEF Visits
  <2>2. [i \in 1 .. n |-> OopMapBlockIterate(c, maps[i])] \in Seq(Seq(Nat))
    BY <1>1, <2>1, IsASeq
  <2> QED BY <2>2
<1> HIDE DEF seqs, sets
<1> DEFINE S == UNION {sets[i] : i \in 1 .. n}
<1>8. Visits(FlattenSeq(seqs), S)
  <2>1. n \in Nat
    BY <1>1
  <2>2. \A i \in 1 .. n : Visits(seqs[i], sets[i])
    BY <1>4
  <2>3. \A i, j \in 1 .. n : i # j => sets[i] \cap sets[j] = {}
    BY <1>5
  <2>4. S = UNION {sets[i] : i \in 1 .. n}
    OBVIOUS
  <2> HIDE DEF S
  <2> QED BY <1>7, <2>1, <2>2, <2>3, <2>4, VisitsAll
<1>9. FlattenSeq([i \in DOMAIN maps |-> OopMapBlockIterate(c, maps[i])]) = FlattenSeq(seqs)
  BY <1>1 DEF seqs
<1> QED BY <1>6, <1>8, <1>9 DEF maps

\* The slots of an instance's fields, whatever methods come before the oop maps.
LEMMA InstanceVisits ==
  ASSUME NEW c \in BOOLEAN, NEW s, s.refs \in SUBSET (0 .. NFields - 1),
         s.vtable + s.itable \in Nat
  PROVE  Visits(InstanceIterate(c, Class(c, c, s)), FieldSlots(c, s.refs))
<1> DEFINE maps == OopMaps(c, c, s.refs)
           n == Cardinality(Runs(s.refs))
           v == s.vtable + s.itable
           k == Class(c, c, s)
<1>1. n \in Nat /\ DOMAIN maps = 1 .. n /\ maps \in Seq(Range(maps)) /\ Len(maps) = n
  BY OopMapsFacts
<1>2. /\ k.vtable_len + k.itable_len = v /\ k.nonstatic_oop_map_size = Len(maps)
      /\ k.tail = [i \in 1 .. v |-> "method"] \o maps
  BY DEF Class
<1> HIDE DEF maps, n, v, k
<1>3. SubSeq([i \in 1 .. v |-> "method"] \o maps, v + 1, v + n) = maps
  BY <1>1, OopMapsFound DEF v
<1>4. NonstaticOopMaps(k) = maps
  BY <1>1, <1>2, <1>3 DEF NonstaticOopMaps
<1>5. Visits(FlattenSeq([i \in DOMAIN maps |-> OopMapBlockIterate(c, maps[i])]),
             FieldSlots(c, s.refs))
  BY BlocksVisit DEF maps
<1> QED BY <1>4, <1>5 DEF InstanceIterate, k

-------------------------------------------------------------------------------
(***************************************************************************)
(* The slots of an object, as the Rust half finds them.                    *)
(***************************************************************************)

\* The slots of an array's elements, or of a mirror's static fields.
LEMMA ElementsVisit ==
  ASSUME NEW c \in BOOLEAN, NEW start \in Nat, NEW n \in Nat
  PROVE  /\ Visits(SlotsFrom(start, n, BytesInOop(c)), Range(SlotsFrom(start, n, OopBytes(c))))
         /\ \A x \in Range(SlotsFrom(start, n, OopBytes(c))) : x \in Nat /\ x >= start
<1>1. PICK width \in {4, 8} : BytesInOop(c) = width /\ OopBytes(c) = width
  BY FieldOffsets
<1>2. Visits(SlotsFrom(start, n, width), {start + i * width : i \in 0 .. n - 1})
  BY VisitsBlock
<1>3. \A i \in 0 .. n - 1 : start + i * width \in Nat /\ start + i * width >= start
  <2>1. CASE width = 4
    BY <2>1
  <2>2. CASE width = 8
    BY <2>2
  <2> QED BY <2>1, <2>2
<1> QED BY <1>1, <1>2, <1>3 DEF Visits

\* Each kind of object has its strong slots visited.
LEMMA ScanFacts ==
  ASSUME NEW c \in BOOLEAN, NEW s \in Shapes, NEW base, NEW shift,
         NEW no_reference_types \in BOOLEAN
  PROVE  Visits(OopIterate(c, HotSpotObject(c, c, s, base, shift), no_reference_types),
                StrongSlots(c, c, s, no_reference_types))
<1> DEFINE o == HotSpotObject(c, c, s, base, shift)
           k == Class(c, c, s)
           extra == IF no_reference_types \/ s.type \in {"Final", "Other"}
                      THEN <<FieldOffset(c, c, Referent)>> ELSE <<>>
<1>1. /\ o.class = k /\ o.offset_of_static_fields = InstanceBytes(c, c)
      /\ o.static_oop_field_count = s.len /\ k.id = s.id /\ k.reference_type = s.type
      /\ o.referent_offset = FieldOffset(c, c, Referent)
      /\ o.discovered_offset = FieldOffset(c, c, Discovered)
  BY DEF HotSpotObject, Class
<1>2. /\ s.refs \in SUBSET (0 .. NFields - 1) /\ s.vtable + s.itable \in Nat /\ s.len \in Nat
      /\ s.id \in {"Instance", "InstanceClassLoader", "InstanceMirror", "InstanceRef",
                   "ObjArray", "TypeArray"}
  BY ShapesAssumption DEF IsShape
<1>3. Visits(InstanceIterate(c, k), FieldSlots(c, s.refs))
  BY <1>2, InstanceVisits
<1>4. IsArray(s) => Length(c, o) = s.len
  BY LengthFacts
<1>5. PICK start \in {12, 16}, width \in {4, 8} :
        /\ \A i \in Nat : FieldOffset(c, c, i) = start + i * width
        /\ InstanceBytes(c, c) >= start + NFields * width
  BY FieldOffsets
<1> HIDE DEF o, k
<1>6. CASE s.id \in {"Instance", "InstanceClassLoader"}
  <2>1. OopIterate(c, o, no_reference_types) = InstanceIterate(c, k)
    BY <1>1, <1>6 DEF OopIterate
  <2>2. StrongSlots(c, c, s, no_reference_types) = FieldSlots(c, s.refs)
    BY <1>6 DEF StrongSlots, FieldSlots, Range
  <2> QED BY <1>3, <2>1, <2>2 DEF o
<1>7. CASE s.id = "InstanceMirror"
  <2> DEFINE statics == SlotsFrom(InstanceBytes(c, c), s.len, BytesInOop(c))
             T == Range(SlotsFrom(InstanceBytes(c, c), s.len, OopBytes(c)))
  <2>1. OopIterate(c, o, no_reference_types) = InstanceIterate(c, k) \o statics
    BY <1>1, <1>7 DEF OopIterate, MirrorIterate
  <2>2. StrongSlots(c, c, s, no_reference_types) = FieldSlots(c, s.refs) \cup T
    BY <1>7 DEF StrongSlots, FieldSlots
  <2>3. InstanceBytes(c, c) \in Nat
    BY InstanceBytesFacts
  <2>4. Visits(statics, T) /\ \A x \in T : x \in Nat /\ x >= InstanceBytes(c, c)
    BY <1>2, <2>3, ElementsVisit
  <2>5. \A i \in s.refs : FieldOffset(c, c, i) \in Nat /\ FieldOffset(c, c, i) < InstanceBytes(c, c)
    <3>1. NFields \in Nat /\ \A i \in s.refs : i \in Nat /\ i < NFields
      BY <1>2, ShapesAssumption
    <3>2. /\ start + NFields * width \in Nat
          /\ \A i \in s.refs : start + i * width \in Nat /\ start + i * width < start + NFields * width
      <4>1. CASE width = 4
        BY <1>5, <3>1, <4>1
      <4>2. CASE width = 8
        BY <1>5, <3>1, <4>2
      <4> QED BY <1>5, <4>1, <4>2
    <3>3. \A i \in s.refs : FieldOffset(c, c, i) = start + i * width
      BY <1>5, <3>1
    <3> QED BY <1>5, <2>3, <3>2, <3>3
  <2> HIDE DEF statics, T
  <2>6. FieldSlots(c, s.refs) \cap T = {}
    <3>1. \A i \in s.refs : FieldOffset(c, c, i) \notin T
      BY <2>3, <2>4, <2>5
    <3> QED BY <3>1 DEF FieldSlots
  <2> QED BY <1>3, <2>1, <2>2, <2>4, <2>6, VisitsBoth DEF o
<1>8. CASE s.id = "ObjArray"
  <2> DEFINE elements == SlotsFrom(ArrayHeaderBytes(c), s.len, BytesInOop(c))
             T == Range(SlotsFrom(ArrayHeaderBytes(c), s.len, OopBytes(c)))
  <2>1. Base(c) = ArrayHeaderBytes(c) /\ ArrayHeaderBytes(c) \in Nat
    <3> USE DEF Base, HeaderSize, LengthOffset, KlassOffset, ArrayHeaderBytes, HeaderBytes, AlignUp
    <3>1. CASE c
      BY <3>1
    <3>2. CASE ~c
      BY <3>2
    <3> QED BY <3>1, <3>2
  <2>2. OopIterate(c, o, no_reference_types) = elements
    <3>1. Length(c, o) = s.len
      BY <1>4, <1>8 DEF IsArray
    <3>2. OopIterate(c, o, no_reference_types) = ObjArrayIterate(c, o)
      BY <1>1, <1>8 DEF OopIterate
    <3> QED BY <2>1, <3>1, <3>2 DEF ObjArrayIterate
  <2>3. s.refs = {}
    BY <1>8, ShapesAssumption DEF IsShape, IsArray
  <2>4. StrongSlots(c, c, s, no_reference_types) = T
    BY <1>8, <2>3 DEF StrongSlots
  <2>5. Visits(elements, T)
    BY <1>2, <2>1, ElementsVisit
  <2> QED BY <2>2, <2>4, <2>5 DEF o
<1>9. CASE s.id = "TypeArray"
  <2>1. OopIterate(c, o, no_reference_types) = <<>>
    BY <1>1, <1>9 DEF OopIterate
  <2>2. s.refs = {}
    BY <1>9, ShapesAssumption DEF IsShape, IsArray
  <2>3. StrongSlots(c, c, s, no_reference_types) = {}
    BY <1>9, <2>2 DEF StrongSlots, Range
  <2> QED BY <2>1, <2>3, VisitsNone DEF o
<1>10. CASE s.id = "InstanceRef"
  <2> DEFINE visitReferent == no_reference_types \/ s.type \in {"Final", "Other"}
             referent == IF visitReferent THEN {Referent} ELSE {}
  <2>1. OopIterate(c, o, no_reference_types)
          = InstanceIterate(c, k) \o <<FieldOffset(c, c, Discovered)>> \o extra
    BY <1>1, <1>10 DEF OopIterate, RefIterate
  <2>2. StrongSlots(c, c, s, no_reference_types)
          = FieldSlots(c, s.refs \cup {Discovered} \cup referent)
    BY <1>10 DEF StrongSlots, FieldSlots, Range
  <2>3. s.refs \subseteq Nat /\ Discovered \in Nat /\ Referent \in Nat
    BY <1>2, ShapesAssumption DEF Discovered, Referent
  <2>4. s.refs \cap {Discovered} = {} /\ (s.refs \cup {Discovered}) \cap {Referent} = {}
    <3>1. s.refs \cap {Referent, Discovered} = {}
      BY <1>10, ShapesAssumption DEF IsShape
    <3> QED BY <3>1 DEF Discovered, Referent
  <2>5. \A f \in Nat : Visits(<<FieldOffset(c, c, f)>>, FieldSlots(c, {f}))
    <3> TAKE f \in Nat
    <3>1. FieldOffset(c, c, f) \in Nat
      <4>1. start \in Nat
        BY <1>5
      <4> QED BY <1>5, <4>1, SlotsFacts
    <3>2. FieldSlots(c, {f}) = {FieldOffset(c, c, f)}
      BY DEF FieldSlots
    <3> QED BY <3>1, <3>2, VisitsOne
  <2>6. \A F, G : FieldSlots(c, F \cup G) = FieldSlots(c, F) \cup FieldSlots(c, G)
    BY DEF FieldSlots
  <2> DEFINE fields == InstanceIterate(c, k) \o <<FieldOffset(c, c, Discovered)>>
  <2>7. Visits(fields, FieldSlots(c, s.refs \cup {Discovered}))
    <3>1. FieldSlots(c, s.refs) \cap FieldSlots(c, {Discovered}) = {}
      BY <2>3, <2>4, FieldSlotsDisjoint
    <3>2. Visits(fields, FieldSlots(c, s.refs) \cup FieldSlots(c, {Discovered}))
      BY <1>3, <2>3, <2>5, <3>1, VisitsBoth
    <3> QED BY <2>6, <3>2
  <2>8. Visits(extra, FieldSlots(c, referent))
    <3>1. CASE visitReferent
      BY <2>3, <2>5, <3>1
    <3>2. CASE ~visitReferent
      <4>1. FieldSlots(c, {}) = {}
        BY DEF FieldSlots
      <4> QED BY <3>2, <4>1, VisitsNone
    <3> QED BY <3>1, <3>2
  <2>9. FieldSlots(c, s.refs \cup {Discovered}) \cap FieldSlots(c, referent) = {}
    <3>1. (s.refs \cup {Discovered}) \cap referent = {} /\ referent \subseteq Nat
      BY <2>3, <2>4
    <3>2. s.refs \cup {Discovered} \subseteq Nat
      BY <2>3
    <3> HIDE DEF referent
    <3> QED BY <3>1, <3>2, FieldSlotsDisjoint
  <2> HIDE DEF fields, referent, extra
  <2>10. Visits(fields \o extra,
                FieldSlots(c, s.refs \cup {Discovered}) \cup FieldSlots(c, referent))
    BY <2>7, <2>8, <2>9, VisitsBoth
  <2> QED BY <2>1, <2>2, <2>6, <2>10 DEF o, fields
<1> QED BY <1>2, <1>6, <1>7, <1>8, <1>9, <1>10

\* The class of an object is found, with the base and the shift that its class pointer was
\* compressed with.
LEMMA KlassFacts ==
  ASSUME NEW c \in BOOLEAN, NEW s, NEW n \in NarrowKlass, NEW d, c => d = n
  PROVE  KlassField(c, HotSpotObject(c, c, s, n.base, n.shift), d.base, d.shift) = KlassAddress
<1> DEFINE cells == Cells(c, s, n.base, n.shift)
<1>1. HotSpotObject(c, c, s, n.base, n.shift).cells = cells
  BY DEF HotSpotObject
<1>2. CASE c
  <2>1. PICK b \in 0 .. KlassAddress, w \in {1, 8} :
          n.base = b /\ Times(n.shift) = w /\ (KlassAddress - b) % w = 0
    BY NarrowKlassAssumption DEF Times
  <2>2. cells[8] = (KlassAddress - b) \div w
    BY <1>2, <2>1 DEF Cells
  <2>3. b + ((KlassAddress - b) \div w) * w = KlassAddress
    BY <2>1, ShapesAssumption
  <2> QED BY <1>1, <1>2, <2>1, <2>2, <2>3 DEF KlassField, KlassOffset
<1>3. CASE ~c
  <2>1. cells[8] = KlassAddress % HalfWord /\ cells[12] = KlassAddress \div HalfWord
    BY <1>3 DEF Cells
  <2>2. (KlassAddress % HalfWord) + (KlassAddress \div HalfWord) * HalfWord = KlassAddress
    BY ShapesAssumption DEF HalfWord
  <2> QED BY <1>1, <1>3, <2>1, <2>2 DEF KlassField, KlassOffset
<1> QED BY <1>2, <1>3

-------------------------------------------------------------------------------
(***************************************************************************)
(* The invariant of start-up.                                              *)
(***************************************************************************)

\* How far start-up has come.
HasMutator == {"post", "attach", "enable", "spawn", "running"}
HasSingleton == {"threads", "metaspace", "bindmain"} \cup HasMutator
HasWidth == {"defaults", "env", "flagged", "bulk", "heapsize", "init"} \cup HasSingleton
HasArguments == {"flags"} \cup HasWidth
Phases == {"create", "arguments", "exit"} \cup HasArguments

\* What each option is in the end.
FinalOption(o) ==
  IF o = "gc_trigger" THEN PolicySizes ELSE IF o = "plan" /\ forced THEN "build" ELSE Priority(o)

\* What it is on the way there: sources are considered from the lowest priority to the highest.
Default(o) == IF o \in JvmFlags /\ "flag" \notin given[o] THEN "openjdk" ELSE "mmtk-core"
AfterEnv(o) == IF "env" \in given[o] THEN "env" ELSE Default(o)
AfterFlags(o) == IF o \in JvmFlags /\ "flag" \in given[o] THEN "flag" ELSE AfterEnv(o)

CommandInv ==
  /\ phase \in Phases
  /\ flag \in BOOLEAN /\ forced \in BOOLEAN /\ given \in Settings
  /\ phase \in HasArguments => classFlag = flag
  /\ phase \in HasWidth => enabled = flag

\* The builder has what the phases up to now have set.
BuilderInv ==
  /\ builder \in [Options -> Sources]
  /\ \A o \in Options :
       /\ phase \in {"create", "arguments", "flags", "defaults"} => builder[o] = "mmtk-core"
       /\ phase = "env" => builder[o] = Default(o)
       /\ phase = "flagged" => builder[o] = AfterEnv(o)
       /\ phase = "bulk" => builder[o] = AfterFlags(o)
       /\ phase = "heapsize" /\ o # "gc_trigger" => builder[o] = Priority(o)
       /\ phase = "init" => builder[o] = IF o = "gc_trigger" THEN PolicySizes ELSE Priority(o)
       /\ phase \in HasSingleton => builder[o] = FinalOption(o)

\* The singleton is created when nothing changes any more.
SingletonInv ==
  /\ mmtk # None => mmtk = [options |-> [o \in Options |-> FinalOption(o)], compressed |-> flag]
  /\ phase \notin HasSingleton \cup {"exit"} => mmtk = None
  /\ phase \in HasSingleton => mmtk # None /\ upcalls

\* Threads exist by the time they are needed.
LifeInv ==
  /\ thread \in [Threads -> {"none", "created", "listed", "detached", "gone"}]
  /\ mutator \in [Threads -> {"unbound", "bound", "destroyed"}]
  /\ phase \in {"metaspace", "bindmain"} \cup HasMutator => companion
  /\ phase \in {"spawn", "running"} => finalizer
  /\ phase \in {"enable", "spawn", "running"} => thread[Main] = "listed"
  /\ \A t \in Threads : /\ thread[t] \in {"created", "listed", "detached"}
                        /\ t # Main \/ phase \in HasMutator
                        => mutator[t] = "bound"

\* Collections happen when start-up is over, and the list of threads does not change meanwhile.
PauseInv ==
  /\ visited # None => phase = "running" /\ visited = ThreadList
  /\ scan # None => phase = "running"

StartupInv == CommandInv /\ BuilderInv /\ SingletonInv /\ LifeInv /\ PauseInv /\ SizeIsExact

USE ThreadsAssumption, SettingsAssumption, NoneAssumption
USE DEF HasMutator, HasSingleton, HasWidth, HasArguments, Phases

-------------------------------------------------------------------------------
(***************************************************************************)
(* The options.                                                            *)
(***************************************************************************)

\* The last source to be considered is the one with the highest priority.
LEMMA PriorityFacts ==
  ASSUME CommandInv, NEW o \in Options \ {"gc_trigger"}
  PROVE  Priority(o) = IF "bulk" \in given[o] THEN "bulk" ELSE AfterFlags(o)
<1>1. "flag" \in given[o] => o \in JvmFlags
  BY DEF CommandInv, Options, JvmFlags
<1>2. QED
  BY <1>1 DEF Priority, AfterFlags, AfterEnv, Default

\* Steps that leave the command line, the builder and the singleton alone.
LEMMA SameOptions ==
  ASSUME UNCHANGED <<given, forced>>
  PROVE  \A o : /\ Priority(o)' = Priority(o) /\ FinalOption(o)' = FinalOption(o)
                /\ Default(o)' = Default(o) /\ AfterEnv(o)' = AfterEnv(o)
                /\ AfterFlags(o)' = AfterFlags(o)
  BY DEF Priority, FinalOption, PolicySizes, Default, AfterEnv, AfterFlags

\* The options are set in the order of their priorities.
LEMMA BuilderStep ==
  ASSUME StartupInv, UNCHANGED cmdVars,
         \/ SetDefaultOptions \/ ReadEnvVarSettings \/ SetNonDefaultOptions
         \/ ProcessBulk \/ SetHeapSize
  PROVE  BuilderInv'
<1> USE DEF StartupInv, BuilderInv, Step, Exit
<1>1. UNCHANGED <<given, forced>>
  BY DEF cmdVars
<1>2. /\ \A o : /\ Priority(o)' = Priority(o)
                /\ Default(o)' = Default(o) /\ AfterEnv(o)' = AfterEnv(o)
                /\ AfterFlags(o)' = AfterFlags(o)
  BY <1>1, SameOptions
<1>3. /\ {"mmtk-core", "openjdk", "env", "flag", "bulk", "build"} \subseteq Sources
      /\ PolicySizes \in Sources /\ PolicySizes' = PolicySizes
  BY <1>1 DEF Sources, PolicySizes
<1>4. \A source : /\ GivenBy(source) \in SUBSET Options
                  /\ \A o \in Options : o \in GivenBy(source) <=> source \in given[o]
  BY DEF GivenBy
<1>5. CASE SetDefaultOptions
  <2>1. /\ builder' \in [Options -> Sources] /\ phase' = "env"
        /\ \A o \in Options : builder'[o] = IF o \in JvmFlags \ GivenBy("flag") THEN "openjdk"
                                            ELSE builder[o]
    BY <1>3, <1>5 DEF SetDefaultOptions, SetOptions
  <2>2. QED
    BY <1>2, <1>4, <1>5, <2>1 DEF SetDefaultOptions, Default
<1>6. CASE ReadEnvVarSettings
  <2>1. /\ builder' \in [Options -> Sources] /\ phase' = "flagged"
        /\ \A o \in Options : builder'[o] = IF o \in GivenBy("env") THEN "env" ELSE builder[o]
    BY <1>3, <1>6 DEF ReadEnvVarSettings, SetOptions
  <2>2. QED
    BY <1>2, <1>4, <1>6, <2>1 DEF ReadEnvVarSettings, AfterEnv
<1>7. CASE SetNonDefaultOptions
  <2>1. /\ builder' \in [Options -> Sources] /\ phase' = "bulk"
        /\ \A o \in Options : builder'[o] = IF o \in JvmFlags \cap GivenBy("flag") THEN "flag"
                                            ELSE builder[o]
    BY <1>3, <1>7 DEF SetNonDefaultOptions, SetOptions
  <2>2. QED
    BY <1>2, <1>4, <1>7, <2>1 DEF SetNonDefaultOptions, AfterFlags
<1>8. CASE ProcessBulk
  <2>1. CASE phase' = "heapsize" /\ phase = "bulk" /\ builder' = SetOptions(GivenBy("bulk"), "bulk")
    <3>1. /\ builder' \in [Options -> Sources]
          /\ \A o \in Options : builder'[o] = IF o \in GivenBy("bulk") THEN "bulk" ELSE builder[o]
      BY <1>3, <2>1 DEF SetOptions
    <3>2. QED
      BY <1>2, <1>4, <2>1, <3>1, PriorityFacts
  <2>2. QED
    BY <1>8, <2>1 DEF ProcessBulk
<1>9. CASE SetHeapSize
  <2>1. CASE /\ phase' = "init" /\ phase = "heapsize"
             /\ builder' = SetOptions({"gc_trigger"}, PolicySizes)
    <3>1. /\ builder' \in [Options -> Sources]
          /\ \A o \in Options : builder'[o] = IF o \in {"gc_trigger"} THEN PolicySizes ELSE builder[o]
      BY <1>3, <2>1 DEF SetOptions
    <3>2. QED
      BY <1>2, <1>3, <1>4, <2>1, <3>1
  <2>2. QED
    BY <1>9, <2>1 DEF SetHeapSize
<1>10. QED
  BY <1>5, <1>6, <1>7, <1>8, <1>9

-------------------------------------------------------------------------------
(***************************************************************************)
(* Start-up.                                                               *)
(***************************************************************************)
USE DEF StartupInv

\* Start-up is over before the first collection.
LEMMA NoPauseYet ==
  ASSUME StartupInv, phase # "running"
  PROVE  visited = None /\ scan = None
  BY DEF PauseInv

\* A step of start-up changes nothing that a pause relies on.
LEMMA PauseStep ==
  ASSUME StartupInv, phase # "running", UNCHANGED gcVars
  PROVE  PauseInv' /\ SizeIsExact'
<1>1. visited' = None /\ scan' = None
  BY NoPauseYet DEF gcVars
<1>2. QED
  BY <1>1 DEF PauseInv, SizeIsExact

\* A step to a phase that still has no thread but the main one.
LEMMA LifeStep ==
  ASSUME StartupInv, UNCHANGED <<thread, mutator>>,
         phase' \in HasMutator => phase \in HasMutator,
         phase' \in {"metaspace", "bindmain"} \cup HasMutator => companion',
         phase' \in {"spawn", "running"} => finalizer',
         phase' \in {"enable", "spawn", "running"} => phase \in {"enable", "spawn", "running"}
  PROVE  LifeInv'
  BY DEF LifeInv

\* The main thread exists before the heap, and gets no mutator yet.
LEMMA CreateMainThreadPreserves ==
  ASSUME StartupInv, CreateMainThread
  PROVE  StartupInv'
<1>1. /\ phase = "create" /\ phase' = "arguments" /\ mmtk = None
      /\ thread' = [thread EXCEPT ![Main] = "created"]
      /\ UNCHANGED <<flag, narrowKlass, given, forced, classFlag, enabled, builder, upcalls,
                     klassDecode, companion, finalizer, workers, visited, scan, mutator, mmtk>>
  BY DEF CreateMainThread, Step, SingletonInv, NewThread, IsReadyToBind, cmdVars, threadVars, gcVars
<1>2. CommandInv' /\ SingletonInv'
  BY <1>1 DEF CommandInv, SingletonInv
<1>3. BuilderInv'
  BY <1>1 DEF BuilderInv
<1>4. LifeInv'
  BY <1>1 DEF LifeInv, Threads
<1>5. PauseInv' /\ SizeIsExact'
  BY <1>1, PauseStep DEF gcVars
<1>6. QED
  BY <1>2, <1>3, <1>4, <1>5

\* The options are complete when openjdk_gc_init is called.
LEMMA OptionsPreserve ==
  ASSUME StartupInv,
         \/ ArgumentsInitialize \/ EnableCompressedOops
         \/ SetDefaultOptions \/ ReadEnvVarSettings \/ SetNonDefaultOptions
         \/ ProcessBulk \/ SetHeapSize
  PROVE  StartupInv'
<1>1. /\ OptionsUnchanged
      /\ \/ phase = "arguments" /\ phase' \in {"flags", "exit"} /\ classFlag' = flag
            /\ UNCHANGED <<enabled, builder>>
         \/ phase = "flags" /\ phase' = "defaults" /\ enabled' = flag
            /\ UNCHANGED <<classFlag, builder>>
         \/ phase = "flags" /\ phase' = "exit" /\ UNCHANGED <<classFlag, enabled, builder>>
         \/ /\ \/ phase = "defaults" /\ phase' = "env"
               \/ phase = "env" /\ phase' = "flagged"
               \/ phase = "flagged" /\ phase' = "bulk"
               \/ phase = "bulk" /\ phase' \in {"heapsize", "exit"}
               \/ phase = "heapsize" /\ phase' \in {"init", "exit"}
            /\ UNCHANGED <<classFlag, enabled>>
  BY DEF ArgumentsInitialize, EnableCompressedOops, SetDefaultOptions, ReadEnvVarSettings,
         SetNonDefaultOptions, ProcessBulk, SetHeapSize, Step, Exit
<1>2. UNCHANGED <<flag, narrowKlass, given, forced, mmtk, upcalls, klassDecode, companion,
                  finalizer, workers, thread, mutator, visited, scan>>
  BY <1>1 DEF OptionsUnchanged, cmdVars, threadVars, lifeVars, gcVars
<1>3. CommandInv'
  BY <1>1, <1>2 DEF CommandInv
<1>4. BuilderInv'
  <2>1. CASE ArgumentsInitialize \/ EnableCompressedOops
    BY <1>2, <2>1 DEF ArgumentsInitialize, EnableCompressedOops, Step, Exit, BuilderInv
  <2>2. CASE ~(ArgumentsInitialize \/ EnableCompressedOops)
    BY <1>2, <2>2, BuilderStep DEF cmdVars
  <2>3. QED
    BY <2>1, <2>2
<1>5. SingletonInv'
  BY <1>1, <1>2 DEF SingletonInv
<1>6. LifeInv'
  BY <1>1, <1>2, LifeStep
<1>7. PauseInv' /\ SizeIsExact'
  BY <1>1, <1>2, PauseStep DEF gcVars
<1>8. QED
  BY <1>3, <1>4, <1>5, <1>6, <1>7

\* The singleton gets all options, and the width that JVM and Rust half agree on.
LEMMA OpenjdkGcInitPreserves ==
  ASSUME StartupInv, OpenjdkGcInit
  PROVE  StartupInv'
<1> DEFINE planned == IF forced THEN SetOptions({"plan"}, "build") ELSE builder
<1>1. /\ phase = "init" /\ mmtk = None /\ upcalls'
      /\ \/ /\ phase' = "threads" /\ builder' = planned
            /\ mmtk' = [options |-> planned, compressed |-> enabled]
         \/ phase' = "exit" /\ builder' \in {builder, planned} /\ UNCHANGED mmtk
      /\ UNCHANGED <<flag, narrowKlass, given, forced, classFlag, enabled, klassDecode, companion,
                     finalizer, workers, thread, mutator, visited, scan>>
  BY DEF OpenjdkGcInit, SingletonInv, Step, Exit, cmdVars, threadVars, lifeVars, gcVars
<1>2. CommandInv' /\ enabled = flag
  BY <1>1 DEF CommandInv
<1>3. \A o : FinalOption(o)' = FinalOption(o)
  BY <1>1, SameOptions
<1>4. /\ planned \in [Options -> Sources]
      /\ \A o \in Options : planned[o] = FinalOption(o)
  <2>1. \A o \in Options : builder[o] = IF o = "gc_trigger" THEN PolicySizes ELSE Priority(o)
    BY <1>1 DEF BuilderInv
  <2>2. CASE forced
    BY <1>1, <2>1, <2>2 DEF BuilderInv, SetOptions, Sources, FinalOption
  <2>3. CASE ~forced
    BY <1>1, <2>1, <2>3 DEF BuilderInv, FinalOption
  <2>4. QED
    BY <2>2, <2>3
<1> HIDE DEF planned
<1>5. BuilderInv'
  BY <1>1, <1>3, <1>4 DEF BuilderInv
<1>6. SingletonInv'
  <2>1. planned = [o \in Options |-> FinalOption(o)]
    BY <1>4
  <2>2. [options |-> planned, compressed |-> enabled]
          \in [options : [Options -> Sources], compressed : BOOLEAN]
    BY <1>2, <1>4 DEF CommandInv
  <2>3. [o \in Options |-> FinalOption(o)]' = [o \in Options |-> FinalOption(o)]
    BY <1>3
  <2>4. QED
    BY <1>1, <1>2, <2>1, <2>2, <2>3 DEF SingletonInv
<1>7. LifeInv'
  BY <1>1, LifeStep
<1>8. PauseInv' /\ SizeIsExact'
  BY <1>1, PauseStep DEF gcVars
<1>9. QED
  BY <1>2, <1>5, <1>6, <1>7, <1>8

\* From then on options and singleton stay as they are.
LEMMA ConfiguredStep ==
  ASSUME StartupInv, phase \in HasSingleton, phase' \in HasSingleton \cup {"exit"},
         mmtk' \in {mmtk, Singleton},
         UNCHANGED <<flag, given, forced, classFlag, enabled, builder, upcalls>>
  PROVE  CommandInv' /\ BuilderInv' /\ SingletonInv' /\ mmtk' = mmtk
<1>1. UNCHANGED <<flag, given, forced>>
  OBVIOUS
<1>2. mmtk' = mmtk
  BY DEF SingletonInv, Singleton
<1>3. CommandInv'
  BY <1>1 DEF CommandInv
<1>4. \A o : FinalOption(o)' = FinalOption(o)
  BY <1>1, SameOptions
<1>5. BuilderInv'
  BY <1>4 DEF BuilderInv
<1>6. [o \in Options |-> FinalOption(o)]' = [o \in Options |-> FinalOption(o)]
  BY <1>4
<1>7. SingletonInv'
  BY <1>1, <1>2, <1>6 DEF SingletonInv
<1>8. QED
  BY <1>2, <1>3, <1>5, <1>7

LEMMA FinishInitializePreserves ==
  ASSUME StartupInv, FinishInitialize
  PROVE  StartupInv'
<1>1. /\ phase = "threads" /\ ((phase' = "metaspace" /\ companion') \/ phase' = "exit")
      /\ mmtk' = Singleton /\ UNCHANGED <<cmdVars, classFlag, enabled, builder, upcalls>>
      /\ UNCHANGED <<thread, mutator, gcVars>>
  BY DEF FinishInitialize, Step, Exit, lifeVars
<1>2. QED
  BY <1>1, ConfiguredStep, LifeStep, PauseStep DEF FinishInitialize, Step, Exit, cmdVars

LEMMA ChooseNarrowKlassPreserves ==
  ASSUME StartupInv, ChooseNarrowKlass
  PROVE  StartupInv'
<1>1. /\ phase = "metaspace" /\ phase' = "bindmain" /\ mmtk' = mmtk
      /\ UNCHANGED <<flag, given, forced, classFlag, enabled, builder, upcalls>>
      /\ UNCHANGED <<thread, mutator, companion, finalizer, gcVars>>
  BY DEF ChooseNarrowKlass, Step, rustVars, threadVars, lifeVars
<1>2. LifeInv'
  BY <1>1, LifeStep DEF LifeInv
<1>3. QED
  BY <1>1, <1>2, ConfiguredStep, PauseStep

\* The main thread gets its mutator.
LEMMA BindMainThreadPreserves ==
  ASSUME StartupInv, BindMainThread
  PROVE  StartupInv'
<1>1. /\ phase = "bindmain"
      /\ \/ /\ phase' = "post" /\ mutator' = [mutator EXCEPT ![Main] = "bound"]
            /\ mmtk' = Singleton
         \/ phase' = "exit" /\ UNCHANGED <<mutator, mmtk>>
      /\ UNCHANGED <<cmdVars, classFlag, enabled, builder, upcalls, gcVars>>
      /\ UNCHANGED <<thread, companion, finalizer>>
  BY DEF BindMainThread, Step, Exit, Bind, threadVars
<1>2. LifeInv'
  BY <1>1 DEF LifeInv, Threads
<1>3. QED
  BY <1>1, <1>2, ConfiguredStep, PauseStep DEF cmdVars

\* The rest of start-up.
LEMMA EnablingPreserves ==
  ASSUME StartupInv, PostInitialize \/ EnableCollection \/ SpawnGcThread
  PROVE  StartupInv'
<1>1. /\ phase \in {"post", "enable", "spawn"} /\ phase' \in HasMutator \cup {"exit"}
      /\ mmtk' \in {mmtk, Singleton} /\ UNCHANGED <<cmdVars, classFlag, enabled, builder, upcalls>>
      /\ UNCHANGED <<thread, mutator, gcVars, companion>>
      /\ \/ phase = "post" /\ phase' = "attach"
         \/ phase = "enable" /\ phase' = "spawn" /\ finalizer'
         \/ phase = "spawn" /\ phase' \in {"spawn", "running"} /\ UNCHANGED finalizer
         \/ phase' = "exit"
  BY DEF PostInitialize, EnableCollection, SpawnGcThread, Step, Exit, StartUnchanged, threadVars,
         lifeVars
<1>2. LifeInv'
  BY <1>1, LifeStep DEF LifeInv
<1>3. QED
  BY <1>1, <1>2, ConfiguredStep, PauseStep DEF cmdVars

-------------------------------------------------------------------------------
(***************************************************************************)
(* Threads and pauses.                                                     *)
(***************************************************************************)

\* While the VM runs, the list of threads is what it was when the pause began.
LEMMA ListStep ==
  ASSUME StartupInv, phase' = phase, UNCHANGED <<cmdVars, classFlag, gcVars>>,
         visited # None => ThreadList' = ThreadList
  PROVE  PauseInv' /\ SizeIsExact'
<1>1. UNCHANGED <<visited, scan, flag, classFlag>>
  BY DEF gcVars, cmdVars
<1>2. QED
  BY <1>1 DEF PauseInv, SizeIsExact

\* Nor does anything else change that start-up has set.
LEMMA KeptStep ==
  ASSUME StartupInv, phase' = phase,
         UNCHANGED <<cmdVars, classFlag, enabled, builder, mmtk, upcalls>>
  PROVE  CommandInv' /\ BuilderInv' /\ SingletonInv'
<1>1. UNCHANGED <<flag, given, forced>>
  BY DEF cmdVars
<1>2. /\ \A o : /\ Priority(o)' = Priority(o) /\ FinalOption(o)' = FinalOption(o)
                /\ Default(o)' = Default(o) /\ AfterEnv(o)' = AfterEnv(o)
                /\ AfterFlags(o)' = AfterFlags(o)
      /\ PolicySizes' = PolicySizes
  BY <1>1, SameOptions DEF PolicySizes
<1>3. CommandInv'
  BY <1>1 DEF CommandInv
<1>4. BuilderInv'
  BY <1>2 DEF BuilderInv
<1>5. SingletonInv'
  BY <1>1, <1>2 DEF SingletonInv
<1>6. QED
  BY <1>3, <1>4, <1>5

\* A new thread finds mmtk-core and gets a mutator.
LEMMA CreateThreadPreserves ==
  ASSUME StartupInv, NEW t \in Threads, CreateThread(t)
  PROVE  StartupInv'
<1>1. /\ phase \in {"enable", "spawn", "running"} /\ phase' = phase /\ thread[t] = "none"
      /\ mmtk # None
      /\ thread' = [thread EXCEPT ![t] = "created"]
      /\ mutator' = [mutator EXCEPT ![t] = "bound"] /\ mmtk' = Singleton
      /\ UNCHANGED <<cmdVars, classFlag, enabled, builder, upcalls, gcVars, companion, finalizer>>
  BY DEF CreateThread, NewThread, IsReadyToBind, Bind, SingletonInv, LifeUnchanged, threadVars
<1>2. LifeInv'
  BY <1>1 DEF LifeInv
<1>3. ThreadList' = ThreadList
  BY <1>1 DEF ThreadList, LifeInv
<1>4. QED
  BY <1>1, <1>2, <1>3, ConfiguredStep, ListStep DEF cmdVars

\* Threads join and leave the list between pauses only.
LEMMA AttachPreserves ==
  ASSUME StartupInv, NEW t \in Threads, OnThreadAttach(t)
  PROVE  StartupInv'
<1>1. /\ thread[t] = "created" /\ visited = None /\ thread' = [thread EXCEPT ![t] = "listed"]
      /\ \/ t = Main /\ phase = "attach" /\ phase' = "enable"
         \/ t # Main /\ phase' = phase
      /\ UNCHANGED <<cmdVars, classFlag, enabled, builder, upcalls, gcVars, companion, finalizer,
                     mutator, mmtk>>
  BY DEF OnThreadAttach, Step, LifeUnchanged, threadVars
<1>2. LifeInv'
  BY <1>1 DEF LifeInv
<1>3. CASE t = Main
  BY <1>1, <1>2, <1>3, ConfiguredStep, PauseStep DEF cmdVars
<1>4. CASE t # Main
  BY <1>1, <1>2, <1>4, KeptStep, ListStep
<1>5. QED
  BY <1>3, <1>4

LEMMA DetachPreserves ==
  ASSUME StartupInv, NEW t \in Threads, OnThreadDetach(t)
  PROVE  StartupInv'
<1>1. /\ t # Main /\ thread[t] = "listed" /\ visited = None /\ phase' = phase
      /\ thread' = [thread EXCEPT ![t] = "detached"]
      /\ UNCHANGED <<cmdVars, classFlag, enabled, builder, upcalls, gcVars, companion, finalizer,
                     mutator, mmtk>>
  BY DEF OnThreadDetach, LifeUnchanged, threadVars
<1>2. LifeInv'
  BY <1>1 DEF LifeInv, Threads
<1>3. QED
  BY <1>1, <1>2, KeptStep, ListStep

\* The mutator of a thread that has left the list is destroyed: no pause has seen it.
LEMMA DestroyPreserves ==
  ASSUME StartupInv, NEW t \in Threads, OnThreadDestroy(t)
  PROVE  StartupInv'
<1>1. /\ thread[t] = "detached" /\ phase' = phase
      /\ thread' = [thread EXCEPT ![t] = "gone"] /\ mutator' = [mutator EXCEPT ![t] = "destroyed"]
      /\ UNCHANGED <<cmdVars, classFlag, enabled, builder, upcalls, gcVars, companion, finalizer,
                     mmtk>>
  BY DEF OnThreadDestroy, LifeUnchanged, threadVars
<1>2. LifeInv'
  BY <1>1 DEF LifeInv
<1>3. ThreadList' = ThreadList
  BY <1>1 DEF ThreadList, LifeInv
<1>4. QED
  BY <1>1, <1>2, <1>3, KeptStep, ListStep

\* Objects are measured with the widths that HotSpot uses.
LEMMA PausePreserves ==
  ASSUME StartupInv,
         \/ StopAllMutators \/ ResumeMutators
         \/ \E s \in Shapes, no_reference_types \in BOOLEAN : ScanObject(s, no_reference_types)
  PROVE  StartupInv'
<1>1. /\ phase' = phase /\ UNCHANGED <<cmdVars, classFlag, enabled, builder, mmtk, upcalls>>
      /\ UNCHANGED <<companion, finalizer, thread, mutator, flag, narrowKlass>>
  BY DEF StopAllMutators, ResumeMutators, ScanObject, GcUnchanged, rustVars, threadVars, lifeVars,
         cmdVars
<1>2. CommandInv' /\ BuilderInv' /\ SingletonInv'
  BY <1>1, KeptStep
<1>3. LifeInv'
  BY <1>1 DEF LifeInv
<1>4. ThreadList' = ThreadList
  BY <1>1 DEF ThreadList
<1>5. CASE StopAllMutators \/ ResumeMutators
  <2>1. scan' = scan \/ scan' = None
    BY <1>5 DEF StopAllMutators, ResumeMutators
  <2>2. SizeIsExact'
    BY <1>1, <2>1 DEF SizeIsExact
  <2>3. PauseInv'
    BY <1>1, <1>4, <1>5, <2>1 DEF PauseInv, StopAllMutators, ResumeMutators
  <2>4. QED
    BY <1>2, <1>3, <2>2, <2>3
<1>6. ASSUME NEW s \in Shapes, NEW no_reference_types \in BOOLEAN,
             ScanObject(s, no_reference_types)
      PROVE  StartupInv'
  <2>1. visited # None /\ visited' = visited /\ phase = "running"
    BY <1>6 DEF ScanObject, PauseInv
  <2>2. flag \in BOOLEAN /\ classFlag = flag /\ enabled = flag
    BY <2>1 DEF CommandInv
  <2>3. scan'.shape = s /\ scan'.size = Size(enabled, HotSpotObject(flag, classFlag, s,
                                               narrowKlass.base, narrowKlass.shift))
    BY <1>6 DEF ScanObject
  <2>4. SizeIsExact'
    BY <1>1, <2>2, <2>3, SizeFacts DEF SizeIsExact
  <2>5. PauseInv'
    BY <1>1, <1>4, <2>1 DEF PauseInv
  <2>6. QED
    BY <1>2, <1>3, <2>4, <2>5
<1>7. QED
  BY <1>5, <1>6

-------------------------------------------------------------------------------
(***************************************************************************)
(* The invariant, and what follows from it.                                *)
(***************************************************************************)
LEMMA InitStartup == Init => StartupInv
<1> SUFFICES ASSUME Init PROVE StartupInv
  OBVIOUS
<1>1. CommandInv /\ SingletonInv /\ PauseInv /\ SizeIsExact
  BY DEF Init, CommandInv, SingletonInv, PauseInv, SizeIsExact
<1>2. BuilderInv
  BY DEF Init, BuilderInv, Sources
<1>3. LifeInv
  BY DEF Init, LifeInv
<1>4. QED
  BY <1>1, <1>2, <1>3

LEMMA NextStartup == StartupInv /\ [Next]_vars => StartupInv'
<1> SUFFICES ASSUME StartupInv, [Next]_vars PROVE StartupInv'
  OBVIOUS
<1>1. CASE Startup \/ SpawnGcThread
  BY <1>1, CreateMainThreadPreserves, OptionsPreserve, OpenjdkGcInitPreserves,
     FinishInitializePreserves, ChooseNarrowKlassPreserves, BindMainThreadPreserves,
     EnablingPreserves DEF Startup
<1>2. ASSUME NEW t \in Threads,
             \/ CreateThread(t) \/ OnThreadAttach(t) \/ OnThreadDetach(t) \/ OnThreadDestroy(t)
      PROVE  StartupInv'
  BY <1>2, CreateThreadPreserves, AttachPreserves, DetachPreserves, DestroyPreserves
<1>3. CASE \/ StopAllMutators \/ ResumeMutators
           \/ \E s \in Shapes, no_reference_types \in BOOLEAN : ScanObject(s, no_reference_types)
  BY <1>3, PausePreserves
<1>4. CASE UNCHANGED vars
  <2>1. /\ phase' = phase /\ UNCHANGED <<cmdVars, classFlag, enabled, builder, mmtk, upcalls>>
        /\ UNCHANGED <<thread, mutator, companion, finalizer, gcVars>>
    BY <1>4 DEF vars, rustVars, threadVars, lifeVars
  <2>2. LifeInv' /\ ThreadList' = ThreadList
    BY <2>1 DEF LifeInv, ThreadList
  <2>3. QED
    BY <2>1, <2>2, KeptStep, ListStep
<1>5. QED
  BY <1>1, <1>2, <1>3, <1>4 DEF Next

LEMMA StartupInvariant == Spec => []StartupInv
<1> HIDE DEF StartupInv
<1>1. QED
  BY InitStartup, NextStartup, PTL DEF Spec

\* mmtk-core is created once, with the reference width of the JVM and every option but
\* gc_trigger from the source of the highest priority, whatever is given where and whatever
\* fails; and a heap size on the command line takes effect.  Nothing is claimed of a
\* gc_trigger that is given elsewhere: mmtk_set_heap_size overwrites it.
THEOREM OptionsAreFinal == Spec => []CreatedWithFinalOptions
<1>1. StartupInv => CreatedWithFinalOptions
  <2> SUFFICES ASSUME StartupInv, mmtk # None PROVE CreatedWithFinalOptions
    BY DEF CreatedWithFinalOptions
  <2>1. mmtk = [options |-> [o \in Options |-> FinalOption(o)], compressed |-> flag]
    BY DEF SingletonInv
  <2>2. QED
    BY <2>1 DEF CreatedWithFinalOptions, FinalOption, PolicySizes, Options
<1>2. QED
  BY <1>1, StartupInvariant, PTL

\* No collection comes before all that it uses exists, and each sees all Java threads, with
\* mutators that are bound and not destroyed.
THEOREM CollectionsFindAllReady == Spec => []CollectionFindsAllReady
<1>1. StartupInv => CollectionFindsAllReady
  BY DEF CollectionFindsAllReady, PauseInv, SingletonInv, LifeInv, ThreadList, Threads
<1>2. QED
  BY <1>1, StartupInvariant, PTL

\* The Rust half, which knows one width only, finds the exact size of every object: start-up
\* makes sure that class pointers have the width of references.
THEOREM SizesAreExact == Spec => []SizeIsExact
<1>1. StartupInv => SizeIsExact
  OBVIOUS
<1>2. QED
  BY <1>1, StartupInvariant, PTL

-------------------------------------------------------------------------------
(***************************************************************************)
(* Scanning: the second invariant, on top of the first.                    *)
(***************************************************************************)

\* HotSpot's base and shift of class pointers do not change once they are chosen, and the
\* Rust half knows them before there is a collection.
KlassInv ==
  /\ phase \in {"bindmain"} \cup HasMutator => narrowKlass \in NarrowKlass
  /\ phase \in {"attach", "enable", "spawn", "running"} /\ flag => klassDecode = narrowKlass

ScanInv == KlassInv /\ ScanVisitsStrongSlots

\* Steps other than scanning an object keep what was found, or forget it.
LEMMA ScanKept ==
  ASSUME StartupInv, ScanVisitsStrongSlots, flag' = flag,
         scan' = scan \/ scan' = None, phase = "running" => classFlag' = classFlag
  PROVE  ScanVisitsStrongSlots'
<1> SUFFICES ASSUME scan' # None PROVE ScanVisitsStrongSlots'
  BY DEF ScanVisitsStrongSlots
<1>1. scan' = scan /\ scan # None /\ phase = "running"
  BY DEF PauseInv
<1> QED BY <1>1 DEF ScanVisitsStrongSlots

LEMMA InitScan == Init => ScanInv
BY DEF Init, ScanInv, KlassInv, ScanVisitsStrongSlots

LEMMA NextScan == StartupInv /\ ScanInv /\ [Next]_vars => ScanInv'
<1> SUFFICES ASSUME StartupInv, ScanInv, [Next]_vars PROVE ScanInv'
  OBVIOUS
<1> USE DEF ScanInv, Step, Exit
<1>1. CASE CreateMainThread
  <2>1. UNCHANGED <<flag, narrowKlass, classFlag, scan>>
    BY <1>1 DEF CreateMainThread, cmdVars, gcVars
  <2>2. KlassInv'
    BY <1>1, <2>1 DEF CreateMainThread, KlassInv
  <2> QED BY <2>1, <2>2, ScanKept
<1>2. CASE \/ ArgumentsInitialize \/ EnableCompressedOops \/ SetDefaultOptions
           \/ ReadEnvVarSettings \/ SetNonDefaultOptions \/ ProcessBulk \/ SetHeapSize
  <2>1. UNCHANGED <<flag, narrowKlass, scan>> /\ (phase = "running" => classFlag' = classFlag)
    BY <1>2 DEF ArgumentsInitialize, EnableCompressedOops, SetDefaultOptions,
         ReadEnvVarSettings, SetNonDefaultOptions, ProcessBulk, SetHeapSize,
         OptionsUnchanged, cmdVars, gcVars
  <2>2. phase' \notin {"bindmain"} \cup HasMutator
    BY <1>2 DEF ArgumentsInitialize, EnableCompressedOops, SetDefaultOptions,
         ReadEnvVarSettings, SetNonDefaultOptions, ProcessBulk, SetHeapSize
  <2>3. KlassInv'
    BY <2>1, <2>2 DEF KlassInv
  <2> QED BY <2>1, <2>3, ScanKept
<1>3. CASE OpenjdkGcInit \/ FinishInitialize
  <2>1. UNCHANGED <<flag, narrowKlass, classFlag, scan>>
    BY <1>3 DEF OpenjdkGcInit, FinishInitialize, cmdVars, gcVars
  <2>2. phase' \notin {"bindmain"} \cup HasMutator
    BY <1>3 DEF OpenjdkGcInit, FinishInitialize
  <2>3. KlassInv'
    BY <2>1, <2>2 DEF KlassInv
  <2> QED BY <2>1, <2>3, ScanKept
<1>4. CASE ChooseNarrowKlass
  <2>1. UNCHANGED <<flag, classFlag, scan>> /\ phase' = "bindmain" /\ narrowKlass' \in NarrowKlass
    BY <1>4 DEF ChooseNarrowKlass, gcVars
  <2>2. KlassInv'
    BY <2>1 DEF KlassInv
  <2> QED BY <2>1, <2>2, ScanKept
<1>5. CASE BindMainThread
  <2>1. UNCHANGED <<flag, narrowKlass, classFlag, scan>> /\ phase = "bindmain"
        /\ phase' \in {"post", "exit"}
    BY <1>5 DEF BindMainThread, cmdVars, gcVars
  <2>2. KlassInv'
    BY <2>1 DEF KlassInv
  <2> QED BY <2>1, <2>2, ScanKept
<1>6. CASE PostInitialize
  <2>1. UNCHANGED <<flag, narrowKlass, classFlag, scan>>
    BY <1>6 DEF PostInitialize, StartUnchanged, cmdVars, gcVars
  <2>2. KlassInv'
    BY <1>6, <2>1 DEF PostInitialize, KlassInv
  <2> QED BY <2>1, <2>2, ScanKept
<1>7. CASE EnableCollection \/ SpawnGcThread
  <2>1. UNCHANGED <<flag, narrowKlass, classFlag, scan, klassDecode>>
    BY <1>7 DEF EnableCollection, SpawnGcThread, StartUnchanged, cmdVars, gcVars
  <2>2. phase \in {"enable", "spawn"}
    BY <1>7 DEF EnableCollection, SpawnGcThread
  <2>3. KlassInv'
    BY <2>1, <2>2 DEF KlassInv
  <2> QED BY <2>1, <2>3, ScanKept
<1>8. ASSUME NEW t \in Threads,
             \/ CreateThread(t) \/ OnThreadAttach(t) \/ OnThreadDetach(t) \/ OnThreadDestroy(t)
      PROVE  ScanInv'
  <2>1. UNCHANGED <<flag, narrowKlass, classFlag, scan, klassDecode>>
    BY <1>8 DEF CreateThread, OnThreadAttach, OnThreadDetach, OnThreadDestroy, LifeUnchanged,
         cmdVars, gcVars
  <2>2. phase' = phase \/ phase = "attach"
    BY <1>8 DEF CreateThread, OnThreadAttach, OnThreadDetach, OnThreadDestroy
  <2>3. KlassInv'
    BY <2>1, <2>2 DEF KlassInv
  <2> QED BY <2>1, <2>3, ScanKept
<1>9. CASE StopAllMutators \/ ResumeMutators
  <2>1. /\ UNCHANGED <<phase, flag, narrowKlass, classFlag, klassDecode>>
        /\ scan' = scan \/ scan' = None
    BY <1>9 DEF StopAllMutators, ResumeMutators, GcUnchanged, cmdVars, rustVars
  <2>2. KlassInv'
    BY <2>1 DEF KlassInv
  <2> QED BY <2>1, <2>2, ScanKept
<1>10. ASSUME NEW s \in Shapes, NEW no_reference_types \in BOOLEAN,
             ScanObject(s, no_reference_types)
      PROVE  ScanInv'
  <2> DEFINE o == HotSpotObject(flag, flag, s, narrowKlass.base, narrowKlass.shift)
  <2>1. UNCHANGED <<phase, flag, narrowKlass, classFlag, klassDecode>> /\ visited # None
    BY <1>10 DEF ScanObject, GcUnchanged, cmdVars, rustVars
  <2>2. phase = "running" /\ flag \in BOOLEAN /\ classFlag = flag /\ enabled = flag
    BY <2>1 DEF PauseInv, CommandInv
  <2>3. KlassInv'
    BY <2>1 DEF KlassInv
  <2>4. /\ scan'.shape = s /\ scan'.no_reference_types = no_reference_types
        /\ scan'.klass = KlassField(flag, o, klassDecode.base, klassDecode.shift)
        /\ scan'.slots = OopIterate(flag, o, no_reference_types)
    BY <1>10, <2>2 DEF ScanObject
  <2>5. narrowKlass \in NarrowKlass /\ (flag => klassDecode = narrowKlass)
    BY <2>2 DEF KlassInv
  <2>6. scan'.klass = KlassAddress
    BY <2>2, <2>4, <2>5, KlassFacts
  <2>7. Visits(OopIterate(flag, o, no_reference_types),
               StrongSlots(flag, flag, s, no_reference_types))
    BY <2>2, ScanFacts
  <2>8. /\ Range(scan'.slots) = StrongSlots(flag, flag, s, no_reference_types)
        /\ IsInjective(scan'.slots)
    BY <2>4, <2>7 DEF Visits
  <2>9. ScanVisitsStrongSlots'
    BY <2>1, <2>2, <2>4, <2>6, <2>8 DEF ScanVisitsStrongSlots
  <2> QED BY <2>3, <2>9
<1>11. CASE UNCHANGED vars
  <2>1. UNCHANGED <<phase, flag, narrowKlass, classFlag, klassDecode, scan>>
    BY <1>11 DEF vars, cmdVars, rustVars, gcVars
  <2>2. KlassInv'
    BY <2>1 DEF KlassInv
  <2> QED BY <2>1, <2>2, ScanKept
<1> QED BY <1>1, <1>2, <1>3, <1>4, <1>5, <1>6, <1>7, <1>8, <1>9, <1>10, <1>11
        DEF Next, Startup

\* In every layout that HotSpot may have been told to use, and wherever it puts its classes,
\* the Rust half finds the class of an object and visits the slots that hold its strong
\* references, each of them once: a Reference's referent only if it is strong, no reference of
\* any run of fields left out, and the static fields of a mirror after its own.
THEOREM ScansAreExact == Spec => []ScanVisitsStrongSlots
<1>1. ScanInv => ScanVisitsStrongSlots
  BY DEF ScanInv
<1>2. QED
  <2> HIDE DEF StartupInv
  <2> QED BY <1>1, InitScan, NextScan, StartupInvariant, PTL DEF Spec
===============================================================================
