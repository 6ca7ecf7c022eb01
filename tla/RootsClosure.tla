----------------------------- MODULE RootsClosure -----------------------------
(***************************************************************************)
(* How root slots found by C++ code reach mmtk-core: MMTkRootsClosure      *)
(* fills a buffer that is a Rust Vec, hands full buffers over through the  *)
(* SlotsClosure callback and gets an empty one in return                   *)
(* (openjdk/mmtkRootsClosure.hpp, report_slots_and_renew_buffer in         *)
(* mmtk/src/scanning.rs, release_buffer in mmtk/src/api.rs).               *)
(*                                                                         *)
(* A slot is delivered with the tag that tells the Rust side whether it    *)
(* holds a full-width pointer although compressed oops are in use.         *)
(***************************************************************************)
EXTENDS Naturals, Sequences

CONSTANTS
  Slots,             \* root slots that HotSpot may visit
  NarrowSlots,       \* those that hold a narrowOop
  UseCompressedOops, \* the JVM flag
  Capacity,          \* WORK_PACKET_CAPACITY
  MaxVisits          \* bound: how many non-null slots one closure visits

ASSUME SlotsAssumption == NarrowSlots \subseteq Slots /\ UseCompressedOops \in BOOLEAN
ASSUME CapacityAssumption == Capacity \in Nat \ {0}
ASSUME MaxVisitsAssumption == MaxVisits \in Nat

VARIABLES
  pc,         \* "start", "scanning" or "done": the lifetime of the closure
  buffer,     \* the entries of _buffer below _cursor
  cap,        \* _cap
  owned,      \* _buffer points to a Vec that this closure owns
  delivered,  \* what create_process_roots_work has received, in order
  packets,    \* number of its calls
  allocated,  \* number of Vecs created
  released,   \* number of Vecs freed by release_buffer
  visited     \* history: the non-null slots visited, in order

vars == <<pc, buffer, cap, owned, delivered, packets, allocated, released, visited>>

\* do_oop_work sets bit 63 of a full-width slot when compressed oops are in use.
Tag(p) == [slot |-> p, bit63 |-> UseCompressedOops /\ p \notin NarrowSlots]

TaggedSlots == [slot : Slots, bit63 : BOOLEAN]

Init ==
  /\ pc = "start" /\ buffer = <<>> /\ cap = 0 /\ owned = FALSE
  /\ delivered = <<>> /\ packets = 0
  /\ allocated = 0 /\ released = 0 /\ visited = <<>>

\* report_slots_and_renew_buffer(ptr, length, capacity): the Vec behind a non-null
\* pointer becomes a work packet; a new Vec is always returned.
ReportSlotsAndRenewBuffer(hasPtr, content) ==
  /\ delivered' = IF hasPtr THEN delivered \o content ELSE delivered
  /\ packets' = IF hasPtr THEN packets + 1 ELSE packets
  /\ allocated' = allocated + 1
  /\ cap' = Capacity /\ owned' = TRUE

\* The constructor: no buffer to hand over yet.
Construct ==
  /\ pc = "start"
  /\ pc' = "scanning"
  /\ ReportSlotsAndRenewBuffer(FALSE, <<>>)
  /\ UNCHANGED <<buffer, released, visited>>

\* Faulty variant of DoOop: the buffer is flushed one entry too late.
DoOopLateFlush(p) ==
  /\ pc = "scanning" /\ Len(visited) < MaxVisits
  /\ visited' = Append(visited, p)
  /\ IF Len(buffer) + 1 > cap
       THEN ReportSlotsAndRenewBuffer(owned, Append(buffer, Tag(p))) /\ buffer' = <<>>
       ELSE /\ buffer' = Append(buffer, Tag(p))
            /\ UNCHANGED <<cap, owned, delivered, packets, allocated>>
  /\ UNCHANGED <<pc, released>>

\* Faulty variant of DoOop: a full buffer is flushed instead of taking the entry.
DoOopDropOnFlush(p) ==
  /\ pc = "scanning" /\ Len(visited) < MaxVisits
  /\ visited' = Append(visited, p)
  /\ IF Len(buffer) + 1 >= cap
       THEN ReportSlotsAndRenewBuffer(owned, buffer) /\ buffer' = <<>>
       ELSE /\ buffer' = Append(buffer, Tag(p))
            /\ UNCHANGED <<cap, owned, delivered, packets, allocated>>
  /\ UNCHANGED <<pc, released>>

\* do_oop_work for a slot that holds a non-null reference: store it at the cursor,
\* and flush when the buffer is full.  A slot that holds null changes nothing.
DoOop(p) ==
  /\ pc = "scanning" /\ Len(visited) < MaxVisits
  /\ visited' = Append(visited, p)
  /\ IF Len(buffer) + 1 >= cap
       THEN ReportSlotsAndRenewBuffer(owned, Append(buffer, Tag(p))) /\ buffer' = <<>>
       ELSE /\ buffer' = Append(buffer, Tag(p))
            /\ UNCHANGED <<cap, owned, delivered, packets, allocated>>
  /\ UNCHANGED <<pc, released>>

\* Faulty variant of Destruct: only a non-empty buffer is given back.
DestructLeak ==
  /\ pc = "scanning"
  /\ pc' = "done"
  /\ IF Len(buffer) > 0
       THEN /\ delivered' = delivered \o buffer /\ packets' = packets + 1
            /\ allocated' = allocated + 1
            /\ released' = released + 1
       ELSE UNCHANGED <<delivered, packets, allocated, released>>
  /\ buffer' = <<>> /\ owned' = FALSE /\ cap' = Capacity
  /\ UNCHANGED visited

\* The destructor: flush what is left, which renews the buffer once more, then free
\* the buffer that is left.
Destruct ==
  /\ pc = "scanning"
  /\ pc' = "done"
  /\ IF Len(buffer) > 0
       THEN /\ delivered' = delivered \o buffer /\ packets' = packets + 1
            /\ allocated' = allocated + 1
       ELSE UNCHANGED <<delivered, packets, allocated>>
  /\ released' = released + 1
  /\ buffer' = <<>> /\ owned' = FALSE /\ cap' = Capacity
  /\ UNCHANGED visited

Next == \/ Construct \/ Destruct
        \/ \E p \in Slots : DoOop(p)

Spec == Init /\ [][Next]_vars

-------------------------------------------------------------------------------
\* Every variable has the type of the field it stands for.
TypeOK ==
  /\ pc \in {"start", "scanning", "done"}
  /\ buffer \in Seq(TaggedSlots) /\ delivered \in Seq(TaggedSlots)
  /\ visited \in Seq(Slots)
  /\ cap \in Nat /\ owned \in BOOLEAN
  /\ packets \in Nat /\ allocated \in Nat /\ released \in Nat

\* What the buffers must hold: the slots visited so far, tagged.
Expected == [i \in 1..Len(visited) |-> Tag(visited[i])]

\* No root is lost, duplicated or reordered on its way through the buffers, however
\* the flushes fall; when the closure is destroyed all of them have been delivered.
RootsDeliveredOnce ==
  /\ delivered \o buffer = Expected
  /\ pc = "done" => delivered = Expected

\* do_oop_work always writes inside the Vec it was given: there is a buffer, and the
\* cursor is below its capacity.
WritesInBounds == pc = "scanning" => owned /\ Len(buffer) < cap

\* Every Vec is handed over or freed exactly once: at any time the Vecs in existence
\* are those in work packets, those freed and the one the closure owns.
BuffersAccounted ==
  allocated = packets + released + (IF owned THEN 1 ELSE 0)
===============================================================================
