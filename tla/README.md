# A TLA+ model of the MMTk binding for OpenJDK

This directory models the control of `mmtk-openjdk`, the code that lets HotSpot use
MMTk as its garbage collector. The binding has two halves: C++ code inside HotSpot
(`src/openjdk`) and a Rust library (`src/mmtk`) that calls, and is called by, mmtk-core.
Neither HotSpot nor mmtk-core is part of the repository; both are modelled as the
environment, from what the binding's code and comments say about them, and their
definitions are marked `external` in `PROJECT.json`.

## 1. The system

| Component | State | Operations | Interacts with |
|---|---|---|---|
| Stop-the-world protocol (`mmtkVMCompanionThread.*`, `mmtkVMOperation.*`, upcalls in `mmtkUpcalls.cpp`, `collection.rs`) | `_desired_state`, `_reached_state`, `_lock`, `mmtk_start_the_world_count`, `gc_lock` | `mmtk_stop_all_mutators`, `mmtk_resume_mutators`, `mmtk_block_for_gc`, `request`, `run`, `do_mmtk_stw_operation`, prologue and epilogue of the VM operation | GC worker, companion thread, VM thread, Java threads; `Heap_lock`; mmtk-core's WorkerMonitor |
| Finalizer thread (`mmtkFinalizerThread.*`, `enable_collection`) | `instance`, `is_scheduled`, monitor `m`, a pending exception | `initialize`, the entry loop, `schedule` | GC worker at the end of a pause; Java `finalize()` methods |
| Root reporting (`mmtkRootsClosure.hpp`, `scanning.rs`, `gc_work.rs`, `mmtkUpcalls.cpp`) | buffer, cursor, capacity; HotSpot's table of derived pointers | constructor, `do_oop_work`, `flush`, destructor, `report_slots_and_renew_buffer`, `release_buffer`, the scans of each kind of root, `prepare_for_roots_re_scanning` | Vecs cross the language boundary as raw parts; compiled frames |
| Slots and compressed references (`slots.rs`, `lib.rs`, `mmtkHeap.cpp`) | `USE_COMPRESSED_OOPS`, `BASE`, `SHIFT`, heap layout, HotSpot's narrow-oop base and shift | choice of layout, `compress`, `decompress`, load, store, range copy | both sides read and write the same memory |
| Code cache roots (`gc_work.rs`, `api.rs`, `mmtkHeap.cpp`) | nursery map, mature map, a thread-local cache | register, unregister, `ScanCodeCacheRoots` | compiler threads, sweeper, GC workers |
| Object barrier (`mmtkObjectBarrier.*`, `mmtkBarrierSet*.*`) | unlog bits, modified-object buffers | store, array copy, clone, allocation slow path, thread exit, in runtime, assembler, C1 and C2 code | generational collections |
| SATB barrier (`mmtkSATBBarrier.*`, `mmtkBarrierSet*.*`, `collection.rs`) | unlog bits, `CONCURRENT_MARKING_ACTIVE` | store, weak load, array copy, clone, in four kinds of code | concurrent marking |
| Allocation (`mmtkBarrierSetAssembler_x86.cpp`, `mmtkBarrierSetC2.cpp`, `mmtkMutator.cpp`) | cursor and limit of each thread's buffer, valid-object bits | `eden_allocate`, `expand_allocate`, `MMTkMutatorContext::alloc` | mmtk-core's buffers and large-object space |
| Reference processing (`mmtkUpcalls.cpp`, `reference_glue.rs`) | HotSpot's pending list | `enqueue_references`, notification under `Heap_lock` | Reference handler thread |
| Thread lifecycle (`mmtkBarrierSet.cpp`, `mmtkMutator.*`, `mmtkCollectorThread.*`, `active_plan.rs`) | the mutator of each thread, the number of collector threads | bind, attach, detach, flush, destroy, enumerate, spawn | start-up, pauses |
| Object scanning (`object_scanning.rs`, `abi.rs`, `object_model.rs`) | none | slots and size of an object | reads HotSpot's class data |
| Start-up and options (`mmtkHeap.cpp`, `thirdPartyHeapArguments.cpp`, `api.rs`, `lib.rs`) | flags, the builder's options, two lazy singletons, the encoding of class pointers | `ThirdPartyHeapArguments::initialize`, `initialize`, `post_initialize`, `enable_collection` | all of the above |

What is hard here, and hardly reachable by a test:

* five kinds of thread, four locks and HotSpot's safepoints interleave around each pause;
  a counter is written without the lock under which it is read;
* every barrier exists four times, each time with other rules for leaving it out, and each
  rule relies on a fact that a safepoint in the wrong place would make stale;
* C++ and Rust interpret the same words in memory, with an encoding that depends on the
  heap's size;
* buffers and maps change owner while other threads may use them;
* a linked list runs through a field of Java objects that collector and handler thread both
  write, and arrays that feed it hold duplicates;
* what start-up sets up in a dozen steps is used by collections that may begin at once;
* sizes, addresses and narrow references sit at the limits of their words.

`PROJECT.json` lists these hazards one by one, with the properties that watch over them.

## 2. Modules

| Module | Models | Extended by |
|---|---|---|
| `StopTheWorld` | the stop-the-world protocol | `StopTheWorldRefinement`, `StopTheWorldProofs`, `MCStopTheWorld` |
| `GCPause` | what the binding promises mmtk-core about a pause (abstract) | instantiated by `StopTheWorldRefinement` |
| `FinalizerThread` | the finalizer thread | `ReferenceHandlingProofs`, `MCFinalizerThread` |
| `RootsClosure` | buffers of root slots | `RootScanning` |
| `RootScanning` | the scans of a pause and derived pointers, composed with `RootsClosure` | `RootsProofs`, `MCRoots` |
| `CompressedOops` | layouts, encoding, slots | `CompressedOopsProofs`, `MCCompressedOops` |
| `CodeCacheRoots` | roots in compiled code | `RootsProofs`, `MCRoots` |
| `ObjectBarrier` | generational write barrier | `ObjectBarrierProofs`, `MCObjectBarrier` |
| `SATBBarrier` | snapshot-at-the-beginning barriers | `SATBBarrierProofs`, `MCSATBBarrier` |
| `AllocFastpath` | allocation | `AllocFastpathProofs`, `MCAllocFastpath` |
| `ReferencePending` | References from scanning to the handler | `ReferenceHandlingProofs`, `MCReferencePending` |
| `ObjectScanning` | classes, slots and sizes of objects (operators only) | `HeapStartup` |
| `HeapStartup` | start-up, options, thread lifecycle, and scanning in the pauses that follow | `HeapStartupProofs`, `MCHeapStartup` |

`ReferenceHandlingProofs` and `RootsProofs` each extend two components, whose definitions
therefore have different names (`InitFinalizer`, `NextCodeCache`, `codeCacheVars`, ...); the
components share no state. `MCRoots` puts two of them side by side for the same reason: one moves
while the other rests in an initial state.

Definitions called "Faulty variant of ..." are deliberate mistakes. They are not part of
any specification: each stands beside the definition it would replace, and the property
that is meant to notice the mistake does notice it.

**StopTheWorld.** One variable per field (`desired`, `reached`, `count`), one program
counter per thread, and the VM thread's queue. A section of code under `_lock` is one
step, as everything it touches is protected by `_lock`. `mmtk_block_for_gc` reads the
counter, enters the blocked state, takes `gc_lock`, tests, waits and leaves in separate
steps, because the counter is incremented without `gc_lock`. The VM thread (external)
executes batches of operations at safepoints and may leave the companion thread asleep
until a later batch, which is the situation that the comment at
`mmtkVMCompanionThread.cpp:133-162` is about. `wait_for_reached` has no caller and is left
out. `GCPause` has four variables and seven actions: a mutator that blocks for a
collection runs again only after one has finished that began later, and none runs while
the world is stopped.

**FinalizerThread.** `ThreadBlockInVM` and the monitor are separate steps in the order in
which the scopes open and close. The collector is reduced to a pause that finds some
objects dead and calls `schedule`.

**RootsClosure.** The Vec is the sequence of its entries together with the counts of Vecs
created, handed over and freed. Which slots HotSpot visits is arbitrary.

**RootScanning.** A pause creates a work packet for each Java thread and each other kind of
root; a packet makes an upcall, whose closure is that of `RootsClosure`. HotSpot's walk
over a compiled frame puts a derived pointer into `DerivedPointerTable` (external) before
it visits the base. mmtk-core updates slots at any time after it has received their
packet; a compacting plan scans twice and updates only what the second scan reports. The
packets run one after the other, as they share nothing but the table, which HotSpot locks.

**CompressedOops.** Memory is an array of 32-bit words, so that a store of the wrong width
damages its neighbour. 2^30 and 4096 are parameters. `MMTkHeap::initialize` is split into
its phases, in their order.

**CodeCacheRoots.** `unregister_nmethod` is two steps, one per lock;
`ScanCodeCacheRoots` holds the mature lock over both of its steps. Slots hold young or old
references, and every collection makes the survivors old.

**ObjectBarrier, SATBBarrier.** A store is a choice of a kind of code, the rule of that
kind for leaving out the barrier, the test of the unlog bit, the slow path, and the
store, in the order of the code (the object barrier follows the store, the SATB barrier
precedes it). In the concurrent plan an object that is marked is not scanned again, neither
by the marker nor in the final pause: `WillBeMarked` follows the fields of the other
objects only, so that what a marked object refers to has to be found in another way. Objects
have one field. Registers, addressing of the side metadata and
unpatched code are abstracted to the choice of the path.

**AllocFastpath.** Addresses count granules of 8 bytes. The comparisons keep the width and
the signedness of their operands: the assembler's immediate operand is truncated to 32
bits and sign-extended, C2 compares signed 64-bit values, and the sum of cursor and size
wraps around. The byte of valid-object bits is loaded and stored in two steps.

**ReferencePending.** The pending list is what it is in the program: a head and the
`discovered` fields. The loop of `mmtk_enqueue_references` is a recursive function over its
index (`LinkedAfter`), on an array in which mmtk-core (external) may name a Reference any
number of times; how long arrays may be is a constant (`ArrayLengths`).
The nodes of a list are the smallest set that contains the head and follows the links
(`Chain`), which is the same for lists that end and for cycles. `Heap_lock` is held from prologue to epilogue of the
VM operation, across the pause and a little longer than the pause; the handler thread
(external) takes it to test, to sleep and to take the list, and unlinks without it. The
application drops and clears References at any time.

**ObjectScanning.** A shape describes an object without regard to widths; which shapes there
are is a constant. External
operators lay it out as HotSpot does for any combination of the two flags; the operators of
the Rust half read class, length, oop maps and layout helper back from that layout with
their one switch. Bits of the layout helper are arithmetic on a signed 32-bit number.

**HeapStartup.** One step of the main thread for each phase of start-up, with the failures
that end it. The value of an option is the name of the source it came from, so that the
invariants can ask who won; the heap size is the value of `gc_trigger`, with `-Xms` and `-Xmx`
as its flags. HotSpot chooses the encoding of class pointers (`ChooseNarrowKlass`, external)
between `initialize` and `post_initialize`. Forcing a singleton creates mmtk-core with the options of that
moment, from whatever call it comes. Once collections are enabled, threads come and go,
pauses enumerate them, and each pause scans any of the shapes with the widths and the class
encoding that start-up has left behind.

## 3. Model checking

| Run | States | Shows |
|---|---|---|
| `stop_the_world` | 12,278 | no mutator runs in a pause (`WorldIsStopped`); the code's assertions hold; a mutator waits only for a collection that is on its way (`WaiterHasGC`) and its notification is not lost (`NoLostWakeup`); `GCPause` is implemented; a blocked mutator runs again and every pause ends |
| `finalizer` | 1,998 | whoever waits, wakes or drains, no ready object is left without a request or a thread on its way to it (`ReadyObjectsAnnounced`); the monitor does not block a pause; every ready object is finalized unless a `finalize()` throws |
| `finalizer_throws` | 424 | violated: after an exception, later objects are dropped (finding below) |
| `roots` | 1,072,524 | every root is delivered once, in order and with its tag; writes stay in the buffer; every Vec is handed over or freed once; roots and derived pointers follow the objects that move; a nursery collection misses no young reference in code; a full one misses no slot; no slot of freed code is remembered or reported; only slots of a method are registered for it |
| `compressed_oops` | 10,987 | encoding is lossless below the last page; the heap fits its range; Rust and HotSpot read back the same references |
| `compressed_last_page` | | violated: the last page of the 33 GB layout has no encoding (finding below) |
| `object_barrier` | 460,615 | every old object with a young reference is remembered when a collection begins; no reference dangles; who skips the slow path relies on an object that is really remembered |
| `satb_barrier` | 2,534,436 | everything in the snapshot, and everything the stacks hold, survives the collection; no reference dangles |
| `alloc_fastpath` | 1,237,423 | every granule has one owner; valid-object bits are exact at safepoints; no object that is above the limit with its header lies in the default space |
| `reference_pending` | 57,188 | every cleared Reference is on exactly one list, however often the arrays name it; links do not outlive their list and nothing on a list is freed; every cleared Reference is handled in the end |
| `heap_startup` | 269,956 | mmtk-core is created once, with the right width and, `gc_trigger` aside, the options of the highest priority; a heap size on the command line takes effect; a collection finds upcalls, companion and finalizer threads, and a live mutator in every thread; scanning visits exactly the strong slots; sizes are exact |
| `option_priorities` | | violated: HotSpot's default heap sizes overwrite a `gc_trigger` of higher priority (finding below) |

**Bounds.**
* `MaxGCs = 2` and two mutators: a second collection may be requested while the first is
  being wound up, which is the only overlap between collections; one mutator can wait while
  the other requests, runs a VM operation or holds `Heap_lock`. The proofs remove both
  bounds from the safety properties.
* `Capacity = 2`, a stack of five slots and two roots elsewhere, any of them null: no packet,
  partial, exactly full and more than two packets. The proofs about `RootsClosure` hold for
  all values. Two objects that may change places, two derived pointers, any number of
  pauses.
* `OneG = 32`, `Page = 16`: enough for several granules per page and pages per gigabyte.
  `BoundarySizes` lies on both sides of each comparison in the choice of the layout.
* Two methods, two slots, two threads: unregistering one method races with the
  registration of another and with a pause. The proofs remove the bound.
* Two objects and two mutators for both barriers: the races are between two threads on one
  object; addresses are reused, so that a stale mark or buffer entry shows. In
  `SATBBarrier` one of the two may be a Reference. There is no bound on the number of
  collections.
* Two buffers of exactly one byte of valid-object bits each; words of 8 bits with halves of
  4; size 2, below the limit of 4 granules, size 4, which is at the limit and with a header
  above it, and 250, with which the sum wraps around. Sizes 2 and 4 fill a buffer in several
  ways.
* Two weak References, one phantom and one final: lists of up to three, from two calls of
  `enqueue_references` in one pause, arrays of up to five entries, so that several References
  are named several times, in any order, and any number of collections. The proofs remove the
  bound on the arrays.
* One option given at a time, by any combination of sources, since options do not depend on
  each other; three encodings of class pointers, with and without base and shift; one thread
  beside the main thread; two workers. `SmallShapes`: all kinds of object, with up to two runs
  among five fields, arrays of up to three elements of each size. The proofs remove the bounds
  on options, encodings, threads, workers, fields and lengths.
* Three finalizable objects: one being finalized, one ready, one not yet found dead.

The runs `alloc_fastpath`, `object_barrier` and `satb_barrier`, which check invariants only, use
symmetry in threads or objects. Deadlock is an error everywhere except where the program really
ends, as start-up may fail.

**Fairness.** Weak fairness of the GC worker, the companion thread, the VM thread and of
a mutator on its way through `mmtk_block_for_gc`: they are threads that the operating
system schedules. Strong fairness where a lock is contended or a safepoint may intervene
again and again (`NotifyBlockedMutators`, `DoitPrologue`, leaving a safepoint, and in the
finalizer thread `LockMonitor`, `Schedule`, `FinalizeReturns` and leaving a safepoint):
HotSpot's monitors and safepoints do not pass over the same thread for ever. Strong
fairness of `Yield`: a thread that keeps coming back to Java code meets a safepoint poll.
The Reference handler is treated like the finalizer thread: collections may take
`Heap_lock` and stop it again and again, but not always just when it could go on. No fairness is
assumed of what the application decides (allocating, triggering collections, VM
operations, taking `Heap_lock`) or of spurious wake-ups.

## 4. Proofs

TLAPS checks these theorems for all values of the constants.

* `StopTheWorldProofs`: `InductiveInvariant`, and from it `StopTheWorldIsSafe`,
  `AssertionsNeverFail`, `CounterIsFresh`, `WaitersAreServed`, `WakeupsAreNotLost`,
  `CountMovesWhileStopped`, and `StopTheWorldRefinesPause`, the step simulation of
  `GCPause`. `WorldIsStopped` is not inductive: that no mutator runs follows from the place
  of the VM thread, not from that of the worker. `IInv` therefore adds that the two state
  fields tell exactly where VM thread and worker are (`StatesTrackThreads`), that every VM
  operation is in one place while its requester sleeps (`OperationsTracked`), and that the
  VM thread executes operations only while mutators are stopped. `WaiterHasGC` and
  `NoLostWakeup` need the bound on `next_count` and the whereabouts of a request
  (`NextCountBounded`, `RequestInProgress`). Assumptions: the threads are distinct and
  `MaxGCs` is a natural number.
* `RootsProofs`, root reporting: `RootsAreDelivered`, `BufferIsNeverOverrun`, `NoBufferLeaks` for
  `RootsClosure`; their invariant adds the lifetime of the closure, which owns a buffer of
  full capacity exactly while it scans. `EveryClosureDelivers` shows the same of all closures
  of a pause, and `RootsFollow` that roots and derived pointers end where the objects are.
  For that, `ScanningInv` adds what each slot holds at each stage: the old address until its
  packet has been taken, the new one afterwards (`HeapInv`); where the scan is (`ScanInv`);
  that a derived pointer is at its offset from the base until the walk meets it, and that
  from then on the table knows the offset (`TableInv`); and that a slot that has not been
  updated is in a packet or still to be met (`MetInv`). Assumptions: the capacity is
  positive, the walks of a pause reach every slot, and the base of a derived pointer is met
  once, as a frame belongs to one thread.
* `CompressedOopsProofs`: `CompressionIsLossless`, `HeapAlwaysFits`, from the invariant that
  says which base, shift and range go together; `RustReadsBack`, `HotSpotReadsBack`, from
  the invariant that both halves agree on widths, base and shift (`Agreed`) and that the
  words of every slot hold the code of the reference last written (`MemoryInv`), which a
  store to another slot leaves alone as footprints do not overlap. Assumptions: page and
  gigabyte are multiples of the granule, and no object lies in the last page of the layout
  with a base.
* `RootsProofs`, code cache: `NurseryRootsSuffice`, `FullCollectionMissesNothing`,
  `UnregisteredForGood`, `EntriesAreTheirOwn`. The invariant adds that a method has one
  thread working on it, that registration and patching do not overlap with a pause, that
  the entries of an installed method cover its slots, that slots with young references are
  in the nursery map, and how far the scan has come.
* `ObjectBarrierProofs`: `BarrierIsComplete`, `SkippingIsSafe`, `CollectionsAreSafe`. The
  remembered set is complete at safepoints only, so `BarrierInv` says what holds between
  them: an object is `Covered` if it is remembered where the next collection looks, or if
  the thread that won the race for its bit is on the way to remember it; a young reference
  in an old object is covered or the barrier of its store is still under way; an object
  whose bit is clear is covered; and what C2 takes for freshly allocated is young or
  covered. That nothing dangles needs the conjuncts on allocation as well.
* `SATBBarrierProofs`: `SATBTypes`, `SnapshotIsMarked`, `HeldObjectsAreMarked`,
  `NothingDangles`. That the snapshot will be marked is not inductive: it does not say why a
  store cannot break it. `Settled` are the objects that may be written without a barrier: they
  are marked, logged, past the recording part of a barrier, being allocated, or fresh in
  compiled code. `Sure` is what marking reaches from its queue without looking into settled
  objects, so that no store can take anything away from it (`SureGrows`). `MarkInv` says
  that the snapshot, the stacks, the operands of all threads and whatever a settled object
  refers to are sure. That Reference objects do not break this rests on
  `ReferentLoadsHaveBarriers` and on the flag telling the truth while mutators run;
  `NewInv` says that nobody else has an object that is still being allocated.
* `AllocFastpathProofs`: `AllocTypes`, `OneOwner`, `BitsAreExact`, `LargeElsewhere`. The
  invariant adds that a buffer belongs to one thread or is free (`BufferInv`), that objects
  lie below the cursor of the buffer they are in (`ObjectInv`), what generated code relies on
  at each place (`LocalInv`), and that a byte of bits loaded by a thread is still current as
  all its granules belong to that thread's buffer (`BitInv`). Assumptions: buffers are aligned
  to whole bytes of bits, do not overlap and lie in the lower half of the address space; the
  limit is below 2^31, or one of the two values that mean no limit. `LargeElsewhere` counts
  the header of MarkCompact, and needs that the operand of the assembler's comparison is not
  above the limit without the header (`LowHalf`).
* `HeapStartupProofs`: `OptionsAreFinal`, `CollectionsFindAllReady`, `SizesAreExact`,
  `ScansAreExact`. `OptionsAreFinal` is about every option but `gc_trigger`, of which it says
  only that a heap size on the command line takes effect. The invariant says phase by phase what start-up has established: what the
  builder holds for each option (`BuilderInv`), that there is no singleton before the options
  are complete (`SingletonInv`), which threads exist (`LifeInv`), and that the list of threads
  does not change in a pause (`PauseInv`). Sizes are exact because the two flags and the width
  of the Rust half agree by then; the rest is the arithmetic of the layout helper. For the
  slots, a second invariant adds that the Rust half knows HotSpot's encoding of class pointers
  before there is a collection (`KlassInv`), and not before HotSpot has chosen it. `Visits` says that a sequence holds each slot of
  a set once. It is shown of a block of the oop maps, of two parts that do not overlap
  (`VisitsBoth`), of any number of them (`VisitsAll`, by induction), and so of all runs of
  reference fields (`RunsDisjoint`, `RunsCover`), in whatever order the maps list them; then of
  each kind of object (`ScanFacts`). The shapes are a constant: any number of fields, any runs
  of references, arrays of any length. Assumptions: no singleton is `None`; HotSpot's shapes are
  as `IsShape` says, in particular the oop maps of a Reference leave out referent and
  discovered; a class lies at or behind the base of class pointers, at a multiple of their unit.
* `ReferenceHandlingProofs`, pending list: `DueOnOneList` and `LinksAreExact`, for any number of
  References and arrays of any length with any duplicates: the proofs ask of `ArrayLengths`
  only that it is a set of natural numbers. The first part is about lists:
  `Chain` unfolds (`ChainStep`), depends only on the links of its nodes (`ChainAgrees`), and
  does not come back to its head if it ends (`ChainAcyclic`). The second part is the loop:
  `LinkedIsList` shows by induction over its turns that it leaves one list of the References
  seen so far, which ends at the last and leaves all other links alone. `PendingInv` adds to
  the two properties what the handler owns while it unlinks (`HandlerOwns`), that References
  wait to be enqueued within a pause only (`ClearedInPause`), and that what is due has no
  referent, so that no collection clears it again (`DueAreCleared`). Assumptions:
  References are finitely many and null is none of them, and an array may be at least as long as
  there are References.
* `ReferenceHandlingProofs`, finalizer thread: `ReadyObjectsAreAnnounced`, whose invariant adds
  that the thread does nothing before it is started.

Each inductive invariant was checked with TLC on the instance of its run before it was proved.

**Induction.** The provers cannot apply a theorem that has an operator as its parameter, such as
those on induction. `LeastElement`, that a set of natural numbers that is not empty has a least
element, is a statement about sets and can be applied: the proofs by induction take the least
counterexample. That a recursive function exists (`LoopRuns`, `FlatteningExists`) is shown in
the same way.

Every invariant and the refinement that the runs check are proved. Only model-checked: the
liveness properties (`BlockedMutatorResumes`, `GCFinishes`,
`PauseEnds`, `FinalizedUnlessThrown`, `DueReferencesHandled`), which need fairness.

## 5. Findings

* **A pending exception silences the finalizer thread**
  (`mmtkFinalizerThread.cpp:112`). An exception thrown by `finalize()` is neither reported
  nor cleared. `JavaCalls::call_virtual` does not call a method while an exception is
  pending, so the objects dequeued afterwards are dropped. Run `finalizer_throws`;
  `FinalizedUnlessThrown` in run `finalizer` shows that nothing else goes wrong.
* **The last page of a heap above 31 GB has no narrow references** (`slots.rs:130`). The
  layout spans 32 GB and the base is 4096 bytes below its start, so that the last 4096
  bytes do not fit into 32 bits. The first address there is encoded as null. It matters only
  if mmtk-core places an object there. Run `compressed_last_page`.
* **Default heap sizes overwrite a trigger of higher priority** (`mmtkHeap.cpp:127`). The
  comment at `mmtkHeap.cpp:104-110` orders the sources of all options by priority and says that
  "the values from the highest priority source will take effect". But `mmtk_set_heap_size` comes
  last and sets `gc_trigger` with HotSpot's default sizes too, so that neither `MMTK_GC_TRIGGER`
  nor `ThirdPartyHeapOptions` can set it. Run `option_priorities` checks the comment as it stands
  (`HighestPriorityTakesEffect`); `CreatedWithFinalOptions` in run `heap_startup` shows that the
  other options keep to it.
* Remarks without a run:
  * The comment at `slots.rs:66` gives bit 63 of a slot the opposite of the meaning that
    `is_compressed` (`slots.rs:87`) and the C++ side give it.
  * `ArrayOopDesc::header_size` (`abi.rs:440`) aligns a number of words to 8 for arrays of
    `long` and `double`, which gives a header of 64 bytes. The only caller asks for object
    arrays.
  * `bind_mutator` (`api.rs:144`) boxes a mutator that `MMTkMutatorContext::bind` copies; the
    box is never freed.
  * In `mmtk_enqueue_references` the test `reff == last` (`mmtkUpcalls.cpp:312`) could be
    left out without harm to the list, as the link from the last node to itself would be
    overwritten.

## 6. What is not modelled

* The memory pool and the collector policy: getters without state.
* Function tables, forwarding declarations and build information: no control.
* The liveness of allocation: it depends on mmtk-core.
* Which roots HotSpot's own iterators visit: HotSpot code.
* Copying of objects (`object_model.rs`) beyond the size copied, and referents that move:
  mmtk-core decides both.
* `oop_iterate_slow`, the `scan_object` and `dump_object` upcalls, `wait_for_reached`,
  `MMTkHeap::scan_roots`: nothing calls them, or only for debugging.
* The harness (`harness_begin`, `harness_end`) and explicit collections
  (`MMTkHeap::collect`): they ask mmtk-core for a collection, which the models of pauses let
  happen at any time.
* Walks over compiled frames by VM operations between the activation of
  `DerivedPointerTable` and the pause: HotSpot code.
* What mmtk-core makes of the layout handed to it: `log_address_space` is 35 (32 GB) although
  `heap_end` may be at 33 GB (`lib.rs:228`).
* Loads with `AS_NO_KEEPALIVE` (`mmtkBarrierSet.hpp:185`), which take no SATB barrier: by
  HotSpot's contract the loaded value is not kept.
* HotSpot's own patching stub of unpatched C1 code, which lies between the SATB pre-barrier and
  the store (`mmtkBarrierSetC1.hpp:24`): in `SATBBarrier` there is no safepoint between them.
* Buffers that share a byte of valid-object bits: that mmtk-core aligns its buffers is the
  assumption under which `VoBitsExact` is checked and proved.
* The exact moment of `DerivedPointerTable::clear` (`mmtkUpcalls.cpp:51`), just before the
  request to stop: `RootScanning` makes one step of the two.
* How the slots of compiled code are split into packets (`gc_work.rs:87`), and the iterator over
  a range of slots (`slots.rs:223`), which mmtk-core uses.
* Threads that join or leave HotSpot's list during a pause: HotSpot holds `Threads_lock` there.
* How often a slot of compiled code is reported: after a re-registration a full collection
  reports it from both maps (`gc_work.rs:99`), which is harmless to tracing; `CodeCacheRoots`
  keeps sets of slots.

## 7. Plan

Order: the pause first, as everything else relies on it; then what a pause is told (roots,
slots, code cache); then what happens between pauses (barriers, allocation). These are the
first modules above; then what start-up and the handler thread rely on (`ReferencePending`,
`ObjectScanning`, `HeapStartup`, `RootScanning`). All parts of the system that keep state are
modelled, and all safety properties that the runs check are proved. What is left for later:

1. Action properties of the proved modules, from the same invariants.
2. Referents that move, if mmtk-core's use of `set_referent` becomes a part of
   `ReferencePending`.
