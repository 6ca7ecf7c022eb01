\* Two sources of roots, packets of two: no packet, partial packets, exactly full packets
\* and more than two packets all occur, as any slot may be null.
\* Two methods with two slots each, worked on by two threads, through any number of
\* collections.
CONSTANTS
  Slots = {1, 2, 3, 4, 5, 6, 7}
  NarrowSlots = {2, 4, 6}
  UseCompressedOops = TRUE
  Capacity = 2
  MaxVisits = 5
  Sources = {"stack", "universe"}
  RootsOf <- RootsOfSources
  Derived = {1, 5}
  Location <- LocationOfSlots
  Objects = {o1, o2}
  Addresses = {16, 32}
  None = None
  NMethods = {n1, n2}
  OopSlots = {s1, s2}
  Threads = {t1, t2}
  NoNMethod = NoNMethod
SPECIFICATION SpecBoth
INVARIANTS RootsDeliveredOnce WritesInBounds BuffersAccounted RootsFollowObjects
INVARIANTS YoungRootsReported FullCollectionSeesAll NoDanglingRoots RootsAreOops
