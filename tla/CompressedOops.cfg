\* All layouts; no object in the last page of the 33 GB layout.
CONSTANTS
  OneG = 32
  Page = 16
  HeapSizes <- BoundarySizes
  NElems = 3
  LastPageUsed = FALSE
SPECIFICATION Spec
CHECK_DEADLOCK FALSE
INVARIANTS RoundTrip HeapFits RustSeesReferences HotSpotSeesReferences
