\* Objects up to the end of the 33 GB layout.
CONSTANTS
  OneG = 32
  Page = 16
  HeapSizes <- BoundarySizes
  NElems = 3
  LastPageUsed = TRUE
SPECIFICATION Spec
CHECK_DEADLOCK FALSE
INVARIANTS RoundTrip
