\* Sizes on both sides of the limit, sizes that fill a buffer, and one that makes the
\* sum wrap around; a plan with a limit and one without.
CONSTANTS
  Mutators = {m1, m2}
  Buffers = {8, 16}
  BufferSize = 8
  Sizes = {2, 4, 250}
  MaxNonLos = {4, 255}
  Tags = {"IMMIX", "MARK_COMPACT", "FREE_LIST"}
  Half = 16
SPECIFICATION Spec
SYMMETRY Symmetry
INVARIANTS TypeOK MemoryHasOneOwner VoBitsExact LargeObjectsInLos
