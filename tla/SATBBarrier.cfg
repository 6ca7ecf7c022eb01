\* Two objects of which one may be a Reference, two threads, any number of collections.
CONSTANTS
  Objects = {o1, o2}
  MaxReferences = 1
  Mutators = {m1, m2}
  AllocFastpath = TRUE
  Null = Null
SPECIFICATION Spec
SYMMETRY Symmetry
INVARIANTS TypeOK SnapshotKept HeldObjectsKept NoDanglingReference
