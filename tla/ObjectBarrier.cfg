\* Two objects, two threads, any number of collections.
CONSTANTS
  Objects = {o1, o2}
  Mutators = {m1, m2}
  AllocFastpath = TRUE
  Null = Null
SPECIFICATION Spec
SYMMETRY Symmetry
INVARIANTS RememberedSetComplete NoDanglingReference SkippedObjectsRemembered
