CONSTANTS
  WeakRefs = {w1, w2}
  PhantomRefs = {p1}
  FinalRefs = {f1}
  Refs <- MCRefs
  TypeOf <- MCTypeOf
  Null = Null
  ArrayLengths = {0, 1, 2, 3, 4, 5}
SPECIFICATION FairSpec
INVARIANTS DueReferencesOnOneList LinksOnlyOnLists
PROPERTIES DueReferencesHandled
