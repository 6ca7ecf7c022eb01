\* Three objects whose finalizers may throw.
CONSTANT Objects = {o1, o2, o3}
SPECIFICATION FairSpecFinalizer
INVARIANTS ReadyObjectsAnnounced
PROPERTIES PauseEnds FinalizedUnlessThrown
