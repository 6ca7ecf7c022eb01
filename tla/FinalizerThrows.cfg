\* Two objects whose finalizers may throw.
CONSTANT Objects = {o1, o2}
SPECIFICATION FairSpecFinalizer
PROPERTIES EveryReadyObjectFinalized
