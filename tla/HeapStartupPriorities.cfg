\* Start-up against the comment on the priorities of options.
CONSTANTS
  None = None
  Main = main
  Others = {t1}
  NWorkers = 2
  Settings <- OneOptionGiven
  NarrowKlass <- NarrowKlassChoices
  NFields = 5
  Shapes <- SmallShapes
  KlassAddress = 1088
SPECIFICATION Spec
CHECK_DEADLOCK FALSE
INVARIANT HighestPriorityTakesEffect
