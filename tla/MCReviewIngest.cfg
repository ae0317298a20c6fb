\* Three reviews of two batches, both at a time; two retry clients at once.
CONSTANTS
  Reviews = 3
  BatchCount = 2
  Concurrency = 2
  Retriers = {q1, q2}
  MaxFaults = 1
  ErrorLost = TRUE
  MaxCrashes = 1
SYMMETRY Symmetry
SPECIFICATION Spec
INVARIANTS
  CompleteIsWhole
  AnnouncedOnce
PROPERTIES
  StagesInOrder
CHECK_DEADLOCK FALSE
