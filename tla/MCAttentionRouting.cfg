\* Two tasks with any two of 54 bodies of evidence, a budget of one decision a day.
CONSTANTS
  Tasks = {t1, t2}
  Evidence <- SomeEvidence
  Budget = 1
  Days = 2
SPECIFICATION Spec
INVARIANTS
  TypeOK
  BadNewsReachesHumans
  QueueIsFIFO
  DeferralFollowsBudget
SYMMETRY Symmetry
CHECK_DEADLOCK FALSE
