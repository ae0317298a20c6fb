\* A sampled control that its reviewer rejects.
CONSTANTS
  Tasks = {t1}
  Rows = {q1, q2}
  Reviewers = {r1}
  MaxRounds = 1
  MaxCrashes = 0
  Sampling = TRUE
SPECIFICATION FairSpec
PROPERTIES
  RejectedControlIsReported
CHECK_DEADLOCK FALSE
