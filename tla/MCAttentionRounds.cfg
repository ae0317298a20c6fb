\* Two rounds of review of one task, a row each or a control of the first.
CONSTANTS
  Tasks = {t1}
  Rows = {q1, q2}
  Reviewers = {r1}
  MaxRounds = 2
  MaxCrashes = 0
  Sampling = TRUE
SPECIFICATION Spec
SYMMETRY Symmetry
INVARIANTS
  OutcomeFitsChange
CHECK_DEADLOCK FALSE
