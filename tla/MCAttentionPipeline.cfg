\* One task, its row and a sampled control; two reviewers, the machine, the kill switch and a crash (no symmetry: liveness).
CONSTANTS
  Tasks = {t1}
  Rows = {q1, q2}
  Reviewers = {r1, r2}
  MaxRounds = 1
  MaxCrashes = 1
  Sampling = TRUE
SPECIFICATION FairSpec
INVARIANTS
  PipeTypeOK
  RowMatchesDecisions
  LateExecutionsDenied
PROPERTIES
  ItemsCloseOnce
  VerdictReachesTask
  VerdictReachesChange
CHECK_DEADLOCK FALSE
