\* Four reviews of one batch, two retry clients at once, one crash: enough for two
\* verifications at once and a third after a reset.
CONSTANTS
  Reviews = 4
  BatchCount = 1
  Concurrency = 2
  Retriers = {q1, q2}
  Viewer = q1
  MaxFaults = 0
  ErrorLost = TRUE
  MaxCrashes = 1
SPECIFICATION VerificationSpec
INVARIANTS
  VerificationTypeOK
  PassIsEarned
  RunningIsWorkedOn
CHECK_DEADLOCK FALSE
