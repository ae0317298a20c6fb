\* Progress of three reviews and their verifications, without crashes.
CONSTANTS
  Reviews = 3
  BatchCount = 1
  Concurrency = 2
  Retriers = {q1, q2}
  Viewer = q1
  MaxFaults = 1
  ErrorLost = FALSE
  MaxCrashes = 0
SPECIFICATION VerificationFairSpec
PROPERTIES
  ReportSettles
  PageSettles
CHECK_DEADLOCK FALSE
