\* Approvals of two pull requests with one number.
CONSTANTS
  report1 = report1
  report2 = report2
  Requests = {a, b}
  Reports <- TwoReports
  Repo <- TwoRepos
  Number <- SameNumber
  Payloads <- Approvals
  LosesAnswers = FALSE
  MaxFaults = 0
  MaxCrashes = 0
SPECIFICATION Spec
INVARIANTS
  DuplicatesShareTarget
CHECK_DEADLOCK FALSE
