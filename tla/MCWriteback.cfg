\* Two requests racing over six payloads, with lost answers, an opt-out, a failed statement and a crash (no symmetry: liveness).
CONSTANTS
  report1 = report1
  report2 = report2
  Requests = {a, b}
  Reports <- TwoReports
  Repo <- OneRepo
  Number <- SameNumber
  Payloads <- SixPayloads
  LosesAnswers = TRUE
  MaxFaults = 1
  MaxCrashes = 1
SPECIFICATION FairSpec
INVARIANTS
  RepeatsAreInDoubt
  LogTellsTheTruth
PROPERTIES
  WritesGetFinal
CHECK_DEADLOCK FALSE
