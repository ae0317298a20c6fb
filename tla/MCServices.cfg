\* Two events, three calls, three ingests, three collects, two sign-ins.
CONSTANTS
  Services = {"stream", "mcp", "memory", "cache", "signIn"}
  h1 = h1
  h2 = h2
  created = created
  Handlers = {h1, h2}
  EventTypes = {created}
  Wants <- SomeWants
  BatchSize = 2
  MaxDeliveryAttempts = 2
  MaxEvents = 2
  MaxStreamFaults = 1
  MaxStreamCrashes = 1
  Calls = {c1, c2, c3}
  Ingests = {i1, i2, i3}
  BaseConfidence = 20
  Floor = 10
  Threshold = 12
  MaxMemoryCrashes = 1
  Collects = {k1, k2, k3}
  MaxVersions = 3
  MaxInvalidations = 1
  MaxCacheFaults = 1
  Logins = {s1, s2}
  Callbacks = {b1, b2}
  Requests = {r1}
  LoginTtl = 1
  TokenTtl = 1
  SessionTtl = 1
  MaxTime = 2
  MaxGrants = 2
  MaxRestarts = 1
SPECIFICATION ServicesSpec
INVARIANTS
  ServicesTypeOK
  AckedIsHandled
  RepeatsAreBounded
  AnswersReachTheirRequest
  EvidenceIsKept
  RowIsFresh
  ResultIsRecent
  OneSessionPerLogin
  AccessIsCurrent
CHECK_DEADLOCK FALSE
