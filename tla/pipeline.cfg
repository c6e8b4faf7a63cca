CONSTANTS
  Runs = {r1, r2}
  Budget = 3
  MaxUsage = 1
  MaxIter = 2
  MaxTools = 2
  Routing = TRUE
  SeverityGte = 5
  ConfidenceLt = 50
  Severities = {4, 5}
  Confidences = {50}
  MaxDays = 1
  Faults = {"write", "cancel"}
SPECIFICATION Spec
INVARIANTS
  TypeOK
  CallBound
  TotalsAccount
  RetriedIsReported
  EvidenceOnly
  OvershootBounded
CHECK_DEADLOCK FALSE
