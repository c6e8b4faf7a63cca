CONSTANTS
  Cases = {1, 2}
  Calls = {k1}
  Label <- MCLabel
  CallOf <- MCCallOf
  Severities = {3, 4}
  Costs = {1}
  Prompts = {"p1", "p2"}
  Invocations <- MCInvocations
  HasJudge = TRUE
  Concurrency = 1
  DropPoints = 3
  RecallMin = 90
  RisePercent = 25
  EvalFaults = {"kill", "disk", "database", "drift"}
SPECIFICATION FairSpec
INVARIANTS
  TypeOK
  StrictEvidence
  RecordedIsReplayable
  Throttled
  SpendIsOnDisk
  SyntheticUnpublished
  MetricsAgree
PROPERTIES
  GreenIsGood
  RunEnds
