CONSTANTS
  Alerts = {a1}
  NoAlert = NoAlert
  Workers = {w1}
  NoWorker = NoWorker
  Posts = {p1}
  Admins = {}
  MaxTries = 2
  RetriagePerDay = 0
  MaxCycles = 1
  Faults = {"budget"}
SPECIFICATION Spec
INVARIANT DeferredWillRun
