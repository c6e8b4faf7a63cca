CONSTANTS
  Alerts = {a1}
  NoAlert = NoAlert
  Workers = {w1}
  NoWorker = NoWorker
  Posts = {p1}
  Admins = {r1}
  MaxTries = 2
  RetriagePerDay = 1
  MaxCycles = 2
  Faults = {}
SPECIFICATION Spec
PROPERTY RetriageEnqueues
