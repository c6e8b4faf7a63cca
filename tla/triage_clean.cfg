CONSTANTS
  Alerts = {a1, a2}
  NoAlert = NoAlert
  Workers = {w1, w2}
  NoWorker = NoWorker
  Posts = {p1}
  Admins = {}
  MaxTries = 2
  RetriagePerDay = 0
  MaxCycles = 1
  Faults = {}
SPECIFICATION FairSpec
INVARIANTS
  PendingIsCovered
PROPERTIES
  EventuallyDecided
