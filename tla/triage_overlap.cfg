CONSTANTS
  Alerts = {a1}
  NoAlert = NoAlert
  Workers = {w1, w2}
  NoWorker = NoWorker
  Posts = {p1, p2}
  Admins = {r1, r2}
  MaxTries = 2
  RetriagePerDay = 2
  MaxCycles = 2
  Faults = {"crash", "budget", "db", "lapse", "expire"}
SPECIFICATION Spec
SYMMETRY Interchangeable
INVARIANTS
  TypeOK
  OneVerdictPerCycle
  AttemptOwnsRow
  QueuedIsDurable
  AnnouncedOnce
