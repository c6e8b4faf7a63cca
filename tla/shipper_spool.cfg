CONSTANTS
  Sessions = {s1, s2}
  Chatty = {}
  MaxFiles = 2
  MaxBatch = 2
  SpoolMax = 1
  MaxKills = 1
  Faults = {"stop", "once"}
SPECIFICATION Spec
INVARIANTS
  TypeOK
  OffsetBehindSpool
PROPERTIES
  CustodySpec
