CONSTANTS
  Sessions = {s1}
  Chatty = {s1}
  MaxFiles = 3
  MaxBatch = 1
  SpoolMax = 1
  MaxKills = 1
  Faults = {"stop", "once"}
SPECIFICATION FairSpec
INVARIANTS
  StopKeepsSessions
PROPERTIES
  SessionIsShipped
