CONSTANTS
  Sessions = {s1}
  Chatty = {}
  MaxFiles = 2
  MaxBatch = 2
  SpoolMax = 1
  MaxKills = 0
  Faults = {"stop", "straddle"}
SPECIFICATION FairSpec
PROPERTIES
  ClosedIsShipped
