CONSTANTS
  Tabs = {t1}
  Visitors = {v1}
  Keys = {k1, k2}
  MaxEntries = 1
  Ttl = 1
  Slow = 1
  Settle = 2
  MaxTeardowns = 1
  Limit = 1
  MaxVerdicts = 1
  Faults = {"redis", "network", "database"}
SPECIFICATION FairSpec
INVARIANTS
  TypeOK
  PermitsAccount
  SettledIsShown
  CacheBounded
PROPERTIES
  Fresh
  PermitsReturn
