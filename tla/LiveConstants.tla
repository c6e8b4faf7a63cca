--------------------------- MODULE LiveConstants ---------------------------
(***************************************************************************)
(* The parameters of the read side: the list cache, the event stream and   *)
(* the dashboards.  Times are in ticks of one clock.                       *)
(***************************************************************************)
EXTENDS Naturals, FiniteSets

CONSTANTS
  Tabs,         \* dashboards; each has one request in flight at a time
  Visitors,     \* other requests of the public routes in flight at a time
  Keys,         \* request paths with their query
  MaxEntries,   \* ALERTS_CACHE_MAX_ENTRIES
  Ttl,          \* ALERTS_LIST_CACHE_TTL_S
  Slow,         \* a page is stored at most this long after it was read
  Settle,       \* CACHE_SETTLE_MS
  Limit,        \* STREAM_MAX_CLIENTS
  MaxVerdicts,  \* bound: verdicts committed
  MaxTeardowns, \* bound: subscriptions being closed behind cancelled requests
  Faults        \* "redis": a Redis call of the stream or the publisher fails
                \* "network": a connection is lost
                \* "database": a read of the list fails

ASSUME FiniteAssumption == IsFiniteSet(Keys) /\ IsFiniteSet(Tabs) /\ Keys # {}
ASSUME VisitorsAssumption == Tabs \cap Visitors = {}
ASSUME CacheAssumption == MaxEntries \in Nat \ {0} /\ Ttl \in Nat \ {0}
ASSUME GateAssumption == Limit \in Nat \ {0}
ASSUME LiveBounds == MaxVerdicts \in Nat /\ MaxTeardowns \in Nat \ {0}
ASSUME LiveFaultsAssumption == Faults \subseteq {"redis", "network", "database"}

\* 16 s against 15 s: the margin is what a page may take from its read to
\* its store.
ASSUME SettleAssumption == Slow \in Nat /\ Settle \in Nat /\ Ttl + Slow <= Settle
\* Who asks the read routes.
Readers == Tabs \cup Visitors
=============================================================================
