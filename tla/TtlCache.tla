------------------------------ MODULE TtlCache ------------------------------
(***************************************************************************)
(* InMemoryTTLCache (core/cache.py) as the read routes use it: at most     *)
(* MaxEntries pages, each for Ttl.  Times are what is left of them.  A     *)
(* cached page is the number of verdicts it was computed from.             *)
(***************************************************************************)
EXTENDS LiveConstants

VARIABLES
  held,    \* the keys of _entries
  left,    \* left[k]: time until expires_at
  page     \* page[k]: the stored body

cacheVars == <<held, left, page>>

CacheTypeOK ==
  /\ held \subseteq Keys
  /\ left \in [Keys -> 0..Ttl]
  /\ page \in [Keys -> Nat]

CacheInit ==
  /\ held = {}
  /\ left = [k \in Keys |-> 0]
  /\ page = [k \in Keys |-> 0]

\* get answers a page.
Hit(k) == k \in held /\ left[k] > 0

\* get deletes an expired entry on its way to a miss.
GetMisses(k) ==
  /\ ~Hit(k)
  /\ held' = held \ {k}
  /\ UNCHANGED left
  /\ page' = [page EXCEPT ![k] = 0]

Expired == {k \in held : left[k] = 0}

Full(k, keys) == k \notin keys /\ Cardinality(keys) >= MaxEntries

\* min(self._entries, key=expires_at): one that expires no later than the rest.
Soonest(keys) == {k \in keys : \A l \in keys : left[k] <= left[l]}

\* at capacity only the expired entries go
PurgesOnly(k) == IF Full(k, held) THEN {held \ Expired} ELSE {held}

\* What is kept when k is stored: at capacity the expired entries go, and
\* one more when that freed nothing.
Survivors(k) ==
  IF ~Full(k, held) THEN {held}
  ELSE IF ~Full(k, held \ Expired) THEN {held \ Expired}
  ELSE {held \ (Expired \cup {l}) : l \in Soonest(held \ Expired)}

\* storing again adds to the time the entry has left
SetEntryExtends(k, v) ==
  \E kept \in Survivors(k) :
    /\ held' = kept \cup {k}
    /\ left' = [l \in Keys |-> IF l = k THEN left[k] + Ttl ELSE IF l \in kept THEN left[l] ELSE 0]
    /\ page' = [l \in Keys |-> IF l = k THEN v ELSE IF l \in kept THEN page[l] ELSE 0]

SetEntry(k, v) ==
  \E kept \in Survivors(k) :
    /\ held' = kept \cup {k}
    /\ left' = [l \in Keys |-> IF l = k THEN Ttl ELSE IF l \in kept THEN left[l] ELSE 0]
    /\ page' = [l \in Keys |-> IF l = k THEN v ELSE IF l \in kept THEN page[l] ELSE 0]

Less(n) == IF n = 0 THEN 0 ELSE n - 1

CacheTick ==
  /\ left' = [k \in Keys |-> Less(left[k])]
  /\ UNCHANGED <<held, page>>
=============================================================================
