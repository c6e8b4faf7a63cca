-------------------------- MODULE DashboardProofs --------------------------
(***************************************************************************)
(* Theorems about the read side, for every number of tabs, visitors and    *)
(* cached pages and for every pair of Ttl and Settle that leaves room for  *)
(* the slowest store.                                                      *)
(***************************************************************************)
EXTENDS Dashboard, FiniteSetTheorems, TLAPS

USE SettleAssumption, CacheAssumption, GateAssumption, LiveBounds

\* What a key is stored over is a set of keys.
LEMMA SurvivorsAreHeld ==
  ASSUME NEW k \in Keys, CacheTypeOK, NEW kept \in Survivors(k)
  PROVE  kept \subseteq held
  BY DEF Survivors, Expired, CacheTypeOK

LEMMA SetEntryTypes ==
  ASSUME CacheTypeOK, NEW k \in Keys, NEW v \in Nat, SetEntry(k, v)
  PROVE  CacheTypeOK'
<1>1. PICK kept \in Survivors(k) :
        /\ held' = kept \cup {k}
        /\ left' = [l \in Keys |-> IF l = k THEN Ttl ELSE IF l \in kept THEN left[l] ELSE 0]
        /\ page' = [l \in Keys |-> IF l = k THEN v ELSE IF l \in kept THEN page[l] ELSE 0]
  BY DEF SetEntry
<1>2. kept \subseteq held  BY SurvivorsAreHeld
<1>3. held' \subseteq Keys  BY <1>1, <1>2 DEF CacheTypeOK
<1>4. left' \in [Keys -> 0..Ttl]  BY <1>1 DEF CacheTypeOK
<1>5. page' \in [Keys -> Nat]  BY <1>1 DEF CacheTypeOK
<1> QED  BY <1>3, <1>4, <1>5 DEF CacheTypeOK

LEMMA CacheTickTypes ==
  ASSUME CacheTypeOK, CacheTick
  PROVE  CacheTypeOK'
  BY DEF CacheTypeOK, CacheTick, Less

\* A request is asked for a page of the cache, or begins a read.
LEMMA AsksTypes ==
  ASSUME ReadTypeOK, NEW c \in Readers, Asks(c), view' \in [Readers -> Keys]
  PROVE  ReadTypeOK'
<1>1. page[view'[c]] \in Nat  BY DEF ReadTypeOK, CacheTypeOK
<1>2. CacheTypeOK'
  BY DEF Asks, ReadTypeOK, CacheTypeOK, cacheVars, GetMisses
<1>3. req' \in [Readers -> {"idle", "reading", "storing", "failed"}]
  BY DEF Asks, Requests, ReadTypeOK
<1>4. shown' \in [Tabs -> Nat]
  BY <1>1 DEF Asks, Shows, ReadTypeOK
<1> QED  BY <1>2, <1>3, <1>4 DEF Asks, ReadTypeOK

LEMMA ServesTypes ==
  ASSUME ReadTypeOK, NEW c \in Readers, RouteStep(c) \/ ReadFails(c)
  PROVE  ReadTypeOK'
<1>1. CASE ReadsPage(c)
  BY <1>1 DEF ReadsPage, Requests, ReadTypeOK, CacheTypeOK, cacheVars
<1>2. CASE ReadFails(c)
  BY <1>2 DEF ReadFails, Requests, ReadTypeOK, CacheTypeOK, cacheVars
<1>3. CASE StoresPage(c)
  <2>1. CacheTypeOK'  BY <1>3, SetEntryTypes DEF StoresPage, ReadTypeOK
  <2>2. shown' \in [Tabs -> Nat]  BY <1>3 DEF StoresPage, Shows, ReadTypeOK
  <2> QED  BY <1>3, <2>1, <2>2 DEF StoresPage, Requests, ReadTypeOK
<1> QED  BY <1>1, <1>2, <1>3 DEF RouteStep

LEMMA RouteTickTypes ==
  ASSUME ReadTypeOK, RouteTick
  PROVE  ReadTypeOK'
<1>1. CacheTypeOK'  BY CacheTickTypes DEF RouteTick, ReadTypeOK
<1>2. age' \in [Readers -> 0..Slow]  BY DEF RouteTick, ReadTypeOK
<1> QED  BY <1>1, <1>2 DEF RouteTick, ReadTypeOK

-----------------------------------------------------------------------------
TabTypeOK ==
  /\ status \in [Tabs -> {"closed", "loading", "connecting", "live"} \cup Polling]
  /\ want \in [Tabs -> BOOLEAN]
  /\ armed \in [Tabs -> BOOLEAN]
  /\ settle \in [Tabs -> 0..Settle]
  /\ heard \in [Tabs -> Nat]

LEMMA TypeJoins ==
  ASSUME ReadTypeOK', StreamTypeOK', TabTypeOK' PROVE TypeOK'
  BY DEF TypeOK, TabTypeOK

LEMMA SameRoutes == ASSUME ReadTypeOK, UNCHANGED routeVars PROVE ReadTypeOK'
  BY DEF ReadTypeOK, CacheTypeOK, routeVars, readVars, cacheVars

LEMMA SameStreams == ASSUME StreamTypeOK, UNCHANGED streamVars PROVE StreamTypeOK'
  BY DEF StreamTypeOK, streamVars

LEMMA SameTabs == ASSUME TabTypeOK, UNCHANGED tabVars PROVE TabTypeOK'
  BY DEF TabTypeOK, tabVars

LEMMA ServerTypes ==
  ASSUME StreamTypeOK, ServerStep
  PROVE  StreamTypeOK'
<1>1. CASE NoticesGone
  BY <1>1 DEF NoticesGone, Release, StreamTypeOK
<1>2. CASE TeardownEnds
  BY <1>2 DEF TeardownEnds, StreamTypeOK
<1>3. CASE Publishes
  BY <1>3 DEF Publishes, StreamTypeOK
<1>4. CASE PublishFails
  BY <1>4 DEF PublishFails, StreamTypeOK
<1>5. CASE \E c \in Tabs : Subscribes(c)
  BY <1>5 DEF Subscribes, Becomes, StreamTypeOK
<1> QED  BY <1>1, <1>2, <1>3, <1>4, <1>5 DEF ServerStep

\* What a tab does to its stream.
StreamMoves(c) ==
  \/ Admits(c) \/ Refuses(c) \/ SubscribeFails(c) \/ StreamCloses(c)
  \/ StreamEnds(c) \/ Abandons(c) \/ Yields(c)

LEMMA StreamMovesTypes ==
  ASSUME StreamTypeOK, NEW c \in Tabs, StreamMoves(c)
  PROVE  StreamTypeOK'
<1>1. CASE Admits(c)
  BY <1>1 DEF Admits, Acquire, Becomes, StreamTypeOK
<1>2. CASE Refuses(c)
  BY <1>2, SameStreams DEF Refuses
<1>3. CASE SubscribeFails(c)
  BY <1>3 DEF SubscribeFails, Release, Becomes, StreamTypeOK
<1>4. CASE StreamCloses(c)
  BY <1>4 DEF StreamCloses, Release, Becomes, StreamTypeOK
<1>5. CASE StreamEnds(c)
  BY <1>5 DEF StreamEnds, Becomes, Forgets, StreamTypeOK
<1>6. CASE Abandons(c)
  BY <1>6 DEF Abandons, Becomes, Forgets, StreamTypeOK
<1>7. CASE Yields(c)
  BY <1>7 DEF Yields, StreamTypeOK
<1> QED  BY <1>1, <1>2, <1>3, <1>4, <1>5, <1>6, <1>7 DEF StreamMoves

LEMMA TypeStep ==
  ASSUME TypeOK, [Next]_vars
  PROVE  TypeOK'
<1> ReadTypeOK /\ StreamTypeOK /\ TabTypeOK  BY DEF TypeOK, TabTypeOK
<1> USE TypeJoins
<1>1. ASSUME NEW c \in Tabs, OpenTab(c)  PROVE TypeOK'
  <2>1. ReadTypeOK'
    BY <1>1 DEF OpenTab, ReadTypeOK, CacheTypeOK, cacheVars, Readers
  <2>2. TabTypeOK'  BY <1>1 DEF OpenTab, Turns, TabTypeOK
  <2> QED  BY <1>1, <2>1, <2>2, SameStreams DEF OpenTab
<1>2. ASSUME NEW c \in Tabs, Mounts(c)  PROVE TypeOK'
  <2>1. TabTypeOK'  BY <1>2 DEF Mounts, Turns, TabTypeOK
  <2> QED  BY <1>2, <2>1, SameRoutes, SameStreams DEF Mounts
<1>3. ASSUME NEW c \in Tabs, Connects(c)  PROVE TypeOK'
  <2>1. StreamTypeOK'  BY <1>3, StreamMovesTypes DEF Connects, StreamMoves
  <2>2. TabTypeOK'
    <3>1. CASE UNCHANGED tabVars  BY <3>1, SameTabs
    <3>2. CASE StartsPolling(c, "rejected")
      BY <3>2 DEF StartsPolling, Turns, TabTypeOK, Polling
    <3> QED  BY <1>3, <3>1, <3>2 DEF Connects
  <2> QED  BY <1>3, <2>1, <2>2, SameRoutes DEF Connects
<1>4. ASSUME NEW c \in Tabs, Opens(c)  PROVE TypeOK'
  <2>1. TabTypeOK'  BY <1>4 DEF Opens, Turns, TabTypeOK
  <2> QED  BY <1>4, <2>1, SameRoutes, SameStreams DEF Opens
<1>5. ASSUME NEW c \in Tabs, Breaks(c)  PROVE TypeOK'
  <2>1. StreamTypeOK'  BY <1>5, StreamMovesTypes DEF Breaks, StreamMoves
  <2>2. TabTypeOK'
    BY <1>5 DEF Breaks, StartsPolling, Turns, TabTypeOK, Polling
  <2> QED  BY <1>5, <2>1, <2>2, SameRoutes DEF Breaks
<1>6. ASSUME NEW c \in Tabs, Breaking(c)  PROVE TypeOK'
  <2>1. StreamTypeOK'  BY <1>6, StreamMovesTypes DEF Breaking, StreamMoves
  <2> QED  BY <1>6, <2>1, SameRoutes, SameTabs DEF Breaking
<1>7. ASSUME NEW c \in Tabs, Hears(c)  PROVE TypeOK'
  <2>1. StreamTypeOK'  BY <1>7, StreamMovesTypes DEF Hears, StreamMoves
  <2>2. TabTypeOK'  BY <1>7 DEF Hears, TabTypeOK, ReadTypeOK
  <2> QED  BY <1>7, <2>1, <2>2, SameRoutes DEF Hears
<1>8. ASSUME NEW c \in Tabs, SettleFires(c) \/ PollFires(c)  PROVE TypeOK'
  <2>1. TabTypeOK'  BY <1>8 DEF SettleFires, PollFires, TabTypeOK
  <2> QED  BY <1>8, <2>1, SameRoutes, SameStreams DEF SettleFires, PollFires
<1>9. ASSUME NEW c \in Tabs, Refreshes(c)  PROVE TypeOK'
  <2>1. ReadTypeOK'
    <3>1. view' \in [Readers -> Keys]  BY <1>9 DEF Refreshes, ReadTypeOK
    <3> QED  BY <1>9, <3>1, AsksTypes DEF Refreshes, Readers
  <2>2. TabTypeOK'  BY <1>9 DEF Refreshes, TabTypeOK
  <2> QED  BY <1>9, <2>1, <2>2, SameStreams DEF Refreshes
<1>10. ASSUME NEW c \in Tabs, CloseTab(c)  PROVE TypeOK'
  <2>1. StreamTypeOK'  BY <1>10, StreamMovesTypes DEF CloseTab, StreamMoves
  <2>2. TabTypeOK'  BY <1>10 DEF CloseTab, Turns, TabTypeOK
  <2> QED  BY <1>10, <2>1, <2>2, SameRoutes DEF CloseTab
<1>11. ASSUME NEW c \in Readers, Serves(c)  PROVE TypeOK'
  BY <1>11, ServesTypes, SameStreams, SameTabs DEF Serves
<1>12. ASSUME NEW c \in Visitors, Visits(c), UNCHANGED <<streamVars, tabVars>>
       PROVE  TypeOK'
  <2>1. view' \in [Readers -> Keys]  BY <1>12 DEF Visits, ReadTypeOK, Readers
  <2>2. ReadTypeOK'  BY <1>12, <2>1, AsksTypes DEF Visits, Readers
  <2> QED  BY <1>12, <2>2, SameStreams, SameTabs
<1>13. ASSUME Commits  PROVE TypeOK'
  <2>1. ReadTypeOK'
    BY <1>13 DEF Commits, CommitsVerdict, ReadTypeOK, CacheTypeOK, cacheVars
  <2>2. StreamTypeOK'  BY <1>13 DEF Commits, StreamTypeOK
  <2>3. UNCHANGED tabVars  BY <1>13 DEF Commits
  <2> QED  BY <2>1, <2>2, <2>3, SameTabs
<1>14. ASSUME Streams  PROVE TypeOK'
  BY <1>14, ServerTypes, SameRoutes, SameTabs DEF Streams
<1>15. ASSUME Tick  PROVE TypeOK'
  <2>1. TabTypeOK'  BY <1>15 DEF Tick, Less, TabTypeOK
  <2> QED  BY <1>15, <2>1, RouteTickTypes, SameStreams DEF Tick
<1>16. CASE UNCHANGED vars
  BY <1>16, SameRoutes, SameStreams, SameTabs DEF vars
<1> QED
  BY <1>1, <1>2, <1>3, <1>4, <1>5, <1>6, <1>7, <1>8, <1>9, <1>10, <1>11,
     <1>12, <1>13, <1>14, <1>15, <1>16 DEF Next, TabStep

LEMMA InitTypes == ASSUME Init PROVE TypeOK
<1>1. Keys # {} => (CHOOSE k \in Keys : TRUE) \in Keys  OBVIOUS
<1> QED
  BY <1>1, FiniteAssumption
     DEF Init, ReadInit, CacheInit, StreamInit, TypeOK, ReadTypeOK, CacheTypeOK,
         StreamTypeOK

(***************************************************************************)
(* Type correctness of the read side.                                      *)
(***************************************************************************)
THEOREM DashboardTypes == Spec => []TypeOK
<1>1. Init => TypeOK  BY InitTypes
<1>2. TypeOK /\ [Next]_vars => TypeOK'  BY TypeStep
<1> QED  BY <1>1, <1>2, PTL DEF Spec

-----------------------------------------------------------------------------
(***************************************************************************)
(* Heard(c) survives a step that leaves what it is about alone.            *)
(***************************************************************************)
LEMMA HeardSame ==
  ASSUME NEW c \in Tabs, Heard(c), UNCHANGED routeVars,
         heard'[c] = heard[c], settle'[c] = settle[c],
         armed'[c] = armed[c], want[c] => want'[c]
  PROVE  Heard(c)'
  BY DEF Heard, Hit, routeVars, readVars, cacheVars

\* A request that is asked, by the tab itself or by another reader.
LEMMA HeardAsks ==
  ASSUME TypeOK, NEW c \in Tabs, Heard(c), NEW r \in Readers, Asks(r),
         heard'[c] = heard[c], settle'[c] = settle[c], armed'[c] = armed[c],
         view' \in [Readers -> Keys], r # c => want'[c] = want[c]
  PROVE  Heard(c)'
<1> DEFINE k == view'[r]
<1>a. k \in Keys  OBVIOUS
<1>b. c \in Readers  BY DEF Readers
<1>t. /\ req \in [Readers -> {"idle", "reading", "storing", "failed"}]
      /\ shown \in [Tabs -> Nat] /\ page \in [Keys -> Nat] /\ held \subseteq Keys
      /\ heard \in [Tabs -> Nat]
  BY DEF TypeOK, ReadTypeOK, CacheTypeOK
<1>1. heard[c] <= db'  BY DEF Heard, Asks
<1>2. ASSUME NEW l \in Keys, Hit(l)', page'[l] < heard[c]
      PROVE  armed[c] /\ left'[l] <= settle[c]
  <2>1. Hit(l) /\ page[l] < heard[c] /\ left'[l] = left[l]
    BY <1>2, <1>t DEF Asks, GetMisses, Hit, cacheVars
  <2> QED  BY <2>1 DEF Heard
<1>3. ASSUME NEW q \in Readers, req'[q] = "storing", got'[q] < heard[c]
      PROVE  armed[c] /\ Ttl + Slow <= settle[c] + age'[q]
  <2>1. req[q] = "storing" /\ got[q] < heard[c] /\ age'[q] = age[q]
    BY <1>3, <1>t DEF Asks, Requests
  <2> QED  BY <2>1 DEF Heard
<1>4. heard[c] <= shown'[c] \/ armed[c] \/ want'[c] \/ req'[c] # "idle"
  <2>1. CASE r # c
    <3>1. req'[c] = req[c]  BY <2>1, <1>b, <1>t DEF Asks, Requests
    <3>2. shown'[c] = shown[c]  BY <2>1, <1>t DEF Asks, Shows
    <3> QED  BY <2>1, <3>1, <3>2 DEF Heard
  <2>2. CASE r = c
    <3>1. CASE req'[c] = "reading"  BY <3>1
    <3>2. CASE req'[c] # "reading"
      <4>1. Hit(k) /\ shown'[c] = page[k]
        BY <2>2, <3>2, <1>b, <1>t DEF Asks, Requests, Shows
      <4>2. page[k] < heard[c] => armed[c]  BY <4>1, <1>a DEF Heard
      <4> QED  BY <4>1, <4>2, <1>a, <1>t
    <3> QED  BY <3>1, <3>2
  <2> QED  BY <2>1, <2>2
<1> QED  BY <1>1, <1>2, <1>3, <1>4 DEF Heard

\* A read, a failure, or a page that is stored, of any reader.
LEMMA HeardServes ==
  ASSUME TypeOK, NEW c \in Tabs, Heard(c), NEW r \in Readers, Serves(r)
  PROVE  Heard(c)'
<1>b. c \in Readers  BY DEF Readers
<1>t. /\ req \in [Readers -> {"idle", "reading", "storing", "failed"}]
      /\ shown \in [Tabs -> Nat] /\ page \in [Keys -> Nat] /\ held \subseteq Keys
      /\ got \in [Readers -> Nat] /\ age \in [Readers -> 0..Slow]
      /\ left \in [Keys -> 0..Ttl] /\ view \in [Readers -> Keys]
      /\ heard \in [Tabs -> Nat] /\ settle \in [Tabs -> 0..Settle] /\ db \in Nat
  BY DEF TypeOK, ReadTypeOK, CacheTypeOK
<1>u. heard' = heard /\ armed' = armed /\ settle' = settle /\ want' = want
  BY DEF Serves, tabVars
<1>1. CASE ReadsPage(r)
  <2>1. UNCHANGED <<held, left, page, db, shown>>  BY <1>1 DEF ReadsPage, cacheVars
  <2>2. ASSUME NEW q \in Readers, req'[q] = "storing", got'[q] < heard[c]
        PROVE  armed[c] /\ Ttl + Slow <= settle[c] + age'[q]
    <3>1. q # r  BY <1>1, <1>t, <2>2 DEF ReadsPage, Heard
    <3>2. req[q] = "storing" /\ got[q] < heard[c] /\ age'[q] = age[q]
      BY <1>1, <1>t, <2>2, <3>1 DEF ReadsPage, Requests
    <3> QED  BY <3>2 DEF Heard
  <2>3. req[c] # "idle" => req'[c] # "idle"
    BY <1>1, <1>b, <1>t DEF ReadsPage, Requests
  <2> QED  BY <1>u, <2>1, <2>2, <2>3 DEF Heard, Hit
<1>2. CASE ReadFails(r)
  <2>1. UNCHANGED <<held, left, page, db, shown, got, age>>
    BY <1>2 DEF ReadFails, cacheVars
  <2>2. ASSUME NEW q \in Readers, req'[q] = "storing"  PROVE req[q] = "storing"
    BY <1>2, <1>t, <2>2 DEF ReadFails, Requests
  <2>3. req[c] # "idle" => req'[c] # "idle"
    BY <1>2, <1>b, <1>t DEF ReadFails, Requests
  <2> QED  BY <1>u, <2>1, <2>2, <2>3 DEF Heard, Hit
<1>3. CASE StoresPage(r)
  <2> DEFINE k == view[r]
  <2>1. PICK kept \in Survivors(k) :
          /\ held' = kept \cup {k}
          /\ left' = [l \in Keys |-> IF l = k THEN Ttl ELSE IF l \in kept THEN left[l] ELSE 0]
          /\ page' = [l \in Keys |-> IF l = k THEN got[r] ELSE IF l \in kept THEN page[l] ELSE 0]
    BY <1>3 DEF StoresPage, SetEntry
  <2>2. kept \subseteq held
    BY SurvivorsAreHeld, <1>t DEF TypeOK, ReadTypeOK
  <2>3. ASSUME NEW l \in Keys, Hit(l)', page'[l] < heard[c]
        PROVE  armed[c] /\ left'[l] <= settle[c]
    <3>1. CASE l = k
      <4>1. page'[l] = got[r] /\ left'[l] = Ttl  BY <2>1, <3>1
      <4>2. armed[c] /\ Ttl + Slow <= settle[c] + age[r]
        BY <1>3, <2>3, <4>1 DEF StoresPage, Heard
      <4> QED  BY <4>1, <4>2, <1>t
    <3>2. CASE l # k
      <4>1. l \in kept /\ left'[l] = left[l] /\ page'[l] = page[l]
        BY <2>1, <2>3, <3>2 DEF Hit
      <4>2. Hit(l)  BY <2>2, <2>3, <4>1 DEF Hit
      <4> QED  BY <2>3, <4>1, <4>2 DEF Heard
    <3> QED  BY <3>1, <3>2
  <2>4. ASSUME NEW q \in Readers, req'[q] = "storing", got'[q] < heard[c]
        PROVE  armed[c] /\ Ttl + Slow <= settle[c] + age'[q]
    <3>1. q # r  BY <1>3, <1>t, <2>4 DEF StoresPage, Requests
    <3>2. req[q] = "storing" /\ got[q] < heard[c] /\ age'[q] = age[q]
      BY <1>3, <1>t, <2>4, <3>1 DEF StoresPage, Requests
    <3> QED  BY <3>2 DEF Heard
  <2>5. heard[c] <= shown'[c] \/ armed[c] \/ want[c] \/ req'[c] # "idle"
    <3>1. CASE r = c
      <4>1. shown'[c] = got[c]  BY <1>3, <3>1, <1>t DEF StoresPage, Shows
      <4>2. got[c] < heard[c] => armed[c]  BY <1>3, <3>1, <1>b DEF StoresPage, Heard
      <4> QED  BY <4>1, <4>2, <1>t, <1>b
    <3>2. CASE r # c
      <4>1. shown'[c] = shown[c] /\ req'[c] = req[c]
        BY <1>3, <3>2, <1>t, <1>b DEF StoresPage, Shows, Requests
      <4> QED  BY <4>1 DEF Heard
    <3> QED  BY <3>1, <3>2
  <2>6. db' = db  BY <1>3 DEF StoresPage
  <2> QED  BY <1>u, <2>3, <2>4, <2>5, <2>6 DEF Heard
<1> QED  BY <1>1, <1>2, <1>3 DEF Serves, RouteStep

LEMMA HeardTick ==
  ASSUME TypeOK, NEW c \in Tabs, Heard(c), Tick
  PROVE  Heard(c)'
<1>t. /\ left \in [Keys -> 0..Ttl] /\ settle \in [Tabs -> 0..Settle]
      /\ age \in [Readers -> 0..Slow]
  BY DEF TypeOK, ReadTypeOK, CacheTypeOK
<1>u. UNCHANGED <<held, page, db, req, got, shown, heard, armed, want>>
  BY DEF Tick, RouteTick, CacheTick
<1>1. left' = [k \in Keys |-> Less(left[k])] /\ settle'[c] = Less(settle[c])
  BY DEF Tick, RouteTick, CacheTick
<1>2. ASSUME NEW l \in Keys, Hit(l)', page'[l] < heard[c]
      PROVE  armed[c] /\ left'[l] <= settle'[c]
  <2>1. Hit(l)  BY <1>1, <1>2, <1>u, <1>t DEF Hit, Less
  <2>2. armed[c] /\ left[l] <= settle[c]  BY <1>2, <1>u, <2>1 DEF Heard
  <2> QED  BY <1>1, <2>2, <1>t DEF Less
<1>3. ASSUME NEW q \in Readers, req'[q] = "storing", got'[q] < heard[c]
      PROVE  armed[c] /\ Ttl + Slow <= settle'[c] + age'[q]
  <2>1. age[q] < Slow /\ age'[q] = age[q] + 1
    BY <1>3, <1>u DEF Tick, RouteTick
  <2>2. armed[c] /\ Ttl + Slow <= settle[c] + age[q]  BY <1>3, <1>u DEF Heard
  <2> QED  BY <1>1, <2>1, <2>2, <1>t DEF Less
<1> QED  BY <1>u, <1>2, <1>3 DEF Heard

\* An event: whatever is cached or on its way expires before the timer.
LEMMA HeardHears ==
  ASSUME TypeOK, NEW c \in Tabs, Hears(c)
  PROVE  Heard(c)'
<1>t. /\ left \in [Keys -> 0..Ttl] /\ age \in [Readers -> 0..Slow] /\ db \in Nat
      /\ armed \in [Tabs -> BOOLEAN] /\ settle \in [Tabs -> 0..Settle]
      /\ want \in [Tabs -> BOOLEAN] /\ heard \in [Tabs -> Nat]
  BY DEF TypeOK, ReadTypeOK, CacheTypeOK
<1>1. heard'[c] = db /\ settle'[c] = Settle  BY <1>t DEF Hears
<1>2. armed'[c] = TRUE /\ want'[c] = TRUE  BY <1>t, Zenon DEF Hears
<1>3. UNCHANGED <<left, age, db>>  BY DEF Hears, routeVars, readVars, cacheVars
<1>4. \A l \in Keys : left'[l] <= settle'[c]  BY <1>1, <1>3, <1>t
<1>5. \A q \in Readers : Ttl + Slow <= settle'[c] + age'[q]  BY <1>1, <1>3, <1>t
<1>6. heard'[c] <= db'  BY <1>1, <1>3, <1>t
<1> QED  BY <1>2, <1>4, <1>5, <1>6 DEF Heard

\* The timer fires: nothing older is left, so the refresh reads past it.
LEMMA HeardSettles ==
  ASSUME TypeOK, NEW c \in Tabs, Heard(c), SettleFires(c)
  PROVE  Heard(c)'
<1>t. /\ left \in [Keys -> 0..Ttl] /\ age \in [Readers -> 0..Slow]
      /\ want \in [Tabs -> BOOLEAN] /\ heard \in [Tabs -> Nat]
      /\ got \in [Readers -> Nat] /\ page \in [Keys -> Nat]
  BY DEF TypeOK, ReadTypeOK, CacheTypeOK
<1>1. UNCHANGED <<held, left, page, db, req, got, age, shown, heard>> /\ settle[c] = 0
  BY DEF SettleFires, routeVars, readVars, cacheVars
<1>2. want'[c] = TRUE  BY <1>t, Zenon DEF SettleFires
<1>3. ASSUME NEW l \in Keys, Hit(l)  PROVE ~(page[l] < heard[c])
  BY <1>1, <1>3, <1>t DEF Heard, Hit
<1>4. ASSUME NEW q \in Readers, req[q] = "storing"  PROVE ~(got[q] < heard[c])
  BY <1>1, <1>4, <1>t DEF Heard
<1>5. heard[c] <= db  BY DEF Heard
<1> QED  BY <1>1, <1>2, <1>3, <1>4, <1>5 DEF Heard, Hit

LEMMA HeardCloses ==
  ASSUME TypeOK, NEW c \in Tabs, CloseTab(c)
  PROVE  Heard(c)'
<1>t. /\ heard \in [Tabs -> Nat] /\ page \in [Keys -> Nat]
      /\ got \in [Readers -> Nat] /\ db \in Nat /\ shown \in [Tabs -> Nat]
  BY DEF TypeOK, ReadTypeOK, CacheTypeOK
<1>1. heard'[c] = 0  BY <1>t DEF CloseTab
<1>2. UNCHANGED <<page, got, db, shown>>
  BY DEF CloseTab, routeVars, readVars, cacheVars
<1> QED  BY <1>1, <1>2, <1>t DEF Heard

LEMMA HeardStep ==
  ASSUME TypeOK, TypeOK', HeardIsTracked, [Next]_vars
  PROVE  HeardIsTracked'
<1> SUFFICES ASSUME NEW c \in Tabs  PROVE Heard(c)'  BY DEF HeardIsTracked
<1>0. Heard(c)  BY DEF HeardIsTracked
<1>t. /\ heard \in [Tabs -> Nat] /\ settle \in [Tabs -> 0..Settle]
      /\ armed \in [Tabs -> BOOLEAN] /\ want \in [Tabs -> BOOLEAN]
  BY DEF TypeOK
<1>1. CASE UNCHANGED <<routeVars, want, armed, settle, heard>>
  BY <1>0, <1>1, HeardSame
<1>2. ASSUME NEW d \in Tabs, OpenTab(d)  PROVE Heard(c)'
  <2>1. UNCHANGED <<held, left, page, db, req, got, age, shown, armed, settle, heard>>
    BY <1>2 DEF OpenTab, cacheVars
  <2>2. want[c] => want'[c]  BY <1>2, <1>t, Zenon DEF OpenTab
  <2> QED  BY <1>0, <2>1, <2>2 DEF Heard, Hit
<1>3. ASSUME NEW d \in Tabs, Hears(d)  PROVE Heard(c)'
  <2>1. CASE d = c  BY <1>3, <2>1, HeardHears
  <2>2. CASE d # c
    <3>1. heard'[c] = heard[c] /\ settle'[c] = settle[c] /\ UNCHANGED routeVars
      BY <1>3, <2>2, <1>t DEF Hears
    <3>2. armed'[c] = armed[c] /\ want'[c] = want[c]  BY <1>3, <2>2, <1>t DEF Hears
    <3> QED  BY <1>0, <3>1, <3>2, HeardSame
  <2> QED  BY <2>1, <2>2
<1>4. ASSUME NEW d \in Tabs, SettleFires(d)  PROVE Heard(c)'
  <2>1. CASE d = c  BY <1>0, <1>4, <2>1, HeardSettles
  <2>2. CASE d # c
    <3>1. UNCHANGED <<routeVars, heard, settle>>  BY <1>4 DEF SettleFires
    <3>2. armed'[c] = armed[c] /\ want'[c] = want[c]
      BY <1>4, <2>2, <1>t DEF SettleFires
    <3> QED  BY <1>0, <3>1, <3>2, HeardSame
  <2> QED  BY <2>1, <2>2
<1>5. ASSUME NEW d \in Tabs, PollFires(d)  PROVE Heard(c)'
  <2>1. UNCHANGED <<routeVars, heard, settle, armed>>  BY <1>5 DEF PollFires
  <2>2. want[c] => want'[c]  BY <1>5, <1>t, Zenon DEF PollFires
  <2> QED  BY <1>0, <2>1, <2>2, HeardSame
<1>6. ASSUME NEW d \in Tabs, Refreshes(d)  PROVE Heard(c)'
  <2>1. UNCHANGED <<heard, settle, armed>> /\ Asks(d) /\ d \in Readers
    BY <1>6 DEF Refreshes, Readers
  <2>2. d # c => want'[c] = want[c]  BY <1>6, <1>t DEF Refreshes
  <2>3. view' \in [Readers -> Keys]  BY DEF TypeOK, ReadTypeOK
  <2> QED  BY <1>0, <2>1, <2>2, <2>3, HeardAsks
<1>7. ASSUME NEW d \in Tabs, CloseTab(d)  PROVE Heard(c)'
  <2>1. CASE d = c  BY <1>7, <2>1, HeardCloses
  <2>2. CASE d # c
    <3>1. heard'[c] = heard[c] /\ settle'[c] = settle[c] /\ UNCHANGED routeVars
      BY <1>7, <2>2, <1>t DEF CloseTab
    <3>2. armed'[c] = armed[c] /\ want'[c] = want[c]
      BY <1>7, <2>2, <1>t DEF CloseTab
    <3> QED  BY <1>0, <3>1, <3>2, HeardSame
  <2> QED  BY <2>1, <2>2
<1>8. ASSUME NEW r \in Readers, Serves(r)  PROVE Heard(c)'
  BY <1>0, <1>8, HeardServes
<1>9. ASSUME NEW r \in Visitors, Visits(r), UNCHANGED <<streamVars, tabVars>>
      PROVE  Heard(c)'
  <2>1. UNCHANGED <<heard, settle, armed, want>> /\ Asks(r) /\ r \in Readers
    BY <1>9 DEF Visits, Readers, tabVars
  <2>2. view' \in [Readers -> Keys]  BY DEF TypeOK, ReadTypeOK
  <2> QED  BY <1>0, <2>1, <2>2, HeardAsks
<1>10. ASSUME Commits  PROVE Heard(c)'
  <2>1. UNCHANGED <<held, left, page, req, got, age, shown, tabVars>> /\ db' = db + 1
    BY <1>10 DEF Commits, CommitsVerdict, cacheVars
  <2>2. db \in Nat  BY DEF TypeOK, ReadTypeOK
  <2> QED  BY <1>0, <1>t, <2>1, <2>2 DEF Heard, Hit, tabVars
<1>11. ASSUME Tick  PROVE Heard(c)'  BY <1>0, <1>11, HeardTick
<1> QED
  BY <1>1, <1>2, <1>3, <1>4, <1>5, <1>6, <1>7, <1>8, <1>9, <1>10, <1>11
  DEF Next, TabStep, Mounts, Connects, Opens, Breaks, Breaking, StartsPolling,
      Streams, tabVars, vars

(***************************************************************************)
(* The settle timer outlives every stale page: for any Settle of at least  *)
(* Ttl plus the slowest store, a tab at rest shows what it heard of        *)
(* (useAlertStream's trailing refresh over _cached_json's entries).        *)
(***************************************************************************)
THEOREM SettledSafe == Spec => []SettledIsShown
<1>1. Init => HeardIsTracked
  BY DEF Init, ReadInit, CacheInit, HeardIsTracked, Heard, Hit
<1>2. TypeOK /\ TypeOK' /\ HeardIsTracked /\ [Next]_vars => HeardIsTracked'
  BY HeardStep
<1>3. HeardIsTracked => SettledIsShown
  BY DEF HeardIsTracked, Heard, SettledIsShown, AtRest
<1> QED  BY <1>1, <1>2, <1>3, DashboardTypes, PTL DEF Spec

-----------------------------------------------------------------------------
Holders(f) == {c \in Tabs : f[c] # "none"}

LEMMA HoldersFinite ==
  ASSUME NEW f
  PROVE  IsFiniteSet(Holders(f)) /\ Cardinality(Holders(f)) \in Nat
  BY FiniteAssumption, FS_Subset, FS_CardinalityType DEF Holders

\* A tab gets a generator, or loses the one it has.
LEMMA HolderJoins ==
  ASSUME StreamTypeOK, NEW c \in Tabs, conn[c] = "none", NEW x, x # "none",
         conn' = [conn EXCEPT ![c] = x]
  PROVE  Cardinality(Holders(conn')) = Cardinality(Holders(conn)) + 1
<1>1. Holders(conn') = Holders(conn) \cup {c}  BY DEF Holders, StreamTypeOK
<1>2. c \notin Holders(conn)  BY DEF Holders
<1> QED  BY <1>1, <1>2, HoldersFinite, FS_AddElement

LEMMA HolderLeaves ==
  ASSUME StreamTypeOK, NEW c \in Tabs, conn[c] # "none",
         conn' = [conn EXCEPT ![c] = "none"]
  PROVE  /\ Cardinality(Holders(conn')) = Cardinality(Holders(conn)) - 1
         /\ Cardinality(Holders(conn)) > 0
<1>1. Holders(conn') = Holders(conn) \ {c}  BY DEF Holders, StreamTypeOK
<1>2. c \in Holders(conn)  BY DEF Holders
<1>3. Cardinality(Holders(conn')) = Cardinality(Holders(conn)) - 1
  BY <1>1, <1>2, HoldersFinite, FS_RemoveElement
<1> QED  BY <1>3, HoldersFinite

LEMMA HolderMoves ==
  ASSUME StreamTypeOK, NEW c \in Tabs, conn[c] # "none", NEW x, x # "none",
         conn' = [conn EXCEPT ![c] = x]
  PROVE  Holders(conn') = Holders(conn)
  BY DEF Holders, StreamTypeOK

LEMMA PermitsMove ==
  ASSUME StreamTypeOK, PermitsAccount, NEW c \in Tabs, StreamMoves(c)
  PROVE  PermitsAccount'
<1> DEFINE H == Cardinality(Holders(conn))
<1>a. /\ H \in Nat /\ active = H + zombies /\ active <= Limit
      /\ active \in Nat /\ zombies \in Nat
  BY HoldersFinite DEF PermitsAccount, Holders, StreamTypeOK
<1>s. SUFFICES active' = Cardinality(Holders(conn')) + zombies' /\ active' <= Limit
  BY DEF PermitsAccount, Holders
<1>1. CASE Admits(c)
  <2>1. Cardinality(Holders(conn')) = H + 1
    BY <1>1, HolderJoins DEF Admits, Becomes
  <2> QED  BY <1>1, <1>a, <2>1 DEF Admits, Acquire
<1>2. CASE Refuses(c)
  BY <1>2, <1>a DEF Refuses, streamVars
<1>3. CASE SubscribeFails(c) \/ StreamCloses(c)
  <2>1. conn[c] # "none" /\ conn' = [conn EXCEPT ![c] = "none"] /\ Release
        /\ zombies' = zombies
    BY <1>3 DEF SubscribeFails, StreamCloses, Becomes
  <2>2. Cardinality(Holders(conn')) = H - 1 /\ H > 0  BY <2>1, HolderLeaves
  <2> QED  BY <1>a, <2>1, <2>2 DEF Release
<1>4. CASE StreamEnds(c)
  <2>1. Holders(conn') = Holders(conn)
    BY <1>4, HolderMoves DEF StreamEnds, Becomes
  <2> QED  BY <1>4, <1>a, <2>1 DEF StreamEnds
<1>5. CASE Abandons(c)
  <2>1. CASE conn[c] = "none"
    <3>1. Holders(conn') = Holders(conn)
      BY <1>5, <2>1 DEF Abandons, Becomes, Holders, StreamTypeOK
    <3> QED  BY <1>5, <1>a, <2>1, <3>1 DEF Abandons
  <2>2. CASE conn[c] # "none"
    <3>1. Cardinality(Holders(conn')) = H - 1 /\ H > 0
      BY <1>5, <2>2, HolderLeaves DEF Abandons, Becomes
    <3>2. zombies' = zombies + 1 /\ active' = active  BY <1>5, <2>2 DEF Abandons
    <3> QED  BY <1>a, <3>1, <3>2
  <2> QED  BY <2>1, <2>2
<1>6. CASE Yields(c)
  BY <1>6, <1>a DEF Yields
<1> QED  BY <1>1, <1>2, <1>3, <1>4, <1>5, <1>6 DEF StreamMoves

LEMMA PermitsServe ==
  ASSUME StreamTypeOK, PermitsAccount, ServerStep
  PROVE  PermitsAccount'
<1> DEFINE H == Cardinality(Holders(conn))
<1>a. /\ H \in Nat /\ active = H + zombies /\ active <= Limit
      /\ active \in Nat /\ zombies \in Nat
  BY HoldersFinite DEF PermitsAccount, Holders, StreamTypeOK
<1>s. SUFFICES active' = Cardinality(Holders(conn')) + zombies' /\ active' <= Limit
  BY DEF PermitsAccount, Holders
<1>1. CASE NoticesGone
  BY <1>1, <1>a DEF NoticesGone, Release
<1>2. CASE TeardownEnds \/ Publishes \/ PublishFails
  BY <1>2, <1>a DEF TeardownEnds, Publishes, PublishFails
<1>3. ASSUME NEW c \in Tabs, Subscribes(c)
      PROVE  active' = Cardinality(Holders(conn')) + zombies' /\ active' <= Limit
  <2>1. Holders(conn') = Holders(conn)
    BY <1>3, HolderMoves DEF Subscribes, Becomes
  <2> QED  BY <1>3, <1>a, <2>1 DEF Subscribes
<1> QED  BY <1>1, <1>2, <1>3 DEF ServerStep

LEMMA PermitsStep ==
  ASSUME TypeOK, PermitsAccount, [Next]_vars
  PROVE  PermitsAccount'
<1>0. StreamTypeOK  BY DEF TypeOK
<1>1. CASE UNCHANGED <<active, conn, zombies>>  BY <1>1 DEF PermitsAccount
<1>2. ASSUME NEW c \in Tabs, StreamMoves(c)  PROVE PermitsAccount'
  BY <1>0, <1>2, PermitsMove
<1>3. ASSUME ServerStep  PROVE PermitsAccount'  BY <1>0, <1>3, PermitsServe
<1> QED
  BY <1>1, <1>2, <1>3
  DEF Next, TabStep, OpenTab, Mounts, Connects, Opens, Breaks, Breaking, Hears,
      SettleFires, PollFires, Refreshes, CloseTab, Serves, Commits, Streams,
      Tick, StreamMoves, streamVars, vars

(***************************************************************************)
(* StreamGate's pairing contract, for any number of tabs and any limit:    *)
(* every permit out belongs to a generator that has not ended.             *)
(***************************************************************************)
THEOREM PermitsSafe == Spec => []PermitsAccount
<1>1. Init => PermitsAccount
  <2>1. Init => {c \in Tabs : conn[c] # "none"} = {}  BY DEF Init, StreamInit
  <2> QED  BY <2>1, FS_EmptySet DEF Init, StreamInit, PermitsAccount
<1>2. TypeOK /\ PermitsAccount /\ [Next]_vars => PermitsAccount'  BY PermitsStep
<1> QED  BY <1>1, <1>2, DashboardTypes, PTL DEF Spec

-----------------------------------------------------------------------------
LEMMA SetEntryBounded ==
  ASSUME CacheTypeOK, CacheBounded, NEW k \in Keys, NEW v, SetEntry(k, v)
  PROVE  CacheBounded'
<1>1. PICK kept \in Survivors(k) : held' = kept \cup {k}  BY DEF SetEntry
<1>2. kept \subseteq held  BY SurvivorsAreHeld
<1>3. /\ IsFiniteSet(held) /\ IsFiniteSet(kept) /\ Cardinality(kept) \in Nat
      /\ Cardinality(held) \in Nat /\ Cardinality(kept) <= Cardinality(held)
      /\ IsFiniteSet(held \ Expired) /\ Cardinality(held \ Expired) \in Nat
      /\ Cardinality(held \ Expired) <= Cardinality(held)
  BY <1>2, FiniteAssumption, FS_Subset, FS_CardinalityType DEF CacheTypeOK
<1>4. CASE k \in kept
  <2>1. held' = kept  BY <1>1, <1>4
  <2> QED  BY <1>3, <2>1 DEF CacheBounded
<1>5. CASE k \notin kept
  <2>1. Cardinality(held') = Cardinality(kept) + 1
    BY <1>1, <1>3, <1>5, FS_AddElement
  <2>2. SUFFICES Cardinality(kept) < MaxEntries  BY <1>3, <2>1 DEF CacheBounded
  <2>3. CASE kept = held
    BY <1>3, <1>5, <2>3 DEF Survivors, Full, Soonest, Expired
  <2>4. CASE kept # held
    <3>1. Full(k, held)  BY <1>1, <2>4 DEF Survivors
    <3>2. CASE ~Full(k, held \ Expired)
      <4>1. kept = held \ Expired  BY <1>1, <3>1, <3>2 DEF Survivors
      <4> QED  BY <1>3, <3>2, <4>1, <1>5 DEF Full
    <3>3. CASE Full(k, held \ Expired)
      <4>1. PICK l \in held \ Expired : kept = (held \ Expired) \ {l}
        BY <1>1, <3>1, <3>3 DEF Survivors, Soonest
      <4>2. Cardinality(kept) = Cardinality(held \ Expired) - 1
        BY <1>3, <4>1, FS_RemoveElement
      <4> QED  BY <1>3, <4>2 DEF CacheBounded
    <3> QED  BY <3>2, <3>3
  <2> QED  BY <2>3, <2>4
<1> QED  BY <1>4, <1>5

LEMMA BoundStep ==
  ASSUME TypeOK, CacheBounded, [Next]_vars
  PROVE  CacheBounded'
<1>0. CacheTypeOK /\ view \in [Readers -> Keys] /\ IsFiniteSet(held)
      /\ Cardinality(held) \in Nat
  BY FiniteAssumption, FS_Subset, FS_CardinalityType DEF TypeOK, ReadTypeOK, CacheTypeOK
<1>1. CASE UNCHANGED held  BY <1>1 DEF CacheBounded
<1>2. ASSUME NEW r \in Readers, StoresPage(r)  PROVE CacheBounded'
  BY <1>0, <1>2, SetEntryBounded DEF StoresPage
<1>3. ASSUME NEW r \in Readers, Asks(r)  PROVE CacheBounded'
  <2>1. CASE UNCHANGED held  BY <2>1, <1>1
  <2>2. CASE GetMisses(view'[r])
    <3>1. held' \subseteq held  BY <2>2 DEF GetMisses
    <3>2. Cardinality(held') <= Cardinality(held) /\ Cardinality(held') \in Nat
      BY <1>0, <3>1, FS_Subset, FS_CardinalityType
    <3> QED  BY <1>0, <3>2 DEF CacheBounded
  <2> QED  BY <1>3, <2>1, <2>2 DEF Asks, cacheVars
<1> QED
  BY <1>1, <1>2, <1>3
  DEF Next, TabStep, OpenTab, Mounts, Connects, Opens, Breaks, Breaking, Hears,
      SettleFires, PollFires, Refreshes, CloseTab, Serves, RouteStep, ReadsPage,
      ReadFails, Visits, Commits, CommitsVerdict, Streams, Tick, RouteTick,
      CacheTick, Readers, routeVars, readVars, cacheVars, vars

(***************************************************************************)
(* InMemoryTTLCache never holds more than max_entries keys, whatever pages *)
(* the public routes are asked for and however their fills overlap.        *)
(***************************************************************************)
THEOREM CacheSafe == Spec => []CacheBounded
<1>1. Init => CacheBounded
  BY FS_EmptySet DEF Init, ReadInit, CacheInit, CacheBounded
<1>2. TypeOK /\ CacheBounded /\ [Next]_vars => CacheBounded'  BY BoundStep
<1> QED  BY <1>1, <1>2, DashboardTypes, PTL DEF Spec
=============================================================================
