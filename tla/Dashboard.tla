----------------------------- MODULE Dashboard -----------------------------
(***************************************************************************)
(* The dashboard (web/src/hooks/useAlertStream.ts) over the event stream   *)
(* and the cached list.  An event is a hint to read the list again: at     *)
(* once, and once more when the list's cache has turned over; while the    *)
(* stream is down the tab polls.  The browser reopens a stream that broke  *)
(* and gives up one that was refused; the page's refreshes run one after   *)
(* another.                                                                *)
(***************************************************************************)
EXTENDS ReadRoutes, EventStream

VARIABLES
  status,   \* of the tab; "rejected" polls for good
  want,     \* a refresh that has not begun
  armed,    \* the settle timer is set, ...
  settle,   \* ... and fires after this long
  heard     \* history: verdicts committed when its last event arrived

tabVars == <<status, want, armed, settle, heard>>
vars == <<routeVars, streamVars, tabVars>>

Polling == {"polling", "rejected"}

TypeOK ==
  /\ ReadTypeOK
  /\ StreamTypeOK
  /\ status \in [Tabs -> {"closed", "loading", "connecting", "live"} \cup Polling]
  /\ want \in [Tabs -> BOOLEAN]
  /\ armed \in [Tabs -> BOOLEAN]
  /\ settle \in [Tabs -> 0..Settle]
  /\ heard \in [Tabs -> Nat]

Init ==
  /\ ReadInit
  /\ StreamInit
  /\ status = [c \in Tabs |-> "closed"]
  /\ want = [c \in Tabs |-> FALSE]
  /\ armed = [c \in Tabs |-> FALSE]
  /\ settle = [c \in Tabs |-> 0]
  /\ heard = [c \in Tabs |-> 0]

Turns(c, there) == status' = [status EXCEPT ![c] = there]

\* The "error" listener: the tab polls until "open".
StartsPolling(c, there) ==
  /\ Turns(c, there)
  /\ UNCHANGED <<want, armed, settle, heard>>

-----------------------------------------------------------------------------
\* The page is asked for; the web server renders it from the list route.
OpenTab(c) ==
  /\ status[c] = "closed"
  /\ Free(c)
  /\ Turns(c, "loading")
  /\ want' = [want EXCEPT ![c] = TRUE]
  /\ \E k \in Keys : view' = [view EXCEPT ![c] = k]
  /\ UNCHANGED <<cacheVars, db, req, got, age, shown>>
  /\ UNCHANGED <<streamVars, armed, settle, heard>>

\* The page is there; the effect creates the EventSource.
Mounts(c) ==
  /\ status[c] = "loading"
  /\ Free(c) /\ ~want[c]
  /\ Turns(c, "connecting")
  /\ UNCHANGED <<routeVars, streamVars, want, armed, settle, heard>>

\* EventSource connects, or connects again after an error.
Connects(c) ==
  /\ status[c] \in {"connecting", "polling"}
  /\ \/ Admits(c) /\ UNCHANGED tabVars
     \/ Refuses(c) /\ StartsPolling(c, "rejected")
  /\ UNCHANGED routeVars

\* "open": the response's headers arrive, subscribed or not.
Opens(c) ==
  /\ status[c] \in {"connecting", "polling"}
  /\ conn[c] # "none"
  /\ Turns(c, "live")
  /\ UNCHANGED <<routeVars, streamVars, want, armed, settle, heard>>

\* "error": the response's body ends, or the connection is lost.
Breaks(c) ==
  /\ \/ SubscribeFails(c)
     \/ StreamCloses(c)
     \/ "network" \in Faults /\ conn[c] # "none" /\ Abandons(c)
  /\ StartsPolling(c, "polling")
  /\ UNCHANGED routeVars

Breaking(c) == StreamEnds(c) /\ UNCHANGED <<routeVars, tabVars>>

\* one refresh at once, and none after the cache has turned over
HearsUnsettled(c) ==
  /\ status[c] = "live"
  /\ Yields(c)
  /\ heard' = [heard EXCEPT ![c] = db]
  /\ want' = [want EXCEPT ![c] = TRUE]
  /\ UNCHANGED <<routeVars, status, armed, settle>>

\* "verdict.created"
Hears(c) ==
  /\ status[c] = "live"
  /\ Yields(c)
  /\ heard' = [heard EXCEPT ![c] = db]
  /\ want' = [want EXCEPT ![c] = TRUE]
  /\ armed' = [armed EXCEPT ![c] = TRUE]
  /\ settle' = [settle EXCEPT ![c] = Settle]
  /\ UNCHANGED <<routeVars, status>>

SettleFires(c) ==
  /\ armed[c]
  /\ settle[c] = 0
  /\ armed' = [armed EXCEPT ![c] = FALSE]
  /\ want' = [want EXCEPT ![c] = TRUE]
  /\ UNCHANGED <<routeVars, streamVars, status, settle, heard>>

\* polling stops with a source that will not reconnect
PollsWhileOpen(c) ==
  /\ status[c] = "polling"
  /\ want' = [want EXCEPT ![c] = TRUE]
  /\ UNCHANGED <<routeVars, streamVars, status, armed, settle, heard>>

\* POLL_INTERVAL_MS has passed, however long that is.
PollFires(c) ==
  /\ status[c] \in Polling
  /\ want' = [want EXCEPT ![c] = TRUE]
  /\ UNCHANGED <<routeVars, streamVars, status, armed, settle, heard>>

\* router.refresh(): the list route is asked again.
Refreshes(c) ==
  /\ want[c]
  /\ want' = [want EXCEPT ![c] = FALSE]
  /\ UNCHANGED view
  /\ Asks(c)
  /\ UNCHANGED <<streamVars, status, armed, settle, heard>>

\* The effect's cleanup; a request on its way is answered to nobody.
CloseTab(c) ==
  /\ status[c] # "closed"
  /\ Turns(c, "closed")
  /\ Abandons(c)
  /\ want' = [want EXCEPT ![c] = FALSE]
  /\ armed' = [armed EXCEPT ![c] = FALSE]
  /\ settle' = [settle EXCEPT ![c] = 0]
  /\ heard' = [heard EXCEPT ![c] = 0]
  /\ UNCHANGED routeVars

-----------------------------------------------------------------------------
Commits ==
  /\ db < MaxVerdicts
  /\ CommitsVerdict
  /\ unsent' = unsent + 1
  /\ UNCHANGED <<active, conn, inbox, zombies, teardowns, tabVars>>

Serves(c) == (RouteStep(c) \/ ReadFails(c)) /\ UNCHANGED <<streamVars, tabVars>>

Streams == ServerStep /\ UNCHANGED <<routeVars, tabVars>>

Tick ==
  /\ RouteTick
  /\ settle' = [c \in Tabs |-> Less(settle[c])]
  /\ UNCHANGED <<streamVars, status, want, armed, heard>>

TabStep(c) ==
  \/ Mounts(c) \/ Connects(c) \/ Opens(c) \/ Hears(c)
  \/ SettleFires(c) \/ PollFires(c) \/ Refreshes(c)

Next ==
  \/ \E c \in Tabs : \/ OpenTab(c) \/ TabStep(c) \/ Breaking(c) \/ Breaks(c)
                     \/ CloseTab(c)
  \/ \E c \in Readers : Serves(c)
  \/ \E c \in Visitors : Visits(c) /\ UNCHANGED <<streamVars, tabVars>>
  \/ Commits
  \/ Streams
  \/ Tick

Spec == Init /\ [][Next]_vars

(***************************************************************************)
(* Fairness: timers and events are handled, requests answered, the server  *)
(* notices a client that is gone, and time passes.  Nobody has to open or  *)
(* close a tab, nothing has to fail.                                       *)
(***************************************************************************)
Fairness ==
  /\ \A c \in Tabs :
       /\ WF_vars(Mounts(c) \/ Connects(c) \/ Opens(c))
       /\ WF_vars(Hears(c))
       /\ WF_vars(SettleFires(c))
       /\ WF_vars(PollFires(c))
       /\ WF_vars(Refreshes(c))
       /\ WF_vars(StreamCloses(c) /\ Breaks(c))
       /\ WF_vars(Subscribes(c) /\ UNCHANGED <<routeVars, tabVars>>)
  /\ \A c \in Readers : WF_vars(RouteStep(c) /\ UNCHANGED <<streamVars, tabVars>>)
  /\ WF_vars(NoticesGone /\ UNCHANGED <<routeVars, tabVars>>)
  /\ WF_vars(TeardownEnds /\ UNCHANGED <<routeVars, tabVars>>)
  /\ WF_vars(Publishes /\ UNCHANGED <<routeVars, tabVars>>)
  /\ WF_vars(Tick)

FairSpec == Spec /\ Fairness

-----------------------------------------------------------------------------
(***************************************************************************)
(* A permit is out exactly for each generator that has not ended, so none  *)
(* is lost and none is returned twice, whatever fails, is cancelled or is  *)
(* abandoned: a dead Redis or a reconnect never uses up the gate.          *)
(***************************************************************************)
PermitsAccount ==
  /\ active = Cardinality({c \in Tabs : conn[c] # "none"}) + zombies
  /\ active <= Limit

(***************************************************************************)
(* A tab at rest shows every verdict that was committed when its last      *)
(* event arrived: a page computed before the commit and cached after it is *)
(* gone when the settle timer reads the list again.                        *)
(***************************************************************************)
AtRest(c) == ~want[c] /\ ~armed[c] /\ req[c] = "idle" /\ status[c] # "closed"

SettledIsShown == \A c \in Tabs : AtRest(c) => heard[c] <= shown[c]

(***************************************************************************)
(* Why: a page older than what a tab heard is cached, or about to be, only *)
(* while the tab's settle timer is set and fires after the page expired.   *)
(***************************************************************************)
Heard(c) ==
  /\ heard[c] <= db
  /\ \A k \in Keys :
       Hit(k) /\ page[k] < heard[c] => armed[c] /\ left[k] <= settle[c]
  /\ \A r \in Readers :
       req[r] = "storing" /\ got[r] < heard[c] =>
         armed[c] /\ Ttl + Slow <= settle[c] + age[r]
  /\ heard[c] <= shown[c] \/ armed[c] \/ want[c] \/ req[c] # "idle"

HeardIsTracked == \A c \in Tabs : Heard(c)

\* A public route cannot grow the cache past its bound.
CacheBounded == Cardinality(held) <= MaxEntries

(***************************************************************************)
(* A verdict whose event arrived, and any verdict while the tab is one     *)
(* that was refused a stream, is shown some time, unless the tab is closed *)
(* or a read of the list fails in its stead.                               *)
(***************************************************************************)
Fresh ==
  \A c \in Tabs : \A v \in 1..MaxVerdicts :
    v <= db /\ (v <= heard[c] \/ status[c] = "rejected")
      ~> v <= shown[c] \/ status[c] = "closed" \/ req[c] = "failed"

(***************************************************************************)
(* When every tab is closed, the permits and the connections come back.    *)
(***************************************************************************)
PermitsReturn ==
  <>[](\A c \in Tabs : status[c] = "closed") => <>[](active = 0 /\ teardowns = 0)
=============================================================================
