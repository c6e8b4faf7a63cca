----------------------------- MODULE ReadRoutes -----------------------------
(***************************************************************************)
(* The public read routes (api/routes/alerts_read.py) over the alert list  *)
(* (core/services/alerts_read.py): a page comes from the cache, or it is   *)
(* read from the database and stored on its way out.  Between the read and *)
(* the store other requests run, and verdicts are committed.               *)
(***************************************************************************)
EXTENDS TtlCache

VARIABLES
  db,       \* verdicts committed
  view,     \* view[c]: the page reader c asks for
  req,      \* its request
  got,      \* what the request read
  age,      \* how long ago
  shown     \* the page the tab shows

readVars == <<db, view, req, got, age, shown>>
routeVars == <<cacheVars, readVars>>

ReadTypeOK ==
  /\ CacheTypeOK
  /\ db \in Nat
  /\ view \in [Readers -> Keys]
  /\ req \in [Readers -> {"idle", "reading", "storing", "failed"}]
  /\ got \in [Readers -> Nat]
  /\ age \in [Readers -> 0..Slow]
  /\ shown \in [Tabs -> Nat]

ReadInit ==
  /\ CacheInit
  /\ db = 0
  /\ view = [c \in Readers |-> CHOOSE k \in Keys : TRUE]
  /\ req = [c \in Readers |-> "idle"]
  /\ got = [c \in Readers |-> 0]
  /\ age = [c \in Readers |-> 0]
  /\ shown = [c \in Tabs |-> 0]

\* The last request was answered, or failed.
Free(c) == req[c] \in {"idle", "failed"}

Requests(c, there) == req' = [req EXCEPT ![c] = there]

\* The answer; what a visitor does with it is left out.
Shows(c, v) == shown' = IF c \in Tabs THEN [shown EXCEPT ![c] = v] ELSE shown

\* _cached_json: a page that is cached is the answer; a miss begins produce().
Asks(c) ==
  /\ Free(c)
  /\ \/ Hit(view'[c]) /\ Requests(c, "idle") /\ Shows(c, page[view'[c]]) /\ UNCHANGED cacheVars
     \/ GetMisses(view'[c]) /\ Requests(c, "reading") /\ UNCHANGED shown
  /\ UNCHANGED <<db, got, age>>

\* list_alerts: the rows are those committed when its page statement runs.
ReadsPage(c) ==
  /\ req[c] = "reading"
  /\ Requests(c, "storing")
  /\ got' = [got EXCEPT ![c] = db]
  /\ age' = [age EXCEPT ![c] = 0]
  /\ UNCHANGED <<cacheVars, db, view, shown>>

\* produce() raises: a 500, and nothing is cached.
ReadFails(c) ==
  /\ "database" \in Faults
  /\ req[c] = "reading"
  /\ Requests(c, IF c \in Tabs THEN "failed" ELSE "idle")
  /\ UNCHANGED <<cacheVars, db, view, got, age, shown>>

StoresPage(c) ==
  /\ req[c] = "storing"
  /\ SetEntry(view[c], got[c])
  /\ Requests(c, "idle")
  /\ Shows(c, got[c])
  /\ got' = [got EXCEPT ![c] = 0]
  /\ age' = [age EXCEPT ![c] = 0]
  /\ UNCHANGED <<db, view>>

RouteStep(c) == ReadsPage(c) \/ StoresPage(c)

\* A visitor asks for some page.
Visits(c) ==
  /\ \E k \in Keys : view' = [view EXCEPT ![c] = k]
  /\ Asks(c)

\* persist_verdict's commit, in the worker.
CommitsVerdict ==
  /\ db' = db + 1
  /\ UNCHANGED <<cacheVars, view, req, got, age, shown>>

RouteTick ==
  /\ \A c \in Readers : req[c] = "storing" => age[c] < Slow
  /\ age' = [c \in Readers |-> IF req[c] = "storing" THEN age[c] + 1 ELSE age[c]]
  /\ CacheTick
  /\ UNCHANGED <<db, view, req, got, shown>>
=============================================================================
