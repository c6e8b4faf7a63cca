----------------------------- MODULE ApiRoutes -----------------------------
(***************************************************************************)
(* The two routes of the API that change state: POST /alerts               *)
(* (api/routes/alerts.ingest_alert) and POST /admin/retriage               *)
(* (api/routes/admin.retriage_alert), with the client that re-posts a      *)
(* session until it is answered 2xx.  A request is split where it commits: *)
(* between the commit and the enqueue a worker, another request or a       *)
(* crash of the API may come in.                                           *)
(***************************************************************************)
EXTENDS AlertStore, ArqQueue

VARIABLES
  posting,  \* posting[p]: the committed alert request p is about to enqueue
  acked,    \* acked[a]: the client saw a 2xx for the session
  apc,      \* apc[r]: where retriage request r is
  aalert,   \* aalert[r]: the alert it asks for
  used      \* today's value of the retriage counter

ingestVars == <<posting, acked>>
retriageVars == <<apc, aalert, used>>
apiVars == <<posting, acked, apc, aalert, used>>

ApiTypeOK ==
  /\ posting \in [Posts -> Alerts \cup {NoAlert}]
  /\ acked \in [Alerts -> BOOLEAN]
  /\ apc \in [Admins -> {"idle", "locking", "enqueue"}]
  /\ aalert \in [Admins -> Alerts \cup {NoAlert}]
  /\ used \in 0..(RetriagePerDay + 1)
  /\ \A r \in Admins : apc[r] = "idle" <=> aalert[r] = NoAlert

ApiInit ==
  /\ posting = [p \in Posts |-> NoAlert]
  /\ acked = [a \in Alerts |-> FALSE]
  /\ apc = [r \in Admins |-> "idle"]
  /\ aalert = [r \in Admins |-> NoAlert]
  /\ used = 0

\* The 2xx is on its way; the client sees it unless the connection breaks.
Answer(a) ==
  \/ acked' = [acked EXCEPT ![a] = TRUE]
  \/ UNCHANGED acked

\* the route enqueues only the alerts it has just created
IngestCreatedOnly(p, a) ==
  /\ posting[p] = NoAlert
  /\ InsertAlert(a)
  /\ IF status[a] = "absent"
       THEN posting' = [posting EXCEPT ![p] = a] /\ UNCHANGED acked
       ELSE Answer(a) /\ UNCHANGED posting
  /\ UNCHANGED <<queueVars, retriageVars>>

\* the job is enqueued before the insert commits
IngestEnqueueFirst(p, a) ==
  /\ posting[p] = NoAlert
  /\ EnqueueTriage(a)
  /\ posting' = [posting EXCEPT ![p] = a]
  /\ UNCHANGED <<storeVars, acked, retriageVars>>

(***************************************************************************)
(* insert_alert and the explicit commit.  A row just created or still      *)
(* pending goes on to the enqueue; a decided one is answered at once.      *)
(***************************************************************************)
IngestCommit(p, a) ==
  /\ posting[p] = NoAlert
  /\ InsertAlert(a)
  /\ IF status[a] \in {"absent", "pending"}
       THEN posting' = [posting EXCEPT ![p] = a] /\ UNCHANGED acked
       ELSE Answer(a) /\ UNCHANGED posting
  /\ UNCHANGED <<queueVars, retriageVars>>

\* enqueue(alert_id) returned, whether or not it queued anything: 202 or 200.
IngestEnqueue(p, a) ==
  /\ posting[p] = a
  /\ a # NoAlert
  /\ EnqueueTriage(a)
  /\ posting' = [posting EXCEPT ![p] = NoAlert]
  /\ Answer(a)
  /\ UNCHANGED <<storeVars, retriageVars>>

(***************************************************************************)
(* QueueUnavailableError (503), or the API dies: the row stays pending,    *)
(* nothing is queued and the client posts the session again.               *)
(***************************************************************************)
IngestUnavailable(p) ==
  /\ posting[p] # NoAlert
  /\ posting' = [posting EXCEPT ![p] = NoAlert]
  /\ UNCHANGED <<storeVars, queueVars, acked, retriageVars>>

EndRetriage(r) ==
  /\ apc' = [apc EXCEPT ![r] = "idle"]
  /\ aalert' = [aalert EXCEPT ![r] = NoAlert]
  /\ UNCHANGED used

(***************************************************************************)
(* _check_daily_retriage_cap counts first and compares afterwards.  The    *)
(* bounds: requests past the first refused one, and requests for an alert  *)
(* that has been pending MaxCycles times, are left out.                    *)
(***************************************************************************)
RetriageCap(r, a) ==
  /\ apc[r] = "idle"
  /\ used <= RetriagePerDay
  /\ cycles[a] < MaxCycles
  /\ used' = used + 1
  /\ IF used' > RetriagePerDay
       THEN UNCHANGED <<apc, aalert>>
       ELSE /\ apc' = [apc EXCEPT ![r] = "locking"]
            /\ aalert' = [aalert EXCEPT ![r] = a]
  /\ UNCHANGED <<storeVars, queueVars, ingestVars>>

\* The locked row is decided: flip_alert_to_pending and the commit.
RetriageFlip(r) ==
  /\ apc[r] = "locking"
  /\ cycles[aalert[r]] < MaxCycles
  /\ FlipToPending(aalert[r])
  /\ apc' = [apc EXCEPT ![r] = "enqueue"]
  /\ UNCHANGED <<queueVars, ingestVars, aalert, used>>

(***************************************************************************)
(* 404, 409 for a pending row, 409 for a lock not granted in time, or 500. *)
(***************************************************************************)
RetriageRefused(r) ==
  /\ apc[r] = "locking"
  /\ EndRetriage(r)
  /\ UNCHANGED <<storeVars, queueVars, ingestVars>>

\* enqueue(alert_id) returned, whether or not it queued anything: 202.
RetriageEnqueue(r) ==
  /\ apc[r] = "enqueue"
  /\ EnqueueTriage(aalert[r])
  /\ EndRetriage(r)
  /\ UNCHANGED <<storeVars, ingestVars>>

\* 503, or the API dies, after the flip was committed.
RetriageUnavailable(r) ==
  /\ apc[r] = "enqueue"
  /\ EndRetriage(r)
  /\ UNCHANGED <<storeVars, queueVars, ingestVars>>

ApiNext ==
  \/ \E p \in Posts, a \in Alerts : IngestCommit(p, a) \/ IngestEnqueue(p, a)
  \/ \E p \in Posts : IngestUnavailable(p)
  \/ \E r \in Admins, a \in Alerts : RetriageCap(r, a)
  \/ \E r \in Admins : \/ RetriageFlip(r)
                       \/ RetriageRefused(r)
                       \/ RetriageEnqueue(r)
                       \/ RetriageUnavailable(r)

\* A new UTC date: the counter has a new key.
CounterResets ==
  /\ used' = 0
  /\ UNCHANGED <<posting, acked, apc, aalert>>
=============================================================================
