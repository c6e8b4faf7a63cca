---------------------------- MODULE TriageSystem ----------------------------
(***************************************************************************)
(* The triage service: the API routes, the ARQ queue, the workers and the  *)
(* two tables they share.                                                  *)
(***************************************************************************)
EXTENDS TriageWorker, ApiRoutes

vars == <<storeVars, queueVars, workerVars, apiVars>>

TypeOK == StoreTypeOK /\ QueueTypeOK /\ WorkerTypeOK /\ ApiTypeOK

Init == StoreInit /\ QueueInit /\ WorkerInit /\ ApiInit

\* The lease outlives the attempt's and the job's timeouts, so it runs out
\* under a running job only if the worker's clock or process stalled.
LeaseRunsOut(a) ==
  /\ "lapse" \in Faults \/ \A w \in Workers : wjob[w] # a
  /\ LeaseExpires(a)
  /\ UNCHANGED <<storeVars, workerVars, apiVars>>

ResultRunsOut(a) ==
  /\ ResultExpires(a)
  /\ UNCHANGED <<storeVars, workerVars, apiVars>>

JobKeyRunsOut(a) ==
  /\ "expire" \in Faults
  /\ JobKeyExpires(a)
  /\ UNCHANGED <<storeVars, workerVars, apiVars>>

BackoffElapses(a) ==
  /\ DeferElapses(a)
  /\ UNCHANGED <<storeVars, workerVars, apiVars>>

NewDay ==
  /\ used # 0 \/ \E a \in Alerts : queue[a] = "midnight"
  /\ MidnightPasses
  /\ CounterResets
  /\ UNCHANGED <<storeVars, workerVars>>

Next ==
  \/ WorkerNext /\ UNCHANGED apiVars
  \/ ApiNext /\ UNCHANGED workerVars
  \/ \E a \in Alerts : \/ LeaseRunsOut(a)
                       \/ ResultRunsOut(a)
                       \/ JobKeyRunsOut(a)
                       \/ BackoffElapses(a)
  \/ NewDay

Spec == Init /\ [][Next]_vars

(***************************************************************************)
(* Fairness.  A job that was started runs on: the attempt is bounded by    *)
(* wait_for, everything else by socket timeouts.  ARQ picks due jobs in    *)
(* score order, so a job that stays due gets a slot although slots are     *)
(* taken by others in between.  Time passes.  The client posts a session   *)
(* until it is acknowledged, and an enqueue that is tried again and again  *)
(* finds Redis reachable some time.                                        *)
(***************************************************************************)
Fairness ==
  /\ \A w \in Workers : WF_vars(JobStep(w) /\ UNCHANGED apiVars)
  /\ \A a \in Alerts :
       /\ SF_vars(\E w \in Workers : StartJob(w, a) /\ UNCHANGED apiVars)
       /\ WF_vars(DropJob(a) /\ UNCHANGED apiVars)
       /\ WF_vars(LeaseRunsOut(a))
       /\ WF_vars(ResultRunsOut(a))
       /\ WF_vars(BackoffElapses(a))
       /\ SF_vars(\E p \in Posts : ~acked[a] /\ IngestCommit(p, a) /\ UNCHANGED workerVars)
       /\ SF_vars(\E p \in Posts : IngestEnqueue(p, a) /\ UNCHANGED workerVars)
  /\ WF_vars(NewDay)

FairSpec == Spec /\ Fairness

-----------------------------------------------------------------------------
(***************************************************************************)
(* At most one verdict is written each time an alert becomes pending, and  *)
(* a pending alert's current cycle has none yet: whatever is run twice,    *)
(* crashes or overlaps (triage_attempt: "a job that runs twice can never   *)
(* write a second verdict row").                                           *)
(***************************************************************************)
OneVerdictPerCycle ==
  \A a \in Alerts :
    verdicts[a] + (IF status[a] = "pending" THEN 1 ELSE 0) <= cycles[a]

(***************************************************************************)
(* The row lock is held exactly by the slot whose pipeline runs for the    *)
(* alert, and the alert stays pending under it: two runs never spend       *)
(* tokens on one alert together, no path leaves the lock behind, and a     *)
(* terminal write or a retriage waits for the run's commit or rollback.    *)
(***************************************************************************)
AttemptOwnsRow ==
  \A a \in Alerts, w \in Workers :
    /\ rowLock[a] = w <=> wpc[w] = "llm" /\ wjob[w] = a
    /\ rowLock[a] = w => status[a] = "pending"

(***************************************************************************)
(* Spine rule M5-a: whatever the queue or a worker holds, and whatever a   *)
(* route is about to enqueue, is an alert whose row is committed.          *)
(***************************************************************************)
QueuedIsDurable ==
  \A a \in Alerts :
    status[a] = "absent" =>
      /\ queue[a] = "none"
      /\ ~jobKey[a]
      /\ \A w \in Workers : wjob[w] # a
      /\ \A p \in Posts : posting[p] # a
      /\ \A r \in Admins : apc[r] = "enqueue" => aalert[r] # a

(***************************************************************************)
(* verdict.created is published at most once per committed verdict, also   *)
(* when the job is run again after the commit (publish_verdict_created).   *)
(***************************************************************************)
AnnouncedOnce == \A a \in Alerts : announced[a] <= verdicts[a]

(***************************************************************************)
(* While nothing crashes and no retriage is asked for: a pending alert     *)
(* whose client was told 2xx is in the queue.  Holding on to the fixed job *)
(* id's idempotence, a refused enqueue never strands an acknowledged alert.*)
(***************************************************************************)
PendingIsCovered ==
  \A a \in Alerts : status[a] = "pending" /\ acked[a] => queue[a] # "none"

(***************************************************************************)
(* retriage_alert re-enqueues: when the route answers 202, a job for the   *)
(* alert is in the queue.                                                  *)
(***************************************************************************)
RetriageEnqueues ==
  [][\A r \in Admins : RetriageEnqueue(r) => queue'[aalert[r]] # "none"]_vars

(***************************************************************************)
(* A job deferred for the budget is run after midnight, at any try count:  *)
(* its payload is there and ARQ will not refuse the next try.              *)
(***************************************************************************)
DeferredWillRun ==
  \A a \in Alerts : queue[a] = "midnight" => jobKey[a] /\ tries[a] < MaxTries

(***************************************************************************)
(* Every alert that becomes pending is decided in the end.                 *)
(***************************************************************************)
EventuallyDecided ==
  \A a \in Alerts : status[a] = "pending" ~> status[a] \in Decided

(***************************************************************************)
(* Every queued job leaves the queue in the end, whatever its attempts do: *)
(* a poison alert never wedges the queue.                                  *)
(***************************************************************************)
QueueDrains == \A a \in Alerts : queue[a] # "none" ~> queue[a] = "none"

(***************************************************************************)
(* The rows evolve as AlertLifecycle says, for environments in which no    *)
(* database statement of a job fails and no lease lapses under a job.      *)
(***************************************************************************)
Lifecycle == INSTANCE AlertLifecycle

LifecycleSpec == Lifecycle!Spec
=============================================================================
