------------------------- MODULE TriageSystemProofs -------------------------
(***************************************************************************)
(* Proofs about TriageSystem, for any number of alerts, job slots and      *)
(* requests, any number of tries and any set of faults.                    *)
(***************************************************************************)
EXTENDS TriageSystem, FiniteSetTheorems, TLAPS

(***************************************************************************)
(* The inductive invariant.  OneVerdictPerCycle is not inductive alone:    *)
(* Persist adds a verdict, and only AttemptOwnsRow says that the row it    *)
(* decides is pending.                                                     *)
(***************************************************************************)
IndInv == TypeOK /\ OneVerdictPerCycle /\ AttemptOwnsRow /\ QueuedIsDurable

(***************************************************************************)
(* The service starts with no row, no lock and nothing queued.             *)
(***************************************************************************)
LEMMA InitInv == Init => IndInv
BY NoAlertAssumption, NoWorkerAssumption, MaxTriesAssumption, BoundsAssumption
   DEF Init, StoreInit, QueueInit, WorkerInit, ApiInit, IndInv, TypeOK,
       StoreTypeOK, QueueTypeOK, WorkerTypeOK, ApiTypeOK, Statuses, Places,
       OneVerdictPerCycle, AttemptOwnsRow, QueuedIsDurable

(***************************************************************************)
(* Every step of a worker, and every loss of one, keeps the invariant.     *)
(***************************************************************************)
LEMMA WorkerInv ==
  ASSUME IndInv, WorkerNext, UNCHANGED apiVars
  PROVE  IndInv'
<1> USE NoAlertAssumption, NoWorkerAssumption, MaxTriesAssumption
<1> USE DEF IndInv, TypeOK, StoreTypeOK, QueueTypeOK, WorkerTypeOK, ApiTypeOK,
            Statuses, Places, Deferrals, apiVars,
            OneVerdictPerCycle, AttemptOwnsRow, QueuedIsDurable
<1>1. ASSUME NEW w \in Workers, NEW a \in Alerts, StartJob(w, a) PROVE IndInv'
  BY <1>1 DEF StartJob, TakeJob, CanPick, storeVars
<1>2. ASSUME NEW a \in Alerts, DropJob(a) PROVE IndInv'
  BY <1>2 DEF DropJob, RefuseJob, CanPick, ClearJob, storeVars, workerVars
<1>3. ASSUME NEW w \in Workers, AttemptBegins(w) PROVE IndInv'
  BY <1>3 DEF AttemptBegins, LockRow, RowFree, Goto, queueVars
<1>4. ASSUME NEW w \in Workers, AttemptSkips(w) PROVE IndInv'
  BY <1>4 DEF AttemptSkips, Goto, storeVars, queueVars
<1>5. ASSUME NEW w \in Workers, AttemptFails(w) PROVE IndInv'
  BY <1>5 DEF AttemptFails, Rollback, Goto, DecideRetry, queueVars
<1>6. ASSUME NEW w \in Workers, BudgetExceeded(w) PROVE IndInv'
  BY <1>6 DEF BudgetExceeded, Rollback, Goto, queueVars
<1>7. ASSUME NEW w \in Workers, Persist(w) PROVE IndInv'
  BY <1>7 DEF Persist, PersistVerdict, Goto, queueVars
<1>8. ASSUME NEW w \in Workers, Publish(w) PROVE IndInv'
  BY <1>8 DEF Publish, Goto, storeVars, queueVars
<1>9. ASSUME NEW w \in Workers, Requeue(w) PROVE IndInv'
  <2>1. PICK until \in Deferrals : DeferJob(wjob[w], until)
    BY <1>9 DEF Requeue
  <2>2. wjob[w] \in Alerts /\ status[wjob[w]] # "absent"
    BY <1>9 DEF Requeue
  <2>3. TypeOK'
    BY <1>9, <2>1, <2>2 DEF Requeue, DeferJob, Rest, storeVars
  <2>4. OneVerdictPerCycle' /\ AttemptOwnsRow'
    BY <1>9 DEF Requeue, Rest, storeVars
  <2>5. QueuedIsDurable'
    BY <1>9, <2>1, <2>2 DEF Requeue, DeferJob, Rest, storeVars
  <2> QED BY <2>3, <2>4, <2>5
<1>10. ASSUME NEW w \in Workers, MarkFailed(w) PROVE IndInv'
  BY <1>10 DEF MarkFailed, SetFailed, RowFree, Goto, queueVars
<1>11. ASSUME NEW w \in Workers, MarkRaises(w) PROVE IndInv'
  BY <1>11 DEF MarkRaises, Goto, storeVars, queueVars
<1>12. ASSUME NEW w \in Workers, Finish(w) PROVE IndInv'
  BY <1>12 DEF Finish, ClearJob, Rest, storeVars
<1>13. ASSUME NEW w \in Workers, Cancel(w) PROVE IndInv'
  BY <1>13 DEF Cancel, Rollback, ReleaseJob, Rest
<1>14. ASSUME NEW w \in Workers, Crash(w) PROVE IndInv'
  BY <1>14 DEF Crash, Rollback, Rest, queueVars
<1> QED
  BY <1>1, <1>2, <1>3, <1>4, <1>5, <1>6, <1>7, <1>8, <1>9, <1>10, <1>11,
     <1>12, <1>13, <1>14 DEF WorkerNext, JobStep

(***************************************************************************)
(* What the client has seen stays a Boolean per alert, answered or not.    *)
(***************************************************************************)
LEMMA AnswerType ==
  ASSUME acked \in [Alerts -> BOOLEAN], NEW a \in Alerts, Answer(a)
  PROVE  acked' \in [Alerts -> BOOLEAN]
<1>1. CASE acked' = [acked EXCEPT ![a] = TRUE]
  BY <1>1
<1>2. CASE acked' = acked
  BY <1>2
<1> QED BY <1>1, <1>2 DEF Answer

(***************************************************************************)
(* Every step of the ingest and retriage routes keeps the invariant.       *)
(***************************************************************************)
LEMMA ApiInv ==
  ASSUME IndInv, ApiNext, UNCHANGED workerVars
  PROVE  IndInv'
<1> USE NoAlertAssumption, NoWorkerAssumption, BoundsAssumption
<1> USE DEF IndInv, TypeOK, StoreTypeOK, QueueTypeOK, WorkerTypeOK, ApiTypeOK,
            Statuses, Decided, Deferrals, workerVars,
            OneVerdictPerCycle, AttemptOwnsRow, QueuedIsDurable
<1>1. ASSUME NEW p \in Posts, NEW a \in Alerts, IngestCommit(p, a) PROVE IndInv'
  <2>1. CASE status[a] = "absent"
    <3>1. /\ posting' = [posting EXCEPT ![p] = a]
          /\ status' = [status EXCEPT ![a] = "pending"]
          /\ cycles' = [cycles EXCEPT ![a] = @ + 1]
          /\ UNCHANGED <<verdicts, rowLock, queueVars, acked, retriageVars>>
      BY <1>1, <2>1 DEF IngestCommit, InsertAlert
    <3> QED BY <2>1, <3>1 DEF queueVars, retriageVars
  <2>2. CASE status[a] = "pending"
    <3>1. /\ posting' = [posting EXCEPT ![p] = a]
          /\ UNCHANGED <<storeVars, queueVars, acked, retriageVars>>
      BY <1>1, <2>2 DEF IngestCommit, InsertAlert
    <3> QED BY <2>2, <3>1 DEF storeVars, queueVars, retriageVars
  <2>3. CASE status[a] \in Decided
    <3>1. Answer(a) /\ UNCHANGED <<storeVars, queueVars, posting, retriageVars>>
      BY <1>1, <2>3 DEF IngestCommit, InsertAlert
    <3> QED BY <3>1, AnswerType DEF storeVars, queueVars, retriageVars
  <2> QED BY <2>1, <2>2, <2>3
<1>2. ASSUME NEW p \in Posts, NEW a \in Alerts, IngestEnqueue(p, a) PROVE IndInv'
  <2>1. /\ acked' \in [Alerts -> BOOLEAN]
        /\ posting' = [posting EXCEPT ![p] = NoAlert]
        /\ posting[p] = a
        /\ UNCHANGED <<storeVars, retriageVars>>
    BY <1>2, AnswerType DEF IngestEnqueue
  <2>2. CASE UNCHANGED queueVars
    BY <2>1, <2>2 DEF storeVars, queueVars, retriageVars
  <2>3. CASE /\ jobKey' = [jobKey EXCEPT ![a] = TRUE]
             /\ queue' = [queue EXCEPT ![a] = "due"]
             /\ UNCHANGED <<lease, tries, resultKey>>
    BY <2>1, <2>3 DEF storeVars, retriageVars
  <2> QED BY <1>2, <2>2, <2>3 DEF IngestEnqueue, EnqueueTriage
<1>3. ASSUME NEW p \in Posts, IngestUnavailable(p) PROVE IndInv'
  BY <1>3 DEF IngestUnavailable, storeVars, queueVars, retriageVars
<1>4. ASSUME NEW r \in Admins, NEW a \in Alerts, RetriageCap(r, a) PROVE IndInv'
  <2>1. CASE used' > RetriagePerDay
    BY <1>4, <2>1 DEF RetriageCap, storeVars, queueVars, ingestVars
  <2>2. CASE ~(used' > RetriagePerDay)
    <3>1. /\ apc' = [apc EXCEPT ![r] = "locking"]
          /\ aalert' = [aalert EXCEPT ![r] = a]
          /\ used' \in 0..(RetriagePerDay + 1)
          /\ UNCHANGED <<storeVars, queueVars, ingestVars>>
      BY <1>4, <2>2 DEF RetriageCap
    <3>2. TypeOK'
      BY <3>1 DEF storeVars, queueVars, ingestVars
    <3>3. OneVerdictPerCycle' /\ AttemptOwnsRow'
      BY <3>1 DEF storeVars
    <3>4. QueuedIsDurable'
      BY <3>1 DEF storeVars, queueVars, ingestVars
    <3> QED BY <3>2, <3>3, <3>4
  <2> QED BY <2>1, <2>2
<1>5. ASSUME NEW r \in Admins, RetriageFlip(r) PROVE IndInv'
  BY <1>5 DEF RetriageFlip, FlipToPending, RowFree, queueVars, ingestVars
<1>6. ASSUME NEW r \in Admins, RetriageRefused(r) PROVE IndInv'
  BY <1>6 DEF RetriageRefused, EndRetriage, storeVars, queueVars, ingestVars
<1>7. ASSUME NEW r \in Admins, RetriageEnqueue(r) PROVE IndInv'
  <2>1. aalert[r] \in Alerts /\ status[aalert[r]] # "absent"
    BY <1>7 DEF RetriageEnqueue
  <2>2. CASE UNCHANGED queueVars
    BY <1>7, <2>2 DEF RetriageEnqueue, EndRetriage, storeVars, queueVars, ingestVars
  <2>3. CASE /\ jobKey' = [jobKey EXCEPT ![aalert[r]] = TRUE]
             /\ queue' = [queue EXCEPT ![aalert[r]] = "due"]
             /\ UNCHANGED <<lease, tries, resultKey>>
    BY <1>7, <2>1, <2>3 DEF RetriageEnqueue, EndRetriage, storeVars, ingestVars
  <2> QED BY <1>7, <2>2, <2>3 DEF RetriageEnqueue, EnqueueTriage
<1>8. ASSUME NEW r \in Admins, RetriageUnavailable(r) PROVE IndInv'
  BY <1>8 DEF RetriageUnavailable, EndRetriage, storeVars, queueVars, ingestVars
<1> QED
  BY <1>1, <1>2, <1>3, <1>4, <1>5, <1>6, <1>7, <1>8 DEF ApiNext

(***************************************************************************)
(* Every step of the system keeps the invariant: a worker's, a route's,    *)
(* and the passing of time in Redis.                                       *)
(***************************************************************************)
LEMMA NextInv == IndInv /\ [Next]_vars => IndInv'
<1> SUFFICES ASSUME IndInv, [Next]_vars PROVE IndInv'
  OBVIOUS
<1> USE NoWorkerAssumption, MaxTriesAssumption, BoundsAssumption
<1>1. CASE WorkerNext /\ UNCHANGED apiVars
  BY <1>1, WorkerInv
<1>2. CASE ApiNext /\ UNCHANGED workerVars
  BY <1>2, ApiInv
<1> USE DEF IndInv, TypeOK, StoreTypeOK, QueueTypeOK, WorkerTypeOK, ApiTypeOK,
            Deferrals, OneVerdictPerCycle, AttemptOwnsRow, QueuedIsDurable
<1>3. ASSUME NEW a \in Alerts, LeaseRunsOut(a) PROVE IndInv'
  BY <1>3 DEF LeaseRunsOut, LeaseExpires, ReleaseJob, storeVars, workerVars, apiVars
<1>4. ASSUME NEW a \in Alerts, ResultRunsOut(a) PROVE IndInv'
  BY <1>4 DEF ResultRunsOut, ResultExpires, storeVars, workerVars, apiVars
<1>5. ASSUME NEW a \in Alerts, JobKeyRunsOut(a) PROVE IndInv'
  BY <1>5 DEF JobKeyRunsOut, JobKeyExpires, storeVars, workerVars, apiVars
<1>6. ASSUME NEW a \in Alerts, BackoffElapses(a) PROVE IndInv'
  BY <1>6 DEF BackoffElapses, DeferElapses, storeVars, workerVars, apiVars
<1>7. CASE NewDay
  BY <1>7 DEF NewDay, MidnightPasses, CounterResets, storeVars, workerVars
<1>8. CASE UNCHANGED vars
  BY <1>8 DEF vars, storeVars, queueVars, workerVars, apiVars
<1> QED
  BY <1>1, <1>2, <1>3, <1>4, <1>5, <1>6, <1>7, <1>8 DEF Next

LEMMA AlwaysInv == Spec => []IndInv
BY InitInv, NextInv, PTL DEF Spec

(***************************************************************************)
(* Every variable keeps its type.  In particular ARQ never starts a job    *)
(* more than MaxTries times, and a slot is idle exactly when it has no job.*)
(***************************************************************************)
THEOREM TypeCorrect == Spec => []TypeOK
<1>1. IndInv => TypeOK
  BY DEF IndInv
<1> QED BY <1>1, AlwaysInv, PTL

(***************************************************************************)
(* No interleaving, crash, lapsed lease, failed statement or repeated post *)
(* makes a job write two verdicts for one pending cycle of an alert.       *)
(***************************************************************************)
THEOREM AtMostOneVerdict == Spec => []OneVerdictPerCycle
<1>1. IndInv => OneVerdictPerCycle
  BY DEF IndInv
<1> QED BY <1>1, AlwaysInv, PTL

(***************************************************************************)
(* The row lock of triage_attempt excludes every other run and every other *)
(* writer of the status for as long as the pipeline runs, and is released  *)
(* on every path out of it.                                                *)
(***************************************************************************)
THEOREM ExclusiveAttempt == Spec => []AttemptOwnsRow
<1>1. IndInv => AttemptOwnsRow
  BY DEF IndInv
<1> QED BY <1>1, AlwaysInv, PTL

(***************************************************************************)
(* Both routes commit the row before they enqueue it, so no worker is ever *)
(* handed an alert that does not exist.                                    *)
(***************************************************************************)
THEOREM DurableBeforeQueued == Spec => []QueuedIsDurable
<1>1. IndInv => QueuedIsDurable
  BY DEF IndInv
<1> QED BY <1>1, AlwaysInv, PTL

-----------------------------------------------------------------------------
(***************************************************************************)
(* The implementation of AlertLifecycle.  Without a lapsed lease a job is  *)
(* run by one slot at a time; then mark_alert_failed, which looks at no    *)
(* status, only ever meets the pending row its own attempt left.           *)
(***************************************************************************)
RunInv ==
  \A w \in Workers, a \in Alerts :
    wjob[w] = a => /\ lease[a]
                   /\ \A v \in Workers : wjob[v] = a => v = w
                   /\ wpc[w] = "marking" => status[a] = "pending"

(***************************************************************************)
(* One run at a time, as long as leases outlive their jobs and the row     *)
(* lock's query does not fail.                                             *)
(***************************************************************************)
LEMMA RunStep ==
  ASSUME "lapse" \notin Faults, "db" \notin Faults,
         IndInv, RunInv, [Next]_vars
  PROVE  RunInv'
<1> USE NoAlertAssumption, NoWorkerAssumption
<1> USE DEF IndInv, TypeOK, StoreTypeOK, QueueTypeOK, WorkerTypeOK, ApiTypeOK,
            AttemptOwnsRow, RunInv
<1>1. ASSUME NEW w \in Workers, NEW a \in Alerts, StartJob(w, a) PROVE RunInv'
  BY <1>1 DEF StartJob, TakeJob, CanPick, storeVars
<1>2. ASSUME NEW a \in Alerts, DropJob(a) PROVE RunInv'
  BY <1>2 DEF DropJob, RefuseJob, CanPick, ClearJob, storeVars, workerVars
<1>3. ASSUME NEW w \in Workers, AttemptBegins(w) PROVE RunInv'
  BY <1>3 DEF AttemptBegins, LockRow, RowFree, Goto, queueVars
<1>4. ASSUME NEW w \in Workers, AttemptSkips(w) PROVE RunInv'
  BY <1>4 DEF AttemptSkips, Goto, storeVars, queueVars
<1>5. ASSUME NEW w \in Workers, AttemptFails(w) PROVE RunInv'
  <2>1. wpc[w] = "llm" /\ wjob[w] \in Alerts
    BY <1>5 DEF AttemptFails, RowFree
  <2>2. status[wjob[w]] = "pending"
    BY <2>1
  <2> QED BY <1>5, <2>1, <2>2 DEF AttemptFails, Rollback, Goto, DecideRetry, queueVars
<1>6. ASSUME NEW w \in Workers, BudgetExceeded(w) PROVE RunInv'
  BY <1>6 DEF BudgetExceeded, Rollback, Goto, queueVars
<1>7. ASSUME NEW w \in Workers, Persist(w) PROVE RunInv'
  BY <1>7 DEF Persist, PersistVerdict, Goto, queueVars
<1>8. ASSUME NEW w \in Workers, Publish(w) PROVE RunInv'
  BY <1>8 DEF Publish, Goto, storeVars, queueVars
<1>9. ASSUME NEW w \in Workers, Requeue(w) PROVE RunInv'
  <2>1. lease' = [lease EXCEPT ![wjob[w]] = FALSE] /\ wjob[w] \in Alerts
    BY <1>9 DEF Requeue, DeferJob
  <2> QED BY <1>9, <2>1 DEF Requeue, Rest, storeVars
<1>10. ASSUME NEW w \in Workers, MarkFailed(w) PROVE RunInv'
  BY <1>10 DEF MarkFailed, SetFailed, RowFree, Goto, queueVars
<1>11. ASSUME NEW w \in Workers, MarkRaises(w) PROVE RunInv'
  BY <1>11 DEF MarkRaises
<1>12. ASSUME NEW w \in Workers, Finish(w) PROVE RunInv'
  BY <1>12 DEF Finish, ClearJob, Rest, storeVars
<1>13. ASSUME NEW w \in Workers, Cancel(w) PROVE RunInv'
  BY <1>13 DEF Cancel, Rollback, ReleaseJob, Rest
<1>14. ASSUME NEW w \in Workers, Crash(w) PROVE RunInv'
  BY <1>14 DEF Crash, Rollback, Rest, queueVars
<1>15. CASE ApiNext /\ UNCHANGED workerVars
  <2>1. UNCHANGED lease
    BY <1>15 DEF ApiNext, IngestCommit, IngestEnqueue, IngestUnavailable, RetriageCap,
       RetriageFlip, RetriageRefused, RetriageEnqueue, RetriageUnavailable,
       EnqueueTriage, queueVars
  <2>2. \A a \in Alerts : status[a] = "pending" => status'[a] = "pending"
    BY <1>15 DEF ApiNext, IngestCommit, IngestEnqueue, IngestUnavailable, RetriageCap,
       RetriageFlip, RetriageRefused, RetriageEnqueue, RetriageUnavailable,
       InsertAlert, FlipToPending, storeVars
  <2> QED BY <1>15, <2>1, <2>2 DEF workerVars
<1>16. ASSUME NEW a \in Alerts,
              LeaseRunsOut(a) \/ ResultRunsOut(a) \/ JobKeyRunsOut(a) \/ BackoffElapses(a)
       PROVE  RunInv'
  BY <1>16 DEF LeaseRunsOut, LeaseExpires, ReleaseJob, ResultRunsOut, ResultExpires,
     JobKeyRunsOut, JobKeyExpires, BackoffElapses, DeferElapses, storeVars, workerVars
<1>17. CASE NewDay
  BY <1>17 DEF NewDay, MidnightPasses, storeVars, workerVars
<1>18. CASE UNCHANGED vars
  BY <1>18 DEF vars, storeVars, queueVars, workerVars
<1> QED
  BY <1>1, <1>2, <1>3, <1>4, <1>5, <1>6, <1>7, <1>8, <1>9, <1>10, <1>11, <1>12,
     <1>13, <1>14, <1>15, <1>16, <1>17, <1>18 DEF Next, WorkerNext, JobStep

(***************************************************************************)
(* Only four actions touch a row.  Each is a step of AlertLifecycle, and   *)
(* every other action stutters.                                            *)
(***************************************************************************)
LEMMA LifecycleStep ==
  ASSUME IndInv, RunInv, [Next]_vars
  PROVE  [Lifecycle!Next]_Lifecycle!lifecycleVars
<1> USE NoAlertAssumption, NoWorkerAssumption
<1> USE DEF IndInv, TypeOK, StoreTypeOK, WorkerTypeOK, ApiTypeOK,
            AttemptOwnsRow, RunInv, Lifecycle!Next, Lifecycle!lifecycleVars
<1>1. ASSUME NEW w \in Workers, Persist(w) PROVE Lifecycle!Next
  <2>1. wjob[w] \in Alerts /\ status[wjob[w]] = "pending"
    BY <1>1 DEF Persist
  <2>2. Lifecycle!Decide(wjob[w])
    BY <1>1, <2>1 DEF Persist, PersistVerdict, Lifecycle!Decide
  <2> QED BY <2>1, <2>2
<1>2. ASSUME NEW w \in Workers, MarkFailed(w) PROVE Lifecycle!Next
  <2>1. wjob[w] \in Alerts /\ status[wjob[w]] = "pending"
    BY <1>2 DEF MarkFailed
  <2>2. Lifecycle!GiveUp(wjob[w])
    BY <1>2, <2>1 DEF MarkFailed, SetFailed, Lifecycle!GiveUp
  <2> QED BY <2>1, <2>2
<1>3. ASSUME NEW p \in Posts, NEW a \in Alerts, IngestCommit(p, a)
      PROVE  [Lifecycle!Next]_Lifecycle!lifecycleVars
  <2>1. CASE status[a] = "absent"
    BY <1>3, <2>1 DEF IngestCommit, InsertAlert, Lifecycle!Create
  <2>2. CASE status[a] # "absent"
    BY <1>3, <2>2 DEF IngestCommit, InsertAlert, storeVars
  <2> QED BY <2>1, <2>2
<1>4. ASSUME NEW r \in Admins, RetriageFlip(r) PROVE Lifecycle!Next
  <2>1. aalert[r] \in Alerts
    BY <1>4 DEF RetriageFlip
  <2>2. Lifecycle!Reopen(aalert[r])
    BY <1>4 DEF RetriageFlip, FlipToPending, Decided, Lifecycle!Reopen
  <2> QED BY <2>1, <2>2
<1>5. ASSUME NEW w \in Workers,
             \/ AttemptBegins(w) \/ AttemptSkips(w) \/ AttemptFails(w)
             \/ BudgetExceeded(w) \/ Publish(w) \/ Requeue(w) \/ MarkRaises(w)
             \/ Finish(w) \/ Cancel(w) \/ Crash(w)
      PROVE  UNCHANGED Lifecycle!lifecycleVars
  BY <1>5 DEF AttemptBegins, LockRow, AttemptSkips, AttemptFails, Rollback,
     BudgetExceeded, Publish, Requeue, MarkRaises, Finish, Cancel, Crash, storeVars
<1>6. ASSUME NEW a \in Alerts, DropJob(a) \/ \E w \in Workers : StartJob(w, a)
      PROVE  UNCHANGED Lifecycle!lifecycleVars
  BY <1>6 DEF DropJob, StartJob, storeVars
<1>7. ASSUME \/ \E p \in Posts, a \in Alerts : IngestEnqueue(p, a)
             \/ \E p \in Posts : IngestUnavailable(p)
             \/ \E r \in Admins, a \in Alerts : RetriageCap(r, a)
             \/ \E r \in Admins : \/ RetriageRefused(r)
                                  \/ RetriageEnqueue(r)
                                  \/ RetriageUnavailable(r)
      PROVE  UNCHANGED Lifecycle!lifecycleVars
  BY <1>7 DEF IngestEnqueue, IngestUnavailable, RetriageCap, RetriageRefused,
     RetriageEnqueue, RetriageUnavailable, storeVars
<1>8. ASSUME NEW a \in Alerts,
             LeaseRunsOut(a) \/ ResultRunsOut(a) \/ JobKeyRunsOut(a) \/ BackoffElapses(a)
      PROVE  UNCHANGED Lifecycle!lifecycleVars
  BY <1>8 DEF LeaseRunsOut, ResultRunsOut, JobKeyRunsOut, BackoffElapses, storeVars
<1>9. CASE NewDay \/ UNCHANGED vars
  BY <1>9 DEF NewDay, vars, storeVars
<1> QED
  BY <1>1, <1>2, <1>3, <1>4, <1>5, <1>6, <1>7, <1>8, <1>9
     DEF Next, WorkerNext, JobStep, ApiNext

(***************************************************************************)
(* If no database statement of a job fails and no lease lapses under a     *)
(* job, the rows evolve as AlertLifecycle says, whatever else crashes,     *)
(* expires or is posted twice.                                             *)
(***************************************************************************)
THEOREM ImplementsLifecycle ==
  ASSUME "lapse" \notin Faults, "db" \notin Faults
  PROVE  Spec => LifecycleSpec
<1>1. Init => RunInv
  BY NoAlertAssumption DEF Init, WorkerInit, RunInv
<1>2. IndInv /\ RunInv /\ [Next]_vars => RunInv'
  BY RunStep
<1>3. Init => Lifecycle!Init
  BY DEF Init, StoreInit, Lifecycle!Init
<1>4. IndInv /\ RunInv /\ [Next]_vars => [Lifecycle!Next]_Lifecycle!lifecycleVars
  BY LifecycleStep
<1> QED
  BY <1>1, <1>2, <1>3, <1>4, AlwaysInv, PTL DEF Spec, LifecycleSpec, Lifecycle!Spec

-----------------------------------------------------------------------------
(***************************************************************************)
(* verdict.created.  A slot between the attempt's commit and the publish   *)
(* stands for a verdict that may still be announced; several slots can be  *)
(* there for one alert, one per cycle.  Announced and announceable         *)
(* messages together never outnumber the verdicts.                         *)
(***************************************************************************)
Announcers(pcs, jobs, a) == {w \in Workers : pcs[w] = "publish" /\ jobs[w] = a}

AnnounceInv ==
  \A a \in Alerts :
    announced[a] + Cardinality(Announcers(wpc, wjob, a)) <= verdicts[a]

LEMMA AnnouncersFinite ==
  ASSUME NEW pcs, NEW jobs, NEW a
  PROVE  /\ IsFiniteSet(Announcers(pcs, jobs, a))
         /\ Cardinality(Announcers(pcs, jobs, a)) \in Nat
BY WorkersAssumption, FS_Subset, FS_CardinalityType DEF Announcers

(***************************************************************************)
(* What a step owes AnnounceInv when nothing is decided or announced: that *)
(* no slot comes to the publish.                                           *)
(***************************************************************************)
LEMMA FewerAnnouncers ==
  ASSUME IndInv, IndInv', AnnounceInv, UNCHANGED <<verdicts, announced>>,
         \A a \in Alerts : Announcers(wpc', wjob', a) \subseteq Announcers(wpc, wjob, a)
  PROVE  AnnounceInv'
<1> SUFFICES ASSUME NEW a \in Alerts
             PROVE  announced'[a] + Cardinality(Announcers(wpc', wjob', a)) <= verdicts'[a]
  BY DEF AnnounceInv
<1>1. Cardinality(Announcers(wpc', wjob', a)) <= Cardinality(Announcers(wpc, wjob, a))
  BY AnnouncersFinite, FS_Subset
<1>2. /\ Cardinality(Announcers(wpc', wjob', a)) \in Nat
      /\ Cardinality(Announcers(wpc, wjob, a)) \in Nat
      /\ announced[a] \in Nat /\ verdicts[a] \in Nat
  BY AnnouncersFinite DEF IndInv, TypeOK, StoreTypeOK, WorkerTypeOK
<1> QED BY <1>1, <1>2 DEF AnnounceInv

(***************************************************************************)
(* The commit makes one more announcer and one more verdict; the publish   *)
(* turns an announcer into a message or into nothing; every other step     *)
(* leaves both counts alone, and a crash only loses announcers.            *)
(***************************************************************************)
LEMMA AnnounceStep ==
  ASSUME IndInv, IndInv', AnnounceInv, [Next]_vars
  PROVE  AnnounceInv'
<1>t. /\ wpc \in [Workers -> Places] /\ wjob \in [Workers -> Alerts \cup {NoAlert}]
      /\ announced \in [Alerts -> Nat] /\ verdicts \in [Alerts -> Nat]
      /\ \A w \in Workers : wpc[w] = "idle" <=> wjob[w] = NoAlert
  BY DEF IndInv, TypeOK, StoreTypeOK, WorkerTypeOK
<1> USE NoAlertAssumption
<1>1. ASSUME UNCHANGED <<verdicts, workerVars>>  PROVE AnnounceInv'
  BY <1>1 DEF AnnounceInv, Announcers, workerVars
<1>2. ASSUME NEW w \in Workers, UNCHANGED <<verdicts, announced>>, wpc'[w] # "publish",
             \A v \in Workers \ {w} : wpc'[v] = wpc[v] /\ wjob'[v] = wjob[v]
      PROVE  AnnounceInv'
  <2>1. \A a \in Alerts : Announcers(wpc', wjob', a) \subseteq Announcers(wpc, wjob, a)
    BY <1>2 DEF Announcers
  <2> QED BY <1>2, <2>1, FewerAnnouncers
<1>3. ASSUME NEW w \in Workers, Persist(w)  PROVE AnnounceInv'
  <2>1. /\ wpc[w] = "llm" /\ wjob[w] \in Alerts
        /\ wpc' = [wpc EXCEPT ![w] = "publish"] /\ wjob' = wjob
        /\ verdicts' = [verdicts EXCEPT ![wjob[w]] = @ + 1] /\ announced' = announced
    BY <1>t, <1>3 DEF Persist, PersistVerdict, Goto
  <2> SUFFICES ASSUME NEW a \in Alerts
               PROVE  announced'[a] + Cardinality(Announcers(wpc', wjob', a)) <= verdicts'[a]
    BY DEF AnnounceInv
  <2>2. /\ announced[a] + Cardinality(Announcers(wpc, wjob, a)) <= verdicts[a]
        /\ Cardinality(Announcers(wpc, wjob, a)) \in Nat
        /\ announced[a] \in Nat /\ verdicts[a] \in Nat
    BY <1>t, AnnouncersFinite DEF AnnounceInv
  <2>3. CASE wjob[w] = a
    <3>1. /\ Announcers(wpc', wjob', a) = Announcers(wpc, wjob, a) \cup {w}
          /\ w \notin Announcers(wpc, wjob, a)
      BY <1>t, <2>1, <2>3 DEF Announcers
    <3>2. Cardinality(Announcers(wpc', wjob', a)) = Cardinality(Announcers(wpc, wjob, a)) + 1
      BY <3>1, AnnouncersFinite, FS_AddElement
    <3>3. verdicts'[a] = verdicts[a] + 1 /\ announced'[a] = announced[a]
      BY <1>t, <2>1, <2>3
    <3> QED BY <2>2, <3>2, <3>3
  <2>4. CASE wjob[w] # a
    <3>1. Announcers(wpc', wjob', a) = Announcers(wpc, wjob, a)
      BY <1>t, <2>1, <2>4 DEF Announcers
    <3>2. verdicts'[a] = verdicts[a] /\ announced'[a] = announced[a]
      BY <1>t, <2>1, <2>4
    <3> QED BY <2>2, <3>1, <3>2
  <2> QED BY <2>3, <2>4
<1>4. ASSUME NEW w \in Workers, Publish(w)  PROVE AnnounceInv'
  <2>1. /\ wpc[w] = "publish" /\ wjob[w] \in Alerts
        /\ wpc' = [wpc EXCEPT ![w] = "finishing"] /\ wjob' = wjob /\ verdicts' = verdicts
    BY <1>t, <1>4 DEF Publish, Goto, storeVars
  <2>2. CASE UNCHANGED announced
    BY <1>t, <1>2, <2>1, <2>2
  <2>3. CASE announced' = [announced EXCEPT ![wjob[w]] = @ + 1]
    <3> SUFFICES ASSUME NEW a \in Alerts
                 PROVE  announced'[a] + Cardinality(Announcers(wpc', wjob', a)) <= verdicts'[a]
      BY DEF AnnounceInv
    <3>1. /\ announced[a] + Cardinality(Announcers(wpc, wjob, a)) <= verdicts[a]
          /\ Cardinality(Announcers(wpc, wjob, a)) \in Nat
          /\ announced[a] \in Nat /\ verdicts[a] \in Nat
      BY <1>t, AnnouncersFinite DEF AnnounceInv
    <3>2. CASE wjob[w] = a
      <4>1. /\ Announcers(wpc', wjob', a) = Announcers(wpc, wjob, a) \ {w}
            /\ w \in Announcers(wpc, wjob, a)
        BY <1>t, <2>1, <3>2 DEF Announcers
      <4>2. Cardinality(Announcers(wpc', wjob', a)) = Cardinality(Announcers(wpc, wjob, a)) - 1
        BY <4>1, AnnouncersFinite, FS_RemoveElement
      <4>3. announced'[a] = announced[a] + 1 /\ verdicts'[a] = verdicts[a]
        BY <1>t, <2>1, <2>3, <3>2
      <4> QED BY <3>1, <4>2, <4>3
    <3>3. CASE wjob[w] # a
      <4>1. Announcers(wpc', wjob', a) = Announcers(wpc, wjob, a)
        BY <1>t, <2>1, <3>3 DEF Announcers
      <4>2. announced'[a] = announced[a] /\ verdicts'[a] = verdicts[a]
        BY <1>t, <2>1, <2>3, <3>3
      <4> QED BY <3>1, <4>1, <4>2
    <3> QED BY <3>2, <3>3
  <2> QED BY <1>4, <2>2, <2>3 DEF Publish
<1>5. ASSUME NEW w \in Workers, NEW a \in Alerts, StartJob(w, a)  PROVE AnnounceInv'
  BY <1>t, <1>2, <1>5 DEF StartJob, storeVars
<1>6. ASSUME NEW w \in Workers, AttemptBegins(w) \/ AttemptSkips(w)  PROVE AnnounceInv'
  BY <1>t, <1>2, <1>6 DEF AttemptBegins, AttemptSkips, LockRow, Goto, storeVars
<1>7. ASSUME NEW w \in Workers, AttemptFails(w) \/ BudgetExceeded(w)  PROVE AnnounceInv'
  BY <1>t, <1>2, <1>7 DEF AttemptFails, BudgetExceeded, DecideRetry, Rollback, Goto
<1>8. ASSUME NEW w \in Workers, MarkFailed(w) \/ MarkRaises(w)  PROVE AnnounceInv'
  BY <1>t, <1>2, <1>8 DEF MarkFailed, MarkRaises, SetFailed, Goto, storeVars
<1>9. ASSUME NEW w \in Workers, Requeue(w) \/ Finish(w) \/ Cancel(w) \/ Crash(w)
      PROVE  AnnounceInv'
  BY <1>t, <1>2, <1>9 DEF Requeue, Finish, Cancel, Crash, Rollback, Rest, storeVars
<1>10. ASSUME NEW a \in Alerts, DropJob(a)  PROVE AnnounceInv'
  BY <1>1, <1>10 DEF DropJob, storeVars
<1>11. CASE ApiNext /\ UNCHANGED workerVars
  <2>1. UNCHANGED verdicts
    BY <1>11 DEF ApiNext, IngestCommit, InsertAlert, IngestEnqueue, IngestUnavailable,
       RetriageCap, RetriageFlip, FlipToPending, RetriageRefused, RetriageEnqueue,
       RetriageUnavailable, storeVars
  <2> QED BY <1>1, <1>11, <2>1
<1>12. CASE UNCHANGED <<storeVars, workerVars>>
  BY <1>1, <1>12 DEF storeVars
<1> QED
  BY <1>3, <1>4, <1>5, <1>6, <1>7, <1>8, <1>9, <1>10, <1>11, <1>12
  DEF Next, WorkerNext, JobStep, LeaseRunsOut, ResultRunsOut, JobKeyRunsOut,
      BackoffElapses, NewDay, vars

(***************************************************************************)
(* publish_verdict_created sends at most one message per committed         *)
(* verdict, for any number of slots and whatever is crashed, cancelled,    *)
(* retried or run twice.                                                   *)
(***************************************************************************)
THEOREM AnnouncedAtMostOnce == Spec => []AnnouncedOnce
<1>1. Init => AnnounceInv
  <2> SUFFICES ASSUME Init, NEW a \in Alerts
               PROVE  announced[a] + Cardinality(Announcers(wpc, wjob, a)) <= verdicts[a]
    BY DEF AnnounceInv
  <2>1. Announcers(wpc, wjob, a) = {}
    BY DEF Init, WorkerInit, Announcers
  <2>2. announced[a] = 0 /\ verdicts[a] = 0
    BY DEF Init, WorkerInit, StoreInit
  <2> QED BY <2>1, <2>2, FS_EmptySet
<1>2. IndInv /\ IndInv' /\ AnnounceInv /\ [Next]_vars => AnnounceInv'
  BY AnnounceStep
<1>3. IndInv /\ AnnounceInv => AnnouncedOnce
  <2> SUFFICES ASSUME IndInv, AnnounceInv, NEW a \in Alerts
               PROVE  announced[a] <= verdicts[a]
    BY DEF AnnouncedOnce
  <2>1. /\ announced[a] \in Nat /\ verdicts[a] \in Nat
        /\ Cardinality(Announcers(wpc, wjob, a)) \in Nat
    BY AnnouncersFinite DEF IndInv, TypeOK, StoreTypeOK, WorkerTypeOK
  <2> QED BY <2>1 DEF AnnounceInv
<1> QED BY <1>1, <1>2, <1>3, AlwaysInv, PTL DEF Spec
=============================================================================
