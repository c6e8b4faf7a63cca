--------------------------- MODULE CoverageProofs ---------------------------
(***************************************************************************)
(* No acknowledged alert is stranded while nothing fails but the LLM, the  *)
(* client's connection and Redis, and no retriage is asked for.  A worker  *)
(* lost on the last try, the budget (the run budget_deferral) and retriage *)
(* (the run retriage_enqueues) each break this.                            *)
(***************************************************************************)
EXTENDS TriageSystemProofs

(***************************************************************************)
(* PendingIsCovered is not inductive: a skipped enqueue is harmless only   *)
(* because a kept result belongs to a decided alert and a job key to a     *)
(* queued job, and a job leaves the queue decided only because ARQ never   *)
(* refuses a try that decide_retry still counts on.                        *)
(***************************************************************************)
JobInv ==
  \A a \in Alerts :
    /\ resultKey[a] => status[a] \in Decided
    /\ jobKey[a] <=> queue[a] # "none"
    /\ lease[a] => \E w \in Workers : wjob[w] = a
    /\ ~lease[a] => tries[a] < MaxTries

SlotInv ==
  \A w \in Workers, a \in Alerts :
    wjob[w] = a =>
      /\ queue[a] # "none"
      /\ wtry[w] = tries[a]
      /\ wpc[w] # "deferring"
      /\ wpc[w] = "retrying" => tries[a] < MaxTries
      /\ wpc[w] \in {"publish", "finishing"} => status[a] \in Decided

AckInv == \A a \in Alerts : acked[a] => status[a] # "absent"

CoverInv == JobInv /\ SlotInv /\ AckInv /\ PendingIsCovered

(***************************************************************************)
(* Without faults and retriage requests every step keeps the cover.        *)
(***************************************************************************)
LEMMA CoverStep ==
  ASSUME Faults = {}, Admins = {}, IndInv, RunInv, CoverInv, [Next]_vars
  PROVE  CoverInv'
<1> USE NoAlertAssumption, NoWorkerAssumption, MaxTriesAssumption
<1> USE DEF IndInv, TypeOK, StoreTypeOK, QueueTypeOK, WorkerTypeOK, ApiTypeOK,
            AttemptOwnsRow, RunInv, CoverInv, JobInv, SlotInv, AckInv,
            PendingIsCovered, Decided, Statuses
<1>1. ASSUME NEW w \in Workers, NEW a \in Alerts, StartJob(w, a), UNCHANGED apiVars
      PROVE CoverInv'
  BY <1>1 DEF StartJob, TakeJob, CanPick, storeVars, apiVars
<1>2. ASSUME NEW a \in Alerts, DropJob(a) PROVE FALSE
  BY <1>2 DEF DropJob, RefuseJob, CanPick
<1>3. ASSUME NEW w \in Workers, AttemptBegins(w), UNCHANGED apiVars PROVE CoverInv'
  BY <1>3 DEF AttemptBegins, LockRow, RowFree, Goto, queueVars, apiVars
<1>4. ASSUME NEW w \in Workers, AttemptSkips(w), UNCHANGED apiVars PROVE CoverInv'
  BY <1>4 DEF AttemptSkips, Goto, storeVars, queueVars, QueuedIsDurable, apiVars
<1>5. ASSUME NEW w \in Workers, AttemptFails(w), UNCHANGED apiVars PROVE CoverInv'
  BY <1>5 DEF AttemptFails, Rollback, Goto, DecideRetry, queueVars, apiVars
<1>6. ASSUME NEW w \in Workers,
             BudgetExceeded(w) \/ MarkRaises(w) \/ Cancel(w) \/ Crash(w)
      PROVE  FALSE
  BY <1>6 DEF BudgetExceeded, MarkRaises, Cancel, Crash
<1>7. ASSUME NEW w \in Workers, Persist(w), UNCHANGED apiVars PROVE CoverInv'
  BY <1>7 DEF Persist, PersistVerdict, Goto, queueVars, apiVars
<1>8. ASSUME NEW w \in Workers, Publish(w), UNCHANGED apiVars PROVE CoverInv'
  BY <1>8 DEF Publish, Goto, storeVars, queueVars, apiVars
<1>9. ASSUME NEW w \in Workers, Requeue(w), UNCHANGED apiVars PROVE CoverInv'
  <2>1. wjob[w] \in Alerts /\ wpc[w] = "retrying"
    BY <1>9 DEF Requeue
  <2>2. /\ lease' = [lease EXCEPT ![wjob[w]] = FALSE]
        /\ queue' = [queue EXCEPT ![wjob[w]] = IF @ = "none" THEN "due" ELSE "backoff"]
        /\ UNCHANGED <<jobKey, tries, resultKey>>
    BY <1>9, <2>1 DEF Requeue, DeferJob
  <2>3. JobInv'
    <3>1. \A a \in Alerts : lease'[a] => \E v \in Workers : wjob'[v] = a
      BY <1>9, <2>1, <2>2 DEF Requeue, Rest
    <3> QED BY <1>9, <2>1, <2>2, <3>1 DEF Requeue, storeVars
  <2>4. SlotInv' /\ AckInv' /\ PendingIsCovered'
    BY <1>9, <2>1, <2>2 DEF Requeue, Rest, storeVars, apiVars
  <2> QED BY <2>3, <2>4
<1>10. ASSUME NEW w \in Workers, MarkFailed(w), UNCHANGED apiVars PROVE CoverInv'
  BY <1>10 DEF MarkFailed, SetFailed, RowFree, Goto, queueVars, apiVars
<1>11. ASSUME NEW w \in Workers, Finish(w), UNCHANGED apiVars PROVE CoverInv'
  BY <1>11 DEF Finish, ClearJob, Rest, storeVars, apiVars
<1>12. ASSUME NEW p \in Posts, NEW a \in Alerts, IngestCommit(p, a), UNCHANGED workerVars
       PROVE  CoverInv'
  <2>1. CASE status[a] \in {"absent", "pending"}
    <3>1. UNCHANGED <<queueVars, workerVars, acked>>
      BY <1>12, <2>1 DEF IngestCommit
    <3>2. CASE status[a] = "absent" /\ status' = [status EXCEPT ![a] = "pending"]
      BY <3>1, <3>2 DEF queueVars, workerVars
    <3>3. CASE UNCHANGED storeVars
      BY <3>1, <3>3 DEF storeVars, queueVars, workerVars
    <3> QED BY <1>12, <3>2, <3>3 DEF IngestCommit, InsertAlert
  <2>2. CASE status[a] \in Decided
    <3>1. /\ UNCHANGED <<storeVars, queueVars, workerVars>>
          /\ \A b \in Alerts : acked'[b] => acked[b] \/ b = a
      BY <1>12, <2>2 DEF IngestCommit, InsertAlert, Answer
    <3>2. JobInv' /\ SlotInv'
      BY <2>2, <3>1 DEF storeVars, queueVars, workerVars
    <3>3. AckInv' /\ PendingIsCovered'
      BY <2>2, <3>1 DEF storeVars, queueVars
    <3> QED BY <3>2, <3>3
  <2> QED BY <2>1, <2>2
<1>13. ASSUME NEW p \in Posts, NEW a \in Alerts, IngestEnqueue(p, a), UNCHANGED workerVars
       PROVE  CoverInv'
  <2>1. /\ UNCHANGED <<storeVars, workerVars>>
        /\ \A b \in Alerts : acked'[b] => acked[b] \/ b = a
    BY <1>13 DEF IngestEnqueue, Answer
  <2>2. status[a] # "absent"
    BY <1>13 DEF IngestEnqueue, QueuedIsDurable
  <2>3. CASE (jobKey[a] \/ resultKey[a]) /\ UNCHANGED queueVars
    <3>1. JobInv' /\ SlotInv'
      BY <2>1, <2>3 DEF storeVars, queueVars, workerVars
    <3>2. status[a] = "pending" => queue[a] # "none"
      BY <2>3
    <3>3. AckInv'
      BY <2>1, <2>2 DEF storeVars
    <3>4. PendingIsCovered'
      BY <2>1, <2>3, <3>2 DEF storeVars, queueVars
    <3> QED BY <3>1, <3>3, <3>4
  <2>4. CASE /\ ~(jobKey[a] \/ resultKey[a])
             /\ jobKey' = [jobKey EXCEPT ![a] = TRUE]
             /\ queue' = [queue EXCEPT ![a] = "due"]
             /\ UNCHANGED <<lease, tries, resultKey>>
    BY <2>1, <2>2, <2>4 DEF storeVars, workerVars
  <2> QED BY <1>13, <2>3, <2>4 DEF IngestEnqueue, EnqueueTriage
<1>14. ASSUME NEW p \in Posts, IngestUnavailable(p), UNCHANGED workerVars PROVE CoverInv'
  BY <1>14 DEF IngestUnavailable, storeVars, queueVars, workerVars
<1>15. ASSUME NEW a \in Alerts, LeaseRunsOut(a) PROVE FALSE
  BY <1>15 DEF LeaseRunsOut, LeaseExpires
<1>16. ASSUME NEW a \in Alerts, ResultRunsOut(a) PROVE CoverInv'
  BY <1>16 DEF ResultRunsOut, ResultExpires, storeVars, workerVars, apiVars
<1>17. ASSUME NEW a \in Alerts, JobKeyRunsOut(a) PROVE FALSE
  BY <1>17 DEF JobKeyRunsOut
<1>18. ASSUME NEW a \in Alerts, BackoffElapses(a) PROVE CoverInv'
  BY <1>18 DEF BackoffElapses, DeferElapses, storeVars, workerVars, apiVars
<1>19. CASE NewDay
  BY <1>19 DEF NewDay, MidnightPasses, CounterResets, storeVars, workerVars
<1>20. CASE UNCHANGED vars
  BY <1>20 DEF vars, storeVars, queueVars, workerVars, apiVars
<1> QED
  BY <1>1, <1>2, <1>3, <1>4, <1>5, <1>6, <1>7, <1>8, <1>9, <1>10, <1>11, <1>12, <1>13,
     <1>14, <1>15, <1>16, <1>17, <1>18, <1>19, <1>20
     DEF Next, WorkerNext, JobStep, ApiNext

(***************************************************************************)
(* Whatever fails in the LLM calls, whichever enqueue finds Redis down and *)
(* whichever answer is lost: an alert whose client was told 2xx is in the  *)
(* queue until it is decided.                                              *)
(***************************************************************************)
THEOREM AcknowledgedIsCovered ==
  ASSUME Faults = {}, Admins = {}
  PROVE  Spec => []PendingIsCovered
<1>1. Init => RunInv /\ CoverInv
  BY NoAlertAssumption, MaxTriesAssumption
     DEF Init, StoreInit, QueueInit, WorkerInit, ApiInit, RunInv, CoverInv, JobInv,
         SlotInv, AckInv, PendingIsCovered
<1>2. IndInv /\ RunInv /\ CoverInv /\ [Next]_vars => RunInv' /\ CoverInv'
  BY RunStep, CoverStep
<1>3. CoverInv => PendingIsCovered
  BY DEF CoverInv
<1> QED BY <1>1, <1>2, <1>3, AlwaysInv, PTL DEF Spec
=============================================================================
