---------------------------- MODULE TriageWorker ----------------------------
(***************************************************************************)
(* The worker process: ARQ's dispatch, worker/jobs.triage_alert_job,       *)
(* TriagePipeline.triage_attempt and worker/retry.decide_retry.            *)
(*                                                                         *)
(* Each element of Workers is a job slot (a process has WORKER_MAX_JOBS).  *)
(* A slot's program counter names the await it is suspended at:            *)
(*   idle       waiting for a job                                          *)
(*   locking    SELECT ... FOR UPDATE of get_alert_for_update              *)
(*   llm        the pipeline run, the row locked                           *)
(*   retrying   Retry with the backoff raised, ARQ about to requeue        *)
(*   deferring  Retry until midnight raised, ARQ about to requeue          *)
(*   marking    the last try failed, mark_alert_failed under way           *)
(*   publish    the verdict is committed, not yet announced                *)
(*   finishing  the job function returned or raised, ARQ about to finish   *)
(***************************************************************************)
EXTENDS AlertStore, ArqQueue

VARIABLES
  wpc,        \* wpc[w]: where slot w is
  wjob,       \* wjob[w]: the alert of its job, NoAlert when idle
  wtry,       \* wtry[w]: ctx["job_try"] of the job, 0 when idle
  announced   \* announced[a]: verdict.created messages published

slotVars == <<wpc, wjob, wtry>>
workerVars == <<wpc, wjob, wtry, announced>>

Places == {"idle", "locking", "llm", "retrying", "deferring", "marking",
           "publish", "finishing"}

WorkerTypeOK ==
  /\ wpc \in [Workers -> Places]
  /\ wjob \in [Workers -> Alerts \cup {NoAlert}]
  /\ wtry \in [Workers -> 0..MaxTries]
  /\ announced \in [Alerts -> Nat]
  /\ \A w \in Workers : wpc[w] = "idle" <=> wjob[w] = NoAlert

WorkerInit ==
  /\ wpc = [w \in Workers |-> "idle"]
  /\ wjob = [w \in Workers |-> NoAlert]
  /\ wtry = [w \in Workers |-> 0]
  /\ announced = [a \in Alerts |-> 0]

Goto(w, place) ==
  /\ wpc' = [wpc EXCEPT ![w] = place]
  /\ UNCHANGED <<wjob, wtry>>

Rest(w) ==
  /\ wpc' = [wpc EXCEPT ![w] = "idle"]
  /\ wjob' = [wjob EXCEPT ![w] = NoAlert]
  /\ wtry' = [wtry EXCEPT ![w] = 0]

\* ARQ calls triage_alert_job, which opens a session and asks for the row.
StartJob(w, a) ==
  /\ wpc[w] = "idle"
  /\ TakeJob(a)
  /\ wpc' = [wpc EXCEPT ![w] = "locking"]
  /\ wjob' = [wjob EXCEPT ![w] = a]
  /\ wtry' = [wtry EXCEPT ![w] = tries'[a]]
  /\ UNCHANGED <<storeVars, announced>>

\* ARQ gives the job up before its function runs.
DropJob(a) ==
  /\ RefuseJob(a)
  /\ UNCHANGED <<storeVars, workerVars>>

\* the status of the locked row is not looked at
AttemptBeginsUnchecked(w) ==
  /\ wpc[w] = "locking"
  /\ LockRow(wjob[w], w)
  /\ Goto(w, "llm")
  /\ UNCHANGED <<queueVars, announced>>

(***************************************************************************)
(* The row was locked and is pending: the pipeline runs, the lock is held. *)
(***************************************************************************)
AttemptBegins(w) ==
  /\ wpc[w] = "locking"
  /\ status[wjob[w]] = "pending"
  /\ LockRow(wjob[w], w)
  /\ Goto(w, "llm")
  /\ UNCHANGED <<queueVars, announced>>

(***************************************************************************)
(* "skipped": the locked row is no longer pending, the lock is released at *)
(* once.  A missing row ("missing") is no different.                       *)
(***************************************************************************)
AttemptSkips(w) ==
  /\ wpc[w] = "locking"
  /\ RowFree(wjob[w])
  /\ status[wjob[w]] # "pending"
  /\ Goto(w, "finishing")
  /\ UNCHANGED <<storeVars, queueVars, announced>>

(***************************************************************************)
(* decide_retry: the last allowed try is terminal, an earlier one is       *)
(* retried after a backoff.                                                *)
(***************************************************************************)
DecideRetry(jobTry) == IF jobTry >= MaxTries THEN "marking" ELSE "retrying"

\* the attempt's session is left open when the attempt fails
AttemptFailsKeepingLock(w) ==
  /\ wpc[w] \in {"locking", "llm"}
  /\ wpc[w] = "locking" => "db" \in Faults \/ ~RowFree(wjob[w])
  /\ Goto(w, DecideRetry(wtry[w]))
  /\ UNCHANGED <<storeVars, queueVars, announced>>

(***************************************************************************)
(* The attempt raises an Exception: an LLM or validation failure, a        *)
(* database error, or the TimeoutError of wait_for, which also covers the  *)
(* wait for a row another attempt holds.  Its transaction is rolled back.  *)
(***************************************************************************)
AttemptFails(w) ==
  /\ wpc[w] \in {"locking", "llm"}
  /\ wpc[w] = "locking" => "db" \in Faults \/ ~RowFree(wjob[w])
  /\ Rollback(wjob[w], w)
  /\ Goto(w, DecideRetry(wtry[w]))
  /\ UNCHANGED <<queueVars, announced>>

\* BudgetExceededError: rolled back and deferred at any try count.
BudgetExceeded(w) ==
  /\ "budget" \in Faults
  /\ wpc[w] = "llm"
  /\ Rollback(wjob[w], w)
  /\ Goto(w, "deferring")
  /\ UNCHANGED <<queueVars, announced>>

\* The run returned: persist_verdict and the attempt's one commit.
Persist(w) ==
  /\ wpc[w] = "llm"
  /\ PersistVerdict(wjob[w], w)
  /\ Goto(w, "publish")
  /\ UNCHANGED <<queueVars, announced>>

\* verdict.created is published by a skipped attempt too
PublishAgain(w) ==
  /\ wpc[w] \in {"publish", "finishing"}
  /\ announced' = [announced EXCEPT ![wjob[w]] = @ + 1]
  /\ Goto(w, "finishing")
  /\ UNCHANGED <<storeVars, queueVars>>

(***************************************************************************)
(* publish_verdict_created, best effort: the message goes out or is lost,  *)
(* the job ends the same way.                                              *)
(***************************************************************************)
Publish(w) ==
  /\ wpc[w] = "publish"
  /\ \/ announced' = [announced EXCEPT ![wjob[w]] = @ + 1]
     \/ UNCHANGED announced
  /\ Goto(w, "finishing")
  /\ UNCHANGED <<storeVars, queueVars>>

\* The raised Retry reaches ARQ, which requeues the job.
Requeue(w) ==
  /\ \/ wpc[w] = "retrying" /\ DeferJob(wjob[w], "backoff")
     \/ wpc[w] = "deferring" /\ DeferJob(wjob[w], "midnight")
  /\ Rest(w)
  /\ UNCHANGED <<storeVars, announced>>

\* the terminal write is forgotten
MarkNothing(w) ==
  /\ wpc[w] = "marking"
  /\ Goto(w, "finishing")
  /\ UNCHANGED <<storeVars, queueVars, announced>>

\* mark_alert_failed committed; the job returns "failed".
MarkFailed(w) ==
  /\ wpc[w] = "marking"
  /\ SetFailed(wjob[w])
  /\ Goto(w, "finishing")
  /\ UNCHANGED <<queueVars, announced>>

\* mark_alert_failed raised: the job raises too and nothing was written.
MarkRaises(w) ==
  /\ "db" \in Faults
  /\ wpc[w] = "marking"
  /\ Goto(w, "finishing")
  /\ UNCHANGED <<storeVars, queueVars, announced>>

\* The job function is over; ARQ finishes the job whatever it returned.
Finish(w) ==
  /\ wpc[w] = "finishing"
  /\ ClearJob(wjob[w])
  /\ Rest(w)
  /\ UNCHANGED <<storeVars, announced>>

(***************************************************************************)
(* SIGTERM while the job runs: CancelledError rolls the attempt back and   *)
(* ARQ releases the job to be run again.  ARQ shields its own requeue and  *)
(* finish steps from the cancellation.                                     *)
(***************************************************************************)
Cancel(w) ==
  /\ "crash" \in Faults
  /\ wpc[w] \in {"locking", "llm", "marking", "publish"}
  /\ Rollback(wjob[w], w)
  /\ ReleaseJob(wjob[w])
  /\ Rest(w)
  /\ UNCHANGED announced

(***************************************************************************)
(* SIGKILL: the server aborts the transaction, Redis keeps every key.      *)
(***************************************************************************)
Crash(w) ==
  /\ "crash" \in Faults
  /\ wpc[w] # "idle"
  /\ Rollback(wjob[w], w)
  /\ Rest(w)
  /\ UNCHANGED <<queueVars, announced>>

\* What a slot does of its own accord, once it has a job.
JobStep(w) ==
  \/ AttemptBegins(w)
  \/ AttemptSkips(w)
  \/ AttemptFails(w)
  \/ BudgetExceeded(w)
  \/ Persist(w)
  \/ Publish(w)
  \/ Requeue(w)
  \/ MarkFailed(w)
  \/ MarkRaises(w)
  \/ Finish(w)

WorkerNext ==
  \/ \E w \in Workers, a \in Alerts : StartJob(w, a)
  \/ \E a \in Alerts : DropJob(a)
  \/ \E w \in Workers : JobStep(w)
  \/ \E w \in Workers : Cancel(w)
  \/ \E w \in Workers : Crash(w)
=============================================================================
