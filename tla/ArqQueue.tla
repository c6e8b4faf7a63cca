------------------------------ MODULE ArqQueue ------------------------------
(***************************************************************************)
(* The Redis keys ARQ 0.28 keeps for the triage queue, as core/queue,      *)
(* worker/main and worker/jobs use them.  ARQ itself is a library outside  *)
(* the repository: these operators describe what the code relies on.       *)
(*                                                                         *)
(* core/queue.triage_job_id gives every alert one fixed job id, so each    *)
(* key is a function of the alert.                                         *)
(***************************************************************************)
EXTENDS TriageConstants

VARIABLES
  jobKey,     \* the job's payload key exists
  queue,      \* the job's place in the queue's sorted set: not there, due,
              \* or due only after a backoff / after the next UTC midnight
  lease,      \* the in-progress key exists: some worker is running the job
  tries,      \* the retry key: how often the job was started
  resultKey   \* the kept result of the last finished run exists

queueVars == <<jobKey, queue, lease, tries, resultKey>>

Deferrals == {"backoff", "midnight"}

QueueTypeOK ==
  /\ jobKey \in [Alerts -> BOOLEAN]
  /\ queue \in [Alerts -> {"none", "due"} \cup Deferrals]
  /\ lease \in [Alerts -> BOOLEAN]
  /\ tries \in [Alerts -> 0..MaxTries]
  /\ resultKey \in [Alerts -> BOOLEAN]

QueueInit ==
  /\ jobKey = [a \in Alerts |-> FALSE]
  /\ queue = [a \in Alerts |-> "none"]
  /\ lease = [a \in Alerts |-> FALSE]
  /\ tries = [a \in Alerts |-> 0]
  /\ resultKey = [a \in Alerts |-> FALSE]

(***************************************************************************)
(* enqueue_triage: enqueue_job with the alert's fixed id does nothing      *)
(* while a job or a kept result has that id.  The routes discard the       *)
(* Boolean that would tell them so.                                        *)
(***************************************************************************)
EnqueueTriage(a) ==
  IF jobKey[a] \/ resultKey[a]
    THEN UNCHANGED queueVars
    ELSE /\ jobKey' = [jobKey EXCEPT ![a] = TRUE]
         /\ queue' = [queue EXCEPT ![a] = "due"]
         /\ UNCHANGED <<lease, tries, resultKey>>

CanPick(a) == queue[a] = "due" /\ ~lease[a]

\* max_tries is not given to ARQ: only the job function counts
TakeJobUnlimited(a) ==
  /\ CanPick(a)
  /\ jobKey[a]
  /\ lease' = [lease EXCEPT ![a] = TRUE]
  /\ tries' = [tries EXCEPT ![a] = @ + 1]
  /\ UNCHANGED <<jobKey, queue, resultKey>>

(***************************************************************************)
(* A poll finds a due job nobody holds: ARQ takes the lease, counts the    *)
(* try and calls the job function.                                         *)
(***************************************************************************)
TakeJob(a) ==
  /\ CanPick(a)
  /\ jobKey[a]
  /\ tries[a] < MaxTries
  /\ lease' = [lease EXCEPT ![a] = TRUE]
  /\ tries' = [tries EXCEPT ![a] = @ + 1]
  /\ UNCHANGED <<jobKey, queue, resultKey>>

\* Everything ARQ removes, and the result it keeps, when a job is over.
ClearJob(a) ==
  /\ jobKey' = [jobKey EXCEPT ![a] = FALSE]
  /\ queue' = [queue EXCEPT ![a] = "none"]
  /\ lease' = [lease EXCEPT ![a] = FALSE]
  /\ tries' = [tries EXCEPT ![a] = 0]
  /\ resultKey' = [resultKey EXCEPT ![a] = TRUE]

(***************************************************************************)
(* A due job whose payload expired ("job expired") or whose tries are used *)
(* up ("max retries exceeded") is finished as failed by ARQ; the job       *)
(* function is never called for it.                                        *)
(***************************************************************************)
RefuseJob(a) ==
  /\ CanPick(a)
  /\ ~jobKey[a] \/ tries[a] = MaxTries
  /\ ClearJob(a)

(***************************************************************************)
(* The job function raised Retry(defer): the lease is dropped and the job  *)
(* gets a later score.  If another run removed the job meanwhile the score *)
(* is only the increment, which lies in the past: the job is due at once.  *)
(***************************************************************************)
DeferJob(a, until) ==
  /\ lease' = [lease EXCEPT ![a] = FALSE]
  /\ queue' = [queue EXCEPT ![a] = IF @ = "none" THEN "due" ELSE until]
  /\ UNCHANGED <<jobKey, tries, resultKey>>

(***************************************************************************)
(* The job was cancelled by a stopping worker ("will be run again").       *)
(***************************************************************************)
ReleaseJob(a) ==
  /\ lease' = [lease EXCEPT ![a] = FALSE]
  /\ UNCHANGED <<jobKey, queue, tries, resultKey>>

\* The in-progress key's time to live, job_timeout + 10 s, is over.
LeaseExpires(a) ==
  /\ lease[a]
  /\ ReleaseJob(a)

\* The kept result's hour is over.
ResultExpires(a) ==
  /\ resultKey[a]
  /\ resultKey' = [resultKey EXCEPT ![a] = FALSE]
  /\ UNCHANGED <<jobKey, queue, lease, tries>>

\* The payload's day is over although the job is still queued.
JobKeyExpires(a) ==
  /\ jobKey[a]
  /\ jobKey' = [jobKey EXCEPT ![a] = FALSE]
  /\ UNCHANGED <<queue, lease, tries, resultKey>>

DeferElapses(a) ==
  /\ queue[a] = "backoff"
  /\ queue' = [queue EXCEPT ![a] = "due"]
  /\ UNCHANGED <<jobKey, lease, tries, resultKey>>

\* Midnight in UTC: every job deferred to it is due.
MidnightPasses ==
  /\ queue' = [a \in Alerts |-> IF queue[a] = "midnight" THEN "due" ELSE queue[a]]
  /\ UNCHANGED <<jobKey, lease, tries, resultKey>>
=============================================================================
