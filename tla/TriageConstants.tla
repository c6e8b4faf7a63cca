-------------------------- MODULE TriageConstants --------------------------
(***************************************************************************)
(* The parameters the components of the triage service share.              *)
(***************************************************************************)
EXTENDS Naturals, FiniteSets

CONSTANTS
  Alerts,     \* the sessions, one per fingerprint
  NoAlert,
  Workers,    \* the job slots of the worker processes
  NoWorker,
  Posts,      \* ingest requests that may be in flight at a time
  Admins,     \* retriage requests that may be in flight at a time
  MaxTries,   \* TRIAGE_JOB_MAX_TRIES, given to ARQ and to decide_retry alike
  RetriagePerDay,  \* RETRIAGE_PER_DAY
  MaxCycles,  \* bound: how often an alert becomes pending
  Faults      \* which failures the environment may produce:
              \* "crash"  a worker is killed, or stopped with jobs running
              \* "budget" the daily token budget is used up
              \* "db"     a database statement of the job fails
              \* "lapse"  a worker stalls for longer than its job's lease
              \* "expire" a job stays queued for longer than its payload's day

ASSUME NoAlertAssumption == NoAlert \notin Alerts
ASSUME NoWorkerAssumption == NoWorker \notin Workers
ASSUME WorkersAssumption == IsFiniteSet(Workers)
ASSUME MaxTriesAssumption == MaxTries \in Nat \ {0}
ASSUME BoundsAssumption == RetriagePerDay \in Nat /\ MaxCycles \in Nat \ {0}
ASSUME FaultsAssumption == Faults \subseteq {"crash", "budget", "db", "lapse", "expire"}
=============================================================================
