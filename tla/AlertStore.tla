----------------------------- MODULE AlertStore -----------------------------
(***************************************************************************)
(* The alerts and verdicts tables as the services of core/services/alerts  *)
(* and worker/store see them: the status column, the number of verdict     *)
(* rows and the row lock a triage attempt takes with SELECT ... FOR UPDATE.*)
(*                                                                         *)
(* Only committed state is represented.  A transaction that writes is one  *)
(* step at its commit; what an uncommitted transaction can block, the row  *)
(* lock, is state of its own.                                              *)
(***************************************************************************)
EXTENDS TriageConstants

VARIABLES
  status,    \* alerts.status, "absent" while there is no row
  verdicts,  \* number of verdicts rows of the alert
  cycles,    \* history: how many times the row became pending
  rowLock    \* which worker's transaction holds the row lock

storeVars == <<status, verdicts, cycles, rowLock>>

Statuses == {"absent", "pending", "triaged", "failed"}
Decided == {"triaged", "failed"}

StoreTypeOK ==
  /\ status \in [Alerts -> Statuses]
  /\ verdicts \in [Alerts -> Nat]
  /\ cycles \in [Alerts -> Nat]
  /\ rowLock \in [Alerts -> Workers \cup {NoWorker}]

StoreInit ==
  /\ status = [a \in Alerts |-> "absent"]
  /\ verdicts = [a \in Alerts |-> 0]
  /\ cycles = [a \in Alerts |-> 0]
  /\ rowLock = [a \in Alerts |-> NoWorker]

RowFree(a) == rowLock[a] = NoWorker

(***************************************************************************)
(* insert_alert with ON CONFLICT (fingerprint) DO NOTHING: the first       *)
(* insert creates a pending row, a later one leaves the row as it is.      *)
(***************************************************************************)
InsertAlert(a) ==
  IF status[a] = "absent"
    THEN /\ status' = [status EXCEPT ![a] = "pending"]
         /\ cycles' = [cycles EXCEPT ![a] = @ + 1]
         /\ UNCHANGED <<verdicts, rowLock>>
    ELSE UNCHANGED storeVars

\* get_alert read without FOR UPDATE: the attempt no longer waits for the lock
LockRowUnguarded(a, w) ==
  /\ rowLock' = [rowLock EXCEPT ![a] = w]
  /\ UNCHANGED <<status, verdicts, cycles>>

(***************************************************************************)
(* get_alert_for_update: blocks while another transaction holds the row.   *)
(***************************************************************************)
LockRow(a, w) ==
  /\ RowFree(a)
  /\ rowLock' = [rowLock EXCEPT ![a] = w]
  /\ UNCHANGED <<status, verdicts, cycles>>

(***************************************************************************)
(* rollback, or the server aborting the transaction of a dead process.     *)
(***************************************************************************)
Rollback(a, w) ==
  /\ rowLock' = [rowLock EXCEPT ![a] = IF @ = w THEN NoWorker ELSE @]
  /\ UNCHANGED <<status, verdicts, cycles>>

\* the status is flushed in a later transaction than the verdict row
PersistVerdictWithoutStatus(a, w) ==
  /\ verdicts' = [verdicts EXCEPT ![a] = @ + 1]
  /\ rowLock' = [rowLock EXCEPT ![a] = NoWorker]
  /\ UNCHANGED <<status, cycles>>

(***************************************************************************)
(* persist_verdict and the commit that follows it: the verdict row, its    *)
(* tool calls and `triaged` become visible at once and the lock is freed.  *)
(***************************************************************************)
PersistVerdict(a, w) ==
  /\ rowLock[a] = w
  /\ status' = [status EXCEPT ![a] = "triaged"]
  /\ verdicts' = [verdicts EXCEPT ![a] = @ + 1]
  /\ rowLock' = [rowLock EXCEPT ![a] = NoWorker]
  /\ UNCHANGED cycles

(***************************************************************************)
(* mark_alert_failed: set_alert_status in a transaction of its own.  The   *)
(* read takes no lock and looks at no status; the UPDATE waits for the     *)
(* row lock and then overwrites whatever was committed meanwhile.          *)
(***************************************************************************)
SetFailed(a) ==
  /\ RowFree(a)
  /\ status' = [status EXCEPT ![a] = "failed"]
  /\ UNCHANGED <<verdicts, cycles, rowLock>>

(***************************************************************************)
(* get_alert_for_retriage_update, the status check, flip_alert_to_pending  *)
(* and the commit: one transaction that holds the row lock throughout.     *)
(***************************************************************************)
FlipToPending(a) ==
  /\ RowFree(a)
  /\ status[a] \in Decided
  /\ status' = [status EXCEPT ![a] = "pending"]
  /\ cycles' = [cycles EXCEPT ![a] = @ + 1]
  /\ UNCHANGED <<verdicts, rowLock>>
=============================================================================
