--------------------------- MODULE AlertLifecycle ---------------------------
(***************************************************************************)
(* What the triage service promises about one alert row, whatever the      *)
(* queue, the workers and the routes do in between: a row is created       *)
(* `pending` once, a pending row is decided once (a verdict is written     *)
(* together with `triaged`, or the row becomes `failed` with no verdict),  *)
(* and only a retriage of a decided row makes it pending again.            *)
(* TriageSystem implements this specification.                             *)
(***************************************************************************)
EXTENDS Naturals

CONSTANT Alerts

VARIABLES
  status,    \* status[a]: the alerts.status column, "absent" before the insert
  verdicts,  \* verdicts[a]: how many verdicts rows the alert has
  cycles     \* cycles[a]: how many times the alert became pending

lifecycleVars == <<status, verdicts, cycles>>

Init ==
  /\ status = [a \in Alerts |-> "absent"]
  /\ verdicts = [a \in Alerts |-> 0]
  /\ cycles = [a \in Alerts |-> 0]

\* The first delivery of a session creates its row.
Create(a) ==
  /\ status[a] = "absent"
  /\ status' = [status EXCEPT ![a] = "pending"]
  /\ cycles' = [cycles EXCEPT ![a] = @ + 1]
  /\ UNCHANGED verdicts

\* One verdict row and the `triaged` status become visible together.
Decide(a) ==
  /\ status[a] = "pending"
  /\ status' = [status EXCEPT ![a] = "triaged"]
  /\ verdicts' = [verdicts EXCEPT ![a] = @ + 1]
  /\ UNCHANGED cycles

\* The attempts are used up: no verdict is written.
GiveUp(a) ==
  /\ status[a] = "pending"
  /\ status' = [status EXCEPT ![a] = "failed"]
  /\ UNCHANGED <<verdicts, cycles>>

\* An administrator asks for another verdict of a decided alert.
Reopen(a) ==
  /\ status[a] \in {"triaged", "failed"}
  /\ status' = [status EXCEPT ![a] = "pending"]
  /\ cycles' = [cycles EXCEPT ![a] = @ + 1]
  /\ UNCHANGED verdicts

Next == \E a \in Alerts : Create(a) \/ Decide(a) \/ GiveUp(a) \/ Reopen(a)

Spec == Init /\ [][Next]_lifecycleVars
=============================================================================
