---------------------------- MODULE TokenBudget ----------------------------
(***************************************************************************)
(* The daily token counter in Redis (worker/budget.py, core/budget.py) and *)
(* the parameters of a pipeline run.                                       *)
(***************************************************************************)
EXTENDS Integers, FiniteSets

CONSTANTS
  Runs,        \* pipeline runs that share the counter
  Budget,      \* daily_token_budget, 0 for no limit
  MaxUsage,    \* bound: tokens one call is billed
  MaxIter,     \* tool_loop_max_iter, 0 for a pipeline without tools
  MaxTools,    \* bound: tools a model asks for in one turn
  Routing,     \* a strong_model is configured
  SeverityGte,
  ConfidenceLt,
  Severities,  \* bound: severities the model reports
  Confidences, \* bound: confidences it reports, in per cent
  MaxDays,     \* bound: midnights that pass
  Faults

(***************************************************************************)
(* "read", "write": Redis fails when the counter is read or written.       *)
(* "cancel": the job's time limit or a shutdown cancels a run.             *)
(***************************************************************************)
RunFaults == {"read", "write", "cancel"}

ASSUME RunsAssumption == IsFiniteSet(Runs)
ASSUME BudgetAssumption == Budget \in Nat /\ MaxUsage \in Nat \ {0}
ASSUME LoopAssumption == MaxIter \in Nat /\ MaxTools \in Nat \ {0}
ASSUME RoutingAssumption == Routing \in BOOLEAN
ASSUME ThresholdsAssumption == SeverityGte \in Nat /\ ConfidenceLt \in Nat
ASSUME VerdictsAssumption == Severities \subseteq 1..5 /\ Confidences \subseteq 0..100
ASSUME DaysAssumption == MaxDays \in Nat
ASSUME RunFaultsAssumption == Faults \subseteq RunFaults

VARIABLES
  counter,   \* today's budget:{utc_date}
  days       \* midnights passed

budgetVars == <<counter, days>>

BudgetTypeOK == counter \in Nat /\ days \in 0..MaxDays

BudgetInit == counter = 0 /\ days = 0

Usages == 1..MaxUsage

\* check_and_would_exceed; a counter that cannot be read counts as 0.
MayCall ==
  \/ Budget = 0
  \/ counter < Budget
  \/ "read" \in Faults

WouldExceed == Budget # 0 /\ counter >= Budget

\* record_tokens
RecordTokens(tokens) ==
  /\ counter' = counter + tokens
  /\ UNCHANGED days

\* A new day has a key of its own.
Midnight ==
  /\ days < MaxDays
  /\ days' = days + 1
  /\ counter' = 0
=============================================================================
