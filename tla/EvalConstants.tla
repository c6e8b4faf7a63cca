--------------------------- MODULE EvalConstants ---------------------------
(***************************************************************************)
(* The parameters of the evaluation harness: the golden cases with their   *)
(* labels, the tool calls they can make, and the ways evals.run is called. *)
(***************************************************************************)
EXTENDS Naturals, Sequences, FiniteSets

CONSTANTS
  Cases,        \* the golden cases, by their row
  Label,        \* Label[c]: the labelled severity of case c
  Severities,   \* the severities verdicts have
  Costs,        \* what a verdict costs, more when it was escalated
  Calls,        \* the lookups evals.record plans: a strict tool with a src_ip
  CallOf,       \* CallOf[c]: the lookup case c can make
  Prompts,      \* the prompt versions there are
  Invocations,  \* the command lines evals.run is given
  HasJudge,     \* a judge model is configured
  Concurrency,  \* --concurrency
  DropPoints,   \* EVAL_GATE_SEVERITY_DROP_POINTS
  RecallMin,    \* EVAL_GATE_CRITICAL_RECALL_MIN, in percent
  RisePercent,  \* EVAL_GATE_COST_RISE_FRACTION, in percent
  EvalFaults    \* "kill": a process is killed
                \* "disk": the output directory cannot be written
                \* "database": the eval_runs row cannot be written
                \* "drift": the header of docs/results.md is not the expected one

Severity == 1..5

Arguments ==
  [golden : {"v1", "v2"}, prompts : Seq(STRING) \ {<<>>},
   strict : {"default", "yes", "no"}, judge : {"default", "yes", "no"},
   gate : BOOLEAN, write : BOOLEAN, force : BOOLEAN, publish : BOOLEAN,
   database : BOOLEAN, artifact : BOOLEAN]

ASSUME CasesAssumption == IsFiniteSet(Cases) /\ Cases # {} /\ Cases \subseteq Nat
ASSUME LabelAssumption == Label \in [Cases -> Severity] /\ Severities \subseteq Severity
ASSUME CostsAssumption == Costs \subseteq Nat
ASSUME CallsAssumption == CallOf \in [Cases -> Calls]
ASSUME ConcurrencyAssumption == Concurrency \in Nat \ {0}
ASSUME GateSettings == DropPoints \in Nat /\ RecallMin \in 0..100 /\ RisePercent \in Nat
ASSUME InvocationsAssumption == Invocations \subseteq Arguments /\ Invocations # {}
ASSUME JudgeAssumption == HasJudge \in BOOLEAN
=============================================================================
