------------------------------ MODULE EvalRun ------------------------------
(***************************************************************************)
(* evals.run: the checks before anything is spent, then for each prompt    *)
(* the golden cases under a semaphore, their scores, the result file, the  *)
(* eval_runs row and the published line, and at the end the baseline and   *)
(* the gate.  A record run works on the fixtures meanwhile.                *)
(***************************************************************************)
EXTENDS ToolFixtures, EvalScoring

VARIABLES
  ev,         \* where the run is
  args,       \* its command line
  base,       \* the baseline the gate loaded up front
  begun,      \* prompts begun
  step,       \* step[c]: where case c is
  permits,    \* of the semaphore
  result,     \* result[c]: the CaseResult of c, as far as it is known
  rows,       \* one for each prompt that was scored
  saved,      \* how many of them are result files, ...
  rowed,      \* ... eval_runs rows, ...
  lined,      \* ... published lines
  exit        \* how the last run ended

VARIABLES
  artifacts,  \* golden sets of the result files on disk
  published,  \* golden sets of the lines of docs/results.md
  baseline    \* evals/baseline.json: none, torn, or what was recorded

VARIABLE
  touched     \* history: the calls whose file a record run had open while
              \* the cases of this prompt ran

runVars == <<ev, args, base, begun, step, permits, result, rows, saved, rowed, lined, exit>>
fileVars == <<artifacts, published, baseline>>
vars == <<fixtureVars, runVars, fileVars, touched>>

Blank ==
  [verdict |-> 0, error |-> "none", evidence |-> "none", judge |-> "none",
   cost |-> 0, judgeCost |-> 0]

CaseResults ==
  [verdict : Severities \cup {0}, error : {"none", "fixture", "call"},
   evidence : {"none", "answer", "poison", "unavailable"}, judge : {"none", "score", "error"},
   cost : Costs \cup {0}, judgeCost : 0..2]

Phases ==
  {"off", "prompt", "cases", "scored", "saved", "rowed", "baseline", "gate"}

Exits ==
  {"none", "ok", "config", "golden", "output", "database", "missing", "all_failed",
   "gate", "killed"}

InFlight == {"triaging", "reading", "judging", "rejudging"}

\* Nothing that stands for a baseline, and one that cannot be parsed.
NoBaseline == [state |-> "none"]
TornBaseline == [state |-> "torn"]

Rows ==
  [failed : Nat, exact : Nat, critical : Nat, cost : Nat,
   config : [prompt : STRING, strict : BOOLEAN, judge : BOOLEAN],
   missing : BOOLEAN]

Baselines == [state : {"recorded"}, golden : {"v1", "v2"}, exact : Nat, cost : Nat,
              config : [prompt : STRING, strict : BOOLEAN, judge : BOOLEAN]]

\* Where the run, its cases and its files are ...
RunTypeOK ==
  /\ FixturesTypeOK
  /\ ev \in Phases
  /\ args \in Invocations
  /\ begun \in Nat
  /\ step \in [Cases -> InFlight \cup {"waiting", "done"}]
  /\ permits \in 0..Concurrency
  /\ result \in [Cases -> CaseResults]
  /\ saved \in Nat /\ rowed \in Nat /\ lined \in Nat
  /\ exit \in Exits
  /\ artifacts \subseteq {"v1", "v2"}
  /\ published \subseteq {"v1", "v2"}
  /\ touched \subseteq Calls

\* ... and the numbers it has computed and recorded.
TypeOK ==
  /\ RunTypeOK
  /\ rows \in Seq(Rows)
  /\ base \in Baselines \cup {NoBaseline, TornBaseline}
  /\ baseline \in Baselines \cup {NoBaseline, TornBaseline}

Init ==
  /\ FixturesInit
  /\ ev = "off"
  /\ args = CHOOSE a \in Invocations : TRUE
  /\ base = NoBaseline
  /\ begun = 0
  /\ step = [c \in Cases |-> "waiting"]
  /\ permits = Concurrency
  /\ result = [c \in Cases |-> Blank]
  /\ rows = <<>>
  /\ saved = 0 /\ rowed = 0 /\ lined = 0
  /\ exit = "none"
  /\ artifacts = {}
  /\ published = {}
  /\ baseline = NoBaseline
  /\ touched = {}

-----------------------------------------------------------------------------
Strict(a) == IF a.strict = "default" THEN a.golden = "v2" ELSE a.strict = "yes"

Judges(a) == IF a.judge = "default" THEN a.golden = "v2" /\ HasJudge ELSE a.judge = "yes"

\* run_model_config, as far as runs differ in it.
Config(a, p) == [prompt |-> p, strict |-> Strict(a), judge |-> Judges(a)]

\* What else can be wrong when evals.run is started.
Wrongs == {"unpriced", "judge_prompt", "malformed", "unlabelled", "client"}

(***************************************************************************)
(* The checks of _run_all before the loop over the prompts, in their       *)
(* order: the error the run ends with, or "none".                          *)
(***************************************************************************)
Refusal(a, wrong) ==
  IF \/ a.gate /\ baseline.state # "recorded"
     \/ a.write /\ Len(a.prompts) > 1
     \/ "unpriced" \in wrong
     \/ Judges(a) /\ (~HasJudge \/ "judge_prompt" \in wrong)
    THEN "config"
  ELSE IF "malformed" \in wrong THEN "golden"
  ELSE IF \/ a.golden = "v2" /\ "unlabelled" \in wrong
          \/ a.golden # "v2" /\ (a.write \/ a.publish)
          \/ a.write /\ baseline # NoBaseline /\ ~a.force
          \/ "client" \in wrong
    THEN "config"
  ELSE "none"

\* The process is gone, and with it what it held.
Ends(code) ==
  /\ exit' = code
  /\ ev' = "off"
  /\ args' = CHOOSE a \in Invocations : TRUE
  /\ base' = NoBaseline
  /\ begun' = 0
  /\ step' = [c \in Cases |-> "waiting"]
  /\ permits' = Concurrency
  /\ result' = [c \in Cases |-> Blank]
  /\ rows' = <<>>
  /\ saved' = 0 /\ rowed' = 0 /\ lined' = 0
  /\ touched' = {}

Begins(a) ==
  /\ ev = "off"
  /\ ~a.artifact
  /\ \E wrong \in SUBSET Wrongs :
       IF Refusal(a, wrong) = "none"
         THEN /\ ev' = "prompt"
              /\ exit' = "none"
              /\ args' = a
              /\ base' = IF a.gate THEN baseline ELSE NoBaseline
              /\ UNCHANGED <<begun, step, permits, result, rows, saved, rowed, lined, touched>>
         ELSE Ends(Refusal(a, wrong))
  /\ UNCHANGED <<fixtureVars, fileVars>>

\* append_result_row: below the last line of a table whose header is the
\* expected one; a refusal leaves the file alone.
AppendsLine(golden) == published' = published \cup {golden}

\* the golden set of the result file is not looked at
RepublishesAny(a) ==
  /\ ev = "off"
  /\ a.artifact
  /\ \/ (\E golden \in artifacts : AppendsLine(golden)) /\ Ends("ok")
     \/ UNCHANGED published /\ Ends("config")
  /\ UNCHANGED <<fixtureVars, artifacts, baseline>>

\* row_from_artifact refuses a result file that is not of a v2 golden set, is
\* torn or is not there.
FromArtifact == artifacts \cap {"v2"}

\* --from-artifact
Republishes(a) ==
  /\ ev = "off"
  /\ a.artifact
  /\ \/ (\E golden \in FromArtifact : AppendsLine(golden)) /\ Ends("ok")
     \/ UNCHANGED published /\ Ends("config")
  /\ UNCHANGED <<fixtureVars, artifacts, baseline>>

\* TriagePipeline(...): an unknown version is a ConfigError.
BuildsPipeline ==
  /\ ev = "prompt"
  /\ begun < Len(args.prompts)
  /\ IF args.prompts[begun + 1] \in Prompts
       THEN /\ ev' = "cases"
            /\ begun' = begun + 1
            /\ touched' = at
            /\ UNCHANGED <<args, base, step, permits, result, rows, saved, rowed, lined, exit>>
       ELSE Ends("config")
  /\ UNCHANGED <<fixtureVars, fileVars>>

-----------------------------------------------------------------------------
(***************************************************************************)
(* run_golden: _run_one and _judge, each inside the semaphore.             *)
(***************************************************************************)
OtherThanCase == <<fixtureVars, fileVars, ev, args, base, begun, rows, saved, rowed, lined, exit, touched>>

Goes(c, there) == step' = [step EXCEPT ![c] = there] /\ UNCHANGED permits

\* the permit goes back in a finally of its own as well
LeavesTwice(c) == step' = [step EXCEPT ![c] = "done"] /\ permits' = permits + 2

Leaves(c) == step' = [step EXCEPT ![c] = "done"] /\ permits' = permits + 1

\* gather starts the cases in their order, and the semaphore is fair.
Enters(c) ==
  /\ ev = "cases"
  /\ step[c] = "waiting"
  /\ \A d \in Cases : d < c => step[d] # "waiting"
  /\ permits > 0
  /\ step' = [step EXCEPT ![c] = "triaging"]
  /\ permits' = permits - 1
  /\ UNCHANGED <<OtherThanCase, result>>

\* What the recorder served goes to the model; what it raised ends the case.
Takes(c, served) ==
  IF served = "raise"
    THEN result' = [result EXCEPT ![c].error = "fixture"] /\ Leaves(c)
    ELSE result' = [result EXCEPT ![c].evidence = served] /\ Goes(c, "triaging")

\* The model asks for a lookup, and its file is looked for ...
Consults(c) ==
  /\ step[c] = "triaging"
  /\ result[c].evidence = "none"
  /\ IF Exists(CallOf[c])
       THEN Goes(c, "reading") /\ UNCHANGED result
       ELSE Takes(c, Missing(Strict(args)))
  /\ UNCHANGED OtherThanCase

\* ... and read.
ReadsFixture(c) ==
  /\ step[c] = "reading"
  /\ Takes(c, Replays(CallOf[c], Strict(args)))
  /\ UNCHANGED OtherThanCase

\* the judge is called after the semaphore's block
DecidesReleasing(c) ==
  /\ step[c] = "triaging"
  /\ \E s \in Severities, cost \in Costs :
       result' = [result EXCEPT ![c] = [@ EXCEPT !.verdict = s, !.cost = cost, !.evidence = "none"]]
  /\ step' = [step EXCEPT ![c] = IF Judges(args) THEN "judging" ELSE "done"]
  /\ permits' = permits + 1
  /\ UNCHANGED OtherThanCase

\* pipeline.run returns; a case that was escalated costs more.  What it
\* looked up is kept as a digest only.
Decides(c) ==
  /\ step[c] = "triaging"
  /\ \E s \in Severities, cost \in Costs :
       result' = [result EXCEPT ![c] = [@ EXCEPT !.verdict = s, !.cost = cost, !.evidence = "none"]]
  /\ IF Judges(args) THEN Goes(c, "judging") ELSE Leaves(c)
  /\ UNCHANGED OtherThanCase

\* the failure of a case is caught outside its task's semaphore block
TriageFailsHolding(c) ==
  /\ step[c] = "triaging"
  /\ result' = [result EXCEPT ![c] = [Blank EXCEPT !.error = "call"]]
  /\ Goes(c, "done")
  /\ UNCHANGED OtherThanCase

\* VerdictValidationError or LLMCallError: a result without cost.
TriageFails(c) ==
  /\ step[c] = "triaging"
  /\ result' = [result EXCEPT ![c] = [Blank EXCEPT !.error = "call"]]
  /\ Leaves(c)
  /\ UNCHANGED OtherThanCase

\* judge_case answers at once, or after its one retry: both calls are counted.
JudgeScores(c) ==
  /\ step[c] \in {"judging", "rejudging"}
  /\ result' = [result EXCEPT ![c] =
                   [@ EXCEPT !.judge = "score",
                             !.judgeCost = IF step[c] = "judging" THEN 1 ELSE 2]]
  /\ Leaves(c)
  /\ UNCHANGED OtherThanCase

\* A reply that does not validate; of two, the second's cost is kept.
JudgeRejected(c) ==
  /\ \/ step[c] = "judging" /\ Goes(c, "rejudging") /\ UNCHANGED result
     \/ /\ step[c] = "rejudging"
        /\ result' = [result EXCEPT ![c] = [@ EXCEPT !.judge = "error", !.judgeCost = 1]]
        /\ Leaves(c)
  /\ UNCHANGED OtherThanCase

\* LLMCallError, of either call: recorded without cost.
JudgeCallFails(c) ==
  /\ step[c] \in {"judging", "rejudging"}
  /\ result' = [result EXCEPT ![c].judge = "error"]
  /\ Leaves(c)
  /\ UNCHANGED OtherThanCase

CaseStep(c) ==
  \/ Enters(c) \/ Consults(c) \/ ReadsFixture(c) \/ Decides(c) \/ TriageFails(c)
  \/ JudgeScores(c) \/ JudgeRejected(c) \/ JudgeCallFails(c)

-----------------------------------------------------------------------------
\* score, and the row of the table.
Scores ==
  /\ ev = "cases"
  /\ \A c \in Cases : step[c] = "done"
  /\ ev' = "scored"
  /\ rows' = Append(rows,
       [failed |-> Metrics(result).failed, exact |-> Metrics(result).exact,
        critical |-> Metrics(result).critical, cost |-> Metrics(result).cost,
        config |-> Config(args, args.prompts[begun]),
        missing |-> \E c \in Cases : result[c].error = "fixture"])
  /\ UNCHANGED <<fixtureVars, fileVars, args, base, begun, step, permits, result>>
  /\ touched' = {}
  /\ UNCHANGED <<saved, rowed, lined, exit>>

\* the row is written first, and the result file after it
RowFirst ==
  /\ ev = "scored"
  /\ ev' = "saved"
  /\ rowed' = begun
  /\ UNCHANGED <<fixtureVars, fileVars, args, base, begun, step, permits, result, rows>>
  /\ UNCHANGED <<saved, lined, exit, touched>>

\* The result file; nothing reads the case results after it.
WritesArtifact ==
  /\ ev = "scored"
  /\ \/ /\ ev' = "saved"
        /\ saved' = begun
        /\ artifacts' = artifacts \cup {args.golden}
        /\ step' = [c \in Cases |-> "waiting"]
        /\ result' = [c \in Cases |-> Blank]
        /\ UNCHANGED <<args, base, begun, permits, rows, rowed, lined, exit, touched>>
     \/ "disk" \in EvalFaults /\ Ends("output") /\ UNCHANGED artifacts
  /\ UNCHANGED <<fixtureVars, published, baseline>>

\* write_eval_run_row: the row, visible with the commit.
InsertsRow == rowed' = begun

\* --database-url
WritesRow ==
  /\ ev = "saved"
  /\ \/ /\ ev' = "rowed"
        /\ IF args.database THEN InsertsRow ELSE UNCHANGED rowed
        /\ UNCHANGED <<args, base, begun, step, permits, result, rows, saved, lined, exit, touched>>
     \/ args.database /\ "database" \in EvalFaults /\ Ends("database")
  /\ UNCHANGED <<fixtureVars, fileVars>>

\* --publish: append_result_row.
PublishesLine ==
  /\ ev = "rowed"
  /\ \/ /\ ev' = "prompt"
        /\ IF args.publish
             THEN AppendsLine(args.golden) /\ lined' = begun
             ELSE UNCHANGED <<published, lined>>
        /\ UNCHANGED <<args, base, begun, step, permits, result, rows, saved, rowed, exit, touched>>
     \/ /\ args.publish
        /\ "drift" \in EvalFaults
        /\ Ends("config")
        /\ UNCHANGED published
  /\ UNCHANGED <<fixtureVars, artifacts, baseline>>

-----------------------------------------------------------------------------
\* After the loop: missing fixtures first, then a run in which no case
\* succeeded.
Reports ==
  /\ ev = "prompt"
  /\ begun = Len(args.prompts)
  /\ IF \E i \in 1..Len(rows) : rows[i].missing
       THEN Ends("missing")
     ELSE IF \A i \in 1..Len(rows) : rows[i].failed = Cardinality(Cases)
       THEN Ends("all_failed")
     ELSE /\ ev' = "baseline"
          /\ UNCHANGED <<args, base, begun, step, permits, result, rows, saved, rowed, lined, exit, touched>>
  /\ UNCHANGED <<fixtureVars, fileVars>>

\* write_baseline
Recorded(row) ==
  [state |-> "recorded", golden |-> args.golden,
   exact |-> row.exact, cost |-> row.cost, config |-> row.config]

\* --write-baseline: the one row there is, over what was there.
WritesBaseline ==
  /\ ev = "baseline"
  /\ ev' = "gate"
  /\ baseline' = IF args.write THEN Recorded(rows[1]) ELSE baseline
  /\ UNCHANGED <<fixtureVars, artifacts, published, args, base, begun, step, permits>>
  /\ UNCHANGED <<result, rows, saved, rowed, lined, exit, touched>>

\* what the last row says
GatesLast ==
  /\ ev = "gate"
  /\ Ends(IF args.gate /\ Tripped(rows[Len(rows)], base)
             THEN "gate" ELSE "ok")
  /\ UNCHANGED <<fixtureVars, fileVars>>

\* --gate: every row against the baseline that was loaded up front.
Gates ==
  /\ ev = "gate"
  /\ Ends(IF args.gate /\ \E i \in 1..Len(rows) : Tripped(rows[i], base)
             THEN "gate" ELSE "ok")
  /\ UNCHANGED <<fixtureVars, fileVars>>

(***************************************************************************)
(* The process is killed.  A file it was writing is torn: the baseline     *)
(* then cannot be loaded, and the published lines are gone until the file  *)
(* is taken from the repository again.                                     *)
(***************************************************************************)
Killed ==
  /\ "kill" \in EvalFaults
  /\ ev # "off"
  /\ Ends("killed")
  /\ \/ UNCHANGED <<published, baseline>>
     \/ /\ ev = "rowed" /\ args.publish
        /\ published' = {} /\ UNCHANGED baseline
     \/ /\ ev = "baseline" /\ args.write
        /\ baseline' = TornBaseline /\ UNCHANGED published
  /\ UNCHANGED <<fixtureVars, artifacts>>

RunStep ==
  \/ BuildsPipeline \/ (\E c \in Cases : CaseStep(c)) \/ Scores
  \/ WritesArtifact \/ WritesRow \/ PublishesLine
  \/ Reports \/ WritesBaseline \/ Gates

\* The record run works on the same directory.
Records ==
  /\ RecordStep
  /\ touched' = IF ev = "cases" THEN touched \cup at' ELSE {}
  /\ UNCHANGED <<runVars, fileVars>>

Next ==
  \/ \E a \in Invocations : Begins(a) \/ Republishes(a)
  \/ RunStep
  \/ Killed
  \/ Records

Spec == Init /\ [][Next]_vars

\* The process runs; calls of the model are answered or time out.
FairSpec == Spec /\ WF_vars(RunStep)

-----------------------------------------------------------------------------
(***************************************************************************)
(* Strict replay: no case is scored on a transient failure, the answer a   *)
(* case was given is the one that stays on disk, and a case goes on        *)
(* without an answer only when a record run had the file of its call open  *)
(* while the cases ran, or was killed writing it and left it half written: *)
(* never because the file was not there when it was looked for.            *)
(***************************************************************************)
StrictEvidence ==
  Strict(args) =>
    \A c \in Cases :
      /\ result[c].evidence # "poison"
      /\ result[c].evidence = "answer" => fixture[CallOf[c]] = "answer"
      /\ result[c].evidence = "unavailable" =>
           CallOf[c] \in touched \/ (killed /\ fixture[CallOf[c]] = "partial")

Flying == {c \in Cases : step[c] \in InFlight}

(***************************************************************************)
(* The semaphore's permits are all accounted for, and no more cases than   *)
(* --concurrency run or are judged at a time.                              *)
(***************************************************************************)
Throttled == permits + Cardinality(Flying) = Concurrency

(***************************************************************************)
(* The result file comes first: an eval_runs row or a published line       *)
(* exists only for results that are on disk, wherever the run is killed,   *)
(* and a run that ends in any other way than killed or unable to write has *)
(* all it paid for on disk.                                                *)
(***************************************************************************)
SpendIsOnDisk ==
  /\ rowed <= saved /\ lined <= saved
  /\ begun = IF ev \in {"cases", "scored"} THEN saved + 1 ELSE saved
  /\ ev \in {"baseline", "gate"} => saved = Len(args.prompts)

(***************************************************************************)
(* No number of a synthetic golden set is published or becomes the         *)
(* baseline: by evals.run, or from a result file later.                    *)
(***************************************************************************)
SyntheticUnpublished ==
  /\ published \subseteq {"v2"}
  /\ baseline.state = "recorded" => baseline.golden = "v2"

(***************************************************************************)
(* Exit 0: every prompt that was asked for has its result file, no fixture *)
(* was missing, some case succeeded, and with --gate no row is worse than  *)
(* the baseline the run started with.                                      *)
(***************************************************************************)
Green ==
  /\ saved = Len(args.prompts) /\ Len(rows) = saved
  /\ \A i \in 1..Len(rows) : ~rows[i].missing
  /\ \E i \in 1..Len(rows) : rows[i].failed < Cardinality(Cases)
  /\ args.gate => \A i \in 1..Len(rows) : ~Tripped(rows[i], base)

GreenIsGood == [][ev # "off" /\ exit' = "ok" => Green]_vars

(***************************************************************************)
(* The metrics of a row agree with the confusion matrix of its cases: each *)
(* case is in one cell of its label's row, the diagonal is what was exact, *)
(* precision and recall are made of its columns and rows, the judge's cost *)
(* is of cases that succeeded (at least one call for each score and at     *)
(* most two), and the 95th percentile is the least cost that so many cases *)
(* stay within.                                                            *)
(***************************************************************************)
MetricsAgree ==
  ev = "scored" =>
    LET m == Metrics(result)
        cm == Confusion(result)
        n == Cardinality(Cases)
        Within(v) == Cardinality({c \in Cases : result[c].cost <= v})
    IN  /\ \A b \in Severity :
             /\ SumFunction([v \in Severity \cup {0} |-> cm[b, v]]) = Support(b)
             /\ SumFunction([l \in Severity |-> cm[l, b]]) = Predicted(result, b)
        /\ m.exact = SumFunction([b \in Severity |-> cm[b, b]])
        /\ m.failed = SumFunction([b \in Severity |-> cm[b, 0]])
        /\ m.exact <= m.within /\ m.within + m.failed <= n
        /\ m.critical = SumFunction([cell \in (4..5) \X (4..5) |-> cm[cell]])
        /\ m.judged <= m.judgeCost /\ m.judgeCost <= 2 * (n - m.failed)
        /\ 100 * Within(m.p95) >= 95 * n
        /\ \A v \in Costs \cup {0} : v < m.p95 => 100 * Within(v) < 95 * n

\* A run that was begun ends: no case waits for a permit for ever.
RunEnds == ev # "off" ~> ev = "off"
=============================================================================
