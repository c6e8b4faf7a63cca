--------------------------- MODULE EvalRunProofs ---------------------------
(***************************************************************************)
(* Proofs about the evaluation harness, for every golden set, every set of *)
(* command lines and every concurrency.                                    *)
(***************************************************************************)
EXTENDS EvalRun, FiniteSetTheorems, WellFoundedInduction, TLAPS

-----------------------------------------------------------------------------
(***************************************************************************)
(* The record run alone.  A file is half written, or unchecked, only as    *)
(* the one call the run is at.                                             *)
(***************************************************************************)
RecInv ==
  /\ \A k, l \in at : k = l
  /\ rec \in {"off", "next"} => at = {}
  /\ rec = "writing" => \A k \in at : fixture[k] = "partial"
  /\ rec = "wrote" => \A k \in at : fixture[k] \in Results
  /\ todo \subseteq plan
  /\ RecordedIsReplayable

\* A step of the record run keeps its types.
LEMMA RecordTypes ==
  ASSUME FixturesTypeOK, RecordStep
  PROVE  FixturesTypeOK'
<1> USE DEF FixturesTypeOK, Results
<1>1. CASE RecordBegins BY <1>1 DEF RecordBegins
<1>2. CASE RecordSkips BY <1>2 DEF RecordSkips
<1>3. CASE ToolRaises BY <1>3 DEF ToolRaises
<1>4. CASE ToolReturns BY <1>4 DEF ToolReturns
<1>5. CASE FixtureWritten BY <1>5 DEF FixtureWritten
<1>6. CASE ChecksReason BY <1>6 DEF ChecksReason
<1>7. CASE RecordEnds BY <1>7 DEF RecordEnds, RecordGone
<1>8. CASE RecordKilled BY <1>8 DEF RecordKilled, RecordGone
<1> QED BY <1>1, <1>2, <1>3, <1>4, <1>5, <1>6, <1>7, <1>8 DEF RecordStep

\* ... and what it leaves on disk.
LEMMA RecordInductive ==
  ASSUME FixturesTypeOK, RecInv, RecordStep
  PROVE  RecInv'
<1> USE DEF FixturesTypeOK, Results, RecInv, RecordedIsReplayable
<1>1. CASE RecordBegins BY <1>1 DEF RecordBegins
<1>2. CASE RecordSkips BY <1>2 DEF RecordSkips
<1>3. CASE ToolRaises BY <1>3 DEF ToolRaises
<1>4. CASE ToolReturns BY <1>4 DEF ToolReturns
<1>5. CASE FixtureWritten BY <1>5 DEF FixtureWritten
<1>6. CASE ChecksReason BY <1>6 DEF ChecksReason
<1>7. CASE RecordEnds BY <1>7 DEF RecordEnds, RecordGone
<1>8. CASE RecordKilled BY <1>8 DEF RecordKilled, RecordGone
<1> QED BY <1>1, <1>2, <1>3, <1>4, <1>5, <1>6, <1>7, <1>8 DEF RecordStep

\* An answer that was recorded stays; so does a file that was left half
\* written, and a file is taken back by the run that is at it.
LEMMA OthersStay ==
  ASSUME FixturesTypeOK, RecInv, RecordStep, NEW k \in Calls
  PROVE  /\ fixture[k] = "answer" => fixture'[k] = "answer"
         /\ fixture[k] = "partial" /\ k \notin at => fixture'[k] = "partial"
         /\ fixture[k] # "absent" /\ k \notin at => fixture'[k] # "absent"
         /\ killed => killed'
<1> USE DEF FixturesTypeOK, Results, RecInv
<1>1. CASE RecordBegins BY <1>1 DEF RecordBegins
<1>2. CASE RecordSkips BY <1>2 DEF RecordSkips
<1>3. CASE ToolRaises BY <1>3 DEF ToolRaises
<1>4. CASE ToolReturns BY <1>4 DEF ToolReturns
<1>5. CASE FixtureWritten BY <1>5 DEF FixtureWritten
<1>6. CASE ChecksReason BY <1>6 DEF ChecksReason
<1>7. CASE RecordEnds BY <1>7 DEF RecordEnds, RecordGone
<1>8. CASE RecordKilled BY <1>8 DEF RecordKilled, RecordGone
<1> QED BY <1>1, <1>2, <1>3, <1>4, <1>5, <1>6, <1>7, <1>8 DEF RecordStep

-----------------------------------------------------------------------------
(***************************************************************************)
(* The semaphore: how the set of cases in flight changes with one case.    *)
(***************************************************************************)
Steps == InFlight \cup {"waiting", "done"}

LEMMA FlyingFinite == IsFiniteSet(Flying) /\ Cardinality(Flying) \in Nat
BY CasesAssumption, FS_Subset, FS_CardinalityType DEF Flying

LEMMA TakesOff ==
  ASSUME NEW c \in Cases, NEW there \in InFlight, step \in [Cases -> Steps],
         step[c] \notin InFlight, step' = [step EXCEPT ![c] = there]
  PROVE  Cardinality(Flying') = Cardinality(Flying) + 1
<1>1. Flying' = Flying \cup {c} BY DEF Flying
<1>2. c \notin Flying BY DEF Flying
<1> QED BY <1>1, <1>2, FlyingFinite, FS_AddElement

LEMMA FliesOn ==
  ASSUME NEW c \in Cases, NEW there \in InFlight, step \in [Cases -> Steps],
         step[c] \in InFlight, step' = [step EXCEPT ![c] = there]
  PROVE  Cardinality(Flying') = Cardinality(Flying)
<1>1. Flying' = Flying BY DEF Flying
<1> QED BY <1>1

LEMMA Lands ==
  ASSUME NEW c \in Cases, step \in [Cases -> Steps], step[c] \in InFlight,
         Leaves(c), permits \in Nat, Throttled
  PROVE  Throttled' /\ permits' \in 0..Concurrency
<1>1. Flying' = Flying \ {c} BY DEF Flying, Leaves, InFlight
<1>2. c \in Flying BY DEF Flying
<1>3. Cardinality(Flying') = Cardinality(Flying) - 1
  BY <1>1, <1>2, FlyingFinite, FS_RemoveElement
<1>4. Cardinality(Flying') \in Nat
  BY <1>1, FlyingFinite, FS_RemoveElement, FS_CardinalityType
<1> QED BY <1>3, <1>4, FlyingFinite, ConcurrencyAssumption DEF Throttled, Leaves

LEMMA NobodyFlies ==
  ASSUME step' = [c \in Cases |-> "waiting"], permits' = Concurrency
  PROVE  Throttled' /\ permits' \in 0..Concurrency /\ Flying' = {}
<1>1. Flying' = {} BY DEF Flying, InFlight
<1> QED BY <1>1, FS_EmptySet, ConcurrencyAssumption DEF Throttled

LEMMA SameFlight ==
  ASSUME UNCHANGED step
  PROVE  Flying' = Flying
BY DEF Flying

-----------------------------------------------------------------------------
(***************************************************************************)
(* Types.  That a permit is there for a case that leaves is what the       *)
(* semaphore's account says, and that no case is in flight outside         *)
(* run_golden keeps that account, so the three are shown together.         *)
(***************************************************************************)
Grounded == ev # "cases" => Flying = {}

Typed == RunTypeOK /\ Throttled /\ Grounded

LEMMA EndsTyped ==
  ASSUME NEW code \in Exits, Ends(code)
  PROVE  /\ ev' \in Phases /\ args' \in Invocations /\ begun' \in Nat
         /\ step' \in [Cases -> Steps] /\ result' \in [Cases -> CaseResults]
         /\ saved' \in Nat /\ rowed' \in Nat /\ lined' \in Nat /\ exit' \in Exits
         /\ permits' \in 0..Concurrency /\ Throttled' /\ Grounded' /\ touched' \subseteq Calls
<1>1. permits' \in 0..Concurrency /\ Throttled' /\ Flying' = {} BY NobodyFlies DEF Ends
<1>2. args' \in Invocations BY InvocationsAssumption DEF Ends
<1>3. Blank \in CaseResults BY DEF Blank, CaseResults
<1> QED BY <1>1, <1>2, <1>3 DEF Ends, Phases, Steps, Grounded

\* Of a case, only its step, its result and the permits change.
LEMMA CaseTyped ==
  ASSUME Typed, NEW c \in Cases, CaseStep(c)
  PROVE  /\ step' \in [Cases -> Steps] /\ result' \in [Cases -> CaseResults]
         /\ permits' \in 0..Concurrency /\ Throttled'
<1>t. /\ step \in [Cases -> Steps] /\ result \in [Cases -> CaseResults]
      /\ permits \in 0..Concurrency /\ permits \in Nat /\ Throttled /\ args \in Invocations
  BY ConcurrencyAssumption DEF Typed, RunTypeOK, Steps
<1>b. Blank \in CaseResults BY DEF Blank, CaseResults
<1>j. ASSUME NEW r \in CaseResults, NEW j \in {"score", "error"}, NEW n \in 0..2
      PROVE  [r EXCEPT !.judge = j, !.judgeCost = n] \in CaseResults
  BY DEF CaseResults
<1>1. CASE Enters(c)
  <2>1. Cardinality(Flying') = Cardinality(Flying) + 1
    BY <1>1, <1>t, TakesOff DEF Enters, InFlight
  <2>2. permits' = permits - 1 /\ permits > 0 BY <1>1 DEF Enters
  <2>3. permits' \in 0..Concurrency BY <2>2, <1>t, ConcurrencyAssumption
  <2>4. Throttled' BY <2>1, <2>2, <1>t, FlyingFinite, ConcurrencyAssumption DEF Throttled
  <2> QED BY <1>1, <1>t, <2>3, <2>4 DEF Enters, Steps, InFlight
<1>s. ASSUME NEW served \in {"raise", "answer", "poison", "unavailable"},
             step[c] \in {"triaging", "reading"}, Takes(c, served)
      PROVE  /\ step' \in [Cases -> Steps] /\ result' \in [Cases -> CaseResults]
             /\ permits' \in 0..Concurrency /\ Throttled'
  <2>1. step[c] \in InFlight BY <1>s DEF InFlight
  <2>2. CASE served = "raise"
    <3>1. Leaves(c) /\ result' = [result EXCEPT ![c].error = "fixture"]
      BY <1>s, <2>2 DEF Takes
    <3>2. result' \in [Cases -> CaseResults] BY <3>1, <1>t DEF CaseResults
    <3> QED BY <2>1, <3>1, <3>2, <1>t, Lands DEF Leaves, Steps
  <2>3. CASE served # "raise"
    <3>1. Goes(c, "triaging") /\ result' = [result EXCEPT ![c].evidence = served]
      BY <1>s, <2>3 DEF Takes
    <3>2. result' \in [Cases -> CaseResults] BY <1>s, <2>3, <3>1, <1>t DEF CaseResults
    <3>3. Cardinality(Flying') = Cardinality(Flying)
      BY <2>1, <3>1, <1>t, FliesOn DEF Goes, InFlight
    <3> QED BY <3>1, <3>2, <3>3, <1>t DEF Goes, Throttled, Steps, InFlight
  <2> QED BY <2>2, <2>3
<1>2. CASE Consults(c)
  <2>1. step[c] = "triaging" BY <1>2 DEF Consults
  <2>2. CASE Goes(c, "reading") /\ UNCHANGED result
    <3>1. Cardinality(Flying') = Cardinality(Flying)
      BY <2>1, <2>2, <1>t, FliesOn DEF Goes, InFlight
    <3> QED BY <2>2, <3>1, <1>t DEF Goes, Throttled, Steps, InFlight
  <2>3. CASE Takes(c, Missing(Strict(args)))
    <3>1. Missing(Strict(args)) \in {"raise", "unavailable"} BY DEF Missing
    <3> QED BY <2>1, <2>3, <3>1, <1>s
  <2> QED BY <1>2, <2>2, <2>3 DEF Consults
<1>9. CASE ReadsFixture(c)
  <2>1. Replays(CallOf[c], Strict(args)) \in {"raise", "answer", "poison", "unavailable"}
    BY DEF Replays
  <2> QED BY <1>9, <2>1, <1>s DEF ReadsFixture
<1>3. CASE Decides(c)
  <2>1. PICK s \in Severities, cost \in Costs :
          result' = [result EXCEPT ![c] = [@ EXCEPT !.verdict = s, !.cost = cost, !.evidence = "none"]]
    BY <1>3 DEF Decides
  <2>2. result' \in [Cases -> CaseResults]
    <3>1. [result[c] EXCEPT !.verdict = s, !.cost = cost, !.evidence = "none"] \in CaseResults
      BY <1>t DEF CaseResults
    <3> QED BY <2>1, <3>1, <1>t
  <2>3. CASE Leaves(c)
    BY <1>3, <2>2, <2>3, <1>t, Lands DEF Decides, Leaves, Steps, InFlight
  <2>4. CASE Goes(c, "judging")
    <3>1. Cardinality(Flying') = Cardinality(Flying)
      BY <1>3, <2>4, <1>t, FliesOn DEF Decides, Goes, InFlight
    <3> QED BY <2>2, <2>4, <3>1, <1>t DEF Goes, Throttled, Steps, InFlight
  <2> QED BY <1>3, <2>3, <2>4 DEF Decides
<1>4. CASE TriageFails(c)
  <2>1. result' \in [Cases -> CaseResults]
    BY <1>4, <1>t, <1>b DEF TriageFails, CaseResults
  <2> QED BY <1>4, <2>1, <1>t, Lands DEF TriageFails, Leaves, Steps, InFlight
<1>5. CASE JudgeScores(c)
  <2>1. result' \in [Cases -> CaseResults]
    <3> DEFINE n == IF step[c] = "judging" THEN 1 ELSE 2
    <3>1. result' = [result EXCEPT ![c] = [@ EXCEPT !.judge = "score", !.judgeCost = n]]
      BY <1>5 DEF JudgeScores
    <3>n. n \in 0..2 OBVIOUS
    <3> HIDE DEF n
    <3>2. [result[c] EXCEPT !.judge = "score", !.judgeCost = n] \in CaseResults
      BY <1>j, <1>t, <3>n
    <3> QED BY <3>1, <3>2, <1>t
  <2> QED BY <1>5, <2>1, <1>t, Lands DEF JudgeScores, Leaves, Steps, InFlight
<1>6. CASE JudgeRejected(c)
  <2>1. CASE step[c] = "judging" /\ Goes(c, "rejudging") /\ UNCHANGED result
    <3>1. Cardinality(Flying') = Cardinality(Flying)
      BY <2>1, <1>t, FliesOn DEF Goes, InFlight
    <3> QED BY <2>1, <3>1, <1>t DEF Goes, Throttled, Steps, InFlight
  <2>2. CASE /\ step[c] = "rejudging" /\ Leaves(c)
             /\ result' = [result EXCEPT ![c] = [@ EXCEPT !.judge = "error", !.judgeCost = 1]]
    <3>0. 1 \in 0..2 /\ result[c] \in CaseResults BY <1>t
    <3>1. [result[c] EXCEPT !.judge = "error", !.judgeCost = 1] \in CaseResults
      BY <1>j, <3>0, Zenon
    <3>2. result' \in [Cases -> CaseResults] BY <2>2, <3>1, <1>t
    <3> QED BY <2>2, <3>2, <1>t, Lands DEF Leaves, Steps, InFlight
  <2> QED BY <1>6, <2>1, <2>2 DEF JudgeRejected
<1>7. CASE JudgeCallFails(c)
  <2>1. result' \in [Cases -> CaseResults] BY <1>7, <1>t DEF JudgeCallFails, CaseResults
  <2> QED BY <1>7, <2>1, <1>t, Lands DEF JudgeCallFails, Leaves, Steps, InFlight
<1> QED BY <1>1, <1>2, <1>3, <1>4, <1>5, <1>6, <1>7, <1>9 DEF CaseStep

\* A process that is gone leaves the files, and nothing that is wrong.
LEMMA EndsKeepsTypes ==
  ASSUME Typed, NEW code \in Exits, Ends(code), UNCHANGED fixtureVars,
         artifacts' \subseteq {"v1", "v2"}, published' \subseteq {"v1", "v2"}
  PROVE  Typed'
<1>1. FixturesTypeOK'
  BY DEF Typed, RunTypeOK, FixturesTypeOK, fixtureVars, recVars
<1> QED BY <1>1, EndsTyped DEF Typed, RunTypeOK, Steps

\* A step that begins, moves or ends the run keeps the types.
LEMMA TypedInductive ==
  ASSUME Typed, [Next]_vars
  PROVE  Typed'
<1>t. /\ RunTypeOK /\ Throttled /\ Grounded /\ FixturesTypeOK /\ Invocations \subseteq Arguments
      /\ args \in Arguments
  BY InvocationsAssumption DEF Typed, RunTypeOK
<1>a. \A a \in Arguments : a.golden \in {"v1", "v2"} BY DEF Arguments
<1>f. ASSUME UNCHANGED fixtureVars PROVE FixturesTypeOK'
  BY <1>f, <1>t DEF FixturesTypeOK, fixtureVars, recVars
<1>s. ASSUME UNCHANGED <<step, permits>>, ev # "cases" \/ ev' = ev
      PROVE  Throttled' /\ Grounded'
  BY <1>s, <1>t, SameFlight DEF Throttled, Grounded
<1>b. Blank \in CaseResults BY DEF Blank, CaseResults
<1>1. ASSUME NEW a \in Invocations, Begins(a) PROVE Typed'
  <2>1. PICK wrong \in SUBSET Wrongs :
          IF Refusal(a, wrong) = "none"
            THEN /\ ev' = "prompt" /\ exit' = "none" /\ args' = a
                 /\ UNCHANGED <<begun, step, permits, result, saved, rowed, lined, touched>>
            ELSE Ends(Refusal(a, wrong))
    BY <1>1 DEF Begins
  <2>2. Refusal(a, wrong) \in Exits BY DEF Refusal, Exits
  <2>3. UNCHANGED <<fixtureVars, fileVars>> BY <1>1 DEF Begins
  <2>4. CASE Ends(Refusal(a, wrong))
    BY <2>2, <2>3, <2>4, <1>t, EndsKeepsTypes DEF Typed, RunTypeOK, fileVars
  <2>5. CASE Refusal(a, wrong) = "none"
    <3>1. ev = "off" BY <1>1 DEF Begins
    <3> QED BY <2>1, <2>3, <2>5, <3>1, <1>t, <1>f, <1>s
            DEF Typed, RunTypeOK, fileVars, Phases, Exits
  <2> QED BY <2>1, <2>4, <2>5
<1>2. ASSUME NEW a \in Invocations, Republishes(a) PROVE Typed'
  <2>1. PICK code \in Exits : Ends(code)
    BY <1>2 DEF Republishes, Exits
  <2>2. artifacts' \subseteq {"v1", "v2"} /\ published' \subseteq {"v1", "v2"}
    BY <1>2, <1>t DEF Republishes, FromArtifact, AppendsLine, RunTypeOK
  <2> QED BY <1>2, <2>1, <2>2, EndsKeepsTypes DEF Republishes
<1>3. CASE BuildsPipeline
  <2>1. CASE Ends("config")
    BY <1>3, <2>1, <1>t, EndsKeepsTypes DEF BuildsPipeline, RunTypeOK, fileVars, Exits
  <2>2. CASE ev' = "cases" /\ begun' = begun + 1
    <3>1. \/ Ends("config")
          \/ /\ UNCHANGED <<args, base, step, permits, result, rows, saved, rowed, lined, exit>>
             /\ touched' = at
      BY <1>3 DEF BuildsPipeline
    <3>2. at \subseteq Calls BY <1>t DEF FixturesTypeOK
    <3> QED BY <1>3, <2>1, <2>2, <3>1, <3>2, <1>t, <1>f, <1>s
            DEF BuildsPipeline, Typed, RunTypeOK, fileVars, Phases
  <2> QED BY <1>3, <2>1, <2>2 DEF BuildsPipeline
<1>4. ASSUME NEW c \in Cases, CaseStep(c) PROVE Typed'
  <2>1. UNCHANGED OtherThanCase
    BY <1>4 DEF CaseStep, Enters, Consults, ReadsFixture, Decides, TriageFails, JudgeScores,
                JudgeRejected, JudgeCallFails
  <2>2. /\ step' \in [Cases -> Steps] /\ result' \in [Cases -> CaseResults]
        /\ permits' \in 0..Concurrency /\ Throttled'
    BY <1>4, CaseTyped
  <2>3. ev = "cases" \/ step[c] \in InFlight
    BY <1>4 DEF CaseStep, Enters, Consults, ReadsFixture, Decides, TriageFails, JudgeScores,
                JudgeRejected, JudgeCallFails, InFlight
  <2>4. Grounded' BY <2>1, <2>3, <1>t DEF Grounded, Flying, OtherThanCase
  <2> QED BY <2>1, <2>2, <2>4, <1>t, <1>f DEF OtherThanCase, Typed, RunTypeOK, fileVars, Steps
<1>5. CASE Scores
  <2>1. Flying = {} /\ UNCHANGED <<step, permits>> BY <1>5 DEF Scores, Flying, InFlight
  <2>2. Throttled' /\ Grounded' BY <2>1, <1>t, SameFlight DEF Throttled, Grounded
  <2> QED BY <1>5, <2>2, <1>t, <1>f DEF Scores, Typed, RunTypeOK, fileVars, Phases
<1>6. CASE WritesArtifact
  <2>1. CASE Ends("output") /\ UNCHANGED artifacts
    BY <1>6, <2>1, <1>t, EndsKeepsTypes DEF WritesArtifact, RunTypeOK, Exits
  <2>2. CASE /\ ev' = "saved" /\ saved' = begun
             /\ artifacts' = artifacts \cup {args.golden}
             /\ step' = [c \in Cases |-> "waiting"]
             /\ result' = [c \in Cases |-> Blank]
             /\ UNCHANGED <<args, base, begun, permits, rows, rowed, lined, exit, touched>>
    <3>1. Flying = {} BY <1>6, <1>t DEF WritesArtifact, Grounded
    <3>2. permits' = Concurrency
      BY <2>2, <3>1, <1>t, FS_EmptySet, ConcurrencyAssumption DEF Throttled, RunTypeOK
    <3>3. Throttled' /\ permits' \in 0..Concurrency /\ Grounded'
      BY <2>2, <3>2, NobodyFlies DEF Grounded
    <3> QED BY <1>6, <2>2, <3>3, <1>t, <1>f, <1>a, <1>b
            DEF WritesArtifact, Typed, RunTypeOK, Phases, InFlight
  <2> QED BY <1>6, <2>1, <2>2 DEF WritesArtifact
<1>7. CASE WritesRow
  <2>1. CASE Ends("database")
    BY <1>7, <2>1, <1>t, EndsKeepsTypes DEF WritesRow, RunTypeOK, fileVars, Exits
  <2>2. CASE /\ ev' = "rowed" /\ rowed' \in {begun, rowed}
             /\ UNCHANGED <<args, base, begun, step, permits, result, rows, saved, lined, exit, touched>>
    BY <1>7, <2>2, <1>t, <1>f, <1>s DEF WritesRow, Typed, RunTypeOK, fileVars, Phases
  <2> QED BY <1>7, <2>1, <2>2 DEF WritesRow, InsertsRow
<1>8. CASE PublishesLine
  <2>1. CASE Ends("config") /\ UNCHANGED published
    BY <1>8, <2>1, <1>t, EndsKeepsTypes DEF PublishesLine, RunTypeOK, Exits
  <2>2. CASE /\ ev' = "prompt"
             /\ IF args.publish
                  THEN AppendsLine(args.golden) /\ lined' = begun
                  ELSE UNCHANGED <<published, lined>>
             /\ UNCHANGED <<args, base, begun, step, permits, result, rows, saved, rowed, exit, touched>>
    BY <1>8, <2>2, <1>t, <1>f, <1>s, <1>a
       DEF PublishesLine, AppendsLine, Typed, RunTypeOK, Phases
  <2> QED BY <1>8, <2>1, <2>2 DEF PublishesLine
<1>9. CASE Reports
  <2>1. ASSUME NEW code \in {"missing", "all_failed"}, Ends(code) PROVE Typed'
    BY <1>9, <2>1, <1>t, EndsKeepsTypes DEF Reports, RunTypeOK, fileVars, Exits
  <2>2. CASE /\ ev' = "baseline"
             /\ UNCHANGED <<args, base, begun, step, permits, result, rows, saved, rowed, lined, exit, touched>>
    BY <1>9, <2>2, <1>t, <1>f, <1>s DEF Reports, Typed, RunTypeOK, fileVars, Phases
  <2> QED BY <1>9, <2>1, <2>2 DEF Reports
<1>10. CASE WritesBaseline
  BY <1>10, <1>t, <1>f, <1>s DEF WritesBaseline, Typed, RunTypeOK, Phases
<1>11. CASE Gates
  <2>1. PICK code \in {"gate", "ok"} : Ends(code) BY <1>11 DEF Gates
  <2> QED BY <1>11, <2>1, <1>t, EndsKeepsTypes DEF Gates, RunTypeOK, fileVars, Exits
<1>12. CASE Killed
  <2>1. published' \subseteq {"v1", "v2"} BY <1>12, <1>t DEF Killed, RunTypeOK
  <2> QED BY <1>12, <2>1, <1>t, EndsKeepsTypes DEF Killed, RunTypeOK, Exits
<1>13. CASE Records
  <2>1. FixturesTypeOK' BY <1>13, <1>t, RecordTypes DEF Records
  <2>2. touched' \subseteq Calls
    <3>1. at' \subseteq Calls BY <2>1 DEF FixturesTypeOK
    <3> QED BY <1>13, <3>1, <1>t DEF Records, RunTypeOK
  <2> QED BY <1>13, <2>1, <2>2, <1>t, <1>s DEF Records, runVars, fileVars, Typed, RunTypeOK
<1>14. CASE UNCHANGED vars
  BY <1>14, <1>t, <1>f, <1>s DEF vars, runVars, fileVars, Typed, RunTypeOK
<1> QED
  BY <1>1, <1>2, <1>3, <1>4, <1>5, <1>6, <1>7, <1>8, <1>9, <1>10, <1>11, <1>12, <1>13, <1>14
     DEF Next, RunStep
-----------------------------------------------------------------------------
(***************************************************************************)
(* What a case has looked up is held only while it is triaged, and came    *)
(* from a file that has not changed since.  A file that is gone between    *)
(* the look for it and the read was taken back by a record run that had it *)
(* open while the cases ran.                                               *)
(***************************************************************************)
Held ==
  /\ \A c \in Cases : result[c].evidence # "none" => step[c] = "triaging"
  /\ StrictEvidence
  /\ ev = "cases" => at \subseteq touched
  /\ \A c \in Cases : step[c] = "reading" =>
       fixture[CallOf[c]] # "absent" \/ CallOf[c] \in touched

\* No case holds anything it looked up, or is reading.
Idle == \A c \in Cases : result[c].evidence = "none" /\ step[c] # "reading"

LEMMA IdleOnceGrounded ==
  ASSUME Held, Flying = {}
  PROVE  Idle
BY DEF Idle, Held, Flying, InFlight

\* The cases begin anew.
LEMMA EvidenceGone ==
  ASSUME result' = [c \in Cases |-> Blank], step' = [c \in Cases |-> "waiting"],
         ev' # "cases"
  PROVE  Held'
BY DEF Held, StrictEvidence, Blank

LEMMA HeldInductive ==
  ASSUME Typed, RecInv, Held, [Next]_vars
  PROVE  Held'
<1>t. /\ FixturesTypeOK /\ result \in [Cases -> CaseResults] /\ step \in [Cases -> Steps]
      /\ CallOf \in [Cases -> Calls] /\ Grounded
  BY CallsAssumption DEF Typed, RunTypeOK, Steps
<1>e. ASSUME NEW code, Ends(code) PROVE Held' BY <1>e, EvidenceGone DEF Ends
<1>g. ASSUME ev # "cases", UNCHANGED <<result, step>>, ev' = "cases" => at' \subseteq touched'
      PROVE  Held'
  <2>1. Idle BY <1>g, <1>t, IdleOnceGrounded DEF Grounded
  <2>2. Idle' BY <1>g, <2>1 DEF Idle
  <2> QED BY <1>g, <2>2 DEF Idle, Held, StrictEvidence
<1>1. ASSUME NEW a \in Invocations, Begins(a) PROVE Held'
  <2>1. CASE \E code \in {"config", "golden"} : Ends(code) BY <2>1, <1>e
  <2>2. CASE ev' = "prompt" /\ UNCHANGED <<step, result>>
    BY <1>1, <2>2, <1>g DEF Begins
  <2> QED BY <1>1, <2>1, <2>2 DEF Begins, Refusal
<1>2. ASSUME NEW a \in Invocations, Republishes(a) PROVE Held'
  BY <1>2, <1>e DEF Republishes
<1>3. CASE BuildsPipeline
  BY <1>3, <1>e, <1>g DEF BuildsPipeline, fixtureVars, recVars
<1>4. ASSUME NEW c \in Cases, CaseStep(c) PROVE Held'
  <2>0. UNCHANGED <<fixture, at, killed, touched, ev, args>>
    BY <1>4 DEF CaseStep, Enters, Consults, ReadsFixture, Decides, TriageFails, JudgeScores,
                JudgeRejected, JudgeCallFails, OtherThanCase, fixtureVars, recVars
  <2>d. ASSUME NEW d \in Cases, d # c
        PROVE  result'[d] = result[d] /\ step'[d] = step[d]
    BY <1>4, <2>d, <1>t DEF CaseStep, Enters, Consults, ReadsFixture, Decides, TriageFails, JudgeScores,
                            JudgeRejected, JudgeCallFails, Takes, Goes, Leaves
  <2>k. ASSUME result'[c].evidence = "none", step'[c] # "reading"
        PROVE  Held'
    BY <2>0, <2>d, <2>k DEF Held, StrictEvidence
  <2>r. ASSUME step[c] \in {"triaging", "reading"}, result[c].evidence = "none",
               result' = [result EXCEPT ![c].error = "fixture"], Leaves(c)
        PROVE  Held'
    <3>1. result'[c].evidence = "none" BY <2>r, <1>t DEF CaseResults
    <3>2. step'[c] = "done" BY <2>r, <1>t DEF Leaves
    <3> QED BY <3>1, <3>2, <2>k
  <2>1. CASE Enters(c)
    <3>1. result[c].evidence = "none" BY <2>1 DEF Enters, Held
    <3>2. result' = result /\ step'[c] = "triaging" BY <2>1, <1>t DEF Enters
    <3> QED BY <3>1, <3>2, <2>k
  <2>2. CASE Consults(c)
    <3>1. step[c] = "triaging" /\ result[c].evidence = "none" BY <2>2 DEF Consults
    <3>2. CASE Exists(CallOf[c])
      <4>1. step'[c] = "reading" /\ result' = result BY <2>2, <3>2, <1>t DEF Consults, Goes
      <4>2. fixture[CallOf[c]] # "absent" BY <3>2 DEF Exists
      <4> QED BY <2>0, <2>d, <3>1, <4>1, <4>2 DEF Held, StrictEvidence
    <3>3. CASE ~Exists(CallOf[c]) /\ Strict(args)
      BY <2>2, <3>1, <3>3, <2>r DEF Consults, Missing, Takes
    <3>4. CASE ~Exists(CallOf[c]) /\ ~Strict(args)
      <4>1. result' = [result EXCEPT ![c].evidence = "unavailable"] /\ Goes(c, "triaging")
        BY <2>2, <3>4 DEF Consults, Missing, Takes
      <4>2. step'[c] = "triaging" BY <4>1, <1>t DEF Goes
      <4>3. ~Strict(args)' BY <2>0, <3>4 DEF Strict
      <4> QED BY <2>0, <2>d, <4>2, <4>3 DEF Held, StrictEvidence
    <3> QED BY <3>2, <3>3, <3>4
  <2>6. CASE ReadsFixture(c)
    <3> DEFINE k == CallOf[c]
               served == Replays(k, Strict(args))
    <3>1. step[c] = "reading" /\ k \in Calls BY <2>6, <1>t DEF ReadsFixture
    <3>2. result[c].evidence = "none" BY <3>1 DEF Held
    <3>3. CASE served = "raise" BY <2>6, <3>1, <3>2, <3>3, <2>r DEF ReadsFixture, Takes
    <3>4. CASE served # "raise"
      <4>1. result' = [result EXCEPT ![c].evidence = served] /\ Goes(c, "triaging")
        BY <2>6, <3>4 DEF ReadsFixture, Takes
      <4>2. Strict(args) => served # "poison" BY DEF Replays
      <4>3. served = "answer" => fixture[k] = "answer" BY DEF Replays
      <4>4. served = "unavailable" => fixture[k] \in {"absent", "partial"}
        BY <3>1, <1>t DEF Replays, FixturesTypeOK, Results
      <4>5. ev = "cases" BY <3>1, <1>t DEF Grounded, Flying, InFlight
      <4>6. fixture[k] = "partial" => k \in touched \/ killed
        BY <3>1, <4>5 DEF Held, RecInv, RecordedIsReplayable
      <4>7. fixture[k] = "absent" => k \in touched BY <3>1 DEF Held
      <4> HIDE DEF served
      <4>8. step'[c] = "triaging" /\ result'[c].evidence = served
        BY <4>1, <1>t DEF Goes, CaseResults
      <4>9. Strict(args)' = Strict(args) BY <2>0 DEF Strict
      <4> QED BY <2>0, <2>d, <4>2, <4>3, <4>4, <4>6, <4>7, <4>8, <4>9
              DEF Held, StrictEvidence
    <3> QED BY <3>3, <3>4
  <2>3. CASE Decides(c)
    <3>1. result'[c].evidence = "none" BY <2>3, <1>t DEF Decides, CaseResults
    <3>2. step'[c] # "reading" BY <2>3, <1>t DEF Decides, Goes, Leaves
    <3> QED BY <3>1, <3>2, <2>k
  <2>4. CASE TriageFails(c)
    <3>1. result'[c].evidence = "none" BY <2>4, <1>t DEF TriageFails, Blank
    <3>2. step'[c] # "reading" BY <2>4, <1>t DEF TriageFails, Leaves
    <3> QED BY <3>1, <3>2, <2>k
  <2>5. CASE JudgeScores(c) \/ JudgeRejected(c) \/ JudgeCallFails(c)
    <3>1. result[c].evidence = "none"
      BY <2>5 DEF JudgeScores, JudgeRejected, JudgeCallFails, Held
    <3>2. result'[c].evidence = result[c].evidence
      <4>1. CASE JudgeScores(c) BY <4>1, <1>t DEF JudgeScores, CaseResults
      <4>2. CASE JudgeRejected(c) BY <4>2, <1>t DEF JudgeRejected, CaseResults
      <4>3. CASE JudgeCallFails(c) BY <4>3, <1>t DEF JudgeCallFails, CaseResults
      <4> QED BY <2>5, <4>1, <4>2, <4>3
    <3>3. step'[c] # "reading"
      BY <2>5, <1>t DEF JudgeScores, JudgeRejected, JudgeCallFails, Goes, Leaves
    <3> QED BY <3>1, <3>2, <3>3, <2>k
  <2> QED BY <1>4, <2>1, <2>2, <2>3, <2>4, <2>5, <2>6 DEF CaseStep
<1>5. CASE Scores
  <2>1. Flying = {} BY <1>5 DEF Scores, Flying, InFlight
  <2>2. Idle BY <2>1, IdleOnceGrounded
  <2>3. Idle' BY <1>5, <2>2 DEF Scores, Idle
  <2> QED BY <1>5, <2>3 DEF Scores, Idle, Held, StrictEvidence
<1>6. CASE WritesArtifact BY <1>6, <1>e, EvidenceGone DEF WritesArtifact
<1>7. CASE WritesRow BY <1>7, <1>e, <1>g DEF WritesRow
<1>8. CASE PublishesLine BY <1>8, <1>e, <1>g DEF PublishesLine
<1>9. CASE Reports BY <1>9, <1>e, <1>g DEF Reports
<1>10. CASE WritesBaseline BY <1>10, <1>g DEF WritesBaseline
<1>11. CASE Gates BY <1>11, <1>e DEF Gates
<1>12. CASE Killed BY <1>12, <1>e DEF Killed
<1>13. CASE Records
  <2>1. UNCHANGED <<result, step, args, ev>> BY <1>13 DEF Records, runVars
  <2>2. CASE ev # "cases" BY <2>1, <2>2, <1>g
  <2>3. CASE ev = "cases"
    <3>1. touched' = touched \cup at' /\ at \subseteq touched BY <1>13, <2>3 DEF Records, Held
    <3>2. \A k \in Calls :
            /\ fixture[k] = "answer" => fixture'[k] = "answer"
            /\ fixture[k] = "partial" /\ k \notin at => fixture'[k] = "partial"
            /\ fixture[k] # "absent" /\ k \notin at => fixture'[k] # "absent"
            /\ killed => killed'
      BY <1>13, <1>t, OthersStay DEF Records
    <3>3. Strict(args)' = Strict(args) BY <2>1 DEF Strict
    <3>4. ASSUME NEW c \in Cases
          PROVE  CallOf[c] \in Calls
      BY <1>t
    <3> QED BY <2>1, <2>3, <3>1, <3>2, <3>3, <3>4 DEF Held, StrictEvidence
  <2> QED BY <2>2, <2>3
<1>14. CASE UNCHANGED vars
  BY <1>14 DEF vars, runVars, fixtureVars, recVars, Held, StrictEvidence, Strict
<1> QED
  BY <1>1, <1>2, <1>3, <1>4, <1>5, <1>6, <1>7, <1>8, <1>9, <1>10, <1>11, <1>12, <1>13, <1>14
     DEF Next, RunStep
-----------------------------------------------------------------------------
\* Only the record run writes fixtures.
LEMMA RecordKeeps ==
  ASSUME Typed, RecInv, [Next]_vars
  PROVE  RecInv'
<1>1. CASE RecordStep
  BY <1>1, RecordInductive DEF Typed, RunTypeOK
<1>2. CASE UNCHANGED fixtureVars
  BY <1>2 DEF fixtureVars, recVars, RecInv, RecordedIsReplayable
<1>3. ASSUME NEW c \in Cases, CaseStep(c) PROVE UNCHANGED fixtureVars
  BY <1>3 DEF CaseStep, Enters, Consults, ReadsFixture, Decides, TriageFails, JudgeScores,
              JudgeRejected, JudgeCallFails, OtherThanCase
<1>4. ASSUME RunStep PROVE UNCHANGED fixtureVars
  BY <1>3, <1>4 DEF RunStep, BuildsPipeline, Scores, WritesArtifact, WritesRow,
                    PublishesLine, Reports, WritesBaseline, Gates
<1> QED BY <1>1, <1>2, <1>4 DEF Next, Records, vars, Begins, Republishes, Killed

\* The result file of a prompt is written before anything that refers to it.
LEMMA SpendInductive ==
  ASSUME Typed, SpendIsOnDisk, [Next]_vars
  PROVE  SpendIsOnDisk'
<1>t. begun \in Nat /\ saved \in Nat /\ rowed \in Nat /\ lined \in Nat
  BY DEF Typed, RunTypeOK
<1>e. ASSUME NEW code, Ends(code) PROVE SpendIsOnDisk' BY <1>e DEF Ends, SpendIsOnDisk
<1>s. ASSUME UNCHANGED <<ev, args, begun, saved, rowed, lined>> PROVE SpendIsOnDisk'
  BY <1>s DEF SpendIsOnDisk
<1>1. ASSUME NEW a \in Invocations, Begins(a) PROVE SpendIsOnDisk'
  <2>1. CASE \E code \in {"config", "golden"} : Ends(code) BY <2>1, <1>e
  <2>2. CASE ev' = "prompt" /\ UNCHANGED <<begun, saved, rowed, lined>>
    BY <1>1, <2>2, <1>t DEF Begins, SpendIsOnDisk
  <2> QED BY <1>1, <2>1, <2>2 DEF Begins, Refusal
<1>2. ASSUME NEW a \in Invocations, Republishes(a) PROVE SpendIsOnDisk'
  BY <1>2, <1>e DEF Republishes
<1>3. CASE BuildsPipeline BY <1>3, <1>e, <1>t DEF BuildsPipeline, SpendIsOnDisk
<1>4. ASSUME NEW c \in Cases, CaseStep(c) PROVE SpendIsOnDisk'
  BY <1>4, <1>s DEF CaseStep, Enters, Consults, ReadsFixture, Decides, TriageFails, JudgeScores,
                    JudgeRejected, JudgeCallFails, OtherThanCase
<1>5. CASE Scores BY <1>5, <1>t DEF Scores, SpendIsOnDisk
<1>6. CASE WritesArtifact BY <1>6, <1>e, <1>t DEF WritesArtifact, SpendIsOnDisk
<1>7. CASE WritesRow BY <1>7, <1>e, <1>t DEF WritesRow, InsertsRow, SpendIsOnDisk
<1>8. CASE PublishesLine BY <1>8, <1>e, <1>t DEF PublishesLine, SpendIsOnDisk
<1>9. CASE Reports BY <1>9, <1>e, <1>t DEF Reports, SpendIsOnDisk
<1>10. CASE WritesBaseline BY <1>10, <1>t DEF WritesBaseline, SpendIsOnDisk
<1>11. CASE Gates BY <1>11, <1>e DEF Gates
<1>12. CASE Killed BY <1>12, <1>e DEF Killed
<1>13. CASE Records BY <1>13, <1>s DEF Records, runVars
<1>14. CASE UNCHANGED vars BY <1>14, <1>s DEF vars, runVars
<1> QED
  BY <1>1, <1>2, <1>3, <1>4, <1>5, <1>6, <1>7, <1>8, <1>9, <1>10, <1>11, <1>12, <1>13, <1>14
     DEF Next, RunStep

(***************************************************************************)
(* A run that was let begin with --publish or --write-baseline is over a   *)
(* v2 golden set.                                                          *)
(***************************************************************************)
Honest ==
  /\ ev # "off" /\ (args.publish \/ args.write) => args.golden = "v2"
  /\ SyntheticUnpublished

LEMMA HonestInductive ==
  ASSUME Honest, [Next]_vars
  PROVE  Honest'
<1>e. ASSUME NEW code, Ends(code), SyntheticUnpublished' PROVE Honest'
  BY <1>e DEF Ends, Honest
<1>s. ASSUME UNCHANGED <<published, baseline>> PROVE SyntheticUnpublished'
  BY <1>s DEF Honest, SyntheticUnpublished
<1>r. ASSUME UNCHANGED <<args, published, baseline>>, ev # "off" PROVE Honest'
  BY <1>r, <1>s DEF Honest
<1>1. ASSUME NEW a \in Invocations, Begins(a) PROVE Honest'
  <2>1. UNCHANGED <<published, baseline>> BY <1>1 DEF Begins, fileVars
  <2>2. PICK wrong \in SUBSET Wrongs :
          IF Refusal(a, wrong) = "none" THEN args' = a ELSE Ends(Refusal(a, wrong))
    BY <1>1 DEF Begins
  <2>3. CASE Refusal(a, wrong) = "none"
    <3>1. a.publish \/ a.write => a.golden = "v2" BY <2>3 DEF Refusal
    <3> QED BY <2>1, <2>2, <2>3, <3>1, <1>s DEF Honest
  <2> QED BY <2>1, <2>2, <2>3, <1>s, <1>e
<1>2. ASSUME NEW a \in Invocations, Republishes(a) PROVE Honest'
  BY <1>2, <1>e DEF Republishes, FromArtifact, AppendsLine, Honest, SyntheticUnpublished
<1>3. CASE BuildsPipeline BY <1>3, <1>e, <1>s, <1>r DEF BuildsPipeline, fileVars
<1>4. ASSUME NEW c \in Cases, CaseStep(c) PROVE Honest'
  <2>1. UNCHANGED <<ev, args, published, baseline>>
    BY <1>4 DEF CaseStep, Enters, Consults, ReadsFixture, Decides, TriageFails, JudgeScores,
                JudgeRejected, JudgeCallFails, OtherThanCase, fileVars
  <2> QED BY <2>1, <1>s DEF Honest
<1>5. CASE Scores BY <1>5, <1>r DEF Scores, fileVars
<1>6. CASE WritesArtifact BY <1>6, <1>e, <1>s, <1>r DEF WritesArtifact
<1>7. CASE WritesRow BY <1>7, <1>e, <1>s, <1>r DEF WritesRow, fileVars
<1>8. CASE PublishesLine
  <2>1. CASE UNCHANGED published BY <1>8, <2>1, <1>e, <1>s, <1>r DEF PublishesLine
  <2>2. CASE args.publish /\ AppendsLine(args.golden) /\ UNCHANGED args
    BY <1>8, <2>2 DEF PublishesLine, AppendsLine, Honest, SyntheticUnpublished
  <2> QED BY <1>8, <2>1, <2>2 DEF PublishesLine
<1>9. CASE Reports BY <1>9, <1>e, <1>s, <1>r DEF Reports, fileVars
<1>10. CASE WritesBaseline
  BY <1>10 DEF WritesBaseline, Recorded, Honest, SyntheticUnpublished
<1>11. CASE Gates BY <1>11, <1>e, <1>s DEF Gates, fileVars
<1>12. CASE Killed
  <2>1. SyntheticUnpublished'
    <3>1. CASE UNCHANGED <<published, baseline>> BY <3>1, <1>s
    <3>2. CASE published' = {} /\ UNCHANGED baseline
      BY <3>2 DEF Honest, SyntheticUnpublished
    <3>3. CASE baseline' = TornBaseline /\ UNCHANGED published
      BY <3>3 DEF TornBaseline, Honest, SyntheticUnpublished
    <3> QED BY <1>12, <3>1, <3>2, <3>3 DEF Killed
  <2> QED BY <1>12, <2>1, <1>e DEF Killed
<1>13. CASE Records
  BY <1>13, <1>s DEF Records, runVars, fileVars, Honest
<1>14. CASE UNCHANGED vars BY <1>14, <1>s DEF vars, runVars, fileVars, Honest
<1> QED
  BY <1>1, <1>2, <1>3, <1>4, <1>5, <1>6, <1>7, <1>8, <1>9, <1>10, <1>11, <1>12, <1>13, <1>14
     DEF Next, RunStep

-----------------------------------------------------------------------------
(***************************************************************************)
(* Sums over finite sets.  A property of all subsets that fails, fails for *)
(* a minimal one, which is how the sums below are reasoned about.          *)
(***************************************************************************)
\* Of the subsets of a finite set that have something, one has no smaller.
LEMMA MinimalSubset ==
  ASSUME NEW S, IsFiniteSet(S), NEW B \in SUBSET (SUBSET S), B # {}
  PROVE  \E T \in B : \A U \in B : U \subseteq T => U = T
<1>1. FiniteSubsetsOf(S) = SUBSET S BY FS_FiniteSubsetsOfFinite
<1>2. IsWellFoundedOn(StrictSubsetOrdering(S), SUBSET S)
  BY <1>1, FS_StrictSubsetOrderingWellFounded
<1>3. PICK T \in B : \A U \in B : ~(<<U, T>> \in StrictSubsetOrdering(S))
  BY <1>2, WFMin
<1>4. ASSUME NEW U \in B, U \subseteq T, U # T PROVE FALSE
  <2>1. <<U, T>> \in (SUBSET S) \X (SUBSET S) OBVIOUS
  <2>2. <<U, T>> \in StrictSubsetOrdering(S) BY <1>4, <2>1 DEF StrictSubsetOrdering
  <2> QED BY <1>3, <2>2
<1> QED BY <1>3, <1>4

Pick(s) == CHOOSE x \in s : TRUE

\* g adds up w over the subsets of D.
SumsUp(w, g, D) ==
  \A s \in SUBSET D : g[s] = IF s = {} THEN 0 ELSE w[Pick(s)] + g[s \ {Pick(s)}]

LEMMA PickIn ==
  ASSUME NEW s, s # {}
  PROVE  Pick(s) \in s /\ s \ {Pick(s)} \subseteq s /\ s \ {Pick(s)} # s
<1>1. Pick(s) \in s BY DEF Pick
<1> QED BY <1>1

\* ... in one way.
LEMMA SumsUpUnique ==
  ASSUME NEW D, IsFiniteSet(D), NEW w, NEW g, NEW h, SumsUp(w, g, D), SumsUp(w, h, D)
  PROVE  \A s \in SUBSET D : g[s] = h[s]
<1> DEFINE B == {s \in SUBSET D : g[s] # h[s]}
<1> SUFFICES ASSUME B # {} PROVE FALSE OBVIOUS
<1>0. B \in SUBSET (SUBSET D) OBVIOUS
<1>1. PICK s \in B : \A U \in B : U \subseteq s => U = s
  <2> HIDE DEF B
  <2> QED BY <1>0, MinimalSubset
<1>2. s \in SUBSET D /\ g[s] # h[s] OBVIOUS
<1>3. CASE s = {} BY <1>2, <1>3 DEF SumsUp
<1>4. CASE s # {}
  <2> DEFINE t == s \ {Pick(s)}
  <2>1. t \in SUBSET D /\ t \subseteq s /\ t # s BY <1>2, <1>4, PickIn
  <2>2. g[t] = h[t] BY <1>1, <2>1
  <2>3. g[s] = w[Pick(s)] + g[t] /\ h[s] = w[Pick(s)] + h[t] BY <1>2, <1>4 DEF SumsUp
  <2> HIDE DEF t
  <2> QED BY <1>2, <2>2, <2>3
<1> QED BY <1>3, <1>4

\* ... and there is one.
LEMMA SumsUpExists ==
  ASSUME NEW D, IsFiniteSet(D), NEW w
  PROVE  \E g : SumsUp(w, g, D)
<1> DEFINE B == {T \in SUBSET D : ~ \E g : SumsUp(w, g, T)}
<1>0. B = {} => D \notin B OBVIOUS
<1> SUFFICES ASSUME B # {} PROVE FALSE BY <1>0
<1>b. B \in SUBSET (SUBSET D) OBVIOUS
<1>1. PICK T \in B : \A U \in B : U \subseteq T => U = T
  <2> HIDE DEF B
  <2> QED BY <1>b, MinimalSubset
<1>2. T \in SUBSET D /\ ~ \E g : SumsUp(w, g, T) OBVIOUS
<1>3. T # {}
  <2>1. SumsUp(w, [s \in SUBSET D |-> 0], {}) BY DEF SumsUp
  <2> QED BY <1>2, <2>1
<1> DEFINE F(U) == CHOOSE g : SumsUp(w, g, U)
<1>4. ASSUME NEW U \in SUBSET T, U # T PROVE SumsUp(w, F(U), U)
  <2>1. U \in SUBSET D /\ U \notin B BY <1>1, <1>2, <1>4
  <2>2. \E g : SumsUp(w, g, U) BY <2>1
  <2> QED BY <2>2
<1> DEFINE P == T \ {Pick(T)}
           G == [s \in SUBSET D |-> IF s = T THEN w[Pick(T)] + F(P)[P] ELSE F(s)[s]]
<1>5. P \in SUBSET T /\ P # T BY <1>3, PickIn
<1>6. ASSUME NEW s \in SUBSET T, s # T
      PROVE  G[s] = F(s)[s]
  BY <1>2, <1>6
<1>7. G[T] = w[Pick(T)] + G[P]
  <2>1. G[P] = F(P)[P] BY <1>5, <1>6
  <2>2. G[T] = w[Pick(T)] + F(P)[P] BY <1>2
  <2> QED BY <2>1, <2>2
<1> HIDE DEF G
<1>8. ASSUME NEW s \in SUBSET T, s # T, s # {}
      PROVE  G[s] = w[Pick(s)] + G[s \ {Pick(s)}]
  <2> DEFINE t == s \ {Pick(s)}
  <2>1. t \in SUBSET s /\ t # s /\ t \in SUBSET T /\ t # T BY <1>8, PickIn
  <2>2. SumsUp(w, F(s), s) /\ SumsUp(w, F(t), t) BY <1>4, <1>8, <2>1
  <2>3. IsFiniteSet(t) BY <1>2, <2>1, FS_Subset
  <2>4. SumsUp(w, F(s), t) BY <2>1, <2>2 DEF SumsUp
  <2> HIDE DEF F
  <2>5. F(s)[t] = F(t)[t] BY <2>2, <2>3, <2>4, SumsUpUnique
  <2>6. F(s)[s] = w[Pick(s)] + F(s)[t] BY <1>8, <2>2 DEF SumsUp
  <2>7. G[s] = F(s)[s] /\ G[t] = F(t)[t] BY <1>6, <1>8, <2>1
  <2> HIDE DEF t
  <2>8. G[s] = w[Pick(s)] + G[t] BY <2>5, <2>6, <2>7
  <2> QED BY <2>8 DEF t
<1>9. G[{}] = 0
  <2>1. SumsUp(w, F({}), {}) BY <1>3, <1>4
  <2> HIDE DEF F
  <2>2. F({})[{}] = 0 BY <2>1 DEF SumsUp
  <2> QED BY <1>3, <1>6, <2>2
<1>10. SumsUp(w, G, T)
  <2> SUFFICES ASSUME NEW s \in SUBSET T
               PROVE  G[s] = IF s = {} THEN 0 ELSE w[Pick(s)] + G[s \ {Pick(s)}]
    BY DEF SumsUp
  <2> QED BY <1>3, <1>7, <1>8, <1>9
<1> QED BY <1>2, <1>10

\* SumFunction is such a sum.
LEMMA SumOf ==
  ASSUME NEW f, IsFiniteSet(DOMAIN f)
  PROVE  \E g : SumsUp(f, g, DOMAIN f) /\ SumFunction(f) = g[DOMAIN f]
<1> DEFINE D == DOMAIN f
<1>1. PICK h : SumsUp(f, h, D) BY SumsUpExists
<1> DEFINE k == [s \in SUBSET D |-> h[s]]
           Body(g) == [s \in SUBSET D |-> IF s = {} THEN 0 ELSE f[Pick(s)] + g[s \ {Pick(s)}]]
<1>2. ASSUME NEW s \in SUBSET D
      PROVE  k[s] = IF s = {} THEN 0 ELSE f[Pick(s)] + k[s \ {Pick(s)}]
  <2>1. CASE s = {} BY <1>1, <2>1 DEF SumsUp
  <2>2. CASE s # {}
    <3>1. s \ {Pick(s)} \in SUBSET D OBVIOUS
    <3>2. h[s] = f[Pick(s)] + h[s \ {Pick(s)}] BY <1>1, <2>2 DEF SumsUp
    <3> QED BY <2>2, <3>1, <3>2
  <2> QED BY <2>1, <2>2
<1>3. k = Body(k)
  <2>1. k = [s \in SUBSET D |-> k[s]] OBVIOUS
  <2> HIDE DEF k
  <2> QED BY <1>2, <2>1
<1> HIDE DEF k
<1> DEFINE it == CHOOSE g : g = Body(g)
<1>4. it = Body(it) BY <1>3
<1>5. SumFunction(f) = it[D]
  BY DEF SumFunction, SumFunctionOnSet, FoldFunctionOnSet, MapThenFoldSet, Pick
<1> HIDE DEF it
<1>6. SumsUp(f, it, D)
  <2>1. \A s \in SUBSET D : it[s] = Body(it)[s] BY <1>4
  <2> QED BY <2>1 DEF SumsUp
<1> QED BY <1>5, <1>6

\* A sum of natural numbers is one.
LEMMA SumNat ==
  ASSUME NEW D, IsFiniteSet(D), NEW f \in [D -> Nat]
  PROVE  SumFunction(f) \in Nat
<1>1. PICK g : SumsUp(f, g, D) /\ SumFunction(f) = g[D] BY SumOf
<1> DEFINE B == {s \in SUBSET D : g[s] \notin Nat}
<1>0. B = {} => SumFunction(f) \in Nat BY <1>1
<1> SUFFICES ASSUME B # {} PROVE FALSE BY <1>0
<1>b. B \in SUBSET (SUBSET D) OBVIOUS
<1>2. PICK s \in B : \A U \in B : U \subseteq s => U = s
  <2> HIDE DEF B
  <2> QED BY <1>b, MinimalSubset
<1>3. s \in SUBSET D /\ g[s] \notin Nat OBVIOUS
<1>4. CASE s = {}
  <2>1. g[s] = 0 BY <1>1, <1>3, <1>4 DEF SumsUp
  <2> HIDE DEF B
  <2> QED BY <1>3, <2>1
<1>5. CASE s # {}
  <2> DEFINE t == s \ {Pick(s)}
  <2>1. t \in SUBSET D /\ t \subseteq s /\ t # s /\ Pick(s) \in D BY <1>3, <1>5, PickIn
  <2>2. g[t] \in Nat BY <1>2, <2>1
  <2>3. g[s] = f[Pick(s)] + g[t] BY <1>1, <1>3, <1>5 DEF SumsUp
  <2>4. f[Pick(s)] \in Nat BY <2>1
  <2> HIDE DEF t
  <2> QED BY <1>3, <2>2, <2>3, <2>4
<1> QED BY <1>4, <1>5

\* It is at least the number of those that are something, and of numbers up
\* to 2 at most twice the number of those that may be.
LEMMA SumBounds ==
  ASSUME NEW D, IsFiniteSet(D), NEW f \in [D -> 0..2], NEW J \in SUBSET D, NEW K \in SUBSET D,
         \A d \in J : f[d] # 0, \A d \in D \ K : f[d] = 0
  PROVE  Cardinality(J) <= SumFunction(f) /\ SumFunction(f) <= 2 * Cardinality(K)
<1>1. PICK g : SumsUp(f, g, D) /\ SumFunction(f) = g[D] BY SumOf
<1> DEFINE Bounded(s) == /\ g[s] \in Nat /\ Cardinality(J \cap s) <= g[s]
                         /\ g[s] <= 2 * Cardinality(K \cap s)
           B == {s \in SUBSET D : ~Bounded(s)}
<1>0. B = {} => Cardinality(J) <= SumFunction(f) /\ SumFunction(f) <= 2 * Cardinality(K)
  <2>1. J \cap D = J /\ K \cap D = K OBVIOUS
  <2>2. B = {} => Bounded(D) OBVIOUS
  <2> QED BY <1>1, <2>1, <2>2
<1> SUFFICES ASSUME B # {} PROVE FALSE BY <1>0
<1>b. B \in SUBSET (SUBSET D) OBVIOUS
<1>2. PICK s \in B : \A U \in B : U \subseteq s => U = s
  <2> HIDE DEF B
  <2> QED BY <1>b, MinimalSubset
<1>3. s \in SUBSET D /\ ~Bounded(s) OBVIOUS
<1>4. CASE s = {}
  <2>1. J \cap s = {} /\ K \cap s = {} BY <1>4
  <2>2. g[s] = 0 BY <1>1, <1>3, <1>4 DEF SumsUp
  <2>3. Cardinality(J \cap s) = 0 /\ Cardinality(K \cap s) = 0 BY <2>1, FS_EmptySet
  <2>4. Bounded(s)
    <3> HIDE DEF B
    <3> QED BY <2>2, <2>3
  <2> QED BY <1>3, <2>4
<1>5. CASE s # {}
  <2> DEFINE x == Pick(s)
             t == s \ {x}
  <2>1. t \in SUBSET D /\ t \subseteq s /\ t # s /\ x \in D /\ x \in s BY <1>3, <1>5, PickIn
  <2>2. Bounded(t) BY <1>2, <2>1
  <2>3. g[s] = f[x] + g[t] BY <1>1, <1>3, <1>5 DEF SumsUp
  <2>4. f[x] \in 0..2 /\ (x \in J => f[x] # 0) /\ (x \notin K => f[x] = 0) BY <2>1
  <2>5. J \cap s = IF x \in J THEN (J \cap t) \cup {x} ELSE J \cap t BY <2>1
  <2>6. K \cap s = IF x \in K THEN (K \cap t) \cup {x} ELSE K \cap t BY <2>1
  <2>7. x \notin J \cap t /\ x \notin K \cap t OBVIOUS
  <2>8. IsFiniteSet(J \cap t) /\ IsFiniteSet(K \cap t) BY <2>1, FS_Subset
  <2> HIDE DEF t, x
  <2>9. Cardinality(J \cap t) \in Nat /\ Cardinality(K \cap t) \in Nat BY <2>8, FS_CardinalityType
  <2>10. Cardinality(J \cap s) = IF x \in J THEN Cardinality(J \cap t) + 1 ELSE Cardinality(J \cap t)
    BY <2>5, <2>7, <2>8, FS_AddElement
  <2>11. Cardinality(K \cap s) = IF x \in K THEN Cardinality(K \cap t) + 1 ELSE Cardinality(K \cap t)
    BY <2>6, <2>7, <2>8, FS_AddElement
  <2> QED BY <1>3, <2>2, <2>3, <2>4, <2>9, <2>10, <2>11
<1> QED BY <1>4, <1>5

\* Counted by a key, each that has one of the keys is counted once.
LEMMA CountedByKey ==
  ASSUME NEW C, IsFiniteSet(C), NEW D, IsFiniteSet(D), NEW key,
         NEW f, DOMAIN f = D, \A v \in D : f[v] = Cardinality({c \in C : key[c] = v})
  PROVE  SumFunction(f) = Cardinality({c \in C : key[c] \in D})
<1>1. PICK g : SumsUp(f, g, D) /\ SumFunction(f) = g[D] BY SumOf
<1> DEFINE Of(s) == {c \in C : key[c] \in s}
           B == {s \in SUBSET D : g[s] # Cardinality(Of(s))}
<1>0. B = {} => SumFunction(f) = Cardinality(Of(D)) BY <1>1
<1> SUFFICES ASSUME B # {} PROVE FALSE BY <1>0
<1>b. B \in SUBSET (SUBSET D) OBVIOUS
<1>2. PICK s \in B : \A U \in B : U \subseteq s => U = s
  <2> HIDE DEF B
  <2> QED BY <1>b, MinimalSubset
<1>3. s \in SUBSET D /\ g[s] # Cardinality(Of(s)) OBVIOUS
<1>4. CASE s = {}
  <2>1. Of(s) = {} BY <1>4
  <2>2. g[s] = 0 BY <1>1, <1>3, <1>4 DEF SumsUp
  <2> QED BY <1>3, <2>1, <2>2, FS_EmptySet
<1>5. CASE s # {}
  <2> DEFINE x == Pick(s)
             t == s \ {x}
             X == {c \in C : key[c] = x}
  <2>1. t \in SUBSET D /\ t \subseteq s /\ t # s /\ x \in D /\ x \in s BY <1>3, <1>5, PickIn
  <2>2. g[t] = Cardinality(Of(t)) BY <1>2, <2>1
  <2>3. g[s] = f[x] + g[t] BY <1>1, <1>3, <1>5 DEF SumsUp
  <2>4. f[x] = Cardinality(X) BY <2>1
  <2>5. Of(s) = Of(t) \cup X /\ Of(t) \cap X = {} BY <2>1
  <2>6. IsFiniteSet(Of(t)) /\ IsFiniteSet(X) BY FS_Subset
  <2> HIDE DEF t, x, X, Of
  <2>7. Cardinality(Of(s)) = Cardinality(Of(t)) + Cardinality(X) - Cardinality({})
    BY <2>5, <2>6, FS_Union
  <2>8. Cardinality(Of(t)) \in Nat /\ Cardinality(X) \in Nat /\ Cardinality({}) = 0
    BY <2>6, FS_CardinalityType, FS_EmptySet
  <2> QED BY <1>3, <2>2, <2>3, <2>4, <2>7, <2>8
<1> QED BY <1>4, <1>5

-----------------------------------------------------------------------------
(***************************************************************************)
(* percentile: the cases in the order of their costs, by their ranks.      *)
(***************************************************************************)
\* A case that comes after another has more cases up to it.
LEMMA CostRankGrows ==
  ASSUME NEW r, \A x \in Cases : r[x].cost \in Nat, NEW c \in Cases, NEW d \in Cases,
         r[c].cost < r[d].cost \/ (r[c].cost = r[d].cost /\ c < d)
  PROVE  Cardinality(UpTo(r, c)) < Cardinality(UpTo(r, d))
<1>0. \A x \in Cases : x \in Nat BY CasesAssumption
<1>1. d \in UpTo(r, d) /\ d \notin UpTo(r, c) BY <1>0 DEF UpTo
<1>2. UpTo(r, c) \subseteq UpTo(r, d)
  <2> SUFFICES ASSUME NEW x \in UpTo(r, c) PROVE x \in UpTo(r, d) OBVIOUS
  <2>1. x \in Cases /\ (r[x].cost < r[c].cost \/ (r[x].cost = r[c].cost /\ x <= c))
    BY DEF UpTo
  <2>2. r[x].cost \in Nat /\ r[c].cost \in Nat /\ r[d].cost \in Nat BY <2>1
  <2>3. x \in Nat /\ c \in Nat /\ d \in Nat BY <1>0, <2>1
  <2>4. r[x].cost < r[d].cost \/ (r[x].cost = r[d].cost /\ x <= d) BY <2>1, <2>2, <2>3
  <2> QED BY <2>1, <2>4 DEF UpTo
<1>3. UpTo(r, d) \subseteq Cases BY DEF UpTo
<1>4. IsFiniteSet(UpTo(r, d)) BY <1>3, CasesAssumption, FS_Subset
<1>5. /\ IsFiniteSet(UpTo(r, c)) /\ Cardinality(UpTo(r, c)) <= Cardinality(UpTo(r, d))
      /\ Cardinality(UpTo(r, d)) # Cardinality(UpTo(r, c))
  BY <1>1, <1>2, <1>4, FS_Subset
<1>6. Cardinality(UpTo(r, c)) \in Nat /\ Cardinality(UpTo(r, d)) \in Nat
  BY <1>4, <1>5, FS_CardinalityType
<1> QED BY <1>5, <1>6

\* Every rank from 1 to the number of cases is that of some case.
LEMMA CostRankOnto ==
  ASSUME NEW r, \A x \in Cases : r[x].cost \in Nat
  PROVE  \A i \in 1..Cardinality(Cases) : \E c \in Cases : Cardinality(UpTo(r, c)) = i
<1> DEFINE n == Cardinality(Cases)
           rank == [c \in Cases |-> Cardinality(UpTo(r, c))]
<1>0. \A x \in Cases : x \in Nat BY CasesAssumption
<1>1. n \in Nat BY CasesAssumption, FS_CardinalityType
<1>2. ASSUME NEW c \in Cases PROVE Cardinality(UpTo(r, c)) \in 1..n
  <2>1. UpTo(r, c) \subseteq Cases /\ c \in UpTo(r, c) BY <1>0 DEF UpTo
  <2>2. IsFiniteSet(UpTo(r, c)) /\ Cardinality(UpTo(r, c)) <= n
    BY <2>1, CasesAssumption, FS_Subset
  <2>3. Cardinality(UpTo(r, c)) \in Nat /\ Cardinality(UpTo(r, c)) # 0
    BY <2>1, <2>2, FS_CardinalityType, FS_EmptySet
  <2> QED BY <1>1, <2>2, <2>3
<1>3. rank \in [Cases -> 1..n] BY <1>2
<1>4. ASSUME NEW c \in Cases, NEW d \in Cases, rank[c] = rank[d] PROVE c = d
  <2>1. Cardinality(UpTo(r, c)) = Cardinality(UpTo(r, d)) BY <1>4
  <2>2. Cardinality(UpTo(r, c)) \in Nat BY <1>1, <1>2
  <2>3. ~(Cardinality(UpTo(r, c)) < Cardinality(UpTo(r, d)))
        /\ ~(Cardinality(UpTo(r, d)) < Cardinality(UpTo(r, c)))
    BY <2>1, <2>2
  <2>4. /\ ~(r[c].cost < r[d].cost \/ (r[c].cost = r[d].cost /\ c < d))
        /\ ~(r[d].cost < r[c].cost \/ (r[d].cost = r[c].cost /\ d < c))
    BY <2>3, CostRankGrows
  <2>5. r[c].cost \in Nat /\ r[d].cost \in Nat /\ c \in Nat /\ d \in Nat BY <1>0
  <2> QED BY <2>4, <2>5
<1>5. rank \in Injection(Cases, 1..n) BY <1>3, <1>4 DEF Injection, IsInjective
<1>6. IsFiniteSet(1..n) /\ Cardinality(1..n) = n
  <2>1. 1 \in Int /\ n \in Int BY <1>1
  <2>2. IsFiniteSet(1..n) /\ Cardinality(1..n) = IF 1 > n THEN 0 ELSE n - 1 + 1
    BY <2>1, FS_Interval
  <2> QED BY <1>1, <2>2
<1>7. rank \in Surjection(Cases, 1..n) BY <1>5, <1>6, FS_Injection
<1>8. \A i \in 1..n : \E c \in Cases : rank[c] = i BY <1>7 DEF Surjection
<1> QED BY <1>8

\* ceil(95 / 100 * n)
LEMMA RankOf95 ==
  ASSUME NEW n \in Nat, n # 0
  PROVE  /\ NearestRank(n, 95) \in 1..n
         /\ 100 * NearestRank(n, 95) >= 95 * n
         /\ 100 * (NearestRank(n, 95) - 1) < 95 * n
BY DEF NearestRank

\* How many cases cost no more than v.
CostWithin(r, v) == Cardinality({c \in Cases : r[c].cost <= v})

\* The percentile is the least cost that so many cases stay within.
LEMMA PercentileFits ==
  ASSUME NEW r, \A x \in Cases : r[x].cost \in Nat
  PROVE  LET n == Cardinality(Cases) IN
         /\ 100 * CostWithin(r, PercentileCost(r, 95)) >= 95 * n
         /\ \A v \in Nat : v < PercentileCost(r, 95) => 100 * CostWithin(r, v) < 95 * n
<1> DEFINE n == Cardinality(Cases)
           k == NearestRank(n, 95)
           c == CHOOSE d \in Cases : Cardinality(UpTo(r, d)) = k
           V(v) == {d \in Cases : r[d].cost <= v}
<1>1. n \in Nat /\ n # 0 BY CasesAssumption, FS_CardinalityType, FS_EmptySet
<1>2. k \in 1..n /\ 100 * k >= 95 * n /\ 100 * (k - 1) < 95 * n
  <2> HIDE DEF n
  <2> QED BY <1>1, RankOf95
<1>3. c \in Cases /\ Cardinality(UpTo(r, c)) = k BY <1>2, CostRankOnto
<1>4. PercentileCost(r, 95) = r[c].cost BY DEF PercentileCost
<1>5. \A v : V(v) \subseteq Cases /\ IsFiniteSet(V(v)) /\ Cardinality(V(v)) \in Nat
  <2> SUFFICES ASSUME NEW v PROVE V(v) \subseteq Cases /\ IsFiniteSet(V(v)) /\ Cardinality(V(v)) \in Nat
    OBVIOUS
  <2>1. V(v) \subseteq Cases OBVIOUS
  <2>2. IsFiniteSet(V(v)) BY <2>1, CasesAssumption, FS_Subset
  <2> QED BY <2>1, <2>2, FS_CardinalityType
<1>u. IsFiniteSet(UpTo(r, c)) /\ c \in UpTo(r, c)
  <2>1. UpTo(r, c) \subseteq Cases BY DEF UpTo
  <2>2. IsFiniteSet(UpTo(r, c)) BY <2>1, CasesAssumption, FS_Subset
  <2>3. c \in Nat BY <1>3, CasesAssumption
  <2> HIDE DEF c
  <2>4. c \in UpTo(r, c) BY <1>3, <2>3 DEF UpTo
  <2> QED BY <2>2, <2>4
<1> HIDE DEF c, k, n
<1>6. 100 * Cardinality(V(r[c].cost)) >= 95 * n
  <2>1. UpTo(r, c) \subseteq V(r[c].cost)
    <3> SUFFICES ASSUME NEW x \in UpTo(r, c) PROVE x \in V(r[c].cost) OBVIOUS
    <3>1. x \in Cases /\ (r[x].cost < r[c].cost \/ r[x].cost = r[c].cost) BY DEF UpTo
    <3>2. r[x].cost \in Nat /\ r[c].cost \in Nat BY <1>3, <3>1
    <3> QED BY <3>1, <3>2
  <2>2. k <= Cardinality(V(r[c].cost)) BY <1>3, <1>5, <2>1, FS_Subset
  <2>3. Cardinality(V(r[c].cost)) \in Nat BY <1>5
  <2> HIDE DEF V
  <2> QED BY <1>1, <1>2, <2>2, <2>3
<1>7. ASSUME NEW v \in Nat, v < r[c].cost PROVE 100 * Cardinality(V(v)) < 95 * n
  <2>1. V(v) \subseteq UpTo(r, c) \ {c}
    <3> SUFFICES ASSUME NEW x \in V(v) PROVE x \in UpTo(r, c) /\ x # c OBVIOUS
    <3>1. x \in Cases /\ r[x].cost <= v OBVIOUS
    <3>2. r[x].cost \in Nat /\ r[c].cost \in Nat BY <1>3, <3>1
    <3>3. r[x].cost < r[c].cost BY <1>7, <3>1, <3>2
    <3> QED BY <3>1, <3>2, <3>3 DEF UpTo
  <2>2. IsFiniteSet(UpTo(r, c) \ {c}) /\ Cardinality(UpTo(r, c) \ {c}) = k - 1
    BY <1>3, <1>u, FS_RemoveElement
  <2>3. Cardinality(V(v)) <= k - 1 BY <2>1, <2>2, FS_Subset
  <2>4. Cardinality(V(v)) \in Nat BY <1>5
  <2> HIDE DEF V
  <2> QED BY <1>1, <1>2, <2>3, <2>4
<1>8. \A v : CostWithin(r, v) = Cardinality(V(v)) BY DEF CostWithin
<1> HIDE DEF V
<1>9. 100 * CostWithin(r, PercentileCost(r, 95)) >= 95 * n BY <1>4, <1>6, <1>8
<1>10. \A v \in Nat : v < PercentileCost(r, 95) => 100 * CostWithin(r, v) < 95 * n BY <1>4, <1>7, <1>8
<1> QED BY <1>9, <1>10 DEF n

-----------------------------------------------------------------------------
(***************************************************************************)
(* The judge is called for a case that has its verdict, and a score is of  *)
(* a call that was paid for.                                               *)
(***************************************************************************)
Paid ==
  \A c \in Cases :
    /\ result[c].judge = "score" => result[c].judgeCost # 0
    /\ result[c].judgeCost # 0 => result[c].verdict # 0
    /\ step[c] \in {"judging", "rejudging"} => result[c].verdict # 0

LEMMA PaidInductive ==
  ASSUME Typed, Paid, [Next]_vars
  PROVE  Paid'
<1>t. /\ step \in [Cases -> Steps] /\ result \in [Cases -> CaseResults]
      /\ \A s \in Severities : s # 0
  BY LabelAssumption DEF Typed, RunTypeOK, Steps, Severity
<1>r. \A c \in Cases : result[c] \in CaseResults BY <1>t
<1>w. ASSUME step' = [c \in Cases |-> "waiting"], result' = [c \in Cases |-> Blank]
      PROVE  Paid'
  BY <1>w DEF Blank, Paid
<1>e. ASSUME NEW code, Ends(code) PROVE Paid' BY <1>e, <1>w DEF Ends
<1>s. ASSUME UNCHANGED <<step, result>> PROVE Paid' BY <1>s DEF Paid
<1>1. ASSUME NEW a \in Invocations, Begins(a) PROVE Paid' BY <1>1, <1>e, <1>s DEF Begins
<1>2. ASSUME NEW a \in Invocations, Republishes(a) PROVE Paid'
  BY <1>2, <1>e DEF Republishes
<1>3. CASE BuildsPipeline BY <1>3, <1>e, <1>s DEF BuildsPipeline
<1>4. ASSUME NEW c \in Cases, CaseStep(c) PROVE Paid'
  \* Of the other cases nothing changes.
  <2>1. \A d \in Cases : d # c => result'[d] = result[d] /\ step'[d] = step[d]
    BY <1>4, <1>t DEF CaseStep, Enters, Consults, ReadsFixture, Decides, TriageFails, JudgeScores,
                      JudgeRejected, JudgeCallFails, Takes, Goes, Leaves
  <2> DEFINE Good(r, s) ==
        /\ r.judge = "score" => r.judgeCost # 0
        /\ r.judgeCost # 0 => r.verdict # 0
        /\ s \in {"judging", "rejudging"} => r.verdict # 0
  <2>2. Good(result[c], step[c]) BY DEF Paid
  <2>3. Good(result'[c], step'[c])
    <3>1. CASE Enters(c) BY <3>1, <2>2, <1>t DEF Enters
    <3>2. CASE Consults(c) \/ ReadsFixture(c)
      <4>1. /\ result'[c].judge = result[c].judge /\ result'[c].judgeCost = result[c].judgeCost
            /\ result'[c].verdict = result[c].verdict
        BY <3>2, <1>t, <1>r DEF Consults, ReadsFixture, Takes, CaseResults
      <4>2. step'[c] \in {"triaging", "reading", "done"}
        BY <3>2, <1>t DEF Consults, ReadsFixture, Takes, Goes, Leaves
      <4> QED BY <4>1, <4>2, <2>2
    <3>3. CASE Decides(c)
      <4>1. result'[c].verdict \in Severities BY <3>3, <1>t, <1>r DEF Decides, CaseResults
      <4>2. result'[c].judge = result[c].judge /\ result'[c].judgeCost = result[c].judgeCost
        BY <3>3, <1>t, <1>r DEF Decides, CaseResults
      <4> QED BY <4>1, <4>2, <2>2, <1>t
    <3>4. CASE TriageFails(c)
      <4>1. result'[c].judge = "none" /\ result'[c].judgeCost = 0
        BY <3>4, <1>t DEF TriageFails, Blank
      <4>2. step'[c] = "done" BY <3>4, <1>t DEF TriageFails, Leaves
      <4> QED BY <4>1, <4>2
    <3>5. CASE JudgeScores(c)
      <4>1. result'[c].judgeCost \in {1, 2} /\ result'[c].verdict = result[c].verdict
        BY <3>5, <1>t, <1>r DEF JudgeScores, CaseResults
      <4>2. result[c].verdict # 0 BY <3>5, <2>2 DEF JudgeScores
      <4> QED BY <4>1, <4>2
    <3>6. CASE JudgeRejected(c)
      <4>1. result[c].verdict # 0 BY <3>6, <2>2 DEF JudgeRejected
      <4>2. CASE UNCHANGED result BY <4>1, <4>2, <2>2
      <4>3. CASE result' = [result EXCEPT ![c] = [@ EXCEPT !.judge = "error", !.judgeCost = 1]]
        <5>1. result'[c].judge = "error" /\ result'[c].verdict = result[c].verdict
          BY <4>3, <1>t, <1>r DEF CaseResults
        <5> QED BY <4>1, <5>1
      <4> QED BY <3>6, <4>2, <4>3 DEF JudgeRejected
    <3>7. CASE JudgeCallFails(c)
      <4>1. result'[c].judge = "error" /\ result'[c].verdict = result[c].verdict
        BY <3>7, <1>t, <1>r DEF JudgeCallFails, CaseResults
      <4>2. result[c].verdict # 0 BY <3>7, <2>2 DEF JudgeCallFails
      <4> QED BY <4>1, <4>2
    <3> QED BY <1>4, <3>1, <3>2, <3>3, <3>4, <3>5, <3>6, <3>7 DEF CaseStep
  <2>4. ASSUME NEW d \in Cases PROVE Good(result'[d], step'[d])
    <3>1. CASE d = c BY <3>1, <2>3
    <3>2. CASE d # c BY <3>2, <2>1 DEF Paid
    <3> QED BY <3>1, <3>2
  <2> QED BY <2>4 DEF Paid
<1>5. CASE Scores BY <1>5, <1>s DEF Scores
<1>6. CASE WritesArtifact BY <1>6, <1>e, <1>w DEF WritesArtifact
<1>7. CASE WritesRow BY <1>7, <1>e, <1>s DEF WritesRow
<1>8. CASE PublishesLine BY <1>8, <1>e, <1>s DEF PublishesLine
<1>9. CASE Reports BY <1>9, <1>e, <1>s DEF Reports
<1>10. CASE WritesBaseline BY <1>10, <1>s DEF WritesBaseline
<1>11. CASE Gates BY <1>11, <1>e DEF Gates
<1>12. CASE Killed BY <1>12, <1>e DEF Killed
<1>13. CASE Records BY <1>13, <1>s DEF Records, runVars
<1>14. CASE UNCHANGED vars BY <1>14, <1>s DEF vars, runVars
<1> QED
  BY <1>1, <1>2, <1>3, <1>4, <1>5, <1>6, <1>7, <1>8, <1>9, <1>10, <1>11, <1>12, <1>13, <1>14
     DEF Next, RunStep

\* The bands, and the cells of the confusion matrix.
LEMMA BandsFinite ==
  /\ IsFiniteSet(Severity) /\ IsFiniteSet(Severity \cup {0})
  /\ IsFiniteSet((4..5) \X (4..5))
<1>0. 1 \in Int /\ 4 \in Int /\ 5 \in Int OBVIOUS
<1>1. IsFiniteSet(1..5) /\ IsFiniteSet(4..5) BY <1>0, FS_Interval, Zenon
<1>2. IsFiniteSet((4..5) \X (4..5)) BY <1>1, FS_Product
<1> QED BY <1>1, <1>2, FS_AddElement DEF Severity

\* What of Cases is picked out can be counted.
LEMMA CasesCounted ==
  ASSUME NEW C \in SUBSET Cases
  PROVE  IsFiniteSet(C) /\ Cardinality(C) \in Nat /\ Cardinality(C) <= Cardinality(Cases)
BY CasesAssumption, FS_Subset, FS_CardinalityType

\* The cases of a cell of the confusion matrix.
InCell(r, b, v) == {c \in Cases : Label[c] = b /\ r[c].verdict = v}

LEMMA CellIs ==
  ASSUME NEW r, NEW b \in Severity, NEW v \in Severity \cup {0}
  PROVE  Confusion(r)[b, v] = Cardinality(InCell(r, b, v))
BY DEF Confusion, InCell

\* The verdicts are bands, or 0.
Verdicts(r) == \A c \in Cases : r[c].verdict \in Severity \cup {0}

\* A row of the matrix adds up to the cases with its label, ...
LEMMA RowOfConfusion ==
  ASSUME NEW r, Verdicts(r), NEW b \in Severity
  PROVE  SumFunction([v \in Severity \cup {0} |-> Confusion(r)[b, v]]) = Support(b)
<1> DEFINE D == Severity \cup {0}
           C == {c \in Cases : Label[c] = b}
           key == [c \in Cases |-> r[c].verdict]
           f == [v \in D |-> Confusion(r)[b, v]]
<1>1. IsFiniteSet(C) /\ IsFiniteSet(D) BY CasesCounted, BandsFinite
<1>2. ASSUME NEW v \in D PROVE f[v] = Cardinality({c \in C : key[c] = v})
  <2>1. {c \in C : key[c] = v} = InCell(r, b, v) BY DEF InCell
  <2>2. f[v] = Confusion(r)[b, v] OBVIOUS
  <2>3. Confusion(r)[b, v] = Cardinality(InCell(r, b, v)) BY CellIs
  <2> HIDE DEF f, C, D, key
  <2> QED BY <2>1, <2>2, <2>3, Zenon
<1>3. {c \in C : key[c] \in D} = C BY DEF Verdicts
<1>4. DOMAIN f = D OBVIOUS
<1> HIDE DEF C, D, key, f
<1>5. SumFunction(f) = Cardinality(C) BY <1>1, <1>2, <1>3, <1>4, CountedByKey
<1> QED BY <1>5 DEF f, C, D, Support

\* ... a column to the cases with its verdict, ...
LEMMA ColumnOfConfusion ==
  ASSUME NEW r, NEW b \in Severity \cup {0}
  PROVE  SumFunction([l \in Severity |-> Confusion(r)[l, b]]) = Predicted(r, b)
<1> DEFINE C == {c \in Cases : r[c].verdict = b}
           f == [l \in Severity |-> Confusion(r)[l, b]]
<1>1. IsFiniteSet(C) /\ IsFiniteSet(Severity) BY CasesCounted, BandsFinite
<1>2. ASSUME NEW l \in Severity PROVE f[l] = Cardinality({c \in C : Label[c] = l})
  <2>1. {c \in C : Label[c] = l} = InCell(r, l, b) BY DEF InCell
  <2>2. f[l] = Confusion(r)[l, b] OBVIOUS
  <2>3. Confusion(r)[l, b] = Cardinality(InCell(r, l, b)) BY CellIs
  <2> HIDE DEF f, C
  <2> QED BY <2>1, <2>2, <2>3, Zenon
<1>3. {c \in C : Label[c] \in Severity} = C BY LabelAssumption
<1>4. DOMAIN f = Severity OBVIOUS
<1> HIDE DEF C, f
<1>5. SumFunction(f) = Cardinality(C) BY <1>1, <1>2, <1>3, <1>4, CountedByKey
<1> QED BY <1>5 DEF f, C, Predicted

\* ... the diagonal to what was exact, ...
LEMMA Diagonal ==
  ASSUME NEW r
  PROVE  Cardinality(Exact(r)) = SumFunction([b \in Severity |-> Confusion(r)[b, b]])
<1> DEFINE f == [b \in Severity |-> Confusion(r)[b, b]]
<1>0. Exact(r) \subseteq Cases BY DEF Exact
<1>1. IsFiniteSet(Exact(r)) /\ IsFiniteSet(Severity) BY <1>0, CasesCounted, BandsFinite
<1>2. ASSUME NEW b \in Severity PROVE f[b] = Cardinality({c \in Exact(r) : Label[c] = b})
  <2>0. b # 0 BY DEF Severity
  <2>1. {c \in Exact(r) : Label[c] = b} = InCell(r, b, b)
    BY <2>0 DEF Exact, Failed, InCell
  <2>2. f[b] = Confusion(r)[b, b] OBVIOUS
  <2>3. Confusion(r)[b, b] = Cardinality(InCell(r, b, b)) BY CellIs
  <2> HIDE DEF f
  <2> QED BY <2>1, <2>2, <2>3, Zenon
<1>3. {c \in Exact(r) : Label[c] \in Severity} = Exact(r) BY <1>0, LabelAssumption
<1>4. DOMAIN f = Severity OBVIOUS
<1> HIDE DEF f
<1>5. SumFunction(f) = Cardinality(Exact(r)) BY <1>1, <1>2, <1>3, <1>4, CountedByKey
<1> QED BY <1>5 DEF f

\* ... and the corner of the critical bands to what was found of them.
LEMMA CriticalCorner ==
  ASSUME NEW r, Verdicts(r)
  PROVE  Cardinality(CriticalHit(r))
           = SumFunction([cell \in (4..5) \X (4..5) |-> Confusion(r)[cell]])
<1> DEFINE D == (4..5) \X (4..5)
           f == [cell \in D |-> Confusion(r)[cell]]
           key == [c \in Cases |-> <<Label[c], r[c].verdict>>]
           C == CriticalHit(r)
<1>0. C \subseteq Cases BY DEF CriticalHit, Critical
<1>1. IsFiniteSet(C) /\ IsFiniteSet(D) BY <1>0, CasesCounted, BandsFinite
<1>2. ASSUME NEW cell \in D PROVE f[cell] = Cardinality({c \in C : key[c] = cell})
  <2>1. PICK b \in 4..5, v \in 4..5 : cell = <<b, v>> OBVIOUS
  <2>2. b \in Severity /\ v \in Severity \cup {0} BY DEF Severity
  <2>3. {c \in C : key[c] = cell} = InCell(r, b, v)
    <3>1. ASSUME NEW c \in Cases, Label[c] = b, r[c].verdict = v PROVE c \in C
      BY <3>1 DEF CriticalHit, Critical
    <3>2. ASSUME NEW c \in Cases
          PROVE  key[c] = cell <=> Label[c] = b /\ r[c].verdict = v
      BY <2>1
    <3> QED BY <1>0, <3>1, <3>2 DEF InCell
  <2>4. f[cell] = Confusion(r)[b, v] BY <2>1
  <2>5. Confusion(r)[b, v] = Cardinality(InCell(r, b, v)) BY <2>2, CellIs
  <2> HIDE DEF f, C, D, key
  <2> QED BY <2>3, <2>4, <2>5, Zenon
<1>3. {c \in C : key[c] \in D} = C
  <2> SUFFICES ASSUME NEW c \in C PROVE key[c] \in D OBVIOUS
  <2>1. c \in Cases /\ Label[c] >= 4 /\ r[c].verdict >= 4 BY DEF CriticalHit, Critical
  <2>2. Label[c] \in 1..5 /\ r[c].verdict \in 0..5
    BY <2>1, LabelAssumption DEF Severity, Verdicts
  <2>3. Label[c] \in 4..5 /\ r[c].verdict \in 4..5 BY <2>1, <2>2
  <2> QED BY <2>1, <2>3
<1>4. DOMAIN f = D OBVIOUS
<1> HIDE DEF C, D, key, f
<1>5. SumFunction(f) = Cardinality(C) BY <1>1, <1>2, <1>3, <1>4, CountedByKey
<1> QED BY <1>5 DEF f, C, D

\* What was exact was within one, and nothing that failed was.
LEMMA RatesNest ==
  ASSUME NEW r, Verdicts(r)
  PROVE  /\ Cardinality(Exact(r)) <= Cardinality(WithinOne(r))
         /\ Cardinality(WithinOne(r)) + Cardinality(Failed(r)) <= Cardinality(Cases)
         /\ Cardinality(Cases \ Failed(r)) = Cardinality(Cases) - Cardinality(Failed(r))
<1>1. WithinOne(r) \subseteq Cases /\ Failed(r) \subseteq Cases BY DEF WithinOne, Failed
<1>2. Exact(r) \subseteq WithinOne(r)
  <2> SUFFICES ASSUME NEW c \in Exact(r) PROVE c \in WithinOne(r) OBVIOUS
  <2>1. c \in Cases \ Failed(r) /\ r[c].verdict = Label[c] BY DEF Exact
  <2>2. Label[c] \in 1..5 BY <2>1, LabelAssumption DEF Severity
  <2>3. Distance(r[c].verdict, Label[c]) <= 1 BY <2>1, <2>2 DEF Distance
  <2> QED BY <2>1, <2>3 DEF WithinOne
<1>3. WithinOne(r) \subseteq Cases \ Failed(r) BY DEF WithinOne
<1>4. IsFiniteSet(WithinOne(r)) /\ Cardinality(WithinOne(r)) \in Nat
  BY <1>1, CasesCounted
<1>5. Cardinality(Exact(r)) <= Cardinality(WithinOne(r)) BY <1>2, <1>4, FS_Subset
<1>6. /\ IsFiniteSet(Cases \ Failed(r))
      /\ Cardinality(Cases \ Failed(r)) = Cardinality(Cases) - Cardinality(Cases \cap Failed(r))
  BY CasesAssumption, FS_Difference
<1>7. Cases \cap Failed(r) = Failed(r) BY <1>1
<1>8. Cardinality(WithinOne(r)) <= Cardinality(Cases \ Failed(r)) BY <1>3, <1>6, FS_Subset
<1>9. Cardinality(Failed(r)) \in Nat /\ Cardinality(Cases) \in Nat
  BY <1>1, CasesCounted
<1> QED BY <1>4, <1>5, <1>6, <1>7, <1>8, <1>9

\* The judge is paid for each score, and for no case that failed.
LEMMA JudgePaid ==
  ASSUME NEW r, \A c \in Cases : r[c].judgeCost \in 0..2,
         \A c \in Cases : r[c].judge = "score" => r[c].judgeCost # 0,
         \A c \in Cases : r[c].judgeCost # 0 => r[c].verdict # 0
  PROVE  LET paid == SumFunction([c \in Cases |-> r[c].judgeCost])
         IN  Cardinality(Judged(r)) <= paid /\ paid <= 2 * Cardinality(Cases \ Failed(r))
<1> DEFINE f == [c \in Cases |-> r[c].judgeCost]
<1>1. f \in [Cases -> 0..2] OBVIOUS
<1>2. Judged(r) \subseteq Cases /\ \A c \in Judged(r) : f[c] # 0 BY DEF Judged
<1>3. \A c \in Cases \ (Cases \ Failed(r)) : f[c] = 0 BY DEF Failed
<1> HIDE DEF f
<1>4. Cardinality(Judged(r)) <= SumFunction(f) /\ SumFunction(f) <= 2 * Cardinality(Cases \ Failed(r))
  BY <1>1, <1>2, <1>3, CasesAssumption, SumBounds
<1> QED BY <1>4 DEF f

\* Metrics of results that are typed, and of calls that were paid for, agree.
LEMMA MetricsCount ==
  ASSUME result \in [Cases -> CaseResults], Paid
  PROVE  MetricsAgree
<1>t. \A c \in Cases : result[c] \in CaseResults OBVIOUS
<1>1. Verdicts(result) BY <1>t, LabelAssumption DEF CaseResults, Verdicts
<1>4. \A v \in Costs \cup {0} : v \in Nat BY CostsAssumption
<1>2. \A c \in Cases : result[c].cost \in Nat
  <2>1. \A c \in Cases : result[c].cost \in Costs \cup {0} BY <1>t DEF CaseResults
  <2> QED BY <1>4, <2>1
<1>3. \A c \in Cases : result[c].judgeCost \in 0..2 BY <1>t DEF CaseResults
<1> DEFINE m == Metrics(result)
           cm == Confusion(result)
           n == Cardinality(Cases)
<1>m. /\ m.failed = Cardinality(Failed(result)) /\ m.exact = Cardinality(Exact(result))
      /\ m.within = Cardinality(WithinOne(result))
      /\ m.critical = Cardinality(CriticalHit(result))
      /\ m.judged = Cardinality(Judged(result)) /\ m.p95 = PercentileCost(result, 95)
      /\ m.judgeCost = SumFunction([c \in Cases |-> result[c].judgeCost])
  BY DEF Metrics
<1>5. ASSUME NEW b \in Severity
      PROVE  /\ SumFunction([v \in Severity \cup {0} |-> cm[b, v]]) = Support(b)
             /\ SumFunction([l \in Severity |-> cm[l, b]]) = Predicted(result, b)
  <2>1. b \in Severity \cup {0} OBVIOUS
  <2>2. SumFunction([v \in Severity \cup {0} |-> cm[b, v]]) = Support(b)
    BY <1>1, RowOfConfusion, Zenon
  <2>3. SumFunction([l \in Severity |-> cm[l, b]]) = Predicted(result, b)
    BY <2>1, ColumnOfConfusion, Zenon
  <2> QED BY <2>2, <2>3
<1>6. m.exact = SumFunction([b \in Severity |-> cm[b, b]]) BY <1>m, Diagonal
<1>7. m.failed = SumFunction([b \in Severity |-> cm[b, 0]])
  <2>1. 0 \in Severity \cup {0} OBVIOUS
  <2>2. SumFunction([l \in Severity |-> cm[l, 0]]) = Predicted(result, 0)
    BY <2>1, ColumnOfConfusion, Zenon
  <2>3. Predicted(result, 0) = Cardinality(Failed(result)) BY Zenon DEF Predicted, Failed
  <2> QED BY <1>m, <2>2, <2>3, Zenon
<1>8. m.exact <= m.within /\ m.within + m.failed <= n BY <1>1, <1>m, RatesNest
<1>9. m.critical = SumFunction([cell \in (4..5) \X (4..5) |-> cm[cell]])
  BY <1>1, <1>m, CriticalCorner
<1>10. m.judged <= m.judgeCost /\ m.judgeCost <= 2 * (n - m.failed)
  BY <1>1, <1>3, <1>m, RatesNest, JudgePaid DEF Paid
<1>11. /\ 100 * CostWithin(result, m.p95) >= 95 * n
       /\ \A v \in Costs \cup {0} : v < m.p95 => 100 * CostWithin(result, v) < 95 * n
  BY <1>2, <1>4, <1>m, PercentileFits
<1> QED BY <1>5, <1>6, <1>7, <1>8, <1>9, <1>10, <1>11 DEF MetricsAgree, CostWithin

-----------------------------------------------------------------------------
(***************************************************************************)
(* What exit 0 rests on: one row for every result file, and one more       *)
(* between score and write_artifact; a run that is under way has not       *)
(* succeeded yet; and one that has come past the reports after the loop    *)
(* has no row with a missing fixture, and some row with a case that        *)
(* succeeded.  No prompt is begun beyond those that were asked for.        *)
(***************************************************************************)
Asked == IF ev = "off" THEN begun = 0 ELSE begun <= Len(args.prompts)

RowsInv ==
  /\ rows \in Seq(Rows)
  /\ Len(rows) = IF ev = "scored" THEN saved + 1 ELSE saved
  /\ \A i \in 1..Len(rows) : rows[i].failed \in 0..Cardinality(Cases)

Passed ==
  /\ ev # "off" => exit # "ok"
  /\ ev \in {"baseline", "gate"} =>
       /\ \A i \in 1..Len(rows) : ~rows[i].missing
       /\ \E i \in 1..Len(rows) : rows[i].failed # Cardinality(Cases)

\* score counts the failures among the cases.
LEMMA FailuresBounded ==
  ASSUME NEW r
  PROVE  Metrics(r).failed \in 0..Cardinality(Cases)
<1>1. Failed(r) \subseteq Cases BY DEF Failed
<1>2. /\ Cardinality(Failed(r)) \in Nat /\ Cardinality(Cases) \in Nat
      /\ Cardinality(Failed(r)) <= Cardinality(Cases)
  BY <1>1, CasesAssumption, FS_Subset, FS_CardinalityType
<1>3. Metrics(r).failed = Cardinality(Failed(r)) BY DEF Metrics
<1> QED BY <1>2, <1>3

\* A row more, at the end.
LEMMA RowAdded ==
  ASSUME rows \in Seq(Rows), NEW row \in Rows, rows' = Append(rows, row)
  PROVE  /\ rows' \in Seq(Rows)
         /\ Len(rows') = Len(rows) + 1
         /\ \A i \in 1..Len(rows) : rows'[i] = rows[i]
         /\ rows'[Len(rows')] = row
OBVIOUS

\* What evals.run was asked to do.
LEMMA ArgumentsTyped ==
  ASSUME NEW a \in Invocations
  PROVE  /\ a.golden \in {"v1", "v2"} /\ a.prompts \in Seq(STRING) /\ a.prompts # <<>>
         /\ Strict(a) \in BOOLEAN /\ Judges(a) \in BOOLEAN
<1>1. a \in Arguments BY InvocationsAssumption
<1>2. a.golden \in {"v1", "v2"} /\ a.prompts \in Seq(STRING) /\ a.prompts # <<>>
  BY <1>1 DEF Arguments
<1>3. Strict(a) \in BOOLEAN BY Zenon DEF Strict
<1>4. Judges(a) \in BOOLEAN BY Zenon DEF Judges
<1> QED BY <1>2, <1>3, <1>4

LEMMA AskedInductive ==
  ASSUME Typed, Asked, [Next]_vars
  PROVE  Asked'
<1>t. begun \in Nat BY DEF Typed, RunTypeOK
<1>l. \A a \in Invocations : Len(a.prompts) \in Nat BY ArgumentsTyped
<1>a. args \in Invocations BY DEF Typed, RunTypeOK
<1>e. ASSUME NEW code, Ends(code) PROVE Asked' BY <1>e DEF Ends, Asked
<1>s. ASSUME UNCHANGED <<begun, args>>, (ev = "off") = (ev' = "off") PROVE Asked' BY <1>s DEF Asked
<1>1. ASSUME NEW a \in Invocations, Begins(a) PROVE Asked'
  <2>1. CASE \E code \in {"config", "golden"} : Ends(code) BY <2>1, <1>e
  <2>2. CASE args' = a /\ ev' = "prompt" /\ begun' = begun
    <3>1. 0 <= Len(a.prompts) BY <1>l
    <3> QED BY <1>1, <2>2, <3>1 DEF Begins, Asked
  <2> QED BY <1>1, <2>1, <2>2 DEF Begins, Refusal
<1>2. ASSUME NEW a \in Invocations, Republishes(a) PROVE Asked'
  BY <1>2, <1>e DEF Republishes
<1>3. CASE BuildsPipeline
  <2>1. CASE Ends("config") BY <2>1, <1>e
  <2>2. CASE ev' = "cases" /\ begun' = begun + 1 /\ UNCHANGED args
    BY <1>3, <2>2, <1>t, <1>a, <1>l DEF BuildsPipeline, Asked
  <2> QED BY <1>3, <2>1, <2>2 DEF BuildsPipeline
<1>4. ASSUME NEW c \in Cases, CaseStep(c) PROVE Asked'
  BY <1>4 DEF CaseStep, Enters, Consults, ReadsFixture, Decides, TriageFails, JudgeScores,
              JudgeRejected, JudgeCallFails, OtherThanCase, Asked
<1>5. CASE Scores BY <1>5, <1>s DEF Scores
<1>6. CASE WritesArtifact BY <1>6, <1>e, <1>s DEF WritesArtifact
<1>7. CASE WritesRow BY <1>7, <1>e, <1>s DEF WritesRow
<1>8. CASE PublishesLine BY <1>8, <1>e, <1>s DEF PublishesLine
<1>9. CASE Reports BY <1>9, <1>e, <1>s DEF Reports
<1>10. CASE WritesBaseline BY <1>10, <1>s DEF WritesBaseline
<1>11. CASE Gates BY <1>11, <1>e DEF Gates
<1>12. CASE Killed BY <1>12, <1>e DEF Killed
<1>13. CASE Records BY <1>13, <1>s DEF Records, runVars
<1>14. CASE UNCHANGED vars BY <1>14, <1>s DEF vars, runVars
<1> QED
  BY <1>1, <1>2, <1>3, <1>4, <1>5, <1>6, <1>7, <1>8, <1>9, <1>10, <1>11, <1>12, <1>13, <1>14
     DEF Next, RunStep

\* The counts and the cost of a row are natural numbers.
LEMMA MetricsTyped ==
  ASSUME NEW r \in [Cases -> CaseResults]
  PROVE  /\ Metrics(r).failed \in Nat /\ Metrics(r).exact \in Nat
         /\ Metrics(r).critical \in Nat /\ Metrics(r).cost \in Nat
<1>1. Failed(r) \subseteq Cases /\ Exact(r) \subseteq Cases /\ CriticalHit(r) \subseteq Cases
  BY DEF Failed, Exact, CriticalHit, Critical
<1>2. /\ Cardinality(Failed(r)) \in Nat /\ Cardinality(Exact(r)) \in Nat
      /\ Cardinality(CriticalHit(r)) \in Nat
  BY <1>1, CasesCounted
<1> DEFINE f == [c \in Cases |-> r[c].cost]
<1>3. f \in [Cases -> Nat]
  <2>1. \A c \in Cases : r[c].cost \in Costs \cup {0} BY DEF CaseResults
  <2>2. \A v \in Costs \cup {0} : v \in Nat BY CostsAssumption
  <2> QED BY <2>1, <2>2
<1>4. /\ Metrics(r).failed = Cardinality(Failed(r)) /\ Metrics(r).exact = Cardinality(Exact(r))
      /\ Metrics(r).critical = Cardinality(CriticalHit(r)) /\ Metrics(r).cost = SumFunction(f)
  BY DEF Metrics
<1> HIDE DEF f
<1>5. SumFunction(f) \in Nat BY <1>3, CasesAssumption, SumNat
<1> QED BY <1>2, <1>4, <1>5

LEMMA RowsInductive ==
  ASSUME Typed, SpendIsOnDisk, Asked, RowsInv, [Next]_vars
  PROVE  RowsInv'
<1>t. begun \in Nat /\ saved \in Nat BY DEF Typed, RunTypeOK
<1>e. ASSUME NEW code, Ends(code) PROVE RowsInv'
  <2>1. rows' = <<>> /\ saved' = 0 /\ ev' = "off" BY <1>e DEF Ends
  <2>2. rows' \in Seq(Rows) /\ Len(rows') = 0 BY <2>1
  <2> QED BY <2>1, <2>2 DEF RowsInv
<1>s. ASSUME UNCHANGED <<rows, saved>>, ev # "scored", ev' # "scored" PROVE RowsInv'
  BY <1>s DEF RowsInv
<1>1. ASSUME NEW a \in Invocations, Begins(a) PROVE RowsInv'
  <2>1. CASE \E code \in {"config", "golden"} : Ends(code) BY <2>1, <1>e
  <2>2. CASE ev' = "prompt" /\ UNCHANGED <<rows, saved>> BY <1>1, <2>2, <1>s DEF Begins
  <2> QED BY <1>1, <2>1, <2>2 DEF Begins, Refusal
<1>2. ASSUME NEW a \in Invocations, Republishes(a) PROVE RowsInv'
  BY <1>2, <1>e DEF Republishes
<1>3. CASE BuildsPipeline BY <1>3, <1>e, <1>s DEF BuildsPipeline
<1>4. ASSUME NEW c \in Cases, CaseStep(c) PROVE RowsInv'
  BY <1>4 DEF CaseStep, Enters, Consults, ReadsFixture, Decides, TriageFails, JudgeScores,
              JudgeRejected, JudgeCallFails, OtherThanCase, RowsInv
<1>5. CASE Scores
  <2> DEFINE row ==
        [failed |-> Metrics(result).failed, exact |-> Metrics(result).exact,
         critical |-> Metrics(result).critical, cost |-> Metrics(result).cost,
         config |-> Config(args, args.prompts[begun]),
         missing |-> \E c \in Cases : result[c].error = "fixture"]
  <2>1. /\ ev = "cases" /\ ev' = "scored" /\ saved' = saved
        /\ rows' = Append(rows, row)
    BY <1>5 DEF Scores
  <2>2. row.failed \in 0..Cardinality(Cases) BY FailuresBounded
  <2>3. row \in Rows
    <3>1. result \in [Cases -> CaseResults] /\ args \in Invocations BY DEF Typed, RunTypeOK
    <3>2. begun \in 1..Len(args.prompts)
      BY <2>1, <1>t, <3>1, ArgumentsTyped DEF SpendIsOnDisk, Asked
    <3>3. args.prompts[begun] \in STRING BY <3>1, <3>2, ArgumentsTyped
    <3>4. Config(args, args.prompts[begun])
            \in [prompt : STRING, strict : BOOLEAN, judge : BOOLEAN]
      BY <3>1, <3>3, ArgumentsTyped DEF Config
    <3>5. (\E c \in Cases : result[c].error = "fixture") \in BOOLEAN OBVIOUS
    <3>6. /\ Metrics(result).failed \in Nat /\ Metrics(result).exact \in Nat
          /\ Metrics(result).critical \in Nat /\ Metrics(result).cost \in Nat
      BY <3>1, MetricsTyped
    <3> QED BY <3>4, <3>5, <3>6, Zenon DEF Rows
  <2> HIDE DEF row
  <2>4. /\ rows' \in Seq(Rows)
        /\ Len(rows') = Len(rows) + 1
        /\ \A i \in 1..Len(rows) : rows'[i] = rows[i]
        /\ rows'[Len(rows')] = row
    BY <2>1, <2>3, RowAdded DEF RowsInv
  <2>5. Len(rows) \in Nat BY DEF RowsInv
  <2>6. \A i \in 1..Len(rows') : i \in 1..Len(rows) \/ i = Len(rows') BY <2>4, <2>5
  <2>7. \A i \in 1..Len(rows') : rows'[i].failed \in 0..Cardinality(Cases)
    BY <2>2, <2>4, <2>6 DEF RowsInv
  <2> QED BY <2>1, <2>4, <2>7 DEF RowsInv
<1>6. CASE WritesArtifact
  BY <1>6, <1>e, <1>t DEF WritesArtifact, RowsInv, SpendIsOnDisk
<1>7. CASE WritesRow BY <1>7, <1>e, <1>s DEF WritesRow
<1>8. CASE PublishesLine BY <1>8, <1>e, <1>s DEF PublishesLine
<1>9. CASE Reports BY <1>9, <1>e, <1>s DEF Reports
<1>10. CASE WritesBaseline BY <1>10, <1>s DEF WritesBaseline
<1>11. CASE Gates BY <1>11, <1>e DEF Gates
<1>12. CASE Killed BY <1>12, <1>e DEF Killed
<1>13. CASE Records BY <1>13 DEF Records, runVars, RowsInv
<1>14. CASE UNCHANGED vars BY <1>14 DEF vars, runVars, RowsInv
<1> QED
  BY <1>1, <1>2, <1>3, <1>4, <1>5, <1>6, <1>7, <1>8, <1>9, <1>10, <1>11, <1>12, <1>13, <1>14
     DEF Next, RunStep

LEMMA PassedInductive ==
  ASSUME Passed, [Next]_vars
  PROVE  Passed'
<1>e. ASSUME NEW code, Ends(code) PROVE Passed' BY <1>e DEF Ends, Passed
<1>s. ASSUME UNCHANGED <<exit, rows>>, ev # "off", ev' \notin {"baseline", "gate"} PROVE Passed'
  BY <1>s DEF Passed
<1>1. ASSUME NEW a \in Invocations, Begins(a) PROVE Passed'
  <2>1. CASE \E code \in {"config", "golden"} : Ends(code) BY <2>1, <1>e
  <2>2. CASE ev' = "prompt" /\ exit' = "none" BY <2>2 DEF Passed
  <2> QED BY <1>1, <2>1, <2>2 DEF Begins, Refusal
<1>2. ASSUME NEW a \in Invocations, Republishes(a) PROVE Passed'
  BY <1>2, <1>e DEF Republishes
<1>3. CASE BuildsPipeline BY <1>3, <1>e, <1>s DEF BuildsPipeline
<1>4. ASSUME NEW c \in Cases, CaseStep(c) PROVE Passed'
  BY <1>4 DEF CaseStep, Enters, Consults, ReadsFixture, Decides, TriageFails, JudgeScores,
              JudgeRejected, JudgeCallFails, OtherThanCase, Passed
<1>5. CASE Scores BY <1>5 DEF Scores, Passed
<1>6. CASE WritesArtifact BY <1>6, <1>e, <1>s DEF WritesArtifact
<1>7. CASE WritesRow BY <1>7, <1>e, <1>s DEF WritesRow
<1>8. CASE PublishesLine BY <1>8, <1>e, <1>s DEF PublishesLine
<1>9. CASE Reports BY <1>9, <1>e DEF Reports, Passed
<1>10. CASE WritesBaseline BY <1>10 DEF WritesBaseline, Passed
<1>11. CASE Gates BY <1>11, <1>e DEF Gates
<1>12. CASE Killed BY <1>12, <1>e DEF Killed
<1>13. CASE Records BY <1>13 DEF Records, runVars, Passed
<1>14. CASE UNCHANGED vars BY <1>14 DEF vars, runVars, Passed
<1> QED
  BY <1>1, <1>2, <1>3, <1>4, <1>5, <1>6, <1>7, <1>8, <1>9, <1>10, <1>11, <1>12, <1>13, <1>14
     DEF Next, RunStep

\* What was recorded, and what the gate loaded of it.
Baselined ==
  /\ base \in Baselines \cup {NoBaseline, TornBaseline}
  /\ baseline \in Baselines \cup {NoBaseline, TornBaseline}

LEMMA BaselinedInductive ==
  ASSUME Typed, SpendIsOnDisk, RowsInv, Baselined, [Next]_vars
  PROVE  Baselined'
<1>e. ASSUME NEW code, Ends(code), UNCHANGED baseline PROVE Baselined'
  BY <1>e DEF Ends, Baselined
<1>s. ASSUME UNCHANGED <<base, baseline>> PROVE Baselined' BY <1>s DEF Baselined
<1>1. ASSUME NEW a \in Invocations, Begins(a) PROVE Baselined'
  <2>1. UNCHANGED baseline BY <1>1 DEF Begins, fileVars
  <2>2. CASE \E code \in {"config", "golden"} : Ends(code) BY <2>1, <2>2, <1>e
  <2>3. CASE base' \in {baseline, NoBaseline} BY <2>1, <2>3 DEF Baselined
  <2> QED BY <1>1, <2>2, <2>3 DEF Begins, Refusal
<1>2. ASSUME NEW a \in Invocations, Republishes(a) PROVE Baselined'
  BY <1>2, <1>e DEF Republishes
<1>3. CASE BuildsPipeline BY <1>3, <1>e, <1>s DEF BuildsPipeline, fileVars
<1>4. ASSUME NEW c \in Cases, CaseStep(c) PROVE Baselined'
  BY <1>4, <1>s DEF CaseStep, Enters, Consults, ReadsFixture, Decides, TriageFails, JudgeScores,
                    JudgeRejected, JudgeCallFails, OtherThanCase, fileVars
<1>5. CASE Scores BY <1>5, <1>s DEF Scores, fileVars
<1>6. CASE WritesArtifact BY <1>6, <1>e, <1>s DEF WritesArtifact
<1>7. CASE WritesRow BY <1>7, <1>e, <1>s DEF WritesRow, fileVars
<1>8. CASE PublishesLine BY <1>8, <1>e, <1>s DEF PublishesLine
<1>9. CASE Reports BY <1>9, <1>e, <1>s DEF Reports, fileVars
<1>10. CASE WritesBaseline
  <2>1. CASE ~args.write BY <1>10, <2>1, <1>s DEF WritesBaseline
  <2>2. CASE args.write
    <3>1. args \in Invocations BY DEF Typed, RunTypeOK
    <3>2. Len(args.prompts) >= 1 BY <3>1, ArgumentsTyped
    <3>3. Len(rows) = Len(args.prompts) BY <1>10 DEF WritesBaseline, SpendIsOnDisk, RowsInv
    <3>4. rows[1] \in Rows BY <3>2, <3>3 DEF RowsInv
    <3>5. /\ rows[1].exact \in Nat /\ rows[1].cost \in Nat
          /\ rows[1].config \in [prompt : STRING, strict : BOOLEAN, judge : BOOLEAN]
      BY <3>4 DEF Rows
    <3>6. Recorded(rows[1]) \in Baselines
      BY <3>1, <3>5, ArgumentsTyped, Zenon DEF Recorded, Baselines
    <3> QED BY <1>10, <2>2, <3>6 DEF WritesBaseline, Baselined
  <2> QED BY <2>1, <2>2
<1>11. CASE Gates BY <1>11, <1>e DEF Gates, fileVars
<1>12. CASE Killed
  <2>1. base' = NoBaseline BY <1>12 DEF Killed, Ends
  <2>2. baseline' \in {baseline, TornBaseline} BY <1>12 DEF Killed
  <2> QED BY <2>1, <2>2 DEF Baselined
<1>13. CASE Records BY <1>13, <1>s DEF Records, runVars, fileVars
<1>14. CASE UNCHANGED vars BY <1>14, <1>s DEF vars, runVars, fileVars
<1> QED
  BY <1>1, <1>2, <1>3, <1>4, <1>5, <1>6, <1>7, <1>8, <1>9, <1>10, <1>11, <1>12, <1>13, <1>14
     DEF Next, RunStep

-----------------------------------------------------------------------------
(***************************************************************************)
(* The inductive invariant of the evaluation, and what it is for.          *)
(***************************************************************************)
EvalInv ==
  /\ Typed /\ RecInv /\ Held /\ SpendIsOnDisk /\ Honest /\ Paid
  /\ Asked /\ RowsInv /\ Baselined /\ Passed

LEMMA InitEval == Init => EvalInv
<1> SUFFICES ASSUME Init PROVE EvalInv OBVIOUS
<1>1. FixturesTypeOK /\ RecInv
  BY DEF Init, FixturesInit, FixturesTypeOK, RecInv, RecordedIsReplayable
<1>2. Flying = {} BY DEF Init, Flying, InFlight
<1>3. Throttled /\ Grounded /\ permits \in 0..Concurrency
  BY <1>2, FS_EmptySet, ConcurrencyAssumption DEF Init, Throttled, Grounded
<1>4. Blank \in CaseResults BY DEF Blank, CaseResults
<1>5. RunTypeOK
  BY <1>1, <1>3, <1>4, InvocationsAssumption DEF Init, RunTypeOK, Phases, Exits
<1>6. Held BY DEF Init, FixturesInit, Held, StrictEvidence, Blank
<1>7. SpendIsOnDisk BY DEF Init, SpendIsOnDisk
<1>8. Honest BY DEF Init, Honest, SyntheticUnpublished, NoBaseline
<1>9. rows \in Seq(Rows) /\ Len(rows) = 0 BY DEF Init
<1>10. RowsInv BY <1>9 DEF Init, RowsInv
<1>11. Passed /\ Asked /\ Baselined BY DEF Init, Passed, Asked, Baselined
<1>12. Paid BY DEF Init, Paid, Blank
<1> QED BY <1>1, <1>3, <1>5, <1>6, <1>7, <1>8, <1>10, <1>11, <1>12 DEF EvalInv, Typed

LEMMA EvalInvariant == Spec => []EvalInv
<1>1. EvalInv /\ [Next]_vars => EvalInv'
  BY TypedInductive, RecordKeeps, HeldInductive, SpendInductive, HonestInductive,
     PaidInductive, AskedInductive, RowsInductive, BaselinedInductive, PassedInductive
     DEF EvalInv
<1> QED BY <1>1, InitEval, PTL DEF Spec

(***************************************************************************)
(* run_golden, the rows _run_all computes and the baseline it records keep *)
(* their types.                                                            *)
(***************************************************************************)
THEOREM EvalTypes == Spec => []TypeOK
<1>1. EvalInv => TypeOK BY DEF EvalInv, Typed, RowsInv, Baselined, TypeOK
<1> QED BY <1>1, EvalInvariant, PTL

(***************************************************************************)
(* score, confusion, per_severity and percentile agree with each other for *)
(* every golden set and all labels: the rows and columns of the confusion  *)
(* matrix add up to support and predictions, its diagonal to what was      *)
(* exact, its corner to the critical cases that were found; the judge was  *)
(* paid for each score and for no case that failed; and the nearest-rank   *)
(* percentile is the least cost 95 % of the cases stay within.             *)
(***************************************************************************)
THEOREM MetricsSafe == Spec => []MetricsAgree
<1>1. EvalInv => MetricsAgree BY MetricsCount DEF EvalInv, Typed, RunTypeOK
<1> QED BY <1>1, EvalInvariant, PTL

(***************************************************************************)
(* run_golden's semaphore: never more cases in flight than --concurrency,  *)
(* whatever fails, and no permit is lost.                                  *)
(***************************************************************************)
THEOREM ThrottledSafe == Spec => []Throttled
<1>1. EvalInv => Throttled BY DEF EvalInv, Typed
<1> QED BY <1>1, EvalInvariant, PTL

(***************************************************************************)
(* ReplayToolRecorder with strict set, its look for the file and its read  *)
(* of it apart: no case is triaged on a transient failure, an answer       *)
(* served stays the one on disk, and a case is told fixture_unreadable     *)
(* only when a record run had that file open while the cases ran, or was   *)
(* killed with it half written.                                            *)
(***************************************************************************)
THEOREM StrictSafe == Spec => []StrictEvidence
<1>1. EvalInv => StrictEvidence BY DEF EvalInv, Held
<1> QED BY <1>1, EvalInvariant, PTL

(***************************************************************************)
(* evals.record: a run without failures has an answer for all it planned.  *)
(***************************************************************************)
THEOREM RecordedSafe == Spec => []RecordedIsReplayable
<1>1. EvalInv => RecordedIsReplayable BY DEF EvalInv, RecInv
<1> QED BY <1>1, EvalInvariant, PTL

(***************************************************************************)
(* _run_all writes the result file before the row and the line, and goes   *)
(* on to the gate only with every prompt's on disk.                        *)
(***************************************************************************)
THEOREM SpendSafe == Spec => []SpendIsOnDisk
<1>1. EvalInv => SpendIsOnDisk BY DEF EvalInv
<1> QED BY <1>1, EvalInvariant, PTL

(***************************************************************************)
(* _run_all and row_from_artifact publish, and record as the baseline,     *)
(* nothing that was measured on a synthetic golden set.                    *)
(***************************************************************************)
THEOREM SyntheticSafe == Spec => []SyntheticUnpublished
<1>1. EvalInv => SyntheticUnpublished BY DEF EvalInv, Honest
<1> QED BY <1>1, EvalInvariant, PTL

\* Of the steps of a run that is under way, only the gate lets it exit with 0.
LEMMA OnlyGatesPass ==
  ASSUME Passed, Next, ev # "off", exit' = "ok"
  PROVE  Gates
<1>1. exit # "ok" BY DEF Passed
<1>e. ASSUME NEW code, code # "ok", Ends(code) PROVE FALSE BY <1>e DEF Ends
<1>2. ASSUME NEW a \in Invocations, Begins(a) \/ Republishes(a) PROVE FALSE
  BY <1>2 DEF Begins, Republishes
<1>3. ASSUME BuildsPipeline PROVE FALSE BY <1>1, <1>3, <1>e DEF BuildsPipeline
<1>4. ASSUME NEW c \in Cases, CaseStep(c) PROVE FALSE
  BY <1>1, <1>4 DEF CaseStep, Enters, Consults, ReadsFixture, Decides, TriageFails, JudgeScores,
                    JudgeRejected, JudgeCallFails, OtherThanCase
<1>5. ASSUME Scores \/ WritesBaseline PROVE FALSE BY <1>1, <1>5 DEF Scores, WritesBaseline
<1>6. ASSUME WritesArtifact PROVE FALSE BY <1>1, <1>6, <1>e DEF WritesArtifact
<1>7. ASSUME WritesRow PROVE FALSE BY <1>1, <1>7, <1>e DEF WritesRow
<1>8. ASSUME PublishesLine PROVE FALSE BY <1>1, <1>8, <1>e DEF PublishesLine
<1>9. ASSUME Reports PROVE FALSE BY <1>1, <1>9, <1>e DEF Reports
<1>10. ASSUME Killed PROVE FALSE BY <1>10, <1>e DEF Killed
<1>11. ASSUME UNCHANGED runVars PROVE FALSE BY <1>1, <1>11 DEF runVars
<1> QED
  BY <1>2, <1>3, <1>4, <1>5, <1>6, <1>7, <1>8, <1>9, <1>10, <1>11 DEF Next, Records, RunStep

(***************************************************************************)
(* _run_all returns 0 only when every prompt that was asked for has its    *)
(* result file and its row, no fixture was missing, some case succeeded,   *)
(* and with --gate no row is worse than the baseline the run started with. *)
(***************************************************************************)
THEOREM GreenSafe == Spec => GreenIsGood
<1>1. EvalInv /\ [Next]_vars => [ev # "off" /\ exit' = "ok" => Green]_vars
  <2> SUFFICES ASSUME EvalInv, Next, ev # "off", exit' = "ok" PROVE Green
    OBVIOUS
  <2>1. Gates BY OnlyGatesPass DEF EvalInv
  <2>2. ev = "gate" BY <2>1 DEF Gates
  <2>3. saved = Len(args.prompts) /\ Len(rows) = saved
    BY <2>2 DEF EvalInv, SpendIsOnDisk, RowsInv
  <2>4. /\ \A i \in 1..Len(rows) : ~rows[i].missing
        /\ \E i \in 1..Len(rows) : rows[i].failed # Cardinality(Cases)
    BY <2>2 DEF EvalInv, Passed
  <2>5. PICK i \in 1..Len(rows) : rows[i].failed # Cardinality(Cases) BY <2>4
  <2>6. rows[i].failed \in 0..Cardinality(Cases) BY DEF EvalInv, RowsInv
  <2>7. Cardinality(Cases) \in Nat BY CasesAssumption, FS_CardinalityType
  <2>8. rows[i].failed < Cardinality(Cases) BY <2>5, <2>6, <2>7
  <2>9. ~(args.gate /\ \E j \in 1..Len(rows) : Tripped(rows[j], base))
    BY <2>1 DEF Gates, Ends
  <2> QED BY <2>3, <2>4, <2>8, <2>9 DEF Green
<1> QED BY <1>1, EvalInvariant, PTL DEF Spec, GreenIsGood
=============================================================================
