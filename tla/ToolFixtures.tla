---------------------------- MODULE ToolFixtures ----------------------------
(***************************************************************************)
(* The fixtures a tool call is replayed from (worker/tools/recorder.py)    *)
(* and the process that records them (evals/record.py).  LiveToolRecorder  *)
(* writes whatever the tool answered; the record loop takes back what will *)
(* not reproduce.  An evaluation may read the directory all the while.     *)
(***************************************************************************)
EXTENDS EvalConstants

VARIABLES
  fixture,   \* the file of a call: absent, half written, an answer that
             \* reproduces, or a transient failure
  rec,       \* where the record run is
  plan,      \* what it was asked to record
  todo,      \* what it has not come to yet
  at,        \* the call whose file it writes
  failed,    \* its report names a failure
  killed     \* history: a record run was killed

recVars == <<rec, plan, todo, at, failed, killed>>
fixtureVars == <<fixture, recVars>>

Results == {"answer", "poison"}

FixturesTypeOK ==
  /\ fixture \in [Calls -> Results \cup {"absent", "partial"}]
  /\ rec \in {"off", "next", "writing", "wrote"}
  /\ plan \subseteq Calls
  /\ todo \subseteq Calls
  /\ at \subseteq Calls
  /\ failed \in BOOLEAN
  /\ killed \in BOOLEAN

FixturesInit ==
  /\ fixture = [k \in Calls |-> "absent"]
  /\ rec = "off"
  /\ plan = {}
  /\ todo = {}
  /\ at = {}
  /\ failed = FALSE
  /\ killed = FALSE

-----------------------------------------------------------------------------
(***************************************************************************)
(* ReplayToolRecorder.execute, for a tool of STRICT_TOOL_NAMES: what is    *)
(* served, or "raise" for FixtureMissingError.  Every other tool is served *)
(* as if strict were off, and local tools run.  The file is looked for     *)
(* first and read after that: another process may have it in between.      *)
(***************************************************************************)
\* path.exists()
Exists(k) == fixture[k] # "absent"

\* a missing file is an answer like any other
MissingIsServed(strict) == "unavailable"

\* The file was not there: fixture_missing.
Missing(strict) == IF strict THEN "raise" ELSE "unavailable"

\* what was recorded is served
ServesWhatIsThere(k, strict) ==
  IF fixture[k] \in Results THEN fixture[k] ELSE "unavailable"

\* It was there and is read: gone by now or half written, it is
\* fixture_unreadable, with strict too.
Replays(k, strict) ==
  IF fixture[k] = "answer" THEN "answer"
  ELSE IF fixture[k] = "poison" THEN IF strict THEN "raise" ELSE "poison"
  ELSE "unavailable"

-----------------------------------------------------------------------------
\* planned_calls, or those of one tool with --only.
RecordBegins ==
  /\ rec = "off"
  /\ rec' = "next"
  /\ plan' \in SUBSET Calls \ {{}}
  /\ todo' = plan'
  /\ failed' = FALSE
  /\ UNCHANGED <<fixture, at, killed>>

\* A fixture that is there is not recorded again, whatever it holds.
RecordSkips ==
  /\ rec = "next"
  /\ \E k \in todo : fixture[k] # "absent" /\ todo' = todo \ {k}
  /\ UNCHANGED <<fixture, rec, plan, at, failed, killed>>

\* registry.execute: the tool raises and nothing is written, ...
ToolRaises ==
  /\ rec = "next"
  /\ \E k \in todo : fixture[k] = "absent" /\ todo' = todo \ {k}
  /\ failed' = TRUE
  /\ UNCHANGED <<fixture, rec, plan, at, killed>>

\* ... or it returns, and write_fixture opens the file.
ToolReturns ==
  /\ rec = "next"
  /\ \E k \in todo :
       /\ fixture[k] = "absent"
       /\ fixture' = [fixture EXCEPT ![k] = "partial"]
       /\ todo' = todo \ {k}
       /\ at' = {k}
  /\ rec' = "writing"
  /\ UNCHANGED <<plan, failed, killed>>

\* An answer, an unavailable that reproduces, or one that does not.
FixtureWritten ==
  /\ rec = "writing"
  /\ rec' = "wrote"
  /\ \E r \in Results : fixture' = [k \in Calls |-> IF k \in at THEN r ELSE fixture[k]]
  /\ UNCHANGED <<plan, todo, at, failed, killed>>

\* what a tool could not answer stays like an answer
KeepsWhatWasWritten ==
  /\ rec = "wrote"
  /\ rec' = "next"
  /\ at' = {}
  /\ UNCHANGED <<fixture, plan, todo, failed, killed>>

\* A reason outside DETERMINISTIC_REASONS: the file is unlinked, and reported.
ChecksReason ==
  /\ rec = "wrote"
  /\ rec' = "next"
  /\ at' = {}
  /\ IF \E k \in at : fixture[k] = "poison"
       THEN /\ fixture' = [k \in Calls |-> IF k \in at THEN "absent" ELSE fixture[k]]
            /\ failed' = TRUE
       ELSE UNCHANGED <<fixture, failed>>
  /\ UNCHANGED <<plan, todo, killed>>

\* The process is gone; its report named a failure or none.
RecordGone ==
  /\ rec' = "off"
  /\ plan' = {} /\ todo' = {} /\ at' = {}
  /\ failed' = FALSE
  /\ UNCHANGED fixture

RecordEnds == rec = "next" /\ todo = {} /\ RecordGone /\ UNCHANGED killed

RecordKilled ==
  /\ "kill" \in EvalFaults
  /\ rec # "off"
  /\ RecordGone
  /\ killed' = TRUE

RecordStep ==
  \/ RecordBegins \/ RecordSkips \/ ToolRaises \/ ToolReturns
  \/ FixtureWritten \/ ChecksReason \/ RecordEnds \/ RecordKilled

-----------------------------------------------------------------------------
(***************************************************************************)
(* A record run that ends without a failure leaves a file for every call   *)
(* it was asked for, and an answer in each of them: a strict replay does   *)
(* not fail.  Only a run that was killed leaves anything else behind, and  *)
(* the runs after it skip that file.                                       *)
(***************************************************************************)
RecordedIsReplayable ==
  /\ rec # "off" /\ ~failed => \A k \in plan \ todo : fixture[k] # "absent"
  /\ ~killed => \A k \in Calls : fixture[k] \in {"partial", "poison"} => k \in at
=============================================================================
