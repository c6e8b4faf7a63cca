------------------------------ MODULE Labelling ------------------------------
(***************************************************************************)
(* The golden file and the processes that append to it: evals.label_tool   *)
(* asks a person case by case, evals.ai_label asks the model for all cases *)
(* and writes at the end.  Both read what is labelled once, at their start.*)
(***************************************************************************)
EXTENDS GoldenConstants, SequencesExt

VARIABLES
  golden,    \* lines of the golden file: [case, by], or Torn
  ended,     \* its last line has its newline
  where,     \* where[p]: where labeller p is
  todo,      \* todo[p]: cases it has not come to
  shared,    \* history: two labellers were at work at a time
  cut        \* history: a labeller was killed inside a line

labelVars == <<golden, ended, where, todo, shared, cut>>

Torn == [case |-> 0, by |-> "torn"]

Lines == [case : Alerts, by : {"human", "ai"}] \cup {Torn}

LabellingTypeOK ==
  /\ golden \in Seq(Lines)
  /\ ended \in BOOLEAN
  /\ where \in [Labelers -> {"off", "asking", "calling", "writing"}]
  /\ todo \in [Labelers -> SUBSET Alerts]
  /\ shared \in BOOLEAN
  /\ cut \in BOOLEAN

LabellingInit ==
  /\ golden = <<>>
  /\ ended = TRUE
  /\ where = [p \in Labelers |-> "off"]
  /\ todo = [p \in Labelers |-> {}]
  /\ shared = FALSE
  /\ cut = FALSE

-----------------------------------------------------------------------------
Cases == {golden[i].case : i \in DOMAIN golden}

\* load_golden: each line is a case, and no case is there twice.
Loads ==
  /\ \A i \in DOMAIN golden : golden[i] # Torn
  /\ \A i, j \in DOMAIN golden : golden[i].case = golden[j].case => i = j

\* A line appended to one without its newline makes one line of both.
Appended(line) ==
  IF ended THEN Append(golden, line)
  ELSE [golden EXCEPT ![Len(golden)] = Torn]

\* the file is opened for writing
WritesOver(line) == golden' = <<line>> /\ ended' = TRUE

\* Writing: the line and its newline, and the flush.
Writes(line) ==
  /\ Len(golden) < MaxRows
  /\ golden' = Appended(line)
  /\ ended' = TRUE

Leaves(p) ==
  /\ where' = [where EXCEPT ![p] = "off"]
  /\ todo' = [todo EXCEPT ![p] = {}]

\* what another session labels from now on is not seen, nor what is there
BeginsAfresh(p, there, file) ==
  /\ where[p] = "off"
  /\ Loads
  /\ where' = [where EXCEPT ![p] = there]
  /\ todo' = [todo EXCEPT ![p] = file]
  /\ shared' = (shared \/ \E q \in Labelers : where[q] # "off")
  /\ UNCHANGED <<golden, cut>>

\* A file that does not load ends the process; what it has is not asked again.
Begins(p, there, file) ==
  /\ where[p] = "off"
  /\ Loads
  /\ where' = [where EXCEPT ![p] = there]
  /\ todo' = [todo EXCEPT ![p] = file \ Cases]
  /\ shared' = (shared \/ \E q \in Labelers : where[q] # "off")
  /\ UNCHANGED <<golden, cut>>

\* label: --start-at leaves some out; a last line without newline gets one.
LabelBegins(p, file) ==
  /\ \E rest \in SUBSET file : Begins(p, "asking", rest)
  /\ ended' = TRUE

\* prompt_label, answered: the line is written before the next is asked.
Labels(p) ==
  /\ where[p] = "asking"
  /\ \E a \in todo[p] :
       /\ Writes([case |-> a, by |-> "human"])
       /\ todo' = [todo EXCEPT ![p] = @ \ {a}]
  /\ UNCHANGED <<where, shared, cut>>

\* "s" at the severity prompt.
Skips(p) ==
  /\ where[p] = "asking"
  /\ \E a \in todo[p] : todo' = [todo EXCEPT ![p] = @ \ {a}]
  /\ UNCHANGED <<golden, ended, where, shared, cut>>

\* "q", or the end of the candidates.
Quits(p) ==
  /\ where[p] = "asking"
  /\ Leaves(p)
  /\ UNCHANGED <<golden, ended, shared, cut>>

AiBegins(p, file) == Begins(p, "calling", file) /\ UNCHANGED ended

\* gather: every case is run; one that fails is left out.
AiAnswers(p) ==
  /\ where[p] = "calling"
  /\ where' = [where EXCEPT ![p] = "writing"]
  /\ \E answered \in SUBSET todo[p] : todo' = [todo EXCEPT ![p] = answered]
  /\ ended' = TRUE
  /\ UNCHANGED <<golden, shared, cut>>

AiWrites(p) ==
  /\ where[p] = "writing"
  /\ \E a \in todo[p] :
       /\ Writes([case |-> a, by |-> "ai"])
       /\ todo' = [todo EXCEPT ![p] = @ \ {a}]
  /\ UNCHANGED <<where, shared, cut>>

AiEnds(p) ==
  /\ where[p] = "writing"
  /\ todo[p] = {}
  /\ Leaves(p)
  /\ UNCHANGED <<golden, ended, shared, cut>>

\* Killed inside a line, or between it and its newline.
CutsLine(p) ==
  /\ where[p] \in {"asking", "writing"}
  /\ Len(golden) < MaxRows
  /\ ended' = FALSE
  /\ \/ todo[p] # {} /\ golden' = Appended(Torn) /\ cut' = TRUE
     \/ \E a \in todo[p], by \in {"human", "ai"} :
          /\ by = "human" <=> where[p] = "asking"
          /\ golden' = Appended([case |-> a, by |-> by])
          /\ UNCHANGED cut

Killed(p) ==
  /\ "kill" \in GoldenFaults
  /\ where[p] # "off"
  /\ CutsLine(p) \/ UNCHANGED <<golden, ended, cut>>
  /\ Leaves(p)
  /\ UNCHANGED shared

LabelStep(p) ==
  \/ Labels(p) \/ Skips(p) \/ Quits(p)
  \/ AiAnswers(p) \/ AiWrites(p) \/ AiEnds(p) \/ Killed(p)

-----------------------------------------------------------------------------
(***************************************************************************)
(* The golden file can be loaded, with each case once, however many        *)
(* sittings, models and candidate files it was labelled from, and though   *)
(* sittings were killed: unless two labellers worked at a time, or a kill  *)
(* left a part of a line.                                                  *)
(***************************************************************************)
GoldenLoads == ~shared /\ ~cut => Loads

(***************************************************************************)
(* A label that was written, its newline too, stands, whoever writes after *)
(* it: no row is lost, and none that the model wrote becomes a person's.   *)
(* A last row without its newline is exempt: a labeller that was already   *)
(* at work when another was killed glues its own row to it.                *)
(***************************************************************************)
LabelsStand ==
  [][\A i \in 1..Len(golden) :
       i < Len(golden) \/ ended => i <= Len(golden') /\ golden'[i] = golden[i]]_labelVars
=============================================================================
