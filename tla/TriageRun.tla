----------------------------- MODULE TriageRun -----------------------------
(***************************************************************************)
(* TriagePipeline.run (worker/triage.py): the cheap model's tool loop, the *)
(* forced final answer, one retry of an answer that does not validate, and *)
(* the escalation to the strong model.  Every LLM call is a budget check,  *)
(* the call, and the record of its tokens, with other runs in between.     *)
(***************************************************************************)
EXTENDS TokenBudget, Sequences

VARIABLES
  pc,         \* pc[r]: what run r does next, or how it ended
  site,       \* the call it is at: a tool turn, a final call or a retry
  tier,       \* the model it calls
  turn,       \* tool turns completed
  messages,   \* the conversation
  todo,       \* tools of this turn still to execute
  reply,      \* the model's last valid answer
  totals,     \* Totals: tokens this run accounts for
  retried,    \* TriageOutcome.retried
  calls,      \* history: LLM calls made
  billed,     \* history: tokens the provider billed
  rejects,    \* history: answers that did not validate
  spent       \* history: tokens billed since midnight, to all the runs

stepVars == <<pc, site, tier, turn>>
talkVars == <<messages, todo, reply>>
ledgerVars == <<totals, retried>>
historyVars == <<calls, billed, rejects, spent>>
vars == <<budgetVars, stepVars, talkVars, ledgerVars, historyVars>>

Active == {"check", "call", "record", "tools"}
Ended == {"done", "budget", "invalid", "error", "cancelled"}

\* A message: its author and, for the model's tool calls, how many.
Message(role, n) == [role |-> role, n |-> n]
Messages == [role : {"prompt", "calls", "result", "cap", "reply", "fix"}, n : Nat]

Verdicts == [severity : 1..5, confidence : 0..100]
NoVerdict == [severity |-> 0, confidence |-> 0]
Replies == [tokens : 0..MaxUsage, tools : 0..MaxTools, verdict : Verdicts \cup {NoVerdict}]
NoReply == [tokens |-> 0, tools |-> 0, verdict |-> NoVerdict]

TypeOK ==
  /\ BudgetTypeOK
  /\ pc \in [Runs -> Active \cup Ended]
  /\ site \in [Runs -> {"turn", "final", "retry"}]
  /\ tier \in [Runs -> {"cheap", "strong"}]
  /\ turn \in [Runs -> 0..MaxIter]
  /\ messages \in [Runs -> Seq(Messages)]
  /\ todo \in [Runs -> 0..MaxTools]
  /\ reply \in [Runs -> Replies]
  /\ totals \in [Runs -> Nat]
  /\ retried \in [Runs -> BOOLEAN]
  /\ calls \in [Runs -> Nat]
  /\ billed \in [Runs -> Nat]
  /\ rejects \in [Runs -> Nat]
  /\ spent \in Nat

Init ==
  /\ BudgetInit
  /\ pc = [r \in Runs |-> "check"]
  /\ site = [r \in Runs |-> IF MaxIter = 0 THEN "final" ELSE "turn"]
  /\ tier = [r \in Runs |-> "cheap"]
  /\ turn = [r \in Runs |-> 0]
  /\ messages = [r \in Runs |-> <<Message("prompt", 0)>>]
  /\ todo = [r \in Runs |-> 0]
  /\ reply = [r \in Runs |-> NoReply]
  /\ totals = [r \in Runs |-> 0]
  /\ retried = [r \in Runs |-> FALSE]
  /\ calls = [r \in Runs |-> 0]
  /\ billed = [r \in Runs |-> 0]
  /\ rejects = [r \in Runs |-> 0]
  /\ spent = 0

Goes(r, there) == pc' = [pc EXCEPT ![r] = there]
Adds(f, r, n) == [f EXCEPT ![r] = @ + n]
Says(r, ms) == messages' = [messages EXCEPT ![r] = @ \o ms]

-----------------------------------------------------------------------------
Admits(r) == Goes(r, "call") /\ calls' = Adds(calls, r, 1)

\* BudgetExceededError
Defers(r) == WouldExceed /\ Goes(r, "budget") /\ UNCHANGED calls

\* only the tool turns are checked
ChecksTurnsOnly(r) ==
  /\ pc[r] = "check"
  /\ \/ (MayCall \/ site[r] # "turn") /\ Admits(r)
     \/ Defers(r)
  /\ UNCHANGED <<budgetVars, site, tier, turn, talkVars, ledgerVars, billed, rejects, spent>>

\* _check_budget, before every call.
ChecksBudget(r) ==
  /\ pc[r] = "check"
  /\ \/ MayCall /\ Admits(r)
     \/ Defers(r)
  /\ UNCHANGED <<budgetVars, site, tier, turn, talkVars, ledgerVars, billed, rejects, spent>>

\* A call is billed u tokens.
Billed(r, u) ==
  /\ pc[r] = "call"
  /\ billed' = Adds(billed, r, u)
  /\ spent' = spent + u
  /\ UNCHANGED <<budgetVars, calls>>

\* complete_with_tools returns a ToolCallTurn.
AsksForTools(r) ==
  /\ site[r] = "turn"
  /\ \E u \in Usages, n \in 1..MaxTools :
       /\ Billed(r, u)
       /\ reply' = [reply EXCEPT ![r] = [tokens |-> u, tools |-> n, verdict |-> NoVerdict]]
  /\ Goes(r, "record")
  /\ UNCHANGED <<site, tier, turn, messages, todo, ledgerVars, rejects>>

\* complete_with_tools or complete_structured returns a validated verdict.
AnswersVerdict(r) ==
  /\ \E u \in Usages, s \in Severities, c \in Confidences :
       /\ Billed(r, u)
       /\ reply' = [reply EXCEPT ![r] =
            [tokens |-> u, tools |-> 0, verdict |-> [severity |-> s, confidence |-> c]]]
  /\ Goes(r, "record")
  /\ UNCHANGED <<site, tier, turn, messages, todo, ledgerVars, rejects>>

RetriesOnce(r) ==
  /\ site[r] # "retry"
  /\ \E u \in Usages : Billed(r, u) /\ totals' = Adds(totals, r, u)
  /\ rejects' = Adds(rejects, r, 1)
  /\ site' = [site EXCEPT ![r] = "retry"]
  /\ Goes(r, "check")
  /\ UNCHANGED <<tier, turn, todo, reply, retried>>

\* the rejected answer is added to the run's own conversation
RejectedInPlace(r) ==
  /\ RetriesOnce(r)
  /\ Says(r, <<Message("reply", 0), Message("fix", 0)>>)

\* StructuredOutputError: _retry_once accounts for it and asks again, over a
\* copy of the conversation.
Rejected(r) == RetriesOnce(r) /\ UNCHANGED messages

\* A second one: VerdictValidationError.
RejectedTwice(r) ==
  /\ site[r] = "retry"
  /\ \E u \in Usages : Billed(r, u)
  /\ rejects' = Adds(rejects, r, 1)
  /\ Goes(r, "invalid")
  /\ UNCHANGED <<site, tier, turn, talkVars, ledgerVars>>

\* LLMCallError: no response, or one without usable content, which is billed.
CallFails(r) ==
  /\ \E u \in 0..MaxUsage : Billed(r, u)
  /\ Goes(r, "error")
  /\ UNCHANGED <<site, tier, turn, talkVars, ledgerVars, rejects>>

-----------------------------------------------------------------------------
\* _record_usage: an error of Redis ends the run.
RecordFails(r) ==
  /\ "write" \in Faults
  /\ pc[r] = "record"
  /\ Goes(r, "error")
  /\ RecordTokens(reply[r].tokens) \/ UNCHANGED budgetVars
  /\ UNCHANGED <<site, tier, turn, talkVars, ledgerVars, historyVars>>

Recorded(r) ==
  /\ pc[r] = "record"
  /\ RecordTokens(reply[r].tokens)
  /\ totals' = Adds(totals, r, reply[r].tokens)

StartsTools(r) ==
  /\ reply[r].tools > 0
  /\ Recorded(r)
  /\ Says(r, <<Message("calls", reply[r].tools)>>)
  /\ todo' = [todo EXCEPT ![r] = reply[r].tools]
  /\ Goes(r, "tools")
  /\ UNCHANGED <<site, tier, turn, reply, retried, historyVars>>

\* should_escalate
ShouldEscalate(v) == v.severity >= SeverityGte \/ v.confidence < ConfidenceLt

Escalating(r) == Routing /\ tier[r] = "cheap" /\ ShouldEscalate(reply[r].verdict)

Retries(r) == retried' = [retried EXCEPT ![r] = @ \/ site[r] = "retry"]

\* The run's outcome.
Decides(r) ==
  /\ reply[r].tools = 0
  /\ ~Escalating(r)
  /\ Recorded(r)
  /\ Retries(r)
  /\ Goes(r, "done")
  /\ UNCHANGED <<site, tier, turn, talkVars, historyVars>>

ToStrong(r) ==
  /\ reply[r].tools = 0
  /\ Escalating(r)
  /\ tier' = [tier EXCEPT ![r] = "strong"]
  /\ site' = [site EXCEPT ![r] = "final"]
  /\ Goes(r, "check")
  /\ UNCHANGED <<turn, talkVars, historyVars>>

\* the strong pass reports its own retry only
EscalatesAfresh(r) == ToStrong(r) /\ Recorded(r) /\ UNCHANGED retried

\* the strong pass starts from Totals()
EscalatesUnseeded(r) ==
  /\ ToStrong(r)
  /\ pc[r] = "record"
  /\ RecordTokens(reply[r].tokens)
  /\ totals' = [totals EXCEPT ![r] = 0]
  /\ Retries(r)

\* The strong model gets the same conversation, once, without tools; the
\* totals go on from the cheap pass's.
Escalates(r) == ToStrong(r) /\ Recorded(r) /\ Retries(r)

\* ToolRegistry.execute never raises: the next tool of the turn has a result.
ExecutesTool(r) ==
  /\ pc[r] = "tools"
  /\ todo[r] > 1
  /\ todo' = [todo EXCEPT ![r] = @ - 1]
  /\ Says(r, <<Message("result", 0)>>)
  /\ UNCHANGED <<budgetVars, stepVars, reply, ledgerVars, historyVars>>

LastTool(r) ==
  /\ pc[r] = "tools"
  /\ todo[r] = 1
  /\ todo' = [todo EXCEPT ![r] = 0]
  /\ Goes(r, "check")
  /\ UNCHANGED <<budgetVars, tier, reply, ledgerVars, historyVars>>

AnotherTurn(r) ==
  /\ turn' = Adds(turn, r, 1)
  /\ Says(r, <<Message("result", 0)>>)
  /\ UNCHANGED site

\* FINAL_VERDICT_INSTRUCTION
ForcedFinal(r) ==
  /\ Says(r, <<Message("result", 0), Message("cap", 0)>>)
  /\ site' = [site EXCEPT ![r] = "final"]

\* the cap is seen one turn late
EndsTurnLate(r) ==
  /\ LastTool(r)
  /\ \/ turn[r] < MaxIter /\ AnotherTurn(r)
     \/ turn[r] = MaxIter /\ ForcedFinal(r) /\ UNCHANGED turn

\* nothing forces a final call
EndsTurnUncapped(r) == LastTool(r) /\ AnotherTurn(r)

\* The turn's last tool: another turn, or at the cap the forced final call.
EndsTurn(r) ==
  /\ LastTool(r)
  /\ \/ turn[r] + 1 < MaxIter /\ AnotherTurn(r)
     \/ turn[r] + 1 = MaxIter /\ ForcedFinal(r) /\ turn' = Adds(turn, r, 1)

\* CancelledError at any await; a call under way may be billed all the same.
Cancels(r) ==
  /\ "cancel" \in Faults
  /\ \/ pc[r] \in Active /\ UNCHANGED <<budgetVars, billed, spent, calls>>
     \/ \E u \in Usages : Billed(r, u)
  /\ Goes(r, "cancelled")
  /\ UNCHANGED <<site, tier, turn, talkVars, ledgerVars, rejects>>

-----------------------------------------------------------------------------
Call(r) ==
  \/ AsksForTools(r) \/ AnswersVerdict(r) \/ Rejected(r) \/ RejectedTwice(r)
  \/ CallFails(r)

Handle(r) ==
  \/ StartsTools(r) \/ Decides(r) \/ Escalates(r) \/ RecordFails(r)
  \/ ExecutesTool(r) \/ EndsTurn(r)

DayEnds ==
  /\ Midnight
  /\ spent' = 0
  /\ UNCHANGED <<stepVars, talkVars, ledgerVars, calls, billed, rejects>>

Next ==
  \/ \E r \in Runs : ChecksBudget(r) \/ Call(r) \/ Handle(r) \/ Cancels(r)
  \/ DayEnds

Spec == Init /\ [][Next]_vars

-----------------------------------------------------------------------------
(***************************************************************************)
(* One attempt makes at most TOOL_LOOP_MAX_ITER + 4 LLM calls: the tool    *)
(* turns, the forced verdict, the strong model's verdict, and one          *)
(* validation retry on each tier (PRD.md, 6.2).                            *)
(***************************************************************************)
CallBound == \A r \in Runs : calls[r] <= MaxIter + 4

(***************************************************************************)
(* The outcome that is stored with a verdict accounts for every token the  *)
(* run was billed, rejected answers and both tiers included.               *)
(***************************************************************************)
TotalsAccount == \A r \in Runs : pc[r] = "done" => totals[r] = billed[r]

(***************************************************************************)
(* The outcome says `retried` exactly when an answer of the run, on either *)
(* tier, was rejected.                                                     *)
(***************************************************************************)
RetriedIsReported ==
  \A r \in Runs : pc[r] = "done" => (retried[r] <=> rejects[r] > 0)

(***************************************************************************)
(* Whatever was called before, the conversation a final call gets ends in  *)
(* evidence: every tool call is followed by its results, and no answer of  *)
(* the model is in it, so the strong model is not anchored.                *)
(***************************************************************************)
EvidenceOnly ==
  \A r \in Runs : pc[r] = "call" =>
    \A i \in 1..Len(messages[r]) :
      /\ messages[r][i].role # "reply"
      /\ \A j \in 1..messages[r][i].n :
           i + j <= Len(messages[r]) /\ messages[r][i + j].role = "result"

(***************************************************************************)
(* Runs check the counter before a call and add to it after, while others  *)
(* are between the two: what is counted in a day overshoots the budget by  *)
(* less than one call for each run.  What is billed overshoots it by more: *)
(* the tokens of a rejected answer, of a failed call and of a cancelled    *)
(* run are never counted, up to two rejections and the call a run ends     *)
(* with, so the bound is three calls for each run of the day.  Both while  *)
(* the counter can be read.                                                *)
(***************************************************************************)
OvershootBounded ==
  Budget > 0 /\ "read" \notin Faults =>
    /\ counter < Budget + Cardinality(Runs) * MaxUsage
    /\ spent < Budget + 3 * (Cardinality(Runs) * MaxUsage)
=============================================================================
