-------------------------- MODULE TriageRunProofs --------------------------
(***************************************************************************)
(* Theorems about the triage pipeline, for every number of runs, budget,   *)
(* tool-loop cap, threshold and fault.                                     *)
(***************************************************************************)
EXTENDS TriageRun, FiniteSetTheorems, SequenceTheorems, TLAPS

\* Calls a run may have made before the call it is at.
Before(r) ==
  IF tier[r] = "strong"
    THEN IF site[r] = "retry" THEN MaxIter + 3 ELSE MaxIter + 2
    ELSE IF site[r] = "turn" THEN turn[r]
         ELSE IF site[r] = "retry" THEN MaxIter + 1 ELSE MaxIter

(***************************************************************************)
(* Where a run is bounds the calls it has made: tools are offered only to  *)
(* the cheap model and only below the cap, and every site is passed once.  *)
(***************************************************************************)
Position(r) ==
  /\ pc[r] \in Active /\ site[r] = "turn" => tier[r] = "cheap" /\ turn[r] < MaxIter
  /\ pc[r] = "tools" => site[r] = "turn"
  /\ pc[r] = "record" /\ reply[r].tools > 0 => site[r] = "turn"
  /\ pc[r] = "check" => calls[r] <= Before(r)
  /\ pc[r] \in {"call", "record", "tools"} => calls[r] <= Before(r) + 1
  /\ calls[r] <= MaxIter + 4

(***************************************************************************)
(* Between two calls the totals are what was billed; between an answer and *)
(* its record they lack that answer.                                       *)
(***************************************************************************)
Ledger(r) ==
  /\ pc[r] \in {"check", "call", "tools", "done"} => totals[r] = billed[r]
  /\ pc[r] = "record" => totals[r] + reply[r].tokens = billed[r]

(***************************************************************************)
(* A rejected answer is remembered by the site until a verdict is taken.   *)
(***************************************************************************)
Reported(r) ==
  /\ pc[r] \in Active => (retried[r] = TRUE \/ site[r] = "retry" <=> rejects[r] > 0)
  /\ pc[r] = "done" => (retried[r] = TRUE <=> rejects[r] > 0)

\* Calls that passed the check and are not in the counter.
Outstanding == {r \in Runs : pc[r] \in {"call", "record"}}

(***************************************************************************)
(* What the counter can still grow to.                                     *)
(***************************************************************************)
Headroom ==
  Budget > 0 /\ "read" \notin Faults =>
    counter + Cardinality(Outstanding) * MaxUsage
      < Budget + Cardinality(Runs) * MaxUsage

IndInv ==
  /\ TypeOK
  /\ \A r \in Runs : Position(r) /\ Ledger(r) /\ Reported(r)
  /\ Headroom

(***************************************************************************)
(* Multiples of the largest call.                                          *)
(***************************************************************************)
LEMMA Multiples ==
  ASSUME NEW a \in Nat, NEW b \in Nat, NEW u \in Nat
  PROVE  /\ a * u \in Nat
         /\ a <= b => a * u <= b * u
         /\ (a + 1) * u = a * u + u
OBVIOUS

(***************************************************************************)
(* Sets of runs are finite, and their sizes compare.                       *)
(***************************************************************************)
LEMMA Sizes ==
  /\ Cardinality(Runs) \in Nat
  /\ \A S \in SUBSET Runs : IsFiniteSet(S) /\ Cardinality(S) \in Nat
                            /\ Cardinality(S) <= Cardinality(Runs)
<1>1. Cardinality(Runs) \in Nat
  BY RunsAssumption, FS_CardinalityType
<1>2. ASSUME NEW S \in SUBSET Runs
      PROVE  IsFiniteSet(S) /\ Cardinality(S) \in Nat
             /\ Cardinality(S) <= Cardinality(Runs)
  <2>1. IsFiniteSet(S) /\ Cardinality(S) <= Cardinality(Runs)
    BY RunsAssumption, FS_Subset
  <2> QED BY <2>1, FS_CardinalityType
<1> QED BY <1>1, <1>2

(***************************************************************************)
(* The initial state satisfies the invariant.                              *)
(***************************************************************************)
LEMMA InitInv == Init => IndInv
<1> SUFFICES ASSUME Init PROVE IndInv
  OBVIOUS
<1> USE BudgetAssumption, LoopAssumption, DaysAssumption DEF Init
<1>1. BudgetTypeOK
  BY DEF BudgetInit, BudgetTypeOK
<1>2. /\ pc \in [Runs -> Active \cup Ended]
      /\ site \in [Runs -> {"turn", "final", "retry"}]
      /\ tier \in [Runs -> {"cheap", "strong"}]
      /\ turn \in [Runs -> 0..MaxIter]
      /\ todo \in [Runs -> 0..MaxTools]
  BY DEF Active, Ended
<1>3. messages \in [Runs -> Seq(Messages)]
  <2>1. <<Message("prompt", 0)>> \in Seq(Messages)
    BY DEF Message, Messages
  <2> QED BY <2>1
<1>4. reply \in [Runs -> Replies]
  BY DEF NoReply, NoVerdict, Replies
<1>5. /\ totals \in [Runs -> Nat] /\ calls \in [Runs -> Nat]
      /\ billed \in [Runs -> Nat] /\ rejects \in [Runs -> Nat] /\ spent \in Nat
  OBVIOUS
<1>6. retried \in [Runs -> BOOLEAN]
  BY Zenon
<1>7. TypeOK
  BY <1>1, <1>2, <1>3, <1>4, <1>5, <1>6, Zenon DEF TypeOK
<1>8. ASSUME NEW r \in Runs PROVE Position(r) /\ Ledger(r)
  BY DEF Position, Ledger, Before, Active
<1>9. ASSUME NEW r \in Runs PROVE Reported(r)
  <2>1. retried[r] = FALSE
    BY Zenon
  <2> QED BY <2>1 DEF Reported, Active
<1>10. Headroom
  <2>1. Outstanding = {}
    BY DEF Outstanding
  <2>2. Cardinality(Outstanding) * MaxUsage = 0
    BY <2>1, FS_EmptySet
  <2>3. Cardinality(Runs) * MaxUsage \in Nat
    BY Sizes, Multiples
  <2> QED BY <2>2, <2>3 DEF Headroom, BudgetInit
<1> QED BY <1>7, <1>8, <1>9, <1>10 DEF IndInv

(***************************************************************************)
(* A ledger of natural numbers stays one.                                  *)
(***************************************************************************)
LEMMA AddsType ==
  ASSUME NEW f \in [Runs -> Nat], NEW r \in Runs, NEW n \in Nat
  PROVE  /\ Adds(f, r, n) \in [Runs -> Nat]
         /\ Adds(f, r, n)[r] = f[r] + n
         /\ \A q \in Runs \ {r} : Adds(f, r, n)[q] = f[q]
BY DEF Adds

\* The actions of run r.
RunStep(r) ==
  \/ ChecksBudget(r) \/ AsksForTools(r) \/ AnswersVerdict(r) \/ Rejected(r)
  \/ RejectedTwice(r) \/ CallFails(r) \/ StartsTools(r) \/ Decides(r)
  \/ Escalates(r) \/ RecordFails(r) \/ ExecutesTool(r) \/ EndsTurn(r) \/ Cancels(r)

(***************************************************************************)
(* What a call does to the ledgers.                                        *)
(***************************************************************************)
LEMMA BilledType ==
  ASSUME TypeOK, NEW r \in Runs, NEW u \in 0..MaxUsage, Billed(r, u)
  PROVE  /\ pc[r] = "call"
         /\ billed' \in [Runs -> Nat]
         /\ billed'[r] = billed[r] + u
         /\ \A q \in Runs \ {r} : billed'[q] = billed[q]
         /\ calls' = calls /\ counter' = counter /\ days' = days
         /\ spent' = spent + u /\ spent' \in Nat
<1>1. billed \in [Runs -> Nat] /\ u \in Nat /\ spent \in Nat
  BY BudgetAssumption DEF TypeOK
<1>2. billed' = Adds(billed, r, u) /\ spent' = spent + u
  BY DEF Billed
<1>3. pc[r] = "call" /\ calls' = calls /\ counter' = counter /\ days' = days
  BY DEF Billed, budgetVars
<1> QED BY <1>1, <1>2, <1>3, AddsType

(***************************************************************************)
(* What the record of an answer does to the ledgers.                       *)
(***************************************************************************)
LEMMA RecordedType ==
  ASSUME TypeOK, NEW r \in Runs, Recorded(r)
  PROVE  /\ pc[r] = "record"
         /\ totals' \in [Runs -> Nat]
         /\ totals'[r] = totals[r] + reply[r].tokens
         /\ \A q \in Runs \ {r} : totals'[q] = totals[q]
         /\ counter' = counter + reply[r].tokens
         /\ BudgetTypeOK'
<1>1. totals \in [Runs -> Nat] /\ reply[r].tokens \in Nat /\ BudgetTypeOK
  BY BudgetAssumption DEF TypeOK, Replies
<1>2. totals' = Adds(totals, r, reply[r].tokens) /\ pc[r] = "record"
  BY DEF Recorded
<1>3. counter' = counter + reply[r].tokens /\ days' = days
  BY DEF Recorded, RecordTokens
<1>4. BudgetTypeOK'
  BY <1>1, <1>3 DEF BudgetTypeOK
<1> QED BY <1>1, <1>2, <1>3, <1>4, AddsType

(***************************************************************************)
(* The types of where a run is.                                            *)
(***************************************************************************)
ControlOK ==
  /\ pc \in [Runs -> Active \cup Ended]
  /\ site \in [Runs -> {"turn", "final", "retry"}]
  /\ tier \in [Runs -> {"cheap", "strong"}]
  /\ turn \in [Runs -> 0..MaxIter]
  /\ todo \in [Runs -> 0..MaxTools]

LEMMA ControlType ==
  ASSUME TypeOK, NEW r \in Runs, RunStep(r)
  PROVE  ControlOK'
<1> USE LoopAssumption
<1>0. ControlOK
  BY Zenon DEF TypeOK, ControlOK
<1>g. \A there \in Active \cup Ended :
        Goes(r, there) => pc' \in [Runs -> Active \cup Ended]
  BY <1>0 DEF ControlOK, Goes
<1>e. /\ {"check", "call", "record", "tools"} \subseteq Active \cup Ended
      /\ {"done", "budget", "invalid", "error", "cancelled"} \subseteq Active \cup Ended
  BY DEF Active, Ended
<1>1. CASE ChecksBudget(r)
  BY <1>0, <1>1, <1>g, <1>e DEF ControlOK, ChecksBudget, Admits, Defers, talkVars
<1>2. CASE AsksForTools(r) \/ AnswersVerdict(r)
  BY <1>0, <1>2, <1>g, <1>e DEF ControlOK, AsksForTools, AnswersVerdict
<1>3. CASE Rejected(r)
  BY <1>0, <1>3, <1>g, <1>e DEF ControlOK, Rejected, RetriesOnce
<1>4. CASE RejectedTwice(r) \/ CallFails(r) \/ RecordFails(r) \/ Cancels(r)
  BY <1>0, <1>4, <1>g, <1>e
  DEF ControlOK, RejectedTwice, CallFails, RecordFails, Cancels, talkVars
<1>5. CASE StartsTools(r)
  <2>1. reply[r].tools \in 0..MaxTools
    BY DEF TypeOK, Replies
  <2> QED BY <1>0, <1>5, <1>g, <1>e, <2>1 DEF ControlOK, StartsTools
<1>6. CASE Decides(r)
  BY <1>0, <1>6, <1>g, <1>e DEF ControlOK, Decides, talkVars
<1>7. CASE Escalates(r)
  BY <1>0, <1>7, <1>g, <1>e DEF ControlOK, Escalates, ToStrong, talkVars
<1>8. CASE ExecutesTool(r)
  BY <1>0, <1>8 DEF ControlOK, ExecutesTool, stepVars
<1>9. CASE EndsTurn(r)
  <2>1. turn' \in [Runs -> 0..MaxIter]
    <3>1. turn[r] \in 0..MaxIter /\ turn[r] + 1 <= MaxIter
      BY <1>0, <1>9 DEF ControlOK, EndsTurn
    <3>2. turn' = [turn EXCEPT ![r] = turn[r] + 1]
      BY <1>9 DEF EndsTurn, AnotherTurn, Adds
    <3> QED BY <1>0, <3>1, <3>2 DEF ControlOK
  <2>2. site' \in [Runs -> {"turn", "final", "retry"}]
    BY <1>0, <1>9 DEF ControlOK, EndsTurn, AnotherTurn, ForcedFinal
  <2>3. pc' \in [Runs -> Active \cup Ended] /\ tier' = tier
    BY <1>9, <1>g, <1>e DEF EndsTurn, LastTool
  <2>4. todo' \in [Runs -> 0..MaxTools]
    BY <1>0, <1>9 DEF ControlOK, EndsTurn, LastTool
  <2> QED BY <1>0, <2>1, <2>2, <2>3, <2>4 DEF ControlOK
<1> QED
  BY <1>1, <1>2, <1>3, <1>4, <1>5, <1>6, <1>7, <1>8, <1>9 DEF RunStep

(***************************************************************************)
(* The types of what a run counts.                                         *)
(***************************************************************************)
LedgerOK ==
  /\ totals \in [Runs -> Nat]
  /\ calls \in [Runs -> Nat]
  /\ billed \in [Runs -> Nat]
  /\ rejects \in [Runs -> Nat]
  /\ spent \in Nat
  /\ BudgetTypeOK

LEMMA LedgerType ==
  ASSUME TypeOK, NEW r \in Runs, RunStep(r)
  PROVE  LedgerOK'
<1>0. LedgerOK
  BY Zenon DEF TypeOK, LedgerOK
<1>a. ASSUME NEW n \in Nat
      PROVE  /\ Adds(totals, r, n) \in [Runs -> Nat]
             /\ Adds(calls, r, n) \in [Runs -> Nat]
             /\ Adds(rejects, r, n) \in [Runs -> Nat]
  BY <1>0, AddsType DEF LedgerOK
<1>u. Usages \subseteq 0..MaxUsage /\ Usages \subseteq Nat
  BY BudgetAssumption DEF Usages
<1>b. ASSUME \E u \in 0..MaxUsage : Billed(r, u)
      PROVE  billed' \in [Runs -> Nat] /\ calls' \in [Runs -> Nat] /\ spent' \in Nat /\ BudgetTypeOK'
  BY <1>0, <1>b, BilledType DEF LedgerOK, BudgetTypeOK
<1>1. CASE ChecksBudget(r)
  <2>1. calls' \in [Runs -> Nat]
    BY <1>0, <1>a, <1>1 DEF LedgerOK, ChecksBudget, Admits, Defers
  <2> QED
    BY <1>0, <1>1, <2>1 DEF LedgerOK, ChecksBudget, BudgetTypeOK, budgetVars, ledgerVars
<1>2. CASE AsksForTools(r) \/ AnswersVerdict(r)
  <2>1. \E u \in 0..MaxUsage : Billed(r, u)
    BY <1>2, <1>u DEF AsksForTools, AnswersVerdict
  <2>2. totals' = totals /\ rejects' = rejects
    BY <1>2 DEF AsksForTools, AnswersVerdict, ledgerVars
  <2> QED BY <1>0, <1>b, <2>1, <2>2 DEF LedgerOK
<1>3. CASE Rejected(r)
  <2>1. PICK u \in Usages : Billed(r, u) /\ totals' = Adds(totals, r, u)
    BY <1>3 DEF Rejected, RetriesOnce
  <2>2. rejects' = Adds(rejects, r, 1)
    BY <1>3 DEF Rejected, RetriesOnce
  <2>3. billed' \in [Runs -> Nat] /\ calls' \in [Runs -> Nat] /\ spent' \in Nat /\ BudgetTypeOK'
    BY <1>b, <1>u, <2>1
  <2>4. totals' \in [Runs -> Nat] /\ rejects' \in [Runs -> Nat]
    BY <1>a, <1>u, <2>1, <2>2
  <2> QED BY <2>3, <2>4 DEF LedgerOK
<1>4. CASE RejectedTwice(r)
  <2>1. \E u \in 0..MaxUsage : Billed(r, u)
    BY <1>4, <1>u DEF RejectedTwice
  <2>2. totals' = totals /\ rejects' = Adds(rejects, r, 1)
    BY <1>4 DEF RejectedTwice, ledgerVars
  <2> QED BY <1>0, <1>a, <1>b, <2>1, <2>2 DEF LedgerOK
<1>5. CASE CallFails(r)
  <2>1. totals' = totals /\ rejects' = rejects
    BY <1>5 DEF CallFails, ledgerVars
  <2>2. \E u \in 0..MaxUsage : Billed(r, u)
    BY <1>5 DEF CallFails
  <2> QED BY <1>0, <1>b, <2>1, <2>2 DEF LedgerOK
<1>6. CASE StartsTools(r) \/ Decides(r) \/ Escalates(r)
  <2>1. Recorded(r) /\ UNCHANGED <<calls, billed, rejects, spent>>
    BY <1>6 DEF StartsTools, Decides, Escalates, ToStrong, historyVars
  <2> QED BY <1>0, <2>1, RecordedType DEF LedgerOK
<1>7. CASE RecordFails(r)
  <2>1. reply[r].tokens \in Nat
    BY BudgetAssumption DEF TypeOK, Replies
  <2>2. BudgetTypeOK'
    BY <1>0, <1>7, <2>1 DEF LedgerOK, RecordFails, RecordTokens, BudgetTypeOK, budgetVars
  <2> QED BY <1>0, <1>7, <2>2 DEF LedgerOK, RecordFails, historyVars, ledgerVars
<1>8. CASE ExecutesTool(r)
  BY <1>0, <1>8
  DEF LedgerOK, ExecutesTool, BudgetTypeOK, budgetVars, historyVars, ledgerVars
<1>9. CASE EndsTurn(r)
  BY <1>0, <1>9
  DEF LedgerOK, EndsTurn, LastTool, BudgetTypeOK, budgetVars, historyVars, ledgerVars
<1>10. CASE Cancels(r)
  <2>1. totals' = totals /\ rejects' = rejects
    BY <1>10 DEF Cancels, ledgerVars
  <2>2. billed' \in [Runs -> Nat] /\ calls' \in [Runs -> Nat] /\ spent' \in Nat /\ BudgetTypeOK'
    <3>1. CASE UNCHANGED <<budgetVars, billed, spent, calls>>
      BY <1>0, <3>1 DEF LedgerOK, BudgetTypeOK, budgetVars
    <3>2. CASE \E u \in Usages : Billed(r, u)
      BY <1>b, <1>u, <3>2
    <3> QED BY <1>10, <3>1, <3>2 DEF Cancels
  <2> QED BY <1>0, <2>1, <2>2 DEF LedgerOK
<1> QED
  BY <1>1, <1>2, <1>3, <1>4, <1>5, <1>6, <1>7, <1>8, <1>9, <1>10 DEF RunStep

(***************************************************************************)
(* The types of what is said.                                              *)
(***************************************************************************)
LEMMA TalkType ==
  ASSUME TypeOK, NEW r \in Runs, RunStep(r)
  PROVE  messages' \in [Runs -> Seq(Messages)] /\ reply' \in [Runs -> Replies]
<1>0. messages \in [Runs -> Seq(Messages)] /\ reply \in [Runs -> Replies]
  BY Zenon DEF TypeOK
<1>m. ASSUME NEW ms \in Seq(Messages), Says(r, ms)
      PROVE  messages' \in [Runs -> Seq(Messages)]
  <2>1. messages[r] \o ms \in Seq(Messages)
    BY <1>0
  <2> QED BY <1>0, <1>m, <2>1 DEF Says
<1>r. /\ <<Message("result", 0)>> \in Seq(Messages)
      /\ <<Message("result", 0), Message("cap", 0)>> \in Seq(Messages)
  BY DEF Message, Messages
<1>1. CASE AsksForTools(r)
  <2>1. PICK u \in Usages, n \in 1..MaxTools :
          reply' = [reply EXCEPT ![r] = [tokens |-> u, tools |-> n, verdict |-> NoVerdict]]
    BY <1>1 DEF AsksForTools
  <2>2. [tokens |-> u, tools |-> n, verdict |-> NoVerdict] \in Replies
    BY BudgetAssumption, LoopAssumption DEF Replies, Usages
  <2>3. messages' = messages
    BY <1>1 DEF AsksForTools
  <2> QED BY <1>0, <2>1, <2>2, <2>3
<1>2. CASE AnswersVerdict(r)
  <2>1. PICK u \in Usages, s \in Severities, c \in Confidences :
          reply' = [reply EXCEPT ![r] =
            [tokens |-> u, tools |-> 0, verdict |-> [severity |-> s, confidence |-> c]]]
    BY <1>2 DEF AnswersVerdict
  <2>2. [severity |-> s, confidence |-> c] \in Verdicts
    BY VerdictsAssumption DEF Verdicts
  <2>3. u \in 0..MaxUsage /\ 0 \in 0..MaxTools
    BY BudgetAssumption, LoopAssumption DEF Usages
  <2>4. [tokens |-> u, tools |-> 0, verdict |-> [severity |-> s, confidence |-> c]]
          \in Replies
    BY <2>2, <2>3 DEF Replies
  <2>5. messages' = messages
    BY <1>2 DEF AnswersVerdict
  <2> QED BY <1>0, <2>1, <2>4, <2>5
<1>3. CASE StartsTools(r)
  <2>1. reply[r].tools \in Nat
    BY <1>0, LoopAssumption DEF Replies
  <2>2. <<Message("calls", reply[r].tools)>> \in Seq(Messages)
    BY <2>1 DEF Message, Messages
  <2> QED BY <1>0, <1>3, <1>m, <2>2 DEF StartsTools
<1>4. CASE ExecutesTool(r)
  BY <1>0, <1>4, <1>m, <1>r DEF ExecutesTool
<1>5. CASE EndsTurn(r)
  BY <1>0, <1>5, <1>m, <1>r DEF EndsTurn, LastTool, AnotherTurn, ForcedFinal
<1>6. CASE \/ ChecksBudget(r) \/ Rejected(r) \/ RejectedTwice(r) \/ CallFails(r)
           \/ Decides(r) \/ Escalates(r) \/ RecordFails(r) \/ Cancels(r)
  <2>1. messages' = messages /\ reply' = reply
    BY <1>6 DEF ChecksBudget, Rejected, RetriesOnce, RejectedTwice, CallFails, Decides,
                Escalates, ToStrong, RecordFails, Cancels, talkVars
  <2> QED BY <1>0, <2>1
<1> QED
  BY <1>1, <1>2, <1>3, <1>4, <1>5, <1>6 DEF RunStep

(***************************************************************************)
(* Every action keeps the types.                                           *)
(***************************************************************************)
LEMMA StepType ==
  ASSUME TypeOK, NEW r \in Runs, RunStep(r)
  PROVE  TypeOK'
<1>1. retried' \in [Runs -> BOOLEAN]
  <2>1. retried \in [Runs -> BOOLEAN]
    BY Zenon DEF TypeOK
  <2>2. retried' = retried \/ Retries(r)
    BY DEF RunStep, ChecksBudget, AsksForTools, AnswersVerdict, Rejected, RetriesOnce,
           RejectedTwice, CallFails, StartsTools, Decides, Escalates, RecordFails,
           ExecutesTool, EndsTurn, LastTool, Cancels, ledgerVars
  <2> QED BY <2>1, <2>2, Zenon DEF Retries
<1>2. ControlOK'
  BY ControlType
<1>3. LedgerOK'
  BY LedgerType
<1>4. messages' \in [Runs -> Seq(Messages)] /\ reply' \in [Runs -> Replies]
  BY TalkType
<1> QED BY <1>1, <1>2, <1>3, <1>4, Zenon DEF TypeOK, ControlOK, LedgerOK

(***************************************************************************)
(* Another run's part of the invariant is not touched.                     *)
(***************************************************************************)
LEMMA OthersKeep ==
  ASSUME TypeOK, NEW r \in Runs, RunStep(r), NEW q \in Runs, q # r
  PROVE  /\ pc'[q] = pc[q] /\ site'[q] = site[q] /\ tier'[q] = tier[q]
         /\ turn'[q] = turn[q] /\ reply'[q] = reply[q] /\ retried'[q] = retried[q]
         /\ totals'[q] = totals[q] /\ billed'[q] = billed[q]
         /\ calls'[q] = calls[q] /\ rejects'[q] = rejects[q]
<1>0. ControlOK /\ LedgerOK /\ reply \in [Runs -> Replies]
  BY Zenon DEF TypeOK, ControlOK, LedgerOK
<1>1. pc'[q] = pc[q] /\ site'[q] = site[q] /\ tier'[q] = tier[q]
  BY <1>0 DEF ControlOK, RunStep, ChecksBudget, Admits, Defers, AsksForTools, AnswersVerdict,
       Rejected, RetriesOnce, RejectedTwice, CallFails, StartsTools, Decides, Escalates,
       ToStrong, RecordFails, ExecutesTool, EndsTurn, LastTool, AnotherTurn, ForcedFinal,
       Cancels, Goes, stepVars
<1>2. turn'[q] = turn[q] /\ reply'[q] = reply[q]
  BY <1>0 DEF ControlOK, RunStep, ChecksBudget, AsksForTools, AnswersVerdict,
       Rejected, RetriesOnce, RejectedTwice, CallFails, StartsTools, Decides, Escalates,
       ToStrong, RecordFails, ExecutesTool, EndsTurn, LastTool, AnotherTurn,
       Cancels, Adds, stepVars, talkVars
<1>3. retried'[q] = retried[q]
  <2>1. retried \in [Runs -> BOOLEAN]
    BY Zenon DEF TypeOK
  <2>2. retried' = retried \/ Retries(r)
    BY DEF RunStep, ChecksBudget, AsksForTools, AnswersVerdict, Rejected, RetriesOnce,
           RejectedTwice, CallFails, StartsTools, Decides, Escalates, RecordFails,
           ExecutesTool, EndsTurn, LastTool, Cancels, ledgerVars
  <2> QED BY <2>1, <2>2, Zenon DEF Retries
<1>4. totals'[q] = totals[q] /\ rejects'[q] = rejects[q]
  BY <1>0 DEF LedgerOK, RunStep, ChecksBudget, AsksForTools, AnswersVerdict, Rejected,
       RetriesOnce, RejectedTwice, CallFails, StartsTools, Decides, Escalates, ToStrong,
       Recorded, RecordFails, ExecutesTool, EndsTurn, LastTool, Cancels, Adds, ledgerVars,
       historyVars
<1>5. billed'[q] = billed[q] /\ calls'[q] = calls[q]
  BY <1>0 DEF LedgerOK, RunStep, ChecksBudget, Admits, Defers, AsksForTools,
       AnswersVerdict, Rejected, RetriesOnce, RejectedTwice, CallFails, StartsTools, Decides,
       Escalates, ToStrong, RecordFails, ExecutesTool, EndsTurn, LastTool, Cancels, Billed,
       Adds, historyVars
<1> QED BY <1>1, <1>2, <1>3, <1>4, <1>5

(***************************************************************************)
(* Where run r is bounds its calls, step by step.                          *)
(***************************************************************************)
LEMMA PositionStep ==
  ASSUME TypeOK, NEW r \in Runs, Position(r), RunStep(r)
  PROVE  Position(r)'
<1> USE LoopAssumption, BudgetAssumption
<1>0. /\ ControlOK /\ calls \in [Runs -> Nat] /\ reply \in [Runs -> Replies]
      /\ turn[r] \in Nat /\ calls[r] \in Nat /\ reply[r].tools \in Nat
  <2>1. ControlOK /\ calls \in [Runs -> Nat] /\ reply \in [Runs -> Replies]
    BY Zenon DEF TypeOK, ControlOK
  <2> QED BY <2>1 DEF ControlOK, Replies
<1> USE <1>0 DEF Position, Before, Active, Goes, ControlOK
<1>1. CASE ChecksBudget(r)
  <2>1. UNCHANGED <<site, tier, turn, reply>>
    BY <1>1 DEF ChecksBudget, talkVars
  <2>2. CASE Admits(r)
    BY <1>1, <2>1, <2>2 DEF ChecksBudget, Admits, Adds
  <2>3. CASE Defers(r)
    BY <1>1, <2>1, <2>3 DEF ChecksBudget, Defers
  <2> QED BY <1>1, <2>2, <2>3 DEF ChecksBudget
<1>2. CASE AsksForTools(r)
  <2>1. UNCHANGED <<site, tier, turn, calls>> /\ pc[r] = "call" /\ pc'[r] = "record"
    BY <1>2 DEF AsksForTools, Billed
  <2> QED BY <1>2, <2>1 DEF AsksForTools
<1>3. CASE AnswersVerdict(r)
  <2>1. UNCHANGED <<site, tier, turn, calls>> /\ pc[r] = "call" /\ pc'[r] = "record"
    BY <1>3 DEF AnswersVerdict, Billed
  <2>2. reply'[r].tools = 0
    BY <1>3 DEF AnswersVerdict
  <2> QED BY <2>1, <2>2
<1>4. CASE Rejected(r)
  <2>1. /\ UNCHANGED <<tier, turn, calls, reply>> /\ site[r] # "retry"
        /\ site'[r] = "retry" /\ pc[r] = "call" /\ pc'[r] = "check"
    BY <1>4 DEF Rejected, RetriesOnce, Billed
  <2> QED BY <2>1
<1>5. CASE RejectedTwice(r) \/ CallFails(r) \/ RecordFails(r) \/ Cancels(r)
  <2>1. UNCHANGED calls /\ pc'[r] \in {"invalid", "error", "cancelled"}
    BY <1>5 DEF RejectedTwice, CallFails, RecordFails, Cancels, Billed, historyVars
  <2> QED BY <2>1
<1>6. CASE StartsTools(r)
  <2>1. /\ UNCHANGED <<site, tier, turn, calls, reply>> /\ reply[r].tools > 0
        /\ pc[r] = "record" /\ pc'[r] = "tools"
    BY <1>6 DEF StartsTools, Recorded, historyVars
  <2> QED BY <2>1
<1>7. CASE Decides(r)
  <2>1. UNCHANGED calls /\ pc'[r] = "done"
    BY <1>7 DEF Decides, historyVars
  <2> QED BY <2>1
<1>8. CASE Escalates(r)
  <2>1. /\ UNCHANGED calls /\ tier[r] = "cheap" /\ tier'[r] = "strong"
        /\ site'[r] = "final" /\ pc[r] = "record" /\ pc'[r] = "check"
    BY <1>8 DEF Escalates, ToStrong, Escalating, Recorded, historyVars
  <2> QED BY <2>1
<1>9. CASE ExecutesTool(r)
  <2>1. UNCHANGED <<pc, site, tier, turn, calls, reply>>
    BY <1>9 DEF ExecutesTool, stepVars, historyVars
  <2> QED BY <2>1
<1>10. CASE EndsTurn(r)
  <2>1. /\ UNCHANGED <<tier, calls, reply>> /\ pc[r] = "tools" /\ pc'[r] = "check"
        /\ turn'[r] = turn[r] + 1
    BY <1>10 DEF EndsTurn, LastTool, AnotherTurn, Adds, historyVars
  <2>2. \/ site'[r] = "turn" /\ turn[r] + 1 < MaxIter
        \/ site'[r] = "final" /\ turn[r] + 1 = MaxIter
    BY <1>10, <2>1 DEF EndsTurn, AnotherTurn, ForcedFinal
  <2> QED BY <2>1, <2>2
<1> QED
  BY <1>1, <1>2, <1>3, <1>4, <1>5, <1>6, <1>7, <1>8, <1>9, <1>10 DEF RunStep

(***************************************************************************)
(* The totals of run r follow what it is billed.                           *)
(***************************************************************************)
LEMMA LedgerStep ==
  ASSUME TypeOK, NEW r \in Runs, Ledger(r), RunStep(r)
  PROVE  Ledger(r)'
<1>0. /\ pc \in [Runs -> Active \cup Ended] /\ LedgerOK /\ reply \in [Runs -> Replies]
      /\ totals[r] \in Nat /\ billed[r] \in Nat /\ reply[r].tokens \in Nat
  <2>1. pc \in [Runs -> Active \cup Ended] /\ LedgerOK /\ reply \in [Runs -> Replies]
    BY Zenon DEF TypeOK, LedgerOK
  <2> QED BY <2>1, BudgetAssumption DEF LedgerOK, Replies
<1>u. Usages \subseteq 0..MaxUsage /\ Usages \subseteq Nat
  BY BudgetAssumption DEF Usages
<1> USE <1>0 DEF Ledger, Goes
<1>1. CASE ChecksBudget(r)
  <2>1. /\ UNCHANGED <<totals, billed>> /\ pc[r] = "check"
        /\ pc'[r] \in {"call", "budget"}
    BY <1>1 DEF ChecksBudget, Admits, Defers, ledgerVars
  <2> QED BY <2>1
<1>2. CASE AsksForTools(r) \/ AnswersVerdict(r)
  <2>1. PICK u \in Usages : Billed(r, u) /\ reply'[r].tokens = u
    BY <1>2 DEF AsksForTools, AnswersVerdict
  <2>2. UNCHANGED totals /\ pc'[r] = "record"
    BY <1>2 DEF AsksForTools, AnswersVerdict, ledgerVars
  <2>3. pc[r] = "call" /\ billed'[r] = billed[r] + u
    BY <1>u, <2>1, BilledType
  <2> QED BY <1>u, <2>1, <2>2, <2>3
<1>3. CASE Rejected(r)
  <2>1. PICK u \in Usages : Billed(r, u) /\ totals' = Adds(totals, r, u)
    BY <1>3 DEF Rejected, RetriesOnce
  <2>2. pc[r] = "call" /\ billed'[r] = billed[r] + u
    BY <1>u, <2>1, BilledType
  <2>3. totals'[r] = totals[r] + u
    BY <1>u, <2>1, AddsType DEF LedgerOK
  <2>4. pc'[r] = "check"
    BY <1>3 DEF Rejected, RetriesOnce
  <2> QED BY <2>2, <2>3, <2>4
<1>4. CASE RejectedTwice(r) \/ CallFails(r) \/ RecordFails(r) \/ Cancels(r)
  <2>1. pc'[r] \in {"invalid", "error", "cancelled"}
    BY <1>4 DEF RejectedTwice, CallFails, RecordFails, Cancels
  <2> QED BY <2>1
<1>5. CASE StartsTools(r) \/ Decides(r) \/ Escalates(r)
  <2>1. /\ Recorded(r) /\ billed' = billed
        /\ pc'[r] \in {"tools", "done", "check"}
    BY <1>5 DEF StartsTools, Decides, Escalates, ToStrong, historyVars
  <2>2. pc[r] = "record" /\ totals'[r] = totals[r] + reply[r].tokens
    BY <2>1, RecordedType
  <2> QED BY <2>1, <2>2
<1>6. CASE ExecutesTool(r)
  <2>1. UNCHANGED <<pc, totals, billed, reply>>
    BY <1>6 DEF ExecutesTool, stepVars, ledgerVars, historyVars
  <2> QED BY <2>1
<1>7. CASE EndsTurn(r)
  <2>1. UNCHANGED <<totals, billed>> /\ pc[r] = "tools" /\ pc'[r] = "check"
    BY <1>7 DEF EndsTurn, LastTool, ledgerVars, historyVars
  <2> QED BY <2>1
<1> QED
  BY <1>1, <1>2, <1>3, <1>4, <1>5, <1>6, <1>7 DEF RunStep

(***************************************************************************)
(* A rejected answer of run r is reported.                                 *)
(***************************************************************************)
LEMMA ReportedStep ==
  ASSUME TypeOK, NEW r \in Runs, Position(r), Reported(r), RunStep(r)
  PROVE  Reported(r)'
<1>0. /\ pc \in [Runs -> Active \cup Ended] /\ rejects \in [Runs -> Nat]
      /\ site \in [Runs -> {"turn", "final", "retry"}] /\ rejects[r] \in Nat
  <2>1. /\ pc \in [Runs -> Active \cup Ended] /\ rejects \in [Runs -> Nat]
        /\ site \in [Runs -> {"turn", "final", "retry"}]
    BY Zenon DEF TypeOK
  <2> QED BY <2>1
<1>b. ASSUME Retries(r)
      PROVE  retried'[r] = TRUE <=> retried[r] = TRUE \/ site[r] = "retry"
  <2>1. retried \in [Runs -> BOOLEAN]
    BY Zenon DEF TypeOK
  <2>2. retried'[r] = (retried[r] \/ site[r] = "retry")
    BY <1>b, <2>1, Zenon DEF Retries
  <2>3. retried[r] \in BOOLEAN
    BY <2>1, Zenon
  <2> QED BY <2>2, <2>3, Zenon
<1> USE <1>0 DEF Reported, Goes, Active
<1>1. CASE ChecksBudget(r) \/ AsksForTools(r) \/ AnswersVerdict(r)
  <2>1. /\ UNCHANGED <<site, retried, rejects>> /\ pc[r] \in Active
        /\ pc'[r] \in {"call", "budget", "record"}
    BY <1>1 DEF ChecksBudget, Admits, Defers, AsksForTools, AnswersVerdict, Billed, ledgerVars
  <2> QED BY <2>1
<1>2. CASE Rejected(r)
  <2>1. site'[r] = "retry" /\ rejects'[r] = rejects[r] + 1 /\ pc'[r] = "check"
    BY <1>2 DEF Rejected, RetriesOnce, Adds
  <2> QED BY <2>1
<1>3. CASE RejectedTwice(r) \/ CallFails(r) \/ RecordFails(r) \/ Cancels(r)
  <2>1. pc'[r] \in {"invalid", "error", "cancelled"}
    BY <1>3 DEF RejectedTwice, CallFails, RecordFails, Cancels
  <2> QED BY <2>1
<1>4. CASE StartsTools(r)
  <2>1. UNCHANGED <<site, retried, rejects>> /\ pc[r] = "record" /\ pc'[r] = "tools"
    BY <1>4 DEF StartsTools, Recorded, historyVars
  <2> QED BY <2>1
<1>5. CASE Decides(r)
  <2>1. UNCHANGED rejects /\ pc[r] = "record" /\ pc'[r] = "done" /\ Retries(r)
    BY <1>5 DEF Decides, Recorded, historyVars
  <2> QED BY <1>b, <2>1
<1>6. CASE Escalates(r)
  <2>1. /\ UNCHANGED rejects /\ pc[r] = "record" /\ pc'[r] = "check" /\ Retries(r)
        /\ site'[r] = "final"
    BY <1>6 DEF Escalates, ToStrong, Recorded, historyVars
  <2> QED BY <1>b, <2>1
<1>7. CASE ExecutesTool(r)
  <2>1. UNCHANGED <<pc, site, retried, rejects>>
    BY <1>7 DEF ExecutesTool, stepVars, ledgerVars, historyVars
  <2> QED BY <2>1
<1>8. CASE EndsTurn(r)
  <2>1. UNCHANGED <<retried, rejects>> /\ pc[r] = "tools" /\ pc'[r] = "check"
    BY <1>8 DEF EndsTurn, LastTool, ledgerVars, historyVars
  <2>2. site[r] = "turn" /\ site'[r] \in {"turn", "final"}
    BY <1>8, <2>1 DEF Position, EndsTurn, AnotherTurn, ForcedFinal
  <2> QED BY <2>1, <2>2
<1> QED
  BY <1>1, <1>2, <1>3, <1>4, <1>5, <1>6, <1>7, <1>8 DEF RunStep

(***************************************************************************)
(* A counter that does not grow, with no more calls outstanding, keeps the *)
(* headroom.                                                               *)
(***************************************************************************)
LEMMA FewerOutstanding ==
  ASSUME TypeOK, TypeOK', Headroom, Outstanding' \subseteq Outstanding, counter' <= counter
  PROVE  Headroom'
<1>1. counter \in Nat /\ counter' \in Nat
  BY DEF TypeOK, BudgetTypeOK
<1>2. Outstanding \in SUBSET Runs /\ Outstanding' \in SUBSET Runs
  BY DEF Outstanding
<1>3. IsFiniteSet(Outstanding) /\ Cardinality(Outstanding) \in Nat
      /\ Cardinality(Outstanding') \in Nat /\ Cardinality(Runs) \in Nat
  BY <1>2, Sizes
<1>4. Cardinality(Outstanding') <= Cardinality(Outstanding)
  BY <1>3, FS_Subset
<1>5. /\ Cardinality(Outstanding) * MaxUsage \in Nat
      /\ Cardinality(Outstanding') * MaxUsage \in Nat
      /\ Cardinality(Runs) * MaxUsage \in Nat
      /\ Cardinality(Outstanding') * MaxUsage <= Cardinality(Outstanding) * MaxUsage
  BY <1>3, <1>4, Multiples, BudgetAssumption
<1> QED BY <1>1, <1>5, BudgetAssumption DEF Headroom

(***************************************************************************)
(* A call is admitted only below the budget, and its record takes it out   *)
(* of the outstanding calls: the headroom is kept.                         *)
(***************************************************************************)
LEMMA HeadroomStep ==
  ASSUME TypeOK, TypeOK', Headroom, NEW r \in Runs, RunStep(r)
  PROVE  Headroom'
<1>0. /\ pc \in [Runs -> Active \cup Ended] /\ counter \in Nat /\ counter' \in Nat
      /\ MaxUsage \in Nat
  <2>1. pc \in [Runs -> Active \cup Ended] /\ BudgetTypeOK /\ BudgetTypeOK'
    BY Zenon DEF TypeOK
  <2> QED BY <2>1, BudgetAssumption DEF BudgetTypeOK
<1>s. Outstanding \in SUBSET Runs /\ Outstanding' \in SUBSET Runs
  BY DEF Outstanding
<1>c. /\ IsFiniteSet(Outstanding) /\ IsFiniteSet(Outstanding')
      /\ Cardinality(Outstanding) \in Nat /\ Cardinality(Outstanding') \in Nat
      /\ Cardinality(Outstanding') <= Cardinality(Runs) /\ Cardinality(Runs) \in Nat
  BY <1>s, Sizes
<1>1. CASE ChecksBudget(r) /\ MayCall /\ Admits(r)
  <2>1. counter' = counter
    BY <1>1 DEF ChecksBudget, budgetVars
  <2>2. Budget > 0 /\ "read" \notin Faults => counter < Budget
    BY <1>1, BudgetAssumption DEF MayCall
  <2>3. /\ Cardinality(Outstanding') * MaxUsage <= Cardinality(Runs) * MaxUsage
        /\ Cardinality(Outstanding') * MaxUsage \in Nat
        /\ Cardinality(Runs) * MaxUsage \in Nat
    BY <1>0, <1>c, Multiples
  <2> QED BY <1>0, <2>1, <2>2, <2>3, BudgetAssumption DEF Headroom
<1>2. CASE StartsTools(r) \/ Decides(r) \/ Escalates(r) \/ RecordFails(r)
  <2>1. \E there \in {"tools", "done", "check", "error"} : Goes(r, there)
    BY <1>2 DEF StartsTools, Decides, Escalates, ToStrong, RecordFails
  <2>2. pc[r] = "record" /\ counter' \in {counter, counter + reply[r].tokens}
    BY <1>2
    DEF StartsTools, Decides, Escalates, Recorded, RecordFails, RecordTokens, budgetVars
  <2>3. reply[r].tokens \in Nat /\ reply[r].tokens <= MaxUsage
    BY <1>0 DEF TypeOK, Replies
  <2>4. r \in Outstanding /\ Outstanding' = Outstanding \ {r}
    BY <1>0, <2>1, <2>2 DEF Outstanding, Goes
  <2>5. Cardinality(Outstanding) = Cardinality(Outstanding') + 1
    BY <1>c, <2>4, FS_RemoveElement
  <2>6. /\ Cardinality(Outstanding) * MaxUsage
             = Cardinality(Outstanding') * MaxUsage + MaxUsage
        /\ Cardinality(Outstanding') * MaxUsage \in Nat
        /\ Cardinality(Runs) * MaxUsage \in Nat
    BY <1>0, <1>c, <2>5, Multiples
  <2> QED BY <1>0, <2>2, <2>3, <2>6, BudgetAssumption DEF Headroom
<1>3. CASE \/ ChecksBudget(r) /\ Defers(r)
           \/ AsksForTools(r) \/ AnswersVerdict(r) \/ Rejected(r) \/ RejectedTwice(r)
           \/ CallFails(r) \/ ExecutesTool(r) \/ EndsTurn(r) \/ Cancels(r)
  <2>1. counter' = counter
    BY <1>3 DEF ChecksBudget, AsksForTools, AnswersVerdict, Rejected, RetriesOnce,
                RejectedTwice, CallFails, ExecutesTool, EndsTurn, LastTool, Cancels,
                Billed, budgetVars
  <2>2. \A q \in Runs : pc'[q] \in {"call", "record"} => pc[q] \in {"call", "record"}
    <3>1. CASE AsksForTools(r) \/ AnswersVerdict(r)
      BY <1>0, <3>1 DEF AsksForTools, AnswersVerdict, Billed, Goes
    <3>2. CASE ~(AsksForTools(r) \/ AnswersVerdict(r))
      <4>1. UNCHANGED pc \/ \E there \in {"budget", "check", "invalid", "error", "cancelled"} :
                               Goes(r, there)
        BY <1>3, <3>2 DEF ChecksBudget, Defers, Rejected, RetriesOnce, RejectedTwice,
             CallFails, ExecutesTool, EndsTurn, LastTool, Cancels, stepVars
      <4> QED BY <1>0, <4>1 DEF Goes
    <3> QED BY <3>1, <3>2
  <2>3. Outstanding' \subseteq Outstanding
    BY <2>2 DEF Outstanding
  <2> QED BY <1>0, <2>1, <2>3, FewerOutstanding
<1>4. ChecksBudget(r) => (MayCall /\ Admits(r)) \/ Defers(r)
  BY DEF ChecksBudget
<1> QED
  BY <1>1, <1>2, <1>3, <1>4 DEF RunStep

(***************************************************************************)
(* Every step keeps the invariant.                                         *)
(***************************************************************************)
LEMMA NextInv == IndInv /\ [Next]_vars => IndInv'
<1> SUFFICES ASSUME IndInv, [Next]_vars PROVE IndInv'
  OBVIOUS
<1>0. TypeOK /\ Headroom /\ \A q \in Runs : Position(q) /\ Ledger(q) /\ Reported(q)
  BY DEF IndInv
<1>1. ASSUME NEW r \in Runs, RunStep(r) PROVE IndInv'
  <2>1. TypeOK'
    BY <1>0, <1>1, StepType
  <2>2. Headroom'
    BY <1>0, <1>1, <2>1, HeadroomStep
  <2>3. Position(r)' /\ Ledger(r)' /\ Reported(r)'
    BY <1>0, <1>1, PositionStep, LedgerStep, ReportedStep
  <2>4. ASSUME NEW q \in Runs, q # r PROVE Position(q)' /\ Ledger(q)' /\ Reported(q)'
    BY <1>0, <1>1, <2>4, OthersKeep DEF Position, Before, Ledger, Reported
  <2> QED BY <2>1, <2>2, <2>3, <2>4 DEF IndInv
<1>2. CASE DayEnds
  <2>1. UNCHANGED <<stepVars, talkVars, ledgerVars, calls, billed, rejects>> /\ spent' = 0
    BY <1>2 DEF DayEnds
  <2>2. counter' = 0 /\ BudgetTypeOK'
    BY <1>2, <1>0, DaysAssumption DEF DayEnds, Midnight, TypeOK, BudgetTypeOK
  <2>3. TypeOK'
    <3>1. spent' \in Nat
      BY <2>1
    <3> QED BY <1>0, <2>1, <2>2, <3>1, Zenon DEF TypeOK, stepVars, talkVars, ledgerVars
  <2>4. \A q \in Runs : Position(q)' /\ Ledger(q)' /\ Reported(q)'
    BY <1>0, <2>1 DEF Position, Before, Ledger, Reported, stepVars, talkVars, ledgerVars
  <2>5. Outstanding' = Outstanding /\ counter' <= counter
    BY <1>0, <2>1, <2>2 DEF Outstanding, stepVars, TypeOK, BudgetTypeOK
  <2>6. Headroom'
    BY <1>0, <2>3, <2>5, FewerOutstanding
  <2> QED BY <2>3, <2>4, <2>6 DEF IndInv
<1>3. CASE UNCHANGED vars
  <2>1. UNCHANGED <<budgetVars, stepVars, talkVars, ledgerVars, historyVars>>
    BY <1>3 DEF vars
  <2>2. TypeOK'
    BY <1>0, <2>1, Zenon
    DEF TypeOK, BudgetTypeOK, budgetVars, stepVars, talkVars, ledgerVars, historyVars
  <2>3. \A q \in Runs : Position(q)' /\ Ledger(q)' /\ Reported(q)'
    BY <1>0, <2>1
    DEF Position, Before, Ledger, Reported, stepVars, talkVars, ledgerVars, historyVars
  <2>4. Headroom'
    BY <1>0, <2>1 DEF Headroom, Outstanding, budgetVars, stepVars
  <2> QED BY <2>2, <2>3, <2>4 DEF IndInv
<1>4. CASE Next
  <2>1. DayEnds \/ \E r \in Runs : RunStep(r)
    BY <1>4 DEF Next, Call, Handle, RunStep
  <2> QED BY <1>1, <1>2, <2>1
<1> QED BY <1>3, <1>4

(***************************************************************************)
(* The invariant always holds.                                             *)
(***************************************************************************)
LEMMA AlwaysInv == Spec => []IndInv
BY InitInv, NextInv, PTL DEF Spec

(***************************************************************************)
(* Every variable of a pipeline run keeps its type; in particular the tool *)
(* loop never passes its cap.                                              *)
(***************************************************************************)
THEOREM RunTypeCorrect == Spec => []TypeOK
<1>1. IndInv => TypeOK
  BY DEF IndInv
<1> QED BY <1>1, AlwaysInv, PTL

(***************************************************************************)
(* TriagePipeline.run makes at most TOOL_LOOP_MAX_ITER + 4 LLM calls.      *)
(***************************************************************************)
THEOREM CallsAreBounded == Spec => []CallBound
<1>1. IndInv => CallBound
  BY DEF IndInv, Position, CallBound
<1> QED BY <1>1, AlwaysInv, PTL

(***************************************************************************)
(* The outcome of TriagePipeline.run accounts for all it was billed.       *)
(***************************************************************************)
THEOREM OutcomeAccounts == Spec => []TotalsAccount
<1>1. IndInv => TotalsAccount
  BY DEF IndInv, Ledger, TotalsAccount
<1> QED BY <1>1, AlwaysInv, PTL

(***************************************************************************)
(* TriageOutcome.retried is set exactly when an answer was rejected.       *)
(***************************************************************************)
THEOREM RetriesAreReported == Spec => []RetriedIsReported
<1>1. ASSUME IndInv, NEW r \in Runs, pc[r] = "done" PROVE retried[r] <=> rejects[r] > 0
  <2>1. retried[r] = TRUE <=> rejects[r] > 0
    BY <1>1 DEF IndInv, Reported
  <2>2. retried[r] \in BOOLEAN
    BY <1>1, Zenon DEF IndInv, TypeOK
  <2> QED BY <2>1, <2>2, Zenon
<1>2. IndInv => RetriedIsReported
  BY <1>1, Zenon DEF RetriedIsReported
<1> QED BY <1>2, AlwaysInv, PTL

-----------------------------------------------------------------------------
(***************************************************************************)
(* What is billed.  A pile is a set with f[r] elements for each run r: its *)
(* size is the sum of f.                                                   *)
(***************************************************************************)
Pile(f, n) == {p \in Runs \X (1..n) : p[2] <= f[p[1]]}
Total(f, n) == Cardinality(Pile(f, n))

LEMMA PileChange ==
  ASSUME NEW n \in Nat, NEW f \in [Runs -> 0..n], NEW g \in [Runs -> 0..n],
         NEW r \in Runs, \A q \in Runs : q # r => g[q] = f[q]
  PROVE  /\ Total(f, n) \in Nat /\ Total(g, n) \in Nat
         /\ Total(g, n) + f[r] = Total(f, n) + g[r]
         /\ Total(g, n) <= Cardinality(Runs) * n
<1> DEFINE Rest == {p \in Runs \X (1..n) : p[1] # r /\ p[2] <= f[p[1]]}
<1>1. IsFiniteSet(1..n) /\ Cardinality(1..n) = n
  BY FS_Interval
<1>2. /\ IsFiniteSet(Runs \X (1..n))
      /\ Cardinality(Runs \X (1..n)) = Cardinality(Runs) * n
  BY <1>1, RunsAssumption, FS_Product
<1>3. IsFiniteSet(Rest) /\ Cardinality(Rest) \in Nat
  BY <1>2, FS_Subset, FS_CardinalityType
<1>4. ASSUME NEW h \in [Runs -> 0..n], \A q \in Runs : q # r => h[q] = f[q]
      PROVE  Total(h, n) = Cardinality(Rest) + h[r]
  <2> DEFINE Own == {r} \X (1..h[r])
  <2>0. h[r] \in Nat /\ h[r] <= n
    OBVIOUS
  <2>1. IsFiniteSet(1..h[r]) /\ Cardinality(1..h[r]) = h[r]
    BY <2>0, FS_Interval
  <2>2. IsFiniteSet({r}) /\ Cardinality({r}) = 1
    BY FS_Singleton
  <2>3. IsFiniteSet(Own) /\ Cardinality(Own) = h[r]
    <3>1. IsFiniteSet(Own) /\ Cardinality(Own) = Cardinality({r}) * Cardinality(1..h[r])
      BY <2>1, <2>2, FS_Product
    <3> QED BY <2>0, <2>1, <2>2, <3>1
  <2>4. Pile(h, n) = Rest \cup Own
    <3>1. ASSUME NEW p \in Pile(h, n) PROVE p \in Rest \cup Own
      <4>1. p \in Runs \X (1..n) /\ p[2] <= h[p[1]] /\ p = <<p[1], p[2]>> /\ p[1] \in Runs
            /\ p[2] \in 1..n
        BY <3>1 DEF Pile
      <4>2. CASE p[1] = r
        BY <2>0, <4>1, <4>2
      <4>3. CASE p[1] # r
        BY <1>4, <4>1, <4>3
      <4> QED BY <4>2, <4>3
    <3>2. ASSUME NEW p \in Rest PROVE p \in Pile(h, n)
      BY <1>4, <3>2 DEF Pile
    <3>3. ASSUME NEW p \in Own PROVE p \in Pile(h, n)
      BY <2>0, <3>3 DEF Pile
    <3> QED BY <3>1, <3>2, <3>3
  <2>5. Rest \cap Own = {}
    OBVIOUS
  <2>6. Cardinality(Rest \cap Own) = 0
    BY <2>5, FS_EmptySet
  <2> HIDE DEF Own, Rest
  <2>7. Cardinality(Rest \cup Own)
          = Cardinality(Rest) + Cardinality(Own) - Cardinality(Rest \cap Own)
    BY <1>3, <2>3, FS_Union
  <2> QED BY <1>3, <2>0, <2>3, <2>4, <2>6, <2>7 DEF Total
<1>5. Total(f, n) = Cardinality(Rest) + f[r] /\ Total(g, n) = Cardinality(Rest) + g[r]
  BY <1>4
<1>6. Total(g, n) <= Cardinality(Runs) * n
  <2>1. Pile(g, n) \subseteq Runs \X (1..n)
    BY DEF Pile
  <2> QED BY <1>2, <2>1, FS_Subset DEF Total
<1>7. f[r] \in Nat /\ g[r] \in Nat
  OBVIOUS
<1> HIDE DEF Rest
<1> QED BY <1>3, <1>5, <1>6, <1>7

(***************************************************************************)
(* Calls of run r that are billed and will not be counted: the rejected    *)
(* ones, and the one it was at when it ended.                              *)
(***************************************************************************)
Misses(r) == rejects[r] + (IF pc[r] \in {"error", "cancelled"} THEN 1 ELSE 0)

\* Each tier rejects one answer and goes on; the next one ends the run.
Rejections(r) ==
  /\ pc[r] \in Active =>
       rejects[r] <= (IF tier[r] = "strong" THEN 1 ELSE 0) + (IF site[r] = "retry" THEN 1 ELSE 0)
  /\ Misses(r) <= 3

\* What a call under way may still be billed, ...
Opens(r) == IF pc[r] = "call" THEN MaxUsage ELSE 0

\* ... and what run r may be billed, now or then, beyond what is counted.
Owes(r) ==
  Misses(r) * MaxUsage + (IF pc[r] = "record" THEN reply[r].tokens ELSE Opens(r))

Open == [r \in Runs |-> Opens(r)]
Debt == [r \in Runs |-> Owes(r)]
Room == 3 * MaxUsage

\* Nothing a run may be billed beyond the counter is more than three calls.
Bounded ==
  \A r \in Runs : Opens(r) \in 0..Room /\ Owes(r) \in 0..Room /\ Opens(r) <= Owes(r)

FewRejections == \A r \in Runs : Rejections(r)

SpendInv ==
  /\ FewRejections
  /\ spent + Total(Open, Room) <= counter + Total(Debt, Room)
  /\ Budget > 0 /\ "read" \notin Faults =>
       spent + Total(Open, Room) < Budget + Cardinality(Runs) * Room

LEMMA PileOrder ==
  ASSUME NEW n \in Nat, NEW f \in [Runs -> 0..n], NEW g \in [Runs -> 0..n],
         \A r \in Runs : f[r] <= g[r]
  PROVE  /\ Total(f, n) \in Nat /\ Total(g, n) \in Nat
         /\ Total(f, n) <= Total(g, n)
<1>1. IsFiniteSet(1..n)
  BY FS_Interval
<1>2. IsFiniteSet(Runs \X (1..n))
  BY <1>1, RunsAssumption, FS_Product
<1>3. Pile(f, n) \subseteq Pile(g, n) /\ Pile(g, n) \subseteq Runs \X (1..n)
  BY DEF Pile
<1>4. IsFiniteSet(Pile(g, n)) /\ IsFiniteSet(Pile(f, n))
  BY <1>2, <1>3, FS_Subset
<1> QED BY <1>3, <1>4, FS_Subset, FS_CardinalityType DEF Total

LEMMA SpendTypes ==
  ASSUME TypeOK
  PROVE  /\ spent \in Nat /\ counter \in Nat /\ MaxUsage \in Nat /\ Room \in Nat
         /\ \A r \in Runs : /\ reply[r].tokens \in 0..MaxUsage /\ rejects[r] \in Nat
                            /\ Misses(r) \in Nat /\ Misses(r) * MaxUsage \in Nat
                            /\ pc[r] \in Active \cup Ended
<1>1. spent \in Nat /\ counter \in Nat /\ MaxUsage \in Nat /\ Room \in Nat
  BY BudgetAssumption DEF TypeOK, BudgetTypeOK, Room
<1>2. ASSUME NEW r \in Runs
      PROVE  /\ reply[r].tokens \in 0..MaxUsage /\ rejects[r] \in Nat
             /\ Misses(r) \in Nat /\ Misses(r) * MaxUsage \in Nat
             /\ pc[r] \in Active \cup Ended
  <2>1. reply[r].tokens \in 0..MaxUsage /\ rejects[r] \in Nat /\ pc[r] \in Active \cup Ended
    BY DEF TypeOK, Replies
  <2>2. Misses(r) \in Nat
    BY <2>1 DEF Misses
  <2> QED BY <1>1, <2>1, <2>2, Multiples
<1> QED BY <1>1, <1>2

\* What a run owes stays within three calls.
LEMMA OwesBound == TypeOK /\ FewRejections => Bounded
<1> SUFFICES ASSUME TypeOK, NEW r \in Runs, Rejections(r)
             PROVE  Opens(r) \in 0..Room /\ Owes(r) \in 0..Room /\ Opens(r) <= Owes(r)
  BY DEF FewRejections, Bounded
<1>t. /\ MaxUsage \in Nat /\ Room = 3 * MaxUsage /\ Room \in Nat
      /\ reply[r].tokens \in 0..MaxUsage /\ rejects[r] \in Nat
      /\ Misses(r) \in Nat /\ Misses(r) * MaxUsage \in Nat
  BY SpendTypes DEF Room
<1>0. Opens(r) \in 0..MaxUsage
  BY <1>t DEF Opens
<1>1. CASE pc[r] \in {"call", "record"}
  <2>1. Misses(r) <= 2
    BY <1>t, <1>1 DEF Rejections, Misses, Active
  <2>2. Misses(r) * MaxUsage <= 2 * MaxUsage
    BY <1>t, <2>1, Multiples
  <2> QED BY <1>t, <1>0, <2>2 DEF Owes, Opens
<1>2. CASE pc[r] \notin {"call", "record"}
  <2>1. Owes(r) = Misses(r) * MaxUsage
    BY <1>t, <1>2 DEF Owes, Opens
  <2>2. Misses(r) * MaxUsage <= 3 * MaxUsage
    BY <1>t, Multiples DEF Rejections
  <2> QED BY <1>t, <1>0, <1>2, <2>1, <2>2 DEF Opens
<1> QED BY <1>1, <1>2

(***************************************************************************)
(* A step of run r: what is billed is owed first, and what is no longer    *)
(* owed is in the counter; only a call that the check admits can add to    *)
(* what may be billed.                                                     *)
(***************************************************************************)
LEMMA SpendMove ==
  ASSUME TypeOK, TypeOK', NEW r \in Runs, Position(r), Rejections(r), RunStep(r)
  PROVE  /\ Rejections(r)'
         /\ spent' + Opens(r)' + counter + Owes(r) <= spent + Opens(r) + counter' + Owes(r)'
         /\ \/ spent' + Opens(r)' <= spent + Opens(r)
            \/ /\ counter' = counter
               /\ Budget > 0 /\ "read" \notin Faults => counter < Budget
<1>t. /\ spent \in Nat /\ counter \in Nat /\ MaxUsage \in Nat
      /\ reply[r].tokens \in 0..MaxUsage /\ rejects[r] \in Nat
      /\ Misses(r) \in Nat /\ Misses(r) * MaxUsage \in Nat
  BY SpendTypes
<1>c. /\ pc \in [Runs -> Active \cup Ended] /\ rejects \in [Runs -> Nat]
      /\ site \in [Runs -> {"turn", "final", "retry"}]
      /\ tier \in [Runs -> {"cheap", "strong"}] /\ reply \in [Runs -> Replies]
  BY Zenon DEF TypeOK
<1>n. (Misses(r) + 1) * MaxUsage = Misses(r) * MaxUsage + MaxUsage
  BY <1>t, Multiples
<1>u. Usages \subseteq 0..MaxUsage
  BY <1>t DEF Usages
<1>1. CASE ChecksBudget(r)
  <2>1. /\ UNCHANGED <<counter, days, site, tier, reply, rejects, spent>>
        /\ pc[r] = "check"
    BY <1>1 DEF ChecksBudget, budgetVars, talkVars
  <2>2. CASE MayCall /\ Admits(r)
    <3>1. pc'[r] = "call"
      BY <1>c, <2>2 DEF Admits, Goes
    <3>2. Misses(r)' = Misses(r) /\ Opens(r)' = MaxUsage /\ Opens(r) = 0
      BY <2>1, <3>1 DEF Misses, Opens
    <3>3. Owes(r)' = Owes(r) + MaxUsage
      BY <1>t, <2>1, <3>1, <3>2 DEF Owes
    <3>4. Owes(r) \in Nat
      BY <1>t, <2>1, <3>2 DEF Owes
    <3>5. Budget > 0 /\ "read" \notin Faults => counter < Budget
      BY <2>2, BudgetAssumption DEF MayCall
    <3>6. Rejections(r)'
      BY <1>t, <2>1, <3>1, <3>2 DEF Rejections, Active
    <3> QED BY <1>t, <2>1, <3>2, <3>3, <3>4, <3>5, <3>6
  <2>3. CASE Defers(r)
    <3>1. pc'[r] = "budget"
      BY <1>c, <2>3 DEF Defers, Goes
    <3>2. Misses(r)' = Misses(r) /\ Opens(r)' = 0 /\ Opens(r) = 0
      BY <2>1, <3>1 DEF Misses, Opens
    <3>3. Owes(r)' = Owes(r) /\ Owes(r) \in Nat
      BY <1>t, <2>1, <3>1, <3>2 DEF Owes
    <3>4. Rejections(r)'
      BY <1>t, <2>1, <3>1, <3>2 DEF Rejections, Active
    <3> QED BY <1>t, <2>1, <3>2, <3>3, <3>4
  <2> QED BY <1>1, <2>2, <2>3 DEF ChecksBudget
<1>2. CASE AsksForTools(r) \/ AnswersVerdict(r)
  <2>1. PICK u \in 0..MaxUsage : Billed(r, u) /\ reply'[r].tokens = u
    <3>1. CASE AsksForTools(r)
      <4>1. PICK u \in Usages, n \in 1..MaxTools :
              /\ Billed(r, u)
              /\ reply' = [reply EXCEPT ![r] = [tokens |-> u, tools |-> n, verdict |-> NoVerdict]]
        BY <3>1 DEF AsksForTools
      <4>2. reply'[r].tokens = u
        BY <1>c, <4>1
      <4> QED BY <1>u, <4>1, <4>2
    <3>2. CASE AnswersVerdict(r)
      <4>1. PICK u \in Usages, v \in Severities, c \in Confidences :
              /\ Billed(r, u)
              /\ reply' = [reply EXCEPT ![r] =
                   [tokens |-> u, tools |-> 0, verdict |-> [severity |-> v, confidence |-> c]]]
        BY <3>2 DEF AnswersVerdict
      <4>2. reply'[r].tokens = u
        BY <1>c, <4>1
      <4> QED BY <1>u, <4>1, <4>2
    <3> QED BY <1>2, <3>1, <3>2
  <2>2. /\ pc[r] = "call" /\ counter' = counter /\ spent' = spent + u
        /\ UNCHANGED <<site, tier, rejects>>
    BY <1>2, <2>1, BilledType DEF AsksForTools, AnswersVerdict
  <2>3. pc'[r] = "record"
    BY <1>2, <1>c DEF AsksForTools, AnswersVerdict, Goes
  <2>4. Misses(r)' = Misses(r) /\ Opens(r)' = 0 /\ Opens(r) = MaxUsage
    BY <2>2, <2>3 DEF Misses, Opens
  <2>5. /\ Owes(r) = Misses(r) * MaxUsage + MaxUsage
        /\ Owes(r)' = Misses(r) * MaxUsage + u
    BY <2>1, <2>2, <2>3, <2>4 DEF Owes
  <2>6. Rejections(r)'
    BY <1>t, <2>2, <2>3, <2>4 DEF Rejections, Active
  <2> QED BY <1>t, <2>1, <2>2, <2>4, <2>5, <2>6
<1>3. CASE Rejected(r) \/ RejectedTwice(r) \/ CallFails(r)
           \/ (Cancels(r) /\ \E u \in Usages : Billed(r, u))
  <2>1. PICK u \in 0..MaxUsage : Billed(r, u)
    BY <1>3, <1>u DEF Rejected, RetriesOnce, RejectedTwice, CallFails
  <2>2. pc[r] = "call" /\ counter' = counter /\ spent' = spent + u
    BY <2>1, BilledType
  <2>3. rejects[r] <= 2 /\ Misses(r) = rejects[r]
    BY <1>t, <2>2 DEF Rejections, Misses, Active
  <2>4. Misses(r)' = Misses(r) + 1 /\ pc'[r] \notin {"call", "record"} /\ Rejections(r)'
    <3>1. CASE Rejected(r)
      <4>1. /\ pc'[r] = "check" /\ rejects'[r] = rejects[r] + 1 /\ site'[r] = "retry"
            /\ site[r] # "retry" /\ tier' = tier
        BY <1>c, <3>1 DEF Rejected, RetriesOnce, Goes, Adds
      <4>2. rejects[r] <= IF tier[r] = "strong" THEN 1 ELSE 0
        BY <1>t, <2>2, <4>1 DEF Rejections, Active
      <4>3. Misses(r)' = rejects[r] + 1
        BY <1>t, <4>1 DEF Misses
      <4>4. rejects'[r] <= (IF tier'[r] = "strong" THEN 1 ELSE 0)
                           + (IF site'[r] = "retry" THEN 1 ELSE 0)
        BY <1>t, <4>1, <4>2
      <4>5. Rejections(r)'
        BY <1>t, <2>3, <4>3, <4>4 DEF Rejections
      <4> QED BY <2>3, <4>1, <4>3, <4>5
    <3>2. CASE RejectedTwice(r)
      <4>1. pc'[r] = "invalid" /\ rejects'[r] = rejects[r] + 1
        BY <1>c, <3>2 DEF RejectedTwice, Goes, Adds
      <4> QED BY <1>t, <2>2, <2>3, <4>1 DEF Rejections, Misses, Active
    <3>3. CASE CallFails(r) \/ Cancels(r)
      <4>1. pc'[r] \in {"error", "cancelled"} /\ rejects' = rejects
        BY <1>c, <3>3 DEF CallFails, Cancels, Goes
      <4> QED BY <1>t, <2>2, <2>3, <4>1 DEF Rejections, Misses, Active
    <3> QED BY <1>3, <3>1, <3>2, <3>3
  <2>5. Opens(r)' = 0 /\ Opens(r) = MaxUsage
    BY <2>2, <2>4 DEF Opens
  <2>6. Misses(r)' * MaxUsage = Misses(r) * MaxUsage + MaxUsage
    BY <1>n, <2>4
  <2>7. /\ Owes(r) = Misses(r) * MaxUsage + MaxUsage
        /\ Owes(r)' = Misses(r) * MaxUsage + MaxUsage
    BY <1>t, <2>2, <2>4, <2>5, <2>6 DEF Owes
  <2> QED BY <1>t, <2>1, <2>2, <2>4, <2>5, <2>7
<1>4. CASE RecordFails(r) \/ (Cancels(r) /\ ~\E u \in Usages : Billed(r, u))
  <2>1. /\ pc[r] \in Active /\ spent' = spent /\ rejects' = rejects
        /\ counter' \in {counter, counter + reply[r].tokens}
    BY <1>4 DEF RecordFails, RecordTokens, Cancels, historyVars, budgetVars, Active
  <2>2. pc'[r] \in {"error", "cancelled"}
    BY <1>4, <1>c DEF RecordFails, Cancels, Goes
  <2>3. rejects[r] <= 2 /\ Misses(r) = rejects[r]
    BY <1>t, <2>1 DEF Rejections, Misses, Active
  <2>4. Misses(r)' = Misses(r) + 1 /\ Rejections(r)'
    BY <1>t, <2>1, <2>2, <2>3 DEF Rejections, Misses, Active
  <2>5. Misses(r)' * MaxUsage = Misses(r) * MaxUsage + MaxUsage
    BY <1>n, <2>4
  <2>6. Opens(r)' = 0 /\ Opens(r) \in 0..MaxUsage
    BY <1>t, <2>2 DEF Opens
  <2>7. /\ Owes(r)' = Misses(r) * MaxUsage + MaxUsage
        /\ Owes(r) \in Nat /\ Owes(r) <= Misses(r) * MaxUsage + MaxUsage
        /\ pc[r] = "call" => Owes(r) = Misses(r) * MaxUsage + Opens(r)
    BY <1>t, <2>2, <2>5, <2>6 DEF Owes
  <2> QED BY <1>t, <2>1, <2>4, <2>6, <2>7
<1>5. CASE StartsTools(r) \/ Decides(r) \/ Escalates(r)
  <2>1. /\ Recorded(r) /\ UNCHANGED <<rejects, spent>>
    BY <1>5 DEF StartsTools, Decides, Escalates, ToStrong, historyVars
  <2>2. pc[r] = "record" /\ counter' = counter + reply[r].tokens
    BY <2>1, RecordedType
  <2>3. pc'[r] \in {"tools", "done", "check"}
    BY <1>5, <1>c DEF StartsTools, Decides, Escalates, ToStrong, Goes
  <2>4. Misses(r)' = Misses(r) /\ Opens(r)' = 0 /\ Opens(r) = 0
    BY <2>1, <2>2, <2>3 DEF Misses, Opens
  <2>5. /\ Owes(r) = Misses(r) * MaxUsage + reply[r].tokens
        /\ Owes(r)' = Misses(r) * MaxUsage
    BY <1>t, <2>2, <2>3, <2>4 DEF Owes
  <2>6. Rejections(r)'
    <3>1. CASE StartsTools(r) \/ Decides(r)
      <4>1. UNCHANGED <<site, tier>>
        BY <3>1 DEF StartsTools, Decides
      <4> QED BY <1>t, <2>1, <2>2, <2>3, <2>4, <4>1 DEF Rejections, Active
    <3>2. CASE Escalates(r)
      <4>1. tier[r] = "cheap" /\ tier'[r] = "strong" /\ site'[r] = "final"
        BY <1>c, <3>2 DEF Escalates, ToStrong, Escalating
      <4>2. rejects[r] <= 1
        BY <1>t, <2>2, <4>1 DEF Rejections, Active
      <4> QED BY <1>t, <2>1, <2>3, <2>4, <4>1, <4>2 DEF Rejections
    <3> QED BY <1>5, <3>1, <3>2
  <2> QED BY <1>t, <2>1, <2>2, <2>4, <2>5, <2>6
<1>6. CASE ExecutesTool(r) \/ EndsTurn(r)
  <2>1. /\ UNCHANGED <<counter, tier, reply, rejects, spent>> /\ pc[r] = "tools"
    BY <1>6 DEF ExecutesTool, EndsTurn, LastTool, budgetVars, stepVars, historyVars
  <2>2. pc'[r] \in {"tools", "check"}
    BY <1>6, <1>c, <2>1 DEF ExecutesTool, EndsTurn, LastTool, Goes, stepVars
  <2>3. site'[r] = site[r] \/ site[r] = "turn"
    BY <2>1 DEF Position
  <2>4. Misses(r)' = Misses(r) /\ Opens(r)' = 0 /\ Opens(r) = 0
    BY <2>1, <2>2 DEF Misses, Opens
  <2>5. Owes(r) = Misses(r) * MaxUsage /\ Owes(r)' = Misses(r) * MaxUsage
    BY <1>t, <2>1, <2>2, <2>4 DEF Owes
  <2>6. Rejections(r)'
    BY <1>t, <2>1, <2>2, <2>3, <2>4 DEF Rejections, Active
  <2> QED BY <1>t, <2>1, <2>4, <2>5, <2>6
<1> QED BY <1>1, <1>2, <1>3, <1>4, <1>5, <1>6 DEF RunStep

(***************************************************************************)
(* Every step keeps what is billed within what is counted and owed.        *)
(***************************************************************************)
LEMMA SpendStep ==
  ASSUME IndInv, IndInv', SpendInv, [Next]_vars
  PROVE  SpendInv'
<1>t. /\ TypeOK /\ TypeOK' /\ spent \in Nat /\ counter \in Nat /\ Room \in Nat
      /\ spent' \in Nat /\ counter' \in Nat /\ Budget \in Nat
  <2>1. TypeOK /\ TypeOK'
    BY DEF IndInv
  <2> QED BY <2>1, SpendTypes, BudgetAssumption DEF TypeOK, BudgetTypeOK
<1>o. \A r \in Runs : Opens(r) \in 0..Room /\ Owes(r) \in 0..Room /\ Opens(r) <= Owes(r)
  BY <1>t, OwesBound DEF SpendInv, Bounded
<1>f. Open \in [Runs -> 0..Room] /\ Debt \in [Runs -> 0..Room]
  BY <1>o DEF Open, Debt
<1>z. Cardinality(Runs) * Room \in Nat
  BY <1>t, Sizes, Multiples
<1>1. ASSUME NEW r \in Runs, RunStep(r) PROVE SpendInv'
  <2>1. /\ Rejections(r)'
        /\ spent' + Opens(r)' + counter + Owes(r) <= spent + Opens(r) + counter' + Owes(r)'
        /\ \/ spent' + Opens(r)' <= spent + Opens(r)
           \/ /\ counter' = counter
              /\ Budget > 0 /\ "read" \notin Faults => counter < Budget
    BY <1>1, <1>t, SpendMove DEF IndInv, SpendInv, FewRejections
  <2>2. ASSUME NEW q \in Runs, q # r
        PROVE  Rejections(q)' /\ Opens(q)' = Opens(q) /\ Owes(q)' = Owes(q)
    BY <1>1, <1>t, <2>2, OthersKeep
    DEF SpendInv, FewRejections, Rejections, Misses, Opens, Owes
  <2>3. FewRejections'
    BY <2>1, <2>2 DEF FewRejections
  <2>4. \A q \in Runs : Opens(q)' \in 0..Room /\ Owes(q)' \in 0..Room
    <3>1. Bounded'
      BY <1>t, <2>3, OwesBound, PTL
    <3> QED BY <3>1 DEF Bounded, Room
  <2>5. Open' \in [Runs -> 0..Room] /\ Debt' \in [Runs -> 0..Room]
    BY <2>4 DEF Open, Debt
  <2>6. /\ \A q \in Runs : q # r => Open'[q] = Open[q] /\ Debt'[q] = Debt[q]
        /\ Open[r] = Opens(r) /\ Open'[r] = Opens(r)'
        /\ Debt[r] = Owes(r) /\ Debt'[r] = Owes(r)'
    BY <2>2 DEF Open, Debt
  <2>7. /\ Total(Open, Room) \in Nat /\ Total(Open', Room) \in Nat
        /\ Total(Open', Room) + Opens(r) = Total(Open, Room) + Opens(r)'
    <3>1. /\ Total(Open, Room) \in Nat /\ Total(Open', Room) \in Nat
          /\ Total(Open', Room) + Open[r] = Total(Open, Room) + Open'[r]
      BY <1>t, <1>f, <2>5, <2>6, PileChange, Zenon
    <3> QED BY <2>6, <3>1, Zenon
  <2>8. /\ Total(Debt, Room) \in Nat /\ Total(Debt', Room) \in Nat
        /\ Total(Debt', Room) + Owes(r) = Total(Debt, Room) + Owes(r)'
        /\ Total(Debt', Room) <= Cardinality(Runs) * Room
    <3>1. /\ Total(Debt, Room) \in Nat /\ Total(Debt', Room) \in Nat
          /\ Total(Debt', Room) + Debt[r] = Total(Debt, Room) + Debt'[r]
          /\ Total(Debt', Room) <= Cardinality(Runs) * Room
      BY <1>t, <1>f, <2>5, <2>6, PileChange, Zenon
    <3> QED BY <2>6, <3>1, Zenon
  <2>9. /\ Opens(r) \in Nat /\ Owes(r) \in Nat /\ Opens(r)' \in Nat /\ Owes(r)' \in Nat
    BY <1>o, <1>t, <2>4
  <2>10. Total(Open, Room)' = Total(Open', Room) /\ Total(Debt, Room)' = Total(Debt', Room)
    BY DEF Total, Pile, Room
  <2>11. spent' + Total(Open', Room) <= counter' + Total(Debt', Room)
    BY <1>t, <2>1, <2>7, <2>8, <2>9 DEF SpendInv
  <2>12. Budget > 0 /\ "read" \notin Faults =>
           spent' + Total(Open', Room) < Budget + Cardinality(Runs) * Room
    BY <1>t, <1>z, <2>1, <2>7, <2>8, <2>9, <2>11 DEF SpendInv
  <2> QED BY <2>3, <2>10, <2>11, <2>12 DEF SpendInv
<1>2. CASE UNCHANGED <<stepVars, reply, rejects>> /\ spent' <= spent
           /\ (counter' = counter \/ spent' = 0)
  <2>1. \A q \in Runs : /\ Rejections(q)' <=> Rejections(q)
                       /\ Opens(q)' = Opens(q) /\ Owes(q)' = Owes(q)
    BY <1>2 DEF Rejections, Misses, Opens, Owes, stepVars
  <2>2. /\ Open' = Open /\ Debt' = Debt
        /\ Total(Open, Room)' = Total(Open, Room) /\ Total(Debt, Room)' = Total(Debt, Room)
    BY <2>1, Zenon DEF Open, Debt, Total, Pile, Room
  <2>3. /\ Total(Open, Room) \in Nat /\ Total(Debt, Room) \in Nat
        /\ Total(Open, Room) <= Total(Debt, Room)
    BY <1>t, <1>f, <1>o, PileOrder DEF Open, Debt
  <2>4. (spent + Total(Open, Room) <= counter + Total(Debt, Room))'
    BY <1>t, <1>2, <2>2, <2>3 DEF SpendInv
  <2>5. Budget > 0 /\ "read" \notin Faults =>
          spent' + Total(Open, Room)' < Budget + Cardinality(Runs) * Room
    BY <1>t, <1>z, <1>2, <2>2, <2>3 DEF SpendInv
  <2> QED BY <2>1, <2>4, <2>5 DEF SpendInv, FewRejections
<1>3. CASE Next
  <2>1. DayEnds \/ \E r \in Runs : RunStep(r)
    BY <1>3 DEF Next, Call, Handle, RunStep
  <2>2. CASE DayEnds
    BY <1>2, <1>t, <2>2 DEF DayEnds, talkVars
  <2> QED BY <1>1, <2>1, <2>2
<1>4. CASE UNCHANGED vars
  BY <1>2, <1>t, <1>4 DEF vars, talkVars, historyVars, budgetVars
<1> QED BY <1>3, <1>4

LEMMA SpendInit == Init => SpendInv
<1> SUFFICES ASSUME Init PROVE SpendInv
  OBVIOUS
<1>t. TypeOK /\ Room \in Nat /\ Cardinality(Runs) * Room \in Nat
  BY InitInv, SpendTypes, Sizes, Multiples DEF IndInv
<1>1. /\ spent = 0 /\ counter = 0
      /\ \A r \in Runs : pc[r] = "check" /\ rejects[r] = 0
  BY DEF Init, BudgetInit
<1>2. FewRejections /\ \A r \in Runs : Opens(r) = 0
  BY <1>1 DEF FewRejections, Rejections, Misses, Opens
<1>3. \A r \in Runs : Opens(r) \in 0..Room /\ Owes(r) \in 0..Room /\ Opens(r) <= Owes(r)
  BY <1>t, <1>2, OwesBound DEF Bounded
<1>4. Open \in [Runs -> 0..Room] /\ Debt \in [Runs -> 0..Room]
  BY <1>3 DEF Open, Debt
<1>5. /\ Total(Open, Room) \in Nat /\ Total(Debt, Room) \in Nat
      /\ Total(Open, Room) <= Total(Debt, Room)
  BY <1>t, <1>3, <1>4, PileOrder DEF Open, Debt
<1>6. Total(Open, Room) = 0
  <2>1. Pile(Open, Room) = {}
    BY <1>t, <1>2 DEF Pile, Open
  <2> QED BY <2>1, FS_EmptySet DEF Total
<1> QED BY <1>t, <1>1, <1>2, <1>5, <1>6, BudgetAssumption DEF SpendInv

LEMMA AlwaysSpend == Spec => []SpendInv
<1>1. IndInv /\ IndInv' /\ SpendInv /\ [Next]_vars => SpendInv'
  BY SpendStep
<1> QED BY <1>1, SpendInit, AlwaysInv, PTL DEF Spec

(***************************************************************************)
(* Concurrent runs overshoot the daily budget by less than one call each   *)
(* in what record_tokens has counted, and by less than three in what the   *)
(* provider has billed, the answers it never counts included, while        *)
(* check_and_would_exceed can read the counter.                            *)
(***************************************************************************)
THEOREM OvershootIsBounded == Spec => []OvershootBounded
<1>1. ASSUME IndInv, SpendInv PROVE OvershootBounded
  <2>1. counter \in Nat /\ Headroom /\ TypeOK
    BY <1>1 DEF IndInv, TypeOK, BudgetTypeOK
  <2>2. Outstanding \in SUBSET Runs
    BY DEF Outstanding
  <2>3. Cardinality(Outstanding) * MaxUsage \in Nat /\ Cardinality(Runs) * MaxUsage \in Nat
        /\ Cardinality(Runs) \in Nat
    BY <2>2, Sizes, Multiples, BudgetAssumption
  <2>4. Budget > 0 /\ "read" \notin Faults =>
          counter < Budget + Cardinality(Runs) * MaxUsage
    BY <2>1, <2>3, BudgetAssumption DEF Headroom
  <2>5. /\ spent \in Nat /\ Room \in Nat
        /\ \A r \in Runs : Opens(r) \in 0..Room
    BY <1>1, <2>1, SpendTypes, OwesBound DEF SpendInv, Bounded
  <2>6. Total(Open, Room) \in Nat
    <3>1. Open \in [Runs -> 0..Room]
      BY <2>5 DEF Open
    <3> QED BY <2>5, <3>1, PileOrder
  <2>7. Cardinality(Runs) * Room = 3 * (Cardinality(Runs) * MaxUsage)
    BY <2>3, BudgetAssumption DEF Room
  <2>8. Budget > 0 /\ "read" \notin Faults =>
          spent < Budget + 3 * (Cardinality(Runs) * MaxUsage)
    BY <1>1, <2>3, <2>5, <2>6, <2>7, BudgetAssumption DEF SpendInv
  <2> QED BY <2>4, <2>8 DEF OvershootBounded
<1> QED BY <1>1, AlwaysInv, AlwaysSpend, PTL

-----------------------------------------------------------------------------
(***************************************************************************)
(* The conversation.  In it every message with tool calls is followed by   *)
(* their results, but for the last owed of them, and no answer is kept.    *)
(***************************************************************************)
Answered(m, owed) ==
  \A i \in 1..Len(m) :
    /\ m[i].role # "reply"
    /\ \A j \in 1..m[i].n :
         \/ i + j <= Len(m) /\ m[i + j].role = "result"
         \/ Len(m) < i + j /\ i + j <= Len(m) + owed

\* The results of this turn still to come.
Owed(r) == IF pc[r] = "tools" THEN todo[r] ELSE 0

(***************************************************************************)
(* A run that has not ended owes its conversation the tools it has still   *)
(* to execute, and nothing else: between two turns every call is answered. *)
(***************************************************************************)
Evidence(r) == pc[r] \in Active => Answered(messages[r], Owed(r))

\* A message more: those before it stay where they were.
LEMMA Longer ==
  ASSUME NEW m \in Seq(Messages), NEW x \in Messages
  PROVE  /\ m \o <<x>> \in Seq(Messages)
         /\ Len(m \o <<x>>) = Len(m) + 1
         /\ \A i \in 1..Len(m) : (m \o <<x>>)[i] = m[i]
         /\ (m \o <<x>>)[Len(m) + 1] = x
OBVIOUS

\* How many tools a message calls.
LEMMA Counts ==
  ASSUME NEW m \in Seq(Messages), NEW i \in 1..Len(m)
  PROVE  m[i].n \in Nat
<1>1. m[i] \in Messages OBVIOUS
<1> QED BY <1>1 DEF Messages

\* What a message that is no answer calls for is owed then.
LEMMA CallsSaid ==
  ASSUME NEW m \in Seq(Messages), Answered(m, 0), NEW x \in Messages, x.role # "reply"
  PROVE  Answered(m \o <<x>>, x.n)
<1> DEFINE w == m \o <<x>>
<1>1. x.n \in Nat BY DEF Messages
<1>2. /\ Len(w) = Len(m) + 1 /\ Len(m) \in Nat
      /\ \A i \in 1..Len(m) : w[i] = m[i]
      /\ w[Len(m) + 1] = x
  BY Longer
<1> HIDE DEF w
<1>3. ASSUME NEW i \in 1..Len(w)
      PROVE  /\ w[i].role # "reply"
             /\ \A j \in 1..w[i].n :
                  \/ i + j <= Len(w) /\ w[i + j].role = "result"
                  \/ Len(w) < i + j /\ i + j <= Len(w) + x.n
  <2>1. CASE i \in 1..Len(m)
    <3>1. w[i] = m[i] BY <1>2, <2>1
    <3>2. m[i].role # "reply" BY <2>1 DEF Answered
    <3>3. ASSUME NEW j \in 1..m[i].n PROVE i + j <= Len(w) /\ w[i + j].role = "result"
      <4>1. m[i].n \in Nat BY <2>1, Counts
      <4>2. j \in Nat \ {0} BY <4>1
      <4>3. i + j <= Len(m) /\ m[i + j].role = "result"
        BY <1>2, <2>1, <4>2 DEF Answered
      <4>4. i + j \in 1..Len(m) BY <1>2, <2>1, <4>2, <4>3
      <4> QED BY <1>2, <4>3, <4>4
    <3> QED BY <3>1, <3>2, <3>3
  <2>2. CASE i = Len(m) + 1
    <3>1. w[i] = x BY <1>2, <2>2
    <3> QED BY <1>1, <1>2, <2>2, <3>1
  <2> QED BY <1>2, <2>1, <2>2
<1> QED BY <1>3 DEF Answered, w

\* A result, of which one fewer is owed then.
LEMMA ResultSaid ==
  ASSUME NEW m \in Seq(Messages), NEW k \in Nat, Answered(m, k + 1)
  PROVE  Answered(m \o <<Message("result", 0)>>, k)
<1> DEFINE x == Message("result", 0)
           w == m \o <<x>>
<1>1. x \in Messages /\ x.role = "result" /\ x.n = 0 BY DEF Message, Messages
<1> HIDE DEF x
<1>2. /\ Len(w) = Len(m) + 1 /\ Len(m) \in Nat
      /\ \A i \in 1..Len(m) : w[i] = m[i]
      /\ w[Len(m) + 1] = x
  BY <1>1, Longer
<1> HIDE DEF w
<1>3. ASSUME NEW i \in 1..Len(w)
      PROVE  /\ w[i].role # "reply"
             /\ \A j \in 1..w[i].n :
                  \/ i + j <= Len(w) /\ w[i + j].role = "result"
                  \/ Len(w) < i + j /\ i + j <= Len(w) + k
  <2>1. CASE i \in 1..Len(m)
    <3>1. w[i] = m[i] BY <1>2, <2>1
    <3>2. m[i].role # "reply" BY <2>1 DEF Answered
    <3>3. ASSUME NEW j \in 1..m[i].n
          PROVE  \/ i + j <= Len(w) /\ w[i + j].role = "result"
                 \/ Len(w) < i + j /\ i + j <= Len(w) + k
      <4>1. m[i].n \in Nat BY <2>1, Counts
      <4>2. j \in Nat \ {0} BY <4>1
      <4>3. CASE i + j <= Len(m) /\ m[i + j].role = "result"
        <5>1. i + j \in 1..Len(m) BY <1>2, <2>1, <4>2, <4>3
        <5> QED BY <1>2, <4>3, <5>1
      <4>4. CASE Len(m) < i + j /\ i + j <= Len(m) + (k + 1)
        <5>1. CASE i + j = Len(m) + 1 BY <1>1, <1>2, <5>1
        <5>2. CASE i + j # Len(m) + 1
          <6>1. i \in Nat BY <2>1
          <6> QED BY <1>2, <4>2, <4>4, <5>2, <6>1
        <5> QED BY <5>1, <5>2
      <4> QED BY <2>1, <4>3, <4>4 DEF Answered
    <3> QED BY <3>1, <3>2, <3>3
  <2>2. CASE i = Len(m) + 1
    <3>1. w[i] = x BY <1>2, <2>2
    <3> QED BY <1>1, <3>1
  <2> QED BY <1>2, <2>1, <2>2
<1> QED BY <1>3 DEF Answered, w, x

\* The two together: what ForcedFinal says.
LEMMA ResultAndCapSaid ==
  ASSUME NEW m \in Seq(Messages), Answered(m, 1)
  PROVE  Answered(m \o <<Message("result", 0), Message("cap", 0)>>, 0)
<1> DEFINE x == Message("result", 0)
           y == Message("cap", 0)
<1>1. x \in Messages /\ y \in Messages BY DEF Message, Messages
<1>2. Answered(m \o <<x>>, 0)
  <2>1. Answered(m, 0 + 1) OBVIOUS
  <2> QED BY <2>1, ResultSaid
<1>3. m \o <<x>> \in Seq(Messages) BY <1>1, Longer
<1>4. y.role # "reply" /\ y.n = 0 BY DEF Message
<1>5. Answered((m \o <<x>>) \o <<y>>, 0) BY <1>1, <1>2, <1>3, <1>4, CallsSaid
<1> HIDE DEF x, y
<1>6. (m \o <<x>>) \o <<y>> = m \o <<x, y>>
  <2>1. <<x>> \in Seq(Messages) /\ <<y>> \in Seq(Messages) BY <1>1
  <2>2. (m \o <<x>>) \o <<y>> = m \o (<<x>> \o <<y>>) BY <2>1, ConcatAssociative
  <2>3. <<x>> \o <<y>> = <<x, y>>
    <3>1. <<x>> \o <<y>> \in Seq(Messages) /\ <<x, y>> \in Seq(Messages)
      BY <1>1, <2>1
    <3>2. Len(<<x>> \o <<y>>) = 2 /\ Len(<<x, y>>) = 2 BY <2>1
    <3>3. (<<x>> \o <<y>>)[1] = x /\ (<<x>> \o <<y>>)[2] = y BY <2>1
    <3>4. \A i \in 1..2 : (<<x>> \o <<y>>)[i] = <<x, y>>[i] BY <3>3
    <3> QED BY <3>1, <3>2, <3>4, SeqEqual
  <2> QED BY <2>2, <2>3
<1> QED BY <1>5, <1>6 DEF x, y

\* A step of run r leaves the others' conversations alone.
LEMMA OthersTalk ==
  ASSUME TypeOK, NEW r \in Runs, RunStep(r), NEW q \in Runs, q # r
  PROVE  messages'[q] = messages[q] /\ todo'[q] = todo[q] /\ pc'[q] = pc[q]
<1>0. messages \in [Runs -> Seq(Messages)] /\ todo \in [Runs -> 0..MaxTools]
  BY Zenon DEF TypeOK
<1>1. pc'[q] = pc[q] BY OthersKeep
<1>2. messages'[q] = messages[q]
  BY <1>0 DEF RunStep, ChecksBudget, AsksForTools, AnswersVerdict, Rejected, RetriesOnce,
       RejectedTwice, CallFails, StartsTools, Decides, Escalates, ToStrong, RecordFails,
       ExecutesTool, EndsTurn, AnotherTurn, ForcedFinal, Cancels, Says, talkVars
<1>3. todo'[q] = todo[q]
  BY <1>0 DEF RunStep, ChecksBudget, AsksForTools, AnswersVerdict, Rejected, RetriesOnce,
       RejectedTwice, CallFails, StartsTools, Decides, Escalates, ToStrong, RecordFails,
       ExecutesTool, EndsTurn, LastTool, Cancels, talkVars
<1> QED BY <1>1, <1>2, <1>3

LEMMA EvidenceStep ==
  ASSUME TypeOK, NEW r \in Runs, Evidence(r), RunStep(r)
  PROVE  Evidence(r)'
<1>0. /\ messages \in [Runs -> Seq(Messages)] /\ todo \in [Runs -> 0..MaxTools]
      /\ pc \in [Runs -> Active \cup Ended] /\ reply \in [Runs -> Replies]
  BY Zenon DEF TypeOK
<1>m. messages[r] \in Seq(Messages) /\ todo[r] \in Nat
  BY <1>0, LoopAssumption
<1>s. ASSUME messages'[r] = messages[r], pc[r] \in Active \ {"tools"}, pc'[r] # "tools"
      PROVE  Evidence(r)'
  BY <1>s DEF Evidence, Owed
<1>1. CASE ChecksBudget(r)
  <2>1. messages' = messages /\ pc[r] = "check" /\ pc'[r] # "tools"
    BY <1>0, <1>1 DEF ChecksBudget, Admits, Defers, Goes, talkVars
  <2> QED BY <1>s, <2>1 DEF Active
<1>2. CASE AsksForTools(r) \/ AnswersVerdict(r) \/ Rejected(r)
  <2>1. messages' = messages /\ pc[r] = "call" /\ pc'[r] # "tools"
    BY <1>0, <1>2 DEF AsksForTools, AnswersVerdict, Rejected, RetriesOnce, Billed, Goes
  <2> QED BY <1>s, <2>1 DEF Active
<1>3. CASE RejectedTwice(r) \/ CallFails(r) \/ RecordFails(r) \/ Cancels(r)
  <2>1. pc'[r] \in {"invalid", "error", "cancelled"}
    BY <1>0, <1>3 DEF RejectedTwice, CallFails, RecordFails, Cancels, Goes
  <2> QED BY <2>1 DEF Evidence, Active
<1>4. CASE StartsTools(r)
  <2> DEFINE n == reply[r].tools
             x == Message("calls", n)
  <2>1. n \in Nat BY <1>0, LoopAssumption DEF Replies
  <2>2. x \in Messages /\ x.role # "reply" /\ x.n = n BY <2>1 DEF Message, Messages
  <2>3. pc[r] = "record" /\ pc'[r] = "tools" /\ todo'[r] = n
    BY <1>0, <1>4 DEF StartsTools, Recorded, Goes
  <2>4. messages'[r] = messages[r] \o <<x>> BY <1>0, <1>4 DEF StartsTools, Says
  <2>5. Answered(messages[r], 0) BY <2>3 DEF Evidence, Owed, Active
  <2> HIDE DEF x, n
  <2>6. Answered(messages[r] \o <<x>>, n) BY <1>m, <2>2, <2>5, CallsSaid
  <2> QED BY <2>3, <2>4, <2>6 DEF Evidence, Owed
<1>5. CASE Decides(r) \/ Escalates(r)
  <2>1. messages' = messages /\ pc[r] = "record" /\ pc'[r] # "tools"
    BY <1>0, <1>5 DEF Decides, Escalates, ToStrong, Recorded, Goes, talkVars
  <2> QED BY <1>s, <2>1 DEF Active
<1>6. CASE ExecutesTool(r)
  <2>1. pc[r] = "tools" /\ pc'[r] = "tools" /\ todo[r] > 1 /\ todo'[r] = todo[r] - 1
    BY <1>0, <1>6 DEF ExecutesTool, stepVars
  <2>2. messages'[r] = messages[r] \o <<Message("result", 0)>>
    BY <1>0, <1>6 DEF ExecutesTool, Says
  <2>3. PICK k \in Nat : todo[r] = k + 1 /\ todo'[r] = k
    <3>1. todo[r] - 1 \in Nat /\ todo[r] = (todo[r] - 1) + 1 BY <1>m, <2>1
    <3> QED BY <2>1, <3>1
  <2>4. Answered(messages[r], k + 1) BY <2>1, <2>3 DEF Evidence, Owed, Active
  <2>5. Answered(messages'[r], k) BY <1>m, <2>2, <2>4, ResultSaid
  <2> QED BY <2>1, <2>3, <2>5 DEF Evidence, Owed
<1>7. CASE EndsTurn(r)
  <2>1. pc[r] = "tools" /\ pc'[r] = "check" /\ todo[r] = 1
    BY <1>0, <1>7 DEF EndsTurn, LastTool, Goes
  <2>2. Answered(messages[r], 1) BY <2>1 DEF Evidence, Owed, Active
  <2>3. CASE messages'[r] = messages[r] \o <<Message("result", 0)>>
    <3>1. Answered(messages[r], 0 + 1) BY <2>2
    <3>2. Answered(messages'[r], 0) BY <1>m, <2>3, <3>1, ResultSaid
    <3> QED BY <2>1, <3>2 DEF Evidence, Owed
  <2>4. CASE messages'[r] = messages[r] \o <<Message("result", 0), Message("cap", 0)>>
    <3>1. Answered(messages'[r], 0) BY <1>m, <2>2, <2>4, ResultAndCapSaid
    <3> QED BY <2>1, <3>1 DEF Evidence, Owed
  <2>5. \/ Says(r, <<Message("result", 0)>>)
        \/ Says(r, <<Message("result", 0), Message("cap", 0)>>)
    BY <1>7 DEF EndsTurn, AnotherTurn, ForcedFinal
  <2> QED BY <1>0, <2>3, <2>4, <2>5 DEF Says
<1> QED
  BY <1>1, <1>2, <1>3, <1>4, <1>5, <1>6, <1>7 DEF RunStep

(***************************************************************************)
(* Every call of TriagePipeline.run, the strong model's included, gets a   *)
(* conversation in which each tool call has its results and no answer of   *)
(* the model is kept.                                                      *)
(***************************************************************************)
THEOREM CallsSeeEvidence == Spec => []EvidenceOnly
<1> DEFINE Talks == \A r \in Runs : Evidence(r)
<1>1. Init => Talks
  <2> SUFFICES ASSUME Init, NEW r \in Runs PROVE Evidence(r)
    OBVIOUS
  <2>1. messages[r] = <<Message("prompt", 0)>> /\ pc[r] = "check" BY DEF Init
  <2>2. Len(messages[r]) = 1 /\ messages[r][1] = Message("prompt", 0) BY <2>1
  <2>3. \A i \in 1..Len(messages[r]) : messages[r][i] = Message("prompt", 0) BY <2>2
  <2>4. Message("prompt", 0).role # "reply" /\ Message("prompt", 0).n = 0 BY DEF Message
  <2> QED BY <2>1, <2>3, <2>4 DEF Evidence, Answered, Owed
<1>2. IndInv /\ Talks /\ [Next]_vars => Talks'
  <2> SUFFICES ASSUME IndInv, Talks, [Next]_vars PROVE Talks'
    OBVIOUS
  <2>0. TypeOK BY DEF IndInv
  <2>1. ASSUME NEW r \in Runs, RunStep(r), NEW q \in Runs PROVE Evidence(q)'
    <3>1. CASE q = r BY <2>0, <2>1, <3>1, EvidenceStep
    <3>2. CASE q # r BY <2>0, <2>1, <3>2, OthersTalk DEF Evidence, Owed
    <3> QED BY <3>1, <3>2
  <2>2. CASE UNCHANGED <<stepVars, talkVars>>
    BY <2>2 DEF stepVars, talkVars, Evidence, Owed
  <2>3. UNCHANGED <<stepVars, talkVars>> \/ \E r \in Runs : RunStep(r)
    BY DEF Next, Call, Handle, RunStep, DayEnds, vars
  <2> QED BY <2>1, <2>2, <2>3
<1>3. IndInv /\ Talks => EvidenceOnly
  <2> SUFFICES ASSUME IndInv, Talks, NEW r \in Runs, pc[r] = "call",
                      NEW i \in 1..Len(messages[r])
               PROVE  /\ messages[r][i].role # "reply"
                      /\ \A j \in 1..messages[r][i].n :
                           i + j <= Len(messages[r]) /\ messages[r][i + j].role = "result"
    BY DEF EvidenceOnly
  <2>1. Answered(messages[r], 0) BY DEF Evidence, Owed, Active
  <2>2. messages[r] \in Seq(Messages)
    <3>1. messages \in [Runs -> Seq(Messages)] BY Zenon DEF IndInv, TypeOK
    <3> QED BY <3>1
  <2>3. messages[r][i].n \in Nat /\ Len(messages[r]) \in Nat BY <2>2, Counts
  <2> QED BY <2>1, <2>3 DEF Answered
<1> QED BY <1>1, <1>2, <1>3, AlwaysInv, PTL DEF Spec
=============================================================================
