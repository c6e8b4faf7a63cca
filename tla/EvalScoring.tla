---------------------------- MODULE EvalScoring ----------------------------
(***************************************************************************)
(* What a run's case results are worth (evals/scoring.py) and whether that *)
(* passes against a recorded baseline (evals/gate.py).  Rates share the    *)
(* denominator they are computed with, so they are compared as counts; a   *)
(* case that failed has verdict 0.                                         *)
(***************************************************************************)
EXTENDS EvalConstants, Functions

Critical == {c \in Cases : Label[c] >= 4}

Failed(r) == {c \in Cases : r[c].verdict = 0}

Distance(a, b) == IF a < b THEN b - a ELSE a - b

\* score: the cases a rate counts.  One that failed is never among them.
Exact(r) == {c \in Cases \ Failed(r) : r[c].verdict = Label[c]}

WithinOne(r) == {c \in Cases \ Failed(r) : Distance(r[c].verdict, Label[c]) <= 1}

CriticalHit(r) == {c \in Critical : r[c].verdict >= 4}

Judged(r) == {c \in Cases : r[c].judge = "score"}

\* rounded down
RankBelow(n, p) == (p * n) \div 100

\* percentile: the value at rank ceil(p / 100 * n) of the sorted costs.
NearestRank(n, p) == (p * n + 99) \div 100

\* The cases up to c, by their cost: what costs the same stays in its order.
UpTo(r, c) ==
  {d \in Cases : r[d].cost < r[c].cost \/ (r[d].cost = r[c].cost /\ d <= c)}

PercentileCost(r, p) ==
  r[CHOOSE c \in Cases :
      Cardinality(UpTo(r, c)) = NearestRank(Cardinality(Cases), p)].cost

Metrics(r) ==
  [failed |-> Cardinality(Failed(r)),
   exact |-> Cardinality(Exact(r)),
   within |-> Cardinality(WithinOne(r)),
   critical |-> Cardinality(CriticalHit(r)),
   judged |-> Cardinality(Judged(r)),
   p95 |-> PercentileCost(r, 95),
   cost |-> SumFunction([c \in Cases |-> r[c].cost]),
   judgeCost |-> SumFunction([c \in Cases |-> r[c].judgeCost])]

\* confusion: a cell for each labelled and each predicted band, 0 for failed.
Confusion(r) ==
  [cell \in Severity \X (Severity \cup {0}) |->
     Cardinality({c \in Cases : Label[c] = cell[1] /\ r[c].verdict = cell[2]})]

\* per_severity: the counts precision and recall are made of.
Support(b) == Cardinality({c \in Cases : Label[c] = b})

Predicted(r, b) == Cardinality({c \in Cases : r[c].verdict = b})

-----------------------------------------------------------------------------
\* evaluate_gate
SeverityDropped(row, base) ==
  100 * row.exact + DropPoints * Cardinality(Cases) < 100 * base.exact

RecallTooLow(row) ==
  IF Critical = {} THEN RecallMin > 0
  ELSE 100 * row.critical < RecallMin * Cardinality(Critical)

CostRose(row, base) ==
  row.config = base.config /\ 100 * row.cost > (100 + RisePercent) * base.cost

Tripped(row, base) ==
  SeverityDropped(row, base) \/ RecallTooLow(row) \/ CostRose(row, base)
=============================================================================
