------------------------------- MODULE Sampling -------------------------------
(***************************************************************************)
(* evals.sample: the candidates for labelling.  Each category gets its     *)
(* floor, injection candidates up to a cap, the rest is filled round-robin *)
(* over sensors and days.  A draw of the seeded generator is any draw.     *)
(***************************************************************************)
EXTENDS GoldenConstants, FiniteSetsExt

VARIABLES
  stage,      \* where the sampler is
  size,       \* its --n
  pool,       \* eligible candidates
  kept,       \* what floors and cap, cut to size, chose
  selected,   \* what has been selected
  ring,       \* groups the rest is taken from, in their order
  turn        \* index % len(group_keys)

VARIABLES
  candidates, \* the candidate file, ...
  readable    \* ... which was written to its end

sampleVars == <<stage, size, pool, kept, selected, ring, turn>>
candidateVars == <<candidates, readable>>

SamplingTypeOK ==
  /\ stage \in {"off", "filling", "writing"}
  /\ size \in Sizes \cup {0}
  /\ selected \subseteq pool /\ pool \subseteq Alerts
  /\ kept \subseteq selected
  /\ ring \in Seq(Nat)
  /\ turn \in Nat /\ (ring # <<>> => turn < Len(ring))
  /\ candidates \subseteq Alerts
  /\ readable \in BOOLEAN

SamplingInit ==
  /\ stage = "off"
  /\ size = 0
  /\ pool = {} /\ kept = {} /\ selected = {}
  /\ ring = <<>> /\ turn = 0
  /\ candidates = {}
  /\ readable = TRUE

-----------------------------------------------------------------------------
\* _draw: k members, or every one.
Draws(k, members) == kSubset(Min({k, Cardinality(members)}), members)

Strata == Categories \cup {"injection-candidate"}

\* What stratum s is to have of n: a category its floor, injections a cap.
Share(s, n) ==
  IF s \in Categories THEN Max({MinFloor, n \div FloorShare}) ELSE n \div CapShare

\* What the draws of the strata from their buckets can be together.
Reserves(n, eligible) ==
  LET Bucket(s, S) == {a \in S : Stratum[a] = s}
  IN  {chosen \in SUBSET {a \in eligible : Stratum[a] \in Strata} :
         \A s \in Strata : Bucket(s, chosen) \in Draws(Share(s, n), Bucket(s, eligible))}

\* Floors and cap together can exceed n: they are cut by one more draw.
Trims(n, chosen) == Draws(n, chosen)

\* Groups of what is left, in their order: the ith is the one that is, with
\* those before it, i groups.
Groups(rest) ==
  LET keys == {Group[a] : a \in rest}
  IN  [i \in 1..Cardinality(keys) |->
         CHOOSE g \in keys : Cardinality({h \in keys : h <= g}) = i]

\* _fetch_eligible without --exclude's ids, and the draws of the strata.
SampleBegins(n, exclude) ==
  /\ stage = "off"
  /\ stage' = "filling"
  /\ size' = n
  /\ pool' = Alerts \ exclude
  /\ \E chosen \in Reserves(n, Alerts \ exclude) : kept' \in Trims(n, chosen)
  /\ selected' = kept'
  /\ ring' = Groups(pool' \ kept')
  /\ turn' = 0
  /\ UNCHANGED candidateVars

\* The budget is spent, or every group is empty.
Filled == Cardinality(selected) >= size \/ pool \subseteq selected

InTurn == {a \in pool \ selected : Group[a] = ring[turn + 1]}

\* the same group again as long as it has any
FillsGroup ==
  /\ stage = "filling"
  /\ ~Filled
  /\ IF InTurn = {}
       THEN selected' = selected /\ turn' = (turn + 1) % Len(ring)
       ELSE (\E a \in InTurn : selected' = selected \cup {a}) /\ turn' = turn
  /\ UNCHANGED <<stage, size, pool, kept, ring, candidateVars>>

\* the index runs past the groups
FillsOnward ==
  /\ stage = "filling"
  /\ ~Filled
  /\ IF InTurn = {} THEN selected' = selected ELSE \E a \in InTurn : selected' = selected \cup {a}
  /\ turn' = turn + 1
  /\ UNCHANGED <<stage, size, pool, kept, ring, candidateVars>>

\* One turn of the round-robin: the group's next, if it has one.
Fills ==
  /\ stage = "filling"
  /\ ~Filled
  /\ IF InTurn = {} THEN selected' = selected ELSE \E a \in InTurn : selected' = selected \cup {a}
  /\ turn' = (turn + 1) % Len(ring)
  /\ UNCHANGED <<stage, size, pool, kept, ring, candidateVars>>

Fulfils ==
  /\ stage = "filling"
  /\ Filled
  /\ stage' = "writing"
  /\ UNCHANGED <<size, pool, kept, selected, ring, turn, candidateVars>>

SampleGone ==
  /\ stage' = "off"
  /\ size' = 0
  /\ pool' = {} /\ kept' = {} /\ selected' = {}
  /\ ring' = <<>> /\ turn' = 0

\* write_candidates, over what was there.
WritesCandidates ==
  /\ stage = "writing"
  /\ candidates' = selected
  /\ readable' = TRUE
  /\ SampleGone

\* Killed inside the write, what is there is a part of the lines, or torn.
SampleKilled ==
  /\ "kill" \in GoldenFaults
  /\ stage # "off"
  /\ \/ UNCHANGED candidateVars
     \/ stage = "writing" /\ candidates' \in SUBSET selected /\ readable' = TRUE
     \/ stage = "writing" /\ candidates' = {} /\ readable' = FALSE
  /\ SampleGone

-----------------------------------------------------------------------------
Taken(g) == Cardinality({a \in selected \ kept : Group[a] = g})

Left(g) == {a \in pool \ selected : Group[a] = g}

(***************************************************************************)
(* The sample has exactly the size asked for, or is all there is; no       *)
(* sensor and day gives the rest more than one candidate more than another *)
(* that still has some; and unless the floors had to be cut, each category *)
(* has its floor and the injection candidates have theirs.                 *)
(***************************************************************************)
SampleIsFair ==
  /\ stage = "writing" => Cardinality(selected) = Min({size, Cardinality(pool)})
  /\ \A i, j \in 1..Len(ring) :
       Taken(ring[i]) <= Taken(ring[j]) + 1 \/ Left(ring[j]) = {}
  /\ stage = "writing" /\ Cardinality(kept) < size =>
       \A s \in Strata :
         LET there == {a \in pool : Stratum[a] = s}
         IN  Cardinality(there \cap selected) >= Min({Share(s, size), Cardinality(there)})
=============================================================================
