--------------------------- MODULE GoldenConstants ---------------------------
(***************************************************************************)
(* The parameters of the golden set: the finished alerts it is drawn from, *)
(* the sampling shares, and the processes that label.                      *)
(***************************************************************************)
EXTENDS Naturals, Sequences, FiniteSets

CONSTANTS
  Alerts,      \* alerts that have finished triage, by their case id
  Stratum,     \* Stratum[a]: _stratum_for its alert
  Categories,  \* STRATA_CATEGORIES
  Group,       \* Group[a]: its sensor and day, as a position in their order
  Sizes,       \* what --n is given as
  MinFloor,    \* of a category: max(MinFloor, n // FloorShare)
  FloorShare,
  CapShare,    \* of injection candidates: n // CapShare
  Labelers,    \* labelling processes there can be at a time
  MaxRows,     \* bound: rows of the golden file
  GoldenFaults \* "kill": a process is killed

ASSUME AlertsAssumption == IsFiniteSet(Alerts) /\ Alerts \subseteq Nat
ASSUME StratumAssumption ==
  Stratum \in [Alerts -> Categories \cup {"injection-candidate", "unverdicted"}]
ASSUME GroupAssumption == Group \in [Alerts -> Nat]
ASSUME SizesAssumption == Sizes \subseteq Nat /\ MaxRows \in Nat
ASSUME SharesAssumption ==
  MinFloor \in Nat /\ FloorShare \in Nat \ {0} /\ CapShare \in Nat \ {0}
==============================================================================
