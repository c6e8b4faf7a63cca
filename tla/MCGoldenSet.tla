----------------------------- MODULE MCGoldenSet -----------------------------
(***************************************************************************)
(* Five finished alerts: two categories, an injection candidate on another *)
(* sensor, and two without a verdict.                                      *)
(***************************************************************************)
EXTENDS GoldenSet, TLC

MCAlerts == 1..5

MCStratum == [a \in MCAlerts |->
  CASE a = 1 -> "scanning" [] a = 2 -> "brute_force"
    [] a = 5 -> "injection-candidate" [] OTHER -> "unverdicted"]

MCGroup == [a \in MCAlerts |-> IF a = 5 THEN 2 ELSE 1]

\* Labelling processes differ by name only.
LabelerSymmetry == Permutations(Labelers)
=============================================================================
