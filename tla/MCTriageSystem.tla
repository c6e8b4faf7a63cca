--------------------------- MODULE MCTriageSystem ---------------------------
(***************************************************************************)
(* The triage service on small instances.                                  *)
(***************************************************************************)
EXTENDS TriageSystem, TLC

\* Job slots and requests are interchangeable (safety runs only).
Interchangeable ==
  Permutations(Workers) \cup Permutations(Posts) \cup Permutations(Admins)
=============================================================================
