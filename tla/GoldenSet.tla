------------------------------ MODULE GoldenSet ------------------------------
(***************************************************************************)
(* The golden set: candidates are drawn, again and again, from finished    *)
(* alerts, without those an earlier file names, and labelled into one file.*)
(***************************************************************************)
EXTENDS Sampling, Labelling

vars == <<sampleVars, candidateVars, labelVars>>

TypeOK == SamplingTypeOK /\ LabellingTypeOK

Init == SamplingInit /\ LabellingInit

\* --exclude: nothing, a candidate file, or the golden file.
Excludes == {{}} \cup (IF readable THEN {candidates} ELSE {})
                 \cup (IF \A i \in DOMAIN golden : golden[i] # Torn THEN {Cases} ELSE {})

\* Bound: sampler and labellers are not at work at the same time.  Each reads
\* the other's file as a whole when it starts; a candidate file that names
\* cases already labelled comes from a sample without --exclude as well.
OneAtATime == stage = "off" /\ \A p \in Labelers : where[p] = "off"

SampleStep ==
  \/ OneAtATime /\ \E n \in Sizes, exclude \in Excludes : SampleBegins(n, exclude)
  \/ Fills \/ Fulfils \/ WritesCandidates \/ SampleKilled

\* A candidate file is read as a whole, or refused.
SessionBegins(p) ==
  /\ stage = "off"
  /\ readable
  /\ LabelBegins(p, candidates) \/ AiBegins(p, candidates)

Next ==
  \/ SampleStep /\ UNCHANGED labelVars
  \/ \E p \in Labelers :
       (SessionBegins(p) \/ LabelStep(p)) /\ UNCHANGED <<sampleVars, candidateVars>>

Spec == Init /\ [][Next]_vars
=============================================================================
