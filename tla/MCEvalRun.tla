----------------------------- MODULE MCEvalRun -----------------------------
\* The command lines the model checker gives evals.run.
EXTENDS EvalRun

Plain ==
  [golden |-> "v2", prompts |-> <<"p1">>, strict |-> "default", judge |-> "default",
   gate |-> FALSE, write |-> FALSE, force |-> FALSE, publish |-> FALSE,
   database |-> FALSE, artifact |-> FALSE]

\* Two prompts side by side, published and gated.
Compare ==
  [Plain EXCEPT !.prompts = <<"p1", "p2">>, !.gate = TRUE, !.publish = TRUE,
                !.database = TRUE, !.judge = "no"]

Record == [Plain EXCEPT !.write = TRUE, !.force = TRUE]

\* The second prompt is one there is not.
Synthetic == [Plain EXCEPT !.golden = "v1", !.prompts = <<"p1", "p9">>]

SyntheticPublished == [Synthetic EXCEPT !.publish = TRUE]

Republish == [Plain EXCEPT !.artifact = TRUE]

MCInvocations ==
  {Compare, Record, Synthetic, SyntheticPublished, Republish}

MCLabel == [c \in Cases |-> IF c = 1 THEN 4 ELSE 3]

MCCallOf == [c \in Cases |-> CHOOSE k \in Calls : TRUE]
=============================================================================
