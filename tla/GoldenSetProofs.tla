--------------------------- MODULE GoldenSetProofs ---------------------------
(***************************************************************************)
(* Proofs about the golden file, for every set of alerts, every sampling   *)
(* share, any number of labelling processes and any number of rows.        *)
(***************************************************************************)
EXTENDS GoldenSet, FiniteSetTheorems, SequenceTheorems, TLAPS

-----------------------------------------------------------------------------
(***************************************************************************)
(* The sampler.  What is in the candidate file are alerts.                 *)
(***************************************************************************)
SamplesAlerts ==
  /\ pool \subseteq Alerts
  /\ selected \subseteq pool
  /\ candidates \subseteq Alerts

\* The cut of the strata's draws is of eligible alerts.
LEMMA KeepsEligible ==
  ASSUME NEW n, NEW eligible, NEW chosen \in Reserves(n, eligible), NEW cutTo \in Trims(n, chosen)
  PROVE  cutTo \subseteq eligible
<1>1. chosen \subseteq eligible BY DEF Reserves
<1>2. cutTo \subseteq chosen BY DEF Trims, Draws, kSubset
<1> QED BY <1>1, <1>2

\* A step of the sampler draws alerts only.
LEMMA SampleInductive ==
  ASSUME SamplesAlerts, SampleStep
  PROVE  SamplesAlerts'
<1> USE DEF SamplesAlerts, candidateVars
<1>1. ASSUME NEW n \in Sizes, NEW exclude \in Excludes, SampleBegins(n, exclude)
      PROVE  SamplesAlerts'
  <2>1. PICK chosen \in Reserves(n, Alerts \ exclude) : kept' \in Trims(n, chosen)
    BY <1>1 DEF SampleBegins
  <2>2. kept' \subseteq Alerts \ exclude BY <2>1, KeepsEligible
  <2> QED BY <1>1, <2>2 DEF SampleBegins
<1>2. CASE Fills BY <1>2 DEF Fills, InTurn
<1>3. CASE Fulfils BY <1>3 DEF Fulfils
<1>4. CASE WritesCandidates BY <1>4 DEF WritesCandidates, SampleGone
<1>5. CASE SampleKilled BY <1>5 DEF SampleKilled, SampleGone
<1> QED BY <1>1, <1>2, <1>3, <1>4, <1>5 DEF SampleStep

-----------------------------------------------------------------------------
(***************************************************************************)
(* The golden file.  A labeller that is alone has before it only cases the *)
(* file does not have, and writes only after a whole line.                 *)
(***************************************************************************)
Alone == ~shared /\ ~cut

Unseen ==
  Alone =>
    /\ Loads
    /\ \A p, q \in Labelers : where[p] # "off" /\ where[q] # "off" => p = q
    /\ \A p \in Labelers : where[p] = "off" => todo[p] = {}
    /\ \A p \in Labelers : todo[p] \cap Cases = {}
    /\ \A p \in Labelers : where[p] \in {"asking", "writing"} => ended

GoldenInv == SamplesAlerts /\ LabellingTypeOK /\ Unseen

\* A case the file does not have, written after a whole line, keeps it loadable.
LEMMA FreshLineLoads ==
  ASSUME golden \in Seq(Lines), Loads, NEW line \in Lines, line # Torn,
         line.case \notin Cases, golden' = Append(golden, line)
  PROVE  Loads' /\ Cases' = Cases \cup {line.case}
<1>1. /\ Len(golden') = Len(golden) + 1
      /\ Len(golden) \in Nat
      /\ DOMAIN golden = 1..Len(golden)
      /\ DOMAIN golden' = 1..(Len(golden) + 1)
      /\ \A i \in 1..Len(golden) : golden'[i] = golden[i]
      /\ golden'[Len(golden) + 1] = line
  OBVIOUS
<1>2. \A i \in DOMAIN golden : golden[i].case # line.case BY DEF Cases
<1>3. \A i \in DOMAIN golden' : i \in DOMAIN golden \/ i = Len(golden) + 1 BY <1>1
<1>4. Loads' BY <1>1, <1>2, <1>3 DEF Loads
<1>5. Cases' = Cases \cup {line.case}
  <2>1. \A i \in DOMAIN golden : i \in DOMAIN golden' BY <1>1
  <2>2. Len(golden) + 1 \in DOMAIN golden' BY <1>1
  <2> QED BY <1>1, <1>3, <2>1, <2>2 DEF Cases
<1> QED BY <1>4, <1>5

\* Whatever the last line ends in, a line more is a file of lines.
LEMMA AppendedLines ==
  ASSUME golden \in Seq(Lines), ended \in BOOLEAN, NEW line \in Lines
  PROVE  Appended(line) \in Seq(Lines)
<1>1. CASE ended BY <1>1 DEF Appended
<1>2. CASE ~ended
  <2>1. Torn \in Lines BY DEF Lines
  <2>2. Len(golden) \in Nat /\ DOMAIN golden = 1..Len(golden) OBVIOUS
  <2>3. CASE Len(golden) = 0
    <3>1. Len(golden) \notin DOMAIN golden BY <2>2, <2>3
    <3>2. [golden EXCEPT ![Len(golden)] = Torn] = golden BY <3>1
    <3> QED BY <1>2, <3>2 DEF Appended
  <2>4. CASE Len(golden) # 0
    <3>1. Len(golden) \in 1..Len(golden) BY <2>2, <2>4
    <3>2. [golden EXCEPT ![Len(golden)] = Torn] \in Seq(Lines) BY <2>1, <3>1, ExceptSeq
    <3> QED BY <1>2, <3>2 DEF Appended
  <2> QED BY <2>3, <2>4
<1> QED BY <1>1, <1>2

\* What a labeller does keeps the types of the golden file.
LEMMA LabelTypes ==
  ASSUME LabellingTypeOK, candidates \subseteq Alerts, NEW p \in Labelers,
         SessionBegins(p) \/ LabelStep(p)
  PROVE  LabellingTypeOK'
<1> USE DEF LabellingTypeOK
<1>1. CASE SessionBegins(p) BY <1>1 DEF SessionBegins, LabelBegins, AiBegins, Begins
<1>2. CASE Labels(p)
  <2>1. PICK a \in todo[p] : /\ Writes([case |-> a, by |-> "human"])
                            /\ todo' = [todo EXCEPT ![p] = @ \ {a}]
    BY <1>2 DEF Labels
  <2>2. [case |-> a, by |-> "human"] \in Lines BY DEF Lines
  <2>3. golden' \in Seq(Lines) BY <2>1, <2>2, AppendedLines DEF Writes
  <2> QED BY <1>2, <2>1, <2>3 DEF Labels, Writes
<1>3. CASE Skips(p) BY <1>3 DEF Skips
<1>4. CASE Quits(p) BY <1>4 DEF Quits, Leaves
<1>5. CASE AiAnswers(p) BY <1>5 DEF AiAnswers
<1>6. CASE AiWrites(p)
  <2>1. PICK a \in todo[p] : /\ Writes([case |-> a, by |-> "ai"])
                            /\ todo' = [todo EXCEPT ![p] = @ \ {a}]
    BY <1>6 DEF AiWrites
  <2>2. [case |-> a, by |-> "ai"] \in Lines BY DEF Lines
  <2>3. golden' \in Seq(Lines) BY <2>1, <2>2, AppendedLines DEF Writes
  <2> QED BY <1>6, <2>1, <2>3 DEF AiWrites, Writes
<1>7. CASE AiEnds(p) BY <1>7 DEF AiEnds, Leaves
<1>8. CASE Killed(p)
  <2>1. CASE UNCHANGED <<golden, ended, cut>> BY <1>8, <2>1 DEF Killed, Leaves
  <2>2. CASE CutsLine(p)
    <3>1. Torn \in Lines BY DEF Lines
    <3>2. \A a \in todo[p], by \in {"human", "ai"} : [case |-> a, by |-> by] \in Lines
      BY DEF Lines
    <3>3. golden' \in Seq(Lines) BY <2>2, <3>1, <3>2, AppendedLines DEF CutsLine
    <3>4. ended' \in BOOLEAN /\ cut' \in BOOLEAN BY <2>2 DEF CutsLine
    <3> QED BY <1>8, <3>3, <3>4 DEF Killed, Leaves
  <2> QED BY <1>8, <2>1, <2>2 DEF Killed
<1> QED BY <1>1, <1>2, <1>3, <1>4, <1>5, <1>6, <1>7, <1>8 DEF LabelStep

\* A case before a labeller that is alone is written, and stays written once.
LEMMA WritesUnseen ==
  ASSUME LabellingTypeOK, Unseen, Alone, NEW p \in Labelers,
         where[p] \in {"asking", "writing"}, NEW a \in todo[p], NEW by \in {"human", "ai"},
         golden' = Appended([case |-> a, by |-> by])
  PROVE  Loads' /\ Cases' = Cases \cup {a}
<1> DEFINE line == [case |-> a, by |-> by]
<1>1. line \in Lines /\ line # Torn /\ line.case = a BY DEF Lines, Torn, LabellingTypeOK
<1>2. Loads /\ ended /\ a \notin Cases BY DEF Unseen
<1>3. golden' = Append(golden, line) BY <1>2 DEF Appended
<1>4. golden \in Seq(Lines) BY DEF LabellingTypeOK
<1> HIDE DEF line
<1> QED BY <1>1, <1>2, <1>3, <1>4, FreshLineLoads

\* A labeller that is alone leaves a file that loads.
LEMMA UnseenInductive ==
  ASSUME LabellingTypeOK, LabellingTypeOK', Unseen, NEW p \in Labelers,
         SessionBegins(p) \/ LabelStep(p)
  PROVE  Unseen'
<1> SUFFICES ASSUME Alone'
             PROVE  /\ Loads'
                    /\ \A q, r \in Labelers : where'[q] # "off" /\ where'[r] # "off" => q = r
                    /\ \A q \in Labelers : where'[q] = "off" => todo'[q] = {}
                    /\ \A q \in Labelers : todo'[q] \cap Cases' = {}
                    /\ \A q \in Labelers : where'[q] \in {"asking", "writing"} => ended'
  BY DEF Unseen
<1>a. Alone
  BY DEF Alone, LabellingTypeOK, SessionBegins, LabelBegins, AiBegins, Begins, LabelStep, Labels,
         Skips, Quits, AiAnswers, AiWrites, AiEnds, Killed, CutsLine
<1>u. /\ Loads
      /\ \A q, r \in Labelers : where[q] # "off" /\ where[r] # "off" => q = r
      /\ \A q \in Labelers : where[q] = "off" => todo[q] = {}
      /\ \A q \in Labelers : todo[q] \cap Cases = {}
      /\ \A q \in Labelers : where[q] \in {"asking", "writing"} => ended
  BY <1>a DEF Unseen
<1>t. /\ where \in [Labelers -> {"off", "asking", "calling", "writing"}]
      /\ todo \in [Labelers -> SUBSET Alerts]
  BY DEF LabellingTypeOK
<1>s. golden' = golden => Loads' /\ Cases' = Cases BY <1>u DEF Loads, Cases
<1>1. CASE SessionBegins(p)
  <2>1. \A q \in Labelers : where[q] = "off"
    BY <1>1 DEF SessionBegins, LabelBegins, AiBegins, Begins, Alone
  <2>2. golden' = golden BY <1>1 DEF SessionBegins, LabelBegins, AiBegins, Begins
  <2>3. \A q \in Labelers : todo'[q] \cap Cases = {}
    BY <1>1, <1>t, <1>u DEF SessionBegins, LabelBegins, AiBegins, Begins
  <2>4. \A q \in Labelers : q # p => where'[q] = "off"
    BY <1>1, <1>t, <2>1 DEF SessionBegins, LabelBegins, AiBegins, Begins
  <2>5. where'[p] \in {"asking", "writing"} => ended'
    BY <1>1, <1>t DEF SessionBegins, LabelBegins, AiBegins, Begins
  <2>6. \A q \in Labelers : where'[q] = "off" => todo'[q] = {}
    BY <1>1, <1>t, <1>u DEF SessionBegins, LabelBegins, AiBegins, Begins
  <2> QED BY <1>s, <2>2, <2>3, <2>4, <2>5, <2>6
<1>2. CASE Labels(p)
  <2>1. PICK a \in todo[p] : /\ Writes([case |-> a, by |-> "human"])
                            /\ todo' = [todo EXCEPT ![p] = @ \ {a}]
    BY <1>2 DEF Labels
  <2>2. Loads' /\ Cases' = Cases \cup {a} BY <1>2, <1>a, <2>1, WritesUnseen DEF Labels, Writes
  <2>3. \A q \in Labelers : q # p => where[q] = "off" /\ todo'[q] = {}
    BY <1>2, <1>t, <1>u, <2>1 DEF Labels
  <2>4. todo'[p] \cap Cases' = {} BY <1>t, <1>u, <2>1, <2>2
  <2>5. where' = where /\ ended' BY <1>2, <2>1 DEF Labels, Writes
  <2> QED BY <1>2, <1>u, <2>2, <2>3, <2>4, <2>5 DEF Labels
<1>3. CASE Skips(p)
  <2>1. golden' = golden /\ ended' = ended /\ where' = where BY <1>3 DEF Skips
  <2>2. \A q \in Labelers : todo'[q] \subseteq todo[q] BY <1>3, <1>t DEF Skips
  <2> QED BY <1>s, <1>u, <2>1, <2>2
<1>4. CASE Quits(p) \/ AiEnds(p)
  <2>1. golden' = golden /\ ended' = ended BY <1>4 DEF Quits, AiEnds
  <2>2. Leaves(p) BY <1>4 DEF Quits, AiEnds
  <2> QED BY <1>s, <1>t, <1>u, <2>1, <2>2 DEF Leaves
<1>5. CASE AiAnswers(p)
  <2>1. golden' = golden /\ ended' BY <1>5 DEF AiAnswers
  <2>2. \A q \in Labelers : todo'[q] \subseteq todo[q] BY <1>5, <1>t DEF AiAnswers
  <2>3. \A q \in Labelers : where'[q] = "off" <=> where[q] = "off" BY <1>5, <1>t DEF AiAnswers
  <2> QED BY <1>s, <1>u, <2>1, <2>2, <2>3
<1>6. CASE AiWrites(p)
  <2>1. PICK a \in todo[p] : /\ Writes([case |-> a, by |-> "ai"])
                            /\ todo' = [todo EXCEPT ![p] = @ \ {a}]
    BY <1>6 DEF AiWrites
  <2>2. Loads' /\ Cases' = Cases \cup {a} BY <1>6, <1>a, <2>1, WritesUnseen DEF AiWrites, Writes
  <2>3. \A q \in Labelers : q # p => where[q] = "off" /\ todo'[q] = {}
    BY <1>6, <1>t, <1>u, <2>1 DEF AiWrites
  <2>4. todo'[p] \cap Cases' = {} BY <1>t, <1>u, <2>1, <2>2
  <2>5. where' = where /\ ended' BY <1>6, <2>1 DEF AiWrites, Writes
  <2> QED BY <1>6, <1>u, <2>2, <2>3, <2>4, <2>5 DEF AiWrites
<1>7. CASE Killed(p)
  <2>1. Leaves(p) BY <1>7 DEF Killed
  <2>2. \A q \in Labelers : where'[q] = "off" /\ todo'[q] = {}
    BY <1>7, <1>t, <1>u, <2>1 DEF Killed, Leaves
  <2>3. Loads'
    <3>1. CASE UNCHANGED <<golden, ended, cut>> BY <1>s, <3>1
    <3>2. CASE CutsLine(p)
      <4>1. PICK a \in todo[p], by \in {"human", "ai"} : golden' = Appended([case |-> a, by |-> by])
        BY <3>2 DEF CutsLine, Alone
      <4> QED BY <1>a, <3>2, <4>1, WritesUnseen DEF CutsLine
    <3> QED BY <1>7, <3>1, <3>2 DEF Killed
  <2> QED BY <2>2, <2>3
<1> QED BY <1>1, <1>2, <1>3, <1>4, <1>5, <1>6, <1>7 DEF LabelStep

-----------------------------------------------------------------------------
(***************************************************************************)
(* The specification.                                                      *)
(***************************************************************************)
LEMMA GoldenInitially ==
  ASSUME Init
  PROVE  GoldenInv
<1>1. SamplesAlerts BY DEF Init, SamplingInit, SamplesAlerts
<1>2. LabellingTypeOK
  <2>1. <<>> \in Seq(Lines) OBVIOUS
  <2>2. golden \in Seq(Lines) BY <2>1 DEF Init, LabellingInit
  <2> QED BY <2>2 DEF Init, LabellingInit, LabellingTypeOK
<1>3. Unseen BY DEF Init, LabellingInit, Unseen, Loads, Cases
<1> QED BY <1>1, <1>2, <1>3 DEF GoldenInv

LEMMA GoldenInductive ==
  ASSUME GoldenInv, [Next]_vars
  PROVE  GoldenInv'
<1> USE DEF GoldenInv
<1>1. CASE SampleStep /\ UNCHANGED labelVars
  <2>1. LabellingTypeOK' BY <1>1 DEF labelVars, LabellingTypeOK
  <2>2. Unseen' BY <1>1 DEF labelVars, Unseen, Alone, Loads, Cases
  <2> QED BY <1>1, <2>1, <2>2, SampleInductive
<1>2. ASSUME NEW p \in Labelers, SessionBegins(p) \/ LabelStep(p),
             UNCHANGED <<sampleVars, candidateVars>>
      PROVE  GoldenInv'
  <2>1. SamplesAlerts' BY <1>2 DEF SamplesAlerts, sampleVars, candidateVars
  <2>2. LabellingTypeOK' BY <1>2, LabelTypes DEF SamplesAlerts
  <2>3. Unseen' BY <1>2, <2>2, UnseenInductive
  <2> QED BY <2>1, <2>2, <2>3
<1>3. CASE UNCHANGED vars
  <2>1. UNCHANGED labelVars /\ UNCHANGED <<sampleVars, candidateVars>> BY <1>3 DEF vars
  <2>2. SamplesAlerts' BY <2>1 DEF SamplesAlerts, sampleVars, candidateVars
  <2>3. LabellingTypeOK' BY <2>1 DEF labelVars, LabellingTypeOK
  <2>4. Unseen' BY <2>1 DEF labelVars, Unseen, Alone, Loads, Cases
  <2> QED BY <2>2, <2>3, <2>4
<1> QED BY <1>1, <1>2, <1>3 DEF Next

(***************************************************************************)
(* Types of the golden file: every line of it is a whole row of one        *)
(* labeller, or torn.                                                      *)
(***************************************************************************)
THEOREM LabellingTypes == Spec => []LabellingTypeOK
<1>1. Init => GoldenInv BY GoldenInitially
<1>2. GoldenInv /\ [Next]_vars => GoldenInv' BY GoldenInductive
<1>3. GoldenInv => LabellingTypeOK BY DEF GoldenInv
<1> QED BY <1>1, <1>2, <1>3, PTL DEF Spec

(***************************************************************************)
(* The golden file loads, each case once, unless labellers worked at the   *)
(* same time or a kill left a part of a line.                              *)
(***************************************************************************)
THEOREM GoldenLoadsSafe == Spec => []GoldenLoads
<1>1. Init => GoldenInv BY GoldenInitially
<1>2. GoldenInv /\ [Next]_vars => GoldenInv' BY GoldenInductive
<1>3. GoldenInv => GoldenLoads BY DEF GoldenInv, GoldenLoads, Unseen, Alone
<1> QED BY <1>1, <1>2, <1>3, PTL DEF Spec

\* The rows that are whole lines stand where they are.
RowsStand ==
  \A i \in 1..Len(golden) :
    i < Len(golden) \/ ended => i <= Len(golden') /\ golden'[i] = golden[i]

\* A line more leaves those before it.
LEMMA AppendedStands ==
  ASSUME golden \in Seq(Lines), ended \in BOOLEAN, NEW line \in Lines,
         golden' = Appended(line)
  PROVE  RowsStand
<1>1. CASE ended BY <1>1 DEF Appended, RowsStand
<1>2. CASE ~ended
  <2>1. golden' = [golden EXCEPT ![Len(golden)] = Torn] BY <1>2 DEF Appended
  <2>2. CASE Len(golden) = 0 BY <2>2 DEF RowsStand
  <2>3. CASE Len(golden) # 0
    <3>1. Len(golden) \in 1..Len(golden) BY <2>3
    <3>2. Len(golden') = Len(golden) BY <2>1, <3>1, ExceptSeq DEF Lines
    <3>3. \A i \in 1..Len(golden) : i # Len(golden) => golden'[i] = golden[i] BY <2>1
    <3> QED BY <1>2, <3>2, <3>3 DEF RowsStand
  <2> QED BY <2>2, <2>3
<1> QED BY <1>1, <1>2

\* No step takes a whole row away.
LEMMA StepStands ==
  ASSUME LabellingTypeOK, [Next]_vars
  PROVE  RowsStand
<1>s. golden' = golden => RowsStand BY DEF LabellingTypeOK, RowsStand
<1>l. \A line \in Lines : golden' = Appended(line) => RowsStand
  BY AppendedStands DEF LabellingTypeOK
<1>1. CASE SampleStep /\ UNCHANGED labelVars BY <1>1, <1>s DEF labelVars
<1>2. ASSUME NEW p \in Labelers, SessionBegins(p) \/ LabelStep(p)
      PROVE  RowsStand
  <2>1. \A a \in todo[p], by \in {"human", "ai"} : [case |-> a, by |-> by] \in Lines
    BY DEF Lines, LabellingTypeOK
  <2>2. Torn \in Lines BY DEF Lines
  <2>3. CASE SessionBegins(p)
    BY <2>3, <1>s DEF SessionBegins, LabelBegins, AiBegins, Begins
  <2>4. CASE Labels(p) BY <2>4, <1>l, <2>1 DEF Labels, Writes
  <2>5. CASE Skips(p) \/ Quits(p) \/ AiAnswers(p) \/ AiEnds(p)
    BY <2>5, <1>s DEF Skips, Quits, AiAnswers, AiEnds
  <2>6. CASE AiWrites(p) BY <2>6, <1>l, <2>1 DEF AiWrites, Writes
  <2>7. CASE Killed(p) BY <2>7, <1>s, <1>l, <2>1, <2>2 DEF Killed, CutsLine
  <2> QED BY <1>2, <2>3, <2>4, <2>5, <2>6, <2>7 DEF LabelStep
<1>3. CASE UNCHANGED vars BY <1>3, <1>s DEF vars, labelVars
<1> QED BY <1>1, <1>2, <1>3 DEF Next

(***************************************************************************)
(* Whoever labels, however often they are killed and however many work at  *)
(* the same time: a row that was written whole stays, with its provenance. *)
(***************************************************************************)
THEOREM LabelsStandSafe == Spec => LabelsStand
<1>1. LabellingTypeOK /\ [Next]_vars => [RowsStand]_labelVars BY StepStands
<1> QED BY <1>1, LabellingTypes, PTL DEF Spec, LabelsStand, RowsStand

-----------------------------------------------------------------------------
(***************************************************************************)
(* The order of the groups.  The number of keys up to a key is different   *)
(* for each of them and at most how many there are, so that every position *)
(* has its key: Groups is the sequence of the keys, each once.             *)
(***************************************************************************)
Keys(rest) == {Group[a] : a \in rest}

UpTo(S, g) == {h \in S : h <= g}

\* The image of a finite set of alerts.
LEMMA KeysFinite ==
  ASSUME NEW rest \in SUBSET Alerts
  PROVE  Keys(rest) \subseteq Nat /\ IsFiniteSet(Keys(rest))
<1>1. IsFiniteSet(rest) BY AlertsAssumption, FS_Subset
<1>2. [a \in rest |-> Group[a]] \in Surjection(rest, Keys(rest))
  BY DEF Keys, Surjection
<1>3. IsFiniteSet(Keys(rest)) BY <1>1, <1>2, FS_Surjection
<1>4. Keys(rest) \subseteq Nat BY GroupAssumption DEF Keys
<1> QED BY <1>3, <1>4

\* A larger key has more keys up to it.
LEMMA RankGrows ==
  ASSUME NEW S \in SUBSET Nat, IsFiniteSet(S), NEW g \in S, NEW h \in S, g < h
  PROVE  Cardinality(UpTo(S, g)) < Cardinality(UpTo(S, h))
<1>0. \A k \in S : k <= g => k <= h
  <2>1. g \in Nat /\ h \in Nat /\ \A k \in S : k \in Nat OBVIOUS
  <2> QED BY <2>1
<1>1. UpTo(S, h) \subseteq S /\ UpTo(S, g) \subseteq UpTo(S, h) BY <1>0 DEF UpTo
<1>2. IsFiniteSet(UpTo(S, h)) BY <1>1, FS_Subset
<1>3. UpTo(S, g) # UpTo(S, h)
  <2>1. h \in UpTo(S, h) /\ h \notin UpTo(S, g) BY DEF UpTo
  <2> QED BY <2>1
<1>4. IsFiniteSet(UpTo(S, g)) /\ Cardinality(UpTo(S, g)) <= Cardinality(UpTo(S, h))
      /\ Cardinality(UpTo(S, g)) # Cardinality(UpTo(S, h))
  BY <1>1, <1>2, <1>3, FS_Subset
<1>5. Cardinality(UpTo(S, g)) \in Nat /\ Cardinality(UpTo(S, h)) \in Nat
  BY <1>2, <1>4, FS_CardinalityType
<1> QED BY <1>4, <1>5

\* Every position among the keys has its key.
LEMMA RankOnto ==
  ASSUME NEW S \in SUBSET Nat, IsFiniteSet(S)
  PROVE  /\ Cardinality(S) \in Nat
         /\ \A g \in S : Cardinality(UpTo(S, g)) \in 1..Cardinality(S)
         /\ \A i \in 1..Cardinality(S) : \E g \in S : Cardinality(UpTo(S, g)) = i
<1> DEFINE n == Cardinality(S)
           rank == [g \in S |-> Cardinality(UpTo(S, g))]
<1>1. n \in Nat BY FS_CardinalityType
<1>2. ASSUME NEW g \in S PROVE Cardinality(UpTo(S, g)) \in 1..n
  <2>1. UpTo(S, g) \subseteq S /\ g \in UpTo(S, g) BY DEF UpTo
  <2>2. IsFiniteSet(UpTo(S, g)) /\ Cardinality(UpTo(S, g)) <= n BY <2>1, FS_Subset
  <2>3. Cardinality(UpTo(S, g)) \in Nat /\ Cardinality(UpTo(S, g)) # 0
    BY <2>1, <2>2, FS_CardinalityType, FS_EmptySet
  <2> QED BY <1>1, <2>2, <2>3
<1>3. rank \in [S -> 1..n] BY <1>2
<1>4. ASSUME NEW g \in S, NEW h \in S, rank[g] = rank[h] PROVE g = h
  <2>1. ~(g < h) /\ ~(h < g)
    <3>1. Cardinality(UpTo(S, g)) = Cardinality(UpTo(S, h)) BY <1>4
    <3>2. Cardinality(UpTo(S, g)) \in Nat BY <1>1, <1>2
    <3> QED BY <3>1, <3>2, RankGrows
  <2> QED BY <2>1
<1>5. rank \in Injection(S, 1..n) BY <1>3, <1>4 DEF Injection, IsInjective
<1>6. IsFiniteSet(1..n) /\ Cardinality(1..n) = n
  <2>1. 1 \in Int /\ n \in Int BY <1>1
  <2>2. IsFiniteSet(1..n) /\ Cardinality(1..n) = IF 1 > n THEN 0 ELSE n - 1 + 1
    BY <2>1, FS_Interval
  <2> QED BY <1>1, <2>2
<1>7. rank \in Surjection(S, 1..n) BY <1>5, <1>6, FS_Injection
<1>8. \A i \in 1..n : \E g \in S : rank[g] = i BY <1>7 DEF Surjection
<1> QED BY <1>1, <1>2, <1>8

\* The groups the rest is taken from are a sequence of its keys, each once.
LEMMA GroupsEnumerate ==
  ASSUME NEW rest \in SUBSET Alerts
  PROVE  /\ Groups(rest) \in Seq(Nat)
         /\ \A i, j \in 1..Len(Groups(rest)) : Groups(rest)[i] = Groups(rest)[j] => i = j
         /\ \A a \in rest : \E i \in 1..Len(Groups(rest)) : Groups(rest)[i] = Group[a]
<1> DEFINE S == Keys(rest)
           n == Cardinality(S)
           q == [i \in 1..n |-> CHOOSE g \in S : Cardinality(UpTo(S, g)) = i]
<1>1. S \subseteq Nat /\ IsFiniteSet(S) BY KeysFinite
<1>2. Groups(rest) = q BY DEF Groups, Keys, UpTo
<1>k. \A a \in rest : Group[a] \in S BY DEF Keys
<1> HIDE DEF S
<1>3. /\ n \in Nat
      /\ \A g \in S : Cardinality(UpTo(S, g)) \in 1..n
      /\ \A i \in 1..n : \E g \in S : Cardinality(UpTo(S, g)) = i
  BY <1>1, RankOnto
<1>4. \A i \in 1..n : q[i] \in S /\ Cardinality(UpTo(S, q[i])) = i BY <1>3
<1> HIDE DEF n
<1>5. q \in [1..n -> S] BY <1>4
<1> HIDE DEF q
<1>6. q \in Seq(Nat) /\ Len(q) = n
  <2>1. q \in [1..n -> Nat] BY <1>1, <1>5
  <2> QED BY <1>3, <2>1
<1>7. \A i, j \in 1..n : q[i] = q[j] => i = j BY <1>4
<1>8. ASSUME NEW g \in S PROVE \E i \in 1..n : q[i] = g
  <2> DEFINE i == Cardinality(UpTo(S, g))
  <2>1. i \in 1..n BY <1>3
  <2>2. q[i] \in S /\ Cardinality(UpTo(S, q[i])) = i BY <1>4, <2>1
  <2>3. q[i] = g
    <3>0. \A k \in S : k \in Nat BY <1>1
    <3>1. q[i] \in Nat /\ g \in Nat /\ i \in Nat BY <1>3, <2>1, <2>2, <3>0
    <3>2. ~(q[i] < g) /\ ~(g < q[i]) BY <1>1, <2>2, <3>1, RankGrows
    <3> QED BY <3>1, <3>2
  <2> QED BY <2>1, <2>3
<1> QED BY <1>2, <1>k, <1>6, <1>7, <1>8

-----------------------------------------------------------------------------
(***************************************************************************)
(* What is drawn.                                                          *)
(***************************************************************************)
LEMMA MinOfTwo ==
  ASSUME NEW a \in Nat, NEW b \in Nat
  PROVE  Min({a, b}) = IF a <= b THEN a ELSE b
<1> DEFINE P(x) == x \in {a, b} /\ \A y \in {a, b} : x <= y
<1>1. \E x : P(x)
  <2>1. CASE a <= b BY <2>1
  <2>2. CASE ~(a <= b) BY <2>2
  <2> QED BY <2>1, <2>2
<1>2. P(CHOOSE x : P(x)) BY <1>1, Zenon
<1>3. Min({a, b}) = CHOOSE x : P(x) BY Zenon DEF Min
<1>4. P(Min({a, b})) BY <1>2, <1>3
<1> QED BY <1>4

\* A subset of the alerts has a size.
LEMMA AlertSizes ==
  ASSUME NEW S \in SUBSET Alerts
  PROVE  IsFiniteSet(S) /\ Cardinality(S) \in Nat
BY AlertsAssumption, FS_Subset, FS_CardinalityType

\* The members of a stratum.
OfStratum(s, S) == {a \in S : Stratum[a] = s}

(***************************************************************************)
(* The cut leaves at most n, and where it leaves less it has cut nothing:  *)
(* every stratum then has what was drawn for it.                           *)
(***************************************************************************)
LEMMA CutOrWhole ==
  ASSUME NEW n \in Nat, NEW eligible \in SUBSET Alerts,
         NEW chosen \in Reserves(n, eligible), NEW cutTo \in Trims(n, chosen)
  PROVE  /\ cutTo \subseteq eligible
         /\ Cardinality(cutTo) <= n
         /\ Cardinality(cutTo) < n =>
              \A s \in Strata :
                Cardinality(OfStratum(s, cutTo))
                  = Min({Share(s, n), Cardinality(OfStratum(s, eligible))})
<1>1. cutTo \subseteq eligible BY KeepsEligible
<1>2. chosen \in SUBSET Alerts BY DEF Reserves
<1>3. IsFiniteSet(chosen) /\ Cardinality(chosen) \in Nat BY <1>2, AlertSizes
<1>4. cutTo \subseteq chosen /\ Cardinality(cutTo) = Min({n, Cardinality(chosen)})
  BY DEF Trims, Draws, kSubset
<1>5. Cardinality(cutTo) = IF n <= Cardinality(chosen) THEN n ELSE Cardinality(chosen)
  BY <1>3, <1>4, MinOfTwo
<1>6. Cardinality(cutTo) <= n BY <1>3, <1>5
<1>7. ASSUME Cardinality(cutTo) < n, NEW s \in Strata
      PROVE  Cardinality(OfStratum(s, cutTo))
               = Min({Share(s, n), Cardinality(OfStratum(s, eligible))})
  <2>1. Cardinality(cutTo) = Cardinality(chosen) BY <1>3, <1>5, <1>7
  <2>2. cutTo = chosen BY <1>3, <1>4, <2>1, FS_Subset
  <2>3. OfStratum(s, chosen) \in Draws(Share(s, n), OfStratum(s, eligible))
    BY DEF Reserves, OfStratum
  <2> QED BY <2>2, <2>3 DEF Draws, kSubset
<1> QED BY <1>1, <1>6, <1>7

\* index % len(group_keys)
LEMMA TurnsRound ==
  ASSUME NEW n \in Nat \ {0}, NEW t \in Nat, t < n
  PROVE  (t + 1) % n = IF t + 1 = n THEN 0 ELSE t + 1
<1>1. CASE t + 1 = n BY <1>1
<1>2. CASE t + 1 < n BY <1>2
<1> QED BY <1>1, <1>2

-----------------------------------------------------------------------------
(***************************************************************************)
(* The inductive invariant of the sampler.  The ring names every group of  *)
(* the rest, and none twice.                                               *)
(***************************************************************************)
RingInv ==
  /\ \A i, j \in 1..Len(ring) : ring[i] = ring[j] => i = j
  /\ \A a \in pool \ kept : \E i \in 1..Len(ring) : ring[i] = Group[a]

\* The budget is not overdrawn, and what was reserved is as it was drawn.
BudgetInv ==
  /\ Cardinality(selected) <= size
  /\ stage = "writing" => Filled
  /\ stage # "off" /\ Cardinality(kept) < size =>
       \A s \in Strata :
         Cardinality(OfStratum(s, kept))
           = Min({Share(s, size), Cardinality(OfStratum(s, pool))})

(***************************************************************************)
(* The round-robin: in round k the groups before the turn have been come   *)
(* to once more than the others, and each has given as often as it was     *)
(* come to, or all it had.                                                 *)
(***************************************************************************)
Visits(k, i) == IF i <= turn THEN k + 1 ELSE k

RoundRobin ==
  \E k \in Nat :
    \A i \in 1..Len(ring) :
      /\ Taken(ring[i]) <= Visits(k, i)
      /\ Taken(ring[i]) = Visits(k, i) \/ Left(ring[i]) = {}

SampleInv == SamplingTypeOK /\ RingInv /\ BudgetInv /\ RoundRobin

\* The sampler at rest.
LEMMA RestingInv ==
  ASSUME stage = "off", size = 0, pool = {}, kept = {}, selected = {}, ring = <<>>, turn = 0,
         candidates \subseteq Alerts, readable \in BOOLEAN
  PROVE  SampleInv
<1>1. ring \in Seq(Nat) /\ Len(ring) = 0 OBVIOUS
<1>2. SamplingTypeOK BY <1>1 DEF SamplingTypeOK
<1>3. RingInv BY <1>1 DEF RingInv
<1>4. Cardinality(selected) = 0 BY FS_EmptySet
<1>5. BudgetInv BY <1>4 DEF BudgetInv
<1>6. RoundRobin BY <1>1 DEF RoundRobin
<1> QED BY <1>2, <1>3, <1>5, <1>6 DEF SampleInv

\* ... and after a step that ends it.
LEMMA GoneInv ==
  ASSUME SampleGone, candidates' \subseteq Alerts, readable' \in BOOLEAN
  PROVE  SampleInv'
<1>1. Len(ring') = 0 /\ ring' \in Seq(Nat) BY DEF SampleGone
<1>2. SamplingTypeOK' BY <1>1 DEF SampleGone, SamplingTypeOK
<1>3. RingInv' BY <1>1 DEF RingInv, SampleGone
<1>4. Cardinality(selected') = 0 BY FS_EmptySet DEF SampleGone
<1>5. BudgetInv' BY <1>4 DEF BudgetInv, SampleGone
<1>6. RoundRobin' BY <1>1 DEF RoundRobin
<1> QED BY <1>2, <1>3, <1>5, <1>6 DEF SampleInv

\* The draws of the strata, the cut and the ring.
LEMMA BeginsInv ==
  ASSUME SampleInv, NEW n \in Sizes, NEW exclude, SampleBegins(n, exclude)
  PROVE  SampleInv'
<1> DEFINE eligible == Alerts \ exclude
<1>n. n \in Nat BY SizesAssumption
<1>0. /\ stage' = "filling" /\ size' = n /\ pool' = eligible
      /\ selected' = kept' /\ ring' = Groups(pool' \ kept') /\ turn' = 0
      /\ candidates' = candidates /\ readable' = readable
  BY DEF SampleBegins, candidateVars
<1>1. PICK chosen \in Reserves(n, eligible) : kept' \in Trims(n, chosen)
  BY DEF SampleBegins
<1>2. /\ kept' \subseteq eligible
      /\ Cardinality(kept') <= n
      /\ Cardinality(kept') < n =>
           \A s \in Strata :
             Cardinality(OfStratum(s, kept'))
               = Min({Share(s, n), Cardinality(OfStratum(s, eligible))})
  <2>1. eligible \in SUBSET Alerts OBVIOUS
  <2> HIDE DEF eligible
  <2> QED BY <1>n, <1>1, <2>1, CutOrWhole
<1> DEFINE rest == eligible \ kept'
<1>3. /\ ring' \in Seq(Nat)
      /\ \A i, j \in 1..Len(ring') : ring'[i] = ring'[j] => i = j
      /\ \A a \in rest : \E i \in 1..Len(ring') : ring'[i] = Group[a]
  <2>1. rest \in SUBSET Alerts /\ ring' = Groups(rest) BY <1>0
  <2> HIDE DEF rest
  <2> QED BY <2>1, GroupsEnumerate
<1>4. Len(ring') \in Nat /\ (ring' # <<>> => 0 < Len(ring')) BY <1>3
<1>5. SamplingTypeOK'
  BY <1>0, <1>2, <1>3, <1>4 DEF SampleInv, SamplingTypeOK
<1>6. RingInv' BY <1>0, <1>3 DEF RingInv
<1>7. BudgetInv'
  <2>1. \A s : OfStratum(s, kept)' = OfStratum(s, kept') BY DEF OfStratum
  <2>2. \A s : OfStratum(s, pool)' = OfStratum(s, eligible) BY <1>0 DEF OfStratum
  <2> HIDE DEF eligible
  <2> QED BY <1>0, <1>2, <2>1, <2>2 DEF BudgetInv
<1>8. RoundRobin'
  <2>1. ASSUME NEW i \in 1..Len(ring') PROVE Taken(ring[i])' = 0
    <3>1. {a \in selected' \ kept' : Group[a] = ring'[i]} = {} BY <1>0
    <3> QED BY <3>1, FS_EmptySet DEF Taken
  <2>2. ASSUME NEW i \in 1..Len(ring') PROVE Visits(0, i)' = 0 BY <1>0, <1>4 DEF Visits
  <2>3. 0 \in Nat OBVIOUS
  <2> QED BY <2>1, <2>2, <2>3 DEF RoundRobin
<1> QED BY <1>5, <1>6, <1>7, <1>8 DEF SampleInv

\* While something is left the ring is not empty, and the turn is in it.
LEMMA TurnInRing ==
  ASSUME SamplingTypeOK, RingInv, ~Filled
  PROVE  /\ Len(ring) \in Nat \ {0} /\ turn \in Nat /\ turn < Len(ring)
         /\ turn + 1 \in 1..Len(ring)
<1>1. PICK a \in pool : a \notin selected BY DEF Filled
<1>2. a \in pool \ kept BY <1>1 DEF SamplingTypeOK
<1>3. PICK i \in 1..Len(ring) : ring[i] = Group[a] BY <1>2 DEF RingInv
<1>4. Len(ring) \in Nat /\ turn \in Nat BY DEF SamplingTypeOK
<1>5. Len(ring) # 0 BY <1>3, <1>4
<1>6. ring # <<>> BY <1>5
<1>7. turn < Len(ring) BY <1>6 DEF SamplingTypeOK
<1> QED BY <1>4, <1>5, <1>7

\* One candidate more: it counts for its group, and for no other.
LEMMA OneMore ==
  ASSUME SamplingTypeOK, NEW b \in pool \ selected, NEW g \in Nat
  PROVE  LET now == {a \in (selected \cup {b}) \ kept : Group[a] = g}
         IN  Cardinality(now) = IF Group[b] = g THEN Taken(g) + 1 ELSE Taken(g)
<1> DEFINE old == {a \in selected \ kept : Group[a] = g}
           now == {a \in (selected \cup {b}) \ kept : Group[a] = g}
<1>1. old \in SUBSET Alerts /\ b \notin old BY DEF SamplingTypeOK
<1>2. b \notin kept BY DEF SamplingTypeOK
<1>3. IsFiniteSet(old) BY <1>1, AlertSizes
<1>4. CASE Group[b] = g
  <2>1. now = old \cup {b} BY <1>2, <1>4
  <2>2. Cardinality(old \cup {b}) = Cardinality(old) + 1 BY <1>1, <1>3, FS_AddElement
  <2> QED BY <1>4, <2>1, <2>2 DEF Taken
<1>5. CASE Group[b] # g
  <2>1. now = old BY <1>5
  <2> QED BY <1>5, <2>1 DEF Taken
<1> QED BY <1>4, <1>5

\* A turn of the round-robin.
LEMMA FillsRound ==
  ASSUME SampleInv, Fills
  PROVE  RoundRobin'
<1>0. SamplingTypeOK /\ RingInv /\ RoundRobin /\ ~Filled BY DEF SampleInv, Fills
<1>t. /\ Len(ring) \in Nat \ {0} /\ turn \in Nat /\ turn < Len(ring)
      /\ turn + 1 \in 1..Len(ring)
  BY <1>0, TurnInRing
<1>u. kept' = kept /\ pool' = pool /\ ring' = ring BY DEF Fills
<1>r. \A i \in 1..Len(ring) : ring[i] \in Nat BY <1>0 DEF SamplingTypeOK
<1>v. turn' = IF turn + 1 = Len(ring) THEN 0 ELSE turn + 1
  <2>1. turn' = (turn + 1) % Len(ring) BY DEF Fills
  <2> QED BY <1>t, <2>1, TurnsRound
<1>1. PICK k \in Nat : \A i \in 1..Len(ring) :
        /\ Taken(ring[i]) <= Visits(k, i)
        /\ Taken(ring[i]) = Visits(k, i) \/ Left(ring[i]) = {}
  BY <1>0 DEF RoundRobin
<1> DEFINE T(g) == Cardinality({a \in selected' \ kept : Group[a] = g})
           L(g) == {a \in pool \ selected' : Group[a] = g}
           W(i) == IF i <= turn + 1 THEN k + 1 ELSE k
<1>2. ASSUME NEW i \in 1..Len(ring)
      PROVE  T(ring[i]) <= W(i) /\ (T(ring[i]) = W(i) \/ L(ring[i]) = {})
  <2>g. ring[i] \in Nat BY <1>r
  <2>i. i \in Nat BY <1>t
  <2>n. Taken(ring[i]) \in Nat
    <3>1. {a \in selected \ kept : Group[a] = ring[i]} \in SUBSET Alerts
      BY <1>0 DEF SamplingTypeOK
    <3> QED BY <3>1, AlertSizes DEF Taken
  <2>v. /\ Taken(ring[i]) <= Visits(k, i)
        /\ Taken(ring[i]) = Visits(k, i) \/ Left(ring[i]) = {}
    BY <1>1
  <2>1. CASE InTurn = {}
    <3>1. selected' = selected BY <2>1 DEF Fills
    <3>2. T(ring[i]) = Taken(ring[i]) /\ L(ring[i]) = Left(ring[i])
      BY <3>1 DEF Taken, Left
    <3>3. i = turn + 1 => Left(ring[i]) = {} BY <2>1 DEF InTurn, Left
    <3> HIDE DEF T, L
    <3>4. CASE i = turn + 1
      <4>1. Taken(ring[i]) <= k BY <1>t, <2>v, <3>4 DEF Visits
      <4>2. Taken(ring[i]) <= k + 1 BY <2>n, <4>1
      <4> QED BY <1>t, <3>2, <3>3, <3>4, <4>2
    <3>5. CASE i # turn + 1
      <4>1. Visits(k, i) = W(i) BY <1>t, <2>i, <3>5 DEF Visits
      <4> QED BY <2>v, <3>2, <4>1
    <3> QED BY <3>4, <3>5
  <2>2. CASE InTurn # {}
    <3>1. PICK b \in InTurn : selected' = selected \cup {b} BY <2>2 DEF Fills
    <3>2. b \in pool \ selected /\ Group[b] = ring[turn + 1] BY DEF InTurn
    <3>3. T(ring[i]) = IF Group[b] = ring[i] THEN Taken(ring[i]) + 1 ELSE Taken(ring[i])
      BY <1>0, <2>g, <3>1, <3>2, OneMore
    <3>4. L(ring[i]) \subseteq Left(ring[i]) BY <3>1 DEF Left
    <3> HIDE DEF T, L
    <3>5. CASE i = turn + 1
      <4>1. b \in Left(ring[i]) BY <3>2, <3>5 DEF Left
      <4>2. Taken(ring[i]) = k BY <1>t, <2>v, <3>5, <4>1 DEF Visits
      <4>3. T(ring[i]) = k + 1 BY <3>2, <3>3, <3>5, <4>2
      <4>4. W(i) = k + 1 BY <3>5, <1>t
      <4> QED BY <4>3, <4>4
    <3>6. CASE i # turn + 1
      <4>1. ring[i] # ring[turn + 1] BY <1>0, <1>t, <3>6 DEF RingInv
      <4>2. T(ring[i]) = Taken(ring[i]) BY <3>2, <3>3, <4>1
      <4>3. Visits(k, i) = W(i) BY <1>t, <2>i, <3>6 DEF Visits
      <4> QED BY <2>v, <3>4, <4>2, <4>3
    <3> QED BY <3>5, <3>6
  <2> QED BY <2>1, <2>2
<1>3. ASSUME NEW i \in 1..Len(ring) PROVE Taken(ring[i])' = T(ring[i]) /\ Left(ring[i])' = L(ring[i])
  BY <1>u DEF Taken, Left
<1> HIDE DEF T, L
<1>4. CASE turn + 1 = Len(ring)
  <2>1. turn' = 0 /\ k + 1 \in Nat BY <1>v, <1>4
  <2>2. ASSUME NEW i \in 1..Len(ring) PROVE Visits(k + 1, i)' = W(i)
    BY <1>t, <1>4, <2>1 DEF Visits
  <2>3. \A i \in 1..Len(ring') :
          /\ Taken(ring[i])' <= Visits(k + 1, i)'
          /\ Taken(ring[i])' = Visits(k + 1, i)' \/ Left(ring[i])' = {}
    BY <1>u, <1>2, <1>3, <2>2
  <2> QED BY <2>1, <2>3 DEF RoundRobin
<1>5. CASE turn + 1 # Len(ring)
  <2>1. turn' = turn + 1 BY <1>v, <1>5
  <2>2. ASSUME NEW i \in 1..Len(ring) PROVE Visits(k, i)' = W(i)
    BY <2>1 DEF Visits
  <2>3. \A i \in 1..Len(ring') :
          /\ Taken(ring[i])' <= Visits(k, i)'
          /\ Taken(ring[i])' = Visits(k, i)' \/ Left(ring[i])' = {}
    BY <1>u, <1>2, <1>3, <2>2
  <2> QED BY <2>3 DEF RoundRobin
<1> QED BY <1>4, <1>5

\* ... keeps the types, the ring and the budget.
LEMMA FillsKeeps ==
  ASSUME SampleInv, Fills
  PROVE  SamplingTypeOK' /\ RingInv' /\ BudgetInv'
<1>0. SamplingTypeOK /\ RingInv /\ BudgetInv /\ ~Filled BY DEF SampleInv, Fills
<1>t. Len(ring) \in Nat \ {0} /\ turn \in Nat /\ turn < Len(ring) BY <1>0, TurnInRing
<1>u. /\ stage' = "filling" /\ stage = "filling" /\ size' = size /\ pool' = pool
      /\ kept' = kept /\ ring' = ring /\ candidates' = candidates /\ readable' = readable
  BY DEF Fills, candidateVars
<1>v. turn' \in Nat /\ turn' < Len(ring)
  <2>1. turn' = IF turn + 1 = Len(ring) THEN 0 ELSE turn + 1 BY <1>t, TurnsRound DEF Fills
  <2> QED BY <1>t, <2>1
<1>1. /\ selected \subseteq selected' /\ selected' \subseteq pool
      /\ selected' = selected \/ \E b : selected' = selected \cup {b}
  BY <1>0 DEF Fills, InTurn, SamplingTypeOK
<1>2. SamplingTypeOK' BY <1>0, <1>u, <1>v, <1>1 DEF SamplingTypeOK
<1>3. RingInv' BY <1>0, <1>u DEF RingInv
<1>4. Cardinality(selected') <= size
  <2>1. selected \in SUBSET Alerts BY <1>0 DEF SamplingTypeOK
  <2>2. IsFiniteSet(selected) /\ Cardinality(selected) \in Nat BY <2>1, AlertSizes
  <2>3. size \in Nat BY <1>0, SizesAssumption DEF SamplingTypeOK
  <2>4. Cardinality(selected) < size BY <1>0, <2>2, <2>3 DEF Filled
  <2>5. CASE selected' = selected BY <2>2, <2>3, <2>4, <2>5
  <2>6. ASSUME NEW b, selected' = selected \cup {b} PROVE Cardinality(selected') <= size
    <3>1. Cardinality(selected')
            = IF b \in selected THEN Cardinality(selected) ELSE Cardinality(selected) + 1
      BY <2>2, <2>6, FS_AddElement
    <3> QED BY <2>2, <2>3, <2>4, <3>1
  <2> QED BY <1>1, <2>5, <2>6
<1>5. BudgetInv'
  <2>1. \A s : OfStratum(s, kept)' = OfStratum(s, kept) /\ OfStratum(s, pool)' = OfStratum(s, pool)
    BY <1>u DEF OfStratum
  <2> QED BY <1>0, <1>u, <1>4, <2>1 DEF BudgetInv
<1> QED BY <1>2, <1>3, <1>5

LEMMA SampleSame ==
  ASSUME SampleInv, UNCHANGED <<size, pool, kept, selected, ring, turn, candidateVars>>,
         \/ UNCHANGED stage
         \/ stage = "filling" /\ stage' = "writing" /\ Filled
  PROVE  SampleInv'
<1>0. SamplingTypeOK /\ RingInv /\ BudgetInv /\ RoundRobin BY DEF SampleInv
<1>u. UNCHANGED <<size, pool, kept, selected, ring, turn, candidates, readable>>
  BY DEF candidateVars
<1>1. SamplingTypeOK' BY <1>0, <1>u DEF SamplingTypeOK
<1>2. RingInv' BY <1>0, <1>u DEF RingInv
<1>3. BudgetInv' BY <1>0, <1>u DEF BudgetInv, Filled, OfStratum
<1>4. RoundRobin'
  <2>1. \A i \in 1..Len(ring) : Taken(ring[i])' = Taken(ring[i]) BY <1>u DEF Taken
  <2>2. \A i \in 1..Len(ring) : Left(ring[i])' = Left(ring[i]) BY <1>u DEF Left
  <2>3. PICK k \in Nat : \A i \in 1..Len(ring) :
          /\ Taken(ring[i]) <= Visits(k, i)
          /\ Taken(ring[i]) = Visits(k, i) \/ Left(ring[i]) = {}
    BY <1>0 DEF RoundRobin
  <2>4. \A i \in 1..Len(ring) : Visits(k, i)' = Visits(k, i) BY <1>u DEF Visits
  <2>5. \A i \in 1..Len(ring') :
          /\ Taken(ring[i])' <= Visits(k, i)'
          /\ Taken(ring[i])' = Visits(k, i)' \/ Left(ring[i])' = {}
    BY <1>u, <2>1, <2>2, <2>3, <2>4
  <2> QED BY <2>5 DEF RoundRobin
<1> QED BY <1>1, <1>2, <1>3, <1>4 DEF SampleInv

LEMMA SampleInvariant == Spec => []SampleInv
<1>1. Init => SampleInv BY RestingInv DEF Init, SamplingInit
<1>2. SampleInv /\ [Next]_vars => SampleInv'
  <2> SUFFICES ASSUME SampleInv, [Next]_vars PROVE SampleInv'
    OBVIOUS
  <2>0. candidates \subseteq Alerts /\ selected \subseteq Alerts /\ readable \in BOOLEAN
    BY DEF SampleInv, SamplingTypeOK
  <2>1. ASSUME NEW n \in Sizes, NEW exclude \in Excludes, SampleBegins(n, exclude)
        PROVE  SampleInv'
    BY <2>1, BeginsInv
  <2>2. CASE Fills BY <2>2, FillsKeeps, FillsRound DEF SampleInv
  <2>3. CASE Fulfils BY <2>3, SampleSame DEF Fulfils
  <2>4. CASE WritesCandidates BY <2>0, <2>4, GoneInv DEF WritesCandidates
  <2>5. CASE SampleKilled
    <3>1. candidates' \subseteq Alerts /\ readable' \in BOOLEAN
      BY <2>0, <2>5 DEF SampleKilled, candidateVars
    <3> QED BY <2>5, <3>1, GoneInv DEF SampleKilled
  <2>6. CASE UNCHANGED <<sampleVars, candidateVars>> BY <2>6, SampleSame DEF sampleVars
  <2> QED BY <2>1, <2>2, <2>3, <2>4, <2>5, <2>6 DEF Next, SampleStep, vars
<1> QED BY <1>1, <1>2, PTL DEF Spec

(***************************************************************************)
(* Types of the sampler and the golden file; in particular the index of    *)
(* the round-robin stays within the groups while there are any.            *)
(***************************************************************************)
THEOREM GoldenTypes == Spec => []TypeOK
<1>1. SampleInv /\ LabellingTypeOK => TypeOK BY DEF SampleInv, TypeOK
<1> QED BY <1>1, SampleInvariant, LabellingTypes, PTL

(***************************************************************************)
(* evals.sample: the sample has the size asked for or is all there is, the *)
(* rest is spread evenly over sensors and days, and unless the floors had  *)
(* to be cut each stratum has its share, for every set of alerts.          *)
(***************************************************************************)
THEOREM SampleFair == Spec => []SampleIsFair
<1>1. SampleInv => SampleIsFair
  <2> SUFFICES ASSUME SampleInv PROVE SampleIsFair
    OBVIOUS
  <2>0. SamplingTypeOK /\ BudgetInv /\ RoundRobin BY DEF SampleInv
  <2>s. selected \in SUBSET Alerts /\ pool \in SUBSET Alerts /\ kept \in SUBSET Alerts
        /\ selected \subseteq pool /\ kept \subseteq selected
    BY <2>0 DEF SamplingTypeOK
  <2>c. /\ IsFiniteSet(selected) /\ Cardinality(selected) \in Nat
        /\ IsFiniteSet(pool) /\ Cardinality(pool) \in Nat /\ size \in Nat
    BY <2>0, <2>s, AlertSizes, SizesAssumption DEF SamplingTypeOK
  <2>1. ASSUME stage = "writing" PROVE Cardinality(selected) = Min({size, Cardinality(pool)})
    <3>1. Cardinality(selected) <= size /\ Cardinality(selected) <= Cardinality(pool)
      BY <2>0, <2>s, <2>c, FS_Subset DEF BudgetInv
    <3>2. Cardinality(selected) >= size \/ selected = pool
      BY <2>0, <2>1, <2>s DEF BudgetInv, Filled
    <3>3. Min({size, Cardinality(pool)})
            = IF size <= Cardinality(pool) THEN size ELSE Cardinality(pool)
      BY <2>c, MinOfTwo
    <3> QED BY <2>c, <3>1, <3>2, <3>3
  <2>2. ASSUME NEW i \in 1..Len(ring), NEW j \in 1..Len(ring)
        PROVE  Taken(ring[i]) <= Taken(ring[j]) + 1 \/ Left(ring[j]) = {}
    <3>1. PICK k \in Nat : \A l \in 1..Len(ring) :
            /\ Taken(ring[l]) <= Visits(k, l)
            /\ Taken(ring[l]) = Visits(k, l) \/ Left(ring[l]) = {}
      BY <2>0 DEF RoundRobin
    <3>2. Visits(k, i) \in {k, k + 1} /\ Visits(k, j) \in {k, k + 1} BY DEF Visits
    <3>3. Taken(ring[i]) \in Nat
      <4>1. {a \in selected \ kept : Group[a] = ring[i]} \in SUBSET Alerts BY <2>s
      <4> QED BY <4>1, AlertSizes DEF Taken
    <3>4. CASE Left(ring[j]) # {}
      <4>1. Taken(ring[j]) = Visits(k, j) /\ Taken(ring[i]) <= Visits(k, i) BY <3>1, <3>4
      <4> QED BY <3>2, <3>3, <4>1
    <3> QED BY <3>4
  <2>3. ASSUME stage = "writing", Cardinality(kept) < size, NEW s \in Strata
        PROVE  Cardinality({a \in pool : Stratum[a] = s} \cap selected)
                 >= Min({Share(s, size), Cardinality({a \in pool : Stratum[a] = s})})
    <3> DEFINE there == {a \in pool : Stratum[a] = s}
               drawn == {a \in kept : Stratum[a] = s}
    <3>1. Cardinality(drawn) = Min({Share(s, size), Cardinality(there)})
      BY <2>0, <2>3 DEF BudgetInv, OfStratum
    <3>2. drawn \subseteq there \cap selected /\ there \cap selected \in SUBSET Alerts BY <2>s
    <3> HIDE DEF there, drawn
    <3>3. /\ IsFiniteSet(there \cap selected) /\ Cardinality(there \cap selected) \in Nat
          /\ IsFiniteSet(drawn) /\ Cardinality(drawn) \in Nat
      BY <3>2, AlertSizes
    <3>4. Cardinality(drawn) <= Cardinality(there \cap selected) BY <3>2, <3>3, FS_Subset
    <3> QED BY <3>1, <3>3, <3>4 DEF there
  <2> QED BY <2>1, <2>2, <2>3 DEF SampleIsFair
<1> QED BY <1>1, SampleInvariant, PTL
=============================================================================
