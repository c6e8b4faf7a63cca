----------------------------- MODULE TailProofs -----------------------------
(***************************************************************************)
(* The shipper's saved position against what it has spooled, for every     *)
(* number of sessions, batch and spool size, generations of the log and    *)
(* kills, while the log is not truncated, not rotated between the open and *)
(* the stat, and no restart meets a rotation that is not read to its end.  *)
(* In each of those environments the two properties are false.             *)
(***************************************************************************)
EXTENDS ShipperProofs

Calm == Faults \cap {"truncate", "race", "straddle"} = {}

-----------------------------------------------------------------------------
(***************************************************************************)
(* Where the reader is.  Target is the position the next commit_offset     *)
(* leaves on disk: the one in hand, or else the saved one.                 *)
(***************************************************************************)
Target == IF pending = NoPosition THEN saved ELSE pending

InLog(p) == /\ p.inode <= Len(log)
            /\ p.inode # 0 => p.offset <= Len(log[p.inode])

NotAfter(p, q) == \/ p.inode < q.inode
                  \/ p.inode = q.inode /\ p.offset <= q.offset

Complete(f, p) ==
  log[f] # <<>> => f < p.inode \/ (f = p.inode /\ p.offset = Len(log[f]))

\* Positions lie in the log, and a commit never moves the saved one back.
PositionsInv == InLog(saved) /\ InLog(Target) /\ NotAfter(saved, Target)

\* The batch in hand is the stretch of the log between saved and pending.
BatchInv ==
  /\ pc \notin {"feed", "flush"} => pending = NoPosition
  /\ pc \in {"feed", "flush"} /\ pending = NoPosition => lines = <<>>
  /\ pc = "flush" => fed = Len(lines)
  /\ pending # NoPosition =>
       /\ pending.inode # 0
       /\ Len(lines) <= pending.offset
       /\ \A i \in 1..Len(lines) :
            lines[i] = log[pending.inode][pending.offset - Len(lines) + i]
       /\ saved.inode = pending.inode => saved.offset = pending.offset - Len(lines)
       /\ saved.inode < pending.inode => pending.offset = Len(lines)
       /\ \A f \in 1..Len(log) : f < pending.inode => Complete(f, saved)

\* The open file: the newest generation, or the one before it.
HandleInv ==
  /\ handle # 0 => handle = Len(log) \/ (handle + 1 = Len(log) /\ present)
  /\ pc = "stat" => present /\ handle = Len(log)
  /\ handle # 0 /\ pc # "stat" =>
       /\ inode = handle
       /\ Target.inode <= handle
       /\ Target.inode = handle => pos = Target.offset
       /\ Target.inode < handle => pos = 0

\* Every other generation is read to its end, and at a stop this one too.
RotationInv ==
  /\ \A f \in 1..Len(log) : f # Current /\ f # handle => Complete(f, Target)
  /\ stop => RotatedCommitted
  /\ pc = "stopping" => stop

TailInv == PositionsInv /\ BatchInv /\ HandleInv /\ RotationInv

-----------------------------------------------------------------------------
(***************************************************************************)
(* Where the sessions are.  What the batch's fed lines say of a session    *)
(* holds for it as if they were behind the saved position already, but for *)
(* the payloads that are not in the spool yet.                             *)
(***************************************************************************)
Emitted == assembled \cup orphaned \cup outbox

\* Cowrie logs the connect event of a session before its other lines.
ConnectFirst ==
  /\ \A s \in Sessions : cowrie[s] # "new" =>
       \E f \in 1..Len(log) : \E i \in 1..Len(log[f]) : log[f][i] = Line(s, "connect")
  /\ \A f \in 1..Len(log) : \A i \in 1..Len(log[f]) :
       log[f][i].event # "connect" =>
         \E g \in 1..Len(log) : \E j \in 1..Len(log[g]) :
           /\ g < f \/ (g = f /\ j < i)
           /\ log[g][j] = Line(log[f][i].session, "connect")

FedInv ==
  pc \in {"feed", "flush"} =>
    \A j \in 1..fed :
      /\ lines[j].event = "connect" =>
           lines[j].session \in Emitted \/ open[lines[j].session] = "whole"
      /\ lines[j].event = "closed" => lines[j].session \in Emitted

OpenInv ==
  /\ \A s \in Sessions : open[s] = "headless" => s \in Emitted
  /\ pc = "stopping" => \A s \in Sessions : open[s] = "none"

KeptInv ==
  \A s \in Sessions :
    Passed(s, "connect") =>
      s \in assembled \cup orphaned \cup outbox \/ open[s] = "whole"

SessionInv == ConnectFirst /\ FedInv /\ OpenInv /\ KeptInv /\ OffsetBehindSpool

\* A session is orphaned by a kill or by a loop that ends without a flush.
LossInv == orphaned # {} => kills > 0 \/ "once" \in Faults

-----------------------------------------------------------------------------
(***************************************************************************)
(* How the log may change: the newest generation gets longer, or there is  *)
(* a new, empty one.                                                       *)
(***************************************************************************)
LogGrows ==
  /\ Len(log) <= Len(log')
  /\ \A f \in 1..Len(log) :
       /\ f # Current => log'[f] = log[f]
       /\ Len(log[f]) <= Len(log'[f])
       /\ \A i \in 1..Len(log[f]) : log'[f][i] = log[f][i]

LEMMA WritesGrow ==
  ASSUME LogTypeOK, NEW s, NEW e, Writes(s, e)
  PROVE  /\ LogGrows /\ Len(log') = Len(log) /\ Len(log) \in 1..Len(log)
         /\ Current = Len(log)
         /\ Len(log'[Len(log)]) = Len(log[Len(log)]) + 1
         /\ log'[Len(log)][Len(log'[Len(log)])] = Line(s, e)
<1>1. /\ Len(log) \in 1..Len(log) /\ log \in Seq(Seq(Lines))
      /\ log[Len(log)] \in Seq(Lines) /\ Current = Len(log)
  BY DEF LogTypeOK, Writes, Current
<1>2. /\ Len(log') = Len(log)
      /\ log'[Len(log)] = Append(log[Len(log)], Line(s, e))
      /\ \A f \in 1..Len(log) : f # Len(log) => log'[f] = log[f]
  BY <1>1 DEF Writes
<1>3. /\ Len(log'[Len(log)]) = Len(log[Len(log)]) + 1
      /\ log'[Len(log)][Len(log'[Len(log)])] = Line(s, e)
      /\ \A i \in 1..Len(log[Len(log)]) : log'[Len(log)][i] = log[Len(log)][i]
  BY <1>1, <1>2
<1>4. \A f \in 1..Len(log) : Len(log[f]) \in Nat
  BY <1>1
<1>5. ASSUME NEW f \in 1..Len(log)
      PROVE  /\ f # Current => log'[f] = log[f]
             /\ Len(log[f]) <= Len(log'[f])
             /\ \A i \in 1..Len(log[f]) : log'[f][i] = log[f][i]
  <2>1. CASE f = Len(log)
    BY <1>1, <1>3, <1>4, <2>1
  <2>2. CASE f # Len(log)
    BY <1>2, <1>4, <2>2
  <2> QED BY <2>1, <2>2
<1>6. LogGrows
  BY <1>2, <1>5, <1>1 DEF LogGrows
<1> QED BY <1>1, <1>2, <1>3, <1>6

LEMMA CreateGrows ==
  ASSUME LogTypeOK, CreateLog
  PROVE  /\ LogGrows /\ Len(log') = Len(log) + 1 /\ Current = 0
         /\ Current' = Len(log') /\ Len(log'[Len(log')]) = 0
<1>1. /\ log' = Append(log, <<>>) /\ log \in Seq(Seq(Lines)) /\ Current = 0
      /\ present'
  BY DEF LogTypeOK, CreateLog, Current
<1>2. /\ Len(log') = Len(log) + 1 /\ log'[Len(log')] = <<>>
      /\ \A f \in 1..Len(log) : log'[f] = log[f]
  BY <1>1
<1>3. \A f \in 1..Len(log) : Len(log[f]) \in Nat
  BY <1>1
<1> QED BY <1>1, <1>2, <1>3 DEF LogGrows, Current

\* What the proofs need of the types.
LEMMA TailTypes ==
  ASSUME IndInv
  PROVE  /\ log \in Seq(Seq(Lines)) /\ Len(log) \in Nat
         /\ \A f \in 1..Len(log) : log[f] \in Seq(Lines) /\ Len(log[f]) \in Nat
         /\ saved \in Positions /\ saved.inode \in Nat /\ saved.offset \in Nat
         /\ pending \in Positions /\ pending.inode \in Nat /\ pending.offset \in Nat
         /\ lines \in Seq(Lines) /\ Len(lines) \in Nat
         /\ handle \in 0..Len(log) /\ inode \in 0..Len(log) /\ pos \in Nat
         /\ fed \in 0..Len(lines)
BY DEF IndInv, TypeOK, LogTypeOK, TailTypeOK, Positions

LEMMA TargetTypes ==
  ASSUME IndInv
  PROVE  Target \in Positions /\ Target.inode \in Nat /\ Target.offset \in Nat
BY TailTypes DEF Target, Positions

LEMMA NextLogTypes ==
  ASSUME IndInv'
  PROVE  Len(log') \in Nat /\ \A f \in 1..Len(log') : Len(log'[f]) \in Nat
BY DEF IndInv, TypeOK, LogTypeOK

(***************************************************************************)
(* Cowrie writes past every position: what was passed, read or complete    *)
(* stays so.                                                               *)
(***************************************************************************)
LEMMA GrowingTail ==
  ASSUME IndInv, IndInv', TailInv, LogGrows, UNCHANGED <<tailVars, processVars>>,
         \A f \in 1..Len(log) : f # Current' => f # Current
  PROVE  /\ PositionsInv' /\ BatchInv'
         /\ \A f \in 1..Len(log) : f # Current' /\ f # handle' => Complete(f, Target)'
         /\ stop => \A f \in 1..Len(log) : f # Current' => Complete(f, saved)'
<1>t. /\ Len(log) \in Nat /\ \A f \in 1..Len(log) : Len(log[f]) \in Nat
      /\ Len(log') \in Nat /\ \A f \in 1..Len(log') : Len(log'[f]) \in Nat
      /\ saved.inode \in Nat /\ saved.offset \in Nat
      /\ pending.inode \in Nat /\ pending.offset \in Nat
      /\ Target.inode \in Nat /\ Target.offset \in Nat
      /\ Len(lines) \in Nat
  BY TailTypes, TargetTypes, NextLogTypes
<1>u. /\ UNCHANGED <<handle, inode, pos, lines, pending, saved, pc, fed, stop>>
      /\ Target' = Target
  BY DEF tailVars, processVars, Target
<1>g. /\ Len(log) <= Len(log')
      /\ \A f \in 1..Len(log) : f # Current => log'[f] = log[f]
      /\ \A f \in 1..Len(log) : Len(log[f]) <= Len(log'[f])
      /\ \A f \in 1..Len(log) : \A i \in 1..Len(log[f]) : log'[f][i] = log[f][i]
  BY DEF LogGrows
<1>1. PositionsInv'
  <2>1. ASSUME NEW p, p.inode \in Nat, p.offset \in Nat, InLog(p)
        PROVE  p.inode <= Len(log') /\ (p.inode # 0 => p.offset <= Len(log'[p.inode]))
    <3>1. p.inode <= Len(log')
      BY <1>t, <1>g, <2>1 DEF InLog
    <3>2. ASSUME p.inode # 0  PROVE p.offset <= Len(log'[p.inode])
      <4>1. p.inode \in 1..Len(log) /\ p.inode \in 1..Len(log') /\ p.offset <= Len(log[p.inode])
        BY <1>t, <1>g, <2>1, <3>2 DEF InLog
      <4>2. Len(log[p.inode]) <= Len(log'[p.inode]) /\ Len(log[p.inode]) \in Nat
            /\ Len(log'[p.inode]) \in Nat
        BY <1>t, <1>g, <4>1
      <4> QED BY <2>1, <4>1, <4>2
    <3> QED BY <3>1, <3>2
  <2> QED BY <1>t, <1>u, <2>1 DEF TailInv, PositionsInv, InLog, NotAfter
<1>2. ASSUME NEW f \in 1..Len(log), f # Current, NEW p, Complete(f, p)
      PROVE  log'[f] # <<>> => f < p.inode \/ (f = p.inode /\ p.offset = Len(log'[f]))
  BY <1>2, <1>g DEF Complete
<1>3. BatchInv'
  <2> SUFFICES ASSUME pending # NoPosition
               PROVE  /\ \A i \in 1..Len(lines) :
                           lines[i] = log'[pending.inode][pending.offset - Len(lines) + i]
                      /\ \A f \in 1..Len(log') : f < pending.inode => Complete(f, saved)'
    BY <1>u DEF TailInv, BatchInv
  <2>1. /\ pending.inode \in 1..Len(log) /\ pending.offset <= Len(log[pending.inode])
        /\ Len(lines) <= pending.offset
    BY <1>t DEF TailInv, PositionsInv, BatchInv, InLog, Target
  <2>2. ASSUME NEW i \in 1..Len(lines)
        PROVE  lines[i] = log'[pending.inode][pending.offset - Len(lines) + i]
    <3>0. /\ pending.offset \in Nat /\ Len(lines) \in Nat /\ i \in Nat /\ i >= 1
          /\ Len(log[pending.inode]) \in Nat
      BY <1>t, <2>1
    <3>1. pending.offset - Len(lines) + i \in 1..Len(log[pending.inode])
      BY <2>1, <3>0
    <3>2. lines[i] = log[pending.inode][pending.offset - Len(lines) + i]
      BY DEF TailInv, BatchInv
    <3> QED BY <1>g, <2>1, <3>1, <3>2
  <2>3. ASSUME NEW f \in 1..Len(log'), f < pending.inode
        PROVE  Complete(f, saved)'
    <3>1. f \in 1..Len(log) /\ f # Current
      BY <1>t, <2>1, <2>3 DEF Current
    <3>2. Complete(f, saved)
      BY <2>3, <3>1 DEF TailInv, BatchInv
    <3> QED BY <1>2, <1>u, <3>1, <3>2 DEF Complete
  <2> QED BY <2>2, <2>3
<1>4. \A f \in 1..Len(log) : f # Current' /\ f # handle' => Complete(f, Target)'
  BY <1>2, <1>u DEF TailInv, RotationInv, Complete
<1>5. stop => \A f \in 1..Len(log) : f # Current' => Complete(f, saved)'
  BY <1>2, <1>u DEF TailInv, RotationInv, RotatedCommitted, Complete
<1> QED BY <1>1, <1>3, <1>4, <1>5

(***************************************************************************)
(* Cowrie's steps: a rotation only takes the file the shipper holds.       *)
(***************************************************************************)
LEMMA CowrieTail ==
  ASSUME Calm, IndInv, IndInv', TailInv, Cowrie
  PROVE  TailInv'
<1>t. /\ Len(log) \in Nat /\ Len(log') \in Nat /\ handle \in 0..Len(log)
      /\ UNCHANGED <<tailVars, processVars>> /\ LogTypeOK
      /\ UNCHANGED <<handle, inode, pos, lines, pending, saved, pc, fed, stop>>
      /\ Target' = Target
  BY TailTypes, NextLogTypes DEF Cowrie, tailVars, processVars, Target, IndInv, TypeOK
<1>1. ASSUME NEW s \in Sessions, NEW e, Writes(s, e)  PROVE TailInv'
  <2>1. /\ LogGrows /\ Len(log') = Len(log) /\ Current' = Current /\ present' = present
    BY <1>1, <1>t, WritesGrow DEF Writes, Current
  <2>2. /\ PositionsInv' /\ BatchInv'
        /\ \A f \in 1..Len(log) : f # Current' /\ f # handle' => Complete(f, Target)'
        /\ stop => \A f \in 1..Len(log) : f # Current' => Complete(f, saved)'
    BY <1>t, <2>1, GrowingTail
  <2>3. RotationInv'
    BY <1>t, <2>1, <2>2 DEF TailInv, RotationInv, RotatedCommitted, Complete
  <2>4. HandleInv'
    BY <1>t, <2>1 DEF TailInv, HandleInv
  <2> QED BY <2>2, <2>3, <2>4 DEF TailInv
<1>2. CASE CreateLog
  <2>1. /\ LogGrows /\ Len(log') = Len(log) + 1 /\ Current = 0 /\ Current' = Len(log')
        /\ ~present /\ present' /\ Len(log'[Len(log')]) = 0
    BY <1>2, <1>t, CreateGrows DEF CreateLog
  <2>2. /\ PositionsInv' /\ BatchInv'
        /\ \A f \in 1..Len(log) : f # Current' /\ f # handle' => Complete(f, Target)'
        /\ stop => \A f \in 1..Len(log) : f # Current' => Complete(f, saved)'
    BY <1>t, <2>1, GrowingTail
  <2>3. RotationInv'
    BY <1>t, <2>1, <2>2 DEF TailInv, RotationInv, RotatedCommitted, Complete
  <2>4. HandleInv'
    BY <1>t, <2>1 DEF TailInv, HandleInv
  <2> QED BY <2>2, <2>3, <2>4 DEF TailInv
<1>3. CASE Rotate
  <2>1. /\ pc # "stat" /\ handle # 0 /\ handle = Current /\ ~stop
        /\ log' = log /\ ~present' /\ present
    BY <1>3 DEF Calm, Rotate, RenameLog
  <2>2. PositionsInv' /\ BatchInv' /\ HandleInv'
    BY <1>t, <2>1 DEF TailInv, PositionsInv, BatchInv, HandleInv, InLog, NotAfter,
       Complete, Current
  <2>3. RotationInv'
    BY <1>t, <2>1 DEF TailInv, RotationInv, Complete, Current
  <2> QED BY <2>2, <2>3 DEF TailInv
<1>4. ~Truncate
  BY DEF Calm, Truncate
<1> QED BY <1>1, <1>2, <1>3, <1>4 DEF Cowrie, Connects, Acts, Closes

(***************************************************************************)
(* A batch is what follows pos in the open file, and pos moves past it; if *)
(* the read came to the end of the file, so did pos.                       *)
(***************************************************************************)
LEMMA DrainBatch ==
  ASSUME IndInv, handle # 0, pos <= Len(log[handle]), DrainOpenFile
  PROVE  /\ lines' \in Seq(Lines) /\ Len(lines') \in Nat
         /\ \A i \in 1..Len(lines') : lines'[i] = log[handle][pos + i]
         /\ pos' = pos + Len(lines') /\ pos' <= Len(log[handle])
         /\ AtEof => pos' = Len(log[handle])
         /\ pending' = IF lines' = <<>> THEN pending
                       ELSE [inode |-> inode, offset |-> pos']
         /\ lines' = <<>> <=> Len(lines') = 0
<1>t. /\ log[handle] \in Seq(Lines) /\ Len(log[handle]) \in Nat /\ pos \in Nat
      /\ MaxBatch \in Nat \ {0}
  BY TailTypes, SizesAssumption
<1>1. /\ Unread \in Seq(Lines) /\ Len(Unread) = Len(log[handle]) - pos
      /\ \A i \in 1..Len(Unread) : Unread[i] = log[handle][pos + i]
  <2>1. CASE pos < Len(log[handle])
    <3> DEFINE q == log[handle]
    <3>1. Unread = SubSeq(q, pos + 1, Len(q)) BY <2>1 DEF Unread
    <3>2. q \in Seq(Lines) /\ Len(q) \in Nat /\ pos < Len(q) BY <1>t, <2>1
    <3> HIDE DEF q
    <3>3. \A i \in (pos + 1)..Len(q) : q[i] \in Lines BY <1>t, <3>2
    <3>4. Unread \in Seq(Lines) BY <1>t, <3>1, <3>2, <3>3
    <3>5. Len(Unread) = Len(q) - pos BY <1>t, <3>1, <3>2
    <3>6. \A i \in 1..Len(Unread) : Unread[i] = q[pos + i] BY <1>t, <3>1, <3>2, <3>5
    <3> QED BY <3>4, <3>5, <3>6 DEF q
  <2>2. CASE ~(pos < Len(log[handle]))
    <3>1. Unread = <<>> /\ pos = Len(log[handle])
      BY <1>t, <2>2 DEF Unread
    <3>2. <<>> \in Seq(Lines) /\ Len(<<>>) = 0
      OBVIOUS
    <3> QED BY <1>t, <3>1, <3>2
  <2> QED BY <2>1, <2>2
<1>2. /\ lines' \in Seq(Lines) /\ Len(lines') \in Nat /\ Len(lines') <= Len(Unread)
      /\ \A i \in 1..Len(lines') : lines'[i] = Unread[i]
      /\ AtEof => Len(lines') = Len(Unread)
  <2>1. CASE AtEof
    BY <1>1, <2>1 DEF DrainOpenFile
  <2>2. CASE ~AtEof
    <3>1. MaxBatch \in 1..Len(Unread)
      BY <1>t, <1>1, <2>2 DEF AtEof
    <3>2. lines' = SubSeq(Unread, 1, MaxBatch)
      BY <2>2 DEF DrainOpenFile
    <3> QED BY <1>t, <1>1, <2>2, <3>1, <3>2
  <2> QED BY <2>1, <2>2
<1>3. pos' = pos + Len(lines')
  BY DEF DrainOpenFile
<1>4. \A i \in 1..Len(lines') : lines'[i] = log[handle][pos + i]
  BY <1>t, <1>1, <1>2
<1>5. pos' <= Len(log[handle]) /\ (AtEof => pos' = Len(log[handle]))
  BY <1>t, <1>1, <1>2, <1>3
<1>6. pending' = IF lines' = <<>> THEN pending ELSE [inode |-> inode, offset |-> pos']
  BY <1>3 DEF DrainOpenFile
<1>7. lines' = <<>> <=> Len(lines') = 0
  BY <1>2
<1> QED BY <1>2, <1>3, <1>4, <1>5, <1>6, <1>7

(***************************************************************************)
(* _drain_open_file takes up exactly where the saved position ends, and    *)
(* the old file of a rotation is closed only at its end.                   *)
(***************************************************************************)
LEMMA DrainTail ==
  ASSUME IndInv, IndInv', TailInv, DrainRotated \/ DrainCurrent,
         pc \in {"tail", "read"}, pc' = "feed", stop' = stop,
         UNCHANGED logVars
  PROVE  TailInv'
<1>t. /\ Len(log) \in Nat /\ \A f \in 1..Len(log) : Len(log[f]) \in Nat
      /\ saved \in Positions /\ saved.inode \in Nat /\ saved.offset \in Nat
      /\ handle \in 0..Len(log) /\ pos \in Nat
  BY TailTypes
<1>u. log' = log /\ present' = present /\ saved' = saved /\ Current' = Current
  BY DEF DrainRotated, DrainCurrent, logVars, Current
<1>1. /\ handle # 0 /\ DrainOpenFile /\ inode = handle
      /\ pending = NoPosition /\ Target = saved
      /\ saved.inode <= handle
      /\ saved.inode = handle => pos = saved.offset
      /\ saved.inode < handle => pos = 0
      /\ InLog(saved)
  BY <1>t DEF DrainRotated, DrainCurrent, TailInv, HandleInv, BatchInv, Target, PositionsInv
<1>2. pos <= Len(log[handle])
  BY <1>t, <1>1 DEF InLog
<1>3. /\ lines' \in Seq(Lines) /\ Len(lines') \in Nat
      /\ \A i \in 1..Len(lines') : lines'[i] = log[handle][pos + i]
      /\ pos' = pos + Len(lines') /\ pos' <= Len(log[handle])
      /\ AtEof => pos' = Len(log[handle])
      /\ pending' = IF lines' = <<>> THEN pending ELSE [inode |-> handle, offset |-> pos']
      /\ lines' = <<>> <=> Len(lines') = 0
  BY <1>1, <1>2, DrainBatch
<1>4. \A f \in 1..Len(log) : f < handle => Complete(f, saved)
  BY <1>t, <1>1 DEF TailInv, RotationInv, Current
<1>5. /\ \/ handle' = handle /\ inode' = inode
         \/ handle' = 0 /\ inode' = 0 /\ AtEof
      /\ handle' = 0 => handle # Current
  BY <1>1 DEF DrainRotated, DrainCurrent
<1>6. CASE lines' = <<>>
  <2>1. Target' = saved /\ pos' = pos /\ pending' = NoPosition
    BY <1>t, <1>u, <1>1, <1>3, <1>6 DEF Target
  <2>2. PositionsInv' /\ BatchInv'
    BY <1>u, <1>1, <1>6, <2>1 DEF TailInv, PositionsInv, BatchInv, InLog, NotAfter
  <2>3. HandleInv'
    BY <1>u, <1>1, <1>5, <2>1 DEF TailInv, HandleInv
  <2>4. ASSUME NEW f \in 1..Len(log), f # Current, f # handle'  PROVE Complete(f, saved)
    <3>1. CASE f # handle
      BY <1>1, <2>4, <3>1 DEF TailInv, RotationInv
    <3>2. CASE f = handle
      <4>1. pos = Len(log[handle])
        BY <1>3, <1>5, <2>1, <2>4, <3>2
      <4>2. log[handle] # <<>> => Len(log[handle]) # 0
        BY <1>t, TailTypes, <1>1
      <4> QED BY <1>t, <1>1, <3>2, <4>1, <4>2 DEF Complete
    <3> QED BY <3>1, <3>2
  <2>5. RotationInv'
    BY <1>u, <2>1, <2>4 DEF TailInv, RotationInv, RotatedCommitted, Complete
  <2> QED BY <2>2, <2>3, <2>5 DEF TailInv
<1>7. CASE lines' # <<>>
  <2>1. /\ pending' = [inode |-> handle, offset |-> pos'] /\ pending' # NoPosition
        /\ Target' = pending' /\ pending'.inode = handle /\ pending'.offset = pos'
        /\ pos' \in Nat
    BY <1>t, <1>1, <1>3, <1>7 DEF Target, NoPosition
  <2>2. PositionsInv'
    BY <1>t, <1>u, <1>1, <1>3, <2>1 DEF PositionsInv, InLog, NotAfter
  <2>3. BatchInv'
    <3>1. Len(lines') <= pos' /\ pos' - Len(lines') = pos
      BY <1>t, <1>3, <2>1
    <3>2. \A f \in 1..Len(log) : f < handle => Complete(f, saved)'
      BY <1>u, <1>4 DEF Complete
    <3>3. \A i \in 1..Len(lines') :
            lines'[i] = log'[pending'.inode][pending'.offset - Len(lines') + i]
      BY <1>u, <1>3, <2>1, <3>1
    <3>4. /\ saved'.inode = pending'.inode => saved'.offset = pending'.offset - Len(lines')
          /\ saved'.inode < pending'.inode => pending'.offset = Len(lines')
      BY <1>t, <1>u, <1>1, <1>3, <2>1, <3>1
    <3> QED BY <1>t, <1>u, <1>1, <2>1, <3>1, <3>2, <3>3, <3>4 DEF BatchInv
  <2>4. HandleInv'
    BY <1>t, <1>u, <1>1, <1>5, <2>1 DEF TailInv, HandleInv
  <2>5. ASSUME NEW f \in 1..Len(log), f # Current, f # handle'
        PROVE  log[f] # <<>> => f < handle \/ (f = handle /\ pos' = Len(log[f]))
    <3>1. CASE f = handle
      BY <1>3, <1>5, <2>5, <3>1
    <3>2. CASE f # handle
      BY <1>t, <1>1, <2>5, <3>2 DEF TailInv, RotationInv, Complete
    <3> QED BY <3>1, <3>2
  <2>6. RotationInv'
    BY <1>u, <2>1, <2>5 DEF TailInv, RotationInv, RotatedCommitted, Complete
  <2> QED BY <2>2, <2>3, <2>4, <2>6 DEF TailInv
<1> QED BY <1>6, <1>7

(***************************************************************************)
(* Opening: the file at the path is the one whose inode is recorded, and   *)
(* reading resumes at the saved position or at the start of a file the     *)
(* saved position has not reached.                                         *)
(***************************************************************************)
LEMMA ReadsTail ==
  ASSUME Calm, IndInv, IndInv', TailInv, Reads
  PROVE  TailInv'
<1>t. /\ Len(log) \in Nat /\ \A f \in 1..Len(log) : Len(log[f]) \in Nat
      /\ saved \in Positions /\ saved.inode \in Nat /\ saved.offset \in Nat
      /\ handle \in 0..Len(log) /\ pos \in Nat
  BY TailTypes
<1>u. log' = log /\ present' = present /\ Current' = Current /\ stop' = stop /\ fed' = 0
      /\ UNCHANGED logVars
  BY DEF Reads, At, logVars, Current
<1>p. pending = NoPosition /\ Target = saved /\ pc \in {"tail", "stat", "read"}
  BY DEF Reads, At, TailInv, BatchInv, Target
<1>1. CASE pc \in {"tail", "read"} /\ pc' = "feed" /\ (DrainRotated \/ DrainCurrent)
  BY <1>u, <1>1, DrainTail
<1>2. CASE pc \in {"tail", "stat"} /\ pc' = "feed" /\ NoFile /\ (pc = "tail" => handle = 0)
  <2>1. handle = 0 /\ pc = "tail"
    BY <1>2 DEF NoFile, TailInv, HandleInv
  <2>2. /\ handle' = 0 /\ lines' = <<>> /\ pending' = pending /\ saved' = saved
        /\ Target' = saved
    BY <1>2, <1>p DEF NoFile, Target
  <2> QED BY <1>t, <1>u, <1>p, <1>2, <2>1, <2>2 DEF TailInv, PositionsInv, BatchInv,
          HandleInv, RotationInv, InLog, NotAfter, Complete, RotatedCommitted
<1>3. CASE pc = "tail" /\ pc' = "stat" /\ OpenPath
  <2>1. /\ handle = 0 /\ present /\ handle' = Len(log) /\ pending' = pending
        /\ saved' = saved /\ Target' = saved
    BY <1>3, <1>p DEF OpenPath, Target, Current
  <2> QED BY <1>t, <1>u, <1>p, <1>3, <2>1 DEF TailInv, PositionsInv, BatchInv,
          HandleInv, RotationInv, InLog, NotAfter, Complete, RotatedCommitted
<1>4. CASE pc = "stat" /\ pc' = "read" /\ SeekSaved
  <2>1. /\ present /\ handle = Len(log) /\ handle' = handle /\ inode' = handle
        /\ pending' = pending /\ saved' = saved /\ Target' = saved
        /\ pos' = IF saved.inode = handle /\ saved.offset <= Len(log[handle])
                    THEN saved.offset ELSE 0
    BY <1>4, <1>p DEF SeekSaved, Target, Current, TailInv, HandleInv
  <2>0. handle # 0
    BY <2>1 DEF IndInv, TypeOK, LogTypeOK
  <2>2. /\ saved.inode <= handle
        /\ saved.inode = handle => pos' = saved.offset
        /\ saved.inode < handle => pos' = 0
    BY <1>t, <2>0, <2>1 DEF TailInv, PositionsInv, InLog
  <2> QED BY <1>t, <1>u, <1>p, <1>4, <2>1, <2>2 DEF TailInv, PositionsInv, BatchInv,
          HandleInv, RotationInv, InLog, NotAfter, Complete, RotatedCommitted
<1> QED BY <1>1, <1>2, <1>3, <1>4 DEF Reads, At

(***************************************************************************)
(* commit_offset: what was the target is saved, and it is no earlier.      *)
(***************************************************************************)
LEMMA CommitsTail ==
  ASSUME IndInv, IndInv', TailInv, Commits
  PROVE  TailInv'
<1>t. /\ Len(log) \in Nat /\ \A f \in 1..Len(log) : Len(log[f]) \in Nat
      /\ saved.inode \in Nat /\ saved.offset \in Nat
      /\ Target.inode \in Nat /\ Target.offset \in Nat
  BY TailTypes, TargetTypes
<1>u. /\ log' = log /\ present' = present /\ Current' = Current /\ stop' = stop
      /\ UNCHANGED <<handle, inode, pos, lines, fed>>
      /\ pc = "flush" /\ pc' = "drain" /\ pending' = NoPosition
      /\ saved' = Target /\ Target' = Target
  BY DEF Commits, At, CommitOffset, logVars, Current, Target
<1>1. PositionsInv' /\ BatchInv' /\ HandleInv'
  BY <1>t, <1>u DEF TailInv, PositionsInv, BatchInv, HandleInv, InLog, NotAfter
<1>2. ASSUME stop, NEW f \in 1..Len(log), f # Current  PROVE Complete(f, Target)
  <2>1. Complete(f, saved)
    BY <1>2 DEF TailInv, RotationInv, RotatedCommitted, Complete
  <2>2. InLog(Target) /\ NotAfter(saved, Target)
    BY DEF TailInv, PositionsInv
  <2> QED BY <1>t, <2>1, <2>2 DEF Complete, InLog, NotAfter
<1>3. RotationInv'
  BY <1>u, <1>2 DEF TailInv, RotationInv, RotatedCommitted, Complete
<1> QED BY <1>1, <1>3 DEF TailInv

(***************************************************************************)
(* A process that ends with every rotated generation committed.            *)
(***************************************************************************)
LEMMA DiesTail ==
  ASSUME IndInv, IndInv', TailInv, RotatedCommitted, Dies
  PROVE  TailInv'
<1>t. /\ Len(log) \in Nat /\ saved.inode \in Nat /\ saved.offset \in Nat
  BY TailTypes
<1>u. /\ log' = log /\ present' = present /\ Current' = Current /\ stop' = FALSE
      /\ handle' = 0 /\ pc' = "down" /\ pending' = NoPosition
      /\ saved' = saved /\ Target' = saved
  BY DEF Dies, ForgetTail, logVars, Current, Target
<1>1. PositionsInv' /\ BatchInv' /\ HandleInv'
  BY <1>t, <1>u DEF TailInv, PositionsInv, BatchInv, HandleInv, InLog, NotAfter
<1>2. RotationInv'
  BY <1>u DEF RotationInv, RotatedCommitted, Complete
<1> QED BY <1>1, <1>2 DEF TailInv

(***************************************************************************)
(* The steps that leave the log and the tailer alone.                      *)
(***************************************************************************)
LEMMA TailFrame ==
  ASSUME TailInv, UNCHANGED <<logVars, tailVars>>,
         stop' => RotatedCommitted,
         pc' = "stopping" => stop',
         \/ pc' = pc /\ (pc = "flush" => fed' = fed)
         \/ pc = "feed" /\ pc' = "flush" /\ fed' = Len(lines)
         \/ {pc, pc'} \cap {"feed", "flush", "stat"} = {}
  PROVE  TailInv'
<1>u. /\ UNCHANGED <<log, present, handle, inode, pos, lines, pending, saved>>
      /\ Target' = Target /\ Current' = Current
  BY DEF logVars, tailVars, Target, Current
<1>1. PositionsInv'
  BY <1>u DEF TailInv, PositionsInv, InLog, NotAfter
<1>2. BatchInv'
  BY <1>u DEF TailInv, BatchInv, Complete
<1>3. HandleInv'
  BY <1>u DEF TailInv, HandleInv
<1>4. RotationInv'
  BY <1>u DEF TailInv, RotationInv, RotatedCommitted, Complete
<1> QED BY <1>1, <1>2, <1>3, <1>4 DEF TailInv

(***************************************************************************)
(* Every step of the shipper and of its environment keeps the reader's     *)
(* invariant.                                                              *)
(***************************************************************************)
LEMMA NextTail ==
  ASSUME Calm, IndInv, IndInv', TailInv, [Next]_vars
  PROVE  TailInv'
<1>0. (stop => RotatedCommitted) /\ (pc = "stopping" => stop)
  BY DEF TailInv, RotationInv
<1>1. CASE Start \/ FeedsLine \/ FlushesIdle \/ DrainEnds \/ Polls \/ Stops
  BY <1>0, <1>1, TailFrame
     DEF Start, FeedsLine, FlushesIdle, DrainEnds, Polls, Stops, At
<1>2. CASE Puts \/ Posts \/ Removes \/ DeadLetters
  BY <1>0, <1>2, TailFrame DEF Puts, Posts, Removes, DeadLetters, At, processVars
<1>3. CASE RequestStop
  BY <1>0, <1>3, TailFrame DEF RequestStop, Calm
<1>4. CASE Exits \/ BreaksOff \/ Kill
  <2>1. RotatedCommitted /\ Dies
    BY <1>0, <1>4 DEF Exits, BreaksOff, Kill, Abandons, Calm
  <2> QED BY <2>1, DiesTail
<1>5. CASE UNCHANGED vars
  BY <1>0, <1>5, TailFrame DEF vars, processVars
<1> QED BY <1>1, <1>2, <1>3, <1>4, <1>5, ReadsTail, CommitsTail, CowrieTail DEF Next, Step

LEMMA InitTail == Init => TailInv
<1> SUFFICES ASSUME Init PROVE TailInv
  OBVIOUS
<1>1. /\ log = <<>> /\ Len(log) = 0 /\ saved = NoPosition /\ pending = NoPosition
      /\ Target = NoPosition /\ handle = 0 /\ pc = "down" /\ stop = FALSE
  BY DEF Init, LogInit, TailInit, TailMemoryInit, Target
<1> QED BY <1>1 DEF TailInv, PositionsInv, BatchInv, HandleInv, RotationInv, InLog,
        NotAfter, NoPosition

-----------------------------------------------------------------------------
(***************************************************************************)
(* What precedes the batch in hand is behind the saved position.           *)
(***************************************************************************)
LEMMA BeforeBatch ==
  ASSUME IndInv, TailInv, pending # NoPosition,
         NEW g \in 1..Len(log), NEW j \in 1..Len(log[g]), NEW s, NEW e,
         log[g][j] = Line(s, e),
         \/ g < pending.inode
         \/ g = pending.inode /\ j <= pending.offset - Len(lines)
  PROVE  Passed(s, e)
<1>t. /\ Len(log) \in Nat /\ Len(log[g]) \in Nat /\ log[g] \in Seq(Lines)
      /\ saved.inode \in Nat /\ saved.offset \in Nat
      /\ pending.inode \in Nat /\ pending.offset \in Nat /\ Len(lines) \in Nat
  BY TailTypes
<1>1. /\ saved.inode = pending.inode => saved.offset = pending.offset - Len(lines)
      /\ saved.inode < pending.inode => pending.offset = Len(lines)
      /\ g < pending.inode => Complete(g, saved)
      /\ saved.inode <= pending.inode
      /\ saved.inode = g => saved.offset <= Len(log[g])
  BY <1>t DEF TailInv, BatchInv, PositionsInv, NotAfter, InLog, Target
<1>2. log[g] # <<>>
  BY <1>t
<1>3. \/ g < saved.inode
      \/ g = saved.inode /\ j <= saved.offset /\ saved.offset <= Len(log[g])
  BY <1>t, <1>1, <1>2 DEF Complete
<1> QED BY <1>3 DEF Passed

(***************************************************************************)
(* A commit passes the lines of the batch and no others.                   *)
(***************************************************************************)
LEMMA CommitPasses ==
  ASSUME IndInv, TailInv, Commits, NEW s, NEW e, Passed(s, e)'
  PROVE  Passed(s, e) \/ \E j \in 1..Len(lines) : lines[j] = Line(s, e)
<1>t. /\ Len(log) \in Nat /\ \A f \in 1..Len(log) : Len(log[f]) \in Nat
      /\ pending.inode \in Nat /\ pending.offset \in Nat /\ Len(lines) \in Nat
  BY TailTypes
<1>u. log' = log /\ saved' = Target
  BY DEF Commits, CommitOffset, logVars, Target
<1>1. PICK f \in 1..Len(log) : \E i \in 1..Len(log[f]) :
        /\ log[f][i] = Line(s, e)
        /\ f < Target.inode \/ (f = Target.inode /\ i <= Target.offset /\ Target.offset <= Len(log[f]))
  BY <1>u DEF Passed
<1>2. PICK i \in 1..Len(log[f]) :
        /\ log[f][i] = Line(s, e)
        /\ f < Target.inode \/ (f = Target.inode /\ i <= Target.offset /\ Target.offset <= Len(log[f]))
  BY <1>1
<1>3. CASE pending = NoPosition
  BY <1>2, <1>3 DEF Target, Passed
<1>4. CASE pending # NoPosition
  <2>1. f < pending.inode \/ (f = pending.inode /\ i <= pending.offset)
    BY <1>2, <1>4 DEF Target
  <2>2. CASE f < pending.inode \/ (f = pending.inode /\ i <= pending.offset - Len(lines))
    BY <1>2, <1>4, <2>2, BeforeBatch
  <2>3. CASE f = pending.inode /\ i > pending.offset - Len(lines)
    <3> DEFINE j == i - (pending.offset - Len(lines))
    <3>1. j \in 1..Len(lines) /\ i = pending.offset - Len(lines) + j
      BY <1>t, <2>1, <2>3 DEF TailInv, BatchInv
    <3>2. lines[j] = log[pending.inode][pending.offset - Len(lines) + j]
      BY <1>4, <3>1 DEF TailInv, BatchInv
    <3>3. lines[j] = Line(s, e)
      BY <1>2, <2>3, <3>1, <3>2
    <3> QED BY <3>1, <3>3
  <2> QED BY <1>t, <2>1, <2>2, <2>3
<1> QED BY <1>3, <1>4

\* Of a batch of n lines that ends at off: the place in it of line j.
LEMMA PlaceInBatch ==
  ASSUME NEW off \in Nat, NEW n \in Nat, NEW m \in Nat, NEW j \in Nat,
         m < n, j < off - n + (m + 1), j > off - n
  PROVE  /\ j - (off - n) \in 1..m /\ j - (off - n) \in 1..n
         /\ j = off - n + (j - (off - n))
OBVIOUS

(***************************************************************************)
(* When a later line of a session is fed, its connect event was fed before *)
(* or is behind the saved position: the session is accounted for.          *)
(***************************************************************************)
LEMMA ConnectWasFed ==
  ASSUME IndInv, TailInv, SessionInv, pc = "feed", fed < Len(lines),
         lines[fed + 1].event # "connect"
  PROVE  \/ lines[fed + 1].session \in Emitted
         \/ open[lines[fed + 1].session] = "whole"
<1> DEFINE s == lines[fed + 1].session
           i == pending.offset - Len(lines) + (fed + 1)
<1>t. /\ Len(log) \in Nat /\ \A f \in 1..Len(log) : Len(log[f]) \in Nat
      /\ pending.inode \in Nat /\ pending.offset \in Nat /\ Len(lines) \in Nat
      /\ fed \in 0..Len(lines) /\ lines \in Seq(Lines)
  BY TailTypes
<1>f. fed + 1 \in 1..Len(lines)
  BY <1>t
<1>l. lines[fed + 1] \in Lines
  BY <1>t, <1>f
<1>s. s \in Sessions
  BY <1>l DEF Lines
<1>1. /\ pending # NoPosition /\ pending.inode \in 1..Len(log)
      /\ pending.offset <= Len(log[pending.inode]) /\ Len(lines) <= pending.offset
      /\ \A k \in 1..Len(lines) :
           lines[k] = log[pending.inode][pending.offset - Len(lines) + k]
  BY <1>t DEF TailInv, BatchInv, PositionsInv, InLog, Target
<1>2. i \in 1..Len(log[pending.inode]) /\ log[pending.inode][i] = lines[fed + 1]
  <2>1. log[pending.inode][i] = lines[fed + 1]
    BY <1>f, <1>1
  <2>2. Len(log[pending.inode]) \in Nat
    BY <1>t, <1>1
  <2> QED BY <1>t, <1>f, <1>1, <2>1, <2>2
<1>c. PICK g \in 1..Len(log) : \E j \in 1..Len(log[g]) :
        /\ g < pending.inode \/ (g = pending.inode /\ j < i)
        /\ log[g][j] = Line(s, "connect")
  <2> HIDE DEF i, s
  <2>1. log[pending.inode][i].event # "connect" /\ log[pending.inode][i].session = s
    BY <1>2 DEF s
  <2> QED BY <1>1, <1>2, <2>1 DEF SessionInv, ConnectFirst
<1>3. PICK j \in 1..Len(log[g]) :
        /\ g < pending.inode \/ (g = pending.inode /\ j < i)
        /\ log[g][j] = Line(s, "connect")
  BY <1>c
<1>4. CASE g < pending.inode \/ (g = pending.inode /\ j <= pending.offset - Len(lines))
  <2>1. Passed(s, "connect")
    BY <1>1, <1>3, <1>4, BeforeBatch
  <2> QED BY <1>s, <2>1 DEF SessionInv, KeptInv, Emitted
<1>5. CASE g = pending.inode /\ j > pending.offset - Len(lines)
  <2> DEFINE k == j - (pending.offset - Len(lines))
  <2>1. k \in 1..fed /\ k \in 1..Len(lines) /\ j = pending.offset - Len(lines) + k
    <3> DEFINE off == pending.offset
               n == Len(lines)
    <3>1. off \in Nat /\ n \in Nat /\ fed \in Nat /\ j \in Nat BY <1>t, <1>3
    <3>2. fed < n /\ j < off - n + (fed + 1) /\ j > off - n BY <1>t, <1>3, <1>5
    <3> HIDE DEF off, n
    <3>3. /\ j - (off - n) \in 1..fed /\ j - (off - n) \in 1..n
          /\ j = off - n + (j - (off - n))
      BY <3>1, <3>2, PlaceInBatch
    <3> QED BY <3>3, Zenon DEF off, n
  <2>2. lines[k] = Line(s, "connect")
    BY <1>1, <1>3, <1>5, <2>1
  <2>3. lines[k].event = "connect" /\ lines[k].session = s
    BY <2>2 DEF Line
  <2> HIDE DEF k, s
  <2>4. s \in Emitted \/ open[s] = "whole"
    BY <2>1, <2>3 DEF SessionInv, FedInv
  <2> QED BY <2>4 DEF s
<1> QED BY <1>t, <1>1, <1>3, <1>4, <1>5

(***************************************************************************)
(* The steps that leave the log and the saved position alone and lose no   *)
(* session: an open one stays open or is emitted.                          *)
(***************************************************************************)
LEMMA SessionFrame ==
  ASSUME SessionInv, UNCHANGED <<log, cowrie, saved>>,
         assembled \cup orphaned \subseteq assembled' \cup orphaned',
         Emitted \subseteq Emitted',
         \A s \in Sessions : open[s] = "whole" => open'[s] = "whole" \/ s \in Emitted',
         \A s \in Sessions : open'[s] = "headless" => open[s] = "headless" \/ s \in Emitted',
         pc' \in {"feed", "flush"} =>
           fed' = 0 \/ (pc \in {"feed", "flush"} /\ fed' = fed /\ lines' = lines),
         pc' = "stopping" => \A s \in Sessions : open'[s] = "none",
         lines \in Seq(Lines), fed \in 0..Len(lines)
  PROVE  SessionInv'
<1>1. \A s, e : Passed(s, e)' <=> Passed(s, e)
  BY DEF Passed
<1>2. ConnectFirst'
  BY DEF SessionInv, ConnectFirst
<1>3. FedInv'
  <2> SUFFICES ASSUME pc' \in {"feed", "flush"}, NEW j \in 1..fed'
               PROVE  /\ lines'[j].event = "connect" =>
                           lines'[j].session \in Emitted' \/ open'[lines'[j].session] = "whole"
                      /\ lines'[j].event = "closed" => lines'[j].session \in Emitted'
    BY DEF FedInv
  <2>1. pc \in {"feed", "flush"} /\ fed' = fed /\ lines' = lines /\ j \in 1..fed
    OBVIOUS
  <2>2. j \in 1..Len(lines)
    BY <2>1
  <2>3. lines[j] \in Lines
    BY <2>2
  <2>4. lines[j].session \in Sessions
    BY <2>3 DEF Lines
  <2> QED BY <2>1, <2>4 DEF SessionInv, FedInv
<1>4. OpenInv'
  BY DEF SessionInv, OpenInv
<1>5. KeptInv'
  <2> SUFFICES ASSUME NEW s \in Sessions, Passed(s, "connect")
               PROVE  s \in Emitted' \/ open'[s] = "whole"
    BY <1>1 DEF KeptInv, Emitted
  <2> QED BY DEF SessionInv, KeptInv, Emitted
<1>6. OffsetBehindSpool'
  BY <1>1 DEF SessionInv, OffsetBehindSpool
<1> QED BY <1>2, <1>3, <1>4, <1>5, <1>6 DEF SessionInv

(***************************************************************************)
(* feed: the connect event opens the session, the closing one emits it.    *)
(***************************************************************************)
LEMMA FeedsSessions ==
  ASSUME IndInv, TailInv, SessionInv, FeedsLine
  PROVE  SessionInv'
<1> DEFINE line == lines[fed + 1]
           s == line.session
<1>u. /\ UNCHANGED <<log, cowrie, saved, lines, assembled, orphaned>>
      /\ pc = "feed" /\ pc' = "feed" /\ fed < Len(lines) /\ fed' = fed + 1
      /\ outbox = {} /\ Feed(line)
  BY DEF FeedsLine, At, logVars, tailVars, spoolVars, historyVars
<1>t. /\ lines \in Seq(Lines) /\ Len(lines) \in Nat /\ fed \in Nat
      /\ open \in [Sessions -> {"none", "whole", "headless"}]
  BY TailTypes DEF IndInv, TypeOK, AssemblerTypeOK
<1>l. line \in Lines
  BY <1>t, <1>u
<1>s. s \in Sessions /\ line.event \in Events
  BY <1>l DEF Lines
<1>w. line.event # "connect" => s \in Emitted \/ open[s] = "whole"
  BY <1>u, ConnectWasFed
<1> HIDE DEF line
<1>1. /\ \A r \in Sessions : r # s => open'[r] = open[r]
      /\ open[s] = "whole" => open'[s] = "whole" \/ s \in Emitted'
      /\ open'[s] = "headless" => s \in Emitted'
      /\ line.event = "connect" => open'[s] = "whole" \/ s \in Emitted'
      /\ line.event = "closed" => s \in Emitted'
      /\ Emitted \subseteq Emitted'
  <2>h. open[s] = "headless" => s \in Emitted
    BY <1>s DEF SessionInv, OpenInv
  <2>1. CASE line.event = "junk"
    <3>1. UNCHANGED <<open, outbox>>
      BY <1>u, <2>1 DEF Feed, assemblerVars
    <3> QED BY <1>u, <2>h, <2>1, <3>1 DEF Emitted
  <2>2. CASE line.event = "connect"
    <3>1. /\ outbox' = outbox
          /\ open' = [open EXCEPT ![s] = IF @ # "none" THEN @ ELSE "whole"]
      BY <1>u, <2>2 DEF Feed
    <3> QED BY <1>u, <1>t, <1>s, <2>h, <2>2, <3>1 DEF Emitted
  <2>3. CASE line.event = "command"
    <3>1. /\ outbox' = outbox
          /\ open' = [open EXCEPT ![s] = IF @ # "none" THEN @ ELSE "headless"]
      BY <1>u, <2>3 DEF Feed
    <3> QED BY <1>u, <1>t, <1>s, <1>w, <2>h, <2>3, <3>1 DEF Emitted
  <2>4. CASE line.event = "closed"
    <3>1. /\ outbox' = outbox \cup {r \in {s} : open[r] = "whole"}
          /\ open' = [r \in Sessions |-> IF r \in {s} THEN "none" ELSE open[r]]
      BY <1>u, <2>4 DEF Feed, Flush
    <3> QED BY <1>u, <1>t, <1>s, <1>w, <2>4, <3>1 DEF Emitted
  <2> QED BY <1>s, <2>1, <2>2, <2>3, <2>4 DEF Events
<1>2. \A r, e : Passed(r, e)' <=> Passed(r, e)
  BY <1>u DEF Passed
<1>3. ConnectFirst'
  BY <1>u DEF SessionInv, ConnectFirst
<1>4. FedInv'
  <2> SUFFICES ASSUME NEW j \in 1..(fed + 1)
               PROVE  /\ lines[j].event = "connect" =>
                           lines[j].session \in Emitted' \/ open'[lines[j].session] = "whole"
                      /\ lines[j].event = "closed" => lines[j].session \in Emitted'
    BY <1>u DEF FedInv
  <2>1. CASE j = fed + 1
    <3>1. lines[j] = line
      BY <2>1 DEF line
    <3> QED BY <1>1, <3>1
  <2>2. CASE j # fed + 1
    <3>1. j \in 1..fed /\ j \in 1..Len(lines)
      BY <1>t, <1>u, <2>2
    <3>2. lines[j] \in Lines
      BY <1>t, <3>1
    <3>3. lines[j].session \in Sessions
      BY <3>2 DEF Lines
    <3> HIDE DEF s
    <3> QED BY <1>u, <1>1, <3>1, <3>3 DEF SessionInv, FedInv
  <2> QED BY <2>1, <2>2
<1> HIDE DEF s
<1>5. OpenInv'
  BY <1>u, <1>1 DEF SessionInv, OpenInv
<1>6. KeptInv'
  <2> SUFFICES ASSUME NEW r \in Sessions, Passed(r, "connect")
               PROVE  r \in Emitted' \/ open'[r] = "whole"
    BY <1>2 DEF KeptInv, Emitted
  <2>1. r \in Emitted \/ open[r] = "whole"
    BY DEF SessionInv, KeptInv, Emitted
  <2> QED BY <1>1, <2>1
<1>7. OffsetBehindSpool'
  BY <1>u, <1>2 DEF SessionInv, OffsetBehindSpool
<1> QED BY <1>3, <1>4, <1>5, <1>6, <1>7 DEF SessionInv

(***************************************************************************)
(* commit_offset passes lines that were all fed, with nothing left to put. *)
(***************************************************************************)
LEMMA CommitsSessions ==
  ASSUME IndInv, TailInv, SessionInv, Commits
  PROVE  SessionInv'
<1>u. /\ UNCHANGED <<log, cowrie, open, outbox, assembled, orphaned>>
      /\ pc = "flush" /\ pc' = "drain" /\ outbox = {} /\ fed = Len(lines)
  BY DEF Commits, At, logVars, assemblerVars, spoolVars, historyVars, TailInv, BatchInv
<1>1. ASSUME NEW s \in Sessions, Passed(s, "connect")'
      PROVE  s \in assembled \cup orphaned \cup outbox \/ open[s] = "whole"
  <2>1. CASE Passed(s, "connect")
    BY <2>1 DEF SessionInv, KeptInv
  <2>2. CASE \E j \in 1..Len(lines) : lines[j] = Line(s, "connect")
    BY <1>u, <2>2 DEF SessionInv, FedInv, Line, Emitted
  <2> QED BY <1>1, <2>1, <2>2, CommitPasses
<1>2. ASSUME NEW s \in Sessions, Passed(s, "closed")'
      PROVE  s \in assembled \cup orphaned
  <2>1. CASE Passed(s, "closed")
    BY <2>1 DEF SessionInv, OffsetBehindSpool
  <2>2. CASE \E j \in 1..Len(lines) : lines[j] = Line(s, "closed")
    BY <1>u, <2>2 DEF SessionInv, FedInv, Line, Emitted
  <2> QED BY <1>2, <2>1, <2>2, CommitPasses
<1>3. KeptInv' /\ OffsetBehindSpool'
  BY <1>u, <1>1, <1>2 DEF KeptInv, OffsetBehindSpool
<1>4. ConnectFirst' /\ FedInv' /\ OpenInv'
  BY <1>u DEF SessionInv, ConnectFirst, FedInv, OpenInv, Emitted
<1> QED BY <1>3, <1>4 DEF SessionInv

(***************************************************************************)
(* The end of the process.  A stop leaves nothing in memory; a kill and a  *)
(* loop that breaks off orphan what was in memory and behind the saved     *)
(* position.                                                               *)
(***************************************************************************)
LEMMA DiesSessions ==
  ASSUME IndInv, SessionInv, Exits \/ BreaksOff \/ Kill
  PROVE  SessionInv'
<1>u. /\ UNCHANGED <<log, cowrie, saved, assembled>> /\ pc' = "down"
      /\ open' = [s \in Sessions |-> "none"] /\ outbox' = {}
      /\ orphaned \subseteq orphaned'
  BY DEF Exits, BreaksOff, Kill, Abandons, Dies, ForgetSessions, logVars, spoolVars
<1>1. \A s, e : Passed(s, e)' <=> Passed(s, e)
  BY <1>u DEF Passed
<1>2. ASSUME NEW s \in Sessions, Passed(s, "connect")
      PROVE  s \in assembled \cup orphaned'
  <2>1. s \in assembled \cup orphaned \cup outbox \/ open[s] = "whole"
    BY <1>2 DEF SessionInv, KeptInv
  <2>2. CASE Exits
    BY <2>1, <2>2, <1>u DEF Exits, SessionInv, OpenInv
  <2>3. CASE Abandons
    BY <1>2, <2>1, <2>3 DEF Abandons
  <2> QED BY <2>2, <2>3 DEF BreaksOff, Kill
<1>3. KeptInv' /\ OffsetBehindSpool'
  BY <1>u, <1>1, <1>2 DEF SessionInv, KeptInv, OffsetBehindSpool
<1>4. ConnectFirst' /\ FedInv' /\ OpenInv'
  BY <1>u DEF SessionInv, ConnectFirst, FedInv, OpenInv
<1> QED BY <1>3, <1>4 DEF SessionInv

(***************************************************************************)
(* Cowrie writes behind no position, and a session's connect event first.  *)
(***************************************************************************)
LEMMA GrowingPassed ==
  ASSUME IndInv, TailInv, LogGrows, saved' = saved,
         \/ Len(log') = Len(log)
         \/ Len(log') = Len(log) + 1 /\ Len(log'[Len(log')]) = 0,
         NEW s, NEW e, Passed(s, e)'
  PROVE  Passed(s, e)
<1>t. /\ Len(log) \in Nat /\ \A f \in 1..Len(log) : Len(log[f]) \in Nat
      /\ saved.inode \in Nat /\ saved.offset \in Nat
  BY TailTypes
<1>1. PICK f \in 1..Len(log') : \E i \in 1..Len(log'[f]) :
        /\ log'[f][i] = Line(s, e)
        /\ f < saved.inode \/ (f = saved.inode /\ i <= saved.offset)
  BY DEF Passed
<1>2. PICK i \in 1..Len(log'[f]) :
        /\ log'[f][i] = Line(s, e)
        /\ f < saved.inode \/ (f = saved.inode /\ i <= saved.offset)
  BY <1>1
<1>3. /\ saved.inode <= Len(log)
      /\ saved.inode # 0 => saved.offset <= Len(log[saved.inode])
  BY DEF TailInv, PositionsInv, InLog
<1>4. f \in 1..Len(log)
  BY <1>t, <1>2, <1>3
<1>5. CASE f < saved.inode
  <2>1. f # Current
    BY <1>t, <1>3, <1>4, <1>5 DEF Current
  <2>2. log'[f] = log[f]
    BY <1>4, <2>1 DEF LogGrows
  <2> QED BY <1>2, <1>4, <1>5, <2>2 DEF Passed
<1>6. CASE f = saved.inode /\ i <= saved.offset
  <2>1. saved.offset <= Len(log[f]) /\ Len(log[f]) \in Nat
    BY <1>t, <1>3, <1>4, <1>6
  <2>2. i \in 1..Len(log[f])
    BY <1>t, <1>6, <2>1
  <2>3. log[f][i] = Line(s, e)
    BY <1>2, <1>4, <2>2 DEF LogGrows
  <2> QED BY <1>4, <1>6, <2>1, <2>2, <2>3 DEF Passed
<1> QED BY <1>2, <1>5, <1>6

LEMMA GrowingConnects ==
  ASSUME IndInv, IndInv', LogGrows, NEW s,
         \E f \in 1..Len(log) : \E i \in 1..Len(log[f]) : log[f][i] = Line(s, "connect")
  PROVE  \E f \in 1..Len(log') : \E i \in 1..Len(log'[f]) : log'[f][i] = Line(s, "connect")
<1>t. /\ Len(log) \in Nat /\ \A f \in 1..Len(log) : Len(log[f]) \in Nat
      /\ Len(log') \in Nat /\ \A f \in 1..Len(log') : Len(log'[f]) \in Nat
  BY TailTypes, NextLogTypes
<1>1. PICK f \in 1..Len(log) : \E i \in 1..Len(log[f]) : log[f][i] = Line(s, "connect")
  OBVIOUS
<1>2. PICK i \in 1..Len(log[f]) : log[f][i] = Line(s, "connect")
  BY <1>1
<1>3. Len(log[f]) <= Len(log'[f]) /\ log'[f][i] = log[f][i]
  BY Zenon DEF LogGrows
<1>4. f \in 1..Len(log')
  <2>1. Len(log) <= Len(log') BY Zenon DEF LogGrows
  <2> QED BY <1>t, <2>1
<1>5. i \in 1..Len(log'[f])
  <2>1. Len(log[f]) \in Nat /\ Len(log'[f]) \in Nat BY <1>t, <1>4
  <2> QED BY <1>3, <2>1
<1> QED BY <1>2, <1>3, <1>4, <1>5

\* An old line that is no connect event still has its connect before it.
LEMMA GrowingOrder ==
  ASSUME IndInv, IndInv', LogGrows, ConnectFirst,
         NEW f \in 1..Len(log), NEW i \in 1..Len(log[f]),
         log'[f][i].event # "connect"
  PROVE  \E g \in 1..Len(log') : \E j \in 1..Len(log'[g]) :
           /\ g < f \/ (g = f /\ j < i)
           /\ log'[g][j] = Line(log'[f][i].session, "connect")
<1>t. /\ Len(log) \in Nat /\ \A g \in 1..Len(log) : Len(log[g]) \in Nat
      /\ Len(log') \in Nat /\ \A g \in 1..Len(log') : Len(log'[g]) \in Nat
  BY TailTypes, NextLogTypes
<1>1. log'[f][i] = log[f][i]
  BY DEF LogGrows
<1>2. PICK g \in 1..Len(log) : \E j \in 1..Len(log[g]) :
        /\ g < f \/ (g = f /\ j < i)
        /\ log[g][j] = Line(log[f][i].session, "connect")
  BY <1>1 DEF ConnectFirst
<1>3. PICK j \in 1..Len(log[g]) :
        /\ g < f \/ (g = f /\ j < i)
        /\ log[g][j] = Line(log[f][i].session, "connect")
  BY <1>2
<1>4. g \in 1..Len(log') /\ Len(log[g]) <= Len(log'[g]) /\ log'[g][j] = log[g][j]
  BY <1>t DEF LogGrows
<1>5. j \in 1..Len(log'[g])
  BY <1>t, <1>4
<1>6. log'[g][j] = Line(log'[f][i].session, "connect")
  BY <1>1, <1>3, <1>4
<1> QED BY <1>3, <1>4, <1>5, <1>6

LEMMA WritesConnectFirst ==
  ASSUME IndInv, IndInv', ConnectFirst, NEW s \in Sessions, NEW e, Writes(s, e),
         \A r \in Sessions : cowrie'[r] # "new" => r = s \/ cowrie[r] # "new",
         e = "connect" \/ cowrie[s] # "new"
  PROVE  ConnectFirst'
<1> DEFINE n == Len(log)
<1>t. /\ n \in Nat /\ \A f \in 1..n : Len(log[f]) \in Nat
      /\ Len(log') \in Nat /\ \A f \in 1..Len(log') : Len(log'[f]) \in Nat
  BY TailTypes, NextLogTypes
<1>1. /\ LogGrows /\ Len(log') = n /\ n \in 1..n /\ Current = n
      /\ Len(log'[n]) = Len(log[n]) + 1
      /\ log'[n][Len(log'[n])] = Line(s, e)
  BY WritesGrow DEF IndInv, TypeOK
<1> HIDE DEF n
<1>2. ASSUME NEW r \in Sessions, cowrie'[r] # "new"
      PROVE  \E f \in 1..Len(log') : \E i \in 1..Len(log'[f]) : log'[f][i] = Line(r, "connect")
  <2>1. CASE r = s /\ e = "connect"
    <3>1. Len(log'[n]) \in 1..Len(log'[n]) /\ log'[n][Len(log'[n])] = Line(r, "connect")
      BY <1>t, <1>1, <2>1
    <3> QED BY <1>1, <3>1
  <2>2. CASE cowrie[r] # "new"
    <3>1. \E f \in 1..Len(log) : \E i \in 1..Len(log[f]) : log[f][i] = Line(r, "connect")
      BY <2>2 DEF ConnectFirst
    <3> QED BY <1>1, <3>1, GrowingConnects
  <2> QED BY <1>2, <2>1, <2>2
<1>3. ASSUME NEW f \in 1..Len(log'), NEW i \in 1..Len(log'[f]), log'[f][i].event # "connect"
      PROVE  \E g \in 1..Len(log') : \E j \in 1..Len(log'[g]) :
               /\ g < f \/ (g = f /\ j < i)
               /\ log'[g][j] = Line(log'[f][i].session, "connect")
  <2>1. CASE f \in 1..Len(log) /\ i \in 1..Len(log[f])
    BY <1>1, <1>3, <2>1, GrowingOrder
  <2>2. CASE ~(f \in 1..Len(log) /\ i \in 1..Len(log[f]))
    <3>1. f = n /\ i = Len(log[n]) + 1
      <4>1. f \in 1..n
        BY <1>1
      <4>2. CASE f = n
        BY <1>t, <1>1, <2>2, <4>1, <4>2 DEF n
      <4>3. CASE f # n
        <5>1. log'[f] = log[f]
          BY <1>1, <4>1, <4>3 DEF LogGrows, n
        <5> QED BY <2>2, <4>1, <5>1 DEF n
      <4> QED BY <4>2, <4>3
    <3>2. log'[f][i] = Line(s, e) /\ e # "connect"
      BY <1>1, <1>3, <3>1 DEF Line
    <3>3. PICK g \in 1..Len(log) : \E j \in 1..Len(log[g]) : log[g][j] = Line(s, "connect")
      BY <3>2 DEF ConnectFirst
    <3>4. PICK j \in 1..Len(log[g]) : log[g][j] = Line(s, "connect")
      BY <3>3
    <3>5. g \in 1..n /\ log'[g][j] = log[g][j] /\ Len(log[g]) <= Len(log'[g])
      BY <1>1 DEF LogGrows, n
    <3>6. j \in 1..Len(log'[g]) /\ (g < f \/ (g = f /\ j < i))
      BY <1>t, <1>1, <3>1, <3>5
    <3>7. log'[f][i].session = s
      BY <3>2 DEF Line
    <3> QED BY <1>1, <3>4, <3>5, <3>6, <3>7
  <2> QED BY <2>1, <2>2
<1> QED BY <1>2, <1>3 DEF ConnectFirst

LEMMA CowrieSessions ==
  ASSUME Calm, IndInv, IndInv', TailInv, SessionInv, Cowrie
  PROVE  SessionInv'
<1>u. UNCHANGED <<saved, lines, open, outbox, assembled, orphaned, pc, fed>>
  BY DEF Cowrie, tailVars, assemblerVars, spoolVars, processVars, historyVars
<1>1. FedInv' /\ OpenInv'
  BY <1>u DEF SessionInv, FedInv, OpenInv, Emitted
<1>c. cowrie \in [Sessions -> {"new", "open", "busy", "closed"}] /\ LogTypeOK
  BY DEF IndInv, TypeOK, LogTypeOK
<1>2. ASSUME ConnectFirst', \A s, e : Passed(s, e)' => Passed(s, e)
      PROVE  SessionInv'
  <2>1. KeptInv' /\ OffsetBehindSpool'
    BY <1>u, <1>2 DEF SessionInv, KeptInv, OffsetBehindSpool
  <2> QED BY <1>1, <1>2, <2>1 DEF SessionInv
<1>3. ASSUME NEW s \in Sessions, Connects(s) \/ Acts(s) \/ Closes(s)
      PROVE  SessionInv'
  <2>1. PICK e \in Events : Writes(s, e) /\ (e = "connect" \/ cowrie[s] # "new")
    BY <1>3 DEF Connects, Acts, Closes, Events
  <2>2. \A r \in Sessions : cowrie'[r] # "new" => r = s \/ cowrie[r] # "new"
    BY <1>3, <1>c DEF Connects, Acts, Closes
  <2>3. ConnectFirst'
    BY <2>1, <2>2, WritesConnectFirst DEF SessionInv
  <2>4. LogGrows /\ Len(log') = Len(log)
    BY <1>c, <2>1, WritesGrow
  <2> QED BY <1>u, <1>2, <2>3, <2>4, GrowingPassed
<1>4. CASE CreateLog
  <2>1. /\ LogGrows /\ Len(log') = Len(log) + 1 /\ Len(log'[Len(log')]) = 0
        /\ cowrie' = cowrie
    BY <1>c, <1>4, CreateGrows DEF CreateLog
  <2>2. \A r \in Sessions : cowrie'[r] # "new" =>
          \E f \in 1..Len(log') : \E i \in 1..Len(log'[f]) : log'[f][i] = Line(r, "connect")
    BY <2>1, GrowingConnects DEF SessionInv, ConnectFirst
  <2>3. ASSUME NEW f \in 1..Len(log'), NEW i \in 1..Len(log'[f]), log'[f][i].event # "connect"
        PROVE  \E g \in 1..Len(log') : \E j \in 1..Len(log'[g]) :
                 /\ g < f \/ (g = f /\ j < i)
                 /\ log'[g][j] = Line(log'[f][i].session, "connect")
    <3>1. f \in 1..Len(log)
      <4>1. f # Len(log')
        BY <2>1
      <4>2. Len(log) \in Nat BY TailTypes
      <4> QED BY <2>1, <4>1, <4>2
    <3>2. log'[f] = log[f]
      BY <1>4, <3>1, <2>1 DEF LogGrows, Current, CreateLog
    <3> QED BY <2>1, <2>3, <3>1, <3>2, GrowingOrder DEF SessionInv
  <2>4. ConnectFirst'
    BY <2>2, <2>3 DEF ConnectFirst
  <2> QED BY <1>u, <1>2, <2>1, <2>4, GrowingPassed
<1>5. CASE Rotate
  <2>1. log' = log /\ cowrie' = cowrie
    BY <1>5 DEF Rotate, RenameLog
  <2> QED BY <1>u, <1>2, <2>1 DEF SessionInv, ConnectFirst, Passed
<1>6. ~Truncate
  BY DEF Calm, Truncate
<1> QED BY <1>3, <1>4, <1>5, <1>6 DEF Cowrie

(***************************************************************************)
(* Every step keeps the sessions' invariant.                               *)
(***************************************************************************)
LEMMA NextSessions ==
  ASSUME Calm, IndInv, IndInv', TailInv, SessionInv, [Next]_vars
  PROVE  SessionInv'
<1>t. /\ lines \in Seq(Lines) /\ fed \in 0..Len(lines)
      /\ open \in [Sessions -> {"none", "whole", "headless"}]
      /\ outbox \in SUBSET Sessions
      /\ pc = "stopping" => \A s \in Sessions : open[s] = "none"
  BY TailTypes DEF IndInv, TypeOK, AssemblerTypeOK, SessionInv, OpenInv
<1>1. CASE Start \/ DrainEnds \/ Polls \/ RequestStop \/ UNCHANGED vars
  BY <1>t, <1>1, SessionFrame DEF Start, DrainEnds, Polls, RequestStop, At, vars,
     logVars, tailVars, assemblerVars, spoolVars, processVars, historyVars, Emitted
<1>2. CASE Reads
  BY <1>t, <1>2, SessionFrame DEF Reads, At, DrainRotated, DrainCurrent, NoFile, OpenPath,
     SeekSaved, logVars, assemblerVars, spoolVars, historyVars, Emitted
<1>3. CASE Posts \/ Removes \/ DeadLetters
  BY <1>t, <1>3, SessionFrame DEF Posts, Removes, DeadLetters, RemoveFile, DeadLetter, At,
     logVars, tailVars, assemblerVars, spoolVars, historyVars, Emitted
<1>4. CASE Puts
  BY <1>t, <1>4, SessionFrame DEF Puts, EvictOldest, PutFile,
     logVars, tailVars, processVars, historyVars, Emitted
<1>5. ASSUME NEW S \in SUBSET Sessions, Flush(S),
             UNCHANGED <<logVars, tailVars, spoolVars, fed, historyVars>>,
             \/ pc = "feed" /\ pc' = "flush"
             \/ pc' = "stopping" /\ S = OpenSessions
      PROVE  SessionInv'
  <2>1. /\ outbox' = outbox \cup {s \in S : open[s] = "whole"}
        /\ \A s \in Sessions : open'[s] = IF s \in S THEN "none" ELSE open[s]
        /\ UNCHANGED <<log, cowrie, saved, lines, assembled, orphaned, fed>>
    BY <1>5 DEF Flush, logVars, tailVars, spoolVars, historyVars
  <2>2. pc' = "stopping" => \A s \in Sessions : open'[s] = "none"
    BY <1>5, <2>1 DEF OpenSessions
  <2> QED BY <1>t, <1>5, <2>1, <2>2, SessionFrame DEF Emitted
<1>6. CASE FlushesIdle
  <2>1. PICK S \in SUBSET Sessions : Flush(S)
    BY <1>6 DEF FlushesIdle, OpenSessions
  <2> QED BY <1>5, <1>6, <2>1 DEF FlushesIdle, At
<1>7. CASE Stops
  <2>1. OpenSessions \in SUBSET Sessions
    BY DEF OpenSessions
  <2> QED BY <1>5, <1>7, <2>1 DEF Stops, At
<1> QED
  BY <1>1, <1>2, <1>3, <1>4, <1>6, <1>7, FeedsSessions, CommitsSessions, DiesSessions,
     CowrieSessions DEF Next, Step

LEMMA InitSessions == Init => SessionInv
<1> SUFFICES ASSUME Init PROVE SessionInv
  OBVIOUS
<1>1. /\ log = <<>> /\ Len(log) = 0 /\ pc = "down"
      /\ cowrie = [s \in Sessions |-> "new"] /\ open = [s \in Sessions |-> "none"]
  BY DEF Init, LogInit, AssemblerInit
<1> QED BY <1>1 DEF SessionInv, ConnectFirst, FedInv, OpenInv, KeptInv,
        OffsetBehindSpool, Passed

LEMMA AlwaysTail == ASSUME Calm PROVE Spec => [](TailInv /\ SessionInv)
<1>1. Init => TailInv /\ SessionInv
  BY InitTail, InitSessions
<1>2. IndInv /\ IndInv' /\ TailInv /\ SessionInv /\ [Next]_vars => TailInv' /\ SessionInv'
  BY NextTail, NextSessions
<1> QED BY <1>1, <1>2, AlwaysInv, PTL DEF Spec

(***************************************************************************)
(* commit_offset never runs ahead of the spool: a session whose closing    *)
(* line is behind the position in tail.json was spooled, or was in memory  *)
(* when the process was killed or left its loop without a flush.           *)
(***************************************************************************)
THEOREM OffsetSafe == ASSUME Calm PROVE Spec => []OffsetBehindSpool
<1>1. SessionInv => OffsetBehindSpool
  BY DEF SessionInv
<1> QED BY <1>1, AlwaysTail, PTL

LEMMA AlwaysLoss == Spec => []LossInv
<1>1. Init => LossInv
  BY DEF Init, LossInv
<1>2. IndInv /\ LossInv /\ [Next]_vars => LossInv'
  <2> SUFFICES ASSUME IndInv, LossInv, [Next]_vars PROVE LossInv'
    OBVIOUS
  <2>1. CASE BreaksOff
    BY <2>1 DEF BreaksOff, LossInv
  <2>2. CASE Kill
    BY <2>2, LimitsAssumption DEF Kill, IndInv, TypeOK, LossInv
  <2>3. CASE UNCHANGED <<orphaned, kills>>
    BY <2>3 DEF LossInv
  <2> QED
    BY <2>1, <2>2, <2>3 DEF Next, Step, Start, Reads, FeedsLine, FlushesIdle, Puts, Commits,
       Posts, Removes, DeadLetters, DrainEnds, Polls, Stops, Exits, RequestStop, Cowrie,
       historyVars, vars
<1> QED BY <1>1, <1>2, AlwaysInv, PTL DEF Spec

(***************************************************************************)
(* A stop by a signal, a restart or a rotation loses no session the        *)
(* position has passed: it is open in memory, on its way to the spool, or  *)
(* spooled.  Only a kill, or the exit of --once or max_iterations, which   *)
(* does not reach flush_all, can orphan it.                                *)
(***************************************************************************)
THEOREM StopSafe == ASSUME Calm PROVE Spec => []StopKeepsSessions
<1>1. SessionInv /\ LossInv => StopKeepsSessions
  BY DEF SessionInv, KeptInv, LossInv, StopKeepsSessions
<1> QED BY <1>1, AlwaysTail, AlwaysLoss, PTL
=============================================================================
