--------------------------- MODULE ShipperProofs ---------------------------
(***************************************************************************)
(* Theorems about the log shipper, for every number of sessions, batch and *)
(* spool size, generations of the log, kills and faults.                   *)
(***************************************************************************)
EXTENDS Shipper, TLAPS

(***************************************************************************)
(* What the drain knows of the file it is about to take off the disk.      *)
(***************************************************************************)
AnsweredHead ==
  /\ pc = "remove" => spool # <<>> /\ Head(spool) \in accepted
  /\ pc = "dead" => spool # <<>>

IndInv == TypeOK /\ AnsweredHead

(***************************************************************************)
(* The payloads on disk before and after the two moves of a FIFO.          *)
(***************************************************************************)
LEMMA SpooledAppend ==
  ASSUME NEW s, SpoolTypeOK, spool' = Append(spool, s)
  PROVE  Spooled' = Spooled \cup {s}
BY DEF Spooled, SpoolTypeOK

LEMMA SpooledTail ==
  ASSUME SpoolTypeOK, spool # <<>>, spool' = Tail(spool)
  PROVE  /\ Head(spool) \in Spooled
         /\ Spooled' = Spooled \/ Spooled' = Spooled \ {Head(spool)}
<1>1. /\ Len(spool) \in Nat /\ Len(spool) > 0
      /\ Len(spool') = Len(spool) - 1
      /\ \A i \in 1..Len(spool') : spool'[i] = spool[i + 1]
      /\ Head(spool) = spool[1]
  BY DEF SpoolTypeOK
<1>2. Head(spool) \in Spooled
  BY <1>1 DEF Spooled
<1>3. Spooled' \subseteq Spooled
  BY <1>1 DEF Spooled
<1>4. \A x \in Spooled : x # Head(spool) => x \in Spooled'
  <2> SUFFICES ASSUME NEW i \in 1..Len(spool), spool[i] # spool[1]
               PROVE  \E j \in 1..Len(spool') : spool'[j] = spool[i]
    BY <1>1 DEF Spooled
  <2>1. i - 1 \in 1..Len(spool') /\ spool'[i - 1] = spool[i]
    BY <1>1
  <2> QED BY <2>1
<1> QED BY <1>2, <1>3, <1>4

(***************************************************************************)
(* The initial state satisfies the invariant.                              *)
(***************************************************************************)
LEMMA InitInv == Init => IndInv
<1> SUFFICES ASSUME Init PROVE IndInv
  OBVIOUS
<1> USE LimitsAssumption, SizesAssumption DEF Init
<1>1. LogTypeOK
  <2>1. cowrie \in [Sessions -> {"new", "open", "busy", "closed"}] /\ present = FALSE
    BY DEF LogInit
  <2>2. log \in Seq(Seq(Lines))
    BY DEF LogInit
  <2> QED BY <2>1, <2>2, Zenon DEF LogTypeOK
<1>2. TailTypeOK
  BY DEF LogInit, TailInit, TailMemoryInit, TailTypeOK, Positions, NoPosition
<1>3. AssemblerTypeOK /\ SpoolTypeOK
  BY DEF AssemblerInit, SpoolInit, AssemblerTypeOK, SpoolTypeOK
<1>4. fed \in 0..Len(lines) /\ pc \in Places /\ kills \in 0..MaxKills
  BY DEF TailInit, TailMemoryInit, Places
<1> QED
  BY <1>1, <1>2, <1>3, <1>4 DEF IndInv, TypeOK, AnsweredHead

(***************************************************************************)
(* Reading: a batch holds lines of the log, positions are natural numbers. *)
(***************************************************************************)
LEMMA DrainType ==
  ASSUME LogTypeOK, TailTypeOK, handle # 0, DrainOpenFile
  PROVE  lines' \in Seq(Lines) /\ pos' \in Nat /\ pending' \in Positions
<1> USE SizesAssumption
<1>1. log[handle] \in Seq(Lines)
  BY DEF LogTypeOK, TailTypeOK
<1>2. Unread \in Seq(Lines)
  <2>1. CASE pos < Len(log[handle])
    BY <1>1, <2>1 DEF Unread, TailTypeOK
  <2>2. CASE ~(pos < Len(log[handle]))
    BY <2>2 DEF Unread
  <2> QED BY <2>1, <2>2
<1>3. lines' \in Seq(Lines)
  <2>1. CASE AtEof
    BY <1>2, <2>1 DEF DrainOpenFile
  <2>2. CASE ~AtEof
    <3>1. MaxBatch <= Len(Unread)
      BY <1>2, <2>2 DEF AtEof
    <3> QED BY <1>2, <2>2, <3>1 DEF DrainOpenFile
  <2> QED BY <2>1, <2>2
<1>4. pos' \in Nat
  BY <1>3 DEF DrainOpenFile, TailTypeOK
<1>5. pending' \in Positions
  BY <1>3 DEF DrainOpenFile, TailTypeOK, Positions
<1> QED BY <1>3, <1>4, <1>5

LEMMA ReadsInv == ASSUME IndInv, Reads PROVE IndInv'
<1> USE DEF IndInv, AnsweredHead, At
<1>1. UNCHANGED <<logVars, assemblerVars, spoolVars, historyVars>> /\ fed' = 0
  BY DEF Reads
<1>2. pc' \in {"feed", "stat", "read"} /\ stop' = stop
  BY DEF Reads
<1>3. TailTypeOK'
  <2> USE DEF TypeOK, TailTypeOK, LogTypeOK
  <2>1. CASE DrainRotated
    BY <1>1, <2>1, DrainType DEF DrainRotated, logVars
  <2>2. CASE DrainCurrent
    BY <1>1, <2>2, DrainType DEF DrainCurrent, logVars
  <2>3. CASE NoFile
    BY <1>1, <2>3 DEF NoFile, logVars
  <2>4. CASE OpenPath
    BY <1>1, <2>4 DEF OpenPath, Current, logVars
  <2>5. CASE SeekSaved
    BY <1>1, <2>5 DEF SeekSaved, Current, Positions, logVars
  <2> QED BY <2>1, <2>2, <2>3, <2>4, <2>5 DEF Reads
<1>4. LogTypeOK' /\ AssemblerTypeOK' /\ SpoolTypeOK'
  BY <1>1 DEF TypeOK, LogTypeOK, AssemblerTypeOK, SpoolTypeOK, logVars,
              assemblerVars, spoolVars
<1>5. TypeOK'
  BY <1>1, <1>2, <1>3, <1>4 DEF TypeOK, TailTypeOK, Places, historyVars
<1> QED BY <1>2, <1>5

(***************************************************************************)
(* The assembler keeps track of known sessions only.                       *)
(***************************************************************************)
LEMMA FlushType ==
  ASSUME AssemblerTypeOK, NEW S \in SUBSET Sessions, Flush(S)
  PROVE  AssemblerTypeOK'
BY DEF AssemblerTypeOK, Flush

LEMMA FeedType ==
  ASSUME AssemblerTypeOK, NEW line \in Lines, Feed(line)
  PROVE  AssemblerTypeOK'
<1>1. line.session \in Sessions
  BY DEF Lines
<1>2. CASE line.event = "junk"
  BY <1>2 DEF Feed, AssemblerTypeOK, assemblerVars
<1>3. CASE line.event = "closed"
  BY <1>1, <1>3, FlushType DEF Feed
<1>4. CASE line.event \in {"connect", "command"}
  BY <1>1, <1>4 DEF Feed, AssemblerTypeOK
<1> QED BY <1>2, <1>3, <1>4 DEF Feed

(***************************************************************************)
(* A process that ends leaves the disk as it is and its memory blank.      *)
(***************************************************************************)
LEMMA DiesInv ==
  ASSUME IndInv, Dies, orphaned' \subseteq Sessions, kills' \in 0..MaxKills
  PROVE  IndInv'
<1> USE DEF IndInv, TypeOK, AnsweredHead, Places, Dies
<1>1. LogTypeOK' /\ SpoolTypeOK'
  BY DEF logVars, spoolVars, LogTypeOK, SpoolTypeOK
<1>2. TailTypeOK' /\ Len(lines') = 0
  BY DEF ForgetTail, TailTypeOK, LogTypeOK, NoPosition, Positions, logVars
<1>3. AssemblerTypeOK'
  BY DEF ForgetSessions, AssemblerTypeOK
<1>4. fed' \in 0..Len(lines') /\ pc' = "down" /\ accepted' = accepted
  BY <1>2
<1>5. stop' \in BOOLEAN
  BY Zenon
<1> QED BY <1>1, <1>2, <1>3, <1>4, <1>5

(***************************************************************************)
(* Every step of the process keeps the invariant.                          *)
(***************************************************************************)
LEMMA StepInv == ASSUME IndInv, Step PROVE IndInv'
<1> USE DEF IndInv, TypeOK, AnsweredHead, Places
<1>1. CASE Start
  BY <1>1 DEF Start, At, logVars, tailVars, assemblerVars, spoolVars, historyVars,
     LogTypeOK, TailTypeOK, AssemblerTypeOK, SpoolTypeOK
<1>2. CASE FeedsLine
  <2>1. lines[fed + 1] \in Lines
    BY <1>2 DEF FeedsLine, TailTypeOK
  <2>2. AssemblerTypeOK'
    BY <1>2, <2>1, FeedType DEF FeedsLine
  <2>3. fed' \in 0..Len(lines)
    BY <1>2 DEF FeedsLine, TailTypeOK
  <2> QED BY <1>2, <2>2, <2>3 DEF FeedsLine, At, logVars, tailVars, spoolVars,
             historyVars, LogTypeOK, TailTypeOK, SpoolTypeOK
<1>3. CASE FlushesIdle
  <2>1. AssemblerTypeOK'
    <3>1. PICK S \in SUBSET (OpenSessions \ {lines[i].session : i \in 1..Len(lines)}) : Flush(S)
      BY <1>3 DEF FlushesIdle
    <3>2. S \in SUBSET Sessions
      BY <3>1 DEF OpenSessions
    <3> QED BY <3>1, <3>2, FlushType
  <2> QED BY <1>3, <2>1 DEF FlushesIdle, At, logVars, tailVars, spoolVars,
             historyVars, LogTypeOK, TailTypeOK, SpoolTypeOK
<1>4. CASE Puts
  <2>1. SpoolTypeOK' /\ AssemblerTypeOK'
    <3>1. CASE EvictOldest /\ UNCHANGED outbox
      <4>1. spool # <<>>
        BY <3>1, SizesAssumption DEF EvictOldest, SpoolTypeOK
      <4>2. /\ Tail(spool) \in Seq(Sessions)
            /\ Len(Tail(spool)) = Len(spool) - 1
            /\ Head(spool) \in Sessions
        BY <4>1 DEF SpoolTypeOK
      <4> QED BY <1>4, <3>1, <4>2, SizesAssumption
              DEF Puts, EvictOldest, SpoolTypeOK, AssemblerTypeOK
    <3>2. CASE \E s \in outbox : PutFile(s) /\ outbox' = outbox \ {s}
      <4>1. PICK s \in outbox : PutFile(s) /\ outbox' = outbox \ {s}
        BY <3>2
      <4>2. s \in Sessions
        BY <4>1 DEF AssemblerTypeOK
      <4>3. Append(spool, s) \in Seq(Sessions) /\ Len(Append(spool, s)) = Len(spool) + 1
        BY <4>2 DEF SpoolTypeOK
      <4> QED BY <1>4, <4>1, <4>2, <4>3, SizesAssumption
              DEF Puts, PutFile, SpoolTypeOK, AssemblerTypeOK
    <3> QED BY <1>4, <3>1, <3>2 DEF Puts
  <2> QED BY <1>4, <2>1 DEF Puts, logVars, tailVars, processVars, historyVars,
             LogTypeOK, TailTypeOK
<1>5. CASE Commits
  <2>1. TailTypeOK'
    BY <1>5 DEF Commits, CommitOffset, TailTypeOK, NoPosition, Positions, logVars
  <2> QED BY <1>5, <2>1 DEF Commits, CommitOffset, At, logVars, assemblerVars,
             spoolVars, historyVars, LogTypeOK, AssemblerTypeOK, SpoolTypeOK
<1>6. CASE Posts
  <2>1. Head(spool) \in Sessions
    BY <1>6 DEF Posts, SpoolTypeOK
  <2> QED BY <1>6, <2>1 DEF Posts, logVars, tailVars, assemblerVars, spoolVars,
             LogTypeOK, TailTypeOK, AssemblerTypeOK, SpoolTypeOK
<1>7. CASE Removes \/ DeadLetters
  <2>1. spool # <<>> /\ spool' = Tail(spool)
    BY <1>7 DEF Removes, DeadLetters, At, RemoveFile, DeadLetter
  <2>2. /\ Tail(spool) \in Seq(Sessions)
        /\ Len(Tail(spool)) = Len(spool) - 1
        /\ Head(spool) \in Sessions
    BY <2>1 DEF SpoolTypeOK
  <2>3. SpoolTypeOK'
    BY <1>7, <2>1, <2>2, SizesAssumption
       DEF Removes, DeadLetters, RemoveFile, DeadLetter, SpoolTypeOK
  <2> QED BY <1>7, <2>3 DEF Removes, DeadLetters, At, logVars, tailVars,
             assemblerVars, historyVars, LogTypeOK, TailTypeOK, AssemblerTypeOK
<1>8. CASE DrainEnds \/ Polls
  <2>1. UNCHANGED <<logVars, tailVars, assemblerVars, spoolVars, fed, stop, historyVars>>
    BY <1>8 DEF DrainEnds, Polls, At
  <2>2. pc' \in {"poll", "tail"} BY <1>8 DEF DrainEnds, Polls, At
  <2> QED BY <2>1, <2>2 DEF logVars, tailVars, assemblerVars, spoolVars, historyVars,
             LogTypeOK, TailTypeOK, AssemblerTypeOK, SpoolTypeOK
<1>9. CASE Stops
  <2>1. AssemblerTypeOK'
    BY <1>9, FlushType DEF Stops, OpenSessions
  <2> QED BY <1>9, <2>1 DEF Stops, At, logVars, tailVars, spoolVars, historyVars,
             LogTypeOK, TailTypeOK, SpoolTypeOK
<1>10. CASE Exits
  BY <1>10, DiesInv DEF Exits
<1>11. CASE Reads
  BY <1>11, ReadsInv
<1> QED BY <1>1, <1>2, <1>3, <1>4, <1>5, <1>6, <1>7, <1>8, <1>9, <1>10, <1>11
        DEF Step

(***************************************************************************)
(* Cowrie appends lines to the newest generation and starts new ones.      *)
(***************************************************************************)
LEMMA WritesType ==
  ASSUME LogTypeOK, NEW s \in Sessions, NEW e \in Events, Writes(s, e)
  PROVE  log' \in Seq(Seq(Lines)) /\ Len(log') = Len(log)
<1>1. Len(log) \in 1..Len(log) /\ log[Len(log)] \in Seq(Lines)
  BY DEF LogTypeOK, Writes
<1>2. Append(log[Len(log)], Line(s, e)) \in Seq(Lines)
  BY <1>1 DEF Line, Lines
<1> QED BY <1>1, <1>2 DEF LogTypeOK, Writes

LEMMA CowrieLogType ==
  ASSUME LogTypeOK, Cowrie
  PROVE  LogTypeOK' /\ Len(log) <= Len(log')
<1>1. ASSUME NEW s \in Sessions, NEW e \in Events, Writes(s, e),
             cowrie' \in [Sessions -> {"new", "open", "busy", "closed"}]
      PROVE  LogTypeOK' /\ Len(log) <= Len(log')
  <2>1. log' \in Seq(Seq(Lines)) /\ Len(log') = Len(log) /\ Len(log) \in Nat
    BY <1>1, WritesType DEF LogTypeOK
  <2>2. log # <<>> /\ present' = present
    BY <1>1 DEF Writes, LogTypeOK
  <2>3. log' # <<>>
    BY <2>1, <2>2 DEF LogTypeOK
  <2>4. LogTypeOK'
    BY <1>1, <2>1, <2>2, <2>3, Zenon DEF LogTypeOK
  <2> QED BY <2>1, <2>4
<1>2. ASSUME NEW s \in Sessions, Connects(s) \/ Acts(s) \/ Closes(s)
      PROVE  LogTypeOK' /\ Len(log) <= Len(log')
  <2>1. cowrie' \in [Sessions -> {"new", "open", "busy", "closed"}]
    BY <1>2 DEF Connects, Acts, Closes, LogTypeOK
  <2>2. \E e \in Events : Writes(s, e)
    BY <1>2 DEF Connects, Acts, Closes, Events
  <2> QED BY <1>1, <2>1, <2>2
<1>3. CASE CreateLog
  <2>1. log' = Append(log, <<>>) /\ log' \in Seq(Seq(Lines)) /\ Len(log') = Len(log) + 1
    BY <1>3 DEF CreateLog, LogTypeOK
  <2>2. Len(log) <= Len(log') /\ log' # <<>>
    BY <2>1 DEF LogTypeOK
  <2> QED BY <1>3, <2>1, <2>2, Zenon DEF CreateLog, LogTypeOK
<1>4. CASE RenameLog
  <2>1. Len(log) \in Nat
    BY DEF LogTypeOK
  <2>2. Len(log) <= Len(log')
    BY <1>4, <2>1 DEF RenameLog
  <2> QED BY <1>4, <2>2, Zenon DEF RenameLog, LogTypeOK
<1>5. CASE TruncateLog
  <2>1. Len(log) \in 1..Len(log)
    BY <1>5 DEF TruncateLog, LogTypeOK
  <2>2. log' \in Seq(Seq(Lines)) /\ Len(log') = Len(log)
    BY <1>5, <2>1 DEF TruncateLog, LogTypeOK
  <2>3. log' # <<>> /\ Len(log) <= Len(log')
    BY <2>1, <2>2
  <2> QED BY <1>5, <2>2, <2>3, Zenon DEF TruncateLog, LogTypeOK
<1> QED BY <1>2, <1>3, <1>4, <1>5 DEF Cowrie, Rotate, Truncate

(***************************************************************************)
(* Every step of the shipper and of its environment keeps the invariant.   *)
(***************************************************************************)
LEMMA NextInv == IndInv /\ [Next]_vars => IndInv'
<1> SUFFICES ASSUME IndInv, [Next]_vars PROVE IndInv'
  OBVIOUS
<1>1. CASE Step
  BY <1>1, StepInv
<1>2. CASE RequestStop
  <2>1. stop' \in BOOLEAN
    BY <1>2, Zenon DEF RequestStop
  <2> QED BY <1>2, <2>1 DEF RequestStop, IndInv, TypeOK, AnsweredHead, logVars,
             tailVars, assemblerVars, spoolVars, historyVars, LogTypeOK,
             TailTypeOK, AssemblerTypeOK, SpoolTypeOK
<1>3. CASE BreaksOff \/ Kill
  BY <1>3, DiesInv, LimitsAssumption DEF BreaksOff, Kill, Abandons, IndInv, TypeOK
<1>4. CASE Cowrie
  <2>1. LogTypeOK' /\ Len(log) <= Len(log')
    BY <1>4, CowrieLogType DEF IndInv, TypeOK
  <2>2. Len(log) \in Nat /\ Len(log') \in Nat
    BY <2>1 DEF IndInv, TypeOK, LogTypeOK
  <2>3. TailTypeOK'
    BY <1>4, <2>1, <2>2 DEF Cowrie, IndInv, TypeOK, TailTypeOK, tailVars
  <2> QED BY <1>4, <2>1, <2>3 DEF Cowrie, IndInv, TypeOK, AnsweredHead, tailVars,
             assemblerVars, spoolVars, processVars, historyVars,
             AssemblerTypeOK, SpoolTypeOK
<1>5. CASE UNCHANGED vars
  BY <1>5 DEF vars, IndInv, TypeOK, AnsweredHead, logVars, tailVars, assemblerVars,
     spoolVars, processVars, historyVars, LogTypeOK, TailTypeOK,
     AssemblerTypeOK, SpoolTypeOK
<1> QED BY <1>1, <1>2, <1>3, <1>4, <1>5 DEF Next

LEMMA AlwaysInv == Spec => []IndInv
BY InitInv, NextInv, PTL DEF Spec

(***************************************************************************)
(* Every variable keeps its type; above all, the spool never holds more    *)
(* than SpoolMax files and positions stay inside the log (Spool.put,       *)
(* LogTailer.read_new_lines).                                              *)
(***************************************************************************)
THEOREM ShipperTypeCorrect == Spec => []TypeOK
<1>1. IndInv => TypeOK
  BY DEF IndInv
<1> QED BY <1>1, AlwaysInv, PTL

(***************************************************************************)
(* Each step either leaves disk and answers alone, or is a step of Custody.*)
(***************************************************************************)
LEMMA CustodyStep ==
  ASSUME IndInv, [Next]_vars
  PROVE  [SpoolCustody!Next]_<<Spooled, Shipped>>
<1> USE DEF IndInv, TypeOK, Shipped
<1>1. CASE UNCHANGED <<spool, accepted, dead, evicted>>
  BY <1>1 DEF Spooled
<1>2. CASE Puts
  <2>1. CASE EvictOldest
    <3>1. spool # <<>> /\ spool' = Tail(spool)
      BY <2>1, SizesAssumption DEF EvictOldest, SpoolTypeOK
    <3>2. /\ Head(spool) \in Spooled /\ Head(spool) \in Sessions
          /\ Spooled' = Spooled \/ Spooled' = Spooled \ {Head(spool)}
      BY <3>1, SpooledTail DEF SpoolTypeOK
    <3>3. Shipped' = Shipped \cup {Head(spool)}
      BY <1>2, <2>1 DEF Puts, EvictOldest, historyVars
    <3>4. SpoolCustody!GiveUp(Head(spool)) \/ SpoolCustody!Settle(Head(spool))
      BY <3>2, <3>3 DEF SpoolCustody!GiveUp, SpoolCustody!Settle
    <3> QED BY <3>2, <3>4 DEF SpoolCustody!Next
  <2>2. CASE \E s \in outbox : PutFile(s)
    <3>1. PICK s \in outbox : PutFile(s)
      BY <2>2
    <3>2. s \in Sessions /\ Spooled' = Spooled \cup {s}
      BY <3>1, SpooledAppend DEF PutFile, AssemblerTypeOK
    <3>3. UNCHANGED <<accepted, dead, evicted>>
      BY <1>2, <3>1 DEF Puts, PutFile, historyVars
    <3>4. SpoolCustody!Take(s)
      BY <3>2, <3>3 DEF SpoolCustody!Take
    <3> QED BY <3>2, <3>4 DEF SpoolCustody!Next
  <2> QED BY <1>2, <2>1, <2>2 DEF Puts
<1>3. CASE Posts
  <2>1. Head(spool) \in Sessions /\ Head(spool) \in Spooled
    <3>1. Len(spool) \in Nat /\ Len(spool) > 0 /\ Head(spool) = spool[1] /\ spool[1] \in Sessions
      BY <1>3 DEF Posts, SpoolTypeOK
    <3> QED BY <3>1 DEF Spooled
  <2>2. Spooled' = Spooled /\ UNCHANGED <<dead, evicted>>
    BY <1>3 DEF Posts, spoolVars, Spooled
  <2>3. accepted' = accepted \/ accepted' = accepted \cup {Head(spool)}
    BY <1>3 DEF Posts
  <2>4. Shipped' = Shipped \/ SpoolCustody!Settle(Head(spool))
    BY <2>1, <2>2, <2>3 DEF SpoolCustody!Settle
  <2> QED BY <2>1, <2>2, <2>4 DEF SpoolCustody!Next
<1>4. CASE Removes
  <2>1. spool # <<>> /\ Head(spool) \in accepted /\ spool' = Tail(spool)
    BY <1>4 DEF Removes, RemoveFile, At, AnsweredHead
  <2>2. /\ Head(spool) \in Spooled /\ Head(spool) \in Sessions
        /\ Spooled' = Spooled \/ Spooled' = Spooled \ {Head(spool)}
    BY <2>1, SpooledTail DEF SpoolTypeOK
  <2>3. Shipped' = Shipped /\ Head(spool) \in Shipped
    BY <1>4, <2>1 DEF Removes, RemoveFile, historyVars
  <2>4. Spooled' = Spooled \/ SpoolCustody!Release(Head(spool))
    BY <2>2, <2>3 DEF SpoolCustody!Release
  <2> QED BY <2>2, <2>3, <2>4 DEF SpoolCustody!Next
<1>5. CASE DeadLetters
  <2>1. spool # <<>> /\ spool' = Tail(spool)
    BY <1>5 DEF DeadLetters, DeadLetter, At, AnsweredHead
  <2>2. /\ Head(spool) \in Spooled /\ Head(spool) \in Sessions
        /\ Spooled' = Spooled \/ Spooled' = Spooled \ {Head(spool)}
    BY <2>1, SpooledTail DEF SpoolTypeOK
  <2>3. Shipped' = Shipped \cup {Head(spool)}
    BY <1>5 DEF DeadLetters, DeadLetter, historyVars
  <2>4. SpoolCustody!GiveUp(Head(spool)) \/ SpoolCustody!Settle(Head(spool))
    BY <2>2, <2>3 DEF SpoolCustody!GiveUp, SpoolCustody!Settle
  <2> QED BY <2>2, <2>4 DEF SpoolCustody!Next
<1>6. CASE Step /\ ~Puts /\ ~Posts /\ ~Removes /\ ~DeadLetters
  BY <1>1, <1>6 DEF Step, Start, Reads, FeedsLine, FlushesIdle, Commits, DrainEnds,
     Polls, Stops, Exits, Dies, spoolVars, historyVars
<1>7. CASE RequestStop \/ BreaksOff \/ Kill \/ Cowrie \/ UNCHANGED vars
  BY <1>1, <1>7 DEF RequestStop, BreaksOff, Kill, Abandons, Dies, Cowrie, vars, spoolVars,
     historyVars
<1> QED BY <1>2, <1>3, <1>4, <1>5, <1>6, <1>7 DEF Next

(***************************************************************************)
(* The shipper implements Custody: whatever is killed, lost or repeated, a *)
(* payload leaves the disk only after the ingest route stored it, refused  *)
(* it for good, or the size backstop dropped it (drain, Spool).            *)
(***************************************************************************)
THEOREM ImplementsCustody == Spec => CustodySpec
<1>1. Init => SpoolCustody!Init
  <2> SUFFICES ASSUME Init PROVE SpoolCustody!Init
    OBVIOUS
  <2>1. Len(spool) = 0
    BY DEF Init, SpoolInit
  <2>2. Spooled = {}
    BY <2>1 DEF Spooled
  <2>3. Shipped = {}
    BY DEF Init, SpoolInit, Shipped
  <2> QED BY <2>2, <2>3 DEF SpoolCustody!Init
<1>2. IndInv /\ [Next]_vars => [SpoolCustody!Next]_<<Spooled, Shipped>>
  BY CustodyStep
<1> QED BY <1>1, <1>2, AlwaysInv, PTL DEF Spec, CustodySpec, SpoolCustody!Spec
=============================================================================
