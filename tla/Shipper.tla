------------------------------ MODULE Shipper ------------------------------
(***************************************************************************)
(* The honeypot log shipper (honeypot/shipper/sentinelbrief_shipper,       *)
(* main.py and post.py): one process that polls the log, feeds the         *)
(* assembler, writes payloads to the spool, commits its position and       *)
(* drains the spool to the ingest route.  systemd restarts it.             *)
(***************************************************************************)
EXTENDS LogTailer, SessionAssembler, Spool

VARIABLES
  pc,         \* where the process is in its loop
  fed,        \* lines of the batch the assembler has been fed
  stop,       \* stop_requested
  accepted,   \* sessions the ingest route has stored
  orphaned,   \* sessions that were in memory only, past the saved position,
              \* when the process ended without flushing them
  kills

processVars == <<pc, fed, stop>>
historyVars == <<accepted, orphaned, kills>>
vars == <<logVars, tailVars, assemblerVars, spoolVars, processVars, historyVars>>

Places == {"down", "tail", "stat", "read", "feed", "flush", "drain",
           "remove", "dead", "poll", "stopping"}

TypeOK ==
  /\ LogTypeOK /\ TailTypeOK /\ AssemblerTypeOK /\ SpoolTypeOK
  /\ pc \in Places
  /\ fed \in 0..Len(lines)
  /\ stop \in BOOLEAN
  /\ accepted \in SUBSET Sessions
  /\ orphaned \in SUBSET Sessions
  /\ kills \in 0..MaxKills

Init ==
  /\ LogInit /\ TailInit /\ AssemblerInit /\ SpoolInit
  /\ pc = "down"
  /\ fed = 0
  /\ stop = FALSE
  /\ accepted = {}
  /\ orphaned = {}
  /\ kills = 0

At(here, there) ==
  /\ pc = here
  /\ pc' = there
  /\ UNCHANGED stop

-----------------------------------------------------------------------------
\* main: fresh collaborators, then the loop.
Start ==
  /\ At("down", "tail")
  /\ UNCHANGED <<logVars, tailVars, assemblerVars, spoolVars, fed, historyVars>>

\* run_once: read_new_lines(persist=False).
Reads ==
  /\ \/ At("tail", "feed") /\ (DrainRotated \/ DrainCurrent)
     \/ At("tail", "feed") /\ handle = 0 /\ NoFile
     \/ At("tail", "stat") /\ OpenPath
     \/ At("stat", "read") /\ SeekSaved
     \/ At("stat", "feed") /\ NoFile
     \/ At("read", "feed") /\ (DrainRotated \/ DrainCurrent)
  /\ fed' = 0
  /\ UNCHANGED <<logVars, assemblerVars, spoolVars, historyVars>>

\* _spool_new_payloads: the next line, once the last one's payload is out.
FeedsLine ==
  /\ At("feed", "feed")
  /\ outbox = {}
  /\ fed < Len(lines)
  /\ Feed(lines[fed + 1])
  /\ fed' = fed + 1
  /\ UNCHANGED <<logVars, tailVars, spoolVars, historyVars>>

\* flush_idle finds no session idle
FlushesNone ==
  /\ At("feed", "flush")
  /\ outbox = {}
  /\ fed = Len(lines)
  /\ UNCHANGED <<logVars, tailVars, assemblerVars, spoolVars, fed, historyVars>>

\* flush_idle, over sessions this batch has not touched.
FlushesIdle ==
  /\ At("feed", "flush")
  /\ outbox = {}
  /\ fed = Len(lines)
  /\ \E S \in SUBSET (OpenSessions \ {lines[i].session : i \in 1..Len(lines)}) :
       Flush(S)
  /\ UNCHANGED <<logVars, tailVars, spoolVars, fed, historyVars>>

\* spool.put, for a payload of feed, flush_idle or flush_all.
Puts ==
  /\ pc \in {"feed", "flush", "stopping"}
  /\ \/ outbox # {} /\ EvictOldest /\ UNCHANGED outbox
     \/ \E s \in outbox : PutFile(s) /\ outbox' = outbox \ {s}
  /\ UNCHANGED <<logVars, tailVars, open, processVars, historyVars>>

\* the position is committed before the payloads are in the spool
CommitsEarly ==
  /\ \/ At("feed", "feed") /\ pending # NoPosition
     \/ At("flush", "drain") /\ outbox = {}
  /\ CommitOffset
  /\ UNCHANGED <<logVars, assemblerVars, spoolVars, fed, historyVars>>

\* tailer.commit_offset(), after the spool has everything.
Commits ==
  /\ At("flush", "drain")
  /\ outbox = {}
  /\ CommitOffset
  /\ UNCHANGED <<logVars, assemblerVars, spoolVars, fed, historyVars>>

\* a session is answered by any response, stored or not
PostsBlindly ==
  /\ pc = "drain"
  /\ spool # <<>>
  /\ \/ accepted' = accepted \cup {Head(spool)} /\ pc' = "remove"
     \/ UNCHANGED accepted /\ pc' \in {"remove", "dead"}
  /\ UNCHANGED <<logVars, tailVars, assemblerVars, spoolVars, fed, stop, orphaned, kills>>

(***************************************************************************)
(* drain: the oldest payload is posted.  200 or 202; any other 4xx; or a   *)
(* retryable answer or none at all, in which case the route may have       *)
(* stored the session nevertheless, and the drain ends.                    *)
(***************************************************************************)
Posts ==
  /\ pc = "drain"
  /\ spool # <<>>
  /\ \/ accepted' = accepted \cup {Head(spool)} /\ pc' \in {"remove", "poll"}
     \/ UNCHANGED accepted /\ pc' \in {"dead", "poll"}
  /\ UNCHANGED <<logVars, tailVars, assemblerVars, spoolVars, fed, stop, orphaned, kills>>

Removes ==
  /\ At("remove", "drain")
  /\ RemoveFile
  /\ UNCHANGED <<logVars, tailVars, assemblerVars, fed, historyVars>>

DeadLetters ==
  /\ At("dead", "drain")
  /\ DeadLetter
  /\ UNCHANGED <<logVars, tailVars, assemblerVars, fed, historyVars>>

DrainEnds ==
  /\ At("drain", "poll")
  /\ spool = <<>>
  /\ UNCHANGED <<logVars, tailVars, assemblerVars, spoolVars, fed, historyVars>>

Polls ==
  /\ At("poll", "tail")
  /\ ~stop
  /\ UNCHANGED <<logVars, tailVars, assemblerVars, spoolVars, fed, historyVars>>

\* the process is stopped without flushing the open sessions
StopsAbruptly ==
  /\ At("poll", "stopping")
  /\ stop
  /\ UNCHANGED <<logVars, tailVars, assemblerVars, spoolVars, fed, historyVars>>

\* A stop is seen at the end of the iteration: flush_all.
Stops ==
  /\ At("poll", "stopping")
  /\ stop
  /\ Flush(OpenSessions)
  /\ UNCHANGED <<logVars, tailVars, spoolVars, fed, historyVars>>

Dies ==
  /\ pc' = "down"
  /\ fed' = 0
  /\ stop' = FALSE
  /\ ForgetTail
  /\ ForgetSessions
  /\ UNCHANGED <<logVars, saved, spoolVars, accepted>>

Exits ==
  /\ pc = "stopping"
  /\ outbox = {}
  /\ Dies
  /\ UNCHANGED <<orphaned, kills>>

Step ==
  \/ Start \/ Reads \/ FeedsLine \/ FlushesIdle \/ Puts \/ Commits \/ Posts
  \/ Removes \/ DeadLetters \/ DrainEnds \/ Polls \/ Stops \/ Exits

-----------------------------------------------------------------------------
\* SIGTERM or SIGINT.
RequestStop ==
  /\ "stop" \in Faults
  /\ pc # "down"
  /\ ~stop
  /\ "straddle" \in Faults \/ RotatedCommitted
  /\ stop' = TRUE
  /\ UNCHANGED <<logVars, tailVars, assemblerVars, spoolVars, pc, fed, historyVars>>

\* What is in memory only, and will not be read again, is gone.
Abandons ==
  /\ "straddle" \in Faults \/ RotatedCommitted
  /\ orphaned' = orphaned \cup
       {s \in Sessions : (open[s] = "whole" \/ s \in outbox) /\ Passed(s, "connect")}
  /\ Dies

(***************************************************************************)
(* main's other two breaks: --once after its iteration, or max_iterations  *)
(* used up.  They come before the look at stop_requested, and skip         *)
(* _spool_open_sessions.                                                   *)
(***************************************************************************)
BreaksOff ==
  /\ "once" \in Faults
  /\ pc = "poll"
  /\ Abandons
  /\ UNCHANGED kills

\* The process is killed: SIGKILL or out of memory.
Kill ==
  /\ pc # "down"
  /\ kills < MaxKills
  /\ kills' = kills + 1
  /\ Abandons

(***************************************************************************)
(* Cowrie rotates daily and the shipper polls every second: it holds the   *)
(* file that is rotated, unless it is down.                                *)
(***************************************************************************)
Rotate ==
  /\ \/ pc # "stat" /\ handle # 0 /\ handle = Current /\ ~stop
     \/ pc # "stat" /\ "straddle" \in Faults
     \/ pc = "stat" /\ "race" \in Faults
  /\ RenameLog

Truncate ==
  /\ "truncate" \in Faults
  /\ pc = "tail" /\ handle # 0 /\ handle = Current /\ pos = Len(log[handle])
  /\ TruncateLog

Cowrie ==
  /\ \/ \E s \in Sessions : Connects(s) \/ Acts(s) \/ Closes(s)
     \/ CreateLog
     \/ Rotate
     \/ Truncate
  /\ UNCHANGED <<tailVars, assemblerVars, spoolVars, processVars, historyVars>>

Next == Step \/ RequestStop \/ BreaksOff \/ Kill \/ Cowrie

Spec == Init /\ [][Next]_vars

(***************************************************************************)
(* Fairness: the process runs and is started again; Cowrie creates its     *)
(* log; a payload that is posted again and again is answered some time; a  *)
(* session without new events is idle for idle_flush_s some time.          *)
(***************************************************************************)
Fairness ==
  /\ WF_vars(Step)
  /\ SF_vars(Posts /\ pc' # "poll")
  /\ WF_vars(CreateLog /\ Cowrie)
  /\ \A s \in Sessions : SF_vars(FlushesIdle /\ open[s] # "none" /\ open'[s] = "none")

FairSpec == Spec /\ Fairness

-----------------------------------------------------------------------------
(***************************************************************************)
(* The saved position never runs ahead of the spool: a session whose       *)
(* closing line it has passed was written to the spool, or was still in    *)
(* memory when the process was killed or left its loop by --once or        *)
(* max_iterations, which flush nothing.                                    *)
(***************************************************************************)
OffsetBehindSpool ==
  \A s \in Sessions : Passed(s, "closed") => s \in assembled \cup orphaned

(***************************************************************************)
(* A stop by SIGTERM or SIGINT orphans no session: a session whose connect *)
(* event is behind the saved position is in memory or was written to the   *)
(* spool, across any number of stops, restarts and rotations.  Only a kill *)
(* and the exits of --once and max_iterations, which break out of the loop *)
(* before its flush_all, leave behind a session they had in memory.        *)
(***************************************************************************)
StopKeepsSessions ==
  \A s \in Sessions :
    Passed(s, "connect") =>
      \/ s \in assembled \cup outbox
      \/ open[s] = "whole"
      \/ s \in orphaned /\ (kills > 0 \/ "once" \in Faults)

Shipped == accepted \cup dead \cup evicted

(***************************************************************************)
(* From the spool on, delivery is at least once: a payload leaves the disk *)
(* only after the route stored it, refused it for good, or the size        *)
(* backstop dropped it; crashes between the answer and the unlink, lost    *)
(* answers and repeats included.                                           *)
(***************************************************************************)
SpoolCustody == INSTANCE Custody
  WITH held <- Spooled, settled <- Shipped

CustodySpec == SpoolCustody!Spec

(***************************************************************************)
(* A session that connects is delivered, refused or evicted, or was in     *)
(* memory at a kill or an exit that does not flush, whether or not Cowrie  *)
(* ever closes it, while the process is stopped over and over and the log  *)
(* is rotated.                                                             *)
(***************************************************************************)
SessionIsShipped ==
  \A s \in Sessions : cowrie[s] # "new" ~> s \in Shipped \cup orphaned

(***************************************************************************)
(* The shipper never loses a closed session.                               *)
(***************************************************************************)
ClosedIsShipped ==
  \A s \in Sessions : cowrie[s] = "closed" ~> s \in Shipped \cup orphaned
=============================================================================
