------------------------------- MODULE Spool -------------------------------
(***************************************************************************)
(* Spool (honeypot/shipper/sentinelbrief_shipper/spool.py): the FIFO of    *)
(* payload files on disk, with its size backstop and its dead letters.     *)
(***************************************************************************)
EXTENDS ShipperConstants

VARIABLES
  spool,      \* the pending files, oldest first, each known by its session
  dead,       \* sessions with a file in dead/
  evicted,    \* sessions a payload of which the backstop dropped
  assembled   \* sessions a payload of which was ever written

spoolVars == <<spool, dead, evicted, assembled>>

Spooled == {spool[i] : i \in 1..Len(spool)}

SpoolTypeOK ==
  /\ spool \in Seq(Sessions)
  /\ Len(spool) <= SpoolMax
  /\ dead \in SUBSET Sessions
  /\ evicted \in SUBSET Sessions
  /\ assembled \in SUBSET Sessions

SpoolInit ==
  /\ spool = <<>>
  /\ dead = {}
  /\ evicted = {}
  /\ assembled = {}

\* put: the oldest file goes first, in a step of its own ...
EvictOldest ==
  /\ Len(spool) >= SpoolMax
  /\ spool' = Tail(spool)
  /\ evicted' = evicted \cup {Head(spool)}
  /\ UNCHANGED <<dead, assembled>>

\* the backstop is off by one
PutFileLate(s) ==
  /\ Len(spool) <= SpoolMax
  /\ spool' = Append(spool, s)
  /\ assembled' = assembled \cup {s}
  /\ UNCHANGED <<dead, evicted>>

\* ... then the payload appears under its name, atomically.
PutFile(s) ==
  /\ Len(spool) < SpoolMax
  /\ spool' = Append(spool, s)
  /\ assembled' = assembled \cup {s}
  /\ UNCHANGED <<dead, evicted>>

RemoveFile ==
  /\ spool' = Tail(spool)
  /\ UNCHANGED <<dead, evicted, assembled>>

DeadLetter ==
  /\ spool' = Tail(spool)
  /\ dead' = dead \cup {Head(spool)}
  /\ UNCHANGED <<evicted, assembled>>
=============================================================================
