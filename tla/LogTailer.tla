----------------------------- MODULE LogTailer -----------------------------
(***************************************************************************)
(* LogTailer (honeypot/shipper/sentinelbrief_shipper/tail.py): follows the *)
(* log across rotations and persists its position.  Positions count lines. *)
(* The read-ahead buffer is not a variable: it holds lines of the open     *)
(* file past pos.                                                          *)
(***************************************************************************)
EXTENDS CowrieLog

VARIABLES
  handle,    \* the generation behind the open file, 0 when none is open
  inode,     \* the inode recorded for it
  pos,       \* lines of it that were returned
  lines,     \* the batch the last read_new_lines returned
  pending,   \* the position that batch reached, not committed yet
  saved      \* tail.json

tailMemory == <<handle, inode, pos, lines, pending>>
tailVars == <<handle, inode, pos, lines, pending, saved>>

NoPosition == [inode |-> 0, offset |-> 0]
Positions == [inode : Nat, offset : Nat]

TailTypeOK ==
  /\ handle \in 0..Len(log)
  /\ inode \in 0..Len(log)
  /\ pos \in Nat
  /\ lines \in Seq(Lines)
  /\ pending \in Positions
  /\ saved \in Positions

TailMemoryInit ==
  /\ handle = 0
  /\ inode = 0
  /\ pos = 0
  /\ lines = <<>>
  /\ pending = NoPosition

TailInit == TailMemoryInit /\ saved = NoPosition

ForgetTail ==
  /\ handle' = 0
  /\ inode' = 0
  /\ pos' = 0
  /\ lines' = <<>>
  /\ pending' = NoPosition

Unread == IF pos < Len(log[handle])
            THEN SubSeq(log[handle], pos + 1, Len(log[handle]))
            ELSE <<>>

\* The read ended at the end of the file and not at a full batch.
AtEof == Len(Unread) < MaxBatch

\* _drain_open_file: one batch; an empty one leaves the position alone.
DrainOpenFile ==
  /\ lines' = IF AtEof THEN Unread ELSE SubSeq(Unread, 1, MaxBatch)
  /\ pos' = pos + Len(lines')
  /\ pending' = IF lines' = <<>> THEN pending
                ELSE [inode |-> inode, offset |-> pos + Len(lines')]

\* The open file is no longer the one at the path: drain it, close it when
\* it is exhausted, and let the next call open the new one.
DrainRotated ==
  /\ handle # 0 /\ Current # inode
  /\ DrainOpenFile
  /\ handle' = IF AtEof THEN 0 ELSE handle
  /\ inode' = IF AtEof THEN 0 ELSE inode
  /\ UNCHANGED saved

DrainCurrent ==
  /\ handle # 0 /\ Current = inode
  /\ DrainOpenFile
  /\ UNCHANGED <<handle, inode, saved>>

\* _open_at_saved_offset opens the path ...
OpenPath ==
  /\ handle = 0
  /\ present
  /\ handle' = Current
  /\ UNCHANGED <<inode, pos, lines, pending, saved>>

\* ... and then asks the path, not the handle, for inode and size.
SeekSaved ==
  /\ present
  /\ inode' = Current
  /\ pos' = IF saved.inode = Current /\ saved.offset <= Len(log[Current])
              THEN saved.offset
              ELSE 0
  /\ UNCHANGED <<handle, lines, pending, saved>>

\* No file at the path, at the open or at the stat after it.
NoFile ==
  /\ ~present
  /\ handle' = 0
  /\ lines' = <<>>
  /\ UNCHANGED <<inode, pos, pending, saved>>

CommitOffset ==
  /\ saved' = IF pending = NoPosition THEN saved ELSE pending
  /\ pending' = NoPosition
  /\ UNCHANGED <<handle, inode, pos, lines>>

\* Lines that the persisted position has passed: no later start reads them.
Passed(s, e) ==
  \E f \in 1..Len(log) : \E i \in 1..Len(log[f]) :
    /\ log[f][i] = Line(s, e)
    /\ \/ f < saved.inode
       \/ /\ f = saved.inode
          /\ i <= saved.offset
          /\ saved.offset <= Len(log[f])

\* Every rotated generation was read and committed to its end.
RotatedCommitted ==
  \A f \in 1..Len(log) :
    f # Current /\ log[f] # <<>> =>
      \/ f < saved.inode
      \/ f = saved.inode /\ saved.offset = Len(log[f])
=============================================================================
