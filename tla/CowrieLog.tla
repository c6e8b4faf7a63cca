----------------------------- MODULE CowrieLog -----------------------------
(***************************************************************************)
(* Cowrie and its JSON log as the shipper sees them.  Each session writes  *)
(* a connect event, one more line if it is chatty, and a closed event; or  *)
(* it is never closed.  The log is rotated by renaming it and creating a   *)
(* fresh file at the same path; a generation's index stands for its inode. *)
(***************************************************************************)
EXTENDS ShipperConstants

VARIABLES
  cowrie,    \* cowrie[s]: how far session s is
  log,       \* log[f]: the lines of generation f
  present    \* the path exists and names the newest generation

logVars == <<cowrie, log, present>>

\* "junk" is a line the shipper drops: unparseable, or longer than its bound.
Events == {"connect", "command", "junk", "closed"}
Line(s, e) == [session |-> s, event |-> e]
Lines == [session : Sessions, event : Events]

LogTypeOK ==
  /\ cowrie \in [Sessions -> {"new", "open", "busy", "closed"}]
  /\ log \in Seq(Seq(Lines))
  /\ present \in BOOLEAN
  /\ present => log # <<>>

LogInit ==
  /\ cowrie = [s \in Sessions |-> "new"]
  /\ log = <<>>
  /\ present = FALSE

\* The inode os.stat(path) reports; 0 when there is no such file.
Current == IF present THEN Len(log) ELSE 0

Writes(s, e) ==
  /\ present
  /\ log' = [log EXCEPT ![Len(log)] = Append(@, Line(s, e))]
  /\ UNCHANGED present

Connects(s) ==
  /\ cowrie[s] = "new"
  /\ cowrie' = [cowrie EXCEPT ![s] = "open"]
  /\ Writes(s, "connect")

Acts(s) ==
  /\ s \in Chatty
  /\ cowrie[s] = "open"
  /\ cowrie' = [cowrie EXCEPT ![s] = "busy"]
  /\ Writes(s, "command") \/ Writes(s, "junk")

Closes(s) ==
  /\ cowrie[s] \in {"open", "busy"}
  /\ cowrie' = [cowrie EXCEPT ![s] = "closed"]
  /\ Writes(s, "closed")

CreateLog ==
  /\ ~present
  /\ Len(log) < MaxFiles
  /\ log' = Append(log, <<>>)
  /\ present' = TRUE
  /\ UNCHANGED cowrie

RenameLog ==
  /\ present
  /\ Len(log) < MaxFiles
  /\ present' = FALSE
  /\ UNCHANGED <<cowrie, log>>

TruncateLog ==
  /\ present
  /\ log[Len(log)] # <<>>
  /\ log' = [log EXCEPT ![Len(log)] = <<>>]
  /\ UNCHANGED <<cowrie, present>>
=============================================================================
