-------------------------- MODULE SessionAssembler --------------------------
(***************************************************************************)
(* SessionAssembler (honeypot/shipper/sentinelbrief_shipper/assemble.py):  *)
(* the sessions open in memory and the payloads it has returned that are   *)
(* not in the spool yet.  A payload is known by its session; the order in  *)
(* which a flush returns payloads is not specified, so they are a set.     *)
(***************************************************************************)
EXTENDS CowrieLog

VARIABLES
  open,     \* open[s]: not open, or open with or without its connect event
  outbox    \* sessions assembled into a payload that was not written yet

assemblerVars == <<open, outbox>>

AssemblerTypeOK ==
  /\ open \in [Sessions -> {"none", "whole", "headless"}]
  /\ outbox \in SUBSET Sessions

AssemblerInit ==
  /\ open = [s \in Sessions |-> "none"]
  /\ outbox = {}

ForgetSessions ==
  /\ open' = [s \in Sessions |-> "none"]
  /\ outbox' = {}

\* Emit the sessions with a connect event, drop the others, forget both.
Flush(S) ==
  /\ outbox' = outbox \cup {s \in S : open[s] = "whole"}
  /\ open' = [s \in Sessions |-> IF s \in S THEN "none" ELSE open[s]]

\* feed: the first event of a session decides whether it has a connect event.
Feed(line) ==
  \/ /\ line.event = "junk"
     /\ UNCHANGED assemblerVars
  \/ /\ line.event \in {"connect", "command"}
     /\ open' = [open EXCEPT ![line.session] =
                   IF @ # "none" THEN @
                   ELSE IF line.event = "connect" THEN "whole" ELSE "headless"]
     /\ UNCHANGED outbox
  \/ /\ line.event = "closed"
     /\ Flush({line.session})

OpenSessions == {s \in Sessions : open[s] # "none"}
=============================================================================
