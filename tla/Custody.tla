------------------------------ MODULE Custody ------------------------------
(***************************************************************************)
(* What the spool promises for a payload from the moment it is written:    *)
(* the shipper keeps it until it is settled, by a delivery, a permanent    *)
(* refusal or the disk backstop, and lets go of nothing before that.       *)
(***************************************************************************)
CONSTANT Sessions

VARIABLES
  held,     \* sessions whose payload the shipper keeps on disk
  settled   \* sessions that were delivered, dead-lettered or evicted

Init == held = {} /\ settled = {}

Take(s) ==
  /\ held' = held \cup {s}
  /\ UNCHANGED settled

\* The payload arrived; a copy may stay and arrive again.
Settle(s) ==
  /\ s \in held
  /\ settled' = settled \cup {s}
  /\ UNCHANGED held

Release(s) ==
  /\ s \in held \cap settled
  /\ held' = held \ {s}
  /\ UNCHANGED settled

GiveUp(s) ==
  /\ s \in held
  /\ settled' = settled \cup {s}
  /\ held' = held \ {s}

Next == \E s \in Sessions : Take(s) \/ Settle(s) \/ Release(s) \/ GiveUp(s)

Spec == Init /\ [][Next]_<<held, settled>>
=============================================================================
