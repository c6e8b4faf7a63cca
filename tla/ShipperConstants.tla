-------------------------- MODULE ShipperConstants --------------------------
(***************************************************************************)
(* The parameters of the log shipper's model (ShipperConfig,               *)
(* honeypot/shipper/sentinelbrief_shipper/config.py) and its bounds.       *)
(***************************************************************************)
EXTENDS Naturals, Sequences

CONSTANTS
  Sessions,   \* the sessions Cowrie sees
  Chatty,     \* bound: those that write a line between connect and close
  MaxBatch,   \* max_batch_lines
  SpoolMax,   \* spool_max_files
  MaxFiles,   \* bound: generations of the log
  MaxKills,   \* bound: how often the process is killed
  Faults      \* what else the environment does

(***************************************************************************)
(* "stop": systemd stops and starts the process.  "once": the process may  *)
(* run with --once or max_iterations.  "truncate": the log is truncated in *)
(* place.  "race": the log is rotated between the open and the stat of     *)
(* _open_at_saved_offset.  "straddle": a rotation and a restart meet, so   *)
(* that a start finds a newer generation than the one whose lines were not *)
(* all committed.                                                          *)
(***************************************************************************)
ShipperFaults == {"stop", "once", "truncate", "race", "straddle"}

ASSUME SizesAssumption == MaxBatch \in Nat \ {0} /\ SpoolMax \in Nat \ {0}
ASSUME LimitsAssumption == MaxFiles \in Nat \ {0} /\ MaxKills \in Nat
ASSUME ChattyAssumption == Chatty \subseteq Sessions
ASSUME ShipperFaultsAssumption == Faults \subseteq ShipperFaults
=============================================================================
