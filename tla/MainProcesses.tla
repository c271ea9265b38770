--------------------------- MODULE MainProcesses ---------------------------
(***************************************************************************)
(* The main processes of an instance, which Election has agree on a leader *)
(* and whose registrations and timers Activation follows.                  *)
(***************************************************************************)

CONSTANTS
  Mains,    \* main processes (a restarted one keeps its host id)
  NoMain    \* no owner of the lock, no main at work

ASSUME NoMainAssumption == NoMain \notin Mains
=============================================================================
