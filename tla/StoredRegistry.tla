---------------------------- MODULE StoredRegistry ----------------------------
(***************************************************************************)
(* The atomic registry on a disk: a restart forgets what was not stored,   *)
(* or what was written over, and nothing else.                             *)
(***************************************************************************)
EXTENDS AtomicRegistry

VARIABLES
  disk, \* what a restart would load
  safe  \* the fleet is on disk, and the last write was its own

stored == <<fleet, disk, safe>>

StoredInit == Init /\ disk = fleet /\ safe = TRUE

Operate == Operation /\ safe' = FALSE /\ disk' = disk

Store == disk' = fleet /\ safe' = TRUE /\ fleet' = fleet

(* A write that comes late lands on the newer file. *)
Overwrite == disk' \in Fleet /\ safe' = FALSE /\ fleet' = fleet

(* With or without a file to migrate, which is saved again. *)
Restart == fleet' = disk /\ safe' \in BOOLEAN /\ disk' = disk

StoredNext == Operate \/ Store \/ Overwrite \/ Restart

StoredSpec == StoredInit /\ [][StoredNext]_stored
=============================================================================
