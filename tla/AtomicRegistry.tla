---------------------------- MODULE AtomicRegistry ----------------------------
(***************************************************************************)
(* The registry as the rest of the integration relies on it: the fleet     *)
(* changes by one whole operation on one miner at a time, each on the      *)
(* fleet the one before it left.                                           *)
(***************************************************************************)
EXTENDS RegistryRecords

VARIABLE fleet

Init == fleet \in Fleet

Operation ==
  \E m \in Miners :
    \/ \E host \in Hosts : fleet' = EnrolledIn(fleet, m, host)
    \/ fleet' = RejectedIn(fleet, m)
    \/ fleet' = RecordedIn(fleet, m)
    \/ /\ m \in Enrolled(fleet)
       /\ \/ \E host \in Hosts : fleet' = UpdatedIn(fleet, m, host)
          \/ \E f \in Fields, value \in BOOLEAN :
               fleet' = SetIn(fleet, m, f, value)
          \/ fleet' = RemovedFrom(fleet, m)

Spec == Init /\ [][Operation]_fleet
=============================================================================
