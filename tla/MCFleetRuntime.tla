---------------------------- MODULE MCFleetRuntime ----------------------------
(* Instances of FleetRuntime for TLC.  One miner is enrolled and enabled or *)
(* disabled; the other one is not known.                                    *)
EXTENDS FleetRuntime

CONSTANTS a, b, here, there

ChosenFleets ==
  {[m \in Miners |-> IF m = a THEN [host |-> here, enabled |-> enabled]
                     ELSE NoRecord] : enabled \in BOOLEAN}

ChosenNetworks ==
  {[h \in Hosts |-> IF h = here THEN m ELSE Nobody] : m \in Miners}
=============================================================================
