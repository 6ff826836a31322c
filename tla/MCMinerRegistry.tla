---------------------------- MODULE MCMinerRegistry ----------------------------
(* Instances of MinerRegistry for TLC: a fresh start, a v1 file and a v2    *)
(* file with a damaged record, and one of an unknown version.               *)
EXTENDS MinerRegistry

CONSTANTS a, b, here, there

FileWith(schema, records, rejected, damaged) ==
  [schema |-> schema, damaged |-> damaged,
   fleet |-> [miners |-> records, rejected |-> rejected, incidents |-> <<>>]]

Both == [m \in Miners |-> Approved(here)]

ChosenFiles ==
  {FileWith("none", NoMiners, {}, {}),
   FileWith("v1", Both, {}, {b}),
   FileWith("v2", Both, {}, {b}),
   FileWith("other", Both, {}, {})}
=============================================================================
