---------------------------- MODULE MCActiveScan -----------------------------
(***************************************************************************)
(* Small instances of ActiveScan for TLC.                                  *)
(***************************************************************************)
EXTENDS ActiveScan

(* A network with fewer hosts than workers, as many, and more. *)
MCHostCounts == {1, 2, 3}
=============================================================================
