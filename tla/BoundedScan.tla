----------------------------- MODULE BoundedScan -----------------------------
(***************************************************************************)
(* What an active network scan promises: every host of the approved        *)
(* network is probed at most once, and no more than Concurrency hosts of   *)
(* one scan are probed at a time.                                          *)
(***************************************************************************)
EXTENDS Integers

CONSTANTS Scans, HostCounts, Concurrency

VARIABLES todo, probing, over   \* for every scan, sets of hosts

vars == <<todo, probing, over>>

Init ==
  /\ todo = [g \in Scans |-> {}]
  /\ probing = [g \in Scans |-> {}]
  /\ over = [g \in Scans |-> {}]

Start(g) ==
  /\ todo[g] = {} /\ probing[g] = {} /\ over[g] = {}
  /\ \E n \in HostCounts : todo' = [todo EXCEPT ![g] = 0..n-1]
  /\ UNCHANGED <<probing, over>>

(* No more than n hosts: each has a slot of its own. *)
FitIn(hosts, n) ==
  \E slot \in [hosts -> 1..n] : \A h, k \in hosts : slot[h] = slot[k] => h = k

(* Some probes end and others begin; hosts may be skipped, none comes back. *)
Advance(g, ended, begun, skipped) ==
  /\ todo' = [todo EXCEPT ![g] = @ \ (begun \cup skipped)]
  /\ probing' = [probing EXCEPT ![g] = (@ \ ended) \cup begun]
  /\ over' = [over EXCEPT ![g] = @ \cup ended \cup skipped]
  /\ FitIn(probing'[g], Concurrency)

Next ==
  \E g \in Scans :
    \/ Start(g)
    \/ \E ended \in SUBSET probing[g] :
         \E begun \in SUBSET todo[g] :
           \E skipped \in SUBSET todo[g] : Advance(g, ended, begun, skipped)

Spec == Init /\ [][Next]_vars
=============================================================================
