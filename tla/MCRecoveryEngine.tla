-------------------------- MODULE MCRecoveryEngine --------------------------
(***************************************************************************)
(* Small instances of RecoveryEngine for TLC.                              *)
(***************************************************************************)
EXTENDS RecoveryEngine

Switches(auto, restore, overheat) ==
  [automatic_recovery_enabled        |-> auto,
   automatic_profile_restore_enabled |-> restore,
   overheat_policy                   |-> overheat]

Reading(hashrate) ==
  [ok |-> TRUE, overheat |-> FALSE, paused |-> FALSE, fault |-> FALSE,
   hashrate |-> hashrate, uptime |-> None]

AllOn == {Switches(TRUE, TRUE, "restore_after_cooldown")}

(* Everything on, and the restore without the restart. *)
MCPolicies == AllOn \cup {Switches(FALSE, TRUE, "restore_after_cooldown")}

(* Only Stalled lacks an uptime: it is in grace for the engine's first tick. *)
Healthy == Reading("positive")
Stalled == Reading("zero")
Stopped == [Stalled EXCEPT !.uptime = StartupGrace]
PausedFault == [Stopped EXCEPT !.paused = TRUE, !.fault = TRUE]
Overheated == [Stopped EXCEPT !.overheat = TRUE, !.paused = TRUE]

(* No grace, so that a restart can follow one of Home Assistant at once. *)
StoppedSnapshots == {Healthy, Stopped, Overheated}

(* What must not count as faulty: a grace, and a fault while paused. *)
StalledSnapshots == {Healthy, Stalled, PausedFault, Overheated}

(* The default overheat policy with both switches on. *)
KeepSafePolicies == {Switches(TRUE, TRUE, "keep_safe_values")}

(* No operator at work and no full history: Home Assistant restarts only. *)
UndisturbedSpec == Init /\ [][Running]_vars

(* Neither of them, and no failed poll: what steady polling alone leads to. *)
Steady ==
  \/ Tick \/ AnyPoll \/ Evaluate \/ RestartReachesDevice \/ AnyRestartReturns
  \/ RecordIncident \/ RestoreReturns

SteadySpec == Init /\ [][Steady]_vars
=============================================================================
