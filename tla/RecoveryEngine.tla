--------------------------- MODULE RecoveryEngine ---------------------------
(***************************************************************************)
(* The opt-in automatic recovery of one approved miner: recovery.py's      *)
(* RecoveryEngine, with the parts of runtime.py, coordinator.py and        *)
(* storage.py it calls back into reduced to what they may do to it.        *)
(*                                                                         *)
(* One evaluation task per miner runs between asyncio await points; task   *)
(* is that task and task.pc the await it is suspended at.  Between two     *)
(* awaits the coroutine is atomic, so every action below is one such       *)
(* segment.  While it is suspended the environment polls the miner, moves  *)
(* the clock, changes the policy, disables the miner, restarts Home        *)
(* Assistant, and drops old incidents from the bounded fleet history.      *)
(*                                                                         *)
(* Times are ticks of one clock.  The numeric settings of the policy are   *)
(* constants of a behaviour; its three switches change while it runs.      *)
(***************************************************************************)
EXTENDS Integers, FiniteSets

CONSTANTS
  Policies,                     \* the switch settings an operator may choose
  Snapshots,                    \* what a successful poll may return
  StartupGrace,                 \* recovery_policy.startup_grace_seconds
  ConsecutiveUnhealthyRequired, \* .consecutive_unhealthy_required
  Cooldown,                     \* .cooldown_seconds
  RollingWindow,                \* .rolling_window_seconds
  MaxAttempts,                  \* .max_attempts
  PostRestartTimeout,           \* .post_restart_timeout_seconds
  MaxClock,                     \* bound: the last tick
  MaxRestarts                   \* bound: automatic restarts in a behaviour

None == -1

OverheatPolicy == {"keep_safe_values", "restore_after_cooldown", "log_only"}

PolicyType ==
  [automatic_recovery_enabled        : BOOLEAN,
   automatic_profile_restore_enabled : BOOLEAN,
   overheat_policy                   : OverheatPolicy]

(* What snapshot_condition and _in_startup_grace read: overheat is         *)
(* overheat_mode not in {None, 0}, paused is mining_paused is True, fault  *)
(* is a power or hardware fault, uptime may be missing.  ok is the         *)
(* coordinator's last_update_success.                                      *)
SnapshotType ==
  [ok : BOOLEAN, overheat : BOOLEAN, paused : BOOLEAN, fault : BOOLEAN,
   hashrate : {"missing", "zero", "positive"}, uptime : Nat \cup {None}]

NoSnapshot ==
  [ok |-> FALSE, overheat |-> FALSE, paused |-> FALSE, fault |-> FALSE,
   hashrate |-> "missing", uptime |-> None]

ASSUME PolicyAssumption ==
  /\ Policies \subseteq PolicyType
  /\ Snapshots \subseteq {s \in SnapshotType : s.ok}
  /\ {StartupGrace, Cooldown, PostRestartTimeout, RollingWindow} \subseteq Nat
  /\ ConsecutiveUnhealthyRequired \in Nat \ {0}
  /\ MaxAttempts \in Nat \ {0}
  /\ MaxClock \in Nat
  /\ MaxRestarts \in Nat

VARIABLES
  clock,      \* datetime.now(UTC)
  miner,      \* the registry's record: enabled, recovery_policy, has_profile
  updating,   \* a registry write for the miner is done, async_forget_miner is not
  snapshot,   \* what _snapshot_for_recovery would return
  state,      \* self._states[miner_id]
  task,       \* self._tasks[miner_id] and where its coroutine is suspended
  incidents,  \* this miner's stored automatic_restart attempts
  next_id,    \* history: automatic restarts decided so far
  restarts,   \* history: how many restarts reached the device
  observed    \* history: what the evaluations have seen

operator == <<miner, updating>>
history == <<next_id, restarts, observed>>
vars == <<clock, operator, snapshot, state, task, incidents, history>>

Time == 0..MaxClock

(* A list entry of state.attempts, identified by the restart it stands     *)
(* for, so that two attempts made at one time count twice.                 *)
Attempt == [id : 0..MaxRestarts, at : Time]

(* A stored incident with outcome requested, uncertain or failed.  decided *)
(* is history: the engine's own time of the attempt, which the code does   *)
(* not store (occurred_at is stamped when the outcome is recorded).        *)
Incident == [id : 0..MaxRestarts, decided : Time, occurred_at : Time]

StateType ==
  [present                    : BOOLEAN,
   started_at                 : Time \cup {None},
   attempts                   : SUBSET Attempt,
   unhealthy_observations     : 0..ConsecutiveUnhealthyRequired,
   last_action_at             : Time \cup {None},
   restart_deadline           : Nat \cup {None},
   overheat_active            : BOOLEAN,
   pending_profile_restore_at : Nat \cup {None},
   attempt_limit_reported     : BOOLEAN]

NoState ==
  [present                    |-> FALSE,
   started_at                 |-> None,
   attempts                   |-> {},
   unhealthy_observations     |-> 0,
   last_action_at             |-> None,
   restart_deadline           |-> None,
   overheat_active            |-> FALSE,
   pending_profile_restore_at |-> None,
   attempt_limit_reported     |-> FALSE]

RestartOutcome == {"requested", "uncertain", "failed"}

OtherIncident ==
  {"none", "suppressed", "verified", "timed_out", "detected", "cleared",
   "restore_verified", "restore_failed"}

(* pc: "idle" no task; "scheduled" created and not started; "restart",     *)
(* "restore", "record" suspended in self._restart, self._restore_profile,  *)
(* self._record_incident.  then: what the coroutine does after recording.  *)
TaskType ==
  [pc       : {"idle", "scheduled", "restart", "restore", "record"},
   now      : Time \cup {None},
   id       : (0..MaxRestarts) \cup {None},
   sent     : BOOLEAN,
   thermal  : BOOLEAN,
   incident : RestartOutcome \cup OtherIncident,
   then     : {"return", "restore", "defer_restore"}]

IdleTask ==
  [pc |-> "idle", now |-> None, id |-> None, sent |-> FALSE, thermal |-> FALSE,
   incident |-> "none", then |-> "return"]

ScheduledTask == [IdleTask EXCEPT !.pc = "scheduled"]

RecordTask(incident, then) ==
  [IdleTask EXCEPT !.pc = "record", !.now = clock, !.incident = incident,
                   !.then = then]

RestoreTask(now, thermal) ==
  [IdleTask EXCEPT !.pc = "restore", !.now = now, !.thermal = thermal]

TypeOK ==
  /\ clock \in Time
  /\ miner \in [enabled : BOOLEAN, recovery_policy : PolicyType,
                has_profile : BOOLEAN]
  /\ updating \in BOOLEAN
  /\ snapshot \in SnapshotType
  /\ state \in StateType
  /\ task \in TaskType
  /\ incidents \in SUBSET Incident
  /\ next_id \in 0..MaxRestarts
  /\ restarts \in 0..MaxRestarts
  /\ observed \in [streak : 0..ConsecutiveUnhealthyRequired,
                   last_overheat : Time \cup {None}]

Init ==
  /\ clock = 0
  /\ miner \in [enabled : {TRUE}, recovery_policy : Policies,
                has_profile : BOOLEAN]
  /\ updating = FALSE
  /\ snapshot = NoSnapshot
  /\ state = NoState
  /\ task = IdleTask
  /\ incidents = {}
  /\ next_id = 0
  /\ restarts = 0
  /\ observed = [streak |-> 0, last_overheat |-> None]

-----------------------------------------------------------------------------
(* Classification and the engine's pure helpers.                           *)

(* A fault reported before the pause flag is looked at. *)
FaultBeforePause(s) ==
  CASE s.overheat                 -> "overheat"
    [] ~s.overheat /\ s.fault     -> "fault"
    [] OTHER                      ->
         IF s.paused THEN "paused"
         ELSE IF s.hashrate = "zero" THEN "zero_hashrate" ELSE "healthy"

SnapshotCondition(s) ==
  IF s.overheat THEN "overheat"
  ELSE IF s.paused THEN "paused"
  ELSE IF s.fault THEN "fault"
  ELSE [missing |-> "unknown", zero |-> "zero_hashrate",
        positive |-> "healthy"][s.hashrate]

InStartupGrace(s, st) ==
  IF s.uptime # None THEN s.uptime < StartupGrace
  ELSE clock - st.started_at < StartupGrace

PruneAttempts(attempts) == {a \in attempts : a.at >= clock - RollingWindow}

(* The last action is looked up among the attempts that still count. *)
InCooldownOfWindow(st) ==
  \E a \in PruneAttempts(st.attempts) : clock - a.at < Cooldown

InCooldown(st) ==
  st.last_action_at # None /\ clock - st.last_action_at < Cooldown

(* Home Assistant's restart forgets the attempts. *)
FreshState == [NoState EXCEPT !.present = TRUE, !.started_at = clock]

CountedIncidents == {i \in incidents : i.occurred_at >= clock - RollingWindow}

(* The attempts come back and the time of the last one does not. *)
RestoredWithoutLastAction ==
  [FreshState EXCEPT
     !.attempts = {[id |-> i.id, at |-> i.occurred_at] : i \in CountedIncidents}]

(* The incidents themselves are kept where their times are expected. *)
RestoredIncidents == [FreshState EXCEPT !.attempts = CountedIncidents]

LastOccurred ==
  CHOOSE t \in {i.occurred_at : i \in CountedIncidents} :
    \A i \in CountedIncidents : i.occurred_at <= t

RestoredState ==
  [FreshState EXCEPT
     !.attempts = {[id |-> i.id, at |-> i.occurred_at] : i \in CountedIncidents},
     !.last_action_at = IF CountedIncidents = {} THEN None ELSE LastOccurred]

(* The state an evaluation works on: the one in memory, or a restored one. *)
Engine == IF state.present THEN state ELSE RestoredState

-----------------------------------------------------------------------------
(* The environment: clock, polls, the operator, the fleet's other miners.  *)

Tick ==
  /\ clock < MaxClock
  /\ clock' = clock + 1
  /\ UNCHANGED <<operator, snapshot, state, task, incidents, history>>

(* The coordinator exists until a disable has run to its end. *)
Polled == miner.enabled \/ updating

(* async_schedule: a notification that finds a task is dropped. *)
Schedule == IF task.pc = "idle" THEN ScheduledTask ELSE task

Poll(s) ==
  /\ Polled
  /\ snapshot' = s
  /\ task' = Schedule
  /\ UNCHANGED <<clock, operator, state, incidents, history>>

(* A failed refresh notifies its listeners only when the last one succeeded. *)
PollFails ==
  /\ Polled
  /\ snapshot.ok
  /\ snapshot' = NoSnapshot
  /\ task' = Schedule
  /\ UNCHANGED <<clock, operator, state, incidents, history>>

CaptureProfile ==
  /\ ~miner.has_profile
  /\ miner' = [miner EXCEPT !.has_profile = TRUE]
  /\ UNCHANGED <<clock, updating, snapshot, state, task, incidents, history>>

(* async_set_recovery_policy up to the registry's write; ForgetMiner ends   *)
(* it.  Two overlapping updates of the miner are not modelled.              *)
SetRecoveryPolicy(p) ==
  /\ miner.enabled /\ ~updating
  /\ miner' = [miner EXCEPT !.recovery_policy = p]
  /\ updating' = TRUE
  /\ UNCHANGED <<clock, snapshot, state, task, incidents, history>>

(* async_set_enabled(False) up to the registry's write; ForgetMiner ends it. *)
Disable ==
  /\ miner.enabled /\ ~updating
  /\ miner' = [miner EXCEPT !.enabled = FALSE]
  /\ updating' = TRUE
  /\ UNCHANGED <<clock, snapshot, state, task, incidents, history>>

Forget ==
  /\ updating
  /\ updating' = FALSE
  /\ state' = NoState
  /\ snapshot' = IF miner.enabled THEN snapshot ELSE NoSnapshot
  /\ UNCHANGED <<clock, miner, incidents, history>>

(* The engine's state goes and the running evaluation goes on. *)
ForgetMinerKeepTask == Forget /\ UNCHANGED task

(* async_forget_miner cancels the task at its await; a disable then drops  *)
(* the listener and the coordinator.                                       *)
ForgetMiner == Forget /\ task' = IdleTask

Enable ==
  /\ ~miner.enabled /\ ~updating
  /\ miner' = [miner EXCEPT !.enabled = TRUE]
  /\ UNCHANGED <<clock, updating, snapshot, state, task, incidents, history>>

(* Unload and setup, or a crash: a new engine, the stored incidents. *)
HomeAssistantRestart ==
  /\ snapshot' = NoSnapshot
  /\ state' = NoState
  /\ task' = IdleTask
  /\ updating' = FALSE
  /\ UNCHANGED <<clock, miner, incidents, history>>

(* The fleet's history is full: appending drops the oldest incident. *)
EvictIncident ==
  /\ \E i \in incidents :
       /\ \A j \in incidents : i.id <= j.id
       /\ incidents' = incidents \ {i}
  /\ UNCHANGED <<clock, operator, snapshot, state, task, history>>

-----------------------------------------------------------------------------
(* async_evaluate up to its first await, one action per way through it.    *)

Eligible ==
  /\ snapshot.ok
  /\ miner.enabled
  /\ \/ miner.recovery_policy.automatic_recovery_enabled
     \/ miner.recovery_policy.automatic_profile_restore_enabled

RestartBranch ==
  IF Engine.restart_deadline # None THEN "pending_restart"
  ELSE IF ~miner.recovery_policy.automatic_recovery_enabled THEN "observe_only"
  ELSE IF \/ InStartupGrace(snapshot, Engine)
          \/ SnapshotCondition(snapshot) \in {"healthy", "paused", "unknown"}
       THEN "well"
  ELSE "unhealthy"

(* A due restore is tried without looking for an overheat first. *)
DeferredRestoreFirst ==
  IF ~Eligible THEN "forget"
  ELSE IF Engine.pending_profile_restore_at # None THEN "pending_restore"
  ELSE IF SnapshotCondition(snapshot) = "overheat" THEN "overheat"
  ELSE IF Engine.overheat_active THEN "overheat_clear"
  ELSE RestartBranch

(* The way an evaluation takes is the first of these that applies. *)
Branch ==
  IF ~Eligible THEN "forget"
  ELSE IF SnapshotCondition(snapshot) = "overheat" THEN "overheat"
  ELSE IF Engine.overheat_active THEN "overheat_clear"
  ELSE IF Engine.pending_profile_restore_at # None THEN "pending_restore"
  ELSE RestartBranch

(* A snapshot that may count towards a restart, read from its own fields. *)
Faulty(s) ==
  /\ s.ok /\ ~s.overheat /\ ~s.paused
  /\ s.fault \/ s.hashrate = "zero"
  /\ s.uptime # None => s.uptime >= StartupGrace

Increment(n) == IF n < ConsecutiveUnhealthyRequired THEN n + 1 ELSE n

Observe ==
  observed' = [streak |-> IF Faulty(snapshot) THEN Increment(observed.streak) ELSE 0,
               last_overheat |-> IF snapshot.overheat THEN clock
                                 ELSE observed.last_overheat]

Evaluating(branch) ==
  /\ task.pc = "scheduled"
  /\ Branch = branch
  /\ Observe
  /\ UNCHANGED <<clock, operator, snapshot, incidents, restarts>>

EvaluateOverheat ==
  /\ Evaluating("overheat")
  /\ state' = [Engine EXCEPT !.unhealthy_observations = 0,
                             !.pending_profile_restore_at = None,
                             !.overheat_active = TRUE]
  /\ task' = IF Engine.overheat_active THEN IdleTask
             ELSE RecordTask("detected", "return")
  /\ UNCHANGED next_id

RestoreAllowed ==
  miner.recovery_policy.automatic_profile_restore_enabled /\ miner.has_profile

(* The coroutine keeps the miner it read, so what follows the record is    *)
(* settled here.                                                           *)
EvaluateOverheatClear ==
  /\ Evaluating("overheat_clear")
  /\ state' = [Engine EXCEPT !.overheat_active = FALSE,
                             !.unhealthy_observations = 0]
  /\ task' = RecordTask("cleared",
       IF miner.recovery_policy.overheat_policy = "restore_after_cooldown"
          /\ RestoreAllowed THEN "defer_restore" ELSE "return")
  /\ UNCHANGED next_id

(* Evaluations that change nothing but the state they worked on. *)
Return(st) == state' = st /\ task' = IdleTask /\ UNCHANGED next_id

EvaluateForget == Evaluating("forget") /\ Return(NoState)

HandleDeferredRestore(ready) ==
  /\ Evaluating("pending_restore")
  /\ IF ready
     THEN /\ state' = [Engine EXCEPT !.pending_profile_restore_at = None]
          /\ task' = RestoreTask(clock, TRUE)
          /\ UNCHANGED next_id
     ELSE Return(Engine)

(* A put-off restore waits for the miner to fail again. *)
DeferredRestoreNeedsFault ==
  HandleDeferredRestore(clock >= Engine.pending_profile_restore_at /\ Faulty(snapshot))

EvaluatePendingRestore ==
  HandleDeferredRestore(clock >= Engine.pending_profile_restore_at)

EvaluateVerified ==
  /\ Evaluating("pending_restart")
  /\ SnapshotCondition(snapshot) = "healthy"
  /\ state' = [Engine EXCEPT !.restart_deadline = None]
  /\ task' = RecordTask("verified", IF RestoreAllowed THEN "restore" ELSE "return")
  /\ UNCHANGED next_id

HandleUnverified(late) ==
  /\ Evaluating("pending_restart")
  /\ SnapshotCondition(snapshot) # "healthy"
  /\ IF late
     THEN /\ state' = [Engine EXCEPT !.restart_deadline = None,
                                     !.unhealthy_observations = 0]
          /\ task' = RecordTask("timed_out", "return")
          /\ UNCHANGED next_id
     ELSE Return(Engine)

(* A miner paused after its restart never times out. *)
OnlyFaultTimesOut ==
  HandleUnverified(clock >= Engine.restart_deadline /\ Faulty(snapshot))

EvaluateUnverified == HandleUnverified(clock >= Engine.restart_deadline)

EvaluateObserveOnly == Evaluating("observe_only") /\ Return(Engine)

EvaluateWell ==
  Evaluating("well") /\ Return([Engine EXCEPT !.unhealthy_observations = 0])

(* One more unhealthy observation, and either too few of them or too soon. *)
Counted == [Engine EXCEPT !.unhealthy_observations = Increment(@)]

Due ==
  /\ Counted.unhealthy_observations >= ConsecutiveUnhealthyRequired
  /\ ~InCooldown(Engine)

EvaluateNotDue == Evaluating("unhealthy") /\ ~Due /\ Return(Counted)

Remaining == PruneAttempts(Engine.attempts)

EvaluateSuppressed ==
  /\ Evaluating("unhealthy")
  /\ Due
  /\ Cardinality(Remaining) >= MaxAttempts
  /\ state' = [Counted EXCEPT !.attempts = Remaining,
                              !.attempt_limit_reported = TRUE]
  /\ task' = IF Engine.attempt_limit_reported THEN IdleTask
             ELSE RecordTask("suppressed", "return")
  /\ UNCHANGED next_id

EvaluateRestart ==
  /\ Evaluating("unhealthy")
  /\ Due
  /\ Cardinality(Remaining) < MaxAttempts
  /\ next_id < MaxRestarts
  /\ next_id' = next_id + 1
  /\ state' = [Counted EXCEPT
                 !.unhealthy_observations = 0,
                 !.last_action_at = clock,
                 !.attempts = Remaining \cup {[id |-> next_id, at |-> clock]},
                 !.attempt_limit_reported = FALSE]
  /\ task' = [IdleTask EXCEPT !.pc = "restart", !.now = clock, !.id = next_id]

-----------------------------------------------------------------------------
(* The segments after each await.                                          *)

(* The device carries out the POST that self._restart sends. *)
RestartReachesDevice ==
  /\ task.pc = "restart" /\ ~task.sent
  /\ task' = [task EXCEPT !.sent = TRUE]
  /\ restarts' = restarts + 1
  /\ UNCHANGED <<clock, operator, snapshot, state, incidents, next_id, observed>>

(* The answer to self._restart: a refusal or an error before the POST is   *)
(* failed, an answered POST is requested, a lost answer is uncertain.      *)
RestartReturns(outcome) ==
  /\ task.pc = "restart"
  /\ outcome = "requested" => task.sent
  /\ outcome = "failed" => ~task.sent
  /\ task' = [task EXCEPT !.pc = "record", !.incident = outcome]
  /\ state' = IF outcome = "failed" THEN state
              ELSE [state EXCEPT !.restart_deadline = task.now + PostRestartTimeout]
  /\ UNCHANGED <<clock, operator, snapshot, incidents, history>>

RecordIncident ==
  /\ task.pc = "record"
  /\ incidents' =
       IF task.incident \in RestartOutcome
       THEN incidents \cup {[id |-> task.id, decided |-> task.now,
                             occurred_at |-> clock]}
       ELSE incidents
  /\ state' = IF task.then = "defer_restore"
              THEN [state EXCEPT !.pending_profile_restore_at = task.now + Cooldown]
              ELSE state
  /\ task' = IF task.then = "restore" THEN RestoreTask(task.now, FALSE) ELSE IdleTask
  /\ UNCHANGED <<clock, operator, snapshot, history>>

(* wait_for ends the restore: applied, refused, or out of time. *)
RestoreReturns ==
  /\ task.pc = "restore"
  /\ \E incident \in {"restore_verified", "restore_failed"} :
       task' = RecordTask(incident, "return")
  /\ UNCHANGED <<clock, operator, snapshot, state, incidents, history>>

-----------------------------------------------------------------------------
Evaluate ==
  \/ EvaluateForget
  \/ EvaluateOverheat
  \/ EvaluateOverheatClear
  \/ EvaluatePendingRestore
  \/ EvaluateVerified
  \/ EvaluateUnverified
  \/ EvaluateObserveOnly
  \/ EvaluateWell
  \/ EvaluateNotDue
  \/ EvaluateSuppressed
  \/ EvaluateRestart

AnyPoll == \E s \in Snapshots : Poll(s)
AnyRestartReturns == \E outcome \in RestartOutcome : RestartReturns(outcome)

(* What happens without the operator and without a full incident history. *)
Running ==
  \/ Tick
  \/ AnyPoll
  \/ PollFails
  \/ HomeAssistantRestart
  \/ Evaluate
  \/ RestartReachesDevice
  \/ AnyRestartReturns
  \/ RecordIncident
  \/ RestoreReturns

Next ==
  \/ Running
  \/ CaptureProfile
  \/ \E p \in Policies : SetRecoveryPolicy(p)
  \/ Disable
  \/ Enable
  \/ ForgetMiner
  \/ EvictIncident

Spec == Init /\ [][Next]_vars

(* Time passes, the coordinator goes on polling, a started coroutine runs, *)
(* and each await it reaches ends: every HTTP request has a total timeout, *)
(* the restore runs under wait_for, the registry's lock is always released. *)
Fairness ==
  /\ WF_vars(Tick)
  /\ WF_vars(AnyPoll)
  /\ WF_vars(Evaluate)
  /\ WF_vars(AnyRestartReturns)
  /\ WF_vars(RecordIncident)
  /\ WF_vars(RestoreReturns)
  /\ WF_vars(ForgetMiner)

FairSpec == Spec /\ Fairness

-----------------------------------------------------------------------------
(* Properties.                                                             *)

(* The rolling budget survives everything that empties the engine's memory: *)
(* when a restart is under way, fewer than max_attempts earlier ones that   *)
(* are still in the stored history were decided in the window before it     *)
(* (recovery.py:165-166 and 378-400, across 110-120, 205-210 and a restart  *)
(* of Home Assistant).                                                      *)
RestartWithinBudget ==
  task.pc = "restart" =>
    Cardinality({i.id : i \in {j \in incidents : j.decided >= task.now - RollingWindow}})
      < MaxAttempts

(* A restart is decided no sooner than a cooldown after every earlier one   *)
(* in the stored history, however often the engine's state was forgotten in *)
(* between and whichever of the cooldown and the window is the longer, with *)
(* one exception: a restart that had left the rolling window when the       *)
(* state was last rebuilt is not remembered, and a cooldown longer than the *)
(* window then ends early (recovery.py:161-162, 361-367 and 378-400).       *)
RestartRespectsCooldown ==
  task.pc = "restart" =>
    \A i \in incidents :
      \/ i.decided + Cooldown <= task.now
      \/ i.occurred_at + RollingWindow < state.started_at

(* Only the required number of consecutive faulty observations leads to a   *)
(* restart, and none of them is paused, overheated or inside the startup    *)
(* grace by its own fields, whichever of them the engine forgot (recovery.py: *)
(* 152-160, 329-358).                                                       *)
RestartOnlyAfterFaultyStreak ==
  task.pc = "restart" => observed.streak >= ConsecutiveUnhealthyRequired

(* A profile put off after an overheat is restored only once a cooldown has *)
(* passed since the last overheated observation, not merely the first       *)
(* (recovery.py:139-146, 226-262).                                          *)
ThermalRestoreWaitsForCooldown ==
  task.pc = "restore" /\ task.thermal /\ observed.last_overheat # None =>
    task.now >= observed.last_overheat + Cooldown

(* Once a policy change or a disable has returned, the engine no longer     *)
(* runs the restart or the restore it forbids, even one that was already    *)
(* awaiting an answer (runtime.py:304-316, 325-345; recovery.py:205-210).   *)
SwitchedOffMeansStopped ==
  ~updating =>
    /\ task.pc = "restart" =>
         miner.enabled /\ miner.recovery_policy.automatic_recovery_enabled
    /\ task.pc = "restore" =>
         miner.enabled /\ miner.recovery_policy.automatic_profile_restore_enabled

(* A restart waiting for verification is verified, timed out or forgotten   *)
(* once its deadline passes, unless thermal protection takes over           *)
(* (recovery.py:133-149, 264-298).                                          *)
PendingRestartResolved ==
  state.restart_deadline \in Time ~>
    \/ state.restart_deadline = None
    \/ state.overheat_active
    \/ state.pending_profile_restore_at # None

(* A restore put off after an overheat is tried, called off by another      *)
(* overheat, or forgotten with the state once its time has come             *)
(* (recovery.py:139-146, 230-231).                                          *)
DeferredRestoreResolved ==
  state.pending_profile_restore_at \in Time ~>
    state.pending_profile_restore_at = None

-----------------------------------------------------------------------------
(* What the documentation says and the code does not do.                   *)

(* README.md:182-185: every automatic restart has a rolling attempt budget, *)
(* and restarting Home Assistant cannot reset it.  Counts what the device   *)
(* was made to do, in a behaviour that fits in one window                   *)
(* (recovery.py:181-203).                                                   *)
DeviceRestartsWithinBudget ==
  RollingWindow >= MaxClock => restarts <= MaxAttempts

(* README.md:188-190: the default policy retains the safe values, and only  *)
(* RESTORE_AFTER_COOLDOWN may restore after an overheat, after the cooldown *)
(* (recovery.py:273-286).                                                   *)
RestoreAfterOverheatWaits ==
  task.pc = "restore" /\ observed.last_overheat # None =>
    task.now >= observed.last_overheat + Cooldown

=============================================================================
