------------------------ MODULE RecoveryEngineProofs ------------------------
(***************************************************************************)
(* The safety properties of RecoveryEngine, for every value of its         *)
(* constants: types, the rolling budget, the cooldown, the streak behind a *)
(* restart, the cooldown before a thermal restore, and the end of all      *)
(* automatic action once it is switched off.                               *)
(***************************************************************************)
EXTENDS RecoveryEngine, FiniteSetTheorems, WellFoundedInduction, TLAPS

(* The restart the task is deciding about or is about to record. *)
InRestart ==
  \/ task.pc = "restart"
  \/ task.pc = "record" /\ task.incident \in RestartOutcome

TaskInv ==
  /\ task.pc \in {"restart", "record", "restore"} =>
       task.now \in 0..clock /\ state.present
  /\ InRestart =>
       /\ task.id \in 0..MaxRestarts
       /\ task.id < next_id
       /\ \A i \in incidents : i.id # task.id
       /\ \E a \in state.attempts : a.id = task.id /\ a.at = task.now
  /\ task.then # "return" => task.pc = "record" /\ task.incident \notin RestartOutcome
  /\ restarts <= next_id
  /\ task.pc = "restart" /\ ~task.sent => restarts < next_id

(* Ids below next_id are spent, and nothing is stamped in the future. *)
IncidentsInv ==
  /\ IsFiniteSet(incidents)
  /\ \A i \in incidents :
       i.id < next_id /\ i.decided <= i.occurred_at /\ i.occurred_at <= clock

(* What a state in memory, or one restored from the incidents, guarantees:  *)
(* last_action_at is no earlier than any attempt, every stored incident is  *)
(* represented by an attempt or is older than the window, and last_action_at *)
(* is no earlier than its decision unless it had left the window when the   *)
(* state was built.                                                         *)
Accounts(st) ==
  /\ IsFiniteSet(st.attempts)
  /\ st.started_at \in 0..clock
  /\ \A a \in st.attempts : a.id < next_id /\ a.at <= st.last_action_at
  /\ st.last_action_at <= clock
  /\ \A i \in incidents :
       \/ \E a \in st.attempts : a.id = i.id /\ i.decided <= a.at
       \/ i.decided + RollingWindow < clock
  /\ \A i \in incidents :
       \/ i.decided <= st.last_action_at
       \/ i.occurred_at + RollingWindow < st.started_at

StateInv == state.present => Accounts(state)

(* A state that waits for something has counted nothing. *)
Waits(st) ==
  \/ st.overheat_active
  \/ st.pending_profile_restore_at # None
  \/ st.restart_deadline # None

(* Unhealthy observations are backed by the streak that was seen. *)
StreakInv ==
  /\ Waits(state) \/ task.pc = "restart" \/ task.then = "defer_restore" =>
       state.unhealthy_observations = 0
  /\ \/ updating /\ ~miner.recovery_policy.automatic_recovery_enabled
     \/ state.unhealthy_observations <= observed.streak
  /\ ~miner.recovery_policy.automatic_recovery_enabled =>
       updating \/ state.unhealthy_observations = 0
  /\ RestartOnlyAfterFaultyStreak

(* A put-off restore is put off by a full cooldown from the last overheat. *)
ThermalInv ==
  /\ observed.last_overheat <= clock
  /\ observed.last_overheat # None =>
       /\ state.pending_profile_restore_at # None =>
            state.pending_profile_restore_at >= observed.last_overheat + Cooldown
       /\ task.then = "defer_restore" => task.now >= observed.last_overheat
  /\ ThermalRestoreWaitsForCooldown

(* Outside an update, what is under way or put off is still switched on. *)
SwitchInv ==
  ~updating =>
    /\ task.pc \in {"restart", "record", "restore"} => miner.enabled
    /\ task.pc = "restart" => miner.recovery_policy.automatic_recovery_enabled
    /\ \/ task.pc = "restore"
       \/ task.then # "return"
       \/ state.pending_profile_restore_at # None
       => miner.recovery_policy.automatic_profile_restore_enabled

IInv ==
  /\ TypeOK
  /\ TaskInv
  /\ IncidentsInv
  /\ StateInv
  /\ StreakInv
  /\ ThermalInv
  /\ SwitchInv

-----------------------------------------------------------------------------
(* Helpers: maxima, restored states, and the state an evaluation works on. *)

(* The absent state and the missing snapshot are well typed. *)
LEMMA NoStateTyped == NoState \in StateType
<1>1. 0 \in 0..ConsecutiveUnhealthyRequired
  BY PolicyAssumption
<1> QED
  BY <1>1 DEF NoState, StateType

LEMMA NoSnapshotTyped == NoSnapshot \in SnapshotType
  BY DEF NoSnapshot, SnapshotType, None

(* A nonempty set of naturals with an upper bound has a greatest element. *)
LEMMA BoundedSetHasMax ==
  ASSUME NEW n \in Nat, NEW S \in SUBSET (0..n), S # {}
  PROVE  \E t \in S : \A u \in S : u <= t
<1> DEFINE R == OpToRel(<, Nat)
           T == {n - t : t \in S}
<1>1. T \subseteq Nat /\ T # {}
  <2>1. PICK s \in S : TRUE
    OBVIOUS
  <2>2. n - s \in T
    BY <2>1
  <2>3. \A t \in S : n - t \in Nat
    OBVIOUS
  <2> QED
    BY <2>2, <2>3
<1>2. \E x \in T : \A y \in T : ~ (<<y, x>> \in R)
  <2> HIDE DEF R
  <2>1. IsWellFoundedOn(R, Nat)
    BY NatLessThanWellFounded DEF R
  <2> QED
    BY <1>1, <2>1, WFMin
<1>3. PICK t \in S : \A y \in T : ~ (<<y, n - t>> \in R)
  BY <1>2
<1>4. ASSUME NEW u \in S PROVE u <= t
  <2>1. n - u \in T /\ n - t \in T /\ n - u \in Nat /\ n - t \in Nat
    BY <1>1
  <2>2. ~(n - u < n - t)
    BY <1>3, <2>1 DEF OpToRel
  <2> QED
    BY <2>2
<1> QED
  BY <1>4

(* The attempts a restored state starts from: their number is finite, and  *)
(* the last action is the latest of them.                                  *)
LEMMA RestoredAccounts ==
  ASSUME TypeOK, IncidentsInv
  PROVE  RestoredState \in StateType /\ Accounts(RestoredState)
<1> DEFINE f == [i \in CountedIncidents |-> [id |-> i.id, at |-> i.occurred_at]]
           A == {[id |-> i.id, at |-> i.occurred_at] : i \in CountedIncidents}
<1> USE PolicyAssumption
<1>1. CountedIncidents \subseteq incidents /\ incidents \subseteq Incident
  BY DEF CountedIncidents, TypeOK
<1>2. A \in SUBSET Attempt /\ \A a \in A : a.at \in 0..clock
  BY <1>1 DEF Attempt, Incident, Time, IncidentsInv, TypeOK
<1>3. IsFiniteSet(A)
  <2>1. IsFiniteSet(CountedIncidents)
    BY <1>1, FS_Subset DEF IncidentsInv
  <2>2. f \in Surjection(CountedIncidents, A)
    BY DEF Surjection
  <2> QED
    BY <2>1, <2>2, FS_Surjection
<1>4. CountedIncidents # {} =>
        /\ LastOccurred \in {i.occurred_at : i \in CountedIncidents}
        /\ \A i \in CountedIncidents : i.occurred_at <= LastOccurred
  <2> SUFFICES ASSUME CountedIncidents # {}
               PROVE  \E t \in {i.occurred_at : i \in CountedIncidents} :
                        \A i \in CountedIncidents : i.occurred_at <= t
    BY DEF LastOccurred
  <2> DEFINE S == {i.occurred_at : i \in CountedIncidents}
  <2>1. S \in SUBSET (0..MaxClock) /\ S # {}
    BY <1>1 DEF Incident, Time
  <2>2. PICK t \in S : \A u \in S : u <= t
    <3> HIDE DEF S
    <3> QED BY <2>1, BoundedSetHasMax
  <2> QED
    BY <2>2
<1>5. clock \in Time /\ clock \in Nat /\ clock \in 0..clock
  BY DEF TypeOK, Time
<1>6. RestoredState.last_action_at = (IF CountedIncidents = {} THEN None ELSE LastOccurred)
      /\ RestoredState.attempts = A /\ RestoredState.started_at = clock
      /\ RestoredState.present
  BY DEF RestoredState, FreshState, NoState
<1>7. RestoredState.last_action_at \in Time \cup {None} /\ RestoredState.last_action_at <= clock
  BY <1>1, <1>4, <1>5, <1>6 DEF Incident, IncidentsInv, None, Time
<1>8. RestoredState \in StateType
  <2>1. RestoredState =
          [FreshState EXCEPT !.attempts = RestoredState.attempts,
                             !.last_action_at = RestoredState.last_action_at]
    BY <1>6 DEF RestoredState, FreshState, NoState
  <2>2. FreshState \in StateType
    BY <1>5, NoStateTyped DEF FreshState, StateType
  <2> HIDE DEF A
  <2> QED
    BY <1>2, <1>6, <1>7, <2>1, <2>2 DEF StateType
<1>9. \A a \in A : a.id < next_id /\ a.at <= RestoredState.last_action_at
  BY <1>1, <1>4, <1>6 DEF IncidentsInv
<1>10. ASSUME NEW i \in incidents
       PROVE  \/ \E a \in A : a.id = i.id /\ i.decided <= a.at
              \/ i.decided + RollingWindow < clock
  <2>1. CASE i \in CountedIncidents
    <3>1. [id |-> i.id, at |-> i.occurred_at] \in A
      BY <2>1
    <3> QED
      BY <3>1 DEF IncidentsInv
  <2>2. CASE i \notin CountedIncidents
    BY <1>1, <1>5, <2>2 DEF CountedIncidents, IncidentsInv, Incident, Time
  <2> QED
    BY <2>1, <2>2
<1>11. ASSUME NEW i \in incidents
       PROVE  \/ i.decided <= RestoredState.last_action_at
              \/ i.occurred_at + RollingWindow < RestoredState.started_at
  <2>1. CASE i \in CountedIncidents
    <3>1. i.decided <= i.occurred_at /\ i.occurred_at <= LastOccurred
      BY <1>4, <2>1 DEF IncidentsInv
    <3>2. i.decided \in Nat /\ i.occurred_at \in Nat
      BY <1>1 DEF Incident, Time
    <3>3. RestoredState.last_action_at = LastOccurred
      BY <1>6, <2>1
    <3>4. LastOccurred \in Nat
      BY <1>1, <1>4, <2>1 DEF Incident, Time
    <3> QED
      BY <3>1, <3>2, <3>3, <3>4
  <2>2. CASE i \notin CountedIncidents
    BY <1>1, <1>5, <1>6, <2>2 DEF CountedIncidents, Incident, Time
  <2> QED
    BY <2>1, <2>2
<1> QED
  BY <1>3, <1>5, <1>6, <1>7, <1>8, <1>9, <1>10, <1>11 DEF Accounts

(* Engine is a well-typed state that accounts for every stored incident,   *)
(* and waits, counts or puts off only what the invariant allows.           *)
LEMMA EngineAccounts ==
  ASSUME IInv
  PROVE  /\ Engine \in StateType
         /\ Engine.present
         /\ Accounts(Engine)
         /\ Waits(Engine) => Engine.unhealthy_observations = 0
         /\ Engine.unhealthy_observations # 0 => Engine = state
         /\ Engine.pending_profile_restore_at # None => Engine = state
<1>1. CASE state.present
  BY <1>1 DEF Engine, IInv, TypeOK, StateInv, StreakInv
<1>2. CASE ~state.present
  <2>1. Engine = RestoredState
    BY <1>2 DEF Engine
  <2>2. RestoredState.present /\ ~Waits(RestoredState)
        /\ RestoredState.unhealthy_observations = 0
        /\ RestoredState.pending_profile_restore_at = None
    BY DEF RestoredState, FreshState, NoState, Waits
  <2> QED
    BY <2>1, <2>2, RestoredAccounts DEF IInv
<1> QED
  BY <1>1, <1>2

-----------------------------------------------------------------------------
(* The steps of the environment.                                           *)

LEMMA ClockAndOperatorSteps ==
  ASSUME IInv,
         \/ Tick \/ CaptureProfile \/ Disable \/ Enable
         \/ \E p \in Policies : SetRecoveryPolicy(p)
  PROVE  IInv'
<1> USE PolicyAssumption DEF operator, history
<1>1. /\ clock' \in {clock, clock + 1} /\ clock' \in Time /\ clock \in Time
      /\ UNCHANGED <<state, task, incidents, history, snapshot>>
  BY DEF IInv, TypeOK, Tick, CaptureProfile, Disable, Enable, SetRecoveryPolicy, Time
<1>2. /\ miner' \in [enabled : BOOLEAN, recovery_policy : PolicyType, has_profile : BOOLEAN]
      /\ updating' \in BOOLEAN
  BY DEF IInv, TypeOK, Tick, CaptureProfile, Disable, Enable, SetRecoveryPolicy
<1>3. \/ updating' = TRUE
      \/ /\ updating' = updating
         /\ miner'.recovery_policy = miner.recovery_policy
         /\ miner.enabled => miner'.enabled
  BY DEF IInv, TypeOK, Tick, CaptureProfile, Disable, Enable, SetRecoveryPolicy
<1>4. updating => updating'
  BY DEF Tick, CaptureProfile, Disable, Enable, SetRecoveryPolicy
<1>5. TypeOK'
  BY <1>1, <1>2 DEF IInv, TypeOK
<1>6. TaskInv'
  BY <1>1 DEF IInv, TaskInv, InRestart, Time
<1>7. IncidentsInv'
  BY <1>1 DEF IInv, IncidentsInv, TypeOK, Incident, Time
<1>8. StateInv'
  <2> SUFFICES ASSUME state.present PROVE Accounts(state)'
    BY <1>1 DEF StateInv
  <2>1. Accounts(state)
    BY DEF IInv, StateInv
  <2> QED
    BY <1>1, <2>1 DEF Accounts, Time, IInv, TypeOK, StateType, Incident, None
<1>9. StreakInv'
  <2>1. /\ StreakInv /\ updating \in BOOLEAN
        /\ state.unhealthy_observations \in Nat
        /\ observed.streak \in Nat
    BY DEF IInv, TypeOK, StateType
  <2>2. /\ Waits(state)' = Waits(state)
        /\ RestartOnlyAfterFaultyStreak' = RestartOnlyAfterFaultyStreak
    BY <1>1 DEF Waits, RestartOnlyAfterFaultyStreak
  <2>3. CASE updating'
    <3>1. state.unhealthy_observations <= observed.streak
          \/ ~miner'.recovery_policy.automatic_recovery_enabled
      <4>1. CASE ~updating
        BY <2>1, <4>1 DEF StreakInv
      <4>2. CASE updating
        <5>1. miner'.recovery_policy = miner.recovery_policy
          BY <4>2 DEF IInv, TypeOK, Tick, CaptureProfile, Disable, Enable,
                      SetRecoveryPolicy
        <5> QED
          BY <2>1, <5>1 DEF StreakInv
      <4> QED
        BY <4>1, <4>2
    <3> QED
      BY <1>1, <2>1, <2>2, <2>3, <3>1 DEF StreakInv
  <2>4. CASE ~updating'
    BY <1>1, <1>3, <1>4, <2>1, <2>2, <2>4 DEF StreakInv
  <2> QED
    BY <2>3, <2>4
<1>10. ThermalInv'
  BY <1>1 DEF IInv, ThermalInv, ThermalRestoreWaitsForCooldown, TypeOK, Time, None
<1>11. SwitchInv'
  BY <1>1, <1>2, <1>3, <1>4 DEF IInv, SwitchInv, TypeOK
<1> QED
  BY <1>5, <1>6, <1>7, <1>8, <1>9, <1>10, <1>11 DEF IInv

LEMMA PollSteps ==
  ASSUME IInv, PollFails \/ \E s \in Snapshots : Poll(s)
  PROVE  IInv'
<1> USE PolicyAssumption DEF operator, history
<1>1. /\ snapshot' \in SnapshotType
      /\ task' = (IF task.pc = "idle" THEN ScheduledTask ELSE task)
      /\ UNCHANGED <<clock, miner, updating, state, incidents, history>>
  <2>1. snapshot' \in Snapshots \cup {NoSnapshot}
    BY DEF Poll, PollFails
  <2>2. snapshot' \in SnapshotType
    BY <2>1, NoSnapshotTyped
  <2> QED
    BY <2>2 DEF Poll, PollFails, Schedule
<1>2. ScheduledTask \in TaskType /\ ScheduledTask.pc = "scheduled"
      /\ ScheduledTask.then = "return" /\ ScheduledTask.incident = "none"
  BY DEF ScheduledTask, IdleTask, TaskType, OtherIncident
<1>3. TypeOK'
  BY <1>1, <1>2 DEF IInv, TypeOK
<1>4. TaskInv'
  BY <1>1, <1>2 DEF IInv, TaskInv, InRestart, RestartOutcome
<1>5. IncidentsInv' /\ StateInv'
  BY <1>1 DEF IInv, IncidentsInv, StateInv, Accounts
<1>6. StreakInv'
  BY <1>1, <1>2 DEF IInv, StreakInv, Waits, RestartOnlyAfterFaultyStreak
<1>7. ThermalInv'
  BY <1>1, <1>2 DEF IInv, ThermalInv, ThermalRestoreWaitsForCooldown
<1>8. SwitchInv'
  BY <1>1, <1>2 DEF IInv, SwitchInv
<1> QED
  BY <1>3, <1>4, <1>5, <1>6, <1>7, <1>8 DEF IInv

LEMMA ForgetSteps ==
  ASSUME IInv, ForgetMiner \/ HomeAssistantRestart
  PROVE  IInv'
<1> USE PolicyAssumption DEF operator, history
<1>1. /\ state' = NoState /\ task' = IdleTask /\ updating' = FALSE
      /\ snapshot' \in SnapshotType
      /\ UNCHANGED <<clock, miner, incidents, history>>
  BY NoSnapshotTyped DEF ForgetMiner, Forget, HomeAssistantRestart, IInv, TypeOK
<1>2. /\ IdleTask \in TaskType /\ IdleTask.pc = "idle" /\ IdleTask.then = "return"
      /\ IdleTask.incident = "none"
  BY DEF IdleTask, TaskType, OtherIncident
<1>3. /\ ~NoState.present /\ ~Waits(NoState) /\ NoState.unhealthy_observations = 0
      /\ NoState.pending_profile_restore_at = None
  BY DEF NoState, Waits
<1>4. TypeOK'
  BY <1>1, <1>2, NoStateTyped DEF IInv, TypeOK
<1>5. TaskInv'
  BY <1>1, <1>2 DEF IInv, TaskInv, InRestart, RestartOutcome
<1>6. IncidentsInv' /\ StateInv'
  BY <1>1, <1>3 DEF IInv, IncidentsInv, StateInv
<1>7. StreakInv'
  BY <1>1, <1>2, <1>3 DEF IInv, StreakInv, Waits, RestartOnlyAfterFaultyStreak, TypeOK
<1>8. ThermalInv'
  BY <1>1, <1>2, <1>3 DEF IInv, ThermalInv, ThermalRestoreWaitsForCooldown
<1>9. SwitchInv'
  BY <1>1, <1>2, <1>3 DEF IInv, SwitchInv
<1> QED
  BY <1>4, <1>5, <1>6, <1>7, <1>8, <1>9 DEF IInv

LEMMA EvictStep ==
  ASSUME IInv, EvictIncident
  PROVE  IInv'
<1> USE DEF operator, history
<1>1. /\ incidents' \in SUBSET incidents
      /\ UNCHANGED <<clock, miner, updating, snapshot, state, task, history>>
  BY DEF EvictIncident
<1>2. TypeOK'
  BY <1>1 DEF IInv, TypeOK
<1>3. TaskInv'
  BY <1>1 DEF IInv, TaskInv, InRestart
<1>4. IncidentsInv'
  BY <1>1, FS_Subset DEF IInv, IncidentsInv
<1>5. StateInv'
  BY <1>1 DEF IInv, StateInv, Accounts
<1>6. StreakInv' /\ ThermalInv' /\ SwitchInv'
  BY <1>1 DEF IInv, StreakInv, Waits, RestartOnlyAfterFaultyStreak, ThermalInv,
              ThermalRestoreWaitsForCooldown, SwitchInv
<1> QED
  BY <1>2, <1>3, <1>4, <1>5, <1>6 DEF IInv

-----------------------------------------------------------------------------
(* The steps of an evaluation, up to its first await.                      *)

(* What every way through an evaluation has in common. *)
LEMMA EvaluationFrame ==
  ASSUME IInv, NEW branch, Evaluating(branch)
  PROVE  /\ UNCHANGED <<clock, miner, updating, snapshot, incidents, restarts>>
         /\ task.pc = "scheduled"
         /\ Branch = branch
         /\ observed' \in [streak : 0..ConsecutiveUnhealthyRequired,
                           last_overheat : Time \cup {None}]
         /\ observed'.last_overheat <= clock
         /\ observed'.streak = IF Faulty(snapshot) THEN Increment(observed.streak) ELSE 0
         /\ branch # "forget" => Eligible
         /\ branch \notin {"forget", "overheat"} =>
              SnapshotCondition(snapshot) # "overheat"
              /\ observed'.last_overheat = observed.last_overheat
<1> USE PolicyAssumption DEF operator
<1>1. /\ UNCHANGED <<clock, miner, updating, snapshot, incidents, restarts>>
      /\ task.pc = "scheduled" /\ Branch = branch /\ Observe
  BY DEF Evaluating
<1>2. /\ observed'.last_overheat = IF snapshot.overheat THEN clock ELSE observed.last_overheat
      /\ observed'.streak = IF Faulty(snapshot) THEN Increment(observed.streak) ELSE 0
  BY <1>1 DEF Observe
<1>3. Increment(observed.streak) \in 0..ConsecutiveUnhealthyRequired
  BY DEF Increment, IInv, TypeOK
<1>4. observed' \in [streak : 0..ConsecutiveUnhealthyRequired,
                    last_overheat : Time \cup {None}]
  <2> SUFFICES /\ (IF Faulty(snapshot) THEN Increment(observed.streak) ELSE 0)
                    \in 0..ConsecutiveUnhealthyRequired
               /\ (IF snapshot.overheat THEN clock ELSE observed.last_overheat)
                    \in Time \cup {None}
    BY <1>1 DEF Observe
  <2> QED
    BY <1>3 DEF IInv, TypeOK
<1>5. observed'.last_overheat <= clock
  BY <1>2 DEF IInv, TypeOK, ThermalInv, Time
<1>6. branch # "forget" => Eligible
  BY <1>1 DEF Branch
<1>7. branch \notin {"forget", "overheat"} => SnapshotCondition(snapshot) # "overheat"
  BY <1>1 DEF Branch
<1>8. snapshot.overheat => SnapshotCondition(snapshot) = "overheat"
  BY DEF SnapshotCondition
<1> QED
  BY <1>1, <1>2, <1>4, <1>5, <1>6, <1>7, <1>8

(* An evaluation that decides no restart keeps the invariant when the state *)
(* and the task it leaves behind do.                                        *)
LEMMA EvaluationKeeps ==
  ASSUME IInv, NEW branch, Evaluating(branch),
         UNCHANGED next_id,
         state' \in StateType,
         state'.present => Accounts(state'),
         task' \in TaskType,
         task'.pc # "restart",
         task'.incident \notin RestartOutcome,
         task'.pc \in {"record", "restore"} =>
           /\ task'.now = clock
           /\ state'.present
           /\ ~updating => miner.enabled,
         task'.then # "return" => task'.pc = "record",
         \/ state'.unhealthy_observations = 0
         \/ /\ ~Waits(state')
            /\ task'.then = "return"
            /\ miner.recovery_policy.automatic_recovery_enabled
            /\ state'.unhealthy_observations <= observed'.streak
         \/ /\ ~Waits(state')
            /\ task'.then = "return"
            /\ updating /\ ~miner.recovery_policy.automatic_recovery_enabled,
         state'.pending_profile_restore_at # None /\ observed'.last_overheat # None =>
             state'.pending_profile_restore_at >= observed'.last_overheat + Cooldown,
         task'.pc = "restore" /\ task'.thermal /\ observed'.last_overheat # None =>
           clock >= observed'.last_overheat + Cooldown,
         \/ task'.pc = "restore"
         \/ task'.then # "return"
         \/ state'.pending_profile_restore_at # None
         => updating \/ miner.recovery_policy.automatic_profile_restore_enabled
  PROVE  IInv'
<1> USE PolicyAssumption
<1>1. /\ UNCHANGED <<clock, miner, updating, snapshot, incidents, restarts>>
      /\ observed' \in [streak : 0..ConsecutiveUnhealthyRequired,
                        last_overheat : Time \cup {None}]
      /\ observed'.last_overheat <= clock
  BY EvaluationFrame
<1>2. clock \in Nat /\ clock \in 0..clock
  BY DEF IInv, TypeOK, Time
<1>3. TypeOK'
  BY <1>1 DEF IInv, TypeOK
<1>4. TaskInv'
  BY <1>1, <1>2 DEF IInv, TaskInv, InRestart
<1>5. IncidentsInv' /\ StateInv'
  BY <1>1 DEF IInv, IncidentsInv, StateInv, Accounts
<1>6. StreakInv'
  <2>1. observed'.streak \in Nat /\ state'.unhealthy_observations \in Nat
    BY <1>1 DEF StateType
  <2>2. Waits(state)' = Waits(state')
    BY DEF Waits
  <2> QED
    BY <1>1, <2>1, <2>2 DEF StreakInv, RestartOnlyAfterFaultyStreak
<1>7. ThermalInv'
  BY <1>1, <1>2 DEF ThermalInv, ThermalRestoreWaitsForCooldown
<1>8. SwitchInv'
  BY <1>1 DEF SwitchInv
<1> QED
  BY <1>3, <1>4, <1>5, <1>6, <1>7, <1>8 DEF IInv

(* The tasks an evaluation leaves behind. *)
LEMMA TasksTyped ==
  ASSUME TypeOK
  PROVE  /\ IdleTask \in TaskType /\ IdleTask.pc = "idle"
         /\ IdleTask.then = "return" /\ IdleTask.incident = "none"
         /\ \A incident \in OtherIncident, then \in {"return", "restore", "defer_restore"} :
              LET t == RecordTask(incident, then)
              IN  t \in TaskType /\ t.pc = "record" /\ t.incident = incident
                  /\ t.incident \notin RestartOutcome /\ t.then = then /\ t.now = clock
         /\ \A now \in Time, thermal \in BOOLEAN :
              LET t == RestoreTask(now, thermal)
              IN  t \in TaskType /\ t.pc = "restore" /\ t.incident = "none"
                  /\ t.then = "return" /\ t.now = now /\ t.thermal = thermal
<1>1. IdleTask \in TaskType /\ IdleTask.pc = "idle"
      /\ IdleTask.then = "return" /\ IdleTask.incident = "none"
  BY DEF IdleTask, TaskType, OtherIncident
<1>2. ASSUME NEW incident \in OtherIncident, NEW then \in {"return", "restore", "defer_restore"}
      PROVE  LET t == RecordTask(incident, then)
             IN  t \in TaskType /\ t.pc = "record" /\ t.incident = incident
                 /\ t.incident \notin RestartOutcome /\ t.then = then /\ t.now = clock
  <2> DEFINE t == RecordTask(incident, then)
  <2>1. IdleTask \in TaskType
    BY <1>1
  <2>2. clock \in Time /\ incident \notin RestartOutcome
    BY DEF TypeOK, OtherIncident, RestartOutcome
  <2>3. t \in TaskType
    BY <2>1, <2>2 DEF RecordTask, TaskType
  <2>4. /\ t.pc = "record" /\ t.incident = incident /\ t.then = then /\ t.now = clock
    BY <2>1 DEF RecordTask, TaskType
  <2> QED
    BY <2>2, <2>3, <2>4
<1>3. ASSUME NEW now \in Time, NEW thermal \in BOOLEAN
      PROVE  LET t == RestoreTask(now, thermal)
             IN  t \in TaskType /\ t.pc = "restore" /\ t.incident = "none"
                 /\ t.then = "return" /\ t.now = now /\ t.thermal = thermal
  BY DEF RestoreTask, IdleTask, TaskType, OtherIncident
<1> QED
  BY <1>1, <1>2, <1>3

LEMMA EvaluateForgetStep == ASSUME IInv, EvaluateForget PROVE IInv'
<1>1. state' = NoState /\ task' = IdleTask /\ UNCHANGED next_id /\ Evaluating("forget")
  BY DEF EvaluateForget, Return
<1>2. /\ NoState.unhealthy_observations = 0 /\ ~NoState.present
      /\ NoState.pending_profile_restore_at = None
  BY DEF NoState
<1>3. TypeOK
  BY DEF IInv
<1> QED
  BY <1>1, <1>2, <1>3, NoStateTyped, TasksTyped, EvaluationKeeps DEF RestartOutcome

LEMMA EvaluateOverheatStep == ASSUME IInv, EvaluateOverheat PROVE IInv'
<1> USE PolicyAssumption
<1> DEFINE st == [Engine EXCEPT !.unhealthy_observations = 0,
                                !.pending_profile_restore_at = None,
                                !.overheat_active = TRUE]
<1>1. Evaluating("overheat") /\ UNCHANGED next_id /\ state' = st
      /\ task' \in {IdleTask, RecordTask("detected", "return")}
  BY DEF EvaluateOverheat
<1>2. Engine \in StateType /\ Engine.present /\ Accounts(Engine)
  BY EngineAccounts
<1>3. /\ st \in StateType /\ st.unhealthy_observations = 0
      /\ st.pending_profile_restore_at = None /\ st.present
  <2>1. /\ st.unhealthy_observations = 0 /\ st.present
        /\ st.pending_profile_restore_at = None
    BY <1>2 DEF StateType
  <2>2. 0 \in 0..ConsecutiveUnhealthyRequired /\ None \in Nat \cup {None}
    OBVIOUS
  <2>3. st \in StateType
    BY <1>2, <2>2 DEF StateType
  <2> QED
    BY <2>1, <2>3
<1>4. Accounts(st)
  BY <1>2 DEF Accounts, StateType
<1>5. miner.enabled
  BY <1>1, EvaluationFrame DEF Eligible
<1>6. /\ task' \in TaskType /\ task'.pc \in {"idle", "record"} /\ task'.then = "return"
      /\ task'.incident \notin RestartOutcome
      /\ task'.pc = "record" => task'.now = clock
  BY <1>1, TasksTyped DEF IInv, OtherIncident, RestartOutcome
<1> HIDE DEF st
<1> QED
  BY <1>1, <1>3, <1>4, <1>5, <1>6, EvaluationKeeps

LEMMA EvaluateOverheatClearStep == ASSUME IInv, EvaluateOverheatClear PROVE IInv'
<1> USE PolicyAssumption
<1> DEFINE st == [Engine EXCEPT !.overheat_active = FALSE,
                                !.unhealthy_observations = 0]
<1>1. Evaluating("overheat_clear") /\ UNCHANGED next_id /\ state' = st
      /\ \/ task' = RecordTask("cleared", "return")
         \/ task' = RecordTask("cleared", "defer_restore") /\ RestoreAllowed
  BY DEF EvaluateOverheatClear
<1>2. Engine \in StateType /\ Engine.present /\ Accounts(Engine)
  BY EngineAccounts
<1>2a. Engine.pending_profile_restore_at # None =>
         Engine.pending_profile_restore_at = state.pending_profile_restore_at
  BY EngineAccounts
<1>3. /\ st \in StateType /\ st.unhealthy_observations = 0 /\ st.present
      /\ st.pending_profile_restore_at = Engine.pending_profile_restore_at
  <2>1. /\ st.unhealthy_observations = 0 /\ st.present
        /\ st.pending_profile_restore_at = Engine.pending_profile_restore_at
    BY <1>2 DEF StateType
  <2>2. 0 \in 0..ConsecutiveUnhealthyRequired /\ FALSE \in BOOLEAN
    OBVIOUS
  <2>3. st \in StateType
    BY <1>2, <2>2 DEF StateType
  <2> QED
    BY <2>1, <2>3
<1>4. Accounts(st)
  <2>1. /\ st.attempts = Engine.attempts /\ st.started_at = Engine.started_at
        /\ st.last_action_at = Engine.last_action_at
    BY <1>2 DEF StateType
  <2> HIDE DEF st
  <2> QED
    BY <1>2, <2>1 DEF Accounts
<1>5. miner.enabled /\ observed'.last_overheat = observed.last_overheat
  BY <1>1, EvaluationFrame DEF Eligible
<1>6. /\ task' \in TaskType /\ task'.pc = "record" /\ task'.now = clock
      /\ task'.incident \notin RestartOutcome
      /\ task'.then # "return" => RestoreAllowed
  BY <1>1, TasksTyped DEF IInv, OtherIncident, RestartOutcome
<1>7. st.pending_profile_restore_at # None =>
        /\ observed'.last_overheat # None =>
             st.pending_profile_restore_at >= observed'.last_overheat + Cooldown
        /\ updating \/ miner.recovery_policy.automatic_profile_restore_enabled
  <2> HIDE DEF st
  <2> SUFFICES ASSUME st.pending_profile_restore_at # None
               PROVE  /\ observed'.last_overheat # None =>
                           st.pending_profile_restore_at >= observed'.last_overheat + Cooldown
                      /\ updating \/ miner.recovery_policy.automatic_profile_restore_enabled
    OBVIOUS
  <2>1. /\ state.pending_profile_restore_at # None
        /\ st.pending_profile_restore_at = state.pending_profile_restore_at
    BY <1>2a, <1>3
  <2>2. ThermalInv /\ SwitchInv
    BY DEF IInv
  <2> QED
    BY <1>5, <2>1, <2>2 DEF ThermalInv, SwitchInv
<1> HIDE DEF st
<1> QED
  BY <1>1, <1>3, <1>4, <1>5, <1>6, <1>7, EvaluationKeeps DEF RestoreAllowed

LEMMA EvaluatePendingRestoreStep == ASSUME IInv, EvaluatePendingRestore PROVE IInv'
<1> USE PolicyAssumption
<1> DEFINE st == [Engine EXCEPT !.pending_profile_restore_at = None]
<1>1. Evaluating("pending_restore") /\ UNCHANGED next_id
      /\ \/ state' = Engine /\ task' = IdleTask
         \/ state' = st /\ task' = RestoreTask(clock, TRUE)
            /\ clock >= Engine.pending_profile_restore_at
  BY DEF EvaluatePendingRestore, HandleDeferredRestore, Return
<1>2. Branch = "pending_restore" => Engine.pending_profile_restore_at # None
  BY DEF Branch, RestartBranch
<1>3. /\ Engine \in StateType /\ Engine.present /\ Accounts(Engine)
      /\ Engine.unhealthy_observations = 0
      /\ Engine = state /\ state.pending_profile_restore_at # None
  BY <1>1, <1>2, EngineAccounts, EvaluationFrame DEF Waits
<1>4. /\ st \in StateType /\ st.unhealthy_observations = 0 /\ st.present
      /\ st.pending_profile_restore_at = None
  BY <1>3 DEF StateType
<1>5. Accounts(st)
  BY <1>3 DEF Accounts, StateType
<1>6. miner.enabled /\ observed'.last_overheat = observed.last_overheat
  BY <1>1, EvaluationFrame DEF Eligible
<1>7. /\ observed'.last_overheat # None =>
           state.pending_profile_restore_at >= observed'.last_overheat + Cooldown
      /\ updating \/ miner.recovery_policy.automatic_profile_restore_enabled
  BY <1>3, <1>6 DEF IInv, ThermalInv, SwitchInv
<1>8. clock \in Time
  BY DEF IInv, TypeOK
<1> HIDE DEF st
<1>9. CASE state' = Engine /\ task' = IdleTask
  BY <1>1, <1>3, <1>6, <1>7, <1>9, TasksTyped, EvaluationKeeps DEF IInv, RestartOutcome
<1>10. CASE state' = st /\ task' = RestoreTask(clock, TRUE)
            /\ clock >= Engine.pending_profile_restore_at
  <2>1. /\ task' \in TaskType /\ task'.pc = "restore" /\ task'.now = clock
        /\ task'.then = "return" /\ task'.incident = "none"
    BY <1>8, <1>10, TasksTyped DEF IInv
  <2>2. observed'.last_overheat # None => clock >= observed'.last_overheat + Cooldown
    <3>1. observed'.last_overheat \in Time \cup {None}
      BY <1>1, EvaluationFrame
    <3> QED
      BY <1>3, <1>7, <1>8, <1>10, <3>1 DEF StateType, Time, None
  <2> QED
    BY <1>1, <1>4, <1>5, <1>6, <1>7, <1>10, <2>1, <2>2, EvaluationKeeps DEF RestartOutcome
<1> QED
  BY <1>1, <1>9, <1>10

(* What the invariant says of a state waiting for a restart's verification. *)
LEMMA PendingRestartFacts ==
  ASSUME IInv, Evaluating("pending_restart")
  PROVE  /\ Engine \in StateType /\ Engine.present /\ Accounts(Engine)
         /\ Engine.unhealthy_observations = 0
         /\ Engine.pending_profile_restore_at = None
         /\ miner.enabled
<1>1. Branch = "pending_restart" /\ Eligible
  BY EvaluationFrame
<1>2. Engine.restart_deadline # None /\ Engine.pending_profile_restore_at = None
  BY <1>1 DEF Branch, RestartBranch
<1> QED
  BY <1>1, <1>2, EngineAccounts DEF Waits, Eligible

LEMMA EvaluateVerifiedStep == ASSUME IInv, EvaluateVerified PROVE IInv'
<1> USE PolicyAssumption
<1> DEFINE st == [Engine EXCEPT !.restart_deadline = None]
<1>1. Evaluating("pending_restart") /\ UNCHANGED next_id /\ state' = st
      /\ \/ task' = RecordTask("verified", "return")
         \/ task' = RecordTask("verified", "restore") /\ RestoreAllowed
  BY DEF EvaluateVerified
<1>2. /\ Engine \in StateType /\ Engine.present /\ Accounts(Engine)
      /\ Engine.unhealthy_observations = 0
      /\ Engine.pending_profile_restore_at = None /\ miner.enabled
  BY <1>1, PendingRestartFacts
<1>3. /\ st \in StateType /\ st.unhealthy_observations = 0 /\ st.present
      /\ st.pending_profile_restore_at = None
  BY <1>2 DEF StateType
<1>4. Accounts(st)
  BY <1>2 DEF Accounts, StateType
<1>5. /\ task' \in TaskType /\ task'.pc = "record" /\ task'.now = clock
      /\ task'.incident \notin RestartOutcome
      /\ task'.then # "return" => RestoreAllowed
  BY <1>1, TasksTyped DEF IInv, OtherIncident, RestartOutcome
<1> HIDE DEF st
<1> QED
  BY <1>1, <1>2, <1>3, <1>4, <1>5, EvaluationKeeps DEF RestoreAllowed

LEMMA EvaluateUnverifiedStep == ASSUME IInv, EvaluateUnverified PROVE IInv'
<1> USE PolicyAssumption
<1> DEFINE st == [Engine EXCEPT !.restart_deadline = None, !.unhealthy_observations = 0]
<1>1. Evaluating("pending_restart") /\ UNCHANGED next_id
      /\ \/ state' = st /\ task' = RecordTask("timed_out", "return")
         \/ state' = Engine /\ task' = IdleTask
  BY DEF EvaluateUnverified, HandleUnverified, Return
<1>2. /\ Engine \in StateType /\ Engine.present /\ Accounts(Engine)
      /\ Engine.unhealthy_observations = 0
      /\ Engine.pending_profile_restore_at = None /\ miner.enabled
  BY <1>1, PendingRestartFacts
<1>3. /\ st \in StateType /\ st.unhealthy_observations = 0 /\ st.present
      /\ st.pending_profile_restore_at = None
  BY <1>2 DEF StateType
<1>4. Accounts(st)
  BY <1>2 DEF Accounts, StateType
<1>5. /\ task' \in TaskType /\ task'.pc \in {"record", "idle"} /\ task'.then = "return"
      /\ task'.incident \notin RestartOutcome
      /\ task'.pc = "record" => task'.now = clock
  BY <1>1, TasksTyped DEF IInv, OtherIncident, RestartOutcome
<1> HIDE DEF st
<1> QED
  BY <1>1, <1>2, <1>3, <1>4, <1>5, EvaluationKeeps

(* Past thermal protection and pending restores nothing is put off. *)
LEMMA RestartBranchFacts ==
  ASSUME IInv, NEW branch \in {"observe_only", "well", "unhealthy"}, Evaluating(branch)
  PROVE  /\ Engine \in StateType /\ Engine.present /\ Accounts(Engine)
         /\ ~Waits(Engine) /\ Engine.pending_profile_restore_at = None
         /\ Engine.unhealthy_observations # 0 => Engine = state
         /\ miner.enabled /\ snapshot.ok
         /\ branch = RestartBranch
         /\ branch = "observe_only" <=> ~miner.recovery_policy.automatic_recovery_enabled
<1>1. Branch = branch /\ Eligible
  BY EvaluationFrame
<1>2. branch = RestartBranch /\ ~Engine.overheat_active
      /\ Engine.pending_profile_restore_at = None
  BY <1>1 DEF Branch
<1>3. Engine.restart_deadline = None
  BY <1>2 DEF RestartBranch
<1> QED
  BY <1>1, <1>2, <1>3, EngineAccounts DEF Waits, Eligible, RestartBranch

LEMMA EvaluateObserveOnlyStep == ASSUME IInv, EvaluateObserveOnly PROVE IInv'
<1>1. Evaluating("observe_only") /\ UNCHANGED next_id /\ state' = Engine /\ task' = IdleTask
  BY DEF EvaluateObserveOnly, Return
<1>2. /\ Engine \in StateType /\ Accounts(Engine) /\ ~Waits(Engine)
      /\ Engine.pending_profile_restore_at = None
      /\ Engine.unhealthy_observations # 0 => Engine = state
      /\ ~miner.recovery_policy.automatic_recovery_enabled
  BY <1>1, RestartBranchFacts
<1>3. Engine.unhealthy_observations = 0 \/ updating
  BY <1>2 DEF IInv, StreakInv
<1>4. TypeOK
  BY DEF IInv
<1> QED
  BY <1>1, <1>2, <1>3, <1>4, TasksTyped, EvaluationKeeps DEF RestartOutcome

LEMMA EvaluateWellStep == ASSUME IInv, EvaluateWell PROVE IInv'
<1> USE PolicyAssumption
<1> DEFINE st == [Engine EXCEPT !.unhealthy_observations = 0]
<1>1. Evaluating("well") /\ UNCHANGED next_id /\ state' = st /\ task' = IdleTask
  BY DEF EvaluateWell, Return
<1>2. Engine \in StateType /\ Accounts(Engine) /\ Engine.pending_profile_restore_at = None
  BY <1>1, RestartBranchFacts
<1>3. /\ st \in StateType /\ st.unhealthy_observations = 0
      /\ st.pending_profile_restore_at = None
  BY <1>2 DEF StateType
<1>4. Accounts(st)
  BY <1>2 DEF Accounts, StateType
<1>5. TypeOK
  BY DEF IInv
<1> HIDE DEF st
<1> QED
  BY <1>1, <1>3, <1>4, <1>5, TasksTyped, EvaluationKeeps DEF RestartOutcome

(* An observation that counts is a faulty one by its own fields, so the     *)
(* streak that was seen keeps up with the counter.                          *)
LEMMA CountedFacts ==
  ASSUME IInv, Evaluating("unhealthy")
  PROVE  /\ Counted \in StateType /\ Counted.present /\ Accounts(Counted)
         /\ ~Waits(Counted) /\ Counted.pending_profile_restore_at = None
         /\ Counted.unhealthy_observations <= observed'.streak
         /\ miner.recovery_policy.automatic_recovery_enabled /\ miner.enabled
<1> USE PolicyAssumption
<1>1. /\ Engine \in StateType /\ Engine.present /\ Accounts(Engine) /\ ~Waits(Engine)
      /\ Engine.pending_profile_restore_at = None
      /\ Engine.unhealthy_observations # 0 => Engine = state
      /\ miner.enabled /\ snapshot.ok
      /\ "unhealthy" = RestartBranch
      /\ miner.recovery_policy.automatic_recovery_enabled
  BY RestartBranchFacts
<1>2. Engine.unhealthy_observations \in 0..ConsecutiveUnhealthyRequired
  BY <1>1 DEF StateType
<1>3. Increment(Engine.unhealthy_observations) \in 0..ConsecutiveUnhealthyRequired
  BY <1>2 DEF Increment
<1>4. /\ Counted \in StateType /\ Counted.present
      /\ Counted.unhealthy_observations = Increment(Engine.unhealthy_observations)
      /\ Counted.pending_profile_restore_at = None
  BY <1>1, <1>3 DEF Counted, StateType
<1>5. Accounts(Counted) /\ ~Waits(Counted)
  BY <1>1 DEF Counted, Accounts, Waits, StateType
<1>6. Faulty(snapshot)
  <2>1. snapshot \in SnapshotType
    BY DEF IInv, TypeOK
  <2>2. SnapshotCondition(snapshot) \notin {"overheat", "healthy", "paused", "unknown"}
        /\ ~InStartupGrace(snapshot, Engine)
    BY <1>1, EvaluationFrame DEF RestartBranch
  <2>3. /\ ~snapshot.overheat /\ ~snapshot.paused
        /\ snapshot.fault \/ snapshot.hashrate = "zero"
    BY <2>1, <2>2 DEF SnapshotCondition, SnapshotType
  <2>4. snapshot.uptime # None => snapshot.uptime >= StartupGrace
    BY <2>1, <2>2 DEF InStartupGrace, SnapshotType, None
  <2> QED
    BY <1>1, <2>3, <2>4 DEF Faulty
<1>7. Engine.unhealthy_observations <= observed.streak
  BY <1>1 DEF IInv, StreakInv, TypeOK
<1>8. Increment(Engine.unhealthy_observations) <= Increment(observed.streak)
  BY <1>2, <1>7 DEF Increment, IInv, TypeOK
<1>9. observed'.streak = Increment(observed.streak)
  BY <1>6, EvaluationFrame
<1> QED
  BY <1>1, <1>4, <1>5, <1>8, <1>9

LEMMA EvaluateNotDueStep == ASSUME IInv, EvaluateNotDue PROVE IInv'
<1>1. Evaluating("unhealthy") /\ UNCHANGED next_id /\ state' = Counted /\ task' = IdleTask
  BY DEF EvaluateNotDue, Return
<1>2. TypeOK
  BY DEF IInv
<1> QED
  BY <1>1, <1>2, CountedFacts, TasksTyped, EvaluationKeeps DEF RestartOutcome

(* Pruning drops only attempts that the window no longer reaches. *)
LEMMA PrunedAccounts ==
  ASSUME TypeOK, NEW st \in StateType, Accounts(st), NEW pruned \in StateType,
         pruned.attempts = PruneAttempts(st.attempts),
         pruned.started_at = st.started_at,
         pruned.last_action_at = st.last_action_at
  PROVE  Accounts(pruned)
<1> USE PolicyAssumption
<1>1. pruned.attempts \subseteq st.attempts
  BY DEF PruneAttempts
<1>2. IsFiniteSet(pruned.attempts)
  BY <1>1, FS_Subset DEF Accounts
<1>3. ASSUME NEW i \in incidents
      PROVE  \/ \E a \in pruned.attempts : a.id = i.id /\ i.decided <= a.at
             \/ i.decided + RollingWindow < clock
  <2>1. i.decided \in Nat /\ clock \in Nat
    BY DEF TypeOK, Incident, Time
  <2>2. CASE i.decided + RollingWindow < clock
    BY <2>2
  <2>3. CASE \E a \in st.attempts : a.id = i.id /\ i.decided <= a.at
    <3>1. PICK a \in st.attempts : a.id = i.id /\ i.decided <= a.at
      BY <2>3
    <3>2. a.at \in Nat
      BY <3>1 DEF StateType, Attempt, Time
    <3>3. a \in pruned.attempts \/ a.at < clock - RollingWindow
      BY <2>1, <3>2 DEF PruneAttempts
    <3> QED
      BY <2>1, <3>1, <3>2, <3>3
  <2> QED
    BY <2>2, <2>3 DEF Accounts
<1> QED
  BY <1>1, <1>2, <1>3 DEF Accounts

LEMMA EvaluateSuppressedStep == ASSUME IInv, EvaluateSuppressed PROVE IInv'
<1> USE PolicyAssumption
<1> DEFINE st == [Counted EXCEPT !.attempts = Remaining, !.attempt_limit_reported = TRUE]
<1>1. Evaluating("unhealthy") /\ UNCHANGED next_id /\ state' = st
      /\ task' \in {IdleTask, RecordTask("suppressed", "return")}
  BY DEF EvaluateSuppressed
<1>2. /\ Counted \in StateType /\ Counted.present /\ Accounts(Counted)
      /\ ~Waits(Counted) /\ Counted.pending_profile_restore_at = None
      /\ Counted.unhealthy_observations <= observed'.streak
      /\ miner.recovery_policy.automatic_recovery_enabled /\ miner.enabled
  BY <1>1, CountedFacts
<1>3. Engine \in StateType /\ Counted.attempts = Engine.attempts
  BY EngineAccounts DEF Counted, StateType
<1>4. Remaining \in SUBSET Attempt
  BY <1>3 DEF Remaining, PruneAttempts, StateType
<1>5. /\ st.attempts = Remaining /\ st.started_at = Counted.started_at
      /\ st.last_action_at = Counted.last_action_at
      /\ st.unhealthy_observations = Counted.unhealthy_observations
      /\ st.overheat_active = Counted.overheat_active
      /\ st.restart_deadline = Counted.restart_deadline
      /\ st.pending_profile_restore_at = Counted.pending_profile_restore_at
      /\ st.present = Counted.present
  BY <1>2 DEF StateType
<1>6. st \in StateType
  BY <1>2, <1>4 DEF StateType
<1> HIDE DEF st
<1>7. Accounts(st)
  BY <1>2, <1>3, <1>5, <1>6, PrunedAccounts DEF Remaining, IInv
<1>8. ~Waits(st)
  BY <1>2, <1>5 DEF Waits
<1>9. /\ task' \in TaskType /\ task'.pc \in {"idle", "record"} /\ task'.then = "return"
      /\ task'.incident \notin RestartOutcome
      /\ task'.pc = "record" => task'.now = clock
  BY <1>1, TasksTyped DEF IInv, OtherIncident, RestartOutcome
<1> QED
  BY <1>1, <1>2, <1>5, <1>6, <1>7, <1>8, <1>9, EvaluationKeeps

(* The new restart is accounted for before its answer is awaited. *)
LEMMA EvaluateRestartStep == ASSUME IInv, EvaluateRestart PROVE IInv'
<1> USE PolicyAssumption
<1> DEFINE a0 == [id |-> next_id, at |-> clock]
           st == [Counted EXCEPT !.unhealthy_observations = 0,
                                 !.last_action_at = clock,
                                 !.attempts = Remaining \cup {a0},
                                 !.attempt_limit_reported = FALSE]
<1>1. /\ Evaluating("unhealthy") /\ next_id < MaxRestarts /\ next_id' = next_id + 1
      /\ Due /\ state' = st
      /\ task' = [IdleTask EXCEPT !.pc = "restart", !.now = clock, !.id = next_id]
  BY DEF EvaluateRestart
<1>2. /\ Counted \in StateType /\ Counted.present /\ Accounts(Counted)
      /\ ~Waits(Counted) /\ Counted.pending_profile_restore_at = None
      /\ Counted.unhealthy_observations <= observed'.streak
      /\ miner.recovery_policy.automatic_recovery_enabled /\ miner.enabled
  BY <1>1, CountedFacts
<1>3. /\ UNCHANGED <<clock, miner, updating, snapshot, incidents, restarts>>
      /\ observed' \in [streak : 0..ConsecutiveUnhealthyRequired,
                        last_overheat : Time \cup {None}]
      /\ observed'.last_overheat <= clock
  BY <1>1, EvaluationFrame
<1>4. /\ clock \in Time /\ clock \in Nat /\ next_id \in Nat /\ next_id \in 0..MaxRestarts
      /\ next_id' \in 0..MaxRestarts /\ a0 \in Attempt /\ restarts \in Nat
  BY <1>1 DEF IInv, TypeOK, Time, Attempt
<1>5. Engine \in StateType /\ Counted.attempts = Engine.attempts
  BY EngineAccounts DEF Counted, StateType
<1>6. Remaining \in SUBSET Attempt /\ Remaining = PruneAttempts(Counted.attempts)
  BY <1>5 DEF Remaining, PruneAttempts, StateType
<1>7. /\ st.unhealthy_observations = 0 /\ st.last_action_at = clock
      /\ st.attempts = Remaining \cup {a0} /\ st.present = Counted.present
      /\ st.started_at = Counted.started_at
      /\ st.overheat_active = Counted.overheat_active
      /\ st.restart_deadline = Counted.restart_deadline
      /\ st.pending_profile_restore_at = Counted.pending_profile_restore_at
  BY <1>2 DEF StateType
<1>8. st \in StateType
  <2>1. 0 \in 0..ConsecutiveUnhealthyRequired /\ Remaining \cup {a0} \in SUBSET Attempt
    BY <1>4, <1>6
  <2> HIDE DEF a0
  <2> QED
    BY <1>2, <1>4, <2>1 DEF StateType
<1> HIDE DEF st
<1>9. /\ task' \in TaskType /\ task'.pc = "restart" /\ task'.now = clock
      /\ task'.id = next_id /\ task'.sent = FALSE /\ task'.then = "return"
  BY <1>1, <1>4, TasksTyped DEF IInv, IdleTask, TaskType
<1>10. TypeOK'
  BY <1>1, <1>3, <1>4, <1>8, <1>9 DEF IInv, TypeOK
<1>11. TaskInv'
  <2>1. \A i \in incidents : i.id # next_id
    BY <1>4 DEF IInv, IncidentsInv, TypeOK, Incident
  <2>2. a0 \in st.attempts /\ a0.id = next_id /\ a0.at = clock
    BY <1>7
  <2>3. clock \in 0..clock /\ st.present /\ restarts <= next_id
    BY <1>2, <1>4, <1>7 DEF IInv, TaskInv
  <2> HIDE DEF a0
  <2> QED
    BY <1>1, <1>3, <1>4, <1>9, <2>1, <2>2, <2>3 DEF TaskInv, InRestart
<1>12. IncidentsInv'
  BY <1>1, <1>3, <1>4 DEF IInv, IncidentsInv, TypeOK, Incident
<1>13. StateInv'
  <2>1. IsFiniteSet(Remaining)
    BY <1>2, <1>6, FS_Subset DEF Accounts, PruneAttempts
  <2>2. IsFiniteSet(Remaining \cup {a0})
    BY <2>1, FS_AddElement
  <2>3. \A a \in Remaining \cup {a0} : a.id < next_id + 1 /\ a.at <= clock
    <3>1. \A a \in Remaining : a.id < next_id /\ a.at <= Counted.last_action_at
      BY <1>2, <1>6 DEF Accounts, PruneAttempts
    <3>2. Counted.last_action_at <= clock /\ Counted.last_action_at \in Int
      BY <1>2 DEF Accounts, StateType, Time, None
    <3>3. \A a \in Remaining : a.id \in Nat /\ a.at \in Nat
      BY <1>6 DEF Attempt, Time
    <3> QED
      BY <1>4, <3>1, <3>2, <3>3
  <2>4. ASSUME NEW i \in incidents
        PROVE  \/ \E a \in Remaining : a.id = i.id /\ i.decided <= a.at
               \/ i.decided + RollingWindow < clock
    <3> DEFINE pruned == [Counted EXCEPT !.attempts = Remaining]
    <3>1. /\ pruned \in StateType /\ pruned.attempts = Remaining
          /\ pruned.started_at = Counted.started_at
          /\ pruned.last_action_at = Counted.last_action_at
      BY <1>2, <1>6 DEF StateType
    <3> HIDE DEF pruned
    <3>2. Accounts(pruned)
      BY <1>2, <1>6, <3>1, PrunedAccounts DEF IInv
    <3> QED
      BY <3>1, <3>2 DEF Accounts
  <2>5. Counted.started_at \in 0..clock
    BY <1>2 DEF Accounts
  <2>6. \A i \in incidents : i.decided <= clock
    BY DEF IInv, IncidentsInv, TypeOK, Incident, Time
  <2> HIDE DEF a0
  <2> QED
    BY <1>1, <1>3, <1>4, <1>7, <2>2, <2>3, <2>4, <2>5, <2>6 DEF StateInv, Accounts
<1>14. StreakInv'
  <2>1. observed'.streak >= ConsecutiveUnhealthyRequired
    <3>1. Counted.unhealthy_observations >= ConsecutiveUnhealthyRequired
      BY <1>1 DEF Due
    <3>2. Counted.unhealthy_observations \in Nat /\ observed'.streak \in Nat
      BY <1>2, <1>3 DEF StateType
    <3> QED
      BY <1>2, <3>1, <3>2
  <2>2. observed'.streak \in Nat
    BY <1>3
  <2> QED
    BY <1>1, <1>2, <1>3, <1>7, <2>1, <2>2 DEF StreakInv, RestartOnlyAfterFaultyStreak
<1>15. ThermalInv'
  BY <1>1, <1>2, <1>3, <1>7, <1>9 DEF ThermalInv, ThermalRestoreWaitsForCooldown
<1>16. SwitchInv'
  BY <1>1, <1>2, <1>3, <1>7, <1>9 DEF SwitchInv
<1> QED
  BY <1>10, <1>11, <1>12, <1>13, <1>14, <1>15, <1>16 DEF IInv

-----------------------------------------------------------------------------
(* The segments after each await.                                          *)

LEMMA RestartReachesDeviceStep == ASSUME IInv, RestartReachesDevice PROVE IInv'
<1> USE PolicyAssumption DEF operator
<1>1. /\ UNCHANGED <<clock, miner, updating, snapshot, state, incidents, next_id, observed>>
      /\ task' = [task EXCEPT !.sent = TRUE] /\ restarts' = restarts + 1
      /\ task.pc = "restart" /\ ~task.sent
  BY DEF RestartReachesDevice
<1>2. task \in TaskType /\ restarts \in Nat /\ next_id \in 0..MaxRestarts
      /\ restarts < next_id
  BY <1>1 DEF IInv, TypeOK, TaskInv
<1>3. /\ task' \in TaskType /\ task'.sent
      /\ task'.pc = task.pc /\ task'.now = task.now /\ task'.id = task.id
      /\ task'.then = task.then /\ task'.incident = task.incident
      /\ task'.thermal = task.thermal
  BY <1>1, <1>2 DEF TaskType
<1>4. restarts' \in 0..MaxRestarts /\ restarts' <= next_id
  BY <1>1, <1>2
<1>5. TypeOK'
  BY <1>1, <1>3, <1>4 DEF IInv, TypeOK
<1>6. TaskInv'
  BY <1>1, <1>3, <1>4 DEF IInv, TaskInv, InRestart
<1>7. IncidentsInv' /\ StateInv'
  BY <1>1 DEF IInv, IncidentsInv, StateInv, Accounts
<1>8. StreakInv'
  BY <1>1, <1>3 DEF IInv, StreakInv, Waits, RestartOnlyAfterFaultyStreak
<1>9. ThermalInv'
  BY <1>1, <1>3 DEF IInv, ThermalInv, ThermalRestoreWaitsForCooldown
<1>10. SwitchInv'
  BY <1>1, <1>3 DEF IInv, SwitchInv
<1> QED
  BY <1>5, <1>6, <1>7, <1>8, <1>9, <1>10 DEF IInv

LEMMA RestartReturnsStep ==
  ASSUME IInv, NEW outcome \in RestartOutcome, RestartReturns(outcome) PROVE IInv'
<1> USE PolicyAssumption DEF operator, history
<1> DEFINE st == [state EXCEPT !.restart_deadline = task.now + PostRestartTimeout]
<1>1. /\ UNCHANGED <<clock, miner, updating, snapshot, incidents, next_id, restarts, observed>>
      /\ task' = [task EXCEPT !.pc = "record", !.incident = outcome]
      /\ state' \in {state, st} /\ task.pc = "restart"
  BY DEF RestartReturns
<1>2. /\ task \in TaskType /\ state \in StateType /\ state.present
      /\ task.now \in 0..clock /\ clock \in Nat /\ Accounts(state)
      /\ state.unhealthy_observations = 0 /\ task.then = "return"
  BY <1>1 DEF IInv, TypeOK, TaskInv, StateInv, StreakInv, RestartOutcome, Time
<1>3. /\ task' \in TaskType /\ task'.pc = "record" /\ task'.incident = outcome
      /\ task'.now = task.now /\ task'.id = task.id /\ task'.then = "return"
  BY <1>1, <1>2 DEF TaskType
<1>4. /\ state' \in StateType /\ state'.present = state.present
      /\ state'.attempts = state.attempts /\ state'.started_at = state.started_at
      /\ state'.last_action_at = state.last_action_at
      /\ state'.unhealthy_observations = 0
      /\ state'.pending_profile_restore_at = state.pending_profile_restore_at
  <2>1. task.now + PostRestartTimeout \in Nat
    BY <1>2
  <2>2. st \in StateType
    BY <1>2, <2>1 DEF StateType
  <2>3. /\ st.present = state.present
        /\ st.attempts = state.attempts /\ st.started_at = state.started_at
        /\ st.last_action_at = state.last_action_at
        /\ st.unhealthy_observations = state.unhealthy_observations
        /\ st.pending_profile_restore_at = state.pending_profile_restore_at
    BY <1>2 DEF StateType
  <2> HIDE DEF st
  <2> QED
    BY <1>1, <1>2, <2>2, <2>3
<1> HIDE DEF st
<1>5. TypeOK'
  BY <1>1, <1>3, <1>4 DEF IInv, TypeOK
<1>6. TaskInv'
  BY <1>1, <1>2, <1>3, <1>4 DEF IInv, TaskInv, InRestart
<1>7. IncidentsInv' /\ StateInv'
  BY <1>1, <1>2, <1>4 DEF IInv, IncidentsInv, StateInv, Accounts
<1>8. StreakInv'
  <2>1. observed.streak \in Nat
    BY DEF IInv, TypeOK
  <2> QED
    BY <1>1, <1>3, <1>4, <2>1 DEF IInv, StreakInv, RestartOnlyAfterFaultyStreak
<1>9. ThermalInv'
  BY <1>1, <1>3, <1>4 DEF IInv, ThermalInv, ThermalRestoreWaitsForCooldown
<1>10. SwitchInv'
  BY <1>1, <1>3, <1>4 DEF IInv, SwitchInv
<1> QED
  BY <1>5, <1>6, <1>7, <1>8, <1>9, <1>10 DEF IInv

LEMMA RestoreReturnsStep == ASSUME IInv, RestoreReturns PROVE IInv'
<1> USE DEF operator, history
<1>1. /\ UNCHANGED <<clock, miner, updating, snapshot, state, incidents, history>>
      /\ task.pc = "restore"
      /\ \E incident \in OtherIncident : task' = RecordTask(incident, "return")
  BY DEF RestoreReturns, OtherIncident
<1>2. /\ task' \in TaskType /\ task'.pc = "record" /\ task'.then = "return"
      /\ task'.now = clock /\ task'.incident \notin RestartOutcome
  BY <1>1, TasksTyped DEF IInv
<1>3. clock \in 0..clock /\ state.present
  BY <1>1 DEF IInv, TypeOK, TaskInv, Time
<1>4. TypeOK'
  BY <1>1, <1>2 DEF IInv, TypeOK
<1>5. TaskInv'
  BY <1>1, <1>2, <1>3 DEF IInv, TaskInv, InRestart
<1>6. IncidentsInv' /\ StateInv'
  BY <1>1 DEF IInv, IncidentsInv, StateInv, Accounts
<1>7. StreakInv' /\ ThermalInv' /\ SwitchInv'
  BY <1>1, <1>2 DEF IInv, StreakInv, Waits, RestartOnlyAfterFaultyStreak, ThermalInv,
                    ThermalRestoreWaitsForCooldown, SwitchInv
<1> QED
  BY <1>4, <1>5, <1>6, <1>7 DEF IInv

(* The recorded restart is new, and an attempt already stands for it. *)
LEMMA RecordIncidentStep == ASSUME IInv, RecordIncident PROVE IInv'
<1> USE PolicyAssumption DEF operator, history
<1> DEFINE i0 == [id |-> task.id, decided |-> task.now, occurred_at |-> clock]
           st == [state EXCEPT !.pending_profile_restore_at = task.now + Cooldown]
<1>1. /\ UNCHANGED <<clock, miner, updating, snapshot, next_id, restarts, observed>>
      /\ task.pc = "record"
      /\ \/ task.incident \in RestartOutcome /\ incidents' = incidents \cup {i0}
         \/ incidents' = incidents
      /\ \/ task.then = "defer_restore" /\ state' = st
         \/ task.then # "defer_restore" /\ state' = state
      /\ \/ task.then = "restore" /\ task' = RestoreTask(task.now, FALSE)
         \/ task' = IdleTask
  BY DEF RecordIncident
<1>2. /\ task \in TaskType /\ state \in StateType /\ state.present
      /\ task.now \in 0..clock /\ task.now \in Time /\ clock \in Time /\ clock \in Nat
      /\ Accounts(state)
  BY <1>1 DEF IInv, TypeOK, TaskInv, StateInv, Time
<1>3. /\ task' \in TaskType /\ task'.then = "return" /\ task'.incident \notin RestartOutcome
      /\ task'.pc \in {"restore", "idle"}
      /\ task'.pc = "restore" => task'.now = task.now /\ ~task'.thermal
                                /\ task.then = "restore"
  <2>1. CASE task' = IdleTask
    BY <2>1, TasksTyped DEF IInv, RestartOutcome
  <2>2. CASE task.then = "restore" /\ task' = RestoreTask(task.now, FALSE)
    BY <1>2, <2>2, TasksTyped DEF IInv, RestartOutcome
  <2> QED
    BY <1>1, <2>1, <2>2
<1>4. /\ state' \in StateType /\ state'.present
      /\ state'.attempts = state.attempts /\ state'.started_at = state.started_at
      /\ state'.last_action_at = state.last_action_at
      /\ state'.unhealthy_observations = state.unhealthy_observations
      /\ state'.overheat_active = state.overheat_active
      /\ state'.restart_deadline = state.restart_deadline
  <2>1. task.now + Cooldown \in Nat
    BY <1>2
  <2>2. st \in StateType
    BY <1>2, <2>1 DEF StateType
  <2>3. /\ st.present = state.present
        /\ st.attempts = state.attempts /\ st.started_at = state.started_at
        /\ st.last_action_at = state.last_action_at
        /\ st.unhealthy_observations = state.unhealthy_observations
        /\ st.overheat_active = state.overheat_active
        /\ st.restart_deadline = state.restart_deadline
    BY <1>2 DEF StateType
  <2> HIDE DEF st
  <2> QED
    BY <1>1, <1>2, <2>2, <2>3
<1>5. state'.pending_profile_restore_at # None =>
        \/ task.then = "defer_restore"
           /\ state'.pending_profile_restore_at = task.now + Cooldown
        \/ state'.pending_profile_restore_at = state.pending_profile_restore_at
  BY <1>1, <1>2 DEF StateType
<1> HIDE DEF st
<1>6. incidents' # incidents =>
        /\ incidents' = incidents \cup {i0} /\ i0 \in Incident /\ task.id < next_id
        /\ \E a \in state.attempts : a.id = task.id /\ a.at = task.now
  BY <1>1, <1>2 DEF IInv, TaskInv, InRestart, Incident
<1>7. i0.id = task.id /\ i0.decided = task.now /\ i0.occurred_at = clock
  OBVIOUS
<1> HIDE DEF i0
<1>8. TypeOK'
  BY <1>1, <1>3, <1>4, <1>6 DEF IInv, TypeOK
<1>9. TaskInv'
  BY <1>1, <1>2, <1>3, <1>4 DEF IInv, TaskInv, InRestart
<1>10. IncidentsInv'
  <2>1. IsFiniteSet(incidents')
    BY <1>6, FS_AddElement DEF IInv, IncidentsInv
  <2> QED
    BY <1>1, <1>2, <1>6, <1>7, <2>1 DEF IInv, IncidentsInv
<1>11. StateInv'
  <2>1. ASSUME NEW i \in incidents'
        PROVE  \/ \E a \in state.attempts : a.id = i.id /\ i.decided <= a.at
               \/ i.decided + RollingWindow < clock
    <3>1. CASE i \in incidents
      BY <1>2, <3>1 DEF Accounts
    <3>2. CASE i \notin incidents
      BY <1>2, <1>6, <1>7, <3>2
    <3> QED
      BY <3>1, <3>2
  <2>2. ASSUME NEW i \in incidents'
        PROVE  \/ i.decided <= state.last_action_at
               \/ i.occurred_at + RollingWindow < state.started_at
    <3>1. CASE i \in incidents
      BY <1>2, <3>1 DEF Accounts
    <3>2. CASE i \notin incidents
      BY <1>2, <1>6, <1>7, <3>2 DEF Accounts
    <3> QED
      BY <3>1, <3>2
  <2> QED
    BY <1>1, <1>2, <1>4, <2>1, <2>2 DEF StateInv, Accounts
<1>12. StreakInv'
  BY <1>1, <1>3, <1>4, <1>5 DEF IInv, StreakInv, Waits, RestartOnlyAfterFaultyStreak
<1>13. ThermalInv'
  <2>1. observed.last_overheat \in Int
    BY DEF IInv, TypeOK, Time, None
  <2> QED
    BY <1>1, <1>2, <1>3, <1>5, <2>1 DEF IInv, ThermalInv, ThermalRestoreWaitsForCooldown
<1>14. SwitchInv'
  BY <1>1, <1>3, <1>5 DEF IInv, SwitchInv
<1> QED
  BY <1>8, <1>9, <1>10, <1>11, <1>12, <1>13, <1>14 DEF IInv

-----------------------------------------------------------------------------
(* The invariant, and the properties it carries.                           *)

LEMMA InitIInv == ASSUME Init PROVE IInv
<1> USE PolicyAssumption
<1>1. /\ clock = 0 /\ updating = FALSE /\ snapshot = NoSnapshot /\ state = NoState
      /\ task = IdleTask /\ incidents = {} /\ next_id = 0 /\ restarts = 0
      /\ observed = [streak |-> 0, last_overheat |-> None]
      /\ miner \in [enabled : {TRUE}, recovery_policy : Policies, has_profile : BOOLEAN]
  BY DEF Init
<1>2. 0 \in Time /\ 0 \in 0..MaxRestarts /\ 0 \in 0..ConsecutiveUnhealthyRequired
  BY DEF Time
<1>3. /\ ~NoState.present /\ ~Waits(NoState) /\ NoState.unhealthy_observations = 0
      /\ NoState.pending_profile_restore_at = None
  BY DEF NoState, Waits
<1>4. IdleTask \in TaskType /\ IdleTask.pc = "idle" /\ IdleTask.then = "return"
  BY DEF IdleTask, TaskType, OtherIncident
<1>5. TypeOK
  BY <1>1, <1>2, <1>4, NoStateTyped, NoSnapshotTyped DEF TypeOK, Incident
<1>6. TaskInv
  BY <1>1, <1>4 DEF TaskInv, InRestart
<1>7. IncidentsInv
  BY <1>1, FS_EmptySet DEF IncidentsInv
<1>8. StateInv
  BY <1>1, <1>3 DEF StateInv
<1>9. StreakInv
  BY <1>1, <1>3, <1>4 DEF StreakInv, RestartOnlyAfterFaultyStreak
<1>10. ThermalInv
  BY <1>1, <1>3, <1>4 DEF ThermalInv, ThermalRestoreWaitsForCooldown, None
<1>11. SwitchInv
  BY <1>1, <1>3, <1>4 DEF SwitchInv
<1> QED
  BY <1>5, <1>6, <1>7, <1>8, <1>9, <1>10, <1>11 DEF IInv

LEMMA NextIInv == ASSUME IInv, [Next]_vars PROVE IInv'
<1>1. CASE Evaluate
  BY <1>1, EvaluateForgetStep, EvaluateOverheatStep, EvaluateOverheatClearStep,
     EvaluatePendingRestoreStep, EvaluateVerifiedStep, EvaluateUnverifiedStep,
     EvaluateObserveOnlyStep, EvaluateWellStep, EvaluateNotDueStep,
     EvaluateSuppressedStep, EvaluateRestartStep DEF Evaluate
<1>2. CASE Running /\ ~Evaluate
  BY <1>2, ClockAndOperatorSteps, PollSteps, ForgetSteps, RestartReachesDeviceStep,
     RestartReturnsStep, RecordIncidentStep, RestoreReturnsStep
  DEF Running, AnyPoll, AnyRestartReturns
<1>3. CASE \/ CaptureProfile \/ \E p \in Policies : SetRecoveryPolicy(p)
           \/ Disable \/ Enable \/ ForgetMiner \/ EvictIncident
  BY <1>3, ClockAndOperatorSteps, ForgetSteps, EvictStep
<1>4. CASE UNCHANGED vars
  BY <1>4 DEF vars, operator, history, IInv, TypeOK, TaskInv, InRestart, IncidentsInv,
     StateInv, Accounts, StreakInv, Waits, RestartOnlyAfterFaultyStreak, ThermalInv,
     ThermalRestoreWaitsForCooldown, SwitchInv
<1> QED
  BY <1>1, <1>2, <1>3, <1>4 DEF Next

(* The inductive invariant holds of every behaviour. *)
THEOREM Inductive == Spec => []IInv
<1> QED
  BY InitIInv, NextIInv, PTL DEF Spec

(* Every variable keeps its type, whatever the policy and the bounds. *)
THEOREM TypesOK == Spec => []TypeOK
<1>1. IInv => TypeOK
  BY DEF IInv
<1> QED
  BY <1>1, Inductive, PTL

(* A restart is under way only after the required number of consecutive     *)
(* faulty observations (recovery.py:152-160).                               *)
THEOREM FaultyStreak == Spec => []RestartOnlyAfterFaultyStreak
<1>1. IInv => RestartOnlyAfterFaultyStreak
  BY DEF IInv, StreakInv
<1> QED
  BY <1>1, Inductive, PTL

(* A thermal restore starts a full cooldown after the last overheat, or     *)
(* later (recovery.py:139-146, 226-262).                                    *)
THEOREM ThermalCooldown == Spec => []ThermalRestoreWaitsForCooldown
<1>1. IInv => ThermalRestoreWaitsForCooldown
  BY DEF IInv, ThermalInv
<1> QED
  BY <1>1, Inductive, PTL

(* A policy change or a disable that has returned leaves no forbidden       *)
(* restart or restore running (runtime.py:304-316, 325-345).                *)
THEOREM SwitchedOff == Spec => []SwitchedOffMeansStopped
<1>1. IInv => SwitchedOffMeansStopped
  BY DEF IInv, SwitchInv, SwitchedOffMeansStopped
<1> QED
  BY <1>1, Inductive, PTL

(* Where a restart that is under way after a step comes from. *)
LEMMA RestartUnderWay ==
  ASSUME TypeOK, Next, task'.pc = "restart"
  PROVE  \/ EvaluateRestart
         \/ /\ task.pc = "restart" /\ task'.now = task.now
            /\ incidents' \in SUBSET incidents
            /\ state'.started_at = state.started_at
<1>0. /\ IdleTask.pc = "idle"
      /\ \A now, thermal : RestoreTask(now, thermal).pc = "restore"
      /\ \A incident, then : RecordTask(incident, then).pc = "record"
  BY DEF IdleTask, RestoreTask, RecordTask
<1>1. CASE Evaluate
  <2>1. CASE EvaluateForget \/ EvaluateObserveOnly \/ EvaluateWell \/ EvaluateNotDue
    BY <1>0, <2>1 DEF EvaluateForget, EvaluateObserveOnly, EvaluateWell, EvaluateNotDue, Return
  <2>2. CASE EvaluateOverheat \/ EvaluateSuppressed \/ EvaluateUnverified
    <3>1. task' = IdleTask \/ \E incident, then : task' = RecordTask(incident, then)
      BY <2>2 DEF EvaluateOverheat, EvaluateSuppressed, EvaluateUnverified, HandleUnverified,
                  Return
    <3> QED
      BY <1>0, <3>1
  <2>3. CASE EvaluateOverheatClear \/ EvaluateVerified
    <3>1. \E incident, then : task' = RecordTask(incident, then)
      BY <2>3 DEF EvaluateOverheatClear, EvaluateVerified
    <3> QED
      BY <1>0, <3>1
  <2>4. CASE EvaluatePendingRestore
    <3>1. task' = IdleTask \/ \E now, thermal : task' = RestoreTask(now, thermal)
      BY <2>4 DEF EvaluatePendingRestore, HandleDeferredRestore, Return
    <3> QED
      BY <1>0, <3>1
  <2> QED
    BY <1>1, <2>1, <2>2, <2>3, <2>4 DEF Evaluate
<1>2. CASE AnyPoll \/ PollFails
  BY <1>2 DEF AnyPoll, Poll, PollFails, Schedule, ScheduledTask, IdleTask
<1>3. CASE HomeAssistantRestart \/ ForgetMiner
  BY <1>3, TasksTyped DEF HomeAssistantRestart, ForgetMiner, Forget
<1>4. CASE RestartReachesDevice
  BY <1>4 DEF RestartReachesDevice, TypeOK, TaskType
<1>5. CASE AnyRestartReturns
  BY <1>5 DEF AnyRestartReturns, RestartReturns, TypeOK, TaskType
<1>6. CASE RestoreReturns
  BY <1>6, TasksTyped DEF RestoreReturns, OtherIncident
<1>7. CASE RecordIncident
  <2>1. task' = RestoreTask(task.now, FALSE) \/ task' = IdleTask
    BY <1>7 DEF RecordIncident
  <2> QED
    BY <1>0, <2>1
<1>8. CASE Tick \/ CaptureProfile \/ Disable \/ Enable \/ EvictIncident
           \/ \E p \in Policies : SetRecoveryPolicy(p)
  BY <1>8 DEF Tick, CaptureProfile, Disable, Enable, EvictIncident, SetRecoveryPolicy
<1> QED
  BY <1>1, <1>2, <1>3, <1>4, <1>5, <1>6, <1>7, <1>8 DEF Next, Running

(* What a decided restart rests on. *)
LEMMA RestartFacts ==
  ASSUME IInv, EvaluateRestart
  PROVE  /\ Engine \in StateType /\ Accounts(Engine) /\ ~InCooldown(Engine)
         /\ Cardinality(Remaining) < MaxAttempts
         /\ task'.now = clock /\ incidents' = incidents
         /\ state'.started_at = Engine.started_at
<1>1. /\ Evaluating("unhealthy") /\ Due /\ Cardinality(Remaining) < MaxAttempts
      /\ task' = [IdleTask EXCEPT !.pc = "restart", !.now = clock, !.id = next_id]
  BY DEF EvaluateRestart
<1>2. task'.now = clock
  BY <1>1 DEF IdleTask
<1>3. state'.started_at = Engine.started_at
  <2>1. Engine \in StateType
    BY EngineAccounts
  <2>2. Counted \in StateType /\ Counted.started_at = Engine.started_at
    BY <1>1, <2>1, CountedFacts DEF Counted, StateType
  <2> QED
    BY <2>2 DEF EvaluateRestart, StateType
<1> QED
  BY <1>1, <1>2, <1>3, EngineAccounts, EvaluationFrame DEF Due

(* No restart is decided within a cooldown of an earlier one in the stored  *)
(* history, for every cooldown and every window and however often the state *)
(* was forgotten, except one that had left the window when the state was    *)
(* last rebuilt (recovery.py:161-162, 361-367, 378-400).                    *)
THEOREM CooldownRespected == Spec => []RestartRespectsCooldown
<1> USE PolicyAssumption
<1>1. Init => RestartRespectsCooldown
  BY DEF Init, IdleTask, RestartRespectsCooldown
<1>2. ASSUME IInv, EvaluateRestart, NEW i \in incidents
      PROVE  \/ i.decided + Cooldown <= clock
             \/ i.occurred_at + RollingWindow < Engine.started_at
  <2>1. /\ clock \in Nat /\ i.decided \in Nat
        /\ Engine.last_action_at \in Nat \cup {None}
    BY <1>2, RestartFacts DEF IInv, TypeOK, Incident, StateType, Time
  <2>2. CASE i.decided <= Engine.last_action_at
    <3>1. Engine.last_action_at # None
      BY <2>1, <2>2 DEF None
    <3>2. ~(clock - Engine.last_action_at < Cooldown)
      BY <1>2, <3>1, RestartFacts DEF InCooldown
    <3> QED
      BY <2>1, <2>2, <3>1, <3>2
  <2>3. CASE i.occurred_at + RollingWindow < Engine.started_at
    BY <2>3
  <2> QED
    BY <1>2, <2>2, <2>3, RestartFacts DEF Accounts
<1>3. ASSUME IInv, RestartRespectsCooldown, [Next]_vars
      PROVE  RestartRespectsCooldown'
  <2>1. CASE UNCHANGED vars
    BY <1>3, <2>1 DEF vars, RestartRespectsCooldown
  <2>2. CASE Next /\ EvaluateRestart
    BY <1>2, <1>3, <2>2, RestartFacts DEF RestartRespectsCooldown
  <2>3. CASE Next /\ ~EvaluateRestart
    <3> SUFFICES ASSUME task'.pc = "restart", NEW i \in incidents'
                 PROVE  \/ i.decided + Cooldown <= task'.now
                        \/ i.occurred_at + RollingWindow < state'.started_at
      BY DEF RestartRespectsCooldown
    <3>1. /\ task.pc = "restart" /\ task'.now = task.now
          /\ incidents' \in SUBSET incidents /\ state'.started_at = state.started_at
      BY <1>3, <2>3, RestartUnderWay DEF IInv
    <3> QED
      BY <1>3, <3>1 DEF RestartRespectsCooldown
  <2> QED
    BY <1>3, <2>1, <2>2, <2>3
<1> QED
  BY <1>1, <1>3, Inductive, PTL DEF Spec

(* Records no more numerous than their identities' set of origin. *)
LEMMA IdentitiesBounded ==
  ASSUME NEW T, IsFiniteSet(T), NEW S, \A x \in S : \E a \in T : x = a.id
  PROVE  IsFiniteSet(S) /\ Cardinality(S) \in Nat /\ Cardinality(T) \in Nat
         /\ Cardinality(S) <= Cardinality(T)
<1> DEFINE ids == {a.id : a \in T}
           f == [a \in T |-> a.id]
<1>1. f \in Surjection(T, ids)
  BY DEF Surjection
<1>2. IsFiniteSet(ids) /\ Cardinality(ids) <= Cardinality(T)
  BY <1>1, FS_Surjection
<1>3. S \subseteq ids
  OBVIOUS
<1> HIDE DEF ids
<1>4. IsFiniteSet(S) /\ Cardinality(S) <= Cardinality(ids)
  BY <1>2, <1>3, FS_Subset
<1>5. Cardinality(S) \in Nat /\ Cardinality(ids) \in Nat /\ Cardinality(T) \in Nat
  BY <1>2, <1>4, FS_CardinalityType
<1> QED
  BY <1>2, <1>4, <1>5

(* A restart is decided only while the stored history holds fewer than      *)
(* max_attempts restarts of the window that ends with it, whatever emptied  *)
(* the engine's memory (recovery.py:165-177, 370-400).                      *)
THEOREM BudgetRespected == Spec => []RestartWithinBudget
<1> USE PolicyAssumption
<1> DEFINE counted(inc, now) == {i.id : i \in {j \in inc : j.decided >= now - RollingWindow}}
<1>1. Init => RestartWithinBudget
  BY DEF Init, IdleTask, RestartWithinBudget
<1>2. ASSUME IInv, EvaluateRestart
      PROVE  Cardinality(counted(incidents, clock)) < MaxAttempts
  <2>1. /\ clock \in Nat /\ \A i \in incidents : i.decided \in Nat
        /\ Engine.attempts \in SUBSET Attempt
    BY <1>2, RestartFacts DEF IInv, TypeOK, Incident, StateType, Time
  <2>2. IsFiniteSet(Remaining)
    BY <1>2, RestartFacts, FS_Subset DEF Accounts, Remaining, PruneAttempts
  <2>3. ASSUME NEW i \in incidents, i.decided >= clock - RollingWindow
        PROVE  \E a \in Remaining : i.id = a.id
    <3>1. ~(i.decided + RollingWindow < clock)
      BY <2>1, <2>3
    <3>2. PICK a \in Engine.attempts : a.id = i.id /\ i.decided <= a.at
      BY <1>2, <3>1, RestartFacts DEF Accounts
    <3>3. a.at \in Nat
      BY <2>1 DEF Attempt, Time
    <3>4. a \in Remaining
      BY <2>1, <2>3, <3>2, <3>3 DEF Remaining, PruneAttempts
    <3> QED
      BY <3>2, <3>4
  <2>4. \A x \in counted(incidents, clock) : \E a \in Remaining : x = a.id
    BY <2>3
  <2> HIDE DEF counted
  <2>5. /\ Cardinality(counted(incidents, clock)) \in Nat
        /\ Cardinality(Remaining) \in Nat
        /\ Cardinality(counted(incidents, clock)) <= Cardinality(Remaining)
    BY <2>2, <2>4, IdentitiesBounded
  <2> QED
    BY <1>2, <2>5, RestartFacts
<1>3. ASSUME IInv, RestartWithinBudget, [Next]_vars
      PROVE  RestartWithinBudget'
  <2> DEFINE old == counted(incidents, task.now)
  <2>1. CASE UNCHANGED vars
    BY <1>3, <2>1 DEF vars, RestartWithinBudget
  <2>2. CASE Next /\ EvaluateRestart
    BY <1>2, <1>3, <2>2, RestartFacts DEF RestartWithinBudget
  <2>3. CASE Next /\ ~EvaluateRestart
    <3> SUFFICES ASSUME task'.pc = "restart"
                 PROVE  Cardinality(counted(incidents', task'.now)) < MaxAttempts
      BY DEF RestartWithinBudget
    <3>1. task.pc = "restart" /\ task'.now = task.now /\ incidents' \in SUBSET incidents
      BY <1>3, <2>3, RestartUnderWay DEF IInv
    <3>2. counted(incidents', task'.now) \subseteq old
      BY <3>1
    <3>3. Cardinality(old) < MaxAttempts
      BY <1>3, <3>1 DEF RestartWithinBudget
    <3>4. IsFiniteSet(old)
      <4>1. IsFiniteSet(incidents) /\ \A x \in old : \E a \in incidents : x = a.id
        BY <1>3 DEF IInv, IncidentsInv
      <4> HIDE DEF old
      <4> QED
        BY <4>1, IdentitiesBounded
    <3> HIDE DEF old, counted
    <3>5. IsFiniteSet(counted(incidents', task'.now))
          /\ Cardinality(counted(incidents', task'.now)) <= Cardinality(old)
      BY <3>2, <3>4, FS_Subset
    <3>6. Cardinality(counted(incidents', task'.now)) \in Nat /\ Cardinality(old) \in Nat
      BY <3>4, <3>5, FS_CardinalityType
    <3> QED
      BY <3>3, <3>5, <3>6
  <2> QED
    BY <1>3, <2>1, <2>2, <2>3
<1> QED
  BY <1>1, <1>3, Inductive, PTL DEF Spec

=============================================================================
