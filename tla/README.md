# Bitaxe Fleet: a TLA+ verification project

Bitaxe Fleet is a Home Assistant integration that discovers, monitors and
recovers Bitaxe miners over their AxeOS HTTP API. This directory holds TLA+
modules translated from its source, the TLC configurations that check them on
small instances, and TLAPS proofs of the properties that matter most.
`PROJECT.json` lists the runs, maps every definition to the lines it
translates, and names for every property a mutation of the code that breaks it.

All paths below are relative to `custom_components/bitaxe_fleet/` unless they
begin with a directory of their own.

## 1. The system

Everything runs in Home Assistant's single-threaded event loop. Between two
`await`s a coroutine is atomic; at each `await` anything else may run, and a
task may be cancelled. That is the granularity of every module here.

| Component | State it keeps | Operations | Talks to |
| --- | --- | --- | --- |
| Recovery engine, `recovery.py` | per miner: attempts, unhealthy streak, last action, deadlines, overheat flag, one task | `async_schedule`, `async_evaluate` and its handlers, `async_forget_miner`, `async_close` | called by coordinator listeners and the runtime; calls back restart, restore, record incident |
| Coordinator, `coordinator.py` | client, last snapshot, freshness, capabilities, `action_lock` | poll, named action, profile patch, replace enrollment | AxeOS client, registry, listeners |
| Runtime, `runtime.py` | coordinators, listener handles, aggregates, closed flag | start, enroll, remove, enable/disable, run action, capture, apply, set policy, close | owns all other parts |
| Registry, `storage.py` | enrolled miners, rejected candidates, last 100 incidents; the same on disk | enroll, update, set enabled/name/profile/policy, reject, remove, record incident | Home Assistant storage |
| Discovery manager, `discovery/manager.py` | candidates, scan task and status, mDNS browser and its probe tasks, closed flag | start/stop, start scan, approve, reject, probe | registry, runtime callbacks |
| Active scan, `discovery/active_scan.py` | shared index, counters and workers of one scan | scan a network | probes of the manager |
| AxeOS client and parser, `axeos/` | none | requests with a total timeout, validation of responses | the miner |
| Aggregates, history, entities | none of their own | pure folds and views | coordinator, Recorder |
| WebSocket, services, config flow | none | validation, forwarding | runtime |
| Panel and cards, `frontend/src/bitaxe-fleet-panel.ts` | last answers, pending sets, request ids, timers | refresh, act, poll a scan | WebSocket |

How they interact: a coordinator polls its miner and notifies its listeners;
the recovery engine's listener starts at most one evaluation task per miner,
which may ask the runtime to restart the miner or restore its profile. Those
requests, the services of an operator and a rediscovery all pass through the
coordinator's `action_lock`. Incidents go to the registry, and the recovery
engine rebuilds its budget from them whenever its own memory is gone. Scans and
mDNS probes hand known miners to the runtime and unknown ones to an
administrator as candidates.

What is hard, and what correctness means there:

* *Recovery* must bound itself although its memory is volatile: it forgets all
  at a failed poll, a policy change, a disable, a restart. It must act on a
  consecutive streak of observations, leave a cooldown between restarts and
  after an overheat, stop when switched off, and never stay undecided.
* *Miner operations* race with each other, with lost answers and late requests,
  with `wait_for` and cancellation, and with the shutdown of the coordinator
  they hold. Mutations must be serialized and rest on a fresh read; an incident
  must not claim what did not happen; every caller must be answered.
* *Scans* share counters between workers that probe concurrently, raise and are
  cancelled; a failed scan leaves workers behind while the next one starts.
* *The registry* changes memory before disk. A save may fail, be cancelled,
  come late from a thread, or come from the registry of an entry that was
  reloaded meanwhile; the file may be old or damaged. What an operator decided
  must stand and no readable miner may be lost.
* *Discovery* and the *runtime lifecycle* look, await, and act on what they
  saw, while miners move, operators decide otherwise and the entry is reloaded.
  Nobody is enrolled without being asked for, and when everything has come to
  rest coordinators, totals, candidates and addresses agree with the registry.
* *Conversions* repeat each other's bounds: what the parser or the WebSocket
  handler accepts must survive the domain objects, the PATCH and the storage,
  in every spelling firmware uses. Sums, thinned graphs and cut logs must keep
  their meaning at the edges.

## 2. Modules and how they correspond to the code

### RecoveryEngine (`recovery.py`, with its callbacks)

`task` is the entry of `_tasks` and `task.pc` the await its coroutine is
suspended at; `state` is the miner's `_MinerRecoveryState`. `Branch` is the
chain of early returns of `async_evaluate` in its order, and one `Evaluate...`
action stands for each way through it up to the first await. `RestartReturns`,
`RecordIncident` and `RestoreReturns` are the segments after an await. The
environment polls (`Poll`, `PollFails`), lets time pass, changes the policy or
disables the miner in the two segments the runtime does it in (registry write,
then `ForgetMiner`), restarts Home Assistant, and evicts old incidents.

Abstractions. Time is a tick counter. The numeric settings of the policy are
constants of a behaviour, its three switches change while it runs. The health
fields of a snapshot are reduced to what `snapshot_condition` tells apart.
Incidents are reduced to automatic restarts with a counted outcome; `decided`
is a history field the code does not store. `EvictIncident` replaces the
fleet-wide limit of 100 incidents by an eviction that may happen at any time.
`unhealthy_observations` saturates at the required number, above which the code
compares it no further; `restart_requested_at` is written and never read, and
is left out. Two overlapping updates of one miner and its removal are outside
this module: `FleetRuntime` has the removal beside the polls. `DeviceRestartsWithinBudget` counts
`restarts`, what the device was made to do.

### BoundedScan and ActiveScan (`discovery/active_scan.py`, `discovery/manager.py`)

`BoundedScan` is the promise of a scan: every host at most once, at most
`Concurrency` at a time. `ActiveScan` is the code: the closure of each
`async_scan_network` (index, counters, workers) with the scan task, the
published status and `async_stop` of the manager around it. `index_lock` guards
no await, so it is never contended, and a worker runs from the end of one probe
to the start of the next in one step. A probe answers True or False or raises
(the registry could not save a moved miner, its coordinator could not be
started). When one raises, `gather` fails and its other workers go on: this is
in the model, as are their progress reports into the status of a later scan.
Cancelling a scan unwinds all its workers in one iteration of the event loop,
which is one step. The workers' `worker_discovered` are summed in one counter.
A probe after `closed` returns False without an await, so the worker that takes
one host then takes all that are left.

### MinerActions (`runtime.py`, `coordinator.py`, `axeos/client.py`)

A call is one coroutine of a service (`restart`, `pause`, `resume`,
`identify`, `capture`, `apply`) or of the recovery engine (`restart`, `apply`),
numbered in the order it starts. The lock is a queue served in that order
(`Queue`, `FirstInLine`); a free one is taken without suspending, as
`asyncio.Lock` does. The operators `HoldLock`, `AfterRead`, `AfterAsking`,
`AfterAnswer`, `ReadBack`, `AfterReadBack` are the segments of the coroutines,
and `Acquire`, `ReadReturns`, `AskReturns`, `Answered`, `ReadBackReturns`,
`SaveReturns`, `RecordReturns` the ends of its awaits. A mutation is a request
in `requests` until the device carries it out (`CarriedOut`), which it may do
before or after its caller heard back, gave up or was cancelled, or never.
`Answered` follows the client: a status outside 2xx is a refusal, a timeout or
a broken connection leaves the outcome open. A coordinator that was shut down
stays with the calls that hold it, and its `async_refresh` returns at once
without reading: those calls go on with the old snapshot, and are marked
`stale`. `Disable` also stands for an unload, `Enable` for the reload.

Abstractions. A device is its six settings, as one value, and whether it is
paused. `snapshots` keeps a coordinator's snapshot only while
`last_update_success`, the only time callers look at it. A read takes the
device's state when it returns. The incident of an automatic restart is the
engine's and therefore in `RecoveryEngine`. Rediscovery takes the same lock for
a moment; `FleetRuntime` has it.

### MinerRegistry (`storage.py`, `__init__.py`)

Each reload creates an instance of the registry (`memory[g]`), and all of them
write one `file`. An operation (`Enroll`, `UpdateFromSnapshot`, `Set`,
`RejectCandidate`, `Remove`, `RecordIncident`) takes the instance's lock,
changes its memory and serializes it in one step; `saves[g]` is the serialized
fleet whose write it awaits with the lock held, which is also the lock. The
save lands, fails (Home Assistant's Store logs a write error and returns), or is
cancelled and then may still land from its thread (`orphans`). `Load` reads the
file with damaged records left out, and migrates version 1 by a save before it
is ready; `Unload` replaces the instance and not the calls that hold it;
`Crash` leaves only the file. `ledger`, `known` and `behind` are history: what
the operator last decided, which miners could be read, and whether the file
missed a write.

Abstractions. The address and metadata of a miner are one value, a setting is
its default or not. An instance is always reloaded after an unload. Calls on an
unloaded registry can be started too: a coroutine that waits in a queue of its
own reaches the registry then.

### RegistryRecords, AtomicRegistry and StoredRegistry (`storage.py`)

`RegistryRecords` has what a registry holds and what each operation makes of
it; `MinerRegistry` is built from it. `AtomicRegistry` is the promise the rest
of the integration relies on: one fleet, changed by one whole operation on one
miner at a time. `StoredRegistry` puts it on a disk: it is stored now and then,
a restart brings back the disk, and a late write may land on it.
`MinerRegistry` implements `StoredRegistry` (`RegistryIsStored`): the fleet is
the memory of the newest instance, the disk is what the file reads as. Its
mapping `safe` says that the last operation's save has landed and nothing came
after it. `FleetRuntime` keeps its own copy of enrolled and rejected miners,
one save at a time, and implements `AtomicRegistry` (`RegistryIsAtomic`).
Together they justify leaving instances, files and failed saves out of
`FleetRuntime`: to those who call it, the registry of one entry is such a map.
The difference shows at a reload only, and `StoredRegistry` names it: after a
write that failed or came late, `Restart` brings back an older fleet.

### FleetRuntime (`runtime.py`, `__init__.py`, `discovery/manager.py`, `coordinator.py`, `config_flow.py`)

`tasks` are coroutines: the options flow that enrolls a host and reloads the
entry, a probe of an endpoint (mDNS, scanned or manual), an approval, a
rejection, a removal, a switch on or off, and a poll. `pc` is the await a task
is suspended at, `Calls` starts one and `Continue` resumes it; `StartNext` and
`StartEnds` are `async_start`, which walks over the records it captured.
`runtime` is `entry.runtime_data`: the listed coordinators, all coordinator
objects ever made (so that one that was dropped and not shut down shows), the
published totals, the candidates. `answers` says which miner answers where, and
`Moves` changes it.

Abstractions. Operations not in the module hold the registry's lock too, so
every registry call may wait, and the order in which waiters get it is left
open. Saves always return here (`MinerRegistry` has the others), and a call of a
closed runtime ends with it: `_entry()` raises, and a coordinator that was shut
down does not read. `async_shutdown` does not suspend. Home Assistant cancels
the tasks of an entry after its unload, which no property needs.
`async_set_enabled` has no caller in the repository yet; it is an operation of
the runtime's interface and modelled as one. Switching a miner off and on gives
it a second coordinator while a refresh of the first may still be under way;
`Unswitched` tells such coordinators apart.

### AxeosValues, FleetTelemetry and Conversions (the pure parts)

`AxeosValues` follows a value from JSON to a snapshot or to capabilities
(`axeos/parser.py`), to a profile (`axeos/models.py`), to the body of a PATCH
(`axeos/client.py`), to the stored record and back (`storage.py`), and from a
message to a policy and to the panel (`websocket.py`). A function that may
raise is the set of what it may return. The fields of a response are tables
(`TelemetrySchema`, `ConfigurationSchema`, `HealthSchema`): the parser of each
field and the numbers it allows. Numbers are counted in halves; a text is the
shape the code tests it for. `IsJson` says what a value that comes in may be.
`FleetTelemetry` has the totals with their
coverage and the binary sensors beside them, the thinning of a series, the
reading and cutting of logs (in characters of one and two bytes), and the size
of a scan, of a network given by its prefix length and its number of addresses.
Sums are a recursive function over a finite index set, decoding and reading a
response are flattenings of sequences, so that they can be reasoned about.
`Conversions` calls one after the other with every input of a run.

### The modules for TLC and the proofs

`MCRecoveryEngine`, `MCActiveScan`, `MCMinerActions`, `MCMinerRegistry`,
`MCFleetRuntime` and `MCConversions` give the constants their values. The
theorems are in modules that extend the component's: `RecoveryEngineProofs`,
`ActiveScanProofs`, `MinerActionsProofs`, `MinerRegistryProofs`,
`ConversionsProofs`, `TotalsAndLogsProofs` (the totals and logs of `Conversions`),
`FleetRuntimeProofs` and, on top of the last, `FleetSettledProofs`. Definitions
that no action uses, each described as a mistake in its comment
(`FaultBeforePause`, `TakeHostPastEnd`, ...), are the mutations `PROJECT.json`
names: replacing the right definition by one of them breaks the property it
belongs to.

## 3. The runs

| Run | Configuration | What it checks |
| --- | --- | --- |
| `recovery` | `Recovery.cfg` | types and four safety properties of the engine, 3.4 million states |
| `recovery_live` | `RecoveryLive.cfg` | the streak before a restart, the cooldown where it is longer than the window, two liveness properties, 442 thousand states |
| `recovery_lost_attempt` | `RecoveryLostAttempt.cfg` | violated: the budget of the README |
| `recovery_overheat_restore` | `RecoveryOverheatRestore.cfg` | violated: the default overheat policy |
| `active_scan` | `ActiveScan.cfg` | types, three safety properties, refinement of `BoundedScan`, every scan ends, 387 thousand states |
| `active_scan_overlap` | `ActiveScanOverlap.cfg` | violated: no overlapping scans |
| `miner_actions` | `Actions.cfg` | types, four safety properties, every call ends, 561 thousand states |
| `miner_actions_paused` | `ActionsPaused.cfg` | violated: no automatic restart of a paused miner |
| `registry` | `Registry.cfg` | types and two safety properties of memory and file, refinement of `StoredRegistry`, 2.4 million states |
| `registry_late_write` | `RegistryLate.cfg` | violated: no work of an unloaded entry |
| `fleet` | `Fleet.cfg` | types, seven properties of the running fleet, two of them that nobody is stuck, refinement of `AtomicRegistry`, 1.6 million states |
| `conversions` | `Conversions.cfg` | six properties of the conversions on 17851 inputs |

Passing, in words:

* `RestartWithinBudget`: whatever empties the engine's memory, fewer than
  `max_attempts` restarts of the stored history were decided in the window
  before a new one.
* `RestartRespectsCooldown`: a restart is decided a cooldown after all earlier
  ones of the stored history, except those that had left the rolling window when
  the engine's state was last rebuilt. With a window at least as long as the
  cooldown (`recovery`) the exception covers only restarts whose cooldown is
  over anyway; with a longer cooldown (`recovery_live`) it is the code's
  behaviour, see below.
* `RestartOnlyAfterFaultyStreak`: behind a restart there is the required number
  of consecutive observations that are faulty by their own fields, whatever the
  engine counted, forgot or reset.
* `ThermalRestoreWaitsForCooldown`, `DeferredRestoreResolved`: a put-off restore
  waits a cooldown from the last overheated observation and is not put off for
  ever.
* `SwitchedOffMeansStopped`: nothing that a returned policy change or disable
  forbids is still under way, not even what was awaiting an answer.
* `PendingRestartResolved`: a pending restart is verified, times out, is
  forgotten or yields to thermal protection.
* `CompletedCountsEndedProbes`, `StopEndsScan`, `StartedScanEnds`,
  `BoundedSpec`: the counters agree with the probes, those of the orphans of
  failed scans included; hosts are probed once and few at a time; scans end.
* `StatusFollowsScan`: what orphans may do to the published status. Total and
  completed hosts are together those of the current scan or of a failed one;
  the status says running while the current scan runs, and after it returned
  only if an orphan set it again; an error is shown only if the current scan
  failed, and a scan that returned shows the candidates it found itself.
* `SerializedMutations`, `MutationFollowsFreshRead`: between a call's fresh read
  and its end no other call of its coordinator mutates, and a mutation goes out
  on something the device said after the lock was had.
* `CapturedWasHeld`, `RecordedOutcomeIsTrue` (of which `VerifiedWasReadBack` is a
  part): incidents and saved profiles say what was the case, also after a lost answer.
* `EveryCallEnds`: the lock comes round to every call.
* `DecisionsStand`: enrollments, rejections and settings are as the operator
  last decided, whatever snapshots, repeated approvals, migrations, reloads and
  crashes came between, as far as the decision had reached the disk.
* `KnownMinersSurvive`: a miner that could be read once is in every later file
  and registry until it is removed.
* `ExplicitApproval`, `CandidatesAreUndecided`: no answer enrolls a miner that
  was not asked for, and nothing decided is offered again.
* `NoStrayCoordinator`, `FleetFollowsRegistry`: no coordinator polls unlisted,
  and at rest exactly the enabled miners have one and are counted.
* `EndpointHealedByPoll`: an old address written back over a rediscovered one is
  put right by the next successful poll of the miner's first coordinator. After
  the miner was switched off and on it may take one poll more.
* `NobodyStuck`: while a call, a start or a reload is not over, what one of
  them waits for (`Ready`, `StartReady`) is there: they do not all wait for the
  lock, the start and each other.
* `ReadyGoesOn`: `Ready` and `StartReady` are what they are taken for: the steps
  of a task are enabled then, and only then, wherever it waits.
* `RegistryIsStored`: whatever saves, reloads, crashes and calls of old
  registries do, the users of the registry see whole operations one after
  another, and a restart brings back the file. In `StoredRegistry` what is `safe`
  is on disk, so this contains `SavedWhenIdle`: a registry at rest is on disk,
  unless a write failed, was cancelled or came late and none has landed since.
* `RegistryIsAtomic`: every call changes the registry by one whole operation on
  the fleet as it is when the lock is had; what was read before undoes nothing.
* `SettingsSurviveEveryForm`: an accepted configuration makes a profile, and
  miner, profile and policy come back from storage, from the device that took
  over the PATCH and from the panel as they were.
* `SpellingIsIrrelevant`: how a number, a switch or an address is spelt changes
  nothing, and a boolean is no number.
* `CapabilitiesUsable`: every pair of offered options is a profile the device
  supports, the default included.
* `TotalsMatchCoverage`: a total is absent exactly when nobody reports it, adds
  up over any two parts of the fleet, and agrees with the sensors.
* `HistoryKeepsEnds`: a thinned graph keeps both ends, order and outages, and
  leaves out no more than its share at once.
* `LogsAreNewestWholeLines`: of a response with a known length or in one piece,
  the newest whole lines that fit, but for one that would fit exactly.

### Where the code differs from its documents

1. `recovery_lost_attempt`. README.md:184-185: "Attempt history is retained
   through a Home Assistant restart, so restarting Home Assistant cannot reset
   the loop-prevention budget." An attempt is stored after the restart call
   returned; stopping in between loses it.
2. `recovery_overheat_restore`. README.md:188-190 and PROJECT.md:701: the
   default policy keeps the safe values after an overheat. A restart pending
   since before the overheat is verified afterwards and restores at once.
3. `active_scan_overlap`. PROJECT.md:512 and 1271: "No overlapping scans". The
   workers of a scan that failed probe beside the next one.
4. `miner_actions_paused`. README.md:186: "A manually paused miner is never
   auto-restarted." The fresh read under the lock is checked for success and
   not for what it says.
5. `registry_late_write`. PROJECT.md:779: "Do not execute delayed work after the
   integration is unloaded." `async_close` waits for no registry operation and
   cancels none; one that still holds the old registry writes the old fleet
   over what the new one has stored.

Two more differences are not runs that fail but exceptions stated in properties
that pass, in so many words:

6. README.md:182: "Every automatic restart has a cooldown"; PROJECT.md:1165:
   "Attempt window and cooldown survive relevant runtime events." A policy may
   have a cooldown of up to 86400 seconds beside a window of 60
   (`axeos/models.py:217-231`). `_restored_recovery_state` (`recovery.py:378-400`)
   rebuilds the last action from the incidents inside the window only, so a
   failed poll, a policy change or a restart of Home Assistant after the window
   has passed ends a longer cooldown early. This is the second disjunct of
   `RestartRespectsCooldown`; without it `recovery_live` finds the early restart
   within seconds.
7. PROJECT.md:515: "Expose scan progress and summary". After a scan failed, its
   workers go on calling `_async_update_scan_progress`
   (`discovery/manager.py:240-252`): they overwrite `total_hosts` and
   `completed_hosts` of the next scan, set `running` again after it has returned,
   and erase the error of a failed one. `StatusFollowsScan` allows just that and
   only to workers of a failed scan.

## 4. Bounds, and why they are enough

* `recovery`: two ticks, three restarts, a budget of two in a window of two
  ticks, a cooldown of one tick, two observations for a streak. The budget can
  be exhausted, a cooldown end with a restart exactly on its edge, the window
  reach back to the first attempt by just its own length, and state be forgotten
  and restored between any two of these. The miner is healthy, overheated, or
  faulty with an uptime past the grace, so that a restart may follow one of Home
  Assistant at once: with a grace in between, forgetting the last action would
  go unnoticed.
* `recovery_live`: three ticks, a cooldown of three in a window of none, so that
  a restart can be forgotten while its cooldown lasts and one can follow on the
  edge of it; one attempt; all switches on; and the snapshots that must not
  count as faulty: one without an uptime, in grace for the engine's first tick,
  and a fault while paused. `PausedFault` and `Overheated` combine conditions so
  that the order of classification shows. Deadlines and cooldowns still pass
  within the clock, and the properties speak only of deadlines that do
  (`\in Time`).
* `recovery_lost_attempt` leaves out the operator and evictions, and
  `recovery_overheat_restore` failed polls and restarts as well, so that their
  counterexamples show the disagreement alone.
* `active_scan`: two workers on one, two and three hosts (fewer, as many, more
  than workers), two scans, so that one may run beside the orphans of another.
* `miner_actions`: two calls, which is what a race takes; two coordinators, one
  change on the miner's own page, one poll. `resume`, `identify` and an
  operator's `restart` run the code of `pause` and are left out of `Services`;
  the restarts that recovery asks for are in. One profile the capabilities allow
  and one they refuse; the miner starts on an incomplete set with the first one
  saved, and comes to either by an `apply` or a change on its page.
* `registry`: two miners at two addresses, three instances (so that a call of
  the first may meet the third), three operations, one failed or cancelled save,
  one incident kept of two; the file is absent, of version 1 or 2 with a
  damaged record, or unknown; the decisions a later instance reads are
  those of an earlier one. Three operations are two racing ones and
  one that shows the damage. `registry_late_write` allows no failed save, so
  that its counterexample is a late one.
* `fleet`: two miners and two hosts, which is what a mix-up takes; two calls at
  a time out of three in all beside the start and the reloads, one move of the
  network; the known miner starts enabled or disabled and the other one
  unknown; one of the two answers at the recorded host at first and the move
  brings in the other one, puts it in the place of the first or takes that
  one elsewhere.
* `conversions`: values at and on either side of every bound the code names, as
  integer, float and both numerals, and one of every other kind of JSON, in
  each field of an otherwise usual response, and in pairs of fields that are
  read together; lists of up to two options; fleets of up to two miners; up to
  17 states thinned to 2 to 7 points (the code's 1440 is the parameter `most`);
  logs of up to five characters against limits of four and seven bytes, split
  anywhere. The limit of 256 hosts is the code's own.

Bounds on counters stand in guards (`MaxClock`, `MaxRestarts`, `MaxScans`,
`MaxCalls`, `MaxCoordinators`, `MaxChanges`, `MaxPolls`, `MaxInstances`,
`MaxErrors`, `MaxTasks`, `MaxStarted`, `MaxMoves`), none is a state constraint.
Deadlock is checked in the recovery runs and in `conversions`. In the others it
is not: a scan that ended, a stopped manager and finished calls leave nothing
to do, and in `fleet` `NobodyStuck` says what is meant.

## 5. Fairness

* `RecoveryEngine`: time passes, polls go on, and a task that can run does: the
  event loop is fair to its ready callbacks, each request has a total timeout
  of seconds (`const.py`), `wait_for` bounds the restore, the registry's lock is
  held for one write at a time. Nothing is assumed of what polls return, of the
  operator or of restarts.
* `ActiveScan`: each worker goes on (the probe's request has a timeout) and the
  task is resumed when `gather` is done. Starting and stopping are not fair.
* `MinerActions`: each call goes on at its await, for the same reasons; the
  device need not carry out anything, and nothing is assumed of cancellation,
  polls or the operator. Waiters get the lock in order, so weak fairness is
  enough.
* `FleetRuntime` states none. `NobodyStuck`, which is proved, and `ReadyGoesOn`,
  which a run checks, say instead that something that is under way can always
  go on; a call, a start and a reload have finitely many steps each, so under
  the fairness of `MinerActions` they end. The run that checks this directly
  takes longer than it shows.
* `MinerRegistry` and `Conversions` promise nothing that must happen.

## 6. What is proved

For every value of the constants, from the named assumptions on them
(`PolicyAssumption`, `ScanAssumption`, `ActionsAssumption`,
`RegistryAssumption`, `FleetAssumption`, `ConversionsAssumption`), TLAPS
checks:

* `RecoveryEngineProofs`: `IInv` is inductive (`Inductive`), and from it
  `TypesOK`, `FaultyStreak`, `ThermalCooldown`, `SwitchedOff`,
  `CooldownRespected` and `BudgetRespected`.
  The properties are not inductive: they speak of a moment (a restart under
  way) that depends on what was kept or restored long before. `IInv` adds what
  carries them there. `Accounts(st)`: every stored incident is represented by an
  attempt of the state or is older than the window, `last_action_at` is no
  earlier than any attempt, and no earlier than the decision of any stored
  restart that was in the window when the state was built; a restored state
  satisfies it as well as one in memory, which is why losing memory does no
  more harm than that. `TaskInv`: a restart under
  way has its attempt in the state and no incident yet. `StreakInv`: the
  counter never exceeds the streak really seen, and is zero while the engine
  waits for anything. `ThermalInv` and `SwitchInv` do the same for the put-off
  restore and for the switches.
  `CooldownRespected` holds for every cooldown and every window; its exception
  is exactly what a state rebuilt from the window cannot know.
  `BudgetRespected` maps
  the incidents of the window into the attempts by their identities and
  compares cardinalities.
* `ActiveScanProofs`: `IInv` is inductive, and from it `TypesOK`,
  `CompletedCounts`, `StatusFollows`, `StopEnds`, and `ScanIsBounded`:
  `ActiveScan` implements `BoundedScan` under the refinement mapping. `ScanInv`
  says for each scan that its probing hosts are distinct, below the index, and
  that the completed count is the index less the probing workers; `GatherInv`
  that a returned scan had no host left; `ManagerInv` relates the task, the
  status and the stop. `StatusFollows` has an invariant of its own on top,
  `PublishedInv`: who publishes is a worker of the current scan or of one in
  which a probe raised (`GatherInv`), so the hosts shown are always those of one
  such scan, and running is set after a scan's end by a failed one only.
* `MinerActionsProofs`: `IInv` is inductive, and from it `TypesOK`,
  `MutationsSerialized`, `FreshReadFollowed`, `CapturedHeld` and
  `OutcomeIsTrue`. `LockInv` says that whoever is inside is the first in line;
  with it exclusion is arithmetic on the numbers of the calls. `Sound` says of
  each call where its operation may wait (`PlaceOf`), what it has seen of the
  device (`SightOf`) and what became of its mutation (`FateOf`). The device as
  it is belongs to the tenure of every call inside, the set of what the device
  was while the call had the lock, and a tenure only grows: so a reading stays
  in it, whoever changes the device meanwhile. `SentBy` ties the requests under
  way to calls that were not refused, which is why a refusal may be recorded as
  a failure.
* `MinerRegistryProofs`: `IInv` is inductive, and from it `TypesOK`,
  `IdleIsSaved`, `DecisionsKept` and `KnownMinersKept`. A property of the
  registry at rest depends on writes that have yet to land: `SavesInv` says
  that a save under way is what its instance holds, and that the file agrees
  with an idle memory unless it is behind; `KnownInv` that the file, every
  memory and every orphaned write hold the known miners, so whichever lands
  last is harmless to them; `LedgerInv` that the ledger is what the newest
  memory holds, or the first file before there is one. The limit on incidents
  after a removal rests on the positions that are kept being as many as there
  are ranks. `RegistryImplementsStored` is the refinement of `StoredRegistry`:
  the first states map to its first states, and each action of any instance
  maps to a step of it or a stutter. An operation of an instance that was
  replaced is a stutter until its write lands, which is `Overwrite`; that a
  save of the newest instance is `Store`, and no other fleet, is `SavesInv`.
* `FleetRuntimeProofs`: `Core` is inductive, and from it `TypesOK`,
  `CoordinatorsListed` and, as an action property, `OnlyApproved`. `Listing`
  says that a coordinator is listed for its miner exactly while it is not shut;
  `TaskOK` what a suspended task is made of, `SaveOK` that its record is
  there while its save is awaited, `LockInv` that one task at a time saves,
  `PhaseInv` who may be under way while the entry starts.
  `RuntimeImplementsAtomic` is the refinement of `AtomicRegistry`, for any number
  of calls.
* `FleetSettledProofs`: on top of `Core`, that either a reload is due (`Due`)
  or `Settled` holds; from it `CandidatesUndecided`, `FleetFollows` and
  `EndpointHealed`. The three properties speak of a fleet at rest and say
  nothing before it. `Settled` is what leads there: each promise is kept, or a
  call under way will keep it by a step it has yet to take (`Decides`,
  `Enables`, `Disables`, `Removes`, `Announces`, `Recounts`, `Relinks`). At
  rest there is no such call, so the promises are kept. `SomebodyGoesOn` is the
  absence of deadlock: if a task waits for the lock, the one that saves is
  ready; a reload waits only for a start, and a start only for a task of its
  own, which is ready or waits for the lock; and while the runtime is closing
  there is a reload that closes it (`Closing`).
* `ConversionsProofs`: for every JSON body, message, history and network, and not
  only for the inputs of the run, `OptionsUsable`, `EndsKept`, `TotalProbed`,
  `SpellingNeverMatters` and `SettingsSurvive`. The one invariant is `Answered`:
  a result is that of its call. The rest is about the functions themselves.
  `AllOfFields` gives each field of what was accepted back to the parser it came
  from, `AllOfSingles` puts a record together whose fields can each be only one
  thing; between them stand, for every form a value takes, a predicate of what
  was accepted (`IsIdentity`, `IsProfile`, `IsPolicy`) and a lemma that it comes
  back (`MinerReload`, `ProfileReload`, `PolicyReload`, `PatchReadBack`). The
  latter also needs that the PATCH names no field the identity, the telemetry
  or the health are read from (`PartsAlike`). A respelt field leaves every
  table of fields as it was (`OneRespelt`), since only what is read of it
  counts (`NumbersAlike`, `SwitchesAlike`, `AddressesAlike`). For the history,
  rounding half to even moves an index by at most a half, so indices a stride
  of at least one apart stay in order and no further apart than a stride and
  one more.

* `TotalsAndLogsProofs`: for every fleet and every log, and not only for the
  inputs of the run, `TotalsMatch` and `NewestLines`. Both are about functions
  that walk over data. The induction they take is stated for a set of numbers
  and not for a predicate: a set of naturals that holds 0 and the successor of
  each of its members is all of them (`Induction`), since otherwise it would
  have a least number missing (`LeastNumber`, from the well-foundedness of
  `Less`). A function defined by recursion is shown to satisfy its equation by
  building one that does. For the totals, the index set of a fleet falls apart
  in those of its two parts, the second shifted (`Parts`); a sum is the sum of
  its parts whatever order its members are taken in (`SumOfParts`), and a count
  is the cardinality of a disjoint union. For the logs, `Off(t, n)` is where the
  n-th character of a text begins in its bytes. Cutting the bytes anywhere and
  decoding the rest loses at most the character that was cut (`CutsAt`,
  `DecodeFromCut`), so what is left after the partial first line is dropped is a
  suffix of the text that begins a line, if it has a line break, and with the
  line before it no byte would be to spare (`NewestFrom`). `BodyRead` says that
  chunks, however a response is split, add up to the bytes that were announced.

What the proofs changed. `EndpointHealedByPoll` used to say of every coordinator
that one poll heals its address, and TLC agreed within three calls. The proof
did not go through for a coordinator that has a predecessor, and with four calls
of one miner TLC finds why: a refresh that began before the miner was switched
off ends after the new coordinator's poll and writes the old address. The
property now names the first coordinator of a miner; nothing the repository
promises is contradicted, since one poll more heals it. The bound on the
coordinators of a runtime, which no run ever reached, has gone, so
`FleetRuntimeProofs` covers any number of them. `NobodyStuck` used to be stated
with ENABLED; it is now the part that depends on what the calls do to each
other, and `ReadyGoesOn` the part that is about one step. The decoding of
a log and the reading of a response used to be recursive; they are the
flattening of sequences now, and TLC finds no difference on the inputs of the
run.

The assumptions say that the markers (`NoRecord`, `Nobody`, ...) are none of the
values they stand beside, that the first states are well typed, and that bounds
and limits are numbers; of a log, that its text is a sequence of characters,
that none of its chunks is empty, and that together they are its encoding.

Only proved: `TotalProbed`, that the announced size of a scan is the number of
addresses it probes, /31 and /32 too, and within the limit. No run checks it: a
network is one of 33 prefix lengths, and a loop over them shows as much.

Only model-checked: the liveness properties `PendingRestartResolved`,
`DeferredRestoreResolved`, `StartedScanEnds` and `EveryCallEnds`, and
`ReadyGoesOn`. The prover has no support for fairness and ENABLED. Every other
property of a passing run is a theorem.

## 7. Plan

What is left are sharper statements: in `FleetRuntime` what holds of a miner
after it was switched off and on (now exempt from `EndpointHealedByPoll`), and
the same refinement for the manager's candidates as for the registry.

## 8. Not modelled, and why

* Panel and cards: rendering, and request bookkeeping of a browser that keeps
  nothing and can only show late what a modelled call returned.
* The sensors but for two, the panel's views of miners, scans and histories,
  forms and error texts read one value each and have no state.
* Resolving entity ids and querying the Recorder is Home Assistant's.
* Redaction, diagnostics and panel registration transform text or run once;
  packaging is a build script. No property of the running system depends on
  them.
* Content types, the classes of errors and the wording of incidents matter only
  as success, refusal or doubt.
* A response without a Content-Length is read up to its first chunk
  (`axeos/client.py:252`). That is in `ReadResponseBody`, and the log property
  leaves such a response in several chunks out: the code speaks of the
  documented known-length response only.
* Home Assistant's coordinator, storage and event loop, aiohttp and the miner's
  firmware are external: modelled as far as the source relies on them, and
  marked so in the map.

## 9. Running

    tlc -workers 2 -config Recovery.cfg MCRecoveryEngine
    tlc -workers 2 -config ActiveScan.cfg MCActiveScan
    tlc -workers 2 -config Actions.cfg MCMinerActions
    tlc -workers 2 -config Registry.cfg MCMinerRegistry
    tlc -workers 2 -config Fleet.cfg MCFleetRuntime
    tlc -workers 2 -config Conversions.cfg MCConversions
    tlapm RecoveryEngineProofs.tla
    tlapm ActiveScanProofs.tla
    tlapm MinerActionsProofs.tla
    tlapm MinerRegistryProofs.tla
    tlapm FleetRuntimeProofs.tla
    tlapm FleetSettledProofs.tla
    tlapm ConversionsProofs.tla
    tlapm TotalsAndLogsProofs.tla
