------------------------------ MODULE FleetRuntime ------------------------------
(***************************************************************************)
(* The life of the fleet's runtime: start, reload and close (__init__.py,  *)
(* runtime.py, config_flow.py), enrollment, removal and switching of       *)
(* miners, discovery's candidates (discovery/manager.py), and the polls    *)
(* and endpoint moves of the coordinators (coordinator.py).                *)
(*                                                                         *)
(* A task is a coroutine, pc the await it is suspended at; each action     *)
(* runs one task to its next await.  Every registry operation may have to  *)
(* wait: the ones left out here (incidents, profiles, policies) hold the   *)
(* registry's lock too, and the operations of MinerActions the action lock *)
(* of a coordinator.  What a call of a closed runtime still writes is      *)
(* MinerRegistry's subject; here it ends with its runtime, since           *)
(* _entry() raises and coordinators that are shut down do not read.        *)
(***************************************************************************)
EXTENDS Integers, Sequences

CONSTANTS
  Miners,       \* MAC identities
  Hosts,        \* private addresses
  Nobody,       \* no AxeOS device answers
  NoRecord,     \* the miner is not enrolled
  NoHost,       \* no candidate, no poll since the client was replaced
  FirstFleets,  \* records the integration starts with
  FirstNetworks, \* who answers where when it does
  MaxTasks,     \* bound: calls under way at a time
  MaxStarted,   \* bound: calls of a behaviour
  MaxMoves      \* bound: changes of the network

Record == [host : Hosts, enabled : BOOLEAN]
Records == [Miners -> Record \cup {NoRecord}]

ASSUME FleetAssumption ==
  /\ NoRecord \notin Record
  /\ NoRecord \notin [host : Hosts, settings : [{"enabled"} -> BOOLEAN]]
  /\ Nobody \notin Miners
  /\ NoHost \notin Hosts
  /\ FirstFleets \subseteq Records
  /\ FirstNetworks \subseteq [Hosts -> Miners \cup {Nobody}]
  /\ MaxTasks \in Nat
  /\ MaxStarted \in Nat
  /\ MaxMoves \in Nat

VARIABLES
  answers,  \* the miner that answers at each host
  records,  \* registry.miners
  rejected, \* registry.rejected_candidates
  phase,    \* of the config entry
  queue,    \* what async_start has yet to start, as read when it began
  runtime,  \* entry.runtime_data
  tasks,    \* the calls under way, and async_start itself
  started,  \* calls so far
  moves     \* changes of the network so far

vars == <<answers, records, rejected, phase, queue, runtime, tasks, started,
          moves>>

Answer == Miners \cup {Nobody}


(* ok: last_update_success.  heard: it has a snapshot.  polled: the host   *)
(* its last successful refresh read, since its client was replaced.        *)
Coordinator ==
  [miner : Miners, host : Hosts, shut : BOOLEAN, ok : BOOLEAN,
   heard : BOOLEAN, polled : Hosts \cup {NoHost}]

Totals == [enabled : SUBSET Miners, online : SUBSET Miners]

(* coordinators: number of the miner's coordinator, 0 for none. *)
Runtime ==
  [coordinators : [Miners -> Nat],
   objects : Seq(Coordinator),
   totals : Totals,
   candidates : [Miners -> Hosts \cup {NoHost}]]

Kinds == {"enroll", "approve", "reject", "probe", "remove", "switch", "poll"}

(* async_start runs as a task of its own. *)
Starter == 0
Tasks == 1..MaxTasks
AllTasks == {Starter} \cup Tasks

(* asked: the MAC in the request.  miner, host, enabled: what was read and *)
(* registered.  first: who answered when the request began.  object: the   *)
(* coordinator that refreshes, 0 before.                                   *)
Task ==
  [kind : Kinds \cup {"start"},
   pc : {"idle", "reading", "locking", "saving", "linking", "reloading"},
   asked : Answer, miner : Answer, first : Answer,
   host : Hosts \cup {NoHost}, enabled : BOOLEAN, object : Nat]

Idle ==
  [kind |-> "start", pc |-> "idle", asked |-> Nobody, miner |-> Nobody,
   first |-> Nobody, host |-> NoHost, enabled |-> FALSE, object |-> 0]

EmptyRuntime ==
  [coordinators |-> [m \in Miners |-> 0], objects |-> <<>>,
   totals |-> [enabled |-> {}, online |-> {}],
   candidates |-> [m \in Miners |-> NoHost]]

EnabledIn(recs) == {m \in Miners : recs[m] # NoRecord /\ recs[m].enabled}
Captured(recs) ==
  [m \in Miners |-> IF m \in EnabledIn(recs) THEN recs[m] ELSE NoRecord]

Init ==
  /\ answers \in FirstNetworks
  /\ records \in FirstFleets
  /\ rejected = {}
  /\ phase = "starting"
  /\ queue = Captured(records)
  /\ runtime = EmptyRuntime
  /\ tasks = [t \in AllTasks |-> Idle]
  /\ started = 0
  /\ moves = 0

-----------------------------------------------------------------------------
(* Pieces of the coroutines: from a runtime and a task to both.            *)

Both(r, task) == [runtime |-> r, task |-> task]

Online(r, m) ==
  LET c == r.coordinators[m]
  IN  c # 0 /\ r.objects[c].ok /\ r.objects[c].heard

(* _async_refresh_fleet_aggregates *)
Counted(r, recs) ==
  [r EXCEPT !.totals = [enabled |-> EnabledIn(recs),
                        online |-> {m \in EnabledIn(recs) : Online(r, m)}]]

(* The fleet listens to the coordinators it lists. *)
Notified(r, recs, c) ==
  IF r.coordinators[r.objects[c].miner] = c THEN Counted(r, recs) ELSE r

(* The config flow and the removal of a device reload the entry. *)
Ended(r, recs, task) ==
  CASE task.kind = "enroll" -> Both(r, [task EXCEPT !.pc = "reloading"])
    [] task.kind = "switch" -> Both(Counted(r, recs), Idle)
    [] OTHER -> Both(r, Idle)

(* After a shutdown async_refresh returns at once. *)
Refresh(r, recs, task, c) ==
  IF r.objects[c].shut THEN Ended(r, recs, task)
  ELSE Both(r, [task EXCEPT !.pc = "reading", !.object = c,
                            !.host = r.objects[c].host,
                            !.first = answers[r.objects[c].host]])

Created(r, m, host) ==
  LET c == Len(r.objects) + 1
  IN  [r EXCEPT !.coordinators[m] = c,
                !.objects = Append(@, [miner |-> m, host |-> host,
                                       shut |-> FALSE, ok |-> TRUE,
                                       heard |-> FALSE, polled |-> NoHost])]

(* async_start_miner.  The listed coordinator is only moved and refreshed. *)
StartMiner(r, recs, task, m, host) ==
  IF r.coordinators[m] = 0
  THEN LET new == Created(r, m, host)
       IN  Refresh(new, recs, task, Len(new.objects))
  ELSE Both(r, [task EXCEPT !.pc = "linking", !.host = host,
                            !.object = r.coordinators[m]])

(* Mutant: the coordinator is forgotten and not shut down. *)
Unlisted(r, m) == [r EXCEPT !.coordinators[m] = 0]

(* Listeners, coordinator and its polling end together. *)
Stopped(r, m) ==
  LET c == r.coordinators[m]
  IN  IF c = 0 THEN r
      ELSE [r EXCEPT !.coordinators[m] = 0, !.objects[c].shut = TRUE]

Popped(r, m) == [r EXCEPT !.candidates[m] = NoHost]

(* Only the first failure after a success is told to the listeners. *)
Failed(r, recs, c) ==
  LET failed == [r EXCEPT !.objects[c].ok = FALSE]
  IN  IF r.objects[c].ok THEN Notified(failed, recs, c) ELSE failed

Published(r, recs, c) ==
  Notified([r EXCEPT !.objects[c].ok = TRUE, !.objects[c].heard = TRUE],
           recs, c)

Refreshed(r, recs, task) ==
  LET c == task.object
  IN  Ended(Published([r EXCEPT !.objects[c].polled = task.host], recs, c),
            recs, task)

(* Mutant: a rediscovered miner is started though it is disabled. *)
KnownIsStarted(r, recs, task) ==
  StartMiner(r, recs, task, task.miner, task.host)

(* _async_handle_known_snapshot *)
Known(r, recs, task) ==
  IF task.enabled THEN StartMiner(r, recs, task, task.miner, task.host)
  ELSE Both(r, Idle)

AfterUpdate(r, recs, task) ==
  IF task.object # 0 THEN Refreshed(r, recs, task) ELSE Known(r, recs, task)

Switched(r, recs, task) ==
  LET m == task.asked
  IN  IF task.enabled /\ r.coordinators[m] = 0
      THEN StartMiner(r, recs, task, m, task.host)
      ELSE Ended(IF task.enabled THEN r ELSE Stopped(r, m), recs, task)

Approved(r, recs, task) ==
  IF task.enabled
  THEN StartMiner(Popped(r, task.asked), recs, task, task.miner, task.host)
  ELSE Both(Popped(r, task.asked), Idle)

(* What follows the registry operation of a task. *)
AfterSave(r, recs, task) ==
  CASE task.object # 0 \/ task.kind = "probe" -> AfterUpdate(r, recs, task)
    [] task.object = 0 /\ task.kind = "enroll" ->
         StartMiner(r, recs, task, task.miner, task.host)
    [] task.object = 0 /\ task.kind = "approve" -> Approved(r, recs, task)
    [] task.object = 0 /\ task.kind = "switch" -> Switched(r, recs, task)
    [] task.kind = "reject" -> Both(Popped(r, task.asked), Idle)
    [] task.kind = "remove" ->
         Both(Counted(r, recs), [task EXCEPT !.pc = "reloading"])

Becomes(t, both) ==
  /\ runtime' = both.runtime
  /\ tasks' = [tasks EXCEPT ![t] = both.task]

-----------------------------------------------------------------------------
(* Calls begin.                                                            *)

Loaded == phase \in {"starting", "running"}
registry == <<records, rejected>>
network == <<answers, moves>>

Begin(t, r, task) ==
  /\ t \in Tasks
  /\ tasks[t] = Idle
  /\ started < MaxStarted
  /\ started' = started + 1
  /\ Becomes(t, Both(r, task))
  /\ UNCHANGED <<network, registry, phase, queue>>

Reading(kind, asked, host) ==
  [Idle EXCEPT !.kind = kind, !.pc = "reading", !.asked = asked,
               !.host = host, !.first = answers[host]]
Locking(kind, asked) ==
  [Idle EXCEPT !.kind = kind, !.pc = "locking", !.asked = asked]

EnrollHost(t, host) ==
  Loaded /\ Begin(t, runtime, Reading("enroll", Nobody, host))

(* An mDNS observation or a host of a scan. *)
ProbeEndpoint(t, host) ==
  phase = "running" /\ Begin(t, runtime, Reading("probe", Nobody, host))

ApproveCandidate(t, m) ==
  /\ phase = "running"
  /\ runtime.candidates[m] # NoHost
  /\ Begin(t, runtime, Reading("approve", m, runtime.candidates[m]))

RejectCandidate(t, m) ==
  phase = "running" /\ Begin(t, runtime, Locking("reject", m))

RemoveMiner(t, m) ==
  Loaded /\ Begin(t, Stopped(runtime, m), Locking("remove", m))

(* Nothing in the repository calls async_set_enabled. *)
SetEnabled(t, m, enabled) ==
  /\ phase = "running"
  /\ Begin(t, runtime, [Locking("switch", m) EXCEPT !.enabled = enabled])

(* The scheduled refresh of a coordinator. *)
Poll(t, m) ==
  /\ runtime.coordinators[m] # 0
  /\ LET both == Refresh(runtime, records, [Idle EXCEPT !.kind = "poll"],
                         runtime.coordinators[m])
     IN  Begin(t, both.runtime, both.task)

-----------------------------------------------------------------------------
(* Reads return: what answered when they began, what answers now, or not.  *)

Answered(t, a) ==
  /\ tasks[t].pc = "reading"
  /\ a \in {tasks[t].first, answers[tasks[t].host], Nobody}
  /\ UNCHANGED <<network, registry, phase, queue, started>>

Lock(task, a) == [task EXCEPT !.pc = "locking", !.miner = a]

(* Mutant: whoever answers at the candidate's host is approved. *)
ApprovalRead(task, a) ==
  IF a = Nobody THEN Both(runtime, Idle) ELSE Both(runtime, Lock(task, a))

Revalidated(task, a) ==
  CASE a = Nobody -> Both(runtime, Idle)
    [] a = task.asked -> Both(runtime, Lock(task, a))
    [] OTHER -> Both(Popped(runtime, task.asked), Idle)

(* Mutant: a rejected miner is offered again. *)
ProbedAgain(task, a) ==
  IF a = Nobody THEN Both(runtime, Idle)
  ELSE IF records[a] # NoRecord THEN Both(runtime, Lock(task, a))
  ELSE Both([runtime EXCEPT !.candidates[a] = task.host], Idle)

Probed(task, a) ==
  IF a = Nobody THEN Both(runtime, Idle)
  ELSE IF records[a] # NoRecord THEN Both(runtime, Lock(task, a))
  ELSE IF a \in rejected THEN Both(runtime, Idle)
  ELSE Both([runtime EXCEPT !.candidates[a] = task.host], Idle)

RefreshRead(task, a) ==
  LET c == task.object
  IN  IF a = runtime.objects[c].miner THEN Both(runtime, Lock(task, a))
      ELSE Ended(Failed(runtime, records, c), records, task)

ReadReturns(t, a) ==
  LET task == tasks[t]
  IN  /\ Answered(t, a)
      /\ \/ task.object # 0 /\ Becomes(t, RefreshRead(task, a))
         \/ /\ task.object = 0 /\ task.kind = "enroll"
            /\ Becomes(t, Both(runtime,
                               IF a = Nobody THEN Idle ELSE Lock(task, a)))
         \/ /\ task.object = 0 /\ task.kind = "approve"
            /\ Becomes(t, Revalidated(task, a))
         \/ /\ task.object = 0 /\ task.kind = "probe"
            /\ Becomes(t, Probed(task, a))

-----------------------------------------------------------------------------
(* Registry operations: the change when the lock is got, then the save.    *)

Acquires(t) ==
  /\ tasks[t].pc = "locking"
  /\ \A u \in AllTasks : tasks[u].pc # "saving"
  /\ UNCHANGED <<network, phase, queue, started>>

Saving(t, enabled, host) ==
  /\ tasks' = [tasks EXCEPT ![t].pc = "saving", ![t].enabled = enabled,
                            ![t].host = host]
  /\ runtime' = runtime

(* Mutant: an approval makes a new record, enabled, of a known miner. *)
EnrollsAnew(t) ==
  LET task == tasks[t]
  IN  /\ Acquires(t)
      /\ task.object = 0
      /\ task.kind \in {"enroll", "approve"}
      /\ records' = [records EXCEPT
                       ![task.miner] = [host |-> task.host, enabled |-> TRUE]]
      /\ rejected' = rejected \ {task.miner}
      /\ Saving(t, TRUE, task.host)

EnrollAcquires(t) ==
  LET task == tasks[t]
      m == task.miner
      enabled == records[m] # NoRecord => records[m].enabled
  IN  /\ Acquires(t)
      /\ task.object = 0
      /\ task.kind \in {"enroll", "approve"}
      /\ records' = [records EXCEPT
                       ![m] = [host |-> task.host, enabled |-> enabled]]
      /\ rejected' = rejected \ {m}
      /\ Saving(t, enabled, task.host)

(* async_update_from_snapshot, of a refresh or a probe. *)
UpdateAcquires(t) ==
  LET task == tasks[t]
      m == task.miner
  IN  /\ Acquires(t)
      /\ task.object # 0 \/ task.kind = "probe"
      /\ IF records[m] = NoRecord
         THEN /\ Becomes(t, AfterUpdate(runtime, records,
                                        [task EXCEPT !.enabled = FALSE]))
              /\ records' = records
         ELSE IF records[m].host = task.host
         THEN /\ Becomes(t, AfterUpdate(runtime, records,
                             [task EXCEPT !.enabled = records[m].enabled]))
              /\ records' = records
         ELSE /\ Saving(t, records[m].enabled, task.host)
              /\ records' = [records EXCEPT ![m].host = task.host]
      /\ rejected' = rejected

(* Mutant: the MAC that was read is rejected, and none was. *)
RejectsRead(t) ==
  /\ Acquires(t)
  /\ tasks[t].kind = "reject"
  /\ rejected' = rejected \cup {tasks[t].miner}
  /\ records' = records
  /\ Saving(t, FALSE, NoHost)

RejectAcquires(t) ==
  /\ Acquires(t)
  /\ tasks[t].kind = "reject"
  /\ rejected' = rejected \cup {tasks[t].asked}
  /\ records' = records
  /\ Saving(t, FALSE, NoHost)

(* Removing what is not enrolled is answered without a save or a reload. *)
RemoveAcquires(t) ==
  LET m == tasks[t].asked
  IN  /\ Acquires(t)
      /\ tasks[t].kind = "remove"
      /\ IF records[m] = NoRecord
         THEN /\ Becomes(t, Both(Counted(runtime, records), Idle))
              /\ records' = records
         ELSE /\ Saving(t, FALSE, NoHost)
              /\ records' = [records EXCEPT ![m] = NoRecord]
      /\ rejected' = rejected

SwitchAcquires(t) ==
  LET task == tasks[t]
      m == task.asked
  IN  /\ Acquires(t)
      /\ task.kind = "switch" /\ task.object = 0
      /\ IF records[m] = NoRecord
         THEN Becomes(t, Both(runtime, Idle)) /\ records' = records
         ELSE /\ Saving(t, task.enabled, records[m].host)
              /\ records' = [records EXCEPT ![m].enabled = task.enabled]
      /\ rejected' = rejected

SaveReturns(t) ==
  /\ tasks[t].pc = "saving"
  /\ Becomes(t, AfterSave(runtime, records, tasks[t]))
  /\ UNCHANGED <<network, registry, phase, queue, started>>

(* Mutant: the record is replaced and the client is not. *)
LinkedWithOldClient(t) ==
  LET task == tasks[t]
      c == task.object
  IN  /\ task.pc = "linking"
      /\ Becomes(t, IF task.kind = "probe"
                    THEN Both(Published(runtime, records, c), Idle)
                    ELSE Refresh(runtime, records, task, c))
      /\ UNCHANGED <<network, registry, phase, queue, started>>

(* async_replace_enrollment got the action lock.  A probe publishes its    *)
(* snapshot, everyone else refreshes.                                      *)
Linked(t) ==
  LET task == tasks[t]
      c == task.object
      moved == [runtime EXCEPT !.objects[c].host = task.host,
                               !.objects[c].polled = NoHost]
  IN  /\ task.pc = "linking"
      /\ Becomes(t, IF task.kind = "probe"
                    THEN Both(Published(moved, records, c), Idle)
                    ELSE Refresh(moved, records, task, c))
      /\ UNCHANGED <<network, registry, phase, queue, started>>

-----------------------------------------------------------------------------
(* Start, reload and close.                                                *)

StartNext(m) ==
  /\ phase = "starting"
  /\ tasks[Starter] = Idle
  /\ queue[m] # NoRecord
  /\ queue' = [queue EXCEPT ![m] = NoRecord]
  /\ Becomes(Starter, StartMiner(runtime, records, Idle, m, queue[m].host))
  /\ UNCHANGED <<network, registry, phase, started>>

StartEnds ==
  /\ phase = "starting"
  /\ tasks[Starter] = Idle
  /\ \A m \in Miners : queue[m] = NoRecord
  /\ phase' = "running"
  /\ runtime' = Counted(runtime, records)
  /\ UNCHANGED <<network, registry, queue, tasks, started>>

(* Mutant: unloading waits for every other call. *)
CloseWaits(t) ==
  /\ tasks[t].pc = "reloading"
  /\ \A u \in AllTasks \ {t} : tasks[u] = Idle
  /\ phase = "running"
  /\ phase' = "closing"
  /\ UNCHANGED <<network, registry, queue, runtime, tasks, started>>

(* Mutant: unloading cancels the call that asked for it with the others. *)
CloseCancelsAll(t) ==
  /\ tasks[t].pc = "reloading"
  /\ phase = "running"
  /\ phase' = "closing"
  /\ tasks' = [u \in AllTasks |-> Idle]
  /\ UNCHANGED <<network, registry, queue, runtime, started>>

(* Discovery is closed: its probes are cancelled wherever they wait. *)
CloseBegins(t) ==
  /\ tasks[t].pc = "reloading"
  /\ phase = "running"
  /\ phase' = "closing"
  /\ tasks' = [u \in AllTasks |->
                 IF tasks[u].kind = "probe" THEN Idle ELSE tasks[u]]
  /\ UNCHANGED <<network, registry, queue, runtime, started>>

(* The coordinators are shut down and the entry is set up again, once for  *)
(* the calls that asked for it and the others end with the old runtime.    *)
CloseEnds(t) ==
  /\ tasks[t].pc = "reloading"
  /\ phase = "closing"
  /\ phase' = "starting"
  /\ queue' = Captured(records)
  /\ runtime' = EmptyRuntime
  /\ tasks' = [u \in AllTasks |->
                 IF u # t /\ tasks[u].pc = "reloading" THEN tasks[u] ELSE Idle]
  /\ UNCHANGED <<network, registry, started>>

(* A miner shows up at a host, leaves where it was, or is switched off. *)
Moves(host, a) ==
  /\ moves < MaxMoves
  /\ answers[host] # a
  /\ moves' = moves + 1
  /\ answers' = [h \in Hosts |->
                   IF h = host THEN a
                   ELSE IF answers[h] = a THEN Nobody ELSE answers[h]]
  /\ UNCHANGED <<registry, phase, queue, runtime, tasks, started>>

Calls(t) ==
  \/ \E host \in Hosts : EnrollHost(t, host) \/ ProbeEndpoint(t, host)
  \/ \E m \in Miners :
       \/ ApproveCandidate(t, m)
       \/ RejectCandidate(t, m)
       \/ RemoveMiner(t, m)
       \/ \E enabled \in BOOLEAN : SetEnabled(t, m, enabled)
       \/ Poll(t, m)

Continue(t) ==
  \/ \E a \in Answer : ReadReturns(t, a)
  \/ EnrollAcquires(t)
  \/ UpdateAcquires(t)
  \/ RejectAcquires(t)
  \/ RemoveAcquires(t)
  \/ SwitchAcquires(t)
  \/ SaveReturns(t)
  \/ Linked(t)
  \/ CloseBegins(t)
  \/ CloseEnds(t)

StartContinues == StartEnds \/ \E m \in Miners : StartNext(m)

Next ==
  \/ \E t \in AllTasks : Continue(t) \/ Calls(t)
  \/ StartContinues
  \/ \E host \in Hosts, a \in Answer : Moves(host, a)

Spec == Init /\ [][Next]_vars

-----------------------------------------------------------------------------
TypeOK ==
  /\ answers \in [Hosts -> Answer]
  /\ records \in Records
  /\ rejected \subseteq Miners
  /\ phase \in {"starting", "running", "closing"}
  /\ queue \in Records
  /\ runtime \in Runtime
  /\ \A m \in Miners : runtime.coordinators[m] <= Len(runtime.objects)
  /\ tasks \in [AllTasks -> Task]
  /\ started \in 0..MaxStarted
  /\ moves \in 0..MaxMoves

(* A miner is enrolled only by the request of an operator that named its   *)
(* host, or that named its MAC and was read back at the candidate's host:  *)
(* no answer, however late or wherever the miner moved, enrolls another.   *)
ExplicitApproval ==
  [][\A m \in Miners :
       records[m] = NoRecord /\ records'[m] # NoRecord =>
         \E t \in Tasks :
           /\ tasks[t].pc = "locking" /\ tasks'[t].pc = "saving"
           /\ \/ tasks[t].kind = "enroll"
              \/ tasks[t].kind = "approve" /\ tasks[t].asked = m]_vars

Quiet == phase = "running" /\ \A t \in AllTasks : tasks[t] = Idle

(* Probes, approvals, rejections and enrollments in any order: what is     *)
(* offered for approval in the end was neither approved nor rejected.      *)
CandidatesAreUndecided ==
  Quiet =>
    \A m \in Miners :
      runtime.candidates[m] # NoHost => records[m] = NoRecord /\ m \notin rejected

(* No coordinator goes on polling that the runtime does not list: closing, *)
(* disabling and removing reach every one, whoever is refreshing it.       *)
NoStrayCoordinator ==
  \A c \in 1..Len(runtime.objects) :
    ~runtime.objects[c].shut =>
      runtime.coordinators[runtime.objects[c].miner] = c

(* When every call and reload is over, exactly the enabled miners have a   *)
(* coordinator and the published totals count them and those that answer.  *)
FleetFollowsRegistry ==
  Quiet =>
    /\ \A m \in Miners :
         (runtime.coordinators[m] # 0) <=> (m \in EnabledIn(records))
    /\ runtime = Counted(runtime, records)

(* The coordinator is the first its miner has in this runtime. *)
Unswitched(c) ==
  \A d \in 1..Len(runtime.objects) :
    runtime.objects[d].miner = runtime.objects[c].miner => d = c

(* A late answer of the old address may write it back over a rediscovered  *)
(* one; the next successful poll puts that right: a coordinator whose last *)
(* poll came from the client it has polls the address that is recorded.    *)
(* After a miner was switched off and on it may take one poll more: the    *)
(* late answer may be one of the coordinator it had before.                *)
EndpointHealedByPoll ==
  Quiet =>
    \A c \in 1..Len(runtime.objects) :
      LET object == runtime.objects[c]
      IN  ~object.shut /\ object.polled = object.host /\ Unswitched(c) =>
            records[object.miner].host = object.host

(* A miner is enabled by default; incidents are not modelled here. *)
HeldRecord(record) ==
  IF record = NoRecord THEN NoRecord
  ELSE [host |-> record.host,
        settings |-> [f \in {"enabled"} |-> ~record.enabled]]

HeldFleet ==
  [miners |-> [m \in Miners |-> HeldRecord(records[m])],
   rejected |-> rejected, incidents |-> <<>>]

Registry ==
  INSTANCE AtomicRegistry WITH
    Fields <- {"enabled"},
    MaxIncidents <- 1,
    fleet <- HeldFleet

(* Every coroutine reads and changes the registry as the registry allows:  *)
(* by one whole operation at a time, on the fleet as it is when the lock   *)
(* is got.  What was read before the lock (a snapshot, the host of a       *)
(* candidate, a switch) undoes nothing another call did since.             *)
RegistryIsAtomic == Registry!Spec

(* What a task waits for is there: an answer comes or does not, a save     *)
(* returns, and the other two waits are for the lock and for the reload.   *)
Ready(t) ==
  \/ tasks[t].pc \in {"reading", "saving", "linking"}
  \/ tasks[t].pc = "locking" /\ \A u \in AllTasks : tasks[u].pc # "saving"
  \/ tasks[t].pc = "reloading" /\ phase # "starting"

StartReady == phase = "starting" /\ tasks[Starter] = Idle

(* No deadlock over the registry's lock, the start and the reloads: while  *)
(* a call, a start or a reload is not over, one of them can go on.  Since  *)
(* each has finitely many steps, every call ends and every reload comes to *)
(* a running fleet.                                                        *)
NobodyStuck == ~Quiet => StartReady \/ \E t \in AllTasks : Ready(t)

(* A task that is ready is not left hanging: some step takes it on from    *)
(* wherever it waits, whatever was removed, disabled or shut down          *)
(* meanwhile; and nothing takes on a task that is not ready.               *)
ReadyGoesOn ==
  /\ StartReady = ENABLED StartContinues
  /\ \A t \in AllTasks : Ready(t) = ENABLED Continue(t)
=============================================================================
