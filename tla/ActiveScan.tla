----------------------------- MODULE ActiveScan ------------------------------
(***************************************************************************)
(* Administrator-initiated network scans: async_scan_network of            *)
(* discovery/active_scan.py, and what discovery/manager.py keeps around it *)
(* (the single scan task, the published status, the stop on unload).       *)
(*                                                                         *)
(* index_lock guards no await, so it is never contended: a worker runs     *)
(* without interruption from the end of one probe to the start of the      *)
(* next, and the probe is its only await.  A probe's own expected failures *)
(* are answers (False); it raises when the registry cannot save a moved    *)
(* miner or the runtime cannot start it.                                   *)
(*                                                                         *)
(* Scans are numbered in the order they are started.  Each has its own     *)
(* next_index, completed and workers, as the closure of the call has.      *)
(***************************************************************************)
EXTENDS Integers, FiniteSets

CONSTANTS
  HostCounts,   \* how many hosts an approved network may have
  Concurrency,  \* ACTIVE_SCAN_CONCURRENCY
  MaxScans      \* bound: scans in a behaviour

(* parse_private_network admits no network without a host. *)
ASSUME ScanAssumption ==
  /\ HostCounts \subseteq Nat \ {0}
  /\ Concurrency \in Nat \ {0}
  /\ MaxScans \in Nat \ {0}

VARIABLES
  closed,     \* self._closed
  stopping,   \* where async_stop is: "no", "browser", "scan", "stopped"
  scan_task,  \* the number of the scan self._scan_task runs or ran, 0 for None
  started,    \* how many scans were started
  scans,      \* the local state of every scan's coroutines
  status      \* self._scan_status

vars == <<closed, stopping, scan_task, started, scans, status>>

Scans == 1..MaxScans
Workers == 1..Concurrency

(* task: None, suspended in gather, or how it ended.  worker: not created,  *)
(* about to take a host, awaiting the probe of host, or how it ended.       *)
(* discovered is the sum of the workers' worker_discovered; positive is     *)
(* history: the hosts whose probe answered True.                            *)
TaskState == {"none", "gathering", "returned", "raised", "cancelled"}
WorkerState == {"absent", "ready", "probing", "returned", "raised", "cancelled"}

ScanType ==
  [task       : TaskState,
   total      : Nat,
   next_index : Nat,
   completed  : Nat,
   worker     : [Workers -> WorkerState],
   host       : [Workers -> Nat],
   discovered : Nat,
   positive   : SUBSET Nat]

NoScan ==
  [task |-> "none", total |-> 0, next_index |-> 0, completed |-> 0,
   worker |-> [w \in Workers |-> "absent"], host |-> [w \in Workers |-> 0],
   discovered |-> 0, positive |-> {}]

StatusType ==
  [running : BOOLEAN, total_hosts : Nat, completed_hosts : Nat,
   discovered_candidates : Nat, error : BOOLEAN]

Idle ==
  [running |-> FALSE, total_hosts |-> 0, completed_hosts |-> 0,
   discovered_candidates |-> 0, error |-> FALSE]

TypeOK ==
  /\ closed \in BOOLEAN
  /\ stopping \in {"no", "browser", "scan", "stopped"}
  /\ scan_task \in 0..MaxScans
  /\ started \in 0..MaxScans
  /\ scans \in [Scans -> ScanType]
  /\ status \in StatusType

Init ==
  /\ closed = FALSE
  /\ stopping = "no"
  /\ scan_task = 0
  /\ started = 0
  /\ scans = [g \in Scans |-> NoScan]
  /\ status = Idle

-----------------------------------------------------------------------------
(* async_start_scan, and async_scan_network up to its gather. *)
CreatedWorkers(n) ==
  [w \in Workers |-> IF w <= n THEN "ready" ELSE "absent"]

Gathering == scan_task # 0 /\ scans[scan_task].task = "gathering"

StartScan(n) ==
  /\ ~closed
  /\ ~Gathering
  /\ started < MaxScans
  /\ started' = started + 1
  /\ scan_task' = started + 1
  /\ scans' = [scans EXCEPT ![started + 1] =
                 [NoScan EXCEPT !.task = "gathering", !.total = n,
                                !.worker = CreatedWorkers(n)]]
  /\ status' = [Idle EXCEPT !.running = TRUE, !.total_hosts = n]
  /\ UNCHANGED <<closed, stopping>>

-----------------------------------------------------------------------------
(* The workers of one scan.                                                *)

(* progress(completed, total) up to the last host, and then no longer. *)
ProgressUntilLast(completed, total) ==
  [status EXCEPT !.running = completed < total, !.total_hosts = total,
                 !.completed_hosts = completed, !.error = FALSE]

(* progress(completed, total): whoever calls it, the status says running. *)
Progress(completed, total) ==
  [status EXCEPT !.running = TRUE, !.total_hosts = total,
                 !.completed_hosts = completed, !.error = FALSE]

(* The scan goes on as s, and publishes its progress if it made any. *)
Continue(g, s) ==
  /\ scans' = [scans EXCEPT ![g] = s]
  /\ status' = IF s.completed = scans[g].completed THEN status
               ELSE Progress(s.completed, s.total)

(* The index runs past the last host. *)
TakeHostPastEnd(s, w) ==
  IF s.next_index > s.total
  THEN [s EXCEPT !.worker[w] = "returned"]
  ELSE [s EXCEPT !.worker[w] = "probing", !.host[w] = s.next_index,
                 !.next_index = @ + 1]

(* _next_host, and the start of the probe or the end of the worker.  Once   *)
(* the manager is closed a probe returns False without an await, so the     *)
(* worker goes through all hosts that are left.                             *)
TakeHost(s, w) ==
  IF closed \/ s.next_index = s.total
  THEN [s EXCEPT !.worker[w] = "returned",
                 !.next_index = s.total,
                 !.completed = @ + (s.total - s.next_index)]
  ELSE [s EXCEPT !.worker[w] = "probing",
                 !.host[w] = s.next_index,
                 !.next_index = @ + 1]

WorkerStarts(g, w) ==
  /\ scans[g].worker[w] = "ready"
  /\ Continue(g, TakeHost(scans[g], w))
  /\ UNCHANGED <<closed, stopping, scan_task, started>>

(* The end of a probe that answered. *)
Answered(s, w, found) ==
  [s EXCEPT !.completed = @ + 1,
            !.discovered = IF found THEN @ + 1 ELSE @,
            !.positive = IF found THEN @ \cup {s.host[w]} ELSE @,
            !.worker[w] = "ready"]

ProbeReturns(g, w, found) ==
  /\ scans[g].worker[w] = "probing"
  /\ Continue(g, TakeHost(Answered(scans[g], w, found), w))
  /\ UNCHANGED <<closed, stopping, scan_task, started>>

(* The host of a probe that raised is not counted. *)
RaisedUncounted(s, w) == [s EXCEPT !.worker[w] = "raised"]

(* The finally clause counts the host; the exception ends this worker only. *)
RaisedAfterCount(s, w) == [s EXCEPT !.completed = @ + 1, !.worker[w] = "raised"]

ProbeRaises(g, w) ==
  /\ scans[g].worker[w] = "probing"
  /\ Continue(g, RaisedAfterCount(scans[g], w))
  /\ UNCHANGED <<closed, stopping, scan_task, started>>

-----------------------------------------------------------------------------
(* gather, and what _async_run_scan does with its outcome.                 *)

Raised(s) == \E w \in Workers : s.worker[w] = "raised"

Active(s) == {w \in Workers : s.worker[w] \in {"ready", "probing"}}

(* Nothing found is published as an absent number. *)
ResultsOrNone(s) == IF s.discovered = 0 THEN -1 ELSE s.discovered

(* sum(results) *)
Discovered(s) == s.discovered

(* A scan that had found something is not finished when it fails. *)
ScanFailsEmptyHanded(g) ==
  /\ scans[g].task = "gathering"
  /\ Raised(scans[g]) /\ scans[g].discovered = 0
  /\ scans' = [scans EXCEPT ![g].task = "raised"]
  /\ status' = [status EXCEPT !.running = FALSE, !.error = TRUE]
  /\ UNCHANGED <<closed, stopping, scan_task, started>>

(* _async_run_scan after gather: _finish_scan with an error or a result. *)
ScanFails(g) ==
  /\ scans[g].task = "gathering"
  /\ Raised(scans[g])
  /\ scans' = [scans EXCEPT ![g].task = "raised"]
  /\ status' = [status EXCEPT !.running = FALSE, !.error = TRUE]
  /\ UNCHANGED <<closed, stopping, scan_task, started>>

ScanEnds(g) ==
  /\ scans[g].task = "gathering"
  /\ ~Raised(scans[g]) /\ Active(scans[g]) = {}
  /\ scans' = [scans EXCEPT ![g].task = "returned"]
  /\ status' = [status EXCEPT !.running = FALSE, !.error = FALSE,
                              !.discovered_candidates = Discovered(scans[g])]
  /\ UNCHANGED <<closed, stopping, scan_task, started>>

-----------------------------------------------------------------------------
(* async_stop.                                                             *)

StopBegins ==
  /\ ~closed
  /\ closed' = TRUE
  /\ stopping' = "browser"
  /\ UNCHANGED <<scan_task, started, scans, status>>

(* Only the task that waits for the workers is cancelled. *)
CancelledTaskOnly(s) == [s EXCEPT !.task = "cancelled"]

(* Cancelling the task cancels the gather it awaits, and that its workers:  *)
(* all of them unwind in one iteration of the event loop, each counting     *)
(* its host.  A gather that already raised has no hold on its workers.      *)
Cancelled(s) ==
  IF Raised(s) THEN [s EXCEPT !.task = "cancelled"]
  ELSE [s EXCEPT
          !.task = "cancelled",
          !.completed = @ + Cardinality({w \in Workers : s.worker[w] = "probing"}),
          !.worker = [w \in Workers |->
                        IF w \in Active(s) THEN "cancelled" ELSE s.worker[w]]]

StopCancels ==
  /\ stopping = "browser"
  /\ stopping' = "scan"
  /\ IF Gathering
     THEN Continue(scan_task, Cancelled(scans[scan_task]))
     ELSE UNCHANGED <<scans, status>>
  /\ UNCHANGED <<closed, scan_task, started>>

StopReturns ==
  /\ stopping = "scan"
  /\ stopping' = "stopped"
  /\ scan_task' = 0
  /\ UNCHANGED <<closed, started, scans, status>>

-----------------------------------------------------------------------------
WorkerRuns(g, w) ==
  \/ WorkerStarts(g, w)
  \/ \E found \in BOOLEAN : ProbeReturns(g, w, found)
  \/ ProbeRaises(g, w)

Next ==
  \/ \E n \in HostCounts : StartScan(n)
  \/ \E g \in Scans, w \in Workers : WorkerRuns(g, w)
  \/ \E g \in Scans : ScanFails(g) \/ ScanEnds(g)
  \/ StopBegins
  \/ StopCancels
  \/ StopReturns

Spec == Init /\ [][Next]_vars

(* Every probe ends (each HTTP request has a total timeout), and the event  *)
(* loop resumes whoever waited for it.                                      *)
Fairness ==
  /\ \A g \in Scans, w \in Workers : WF_vars(WorkerRuns(g, w))
  /\ \A g \in Scans : WF_vars(ScanFails(g) \/ ScanEnds(g))

FairSpec == Spec /\ Fairness

-----------------------------------------------------------------------------
(* Properties.                                                             *)

Probing(s) == {s.host[w] : w \in {v \in Workers : s.worker[v] = "probing"}}
Taken(s) == 0..s.next_index-1
Todo(s) == s.next_index..s.total-1
Over(s) == Taken(s) \ Probing(s)

(* Every scan probes each host of its network at most once and at most      *)
(* Concurrency hosts at a time, whatever raises or is cancelled             *)
(* (active_scan.py:59-82).                                                  *)
Bounded ==
  INSTANCE BoundedScan WITH
    todo <- [g \in Scans |-> Todo(scans[g])],
    probing <- [g \in Scans |-> Probing(scans[g])],
    over <- [g \in Scans |-> Over(scans[g])]

BoundedSpec == Bounded!Spec

(* The counter that progress reports counts every host whose probe is over, *)
(* also those whose probe raised or was cancelled; of a scan that returned, *)
(* all hosts of its network (active_scan.py:68-84).                         *)
CompletedCountsEndedProbes ==
  \A g \in Scans :
    /\ scans[g].completed = Cardinality(Over(scans[g]))
    /\ scans[g].task = "returned" => scans[g].completed = scans[g].total

RunningScanIsShown == Gathering => status.running

(* The hosts shown are those of scan g. *)
CountsOf(g) ==
  /\ status.total_hosts = scans[g].total
  /\ status.completed_hosts = scans[g].completed

(* What the orphaned workers of failed scans may do to the published status *)
(* and what not. Total and completed hosts belong together: they are those  *)
(* of the current scan or, since orphans overwrite them, of a failed one,   *)
(* never of an earlier one that returned. The status says running while the *)
(* current scan runs, and after it returned only where an orphan set it     *)
(* back. An error is shown for no scan but a failed one, and a scan that    *)
(* returned shows the number of its own probes that found a miner. While no *)
(* scan has failed, counts and result are thus the current scan's own       *)
(* (manager.py:123-144, 240-272).                                           *)
StatusFollowsScan ==
  /\ RunningScanIsShown
  /\ scan_task # 0 =>
       LET s == scans[scan_task] IN
         /\ \E g \in 1..scan_task :
              (g = scan_task \/ Raised(scans[g])) /\ CountsOf(g)
         /\ s.task = "returned" =>
              /\ status.discovered_candidates = Cardinality(s.positive)
              /\ status.running => \E g \in 1..scan_task-1 : Raised(scans[g])
         /\ status.error => s.task = "raised"

(* Once the unload's stop has cancelled the scan, no worker of a scan that  *)
(* had not failed by itself probes any more (manager.py:101-117).           *)
StopEndsScan ==
  stopping \in {"scan", "stopped"} =>
    \A g \in Scans : Raised(scans[g]) \/ Active(scans[g]) = {}

(* A started scan ends: its task returns, fails or is cancelled             *)
(* (active_scan.py:45-84, manager.py:214-234).                              *)
StartedScanEnds ==
  \A g \in Scans : (scans[g].task = "gathering") ~> (scans[g].task # "gathering")

-----------------------------------------------------------------------------
(* PROJECT.md:512: no overlapping scans.  The workers of a scan that failed *)
(* go on probing beside the next one (active_scan.py:82, manager.py:127).   *)
NoOverlappingScans ==
  \A g, h \in Scans :
    Probing(scans[g]) # {} /\ Probing(scans[h]) # {} => g = h
=============================================================================
