----------------------------- MODULE MinerActions -----------------------------
(***************************************************************************)
(* The operations that change one approved miner: the services of          *)
(* runtime.py (restart, pause, resume, identify, capture and apply of a    *)
(* profile) and the two that automatic recovery calls, serialized by the   *)
(* action_lock of the miner's coordinator (coordinator.py).                *)
(*                                                                         *)
(* A call is a coroutine and pc the await it is suspended at; each action  *)
(* runs one call to its next await.  A coordinator that has been shut down *)
(* stays with the calls that hold it: its async_refresh returns at once    *)
(* and changes nothing.  The device carries out a request some time after  *)
(* it was sent or never, even when the caller has stopped waiting for it.  *)
(***************************************************************************)
EXTENDS Integers

CONSTANTS
  Profiles,        \* values of the six settings of a recovery profile
  Supported,       \* those the miner's capabilities allow
  NoProfile,       \* a setting is missing; no profile is saved
  NoReading,       \* no snapshot, or the last refresh failed
  Services,        \* the operations an operator may ask for
  Beginnings,      \* the device and the saved profile at the start
  PageDevices,     \* what its own web page may make of it
  MaxCalls,        \* bound: operations of a behaviour
  MaxCoordinators, \* bound: coordinators created for the miner
  MaxChanges,      \* bound: changes made on the miner's own web page
  MaxPolls         \* bound: scheduled polls

Device == [config : Profiles \cup {NoProfile}, paused : BOOLEAN]

NamedAction == {"restart", "pause", "resume", "identify"}
Operation == NamedAction \cup {"capture", "apply"}

ASSUME ActionsAssumption ==
  /\ Supported \subseteq Profiles
  /\ NoProfile \notin Profiles
  /\ NoReading \notin Device
  /\ Services \subseteq Operation
  /\ Beginnings \subseteq [device : Device, saved : Profiles \cup {NoProfile}]
  /\ PageDevices \subseteq Device
  /\ MaxCalls \in Nat
  /\ MaxCoordinators \in Nat \ {0}
  /\ MaxChanges \in Nat
  /\ MaxPolls \in Nat

(* Calls are numbered in the order they start in. *)
Calls == 1..MaxCalls

VARIABLES
  device,    \* the miner's own state
  changes,   \* how often its web page was used
  polls,     \* scheduled polls so far
  saved,     \* the registry's recovery_profile
  current,   \* the coordinator in runtime.coordinators, 0 if there is none
  created,   \* coordinators created so far
  snapshots, \* per coordinator, the snapshot while last_update_success
  calls,     \* every call
  requests   \* calls whose mutation is on its way to the device

runtime == <<saved, current, created>>
bounds == <<changes, polls>>
vars == <<device, bounds, runtime, snapshots, calls, requests>>

(* What a fresh read leaves for its caller to look at. *)
Reading == Device \cup {NoReading}

(* Suspended while holding the lock: in the fresh read, the capability     *)
(* read, the mutation, the read-back, the registry's write of a profile,   *)
(* and the record of an incident.  "recording" is after the release.       *)
Inside == {"reading", "asking", "sending", "verifying", "saving", "noting"}
Pc == Inside \cup {"idle", "waiting", "recording", "done"}

Outcome ==
  {"none", "requested", "uncertain", "failed", "captured", "drift", "verified",
   "cancelled"}

(* outcome: what the incident will say, or an answer still to be read back. *)
(* auto: called by the recovery engine.  coordinator: the one the call     *)
(* looked up.  read: what the fresh read gave it.  The rest is history: what the device was since the call  *)
(* got the lock (tenure) and since it sent its mutation (after), whether   *)
(* that was carried out (landed), whether a refresh was skipped (stale).   *)
CallType ==
  [pc : Pc, op : Operation \cup {"none"}, auto : BOOLEAN,
   coordinator : 0..MaxCoordinators,
   profile : Profiles \cup {NoProfile}, read : Reading, outcome : Outcome,
   tenure : SUBSET Device, after : SUBSET Device,
   landed : BOOLEAN, stale : BOOLEAN]

IdleCall ==
  [pc |-> "idle", op |-> "none", auto |-> FALSE, coordinator |-> 0,
   profile |-> NoProfile, read |-> NoReading, outcome |-> "none",
   tenure |-> {}, after |-> {}, landed |-> FALSE, stale |-> FALSE]

TypeOK ==
  /\ device \in Device
  /\ changes \in 0..MaxChanges
  /\ polls \in 0..MaxPolls
  /\ saved \in Profiles \cup {NoProfile}
  /\ created \in 1..MaxCoordinators
  /\ current \in {0, created}
  /\ snapshots \in [1..MaxCoordinators -> Reading]
  /\ calls \in [Calls -> CallType]
  /\ requests \subseteq Calls

Init ==
  /\ \E first \in Beginnings : device = first.device /\ saved = first.saved
  /\ changes = 0
  /\ polls = 0
  /\ current = 1
  /\ created = 1
  /\ \E reading \in {device, NoReading} :
       snapshots = [g \in 1..MaxCoordinators |-> IF g = 1 THEN reading ELSE NoReading]
  /\ calls = [c \in Calls |-> IdleCall]
  /\ requests = {}

-----------------------------------------------------------------------------
(* The action lock of a coordinator, an asyncio.Lock: first come, first    *)
(* served.                                                                 *)

Waiters(g, pcs) == {c \in Calls : calls[c].coordinator = g /\ calls[c].pc \in pcs}

(* A cancelled call does not give the lock back. *)
QueueWithCancelled(g) ==
  Waiters(g, Inside \cup {"waiting"})
    \cup {c \in Waiters(g, {"done"}) : calls[c].outcome = "cancelled"}

(* The lock is given back before the read-back of a profile. *)
QueueBeforeReadBack(g) == Waiters(g, (Inside \ {"verifying", "noting"}) \cup {"waiting"})

Queue(g) == Waiters(g, Inside \cup {"waiting"})

FirstInLine(c) ==
  \A d \in Queue(calls[c].coordinator) : c <= d

-----------------------------------------------------------------------------
(* The segments of a call, each as what the call becomes by it.            *)

(* The end of a call: of what it held only its request may still matter. *)
Ended(call) ==
  [call EXCEPT !.pc = "done", !.outcome = "none", !.read = NoReading,
               !.profile = IF call.op = "apply" THEN @ ELSE NoProfile,
               !.tenure = {}, !.after = {}, !.landed = FALSE, !.stale = FALSE]

Cancelled(call) == [Ended(call) EXCEPT !.outcome = "cancelled"]

Recording(call, outcome) == [call EXCEPT !.pc = "recording", !.outcome = outcome]

(* The recovery engine records what became of the restart it called for. *)
NamedActionEnds(call, outcome) ==
  IF call.auto THEN Ended(call) ELSE Recording(call, outcome)

Sending(call) == [call EXCEPT !.pc = "sending", !.after = {device}]

(* What follows the fresh read: a named action sends its POST whatever the *)
(* snapshot says, the profile operations ask for the capabilities.         *)
AfterRead(call, reading) ==
  LET known == [call EXCEPT !.read = reading]
  IN IF call.op \in NamedAction
     THEN IF reading = NoReading THEN NamedActionEnds(call, "failed") ELSE Sending(known)
     ELSE IF reading = NoReading THEN Ended(call)
     ELSE IF call.op = "apply" THEN [known EXCEPT !.pc = "asking"]
     ELSE IF reading.config = NoProfile THEN Ended(call)
     ELSE [known EXCEPT !.pc = "asking", !.profile = reading.config]

(* The snapshot of the last poll passes for a fresh one. *)
HoldLockUnread(call) ==
  AfterRead([call EXCEPT !.tenure = {device}], snapshots[call.coordinator])

(* With the lock the call refreshes the coordinator, which it awaits       *)
(* unless the coordinator has been shut down.                              *)
HoldLock(call) ==
  LET holding == [call EXCEPT !.tenure = {device}]
  IN IF call.coordinator = current THEN [holding EXCEPT !.pc = "reading"]
     ELSE AfterRead([holding EXCEPT !.stale = TRUE], snapshots[call.coordinator])

(* Settings the capabilities do not allow are accepted. *)
AfterAskingAny(call) ==
  IF call.op = "capture" THEN [call EXCEPT !.pc = "saving"] ELSE Sending(call)

AfterAsking(call) ==
  IF call.profile \notin Supported THEN Ended(call)
  ELSE IF call.op = "capture" THEN [call EXCEPT !.pc = "saving"]
  ELSE Sending(call)

(* The comparison of the read-back with the profile that was sent. *)
AfterReadBack(call, reading) ==
  IF reading = NoReading THEN Ended(call)
  ELSE IF reading.config = call.profile THEN Recording(call, "verified")
  ELSE [call EXCEPT !.pc = "noting",
                    !.outcome = IF call.outcome = "uncertain" THEN @ ELSE "drift"]

ReadBack(call) ==
  IF call.coordinator = current THEN [call EXCEPT !.pc = "verifying"]
  ELSE AfterReadBack([call EXCEPT !.stale = TRUE], snapshots[call.coordinator])

(* A lost answer counts as a refusal. *)
AfterAnswerLostFails(call, answer) ==
  LET result == IF answer = "uncertain" THEN "failed" ELSE answer
  IN IF call.op # "apply" THEN NamedActionEnds(call, result)
     ELSE IF result = "failed" THEN [call EXCEPT !.pc = "noting", !.outcome = result]
     ELSE ReadBack([call EXCEPT !.outcome = result])

(* The answer to a POST or PATCH: a refused PATCH is recorded with the     *)
(* lock held, any other is read back.                                      *)
AfterAnswer(call, answer) ==
  IF call.op # "apply" THEN NamedActionEnds(call, answer)
  ELSE IF answer = "failed" THEN [call EXCEPT !.pc = "noting", !.outcome = answer]
  ELSE ReadBack([call EXCEPT !.outcome = answer])

-----------------------------------------------------------------------------
(* The actions of a call.                                                  *)

Becomes(c, call) ==
  /\ calls' = [calls EXCEPT ![c] = call]
  /\ requests' = IF call.pc = "sending" THEN requests \cup {c} ELSE requests

Waiting(op, auto) ==
  [IdleCall EXCEPT !.pc = "waiting", !.op = op, !.auto = auto,
                   !.coordinator = current,
                   !.profile = IF op = "apply" THEN saved ELSE NoProfile]

(* _require_coordinator, the profile to apply, and the lock: when it is    *)
(* free the call goes on without suspending.                               *)
Start(c, op, auto) ==
  /\ calls[c].pc = "idle"
  /\ \A d \in 1..(c - 1) : calls[d].pc # "idle"
  /\ current # 0
  /\ op = "apply" => saved # NoProfile
  /\ Becomes(c, IF Queue(current) = {} THEN HoldLock(Waiting(op, auto))
                ELSE Waiting(op, auto))
  /\ UNCHANGED <<device, bounds, runtime, snapshots>>

StartService(c) == \E op \in Services : Start(c, op, FALSE)

(* The recovery engine runs one call at a time and only on a fresh         *)
(* snapshot; it restarts no miner whose snapshot says that it is paused.   *)
StartRecovery(c) ==
  /\ \A d \in Calls : calls[d].auto => calls[d].pc = "done"
  /\ current # 0
  /\ snapshots[current] # NoReading
  /\ \/ ~snapshots[current].paused /\ Start(c, "restart", TRUE)
     \/ Start(c, "apply", TRUE)

Acquire(c) ==
  /\ calls[c].pc = "waiting"
  /\ FirstInLine(c)
  /\ Becomes(c, HoldLock(calls[c]))
  /\ UNCHANGED <<device, bounds, runtime, snapshots>>

(* An awaited refresh ends, with the device's state or an error.  After a  *)
(* shutdown it still updates the coordinator it was called on.             *)
Refreshed(c, reading) ==
  snapshots' = [snapshots EXCEPT ![calls[c].coordinator] = reading]

ReadReturns(c) ==
  /\ calls[c].pc = "reading"
  /\ \E reading \in {device, NoReading} :
       /\ Refreshed(c, reading)
       /\ Becomes(c, AfterRead(calls[c], reading))
  /\ UNCHANGED <<device, bounds, runtime>>

AskReturns(c) ==
  /\ calls[c].pc = "asking"
  /\ \E call \in {AfterAsking(calls[c]), Ended(calls[c])} : Becomes(c, call)
  /\ UNCHANGED <<device, bounds, runtime, snapshots>>

(* A success follows the change; an HTTP error means there will be none; a *)
(* timeout or a broken connection leaves both open.                        *)
Answered(c, answer) ==
  /\ calls[c].pc = "sending"
  /\ answer = "requested" => calls[c].landed
  /\ answer = "failed" => ~calls[c].landed
  /\ calls' = [calls EXCEPT ![c] = AfterAnswer(calls[c], answer)]
  /\ requests' = IF answer = "failed" THEN requests \ {c} ELSE requests
  /\ UNCHANGED <<device, bounds, runtime, snapshots>>

AnyAnswer(c) == \E answer \in {"requested", "uncertain", "failed"} : Answered(c, answer)

ReadBackReturns(c) ==
  /\ calls[c].pc = "verifying"
  /\ \E reading \in {device, NoReading} :
       /\ Refreshed(c, reading)
       /\ Becomes(c, AfterReadBack(calls[c], reading))
  /\ UNCHANGED <<device, bounds, runtime>>

SaveReturns(c) ==
  /\ calls[c].pc = "saving"
  /\ saved' = calls[c].profile
  /\ Becomes(c, Recording(calls[c], "captured"))
  /\ UNCHANGED <<device, bounds, current, created, snapshots>>

(* The incident is stored and the call returns or raises. *)
RecordReturns(c) ==
  /\ calls[c].pc \in {"recording", "noting"}
  /\ Becomes(c, Ended(calls[c]))
  /\ UNCHANGED <<device, bounds, runtime, snapshots>>

(* wait_for ends a restore that takes too long, and forgetting the miner   *)
(* ends whatever the engine waits for.                                     *)
Cancel(c) ==
  /\ calls[c].auto /\ calls[c].pc # "done"
  /\ Becomes(c, Cancelled(calls[c]))
  /\ UNCHANGED <<device, bounds, runtime, snapshots>>

Continue(c) ==
  \/ Acquire(c)
  \/ ReadReturns(c)
  \/ AskReturns(c)
  \/ AnyAnswer(c)
  \/ ReadBackReturns(c)
  \/ SaveReturns(c)
  \/ RecordReturns(c)

-----------------------------------------------------------------------------
(* The device, the polls, and the operator.                                *)

Witnessed(cs, state) ==
  [c \in Calls |->
     IF cs[c].pc \in Inside
     THEN [cs[c] EXCEPT !.tenure = @ \cup {state},
                        !.after = IF @ = {} THEN {} ELSE @ \cup {state}]
     ELSE cs[c]]

Effect(call) ==
  CASE call.op = "pause"               -> [device EXCEPT !.paused = TRUE]
    [] call.op \in {"resume", "restart"} -> [device EXCEPT !.paused = FALSE]
    [] call.op = "apply"               -> [device EXCEPT !.config = call.profile]
    [] OTHER                           -> device

(* A request is carried out, perhaps after its call has ended: the call    *)
(* was cancelled or never heard back.                                      *)
CarriedOut(c) ==
  /\ c \in requests
  /\ requests' = requests \ {c}
  /\ device' = Effect(calls[c])
  /\ calls' = Witnessed([calls EXCEPT ![c].landed = calls[c].pc # "done"], device')
  /\ UNCHANGED <<bounds, runtime, snapshots>>

WebPage ==
  /\ changes < MaxChanges
  /\ changes' = changes + 1
  /\ \E state \in PageDevices \ {device} :
       device' = state /\ calls' = Witnessed(calls, state)
  /\ UNCHANGED <<polls, runtime, snapshots, requests>>

Poll ==
  /\ current # 0
  /\ polls < MaxPolls
  /\ polls' = polls + 1
  /\ \E reading \in {device, NoReading} :
       snapshots' = [snapshots EXCEPT ![current] = reading]
  /\ UNCHANGED <<device, changes, runtime, calls, requests>>

(* async_set_enabled(False) and an unload: recovery is cancelled and the   *)
(* coordinator shut down.  The services under way keep it.                 *)
Disable ==
  /\ current # 0
  /\ current' = 0
  /\ calls' = [c \in Calls |->
       IF calls[c].auto /\ calls[c].pc # "done" THEN Cancelled(calls[c])
       ELSE calls[c]]
  /\ UNCHANGED <<device, bounds, saved, created, snapshots, requests>>

(* The coordinator that was shut down is taken for the new one. *)
EnableShutDown ==
  /\ current = 0 /\ created < MaxCoordinators
  /\ created' = created + 1
  /\ current' = created
  /\ UNCHANGED <<device, bounds, saved, snapshots, calls, requests>>

Enable ==
  /\ current = 0 /\ created < MaxCoordinators
  /\ created' = created + 1
  /\ current' = created'
  /\ UNCHANGED <<device, bounds, saved, snapshots, calls, requests>>

-----------------------------------------------------------------------------
Next ==
  \/ \E c \in Calls :
       \/ StartService(c)
       \/ StartRecovery(c)
       \/ Continue(c)
       \/ Cancel(c)
       \/ CarriedOut(c)
  \/ WebPage
  \/ Poll
  \/ Disable
  \/ Enable

Spec == Init /\ [][Next]_vars

(* Every await of a call ends: the requests have a total timeout, the      *)
(* registry's lock is held for one write at a time, and the event loop     *)
(* wakes the first waiter of a lock that was released.                     *)
FairSpec == Spec /\ \A c \in Calls : WF_vars(Continue(c))

-----------------------------------------------------------------------------
(* Properties.                                                             *)

(* While a call of a coordinator waits for the answer to its mutation, no  *)
(* other call of that coordinator has its fresh read behind it: none will  *)
(* mutate, compare or save on the strength of what this mutation changes   *)
(* (coordinator.py:121, runtime.py:241 and 268).                           *)
SerializedMutations ==
  \A c, d \in Calls :
    /\ c # d
    /\ calls[c].pc = "sending"
    /\ calls[d].coordinator = calls[c].coordinator
    => calls[d].pc \notin {"reading", "asking", "sending", "verifying", "saving",
                          "noting"}

(* A mutation goes out on a reading that the device really gave after the  *)
(* call got the lock, not on what an earlier poll or an earlier call left  *)
(* behind; the calls of a coordinator that was shut down are exempt        *)
(* (coordinator.py:121-123, runtime.py:268-269, 358-366).                  *)
MutationFollowsFreshRead ==
  \A c \in Calls :
    calls[c].pc = "sending" /\ ~calls[c].stale => calls[c].read \in calls[c].tenure

(* A profile is recorded as verified only if the device had it after the   *)
(* PATCH was sent, also when the answer was lost (runtime.py:278-302).     *)
VerifiedWasReadBack ==
  \A c \in Calls :
    calls[c].outcome = "verified" /\ calls[c].pc = "recording" /\ ~calls[c].stale
      => \E state \in calls[c].after : state.config = calls[c].profile

(* What a capture saves is one consistent set of settings: the device had  *)
(* all of them at once while the lock was held, and its capabilities allow *)
(* them (runtime.py:241-253).                                              *)
CapturedWasHeld ==
  \A c \in Calls :
    calls[c].op = "capture" /\ calls[c].pc \in {"saving", "recording"} =>
      /\ calls[c].profile \in Supported
      /\ ~calls[c].stale => \E state \in calls[c].tenure : state.config = calls[c].profile

(* The incident tells what happened: a requested action and a drifted      *)
(* profile were carried out, a failed one was not and never will be, and a *)
(* verified one was read back                                              *)
(* (runtime.py:220-234, 278-302; axeos/client.py:159-230).                 *)
RecordedOutcomeIsTrue ==
  /\ VerifiedWasReadBack
  /\ \A c \in Calls :
       calls[c].pc \in {"recording", "noting"} =>
         /\ calls[c].outcome \in {"requested", "drift"} => calls[c].landed
         /\ calls[c].outcome = "failed" => ~calls[c].landed /\ c \notin requests

(* No call waits for ever: whatever the device answers, whoever is         *)
(* cancelled and whether or not the coordinator is shut down, the lock     *)
(* comes round to every waiting call (coordinator.py:121, recovery.py:303). *)
EveryCallEnds ==
  \A c \in Calls : calls[c].pc # "idle" ~> calls[c].pc = "done"

-----------------------------------------------------------------------------
(* What the documentation says and the code does not do.                   *)

(* README.md:186: "A manually paused miner is never auto-restarted."       *)
(* PROJECT.md:771: "Re-check policy after acquiring the lock."             *)
(* That is,                                                                *)
(* recovery sends no restart to a miner that its fresh read, made for this *)
(* very restart, found paused (coordinator.py:121-127).                    *)
PausedIsNotRestarted ==
  \A c \in Calls :
    calls[c].pc = "sending" /\ calls[c].auto /\ calls[c].op = "restart"
      => ~calls[c].read.paused

=============================================================================
