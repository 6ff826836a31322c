----------------------------- MODULE MinerRegistry -----------------------------
(***************************************************************************)
(* The registry of approved miners and its file (storage.py), through      *)
(* setup, reload and crash of the integration.                             *)
(*                                                                         *)
(* Every operation changes the memory of its instance and serializes all   *)
(* of it in one step, once it holds the instance's lock, then awaits the   *)
(* save with the lock held: a save under way is the lock.  A reload        *)
(* replaces the instance, not the calls that hold the old one, and both    *)
(* write the same file.  Home Assistant's Store swallows a write error,    *)
(* and a write it handed to a thread outlives the task that awaited it.    *)
(***************************************************************************)
EXTENDS RegistryRecords

CONSTANTS
  Nothing,      \* no save under way
  FirstFiles,   \* the files the integration may be started on
  MaxInstances, \* bound: registries created
  MaxChanges,   \* bound: operations
  MaxErrors     \* bound: saves that fail or are cancelled

Instances == 1..MaxInstances

(* schema: the schema_version, "other" for one the code does not know or a *)
(* root that is no mapping.  damaged: records that do not validate.        *)
File ==
  [schema : {"none", "v1", "v2", "other"}, fleet : Fleet,
   damaged : SUBSET Miners]

(* cancellable: a task that unloading cancels awaits the save. *)
SaveUnderWay == [file : File, cancellable : BOOLEAN]

(* What the operator decided, apart from what the miners report. *)
Decisions == [settings : [Miners -> Settings \cup {NoRecord}],
              rejected : SUBSET Miners]

ASSUME RegistryAssumption ==
  /\ NoRecord \notin Record
  /\ NoRecord \notin Settings
  /\ Nothing \notin SaveUnderWay
  /\ FirstFiles \subseteq File
  /\ MaxIncidents \in Nat \ {0}
  /\ MaxInstances \in Nat \ {0}
  /\ MaxChanges \in Nat
  /\ MaxErrors \in Nat

VARIABLES
  file,     \* on disk
  instance, \* the newest registry
  status,   \* per instance
  memory,   \* per instance, what it holds
  saves,    \* per instance, the save under way
  orphans,  \* files a thread still writes for a cancelled task
  changes,  \* operations so far
  errors,   \* failed and cancelled saves so far
  behind,   \* history: a write of the newest instance was lost, or another
            \* write landed on top of it, and nothing was stored since
  ledger,   \* history: what the operator decided
  known     \* history: miners of the first file nobody removed

bounds == <<changes, errors>>
history == <<behind, ledger, known>>
vars == <<file, instance, status, memory, saves, orphans, bounds, history>>

-----------------------------------------------------------------------------
(* The state and what the operations make of it. *)

(* One damaged record is dropped and the others are kept.  A v1 record has *)
(* none of the operator's fields.                                          *)
Validated(records, damaged, legacy) ==
  [m \in Miners |->
     IF records[m] = NoRecord \/ m \in damaged THEN NoRecord
     ELSE IF legacy THEN Approved(records[m].host)
     ELSE records[m]]

Read(f) ==
  CASE f.schema = "v1" ->
         [Empty EXCEPT !.miners = Validated(f.fleet.miners, f.damaged, TRUE)]
    [] f.schema = "v2" ->
         [f.fleet EXCEPT
            !.miners = Validated(f.fleet.miners, f.damaged, FALSE)]
    [] OTHER -> Empty

Serialized(fleet) == [schema |-> "v2", fleet |-> fleet, damaged |-> {}]

DecisionsIn(fleet) ==
  [settings |-> [m \in Miners |->
                   IF fleet.miners[m] = NoRecord THEN NoRecord
                   ELSE fleet.miners[m].settings],
   rejected |-> fleet.rejected]

-----------------------------------------------------------------------------
Init ==
  /\ file \in FirstFiles
  /\ instance = 0
  /\ status = [g \in Instances |-> "absent"]
  /\ memory = [g \in Instances |-> Empty]
  /\ saves = [g \in Instances |-> Nothing]
  /\ orphans = {}
  /\ changes = 0
  /\ errors = 0
  /\ behind = FALSE
  /\ ledger = DecisionsIn(Read(file))
  /\ known = Enrolled(Read(file))

Begun(f, cancellable) == [file |-> f, cancellable |-> cancellable]

(* Mutant: the migrated file is made before the memory is. *)
MigratedTooEarly(fleet) == Serialized(Empty)

Migrated(fleet) == Serialized(fleet)

(* async_load of a new instance: at setup, after a reload or a restart.    *)
(* When a write was lost the file is all that is left of the decisions.    *)
Load ==
  /\ instance < MaxInstances
  /\ instance > 0 => status[instance] \in {"unloaded", "gone"}
  /\ LET g == instance + 1
         fleet == Read(file)
     IN  /\ instance' = g
         /\ memory' = [memory EXCEPT ![g] = fleet]
         /\ \/ /\ file.schema = "v1"
               /\ status' = [status EXCEPT ![g] = "migrating"]
               /\ saves' = [saves EXCEPT ![g] = Begun(Migrated(fleet), FALSE)]
            \/ /\ file.schema # "v1"
               /\ status' = [status EXCEPT ![g] = "ready"]
               /\ saves' = saves
         /\ ledger' =
              IF behind \/ \E h \in Instances : saves[h] # Nothing
              THEN DecisionsIn(fleet) ELSE ledger
  /\ behind' = FALSE
  /\ UNCHANGED <<file, orphans, bounds, known>>

(* A call may have looked up an instance that was unloaded since. *)
Holds(g) ==
  /\ status[g] \in {"ready", "unloaded"}
  /\ saves[g] = Nothing
  /\ changes < MaxChanges

(* Mutant: the file is made before the memory is changed. *)
ChangeSavedFirst(g, fleet, cancellable) ==
  /\ memory' = [memory EXCEPT ![g] = fleet]
  /\ saves' = [saves EXCEPT ![g] = Begun(Serialized(memory[g]), cancellable)]
  /\ changes' = changes + 1
  /\ UNCHANGED <<file, instance, status, orphans, errors, behind>>

(* The change and the file that is to be saved, in one step. *)
Change(g, fleet, cancellable) ==
  /\ memory' = [memory EXCEPT ![g] = fleet]
  /\ saves' = [saves EXCEPT ![g] = Begun(Serialized(fleet), cancellable)]
  /\ changes' = changes + 1
  /\ UNCHANGED <<file, instance, status, orphans, errors, behind>>

Decided(g, decisions) == ledger' = IF g = instance THEN decisions ELSE ledger

-----------------------------------------------------------------------------
(* The operations. *)

Enroll(g, m, host) ==
  /\ Holds(g)
  /\ Change(g, EnrolledIn(memory[g], m, host), FALSE)
  /\ Decided(g, [settings |-> [ledger.settings EXCEPT
                                 ![m] = IF @ = NoRecord THEN Defaults ELSE @],
                 rejected |-> ledger.rejected \ {m}])
  /\ known' = known

(* A snapshot of an enrolled miner that says something new. *)
UpdateFromSnapshot(g, m, host) ==
  /\ Holds(g)
  /\ memory[g].miners[m] # NoRecord
  /\ memory[g].miners[m].host # host
  /\ Change(g, UpdatedIn(memory[g], m, host), TRUE)
  /\ UNCHANGED <<ledger, known>>

(* async_set_enabled, _display_name, _recovery_profile and _policy. *)
Set(g, m, f, value) ==
  /\ Holds(g)
  /\ memory[g].miners[m] # NoRecord
  /\ Change(g, SetIn(memory[g], m, f, value), FALSE)
  /\ Decided(g, [ledger EXCEPT !.settings[m][f] = value])
  /\ known' = known

RejectCandidate(g, m) ==
  /\ Holds(g)
  /\ Change(g, RejectedIn(memory[g], m), FALSE)
  /\ Decided(g, [ledger EXCEPT !.rejected = @ \cup {m}])
  /\ known' = known

Remove(g, m) ==
  /\ Holds(g)
  /\ memory[g].miners[m] # NoRecord
  /\ Change(g, RemovedFrom(memory[g], m), FALSE)
  /\ Decided(g, [ledger EXCEPT !.settings[m] = NoRecord])
  /\ known' = known \ {m}

(* The miner need not be enrolled any more.  The recovery engine's tasks   *)
(* are cancelled by unloading, the operator's calls are not.               *)
RecordIncident(g, m, cancellable) ==
  /\ Holds(g)
  /\ Change(g, RecordedIn(memory[g], m), cancellable)
  /\ UNCHANGED <<ledger, known>>

-----------------------------------------------------------------------------
(* The save, and what cuts it short. *)

Released(g) == saves' = [saves EXCEPT ![g] = Nothing]
Loaded(g) ==
  status' = [status EXCEPT ![g] = IF @ = "migrating" THEN "ready" ELSE @]

SaveLands(g) ==
  /\ saves[g] # Nothing
  /\ file' = saves[g].file
  /\ behind' = (g # instance)
  /\ Released(g)
  /\ Loaded(g)
  /\ UNCHANGED <<instance, memory, orphans, bounds, ledger, known>>

(* Logged by the Store; the operation goes on as if it had been stored. *)
SaveFails(g) ==
  /\ saves[g] # Nothing
  /\ errors < MaxErrors
  /\ errors' = errors + 1
  /\ behind' = (behind \/ g = instance)
  /\ Released(g)
  /\ Loaded(g)
  /\ UNCHANGED <<file, instance, memory, orphans, changes, ledger, known>>

(* The lock is free at once; the thread may have begun to write or not. *)
SaveCancelled(g) ==
  /\ saves[g] # Nothing
  /\ saves[g].cancellable
  /\ errors < MaxErrors
  /\ errors' = errors + 1
  /\ orphans' \in {orphans, orphans \cup {saves[g].file}}
  /\ behind' = (behind \/ g = instance)
  /\ Released(g)
  /\ UNCHANGED <<file, instance, status, memory, changes, ledger, known>>

OrphanLands ==
  \E f \in orphans :
    /\ file' = f
    /\ orphans' = orphans \ {f}
    /\ behind' = TRUE
    /\ UNCHANGED <<instance, status, memory, saves, bounds, ledger, known>>

(* Unloading the entry waits for no call. *)
Unload ==
  /\ instance > 0
  /\ status[instance] = "ready"
  /\ status' = [status EXCEPT ![instance] = "unloaded"]
  /\ UNCHANGED <<file, instance, memory, saves, orphans, bounds, history>>

(* Home Assistant stops; a file that was being written is the old one. *)
Crash ==
  /\ instance > 0
  /\ status[instance] # "gone"
  /\ status' = [g \in Instances |->
                  IF status[g] = "absent" THEN "absent" ELSE "gone"]
  /\ saves' = [g \in Instances |-> Nothing]
  /\ orphans' = {}
  /\ behind' = (behind \/ saves[instance] # Nothing)
  /\ UNCHANGED <<file, instance, memory, bounds, ledger, known>>

Operation(g) ==
  \E m \in Miners :
    \/ \E host \in Hosts : Enroll(g, m, host) \/ UpdateFromSnapshot(g, m, host)
    \/ \E f \in Fields, value \in BOOLEAN : Set(g, m, f, value)
    \/ RejectCandidate(g, m)
    \/ Remove(g, m)
    \/ \E cancellable \in BOOLEAN : RecordIncident(g, m, cancellable)

Next ==
  \/ Load
  \/ Unload
  \/ Crash
  \/ OrphanLands
  \/ \E g \in Instances :
       Operation(g) \/ SaveLands(g) \/ SaveFails(g) \/ SaveCancelled(g)

Spec == Init /\ [][Next]_vars

-----------------------------------------------------------------------------
TypeOK ==
  /\ file \in File
  /\ instance \in 0..MaxInstances
  /\ status \in
       [Instances -> {"absent", "migrating", "ready", "unloaded", "gone"}]
  /\ memory \in [Instances -> Fleet]
  /\ saves \in [Instances -> SaveUnderWay \cup {Nothing}]
  /\ orphans \subseteq File
  /\ changes \in 0..MaxChanges
  /\ errors \in 0..MaxErrors
  /\ behind \in BOOLEAN
  /\ ledger \in Decisions
  /\ known \subseteq Miners

Ready == instance > 0 /\ status[instance] = "ready"

(* When no operation is under way the file holds what the registry holds,  *)
(* whichever operations, reloads and crashes came before: a save takes the *)
(* fleet its operation left.  Only a write that failed, was cancelled or   *)
(* came late excuses the file, and only until the next one that lands.     *)
SavedWhenIdle ==
  Ready /\ saves[instance] = Nothing /\ ~behind => Read(file) = memory[instance]

(* What a user owns is only ever changed by the user: snapshots, repeated  *)
(* approvals, migrations, reloads and crashes leave every setting, every   *)
(* enrollment and every rejection as last decided, as far as the decision  *)
(* reached the disk before the memory was lost.                            *)
DecisionsStand ==
  Ready => DecisionsIn(memory[instance]) = ledger

(* A miner that could be read from the first file is in every later file   *)
(* and in every later registry until it is removed: through migration,     *)
(* damaged neighbours, failed and cancelled writes and crashes.            *)
KnownMinersSurvive ==
  /\ known \subseteq Enrolled(Read(file))
  /\ Ready => known \subseteq Enrolled(memory[instance])

Held == IF instance = 0 THEN Read(file) ELSE memory[instance]

Stored ==
  INSTANCE StoredRegistry WITH
    fleet <- Held,
    disk <- Read(file),
    safe <- (instance = 0) \/ (~behind /\ saves[instance] = Nothing)

(* Whatever saves, reloads, crashes and calls that outlive their registry  *)
(* do, the users of the registry see whole operations one after another,   *)
(* and a restart brings back the file: all of the fleet once a save of the *)
(* last operation landed and no late write came after it.                  *)
RegistryIsStored == Stored!StoredSpec

(* The claim of PROJECT.md:866 and :779 without the excuse: a registry at  *)
(* rest is on disk, since no work of an unloaded one is left.              *)
IdleRegistryIsStored ==
  Ready /\ saves[instance] = Nothing /\ orphans = {} =>
    Read(file) = memory[instance]
=============================================================================
