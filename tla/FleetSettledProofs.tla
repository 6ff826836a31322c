---------------------------- MODULE FleetSettledProofs ----------------------------
(***************************************************************************)
(* What holds of FleetRuntime when every call and every reload is over:    *)
(* the candidates are undecided, the coordinators and the totals are those *)
(* of the registry, and polled addresses are the recorded ones.  Each of   *)
(* these is disturbed by calls under way; the invariant says which call    *)
(* will put it right, or that a reload is due, which starts it anew.       *)
(***************************************************************************)
EXTENDS FleetRuntimeProofs

(* The reload that is due.                                                 *)

(* A task that will not end without a reload of the entry.                 *)
Owes(task) ==
  \/ task.pc = "reloading"
  \/ task.kind = "enroll" /\ (task.object # 0 \/ task.pc = "saving")
  \/ task.kind = "remove" /\ task.pc = "saving"

Due == \E t \in AllTasks : Owes(tasks[t])

(* What comes of starting a miner that has no coordinator.                 *)
LEMMA NewMinerPiece ==
  ASSUME NEW r, Fits(r), NEW recs, NEW task \in Task, NEW m \in Miners, NEW host \in Hosts,
         r.coordinators[m] = 0
  PROVE  /\ StartMiner(r, recs, task, m, host).runtime = Created(r, m, host)
         /\ StartMiner(r, recs, task, m, host).task.pc = "reading"
         /\ StartMiner(r, recs, task, m, host).task.kind = task.kind
         /\ StartMiner(r, recs, task, m, host).task.asked = task.asked
         /\ StartMiner(r, recs, task, m, host).task.object = Len(r.objects) + 1
<1> DEFINE c == Len(r.objects) + 1
           n == Created(r, m, host)
           both == StartMiner(r, recs, task, m, host)
<1>1. Len(n.objects) = c
  BY CreatedPiece
<1>2. both = Refresh(n, recs, task, Len(n.objects))
  BY DEF StartMiner
<1>3. ~n.objects[c].shut
  BY CreatedObject DEF Fits
<1> HIDE DEF n, c, both
<1>4. /\ both.runtime = n
      /\ both.task = [task EXCEPT !.pc = "reading", !.object = c,
                                  !.host = n.objects[c].host,
                                  !.first = answers[n.objects[c].host]]
  BY <1>1, <1>2, <1>3 DEF Refresh, Both
<1>5. /\ both.task.pc = "reading" /\ both.task.kind = task.kind
      /\ both.task.asked = task.asked /\ both.task.object = c
  BY <1>4 DEF Task
<1> QED
  BY <1>4, <1>5 DEF n, c, both

(* An enrollment that came to a coordinator does not end without a reload. *)
LEMMA EnrollOwes ==
  ASSUME NEW r, Fits(r), NEW recs, NEW task \in Task, task.kind = "enroll"
  PROVE  /\ Owes(Ended(r, recs, task).task)
         /\ \A c \in Nat \ {0} : Owes(Refresh(r, recs, task, c).task)
         /\ \A m \in Miners, host \in Hosts : Owes(StartMiner(r, recs, task, m, host).task)
<1>1. ASSUME NEW n PROVE Owes(Ended(n, recs, task).task)
  <2>1. Ended(n, recs, task).task = [task EXCEPT !.pc = "reloading"]
    BY EndedTask
  <2>2. Ended(n, recs, task).task.pc = "reloading"
    BY <2>1 DEF Task
  <2> QED
    BY <2>2 DEF Owes
<1>2. ASSUME NEW n, NEW c \in Nat \ {0} PROVE Owes(Refresh(n, recs, task, c).task)
  <2>1. CASE n.objects[c].shut
    BY <1>1, <2>1 DEF Refresh
  <2>2. CASE ~n.objects[c].shut
    <3> DEFINE x == Refresh(n, recs, task, c).task
    <3>1. x = [task EXCEPT !.pc = "reading", !.object = c, !.host = n.objects[c].host,
                           !.first = answers[n.objects[c].host]]
      BY <2>2 DEF Refresh, Both
    <3>2. x.object = c /\ x.kind = "enroll"
      BY <3>1 DEF Task
    <3> QED
      BY <3>2 DEF Owes
  <2> QED
    BY <2>1, <2>2
<1>3. ASSUME NEW m \in Miners, NEW host \in Hosts
      PROVE  Owes(StartMiner(r, recs, task, m, host).task)
  <2>1. CASE r.coordinators[m] = 0
    <3>1. Len(Created(r, m, host).objects) = Len(r.objects) + 1
      BY <2>1, CreatedPiece
    <3>2. Len(r.objects) + 1 \in Nat \ {0}
      BY RuntimeFields DEF Fits
    <3> QED
      BY <1>2, <2>1, <3>1, <3>2 DEF StartMiner
  <2>2. CASE r.coordinators[m] # 0
    <3> DEFINE x == StartMiner(r, recs, task, m, host).task
    <3>1. x = [task EXCEPT !.pc = "linking", !.host = host, !.object = r.coordinators[m]]
      BY <2>2 DEF StartMiner, Both
    <3>2. x.object # 0 /\ x.kind = "enroll"
      BY <2>2, <3>1 DEF Task
    <3> QED
      BY <3>2 DEF Owes
  <2> QED
    BY <2>1, <2>2
<1> QED
  BY <1>1, <1>2, <1>3

LEMMA AfterSaveOwes ==
  ASSUME NEW r, Fits(r), NEW recs, NEW t \in AllTasks, NEW task \in Task,
         TaskOK(r, t, task), task.pc = "saving", Owes(task)
  PROVE  Owes(AfterSave(r, recs, task).task)
<1>1. task.kind \in {"enroll", "remove"}
  BY DEF Owes
<1>2. CASE task.kind = "enroll" /\ task.object # 0
  <2>1. PICK n : AfterSave(r, recs, task) = Ended(n, recs, task)
    BY <1>2 DEF AfterSave, AfterUpdate, Refreshed
  <2>2. Ended(n, recs, task).task = [task EXCEPT !.pc = "reloading"]
    BY <1>2, EndedTask
  <2>3. AfterSave(r, recs, task).task.pc = "reloading"
    BY <2>1, <2>2 DEF Task
  <2> QED
    BY <2>3 DEF Owes
<1>3. CASE task.kind = "enroll" /\ task.object = 0
  <2>1. AfterSave(r, recs, task) = StartMiner(r, recs, task, task.miner, task.host)
    BY <1>3 DEF AfterSave
  <2>2. task.miner \in Miners /\ task.host \in Hosts
    BY <1>3 DEF TaskOK, Reads, Locked
  <2> QED
    BY <1>3, <2>1, <2>2, EnrollOwes
<1>4. CASE task.kind = "remove"
  <2>1. task.object = 0
    BY <1>4 DEF TaskOK
  <2>2. AfterSave(r, recs, task).task = [task EXCEPT !.pc = "reloading"]
    BY <1>4, <2>1 DEF AfterSave, Both
  <2>3. AfterSave(r, recs, task).task.pc = "reloading"
    BY <2>2 DEF Task
  <2> QED
    BY <2>3 DEF Owes
<1> QED
  BY <1>1, <1>2, <1>3, <1>4

(* A task that owes a reload owes it after its next step too.              *)
LEMMA OwesNext ==
  ASSUME Core, NEW t \in AllTasks, Owes(tasks[t]), Continue(t), ~CloseBegins(t), ~CloseEnds(t)
  PROVE  Owes(tasks'[t])
<1> DEFINE task == tasks[t]
<1>1. /\ task \in Task /\ TaskOK(runtime, t, task) /\ Fits(runtime)
      /\ tasks \in [AllTasks -> Task]
  BY CoreFacts DEF Core, TypeOK
<1>2. ASSUME NEW both, Becomes(t, both) PROVE tasks'[t] = both.task
  BY <1>1, <1>2 DEF Becomes
<1>3. CASE \E a \in Answer : ReadReturns(t, a)
  <2>1. PICK a \in Answer : ReadReturns(t, a)
    BY <1>3
  <2>2. task.pc = "reading"
    BY <2>1 DEF ReadReturns, Answered
  <2>3. task.kind = "enroll" /\ task.object # 0
    BY <2>2 DEF Owes
  <2>4. Becomes(t, RefreshRead(task, a))
    BY <2>1, <2>3 DEF ReadReturns
  <2>5. CASE a = runtime.objects[task.object].miner
    <3>1. tasks'[t] = Lock(task, a)
      BY <1>2, <2>4, <2>5 DEF RefreshRead, Both
    <3>2. tasks'[t].kind = "enroll" /\ tasks'[t].object # 0
      BY <1>1, <2>3, <3>1 DEF Lock, Task
    <3> QED
      BY <3>2 DEF Owes
  <2>6. CASE a # runtime.objects[task.object].miner
    <3>1. PICK n : RefreshRead(task, a) = Ended(n, records, task)
      BY <2>6 DEF RefreshRead
    <3>2. tasks'[t] = [task EXCEPT !.pc = "reloading"]
      BY <1>2, <2>3, <2>4, <3>1, EndedTask
    <3>3. tasks'[t].pc = "reloading"
      BY <1>1, <3>2 DEF Task
    <3> QED
      BY <3>3 DEF Owes
  <2> QED
    BY <2>5, <2>6
<1>4. CASE EnrollAcquires(t) \/ RejectAcquires(t) \/ SwitchAcquires(t)
           \/ RemoveAcquires(t)
  BY <1>4 DEF EnrollAcquires, RejectAcquires, SwitchAcquires, RemoveAcquires, Acquires, Owes
<1>5. CASE UpdateAcquires(t)
  <2>1. task.pc = "locking"
    BY <1>5 DEF UpdateAcquires, Acquires
  <2>2. task.kind = "enroll" /\ task.object # 0
    BY <2>1 DEF Owes
  <2>3. ASSUME NEW e, Becomes(t, AfterUpdate(runtime, records, [task EXCEPT !.enabled = e]))
        PROVE  Owes(tasks'[t])
    <3> DEFINE x == [task EXCEPT !.enabled = e]
    <3>1. x.kind = "enroll" /\ x.object # 0
      BY <1>1, <2>2 DEF Task
    <3>2. tasks'[t] = AfterUpdate(runtime, records, x).task
      BY <1>2, <2>3
    <3>p. [x EXCEPT !.pc = "reloading"].pc = "reloading"
      <4>1. task \in Task
        BY <1>1
      <4> HIDE DEF task
      <4> QED
        BY <4>1 DEF Task
    <3> HIDE DEF x
    <3>3. PICK n : AfterUpdate(runtime, records, x) = Ended(n, records, x)
      BY <3>1 DEF AfterUpdate, Refreshed
    <3>4. Ended(n, records, x).task = [x EXCEPT !.pc = "reloading"]
      BY <3>1, EndedTask
    <3>5. tasks'[t].pc = "reloading"
      BY <3>p, <3>3, <3>4, <3>2
    <3> QED
      BY <3>5 DEF Owes
  <2>4. ASSUME NEW e, NEW h, Saving(t, e, h) PROVE Owes(tasks'[t])
    <3>1. tasks'[t] = [task EXCEPT !.pc = "saving", !.enabled = e, !.host = h]
      BY <1>1, <2>4 DEF Saving
    <3>2. tasks'[t].pc = "saving" /\ tasks'[t].kind = "enroll"
      BY <1>1, <2>2, <3>1 DEF Task
    <3> QED
      BY <3>2 DEF Owes
  <2> QED
    BY <1>5, <2>3, <2>4 DEF UpdateAcquires
<1>6. CASE SaveReturns(t)
  <2>1. task.pc = "saving" /\ Becomes(t, AfterSave(runtime, records, task))
    BY <1>6 DEF SaveReturns
  <2> QED
    BY <1>1, <1>2, <2>1, AfterSaveOwes
<1>7. CASE Linked(t)
  <2>1. task.pc = "linking"
    BY <1>7 DEF Linked
  <2>2. task.kind = "enroll" /\ task.object \in Nat \ {0}
    BY <1>1, <2>1 DEF Owes, Task
  <2> DEFINE n == Moved(runtime, task.object, task.host)
  <2>3. Becomes(t, Refresh(n, records, task, task.object))
    BY <1>7, <2>2 DEF Linked, Moved
  <2>4. Fits(n)
    <3>1. task.object \in 1..Len(runtime.objects) /\ task.host \in Hosts
      BY <1>1, <2>1, <2>2, Waiting DEF TaskOK
    <3> QED
      BY <1>1, <3>1, MovedPiece
  <2> HIDE DEF n
  <2> QED
    BY <1>1, <1>2, <2>2, <2>3, <2>4, EnrollOwes
<1> QED
  BY <1>3, <1>4, <1>5, <1>6, <1>7 DEF Continue

(* A step of one task leaves the others as they are.                       *)
LEMMA OthersStay ==
  ASSUME Core, NEW t \in AllTasks, Continue(t) \/ Calls(t), ~CloseBegins(t), ~CloseEnds(t)
  PROVE  \A u \in AllTasks : u # t => tasks'[u] = tasks[u]
<1>1. tasks \in [AllTasks -> Task]
  BY DEF Core, TypeOK
<1>2. ASSUME NEW both, Becomes(t, both)
      PROVE  \A u \in AllTasks : u # t => tasks'[u] = tasks[u]
  BY <1>1, <1>2 DEF Becomes
<1>3. ASSUME NEW e, NEW h, Saving(t, e, h)
      PROVE  \A u \in AllTasks : u # t => tasks'[u] = tasks[u]
  BY <1>1, <1>3 DEF Saving
<1>4. CASE Calls(t)
  <2>1. \E r, task : Begin(t, r, task)
    BY <1>4 DEF Calls, EnrollHost, ProbeEndpoint, ApproveCandidate, RejectCandidate,
       RemoveMiner, SetEnabled, Poll
  <2> QED
    BY <1>2, <2>1 DEF Begin
<1>5. CASE Continue(t)
  <2>1. CASE (\E a \in Answer : ReadReturns(t, a)) \/ SaveReturns(t) \/ Linked(t)
    BY <1>2, <2>1 DEF ReadReturns, SaveReturns, Linked
  <2>2. CASE EnrollAcquires(t) \/ RejectAcquires(t)
    BY <1>3, <2>2 DEF EnrollAcquires, RejectAcquires
  <2>3. CASE UpdateAcquires(t) \/ RemoveAcquires(t) \/ SwitchAcquires(t)
    BY <1>2, <1>3, <2>3 DEF UpdateAcquires, RemoveAcquires, SwitchAcquires
  <2> QED
    BY <1>5, <2>1, <2>2, <2>3 DEF Continue
<1> QED
  BY <1>4, <1>5

(* A reload that is due stays due until the old runtime is closed.         *)
LEMMA DueNext ==
  ASSUME Core, [Next]_vars, Due
  PROVE  Due' \/ \E t \in AllTasks : CloseEnds(t)
<1>1. PICK u \in AllTasks : Owes(tasks[u])
  BY DEF Due
<1>2. tasks[u] # Idle /\ tasks \in [AllTasks -> Task] /\ TaskOK(runtime, u, tasks[u])
  BY <1>1, IdleTask, CoreFacts DEF Owes, Core, TypeOK
<1>3. CASE tasks' = tasks
  BY <1>1, <1>3 DEF Due
<1>4. ASSUME NEW t \in AllTasks, Continue(t) \/ Calls(t), ~CloseEnds(t)
      PROVE  Due'
  <2>1. CASE CloseBegins(t)
    <3>1. tasks[u].kind # "probe"
      BY <1>1, <1>2 DEF Owes, TaskOK
    <3>2. tasks'[u] = tasks[u]
      BY <2>1, <3>1 DEF CloseBegins
    <3> QED
      BY <1>1, <3>2 DEF Due
  <2>2. CASE ~CloseBegins(t) /\ u # t
    BY <1>1, <1>4, <2>2, OthersStay DEF Due
  <2>3. CASE ~CloseBegins(t) /\ u = t
    <3>1. Continue(t)
      <4>1. Calls(t) => tasks[t] = Idle
        BY DEF Calls, EnrollHost, ProbeEndpoint, ApproveCandidate, RejectCandidate,
           RemoveMiner, SetEnabled, Poll, Begin
      <4> QED
        BY <1>2, <1>4, <2>3, <4>1
    <3> QED
      BY <1>1, <1>4, <2>3, <3>1, OwesNext DEF Due
  <2> QED
    BY <2>1, <2>2, <2>3
<1>5. ASSUME NEW m \in Miners, StartNext(m) PROVE Due'
  <2>1. u # Starter
    BY <1>2, <1>5 DEF StartNext
  <2>2. tasks'[u] = tasks[u]
    BY <1>2, <1>5, <2>1 DEF StartNext, Becomes
  <2> QED
    BY <1>1, <2>2 DEF Due
<1>6. CASE StartEnds \/ \E host \in Hosts, a \in Answer : Moves(host, a)
  BY <1>3, <1>6 DEF StartEnds, Moves
<1>7. CASE UNCHANGED vars
  BY <1>3, <1>7 DEF vars
<1> QED
  BY <1>4, <1>5, <1>6, <1>7 DEF Next, StartContinues

-----------------------------------------------------------------------------
(* What holds while no reload is due: each promise, and the calls under way *)
(* that will keep it.                                                      *)

(* A decision about m is being saved; its candidate goes with the save.    *)
Decides(task, m) ==
  /\ task.pc = "saving" /\ task.object = 0
  /\ task.kind \in {"approve", "reject"} /\ task.asked = m

Offers ==
  \A m \in Miners : runtime.candidates[m] # NoHost =>
    \/ records[m] = NoRecord /\ m \notin rejected
    \/ \E t \in AllTasks : Decides(tasks[t], m)

(* The miner was enabled, and will be started when that is saved.          *)
Enables(task, m) ==
  /\ task.pc = "saving" /\ task.object = 0 /\ task.kind \in {"switch", "approve"}
  /\ task.asked = m /\ task.enabled

(* The miner was disabled, and will be stopped when that is saved.         *)
Disables(task, m) ==
  /\ task.pc = "saving" /\ task.object = 0 /\ task.kind = "switch"
  /\ task.asked = m /\ ~task.enabled

(* The miner was stopped, and will be removed.                             *)
Removes(task, m) == task.kind = "remove" /\ task.pc = "locking" /\ task.asked = m

(* It has a coordinator, or async_start is about to give it one.           *)
Present(m) == runtime.coordinators[m] # 0 \/ queue[m] # NoRecord

Follows ==
  \A m \in Miners :
    /\ Present(m) =>
         m \in EnabledIn(records) \/ \E t \in AllTasks : Disables(tasks[t], m)
    /\ m \in EnabledIn(records) =>
         \/ Present(m)
         \/ \E t \in AllTasks : Enables(tasks[t], m) \/ Removes(tasks[t], m)

(* The totals are counted when it ends.                                    *)
Recounts(task) ==
  \/ task.kind = "switch" /\ (task.object # 0 \/ task.pc = "saving")
  \/ task.kind = "remove" /\ task.pc = "locking"

(* An approval that is not over: the new coordinator's first refresh tells *)
(* the fleet.                                                              *)
Announces(task, r, m) ==
  \/ /\ r.coordinators[m] = 0
     /\ task.pc = "saving" /\ task.object = 0 /\ task.kind = "approve"
     /\ task.asked = m /\ task.enabled
  \/ /\ r.coordinators[m] # 0
     /\ r.objects[r.coordinators[m]].ok /\ ~r.objects[r.coordinators[m]].heard
     /\ task.kind = "approve" /\ task.object = r.coordinators[m]
     /\ task.pc \in {"reading", "locking", "saving"}

Counting ==
  \/ phase = "starting"
  \/ \E t \in AllTasks : Recounts(tasks[t])
  \/ /\ runtime.totals.online = {m \in EnabledIn(records) : Online(runtime, m)}
     /\ runtime.totals.enabled \subseteq EnabledIn(records)
     /\ \A m \in EnabledIn(records) :
          \/ m \in runtime.totals.enabled
          \/ \E t \in AllTasks : Announces(tasks[t], runtime, m)

(* The coordinator c will be moved to the address that was recorded.       *)
Relinks(task, r, c) ==
  \/ task.pc = "linking" /\ task.object = c
  \/ /\ task.pc = "saving" /\ task.object = 0 /\ task.kind \in {"approve", "probe"}
     /\ task.miner = r.objects[c].miner
  \/ task.pc = "saving" /\ task.object = c /\ task.host # r.objects[c].host

(* The only one of its miner, and its last poll came from its client.      *)
Current(r, c) ==
  /\ ~r.objects[c].shut /\ r.objects[c].polled = r.objects[c].host
  /\ \A d \in 1..Len(r.objects) : r.objects[d].miner = r.objects[c].miner => d = c

Heals ==
  \A c \in 1..Len(runtime.objects) : Current(runtime, c) =>
    \/ records[runtime.objects[c].miner].host = runtime.objects[c].host
    \/ \E t \in AllTasks : Relinks(tasks[t], runtime, c)

Settled == Offers /\ Follows /\ Counting /\ Heals

-----------------------------------------------------------------------------
(* Steps that leave the registry alone.                                    *)

(* What a poll, a count or a wait leaves alone.                            *)
Calm(r, n, recs) ==
  /\ r \in Runtime /\ n \in Runtime /\ Same(r, n) /\ Counts(r, n, recs)
  /\ \A c \in 1..Len(r.objects) : n.objects[c].polled = r.objects[c].polled

(* A task that puts nothing right.                                         *)
Unmarked(task) ==
  /\ task.pc \notin {"saving", "linking"} /\ task.object = 0
  /\ ~(task.kind = "remove" /\ task.pc = "locking")

LEMMA UnmarkedTask ==
  ASSUME NEW task, Unmarked(task)
  PROVE  /\ \A m : /\ ~Decides(task, m) /\ ~Enables(task, m) /\ ~Disables(task, m)
                   /\ ~Removes(task, m)
         /\ ~Recounts(task)
         /\ \A r, m : ~Announces(task, r, m)
         /\ \A r, c : ~Relinks(task, r, c)
<1>1. /\ \A m : /\ ~Decides(task, m) /\ ~Enables(task, m) /\ ~Disables(task, m)
                /\ ~Removes(task, m)
      /\ ~Recounts(task)
  BY DEF Unmarked, Decides, Enables, Disables, Removes, Recounts
<1>2. \A r, m : ~Announces(task, r, m)
  BY DEF Unmarked, Announces
<1>3. \A r, c : ~Relinks(task, r, c)
  BY DEF Unmarked, Relinks
<1> QED
  BY <1>1, <1>2, <1>3

LEMMA OffersStay ==
  ASSUME Offers, NEW t \in AllTasks,
         \A u \in AllTasks : u # t => tasks'[u] = tasks[u],
         records' = records, rejected' = rejected,
         \A m \in Miners : runtime'.candidates[m] # NoHost =>
           \/ records[m] = NoRecord /\ m \notin rejected
           \/ /\ runtime.candidates[m] # NoHost
              /\ Decides(tasks[t], m) => Decides(tasks'[t], m)
  PROVE  Offers'
<1> SUFFICES ASSUME NEW m \in Miners, runtime'.candidates[m] # NoHost,
                    ~(records[m] = NoRecord /\ m \notin rejected)
             PROVE  \E u \in AllTasks : Decides(tasks'[u], m)
  BY DEF Offers
<1>1. PICK u \in AllTasks : Decides(tasks[u], m)
  BY DEF Offers
<1>2. Decides(tasks'[u], m)
  BY <1>1
<1> QED
  BY <1>2

LEMMA FollowsStay ==
  ASSUME Follows, NEW t \in AllTasks,
         \A u \in AllTasks : u # t => tasks'[u] = tasks[u],
         EnabledIn(records') = EnabledIn(records), queue' = queue,
         runtime'.coordinators = runtime.coordinators,
         \A m \in Miners :
           /\ Enables(tasks[t], m) => Enables(tasks'[t], m)
           /\ Disables(tasks[t], m) => Disables(tasks'[t], m)
           /\ Removes(tasks[t], m) => Removes(tasks'[t], m) \/ m \notin EnabledIn(records)
  PROVE  Follows'
<1>1. ASSUME NEW m \in Miners, Present(m)',  m \notin EnabledIn(records)
      PROVE  \E u \in AllTasks : Disables(tasks'[u], m)
  <2>1. Present(m)
    BY <1>1 DEF Present
  <2>2. PICK u \in AllTasks : Disables(tasks[u], m)
    BY <1>1, <2>1 DEF Follows
  <2> QED
    BY <2>2
<1>2. ASSUME NEW m \in Miners, m \in EnabledIn(records), ~Present(m)'
      PROVE  \E u \in AllTasks : Enables(tasks'[u], m) \/ Removes(tasks'[u], m)
  <2>1. ~Present(m)
    BY <1>2 DEF Present
  <2>2. PICK u \in AllTasks : Enables(tasks[u], m) \/ Removes(tasks[u], m)
    BY <1>2, <2>1 DEF Follows
  <2> QED
    BY <1>2, <2>2
<1> QED
  BY <1>1, <1>2 DEF Follows

(* New totals are right.                                                   *)
LEMMA CountingTallied ==
  ASSUME Tallied(runtime', records')
  PROVE  Counting'
BY DEF Tallied, Counting

LEMMA CountingStays ==
  ASSUME Counting, NEW t \in AllTasks,
         \A u \in AllTasks : u # t => tasks'[u] = tasks[u],
         EnabledIn(records') = EnabledIn(records), phase' = phase,
         Counts(runtime, runtime', records'),
         Recounts(tasks[t]) => Recounts(tasks'[t]) \/ Tallied(runtime', records'),
         \A m \in Miners : Announces(tasks[t], runtime, m) =>
           Announces(tasks'[t], runtime, m) \/ Tallied(runtime', records')
  PROVE  Counting'
<1>1. CASE Tallied(runtime', records')
  BY <1>1, CountingTallied
<1>2. CASE ~Tallied(runtime', records')
  <2>1. Hushed(runtime, runtime')
    BY <1>2 DEF Counts
  <2>2. ASSUME NEW m \in Miners PROVE Online(runtime', m) <=> Online(runtime, m)
    BY <2>1 DEF Hushed, Online
  <2>3. ASSUME NEW m \in Miners, NEW task, Announces(task, runtime, m)
        PROVE  Announces(task, runtime', m)
    BY <2>1, <2>3 DEF Hushed, Announces
  <2>4. CASE phase = "starting"
    BY <2>4 DEF Counting
  <2>5. CASE \E u \in AllTasks : Recounts(tasks[u])
    BY <1>2, <2>5 DEF Counting
  <2>6. CASE /\ runtime.totals.online = {m \in EnabledIn(records) : Online(runtime, m)}
             /\ runtime.totals.enabled \subseteq EnabledIn(records)
             /\ \A m \in EnabledIn(records) :
                  \/ m \in runtime.totals.enabled
                  \/ \E u \in AllTasks : Announces(tasks[u], runtime, m)
    <3>1. runtime'.totals = runtime.totals
      BY <2>1 DEF Hushed
    <3>2. {m \in EnabledIn(records') : Online(runtime', m)} =
            {m \in EnabledIn(records) : Online(runtime, m)}
      BY <2>2, EnabledType
    <3>3. ASSUME NEW m \in EnabledIn(records), m \notin runtime.totals.enabled
          PROVE  \E u \in AllTasks : Announces(tasks'[u], runtime', m)
      <4>1. PICK u \in AllTasks : Announces(tasks[u], runtime, m)
        BY <2>6, <3>3
      <4>2. m \in Miners
        BY EnabledType
      <4>3. Announces(tasks'[u], runtime, m)
        BY <1>2, <4>1, <4>2
      <4> QED
        BY <2>3, <4>2, <4>3
    <3> QED
      BY <2>6, <3>1, <3>2, <3>3 DEF Counting
  <2> QED
    BY <2>4, <2>5, <2>6 DEF Counting
<1> QED
  BY <1>1, <1>2

(* The objects of both are those of the same miners at the same hosts.     *)
Alike(r, n) ==
  /\ Len(n.objects) = Len(r.objects)
  /\ \A c \in 1..Len(r.objects) :
       /\ n.objects[c].miner = r.objects[c].miner
       /\ n.objects[c].host = r.objects[c].host
       /\ n.objects[c].shut = r.objects[c].shut

LEMMA HealsStay ==
  ASSUME Heals, NEW t \in AllTasks, runtime \in Runtime, runtime' \in Runtime,
         \A u \in AllTasks : u # t => tasks'[u] = tasks[u],
         records' = records, Alike(runtime, runtime'),
         \A c \in 1..Len(runtime.objects) : Current(runtime', c) =>
           /\ runtime'.objects[c].polled = runtime.objects[c].polled
           /\ Relinks(tasks[t], runtime, c) => Relinks(tasks'[t], runtime, c)
  PROVE  Heals'
<1> SUFFICES ASSUME NEW c \in 1..Len(runtime'.objects), Current(runtime', c)
             PROVE  \/ records[runtime'.objects[c].miner].host = runtime'.objects[c].host
                    \/ \E u \in AllTasks : Relinks(tasks'[u], runtime', c)
  BY DEF Heals
<1>1. /\ Len(runtime'.objects) = Len(runtime.objects) /\ c \in 1..Len(runtime.objects)
      /\ \A d \in 1..Len(runtime.objects) :
           /\ runtime'.objects[d].miner = runtime.objects[d].miner
           /\ runtime'.objects[d].host = runtime.objects[d].host
           /\ runtime'.objects[d].shut = runtime.objects[d].shut
  BY DEF Alike
<1>2. Current(runtime, c)
  BY <1>1 DEF Current
<1>3. CASE records[runtime.objects[c].miner].host = runtime.objects[c].host
  BY <1>1, <1>3
<1>4. CASE \E u \in AllTasks : Relinks(tasks[u], runtime, c)
  <2>1. PICK u \in AllTasks : Relinks(tasks[u], runtime, c)
    BY <1>4
  <2>2. Relinks(tasks'[u], runtime, c)
    BY <1>1, <2>1
  <2>3. Relinks(tasks'[u], runtime', c)
    BY <1>1, <2>2 DEF Relinks
  <2> QED
    BY <2>3
<1> QED
  BY <1>1, <1>2, <1>3, <1>4 DEF Heals

LEMMA TallyStays ==
  ASSUME NEW r, NEW n, NEW recs, Tallied(r, recs), Hushed(r, n)
  PROVE  Tallied(n, recs)
<1>1. ASSUME NEW m \in Miners PROVE Online(n, m) <=> Online(r, m)
  BY DEF Hushed, Online
<1>2. {m \in EnabledIn(recs) : Online(n, m)} = {m \in EnabledIn(recs) : Online(r, m)}
  BY <1>1, EnabledType
<1> QED
  BY <1>2 DEF Tallied, Hushed

LEMMA CountsTrans ==
  ASSUME NEW r, NEW s, NEW n, NEW recs, Counts(r, s, recs), Counts(s, n, recs)
  PROVE  Counts(r, n, recs) /\ (Tallied(s, recs) => Tallied(n, recs))
<1>1. Tallied(s, recs) => Tallied(n, recs)
  BY TallyStays DEF Counts
<1>2. Hushed(r, s) /\ Hushed(s, n) => Hushed(r, n)
  BY DEF Hushed
<1> QED
  BY <1>1, <1>2 DEF Counts

LEMMA CalmTrans ==
  ASSUME NEW r, NEW s, NEW n, NEW recs, Calm(r, s, recs), Calm(s, n, recs)
  PROVE  Calm(r, n, recs)
<1>1. Same(r, n)
  BY DEF Calm, Same
<1>2. \A c \in 1..Len(r.objects) : n.objects[c].polled = r.objects[c].polled
  BY DEF Calm, Same
<1> QED
  BY <1>1, <1>2, CountsTrans DEF Calm

LEMMA CalmSelf ==
  ASSUME NEW r \in Runtime, NEW recs
  PROVE  Calm(r, r, recs)
BY DEF Calm, Same, Counts, Hushed

LEMMA EndedCalm ==
  ASSUME NEW r \in Runtime, NEW recs, NEW task
  PROVE  Calm(r, Ended(r, recs, task).runtime, recs)
BY EndedPiece DEF Calm

LEMMA EndedCounts ==
  ASSUME NEW r \in Runtime, NEW recs, NEW task
  PROVE  /\ Tallied(r, recs) => Tallied(Ended(r, recs, task).runtime, recs)
         /\ task.kind = "switch" => Tallied(Ended(r, recs, task).runtime, recs)
BY EndedPiece, CountedTally

LEMMA RefreshCalm ==
  ASSUME NEW r \in Runtime, NEW recs, NEW task, NEW c
  PROVE  Calm(r, Refresh(r, recs, task, c).runtime, recs)
<1>1. CASE r.objects[c].shut
  BY <1>1, EndedCalm DEF Refresh
<1>2. CASE ~r.objects[c].shut
  BY <1>2, CalmSelf DEF Refresh, Both
<1> QED
  BY <1>1, <1>2

(* A refresh that went well changes only what its coordinator has heard.   *)
LEMMA RefreshedPiece ==
  ASSUME NEW r, Fits(r), NEW recs, NEW task,
         task.object \in 1..Len(r.objects), task.host \in Hosts
  PROVE  LET c == task.object
             n == Refreshed(r, recs, task).runtime
         IN  /\ n \in Runtime /\ Same(r, n) /\ Counts(r, n, recs)
             /\ n.objects[c].polled = task.host
             /\ \A d \in 1..Len(r.objects) : d # c =>
                  n.objects[d].polled = r.objects[d].polled
             /\ r.coordinators[r.objects[c].miner] = c => Tallied(n, recs)
             /\ task.kind = "switch" => Tallied(n, recs)
<1> DEFINE c == task.object
           s == [r EXCEPT !.objects[c].polled = task.host]
           p == Published(s, recs, c)
           n == Refreshed(r, recs, task).runtime
<1>1. /\ s \in Runtime /\ Same(r, s) /\ s.objects[c].polled = task.host /\ Hushed(r, s)
      /\ \A d \in 1..Len(r.objects) : d # c => s.objects[d] = r.objects[d]
  BY PolledPiece
<1>2. Fits(s) /\ c \in 1..Len(s.objects)
  BY <1>1, SameFits DEF Same
<1>3. n = Ended(p, recs, task).runtime
  BY DEF Refreshed
<1> HIDE DEF s, n
<1>4. /\ p \in Runtime /\ Same(s, p) /\ Counts(s, p, recs)
      /\ \A d \in 1..Len(s.objects) : p.objects[d].polled = s.objects[d].polled
      /\ s.coordinators[s.objects[c].miner] = c => Tallied(p, recs)
  BY <1>2, PublishedPiece
<1> HIDE DEF p
<1>5. /\ n \in Runtime /\ Same(p, n) /\ n.objects = p.objects /\ Counts(p, n, recs)
      /\ Tallied(p, recs) => Tallied(n, recs)
      /\ task.kind = "switch" => Tallied(n, recs)
  BY <1>3, <1>4, EndedPiece, EndedCounts
<1>6. Same(r, n)
  BY <1>1, <1>4, <1>5 DEF Same
<1>7. Counts(r, n, recs)
  BY <1>1, <1>4, <1>5, CountsTrans DEF Counts
<1>8. r.coordinators[r.objects[c].miner] = c => Tallied(n, recs)
  BY <1>1, <1>4, <1>5 DEF Same
<1>9. /\ n.objects[c].polled = task.host
      /\ \A d \in 1..Len(r.objects) : d # c => n.objects[d].polled = r.objects[d].polled
  BY <1>1, <1>2, <1>4, <1>5 DEF Same
<1> QED
  BY <1>5, <1>6, <1>7, <1>8, <1>9 DEF n

LEMMA StillSettled ==
  ASSUME Settled, NEW t \in AllTasks,
         \A u \in AllTasks : u # t => tasks'[u] = tasks[u],
         records' = records, rejected' = rejected, phase' = phase, queue' = queue,
         Calm(runtime, runtime', records),
         \A m \in Miners :
           /\ Decides(tasks[t], m) => Decides(tasks'[t], m)
           /\ Enables(tasks[t], m) => Enables(tasks'[t], m)
           /\ Disables(tasks[t], m) => Disables(tasks'[t], m)
           /\ Removes(tasks[t], m) => Removes(tasks'[t], m) \/ m \notin EnabledIn(records),
         Recounts(tasks[t]) => Recounts(tasks'[t]) \/ Tallied(runtime', records),
         \A m \in Miners : Announces(tasks[t], runtime, m) =>
           Announces(tasks'[t], runtime, m) \/ Tallied(runtime', records),
         \A c \in 1..Len(runtime.objects) :
           Relinks(tasks[t], runtime, c) => Relinks(tasks'[t], runtime, c)
  PROVE  Settled'
<1>1. /\ runtime \in Runtime /\ runtime' \in Runtime /\ Same(runtime, runtime')
      /\ Counts(runtime, runtime', records')
      /\ runtime'.coordinators = runtime.coordinators
      /\ runtime'.candidates = runtime.candidates
      /\ \A c \in 1..Len(runtime.objects) :
           runtime'.objects[c].polled = runtime.objects[c].polled
      /\ Alike(runtime, runtime')
  BY DEF Calm, Same, Alike
<1>2. Offers'
  BY <1>1, OffersStay DEF Settled
<1>3. Follows'
  BY <1>1, FollowsStay DEF Settled
<1>4. Counting'
  BY <1>1, CountingStays DEF Settled
<1>5. Heals'
  BY <1>1, HealsStay DEF Settled
<1> QED
  BY <1>2, <1>3, <1>4, <1>5 DEF Settled

(* A task that puts nothing right may go on to anything.                   *)
LEMMA UnmarkedSettled ==
  ASSUME Settled, NEW t \in AllTasks, Unmarked(tasks[t]),
         \A u \in AllTasks : u # t => tasks'[u] = tasks[u],
         records' = records, rejected' = rejected, phase' = phase, queue' = queue,
         Calm(runtime, runtime', records)
  PROVE  Settled'
BY UnmarkedTask, StillSettled

(* Only a candidate comes or goes.                                         *)
LEMMA CandidateSettled ==
  ASSUME Settled, NEW t \in AllTasks, Unmarked(tasks[t]),
         \A u \in AllTasks : u # t => tasks'[u] = tasks[u],
         records' = records, rejected' = rejected, phase' = phase, queue' = queue,
         runtime \in Runtime, runtime' \in Runtime,
         runtime'.coordinators = runtime.coordinators,
         runtime'.totals = runtime.totals, runtime'.objects = runtime.objects,
         \A m \in Miners : runtime'.candidates[m] # NoHost =>
           \/ records[m] = NoRecord /\ m \notin rejected
           \/ runtime.candidates[m] # NoHost
  PROVE  Settled'
<1>1. Alike(runtime, runtime') /\ Counts(runtime, runtime', records')
  BY DEF Alike, Counts, Hushed
<1>2. Offers'
  BY UnmarkedTask, OffersStay DEF Settled
<1>3. Follows'
  BY UnmarkedTask, FollowsStay DEF Settled
<1>4. Counting'
  BY <1>1, UnmarkedTask, CountingStays DEF Settled
<1>5. Heals'
  BY <1>1, UnmarkedTask, HealsStay DEF Settled
<1> QED
  BY <1>2, <1>3, <1>4, <1>5 DEF Settled

-----------------------------------------------------------------------------
(* Every action keeps what is settled, or a reload gets due.               *)

LEMMA ReadSettled ==
  ASSUME Core, Settled, ~Due, NEW t \in AllTasks, NEW a \in Answer, ReadReturns(t, a)
  PROVE  Settled'
<1> DEFINE task == tasks[t]
<1>1. /\ task.pc = "reading"
      /\ records' = records /\ rejected' = rejected /\ phase' = phase /\ queue' = queue
  BY DEF ReadReturns, Answered, registry
<1>2. /\ Fits(runtime) /\ task \in Task /\ TaskOK(runtime, t, task) /\ task.host \in Hosts
      /\ runtime \in Runtime /\ tasks \in [AllTasks -> Task]
  BY <1>1, CoreFacts DEF TaskOK, Core, TypeOK
<1>3. \A u \in AllTasks : u # t => tasks'[u] = tasks[u]
  BY <1>1, OthersStay DEF Continue, CloseBegins, CloseEnds
<1>4. ASSUME NEW both, Becomes(t, both)
      PROVE  runtime' = both.runtime /\ tasks'[t] = both.task
  BY <1>2, <1>4 DEF Becomes
<1>5. Calm(runtime, runtime, records)
  BY <1>2, CalmSelf
<1>6. CASE task.object # 0 /\ Becomes(t, RefreshRead(task, a))
  <2> DEFINE c == task.object
             f == Failed(runtime, records, c)
  <2>1. c \in 1..Len(runtime.objects) /\ task.kind # "enroll"
    BY <1>1, <1>6, Waiting DEF Due, Owes
  <2>2. CASE a = runtime.objects[c].miner
    <3> DEFINE x == Lock(task, a)
    <3>1. runtime' = runtime /\ tasks'[t] = x
      BY <1>4, <1>6, <2>2 DEF RefreshRead, Both
    <3>2. x.pc = "locking" /\ x.kind = task.kind /\ x.object = c
      BY <1>2 DEF Lock, Task
    <3> HIDE DEF x
    <3>3. /\ \A m \in Miners : /\ ~Decides(task, m) /\ ~Enables(task, m)
                               /\ ~Disables(task, m) /\ ~Removes(task, m)
          /\ Recounts(task) => Recounts(x)
          /\ \A d \in 1..Len(runtime.objects) : ~Relinks(task, runtime, d)
      BY <1>1, <1>6, <3>2 DEF Decides, Enables, Disables, Removes, Recounts, Relinks
    <3>4. \A m \in Miners : Announces(task, runtime, m) => Announces(x, runtime, m)
      BY <1>1, <3>2 DEF Announces
    <3> HIDE DEF task
    <3> QED
      BY <1>1, <1>3, <1>5, <3>1, <3>3, <3>4, StillSettled DEF task
  <2>3. CASE a # runtime.objects[c].miner
    <3>1. /\ runtime' = Ended(f, records, task).runtime
          /\ tasks'[t] = Ended(f, records, task).task
      BY <1>4, <1>6, <2>3 DEF RefreshRead
    <3>2. /\ Calm(runtime, f, records) /\ f \in Runtime
          /\ runtime.objects[c].ok /\ runtime.coordinators[runtime.objects[c].miner] = c =>
               Tallied(f, records)
      BY <1>2, <2>1, FailedPiece DEF Calm
    <3> HIDE DEF f
    <3>3. /\ Calm(runtime, runtime', records)
          /\ Tallied(f, records) => Tallied(runtime', records)
          /\ task.kind = "switch" => Tallied(runtime', records)
      BY <3>1, <3>2, EndedCalm, EndedCounts, CalmTrans
    <3>4. /\ \A m \in Miners : /\ ~Decides(task, m) /\ ~Enables(task, m)
                               /\ ~Disables(task, m) /\ ~Removes(task, m)
          /\ Recounts(task) => task.kind = "switch"
          /\ \A d \in 1..Len(runtime.objects) : ~Relinks(task, runtime, d)
      BY <1>1 DEF Decides, Enables, Disables, Removes, Recounts, Relinks
    <3>5. ASSUME NEW m \in Miners, Announces(task, runtime, m)
          PROVE  Tallied(runtime', records)
      <4>1. runtime.coordinators[m] = c /\ runtime.objects[c].ok
        BY <1>6, <3>5 DEF Announces
      <4>2. runtime.objects[c].miner = m
        BY <1>2, <1>6, <4>1 DEF Fits, Listing
      <4> QED
        BY <3>2, <3>3, <4>1, <4>2
    <3> QED
      BY <1>1, <1>3, <3>3, <3>4, <3>5, StillSettled
  <2> QED
    BY <2>2, <2>3
<1>7. task.object = 0 => Unmarked(task)
  BY <1>1 DEF Unmarked
<1>8. CASE /\ task.object = 0 /\ task.kind = "enroll"
           /\ Becomes(t, Both(runtime, IF a = Nobody THEN Idle ELSE Lock(task, a)))
  <2>1. runtime' = runtime
    BY <1>4, <1>8 DEF Both
  <2> QED
    BY <1>1, <1>3, <1>5, <1>7, <1>8, <2>1, UnmarkedSettled
<1>9. CASE /\ task.object = 0 /\ task.kind = "approve" /\ Becomes(t, Revalidated(task, a))
  <2>1. runtime' \in {runtime, Popped(runtime, task.asked)}
    BY <1>4, <1>9 DEF Revalidated, Both
  <2>2. CASE runtime' = runtime
    BY <1>1, <1>3, <1>5, <1>7, <1>9, <2>2, UnmarkedSettled
  <2>3. CASE runtime' = Popped(runtime, task.asked)
    <3>1. /\ runtime' \in Runtime /\ runtime'.coordinators = runtime.coordinators
          /\ runtime'.candidates = [runtime.candidates EXCEPT ![task.asked] = NoHost]
          /\ runtime'.totals = runtime.totals /\ runtime'.objects = runtime.objects
      BY <1>2, <2>3, PoppedPiece DEF Fits
    <3>2. \A m \in Miners : runtime'.candidates[m] # NoHost => runtime.candidates[m] # NoHost
      BY <1>2, <3>1, RuntimeFields
    <3> QED
      BY <1>1, <1>2, <1>3, <1>7, <1>9, <3>1, <3>2, CandidateSettled
  <2> QED
    BY <2>1, <2>2, <2>3
<1>10. CASE /\ task.object = 0 /\ task.kind = "probe" /\ Becomes(t, Probed(task, a))
  <2>1. CASE a = Nobody \/ records[a] # NoRecord \/ a \in rejected
    <3>1. runtime' = runtime
      BY <1>4, <1>10, <2>1 DEF Probed, Both
    <3> QED
      BY <1>1, <1>3, <1>5, <1>7, <1>10, <3>1, UnmarkedSettled
  <2>2. CASE a # Nobody /\ records[a] = NoRecord /\ a \notin rejected
    <3>1. a \in Miners
      BY <2>2 DEF Answer
    <3>2. runtime' = [runtime EXCEPT !.candidates[a] = task.host]
      BY <1>4, <1>10, <2>2 DEF Probed, Both
    <3>3. /\ runtime' \in Runtime /\ runtime'.coordinators = runtime.coordinators
          /\ runtime'.candidates = [runtime.candidates EXCEPT ![a] = task.host]
          /\ runtime'.totals = runtime.totals /\ runtime'.objects = runtime.objects
      BY <1>2, <3>1, <3>2, OfferedPiece DEF Fits
    <3>4. \A m \in Miners : runtime'.candidates[m] # NoHost =>
             runtime.candidates[m] # NoHost \/ (records[m] = NoRecord /\ m \notin rejected)
      BY <1>2, <2>2, <3>3, RuntimeFields
    <3> QED
      BY <1>1, <1>2, <1>3, <1>7, <1>10, <3>3, <3>4, CandidateSettled
  <2> QED
    BY <2>1, <2>2
<1> QED
  BY <1>6, <1>8, <1>9, <1>10 DEF ReadReturns

(* The registry's lock was free: no decision, switch or move was being     *)
(* saved.                                                                  *)
LEMMA LockWasFree ==
  ASSUME Core, Settled, NEW t \in AllTasks, Acquires(t)
  PROVE  /\ \A m \in Miners : runtime.candidates[m] # NoHost =>
              records[m] = NoRecord /\ m \notin rejected
         /\ \A m \in Miners : Present(m) => m \in EnabledIn(records)
         /\ \A m \in EnabledIn(records) :
              Present(m) \/ \E u \in AllTasks : Removes(tasks[u], m)
         /\ \A c \in 1..Len(runtime.objects) : ~Relinks(tasks[t], runtime, c)
         /\ \A m : /\ ~Decides(tasks[t], m) /\ ~Enables(tasks[t], m)
                   /\ ~Disables(tasks[t], m)
         /\ phase' = phase /\ queue' = queue
         /\ Continue(t) => \A u \in AllTasks : u # t => tasks'[u] = tasks[u]
<1>1. tasks[t].pc = "locking" /\ \A u \in AllTasks : tasks[u].pc # "saving"
  BY DEF Acquires
<1>2. \A u \in AllTasks, m \in Miners : /\ ~Decides(tasks[u], m) /\ ~Enables(tasks[u], m)
                                       /\ ~Disables(tasks[u], m)
  BY <1>1 DEF Decides, Enables, Disables
<1>3. /\ \A m : ~Decides(tasks[t], m) /\ ~Enables(tasks[t], m) /\ ~Disables(tasks[t], m)
      /\ \A c \in 1..Len(runtime.objects) : ~Relinks(tasks[t], runtime, c)
  BY <1>1 DEF Decides, Enables, Disables, Relinks
<1>4. \A m \in Miners : runtime.candidates[m] # NoHost =>
        records[m] = NoRecord /\ m \notin rejected
  BY <1>2 DEF Settled, Offers
<1>5. /\ \A m \in Miners : Present(m) => m \in EnabledIn(records)
      /\ \A m \in EnabledIn(records) :
           Present(m) \/ \E u \in AllTasks : Removes(tasks[u], m)
  BY <1>2, EnabledType DEF Settled, Follows
<1>6. Continue(t) => \A u \in AllTasks : u # t => tasks'[u] = tasks[u]
  BY <1>1, OthersStay DEF CloseBegins, CloseEnds
<1>7. phase' = phase /\ queue' = queue
  BY DEF Acquires
<1> QED
  BY <1>3, <1>4, <1>5, <1>6, <1>7

(* The task that saves, field by field.                                    *)
LEMMA SavingFields ==
  ASSUME Core, NEW t \in AllTasks, NEW e, NEW h, Saving(t, e, h)
  PROVE  /\ tasks'[t].pc = "saving" /\ tasks'[t].kind = tasks[t].kind
         /\ tasks'[t].object = tasks[t].object /\ tasks'[t].asked = tasks[t].asked
         /\ tasks'[t].miner = tasks[t].miner /\ tasks'[t].host = h
         /\ tasks'[t].enabled = e
         /\ runtime' = runtime
<1>1. tasks[t] \in Task /\ tasks \in [AllTasks -> Task]
  BY DEF Core, TypeOK
<1>2. tasks'[t] = [tasks[t] EXCEPT !.pc = "saving", !.enabled = e, !.host = h]
  BY <1>1 DEF Saving
<1> QED
  BY <1>1, <1>2 DEF Task, Saving

(* Totals stay right when only miners that are not online get enabled, and *)
(* their approval goes on.                                                 *)
LEMMA CountingGrows ==
  ASSUME Counting, NEW t \in AllTasks, ~Recounts(tasks[t]),
         \A m \in Miners : ~Announces(tasks[t], runtime, m),
         \A u \in AllTasks : u # t => tasks'[u] = tasks[u],
         runtime' = runtime, phase' = phase, NEW k \in Miners,
         EnabledIn(records') = EnabledIn(records) \cup {k},
         ~Online(runtime, k), Announces(tasks'[t], runtime, k)
  PROVE  Counting'
<1>1. CASE phase = "starting" \/ \E u \in AllTasks : Recounts(tasks[u])
  BY <1>1 DEF Counting
<1>2. CASE /\ runtime.totals.online = {m \in EnabledIn(records) : Online(runtime, m)}
           /\ runtime.totals.enabled \subseteq EnabledIn(records)
           /\ \A m \in EnabledIn(records) :
                \/ m \in runtime.totals.enabled
                \/ \E u \in AllTasks : Announces(tasks[u], runtime, m)
  <2>1. {m \in EnabledIn(records') : Online(runtime', m)} =
          {m \in EnabledIn(records) : Online(runtime, m)}
    OBVIOUS
  <2>2. ASSUME NEW m \in EnabledIn(records'), m \notin runtime.totals.enabled
        PROVE  \E u \in AllTasks : Announces(tasks'[u], runtime', m)
    <3>1. CASE m = k
      BY <3>1
    <3>2. CASE m # k
      <4>1. m \in EnabledIn(records) /\ m \in Miners
        BY <3>2, EnabledType
      <4>2. PICK u \in AllTasks : Announces(tasks[u], runtime, m)
        BY <1>2, <2>2, <4>1
      <4>3. u # t
        BY <4>1, <4>2
      <4> QED
        BY <4>2, <4>3
    <3> QED
      BY <3>1, <3>2
  <2> QED
    BY <1>2, <2>1, <2>2 DEF Counting
<1> QED
  BY <1>1, <1>2 DEF Counting

LEMMA EnrollAcquiresSettled ==
  ASSUME Core, Settled, NEW t \in AllTasks, EnrollAcquires(t)
  PROVE  Due' \/ Settled'
<1> DEFINE task == tasks[t]
           x == tasks'[t]
           m == task.miner
           enabled == records[m] # NoRecord => records[m].enabled
<1>1. /\ Acquires(t) /\ task.pc = "locking" /\ task.object = 0
      /\ task.kind \in {"enroll", "approve"} /\ Continue(t)
      /\ records' = [records EXCEPT ![m] = [host |-> task.host, enabled |-> enabled]]
      /\ rejected' = rejected \ {m}
      /\ Saving(t, enabled, task.host)
  BY DEF EnrollAcquires, Acquires, Continue
<1>2. /\ TaskOK(runtime, t, task) /\ records \in Records /\ m \in Miners
      /\ task.kind = "approve" => task.asked = m
      /\ Fits(runtime)
  BY <1>1, CoreFacts DEF TaskOK, Locked, Reads
<1> HIDE DEF enabled
<1>3. /\ x.pc = "saving" /\ x.kind = task.kind /\ x.object = 0 /\ x.asked = task.asked
      /\ x.miner = m /\ x.host = task.host /\ x.enabled = enabled /\ runtime' = runtime
  BY <1>1, SavingFields
<1> HIDE DEF x
<1>4. CASE task.kind = "enroll"
  BY <1>3, <1>4 DEF Due, Owes, x
<1>5. CASE task.kind = "approve"
  <2>1. /\ \A k \in Miners : k # m => records'[k] = records[k]
        /\ records'[m] = [host |-> task.host, enabled |-> enabled] /\ records'[m] # NoRecord
    <3>1. enabled \in BOOLEAN
      BY DEF enabled
    <3>2. [host |-> task.host, enabled |-> enabled] \in Record
      BY <1>1, <1>2, <3>1 DEF TaskOK, Locked, Reads, Record
    <3> QED
      BY <1>1, <1>2, <3>2, FleetAssumption DEF Records
  <2>2. /\ \A k \in Miners : k # m => (k \in EnabledIn(records') <=> k \in EnabledIn(records))
        /\ m \in EnabledIn(records') <=> enabled
        /\ m \in EnabledIn(records) => enabled
        /\ records[m] # NoRecord => (enabled => m \in EnabledIn(records))
    <3>1. \A k \in Miners : k # m => (k \in EnabledIn(records') <=> k \in EnabledIn(records))
      BY <2>1 DEF EnabledIn
    <3>2. records'[m].enabled = enabled
      BY <2>1
    <3>3. m \in EnabledIn(records') <=> enabled
      BY <1>2, <2>1, <3>2 DEF EnabledIn
    <3>4. /\ m \in EnabledIn(records) => enabled
          /\ records[m] # NoRecord => (enabled => m \in EnabledIn(records))
      BY <1>2 DEF EnabledIn, enabled
    <3> QED
      BY <3>1, <3>3, <3>4
  <2>3. /\ \A u \in AllTasks : u # t => tasks'[u] = tasks[u]
        /\ phase' = phase /\ queue' = queue
    BY <1>1, LockWasFree
  <2>4. Offers'
    <3>1. ASSUME NEW k \in Miners, runtime'.candidates[k] # NoHost
          PROVE  \/ records'[k] = NoRecord /\ k \notin rejected'
                 \/ \E u \in AllTasks : Decides(tasks'[u], k)
      <4>1. CASE k = m
        <5>1. Decides(x, m)
          BY <1>2, <1>3, <1>5 DEF Decides
        <5> QED
          BY <4>1, <5>1 DEF x
      <4>2. CASE k # m
        BY <1>1, <1>3, <2>1, <3>1, <4>2, LockWasFree
      <4> QED
        BY <4>1, <4>2
    <3> QED
      BY <3>1 DEF Offers
  <2>5. Follows'
    <3>1. ASSUME NEW k \in Miners, Present(k)' PROVE k \in EnabledIn(records')
      <4>1. k \in EnabledIn(records)
        BY <1>1, <1>3, <2>3, <3>1, LockWasFree DEF Present
      <4> QED
        BY <2>2, <4>1
    <3>2. ASSUME NEW k \in Miners, k \in EnabledIn(records'), ~Present(k)'
          PROVE  \E u \in AllTasks : Enables(tasks'[u], k) \/ Removes(tasks'[u], k)
      <4>1. CASE k = m
        <5>1. Enables(x, m)
          BY <1>2, <1>3, <1>5, <2>2, <3>2, <4>1 DEF Enables
        <5> QED
          BY <4>1, <5>1 DEF x
      <4>2. CASE k # m
        <5>1. ~Present(k) /\ k \in EnabledIn(records)
          BY <1>3, <2>2, <2>3, <3>2, <4>2 DEF Present
        <5>2. PICK u \in AllTasks : Removes(tasks[u], k)
          BY <1>1, <5>1, LockWasFree
        <5>3. u # t
          BY <1>5, <5>2 DEF Removes
        <5> QED
          BY <2>3, <5>2, <5>3
      <4> QED
        BY <4>1, <4>2
    <3> QED
      BY <3>1, <3>2 DEF Follows
  <2>6. Counting'
    <3>1. ~Recounts(task) /\ \A k \in Miners : ~Announces(task, runtime, k)
      <4>1. ~Recounts(task)
        BY <1>5 DEF Recounts
      <4>2. \A k \in Miners : ~Announces(task, runtime, k)
        BY <1>1 DEF Announces
      <4> QED
        BY <4>1, <4>2
    <3>2. Counts(runtime, runtime', records')
      BY <1>3 DEF Counts, Hushed
    <3>3. CASE EnabledIn(records') = EnabledIn(records)
      BY <2>3, <3>1, <3>2, <3>3, CountingStays DEF Settled
    <3>4. CASE EnabledIn(records') # EnabledIn(records)
      <4>1. m \notin EnabledIn(records) /\ enabled
        <5>1. ~(m \in EnabledIn(records) <=> m \in EnabledIn(records'))
          BY <2>2, <3>4, EnabledType
        <5> QED
          BY <2>2, <5>1
      <4>2. EnabledIn(records') = EnabledIn(records) \cup {m}
        BY <1>2, <2>2, <4>1, EnabledType
      <4>3. runtime.coordinators[m] = 0
        BY <1>1, <1>2, <4>1, LockWasFree DEF Present
      <4>4. ~Online(runtime, m)
        BY <4>3 DEF Online
      <4>5. Announces(x, runtime, m)
        BY <1>2, <1>3, <1>5, <4>1, <4>3 DEF Announces
      <4> QED
        BY <1>2, <1>3, <2>3, <3>1, <4>2, <4>4, <4>5, CountingGrows DEF Settled, x
    <3> QED
      BY <3>3, <3>4
  <2>7. Heals'
    <3>1. ASSUME NEW c \in 1..Len(runtime'.objects), Current(runtime', c)
          PROVE  \/ records'[runtime'.objects[c].miner].host = runtime'.objects[c].host
                 \/ \E u \in AllTasks : Relinks(tasks'[u], runtime', c)
      <4>1. CASE runtime.objects[c].miner = m
        <5>1. Relinks(x, runtime, c)
          BY <1>3, <1>5, <4>1 DEF Relinks
        <5> QED
          BY <1>3, <5>1 DEF x
      <4>2. CASE runtime.objects[c].miner # m
        <5>1. runtime.objects[c].miner \in Miners
          BY <1>2, <1>3, RuntimeFields DEF Fits, Coordinator
        <5>2. \/ records[runtime.objects[c].miner].host = runtime.objects[c].host
              \/ \E u \in AllTasks : Relinks(tasks[u], runtime, c)
          BY <1>3, <3>1 DEF Settled, Heals
        <5>3. ASSUME NEW u \in AllTasks, Relinks(tasks[u], runtime, c)
              PROVE  Relinks(tasks'[u], runtime, c)
          BY <1>1, <1>3, <2>3, <3>1, <5>3, LockWasFree
        <5> QED
          BY <1>3, <2>1, <4>2, <5>1, <5>2, <5>3
      <4> QED
        BY <4>1, <4>2
    <3> QED
      BY <3>1 DEF Heals
  <2> QED
    BY <2>4, <2>5, <2>6, <2>7 DEF Settled
<1> QED
  BY <1>1, <1>4, <1>5

-----------------------------------------------------------------------------
(* A miner is started: it has a coordinator, a new one when it had none.   *)

Starts(r, n, m) ==
  /\ n.totals = r.totals
  /\ \A d \in 1..Len(r.objects) : n.objects[d] = r.objects[d]
  /\ \A k \in Miners : k # m => n.coordinators[k] = r.coordinators[k]
  /\ n.coordinators[m] # 0
  /\ r.coordinators[m] # 0 =>
       /\ n.coordinators[m] = r.coordinators[m]
       /\ Len(n.objects) = Len(r.objects)
  /\ r.coordinators[m] = 0 =>
       /\ n.coordinators[m] = Len(r.objects) + 1
       /\ Len(n.objects) = Len(r.objects) + 1
       /\ n.objects[Len(r.objects) + 1].polled # n.objects[Len(r.objects) + 1].host
       /\ n.objects[Len(r.objects) + 1].ok
       /\ ~n.objects[Len(r.objects) + 1].heard

LEMMA StartsPiece ==
  ASSUME NEW r, Fits(r), NEW recs, NEW task \in Task, NEW m \in Miners, NEW host \in Hosts
  PROVE  LET both == StartMiner(r, recs, task, m, host)
         IN  /\ Starts(r, both.runtime, m) /\ both.runtime.candidates = r.candidates
             /\ both.task.kind = task.kind /\ both.task.asked = task.asked
             /\ both.task.object = both.runtime.coordinators[m]
             /\ r.coordinators[m] = 0 => both.task.pc = "reading"
             /\ r.coordinators[m] # 0 => both.task.pc = "linking"
<1> DEFINE both == StartMiner(r, recs, task, m, host)
<1>1. r \in Runtime /\ r.coordinators \in [Miners -> Nat] /\ Len(r.objects) \in Nat
  BY RuntimeFields DEF Fits
<1>2. CASE r.coordinators[m] = 0
  <2> DEFINE n == Created(r, m, host)
             c == Len(r.objects) + 1
  <2>1. /\ both.runtime = n
        /\ both.task.pc = "reading" /\ both.task.kind = task.kind
        /\ both.task.asked = task.asked /\ both.task.object = c
    BY <1>2, NewMinerPiece
  <2> HIDE DEF both
  <2>2. /\ Len(n.objects) = c /\ n.coordinators = [r.coordinators EXCEPT ![m] = c]
        /\ n.candidates = r.candidates /\ n.totals = r.totals
    BY <1>2, CreatedPiece
  <2>3. ASSUME NEW d \in 1..Len(r.objects) PROVE n.objects[d] = r.objects[d]
    BY <1>1, CreatedObject
  <2>4. /\ n.objects[c].host = host /\ n.objects[c].polled = NoHost
        /\ n.objects[c].ok /\ ~n.objects[c].heard
    BY <1>1, CreatedObject
  <2>5. /\ n.coordinators[m] = c /\ c # 0
        /\ \A k \in Miners : k # m => n.coordinators[k] = r.coordinators[k]
    BY <1>1, <2>2
  <2>6. n.objects[c].polled # n.objects[c].host
    BY <2>4, FleetAssumption
  <2> HIDE DEF n
  <2>7. Starts(r, n, m)
    BY <1>2, <2>2, <2>3, <2>4, <2>5, <2>6 DEF Starts
  <2> QED
    BY <1>2, <2>1, <2>2, <2>5, <2>7 DEF both
<1>3. CASE r.coordinators[m] # 0
  <2> DEFINE x == [task EXCEPT !.pc = "linking", !.host = host,
                               !.object = r.coordinators[m]]
  <2>1. both.runtime = r /\ both.task = x
    BY <1>3 DEF StartMiner, Both
  <2>2. /\ x.pc = "linking" /\ x.kind = task.kind /\ x.asked = task.asked
        /\ x.object = r.coordinators[m]
    BY DEF Task
  <2> HIDE DEF x
  <2>3. Starts(r, r, m)
    BY <1>3 DEF Starts
  <2> QED
    BY <1>3, <2>1, <2>2, <2>3
<1> QED
  BY <1>2, <1>3

LEMMA FollowsStarted ==
  ASSUME Follows, NEW t \in AllTasks, NEW m \in Miners,
         \A u \in AllTasks : u # t => tasks'[u] = tasks[u],
         records' = records, Starts(runtime, runtime', m),
         \A k \in Miners : k # m => queue'[k] = queue[k],
         m \in EnabledIn(records) \/ Present(m),
         \A k \in Miners : /\ Enables(tasks[t], k) => k = m
                           /\ ~Disables(tasks[t], k) /\ ~Removes(tasks[t], k)
  PROVE  Follows'
<1>1. ASSUME NEW k \in Miners, Present(k)',  k \notin EnabledIn(records)
      PROVE  \E u \in AllTasks : Disables(tasks'[u], k)
  <2>1. Present(k)
    BY <1>1 DEF Present, Starts
  <2>2. PICK u \in AllTasks : Disables(tasks[u], k)
    BY <1>1, <2>1 DEF Follows
  <2> QED
    BY <2>2
<1>2. ASSUME NEW k \in Miners, k \in EnabledIn(records), ~Present(k)'
      PROVE  \E u \in AllTasks : Enables(tasks'[u], k) \/ Removes(tasks'[u], k)
  <2>1. ~Present(k) /\ k # m
    BY <1>2 DEF Present, Starts
  <2>2. PICK u \in AllTasks : Enables(tasks[u], k) \/ Removes(tasks[u], k)
    BY <1>2, <2>1 DEF Follows
  <2> QED
    BY <2>1, <2>2
<1> QED
  BY <1>1, <1>2 DEF Follows

LEMMA CountingStarted ==
  ASSUME Counting, Fits(runtime), NEW t \in AllTasks, NEW m \in Miners,
         \A u \in AllTasks : u # t => tasks'[u] = tasks[u],
         records' = records, phase' = phase, Starts(runtime, runtime', m),
         Recounts(tasks[t]) => Recounts(tasks'[t]),
         \A k \in Miners :
           k # m \/ runtime.coordinators[m] # 0 => ~Announces(tasks[t], runtime, k),
         runtime.coordinators[m] = 0 =>
           \/ phase = "starting" \/ Announces(tasks'[t], runtime', m)
           \/ \E u \in AllTasks : Recounts(tasks'[u])
  PROVE  Counting'
<1>1. CASE phase = "starting" \/ \E u \in AllTasks : Recounts(tasks'[u])
  BY <1>1 DEF Counting
<1>2. CASE phase # "starting" /\ ~\E u \in AllTasks : Recounts(tasks'[u])
  <2>1. ASSUME NEW u \in AllTasks PROVE ~Recounts(tasks[u])
    BY <1>2
  <2>2. /\ runtime.totals.online = {k \in EnabledIn(records) : Online(runtime, k)}
        /\ runtime.totals.enabled \subseteq EnabledIn(records)
        /\ \A k \in EnabledIn(records) :
             \/ k \in runtime.totals.enabled
             \/ \E u \in AllTasks : Announces(tasks[u], runtime, k)
    BY <1>2, <2>1 DEF Counting
  <2>3. runtime.coordinators[m] = 0 => Announces(tasks'[t], runtime', m)
    BY <1>2
  <2>4. ASSUME NEW k \in Miners, k # m \/ runtime.coordinators[m] # 0
        PROVE  /\ Online(runtime', k) <=> Online(runtime, k)
               /\ \A task : Announces(task, runtime, k) => Announces(task, runtime', k)
    <3>1. runtime'.coordinators[k] = runtime.coordinators[k]
      BY <2>4 DEF Starts
    <3>2. runtime.coordinators[k] # 0 =>
            runtime'.objects[runtime.coordinators[k]] = runtime.objects[runtime.coordinators[k]]
      BY DEF Starts, Fits, Listing
    <3> QED
      BY <3>1, <3>2 DEF Online, Announces
  <2>5. ASSUME runtime.coordinators[m] = 0
        PROVE  ~Online(runtime', m) /\ ~Online(runtime, m)
    BY <2>5 DEF Online, Starts
  <2>6. \A k \in Miners : Online(runtime', k) <=> Online(runtime, k)
    BY <2>4, <2>5
  <2>7. {k \in EnabledIn(records) : Online(runtime', k)} =
          {k \in EnabledIn(records) : Online(runtime, k)}
    BY <2>6, EnabledType
  <2>8. ASSUME NEW k \in EnabledIn(records), k \notin runtime.totals.enabled
        PROVE  \E u \in AllTasks : Announces(tasks'[u], runtime', k)
    <3>1. k \in Miners
      BY EnabledType
    <3>2. CASE k = m /\ runtime.coordinators[m] = 0
      BY <2>3, <3>2
    <3>3. CASE k # m \/ runtime.coordinators[m] # 0
      <4>1. PICK u \in AllTasks : Announces(tasks[u], runtime, k)
        BY <2>2, <2>8
      <4>2. u # t
        BY <3>1, <3>3, <4>1
      <4>3. Announces(tasks'[u], runtime', k)
        BY <2>4, <3>1, <3>3, <4>1, <4>2
      <4> QED
        BY <4>3
    <3> QED
      BY <3>2, <3>3
  <2>9. runtime'.totals = runtime.totals
    BY DEF Starts
  <2> QED
    BY <2>2, <2>7, <2>8, <2>9 DEF Counting
<1> QED
  BY <1>1, <1>2

LEMMA HealsStarted ==
  ASSUME Heals, Fits(runtime), NEW t \in AllTasks, NEW m \in Miners,
         \A u \in AllTasks : u # t => tasks'[u] = tasks[u],
         records' = records, Starts(runtime, runtime', m),
         tasks'[t].object = runtime'.coordinators[m],
         runtime.coordinators[m] # 0 => tasks'[t].pc = "linking",
         \A c \in 1..Len(runtime.objects) :
           Relinks(tasks[t], runtime, c) => runtime.objects[c].miner = m
  PROVE  Heals'
<1> SUFFICES ASSUME NEW c \in 1..Len(runtime'.objects), Current(runtime', c)
             PROVE  \/ records[runtime'.objects[c].miner].host = runtime'.objects[c].host
                    \/ \E u \in AllTasks : Relinks(tasks'[u], runtime', c)
  BY DEF Heals
<1>1. Len(runtime.objects) \in Nat
  BY RuntimeFields DEF Fits
<1>2. c \in 1..Len(runtime.objects)
  BY <1>1 DEF Starts, Current
<1>3. runtime'.objects[c] = runtime.objects[c] /\ 1..Len(runtime.objects) \subseteq 1..Len(runtime'.objects)
  BY <1>1, <1>2 DEF Starts
<1>4. Current(runtime, c)
  BY <1>3 DEF Current, Starts
<1>5. CASE records[runtime.objects[c].miner].host = runtime.objects[c].host
  BY <1>3, <1>5
<1>6. CASE \E u \in AllTasks : Relinks(tasks[u], runtime, c)
  <2>1. PICK u \in AllTasks : Relinks(tasks[u], runtime, c)
    BY <1>6
  <2>2. CASE u # t
    BY <1>3, <2>1, <2>2 DEF Relinks
  <2>3. CASE u = t
    <3>1. runtime.objects[c].miner = m
      BY <1>2, <2>1, <2>3
    <3>2. runtime.coordinators[m] = c /\ c # 0
      BY <1>2, <1>4, <3>1 DEF Current, Fits, Listing
    <3>3. Relinks(tasks'[t], runtime', c)
      BY <3>2 DEF Relinks, Starts
    <3> QED
      BY <3>3
  <2> QED
    BY <2>2, <2>3
<1> QED
  BY <1>2, <1>4, <1>5, <1>6 DEF Heals

LEMMA StartedSettled ==
  ASSUME Settled, Fits(runtime), NEW t \in AllTasks, NEW m \in Miners,
         \A u \in AllTasks : u # t => tasks'[u] = tasks[u],
         records' = records, rejected' = rejected, phase' = phase,
         Starts(runtime, runtime', m),
         \A k \in Miners : k # m => queue'[k] = queue[k],
         m \in EnabledIn(records) \/ Present(m),
         tasks'[t].object = runtime'.coordinators[m],
         runtime.coordinators[m] # 0 => tasks'[t].pc = "linking",
         \A k \in Miners :
           /\ runtime'.candidates[k] # NoHost =>
                runtime.candidates[k] # NoHost /\ ~Decides(tasks[t], k)
           /\ Enables(tasks[t], k) => k = m
           /\ ~Disables(tasks[t], k) /\ ~Removes(tasks[t], k)
           /\ k # m \/ runtime.coordinators[m] # 0 => ~Announces(tasks[t], runtime, k),
         Recounts(tasks[t]) => Recounts(tasks'[t]),
         runtime.coordinators[m] = 0 =>
           \/ phase = "starting" \/ Announces(tasks'[t], runtime', m)
           \/ \E u \in AllTasks : Recounts(tasks'[u]),
         \A c \in 1..Len(runtime.objects) :
           Relinks(tasks[t], runtime, c) => runtime.objects[c].miner = m
  PROVE  Settled'
<1>1. Offers'
  BY OffersStay DEF Settled
<1>2. Follows'
  BY FollowsStarted DEF Settled
<1>3. Counting'
  BY CountingStarted DEF Settled
<1>4. Heals'
  BY HealsStarted DEF Settled
<1> QED
  BY <1>1, <1>2, <1>3, <1>4 DEF Settled

(* A coordinator was polled.                                               *)
LEMMA HealsPolled ==
  ASSUME Heals, NEW t \in AllTasks, NEW c, Alike(runtime, runtime'),
         \A u \in AllTasks : u # t => tasks'[u] = tasks[u],
         records' = records,
         \A d \in 1..Len(runtime.objects) : d # c =>
           /\ runtime'.objects[d].polled = runtime.objects[d].polled
           /\ ~Relinks(tasks[t], runtime, d),
         c \in 1..Len(runtime.objects) /\ Current(runtime', c) =>
           records[runtime.objects[c].miner].host = runtime.objects[c].host
  PROVE  Heals'
<1> SUFFICES ASSUME NEW d \in 1..Len(runtime'.objects), Current(runtime', d)
             PROVE  \/ records[runtime'.objects[d].miner].host = runtime'.objects[d].host
                    \/ \E u \in AllTasks : Relinks(tasks'[u], runtime', d)
  BY DEF Heals
<1>1. /\ Len(runtime'.objects) = Len(runtime.objects) /\ d \in 1..Len(runtime.objects)
      /\ \A k \in 1..Len(runtime.objects) :
           /\ runtime'.objects[k].miner = runtime.objects[k].miner
           /\ runtime'.objects[k].host = runtime.objects[k].host
           /\ runtime'.objects[k].shut = runtime.objects[k].shut
  BY DEF Alike
<1>2. CASE d = c
  BY <1>1, <1>2
<1>3. CASE d # c
  <2>1. Current(runtime, d)
    BY <1>1, <1>3 DEF Current
  <2>2. CASE records[runtime.objects[d].miner].host = runtime.objects[d].host
    BY <1>1, <2>2
  <2>3. CASE \E u \in AllTasks : Relinks(tasks[u], runtime, d)
    <3>1. PICK u \in AllTasks : Relinks(tasks[u], runtime, d)
      BY <2>3
    <3>2. tasks'[u] = tasks[u]
      BY <1>1, <1>3, <3>1
    <3>3. Relinks(tasks'[u], runtime', d)
      BY <1>1, <3>1, <3>2 DEF Relinks
    <3> QED
      BY <3>3
  <2> QED
    BY <1>1, <2>1, <2>2, <2>3 DEF Heals
<1> QED
  BY <1>2, <1>3

(* A refresh that went well.                                               *)
LEMMA RefreshedSettled ==
  ASSUME Core, Settled, NEW t \in AllTasks, tasks[t].pc \in {"locking", "saving"},
         tasks[t].object # 0, tasks[t].kind # "enroll",
         \A u \in AllTasks : u # t => tasks'[u] = tasks[u],
         records' = records, rejected' = rejected, phase' = phase, queue' = queue,
         NEW x \in Task, x.object = tasks[t].object, x.host = tasks[t].host,
         x.kind = tasks[t].kind, Becomes(t, Refreshed(runtime, records, x)),
         Current(runtime', tasks[t].object) =>
           records[tasks[t].miner].host = tasks[t].host
  PROVE  Settled'
<1> DEFINE task == tasks[t]
           c == task.object
<1>1. /\ Fits(runtime) /\ TaskOK(runtime, t, task) /\ c \in 1..Len(runtime.objects)
      /\ task.host \in Hosts /\ task.miner = runtime.objects[c].miner /\ task.miner \in Miners
      /\ runtime \in Runtime
  <2>1. Fits(runtime) /\ TaskOK(runtime, t, task) /\ runtime \in Runtime
    BY CoreFacts
  <2>2. c \in 1..Len(runtime.objects)
    BY Waiting
  <2> QED
    BY <2>1, <2>2 DEF TaskOK, Locked, Reads
<1>2. runtime' = Refreshed(runtime, records, x).runtime
  BY DEF Becomes
<1>3. /\ runtime' \in Runtime /\ Same(runtime, runtime')
      /\ Counts(runtime, runtime', records)
      /\ runtime'.objects[c].polled = task.host
      /\ \A d \in 1..Len(runtime.objects) : d # c =>
           runtime'.objects[d].polled = runtime.objects[d].polled
      /\ runtime.coordinators[runtime.objects[c].miner] = c => Tallied(runtime', records)
      /\ task.kind = "switch" => Tallied(runtime', records)
  BY <1>1, <1>2, RefreshedPiece
<1>4. /\ runtime'.coordinators = runtime.coordinators
      /\ runtime'.candidates = runtime.candidates /\ Alike(runtime, runtime')
  BY <1>3 DEF Same, Alike
<1>5. /\ \A m : /\ ~Decides(task, m) /\ ~Enables(task, m) /\ ~Disables(task, m)
                /\ ~Removes(task, m)
      /\ Recounts(task) => task.kind = "switch"
  BY <1>1 DEF Decides, Enables, Disables, Removes, Recounts, TaskOK
<1>6. ASSUME NEW m \in Miners, Announces(task, runtime, m) PROVE Tallied(runtime', records)
  <2>1. runtime.coordinators[m] = c
    BY <1>6 DEF Announces
  <2>2. runtime.objects[c].miner = m
    BY <1>1, <2>1 DEF Fits, Listing
  <2> QED
    BY <1>3, <2>1, <2>2
<1>7. Offers'
  BY <1>4, <1>5, OffersStay DEF Settled
<1>8. Follows'
  BY <1>4, <1>5, FollowsStay DEF Settled
<1>9. Counting'
  BY <1>3, <1>5, <1>6, CountingStays DEF Settled
<1>10. Heals'
  <2>1. ASSUME NEW d \in 1..Len(runtime.objects), d # c PROVE ~Relinks(task, runtime, d)
    BY <2>1 DEF Relinks
  <2>2. ASSUME Current(runtime', c)
        PROVE  records[runtime.objects[c].miner].host = runtime.objects[c].host
    <3>1. runtime.objects[c].host = task.host
      BY <1>1, <1>3, <1>4, <2>2 DEF Current, Alike
    <3> QED
      BY <1>1, <2>2, <3>1
  <2> QED
    BY <1>3, <1>4, <2>1, <2>2, HealsPolled DEF Settled
<1> QED
  BY <1>7, <1>8, <1>9, <1>10 DEF Settled

(* A probe found a miner that is enrolled.                                 *)
LEMMA KnownSettled ==
  ASSUME Core, Settled, NEW t \in AllTasks, tasks[t].pc \in {"locking", "saving"},
         tasks[t].object = 0, tasks[t].kind = "probe",
         \A u \in AllTasks : u # t => tasks[u].pc # "saving",
         \A u \in AllTasks : u # t => tasks'[u] = tasks[u],
         records' = records, rejected' = rejected, phase' = phase, queue' = queue,
         NEW x \in Task, x.kind = "probe", x.miner = tasks[t].miner, x.host = tasks[t].host,
         Becomes(t, Known(runtime, records, x)),
         x.enabled => tasks[t].miner \in EnabledIn(records),
         ~x.enabled /\ tasks[t].pc = "saving" => tasks[t].miner \notin EnabledIn(records)
  PROVE  Settled'
<1> DEFINE task == tasks[t]
           m == task.miner
<1>1. /\ Fits(runtime) /\ task.host \in Hosts /\ m \in Miners /\ runtime \in Runtime
      /\ tasks \in [AllTasks -> Task]
  BY CoreFacts DEF TaskOK, Locked, Reads, Core, TypeOK
<1>2. queue[m] = NoRecord
  BY <1>1 DEF Core, PhaseInv
<1>3. /\ \A k : /\ ~Decides(task, k) /\ ~Enables(task, k) /\ ~Disables(task, k)
                /\ ~Removes(task, k)
      /\ ~Recounts(task)
  BY DEF Decides, Enables, Disables, Removes, Recounts
<1>4. \A k : ~Announces(task, runtime, k)
  BY DEF Announces
<1>5. \A c \in 1..Len(runtime.objects) :
        Relinks(task, runtime, c) => runtime.objects[c].miner = m /\ task.pc = "saving"
  BY DEF Relinks
<1>6. \A u \in AllTasks, k \in Miners : ~Enables(tasks[u], k) /\ ~Disables(tasks[u], k)
  BY <1>3 DEF Enables, Disables
<1>7. CASE x.enabled
  <2> DEFINE both == StartMiner(runtime, records, x, m, task.host)
  <2>1. runtime' = both.runtime /\ tasks'[t] = both.task
    BY <1>1, <1>7 DEF Becomes, Known
  <2>2. /\ Starts(runtime, both.runtime, m) /\ both.runtime.candidates = runtime.candidates
        /\ both.task.object = both.runtime.coordinators[m]
        /\ runtime.coordinators[m] # 0 => both.task.pc = "linking"
    BY <1>1, StartsPiece
  <2> HIDE DEF both
  <2>3. ASSUME runtime.coordinators[m] = 0 PROVE \E u \in AllTasks : Recounts(tasks'[u])
    <3>1. ~Present(m) /\ m \in EnabledIn(records)
      BY <1>2, <1>7, <2>3 DEF Present
    <3>2. PICK u \in AllTasks : Removes(tasks[u], m)
      BY <1>1, <1>6, <3>1 DEF Settled, Follows
    <3>3. u # t
      BY <1>3, <3>2
    <3> QED
      BY <3>2, <3>3 DEF Removes, Recounts
  <2> QED
    BY <1>1, <1>3, <1>4, <1>5, <1>7, <2>1, <2>2, <2>3, StartedSettled
<1>8. CASE ~x.enabled
  <2>1. runtime' = runtime
    BY <1>8 DEF Becomes, Known, Both
  <2>2. ASSUME NEW c \in 1..Len(runtime.objects), Current(runtime, c) PROVE ~Relinks(task, runtime, c)
    <3>1. CASE runtime.objects[c].miner # m \/ task.pc # "saving"
      BY <1>5, <3>1
    <3>2. CASE runtime.objects[c].miner = m /\ task.pc = "saving"
      <4>1. Present(m)
        BY <1>1, <2>2, <3>2 DEF Current, Fits, Listing, Present
      <4>2. m \in EnabledIn(records)
        BY <1>1, <1>6, <4>1 DEF Settled, Follows
      <4> QED
        BY <1>8, <3>2, <4>2
    <3> QED
      BY <3>1, <3>2
  <2>3. Offers' /\ Follows'
    BY <1>3, <2>1, OffersStay, FollowsStay DEF Settled
  <2>4. Counting'
    BY <1>3, <1>4, <2>1, CountingStays DEF Settled, Counts, Hushed
  <2>5. Heals'
    BY <1>1, <2>1, <2>2, HealsStay DEF Settled, Alike
  <2> QED
    BY <2>3, <2>4, <2>5 DEF Settled
<1> QED
  BY <1>7, <1>8

LEMMA UpdateAcquiresSettled ==
  ASSUME Core, Settled, ~Due, NEW t \in AllTasks, UpdateAcquires(t)
  PROVE  Settled'
<1> DEFINE task == tasks[t]
           m == task.miner
<1>1. /\ Acquires(t) /\ task.pc = "locking" /\ Continue(t)
      /\ task.object # 0 \/ task.kind = "probe"
      /\ rejected' = rejected
      /\ \A u \in AllTasks : tasks[u].pc # "saving"
  BY DEF UpdateAcquires, Acquires, Continue
<1>2. /\ task.host \in Hosts /\ m \in Miners /\ task \in Task /\ TaskOK(runtime, t, task)
      /\ records \in Records /\ Fits(runtime) /\ runtime \in Runtime
  BY <1>1, CoreFacts DEF Reads, TaskOK, Locked
<1>3. /\ \A u \in AllTasks : u # t => tasks'[u] = tasks[u]
      /\ phase' = phase /\ queue' = queue
  BY <1>1, LockWasFree
<1>4. task.object # 0 => task.kind # "enroll"
  BY DEF Due, Owes
<1>5. ASSUME NEW e \in BOOLEAN, records' = records, e => m \in EnabledIn(records),
             Becomes(t, AfterUpdate(runtime, records, [task EXCEPT !.enabled = e])),
             records[m] # NoRecord => records[m].host = task.host
      PROVE  Settled'
  <2> DEFINE x == [task EXCEPT !.enabled = e]
  <2>1. /\ x \in Task /\ x.kind = task.kind /\ x.object = task.object /\ x.host = task.host
        /\ x.miner = m /\ x.enabled = e
    BY <1>2 DEF Task
  <2>2. Becomes(t, AfterUpdate(runtime, records, x))
    BY <1>5
  <2> HIDE DEF x
  <2>3. CASE task.object # 0
    <3> DEFINE c == task.object
    <3>1. Becomes(t, Refreshed(runtime, records, x))
      BY <2>1, <2>2, <2>3 DEF AfterUpdate
    <3>2. ASSUME Current(runtime', c) PROVE records[m] # NoRecord
      <4>1. c \in 1..Len(runtime.objects) /\ runtime.objects[c].miner = m
        BY <1>1, <1>2, <2>3, Waiting DEF TaskOK, Locked
      <4>2. runtime' = Refreshed(runtime, records, x).runtime
        BY <3>1 DEF Becomes
      <4>3. Same(runtime, runtime')
        BY <1>2, <2>1, <4>1, <4>2, RefreshedPiece
      <4>4. ~runtime.objects[c].shut
        BY <3>2, <4>1, <4>3 DEF Current, Same
      <4>5. Present(m)
        BY <1>2, <4>1, <4>4 DEF Fits, Listing, Present
      <4>6. m \in EnabledIn(records)
        BY <1>1, <1>2, <4>5, LockWasFree
      <4> QED
        BY <4>6 DEF EnabledIn
    <3> QED
      BY <1>1, <1>3, <1>4, <1>5, <2>1, <2>3, <3>1, <3>2, RefreshedSettled
  <2>4. CASE task.object = 0
    <3>1. Becomes(t, Known(runtime, records, x))
      BY <2>1, <2>2, <2>4 DEF AfterUpdate
    <3> QED
      BY <1>1, <1>3, <1>5, <2>1, <2>4, <3>1, KnownSettled
  <2> QED
    BY <2>3, <2>4
<1>6. CASE records[m] = NoRecord
  <2>1. records' = records /\ Becomes(t, AfterUpdate(runtime, records, [task EXCEPT !.enabled = FALSE]))
    BY <1>6 DEF UpdateAcquires
  <2> QED
    BY <1>5, <1>6, <2>1
<1>7. CASE records[m] # NoRecord
  <2>1. records[m] \in Record /\ records[m].enabled \in BOOLEAN
    BY <1>2, <1>7 DEF Records, Record
  <2>2. CASE records[m].host = task.host
    <3>1. records' = records
          /\ Becomes(t, AfterUpdate(runtime, records, [task EXCEPT !.enabled = records[m].enabled]))
      BY <1>7, <2>2 DEF UpdateAcquires
    <3>2. records[m].enabled => m \in EnabledIn(records)
      BY <1>2, <1>7 DEF EnabledIn
    <3> QED
      BY <1>5, <2>1, <2>2, <3>1, <3>2
  <2>3. CASE records[m].host # task.host
    <3> DEFINE x == tasks'[t]
    <3>1. /\ Saving(t, records[m].enabled, task.host)
          /\ records' = [records EXCEPT ![m].host = task.host]
      BY <1>7, <2>3 DEF UpdateAcquires
    <3>2. /\ x.pc = "saving" /\ x.kind = task.kind /\ x.object = task.object
          /\ x.asked = task.asked /\ x.miner = m /\ x.host = task.host
          /\ runtime' = runtime
      BY <3>1, SavingFields
    <3> HIDE DEF x
    <3>3. /\ \A k \in Miners : k # m => records'[k] = records[k]
          /\ records'[m].host = task.host
          /\ EnabledIn(records') = EnabledIn(records)
          /\ \A k \in Miners : records'[k] = NoRecord <=> records[k] = NoRecord
      <4>1. records' = [records EXCEPT ![m] = [records[m] EXCEPT !.host = task.host]]
        BY <3>1
      <4> DEFINE new == [records[m] EXCEPT !.host = task.host]
      <4>2. new \in Record /\ new.host = task.host /\ new.enabled = records[m].enabled
        BY <1>2, <2>1 DEF Record
      <4> HIDE DEF new
      <4>3. /\ \A k \in Miners : k # m => records'[k] = records[k]
            /\ records'[m] = new /\ new # NoRecord
        BY <1>2, <4>1, <4>2, FleetAssumption DEF Records, new
      <4>4. EnabledIn(records') = EnabledIn(records)
        BY <1>7, <4>2, <4>3 DEF EnabledIn
      <4> QED
        BY <1>7, <4>2, <4>3, <4>4
    <3>4. /\ \A k : /\ ~Decides(task, k) /\ ~Enables(task, k) /\ ~Disables(task, k)
                    /\ ~Removes(task, k)
          /\ Recounts(task) => Recounts(x)
      BY <1>1, <1>2, <3>2 DEF Decides, Enables, Disables, Removes, Recounts, TaskOK
    <3>5. \A k : Announces(task, runtime, k) => Announces(x, runtime, k)
      BY <1>1, <3>2 DEF Announces
    <3>6. Offers'
      BY <1>1, <3>2, <3>3, LockWasFree DEF Offers
    <3>7. Follows'
      BY <1>3, <3>2, <3>3, <3>4, FollowsStay DEF Settled
    <3>8. Counting'
      BY <1>3, <3>2, <3>3, <3>4, <3>5, CountingStays DEF Settled, Counts, Hushed, x
    <3>9. Heals'
      <4>1. ASSUME NEW c \in 1..Len(runtime'.objects), Current(runtime', c)
            PROVE  \/ records'[runtime'.objects[c].miner].host = runtime'.objects[c].host
                   \/ \E u \in AllTasks : Relinks(tasks'[u], runtime', c)
        <5>1. CASE runtime.objects[c].miner = m
          <6>1. CASE task.object = 0
            <7>1. Relinks(x, runtime, c)
              BY <1>1, <3>2, <5>1, <6>1 DEF Relinks
            <7> QED
              BY <3>2, <7>1 DEF x
          <6>2. CASE task.object # 0
            <7>1. task.object \in 1..Len(runtime.objects) /\ runtime.objects[task.object].miner = m
              BY <1>1, <1>2, <6>2, Waiting DEF TaskOK, Locked
            <7>2. task.object = c
              BY <3>2, <4>1, <5>1, <7>1 DEF Current
            <7>3. task.host # runtime.objects[c].host => Relinks(x, runtime, c)
              BY <3>2, <7>2 DEF Relinks
            <7> QED
              BY <3>2, <3>3, <5>1, <7>3 DEF x
          <6> QED
            BY <6>1, <6>2
        <5>2. CASE runtime.objects[c].miner # m
          <6>1. runtime.objects[c].miner \in Miners
            BY <1>2, <3>2, RuntimeFields DEF Coordinator
          <6>2. \/ records[runtime.objects[c].miner].host = runtime.objects[c].host
                \/ \E u \in AllTasks : Relinks(tasks[u], runtime, c)
            BY <3>2, <4>1 DEF Settled, Heals
          <6>3. ASSUME NEW u \in AllTasks, Relinks(tasks[u], runtime, c)
                PROVE  Relinks(tasks'[u], runtime, c)
            BY <1>1, <1>3, <3>2, <4>1, <6>3, LockWasFree
          <6> QED
            BY <3>2, <3>3, <5>2, <6>1, <6>2, <6>3
        <5> QED
          BY <5>1, <5>2
      <4> QED
        BY <4>1 DEF Heals
    <3> QED
      BY <3>6, <3>7, <3>8, <3>9 DEF Settled
  <2> QED
    BY <2>2, <2>3
<1> QED
  BY <1>6, <1>7

LEMMA RejectAcquiresSettled ==
  ASSUME Core, Settled, NEW t \in AllTasks, RejectAcquires(t)
  PROVE  Settled'
<1> DEFINE task == tasks[t]
           x == tasks'[t]
           m == task.asked
<1>1. /\ Acquires(t) /\ task.pc = "locking" /\ task.kind = "reject" /\ Continue(t)
      /\ rejected' = rejected \cup {m} /\ records' = records
      /\ Saving(t, FALSE, NoHost)
  BY DEF RejectAcquires, Acquires, Continue
<1>2. TaskOK(runtime, t, task) /\ runtime \in Runtime /\ task.object = 0
  BY <1>1, CoreFacts DEF TaskOK
<1>3. /\ x.pc = "saving" /\ x.kind = "reject" /\ x.object = 0 /\ x.asked = m
      /\ runtime' = runtime
  BY <1>1, <1>2, SavingFields
<1> HIDE DEF x
<1>4. /\ \A u \in AllTasks : u # t => tasks'[u] = tasks[u]
      /\ phase' = phase /\ queue' = queue
  BY <1>1, LockWasFree
<1>5. Unmarked(task)
  BY <1>1, <1>2 DEF Unmarked
<1>6. Offers'
  <2>1. ASSUME NEW k \in Miners, runtime'.candidates[k] # NoHost
        PROVE  \/ records'[k] = NoRecord /\ k \notin rejected'
               \/ \E u \in AllTasks : Decides(tasks'[u], k)
    <3>1. CASE k = m
      <4>1. Decides(x, m)
        BY <1>3 DEF Decides
      <4> QED
        BY <3>1, <4>1 DEF x
    <3>2. CASE k # m
      BY <1>1, <1>3, <2>1, <3>2, LockWasFree
    <3> QED
      BY <3>1, <3>2
  <2> QED
    BY <2>1 DEF Offers
<1>7. Follows'
  BY <1>1, <1>3, <1>4, <1>5, UnmarkedTask, FollowsStay DEF Settled
<1>8. Counting'
  BY <1>1, <1>3, <1>4, <1>5, UnmarkedTask, CountingStays DEF Settled, Counts, Hushed
<1>9. Heals'
  BY <1>1, <1>2, <1>3, <1>4, <1>5, UnmarkedTask, HealsStay DEF Settled, Alike
<1> QED
  BY <1>6, <1>7, <1>8, <1>9 DEF Settled

(* Removing what is not enrolled counts the totals; a removal that is      *)
(* saved owes the reload.                                                  *)
LEMMA RemoveAcquiresSettled ==
  ASSUME Core, Settled, NEW t \in AllTasks, RemoveAcquires(t)
  PROVE  Due' \/ Settled'
<1> DEFINE task == tasks[t]
           m == task.asked
<1>1. /\ Acquires(t) /\ task.pc = "locking" /\ task.kind = "remove" /\ Continue(t)
      /\ rejected' = rejected
  BY DEF RemoveAcquires, Acquires, Continue
<1>2. /\ TaskOK(runtime, t, task) /\ runtime \in Runtime /\ tasks \in [AllTasks -> Task]
      /\ task.object = 0
  BY <1>1, CoreFacts DEF TaskOK, Core, TypeOK
<1>3. /\ \A u \in AllTasks : u # t => tasks'[u] = tasks[u]
      /\ phase' = phase /\ queue' = queue
  BY <1>1, LockWasFree
<1>4. CASE records[m] = NoRecord
  <2>1. runtime' = Counted(runtime, records) /\ records' = records
    BY <1>4 DEF RemoveAcquires, Becomes, Both
  <2>2. Tallied(runtime', records) /\ Same(runtime, runtime') /\ runtime' \in Runtime
        /\ runtime'.objects = runtime.objects
    BY <1>2, <2>1, CountedPiece, CountedTally
  <2>3. Calm(runtime, runtime', records)
    BY <1>2, <2>2 DEF Calm, Counts
  <2>4. /\ \A k : ~Decides(task, k) /\ ~Enables(task, k) /\ ~Disables(task, k)
        /\ \A k : Removes(task, k) => k \notin EnabledIn(records)
        /\ \A c \in 1..Len(runtime.objects) : ~Relinks(task, runtime, c)
    BY <1>1, <1>4 DEF Decides, Enables, Disables, Removes, Relinks, EnabledIn
  <2> QED
    BY <1>1, <1>3, <2>1, <2>2, <2>3, <2>4, StillSettled
<1>5. CASE records[m] # NoRecord
  <2>1. Saving(t, FALSE, NoHost)
    BY <1>5 DEF RemoveAcquires
  <2>2. tasks'[t].pc = "saving" /\ tasks'[t].kind = "remove"
    BY <1>1, <2>1, SavingFields
  <2> QED
    BY <2>2 DEF Due, Owes
<1> QED
  BY <1>4, <1>5

LEMMA SwitchAcquiresSettled ==
  ASSUME Core, Settled, NEW t \in AllTasks, SwitchAcquires(t)
  PROVE  Settled'
<1> DEFINE task == tasks[t]
           x == tasks'[t]
           m == task.asked
<1>1. /\ Acquires(t) /\ task.pc = "locking" /\ task.kind = "switch" /\ task.object = 0
      /\ rejected' = rejected /\ Continue(t)
  BY DEF SwitchAcquires, Acquires, Continue
<1>2. /\ TaskOK(runtime, t, task) /\ runtime \in Runtime /\ m \in Miners
      /\ records \in Records /\ task.enabled \in BOOLEAN
  BY <1>1, CoreFacts DEF TaskOK, Task
<1>3. /\ \A u \in AllTasks : u # t => tasks'[u] = tasks[u]
      /\ phase' = phase /\ queue' = queue
  BY <1>1, LockWasFree
<1>4. Unmarked(task)
  BY <1>1 DEF Unmarked
<1>5. CASE records[m] = NoRecord
  <2>1. runtime' = runtime /\ records' = records
    BY <1>5 DEF SwitchAcquires, Becomes, Both
  <2> QED
    BY <1>1, <1>2, <1>3, <1>4, <2>1, CalmSelf, UnmarkedSettled
<1>6. CASE records[m] # NoRecord
  <2>1. /\ Saving(t, task.enabled, records[m].host)
        /\ records' = [records EXCEPT ![m].enabled = task.enabled]
    BY <1>6 DEF SwitchAcquires
  <2>2. /\ x.pc = "saving" /\ x.kind = "switch" /\ x.object = 0 /\ x.asked = m
        /\ x.enabled = task.enabled /\ runtime' = runtime
    BY <1>1, <2>1, SavingFields
  <2> HIDE DEF x
  <2>3. /\ \A k \in Miners : k # m => records'[k] = records[k]
        /\ records'[m].host = records[m].host /\ records'[m] # NoRecord
        /\ m \in EnabledIn(records') <=> task.enabled
        /\ \A k \in Miners : k # m => (k \in EnabledIn(records') <=> k \in EnabledIn(records))
    <3> DEFINE new == [records[m] EXCEPT !.enabled = task.enabled]
    <3>1. records' = [records EXCEPT ![m] = new]
      BY <2>1
    <3>2. records[m] \in Record
      BY <1>2, <1>6 DEF Records
    <3>3. new \in Record /\ new.host = records[m].host /\ new.enabled = task.enabled
      BY <1>2, <3>2 DEF Record
    <3> HIDE DEF new
    <3>4. /\ \A k \in Miners : k # m => records'[k] = records[k]
          /\ records'[m] = new /\ new # NoRecord
      BY <1>2, <3>1, <3>3, FleetAssumption DEF Records
    <3>5. m \in EnabledIn(records') <=> task.enabled
      BY <1>2, <3>3, <3>4 DEF EnabledIn
    <3>6. \A k \in Miners : k # m => (k \in EnabledIn(records') <=> k \in EnabledIn(records))
      BY <3>4 DEF EnabledIn
    <3> QED
      BY <3>3, <3>4, <3>5, <3>6
  <2>4. Offers'
    BY <1>1, <1>6, <2>2, <2>3, LockWasFree DEF Offers
  <2>5. Follows'
    <3>1. ASSUME NEW k \in Miners, Present(k)', k \notin EnabledIn(records')
          PROVE  \E u \in AllTasks : Disables(tasks'[u], k)
      <4>1. k \in EnabledIn(records)
        BY <1>1, <1>3, <2>2, <3>1, LockWasFree DEF Present
      <4>2. k = m /\ ~task.enabled
        BY <2>3, <3>1, <4>1
      <4>3. Disables(x, k)
        BY <2>2, <4>2 DEF Disables
      <4> QED
        BY <4>3 DEF x
    <3>2. ASSUME NEW k \in Miners, k \in EnabledIn(records'), ~Present(k)'
          PROVE  \E u \in AllTasks : Enables(tasks'[u], k) \/ Removes(tasks'[u], k)
      <4>1. CASE k = m
        <5>1. Enables(x, m)
          BY <2>2, <2>3, <3>2, <4>1 DEF Enables
        <5> QED
          BY <4>1, <5>1 DEF x
      <4>2. CASE k # m
        <5>1. ~Present(k) /\ k \in EnabledIn(records)
          BY <1>3, <2>2, <2>3, <3>2, <4>2 DEF Present
        <5>2. PICK u \in AllTasks : Removes(tasks[u], k)
          BY <1>1, <5>1, LockWasFree
        <5>3. u # t
          BY <1>1, <5>2 DEF Removes
        <5> QED
          BY <1>3, <5>2, <5>3
      <4> QED
        BY <4>1, <4>2
    <3> QED
      BY <3>1, <3>2 DEF Follows
  <2>6. Counting'
    <3>1. Recounts(x)
      BY <2>2 DEF Recounts
    <3> QED
      BY <3>1 DEF Counting, x
  <2>7. Heals'
    <3>1. ASSUME NEW c \in 1..Len(runtime'.objects), Current(runtime', c)
          PROVE  \/ records'[runtime'.objects[c].miner].host = runtime'.objects[c].host
                 \/ \E u \in AllTasks : Relinks(tasks'[u], runtime', c)
      <4>1. runtime.objects[c].miner \in Miners
        BY <1>2, <2>2, RuntimeFields DEF Coordinator
      <4>2. \/ records[runtime.objects[c].miner].host = runtime.objects[c].host
            \/ \E u \in AllTasks : Relinks(tasks[u], runtime, c)
        BY <2>2, <3>1 DEF Settled, Heals
      <4>3. ASSUME NEW u \in AllTasks, Relinks(tasks[u], runtime, c)
            PROVE  Relinks(tasks'[u], runtime, c)
        BY <1>3, <1>4, <4>3, UnmarkedTask
      <4>4. records'[runtime.objects[c].miner].host = records[runtime.objects[c].miner].host
        BY <2>3, <4>1
      <4> QED
        BY <2>2, <4>2, <4>3, <4>4
    <3> QED
      BY <3>1 DEF Heals
  <2> QED
    BY <2>4, <2>5, <2>6, <2>7 DEF Settled
<1> QED
  BY <1>5, <1>6

(* A miner is stopped: the coordinator it had does not count any more.     *)
LEMMA HealsStopped ==
  ASSUME Heals, Fits(runtime), NEW t \in AllTasks, NEW m \in Miners,
         \A u \in AllTasks : u # t => tasks'[u] = tasks[u],
         records' = records, runtime'.objects = Stopped(runtime, m).objects,
         \A c \in 1..Len(runtime.objects) : ~Relinks(tasks[t], runtime, c)
  PROVE  Heals'
<1> SUFFICES ASSUME NEW c \in 1..Len(runtime'.objects), Current(runtime', c)
             PROVE  \/ records[runtime'.objects[c].miner].host = runtime'.objects[c].host
                    \/ \E u \in AllTasks : Relinks(tasks'[u], runtime', c)
  BY DEF Heals
<1>1. /\ Len(runtime'.objects) \in Nat /\ Len(runtime.objects) \in Nat
      /\ Fits(Stopped(runtime, m))
      /\ Grows(runtime, Stopped(runtime, m)) /\ Grows(Stopped(runtime, m), runtime)
      /\ \A d \in 1..Len(runtime.objects) :
           ~Stopped(runtime, m).objects[d].shut =>
             Stopped(runtime, m).objects[d] = runtime.objects[d]
  <2>1. Fits(Stopped(runtime, m))
    BY StoppedPiece
  <2>2. Len(runtime'.objects) \in Nat /\ Len(runtime.objects) \in Nat
    BY <2>1, RuntimeFields DEF Fits
  <2> QED
    BY <2>1, <2>2, StoppedPiece
<1>2. /\ Len(runtime'.objects) = Len(runtime.objects)
      /\ \A d \in 1..Len(runtime.objects) :
           /\ runtime'.objects[d].miner = runtime.objects[d].miner
           /\ ~runtime'.objects[d].shut => runtime'.objects[d] = runtime.objects[d]
  BY <1>1 DEF Grows
<1>3. c \in 1..Len(runtime.objects) /\ runtime'.objects[c] = runtime.objects[c]
  BY <1>2 DEF Current
<1>4. Current(runtime, c)
  BY <1>2, <1>3 DEF Current
<1>5. CASE records[runtime.objects[c].miner].host = runtime.objects[c].host
  BY <1>3, <1>5
<1>6. CASE \E u \in AllTasks : Relinks(tasks[u], runtime, c)
  <2>1. PICK u \in AllTasks : Relinks(tasks[u], runtime, c)
    BY <1>6
  <2>2. tasks'[u] = tasks[u]
    BY <1>3, <2>1
  <2>3. Relinks(tasks'[u], runtime', c)
    BY <1>3, <2>1, <2>2 DEF Relinks
  <2> QED
    BY <2>3
<1> QED
  BY <1>3, <1>4, <1>5, <1>6 DEF Heals

LEMMA FollowsStopped ==
  ASSUME Follows, NEW t \in AllTasks, NEW m \in Miners, runtime \in Runtime,
         \A u \in AllTasks : u # t => tasks'[u] = tasks[u],
         records' = records, queue' = queue,
         runtime'.coordinators = [runtime.coordinators EXCEPT ![m] = 0],
         \A k \in Miners :
           /\ ~Enables(tasks[t], k) /\ ~Removes(tasks[t], k)
           /\ Disables(tasks[t], k) => k = m /\ queue[m] = NoRecord,
         m \notin EnabledIn(records) \/ Removes(tasks'[t], m)
  PROVE  Follows'
<1>1. \A k \in Miners : runtime'.coordinators[k] =
                          IF k = m THEN 0 ELSE runtime.coordinators[k]
  BY RuntimeFields
<1>2. ASSUME NEW k \in Miners, Present(k)', k \notin EnabledIn(records)
      PROVE  \E u \in AllTasks : Disables(tasks'[u], k)
  <2>1. Present(k) /\ (k = m => queue[m] # NoRecord)
    BY <1>1, <1>2 DEF Present
  <2>2. PICK u \in AllTasks : Disables(tasks[u], k)
    BY <1>2, <2>1 DEF Follows
  <2>3. u # t
    BY <2>1, <2>2
  <2> QED
    BY <2>2, <2>3
<1>3. ASSUME NEW k \in Miners, k \in EnabledIn(records), ~Present(k)'
      PROVE  \E u \in AllTasks : Enables(tasks'[u], k) \/ Removes(tasks'[u], k)
  <2>1. CASE k = m
    BY <1>3, <2>1
  <2>2. CASE k # m
    <3>1. ~Present(k)
      BY <1>1, <1>3, <2>2 DEF Present
    <3>2. PICK u \in AllTasks : Enables(tasks[u], k) \/ Removes(tasks[u], k)
      BY <1>3, <3>1 DEF Follows
    <3> QED
      BY <3>2
  <2> QED
    BY <2>1, <2>2
<1> QED
  BY <1>2, <1>3 DEF Follows

(* A decision was saved that starts no coordinator: its candidate goes.    *)
LEMMA DecidedSettled ==
  ASSUME Core, Settled, NEW t \in AllTasks, tasks[t].pc = "saving", tasks[t].object = 0,
         tasks[t].kind \in {"approve", "reject"}, tasks[t].asked \in Miners,
         tasks[t].kind = "approve" =>
           /\ ~tasks[t].enabled /\ tasks[t].miner = tasks[t].asked
           /\ tasks[t].asked \notin EnabledIn(records),
         \A u \in AllTasks : u # t => tasks'[u] = tasks[u],
         records' = records, rejected' = rejected, phase' = phase, queue' = queue,
         runtime' = Popped(runtime, tasks[t].asked)
  PROVE  Settled'
<1> DEFINE task == tasks[t]
           m == task.asked
<1>1. Fits(runtime) /\ runtime \in Runtime
  BY CoreFacts
<1>2. /\ runtime' \in Runtime /\ runtime'.coordinators = runtime.coordinators
      /\ runtime'.candidates = [runtime.candidates EXCEPT ![m] = NoHost]
      /\ runtime'.totals = runtime.totals /\ runtime'.objects = runtime.objects
  BY <1>1, PoppedPiece DEF Fits
<1>3. \A k \in Miners : runtime'.candidates[k] # NoHost =>
        runtime.candidates[k] # NoHost /\ k # m
  BY <1>1, <1>2, RuntimeFields
<1>4. /\ \A k : /\ Decides(task, k) => k = m
                /\ ~Enables(task, k) /\ ~Disables(task, k) /\ ~Removes(task, k)
      /\ ~Recounts(task)
      /\ \A k \in Miners : ~Announces(task, runtime, k)
  BY DEF Decides, Enables, Disables, Removes, Recounts, Announces
<1>5. \A u \in AllTasks, k \in Miners : ~Disables(tasks[u], k)
  BY DEF Core, LockInv, Disables
<1>6. ASSUME NEW c \in 1..Len(runtime.objects), Current(runtime, c)
      PROVE  ~Relinks(task, runtime, c)
  <2>1. CASE task.kind = "reject"
    BY <2>1 DEF Relinks
  <2>2. CASE task.kind = "approve" /\ runtime.objects[c].miner # m
    BY <2>2 DEF Relinks
  <2>3. CASE task.kind = "approve" /\ runtime.objects[c].miner = m
    <3>1. Present(m)
      BY <1>1, <1>6, <2>3 DEF Current, Fits, Listing, Present
    <3> QED
      BY <1>5, <2>3, <3>1 DEF Settled, Follows
  <2> QED
    BY <2>1, <2>2, <2>3
<1>7. Offers'
  BY <1>3, <1>4, OffersStay DEF Settled
<1>8. Follows'
  BY <1>2, <1>4, FollowsStay DEF Settled
<1>9. Counting'
  BY <1>2, <1>4, CountingStays DEF Settled, Counts, Hushed
<1>10. Heals'
  <2>1. ASSUME NEW c \in 1..Len(runtime.objects), Current(runtime', c) PROVE Current(runtime, c)
    BY <1>2, <2>1 DEF Current
  <2> QED
    BY <1>1, <1>2, <1>6, <2>1, HealsStay DEF Settled, Alike
<1> QED
  BY <1>7, <1>8, <1>9, <1>10 DEF Settled

(* An approval was saved: its miner is started.                            *)
LEMMA ApprovedSettled ==
  ASSUME Core, Settled, NEW t \in AllTasks, tasks[t].pc = "saving", tasks[t].object = 0,
         tasks[t].kind = "approve", \A u \in AllTasks : u # t => tasks'[u] = tasks[u],
         records' = records, rejected' = rejected, phase' = phase, queue' = queue,
         Becomes(t, Approved(runtime, records, tasks[t])),
         tasks[t].enabled <=> tasks[t].miner \in EnabledIn(records)
  PROVE  Settled'
<1> DEFINE task == tasks[t]
           m == task.asked
           p == Popped(runtime, m)
<1>1. /\ Fits(runtime) /\ task \in Task /\ m \in Miners /\ task.miner = m
      /\ task.host \in Hosts /\ tasks \in [AllTasks -> Task]
  BY CoreFacts DEF TaskOK, Locked, Reads, Core, TypeOK
<1>2. CASE ~task.enabled
  <2>1. runtime' = p
    BY <1>2 DEF Becomes, Approved, Both
  <2> QED
    BY <1>1, <1>2, <2>1, DecidedSettled
<1>3. CASE task.enabled
  <2> DEFINE both == StartMiner(p, records, task, m, task.host)
  <2>1. runtime' = both.runtime /\ tasks'[t] = both.task
    BY <1>1, <1>3 DEF Becomes, Approved
  <2>2. /\ Fits(p) /\ p.coordinators = runtime.coordinators
        /\ p.candidates = [runtime.candidates EXCEPT ![m] = NoHost]
        /\ p.totals = runtime.totals /\ p.objects = runtime.objects
    BY <1>1, PoppedPiece
  <2> HIDE DEF p
  <2>3. /\ Starts(p, both.runtime, m) /\ both.runtime.candidates = p.candidates
        /\ both.task.kind = "approve"
        /\ both.task.object = both.runtime.coordinators[m]
        /\ p.coordinators[m] = 0 => both.task.pc = "reading"
        /\ p.coordinators[m] # 0 => both.task.pc = "linking"
    BY <1>1, <2>2, StartsPiece
  <2> HIDE DEF both
  <2>4. Starts(runtime, runtime', m)
    BY <2>1, <2>2, <2>3 DEF Starts
  <2>5. \A k \in Miners : runtime'.candidates[k] # NoHost =>
          runtime.candidates[k] # NoHost /\ k # m
    BY <1>1, <2>1, <2>2, <2>3, RuntimeFields DEF Fits
  <2>6. /\ \A k : /\ Decides(task, k) => k = m
                  /\ Enables(task, k) => k = m
                  /\ ~Disables(task, k) /\ ~Removes(task, k)
        /\ ~Recounts(task)
    BY DEF Decides, Enables, Disables, Removes, Recounts
  <2>7. \A k \in Miners :
          k # m \/ runtime.coordinators[m] # 0 => ~Announces(task, runtime, k)
    BY DEF Announces
  <2>8. runtime.coordinators[m] = 0 => Announces(tasks'[t], runtime', m)
    BY <2>1, <2>2, <2>3, <2>4 DEF Announces, Starts
  <2>9. \A c \in 1..Len(runtime.objects) :
          Relinks(task, runtime, c) => runtime.objects[c].miner = m
    BY <1>1 DEF Relinks
  <2>10. m \in EnabledIn(records)
    BY <1>1, <1>3
  <2>11. /\ tasks'[t].object = runtime'.coordinators[m]
         /\ runtime.coordinators[m] # 0 => tasks'[t].pc = "linking"
    BY <2>1, <2>2, <2>3
  <2> HIDE DEF task
  <2> QED
    BY <1>1, <2>4, <2>5, <2>6, <2>7, <2>8, <2>9, <2>10, <2>11, StartedSettled DEF task
<1> QED
  BY <1>2, <1>3

(* A switch was saved: its miner is started or stopped, and counted.       *)
LEMMA SwitchedSettled ==
  ASSUME Core, Settled, NEW t \in AllTasks, tasks[t].pc = "saving", tasks[t].object = 0,
         tasks[t].kind = "switch", \A u \in AllTasks : u # t => tasks'[u] = tasks[u],
         records' = records, rejected' = rejected, phase' = phase, queue' = queue,
         Becomes(t, Switched(runtime, records, tasks[t])),
         tasks[t].enabled <=> tasks[t].asked \in EnabledIn(records)
  PROVE  Settled'
<1> DEFINE task == tasks[t]
           m == task.asked
<1>1. /\ Fits(runtime) /\ runtime \in Runtime /\ task \in Task /\ m \in Miners
      /\ task.host \in Hosts /\ tasks \in [AllTasks -> Task]
  BY CoreFacts DEF TaskOK, Core, TypeOK
<1>2. queue[m] = NoRecord
  BY <1>1 DEF Core, PhaseInv
<1>3. /\ \A k : /\ ~Decides(task, k) /\ ~Removes(task, k)
                /\ Enables(task, k) => k = m /\ task.enabled
                /\ Disables(task, k) => k = m /\ ~task.enabled
      /\ \A k : ~Announces(task, runtime, k)
      /\ \A c \in 1..Len(runtime.objects) : ~Relinks(task, runtime, c)
  <2>1. \A k : /\ ~Decides(task, k) /\ ~Removes(task, k)
               /\ Enables(task, k) => k = m /\ task.enabled
               /\ Disables(task, k) => k = m /\ ~task.enabled
    BY DEF Decides, Removes, Enables, Disables
  <2>2. /\ \A k : ~Announces(task, runtime, k)
        /\ \A c \in 1..Len(runtime.objects) : ~Relinks(task, runtime, c)
    BY DEF Announces, Relinks
  <2> QED
    BY <2>1, <2>2
<1>4. CASE task.enabled /\ runtime.coordinators[m] = 0
  <2> DEFINE both == StartMiner(runtime, records, task, m, task.host)
  <2>1. runtime' = both.runtime /\ tasks'[t] = both.task
    BY <1>1, <1>4 DEF Becomes, Switched
  <2>2. /\ Starts(runtime, both.runtime, m) /\ both.runtime.candidates = runtime.candidates
        /\ both.task.kind = "switch" /\ both.task.object = both.runtime.coordinators[m]
    BY <1>1, StartsPiece
  <2> HIDE DEF both
  <2>3. Recounts(tasks'[t])
    BY <2>1, <2>2 DEF Recounts, Starts
  <2> HIDE DEF task
  <2> QED
    BY <1>1, <1>3, <1>4, <2>1, <2>2, <2>3, StartedSettled DEF task
<1>5. CASE task.enabled /\ runtime.coordinators[m] # 0
  <2>1. runtime' = Counted(runtime, records)
    BY <1>5 DEF Becomes, Switched, Ended, Both
  <2>2. /\ runtime' \in Runtime /\ Tallied(runtime', records) /\ Same(runtime, runtime')
        /\ runtime'.objects = runtime.objects
    BY <1>1, <2>1, CountedPiece, CountedTally
  <2>3. /\ runtime'.coordinators = runtime.coordinators
        /\ runtime'.candidates = runtime.candidates
    BY <2>2 DEF Same
  <2>4. Offers'
    BY <1>3, <2>3, OffersStay DEF Settled
  <2>5. Follows'
    <3>1. \A k \in Miners : Present(k)' <=> Present(k)
      BY <2>3 DEF Present
    <3>2. ASSUME NEW k \in Miners, Present(k)', k \notin EnabledIn(records)
          PROVE  \E u \in AllTasks : Disables(tasks'[u], k)
      <4>1. PICK u \in AllTasks : Disables(tasks[u], k)
        BY <3>1, <3>2 DEF Settled, Follows
      <4>2. u # t
        BY <1>3, <1>5, <4>1
      <4> QED
        BY <4>1, <4>2
    <3>3. ASSUME NEW k \in Miners, k \in EnabledIn(records), ~Present(k)'
          PROVE  \E u \in AllTasks : Enables(tasks'[u], k) \/ Removes(tasks'[u], k)
      <4>1. ~Present(k) /\ k # m
        BY <1>5, <3>1, <3>3 DEF Present
      <4>2. PICK u \in AllTasks : Enables(tasks[u], k) \/ Removes(tasks[u], k)
        BY <3>3, <4>1 DEF Settled, Follows
      <4>3. u # t
        BY <1>3, <4>1, <4>2
      <4> QED
        BY <4>2, <4>3
    <3> QED
      BY <3>2, <3>3 DEF Follows
  <2>6. Counting'
    BY <2>2, CountingTallied
  <2>7. Heals'
    BY <1>1, <1>3, <2>2, HealsStay DEF Settled, Alike
  <2> QED
    BY <2>4, <2>5, <2>6, <2>7 DEF Settled
<1>6. CASE ~task.enabled
  <2> DEFINE s == Stopped(runtime, m)
  <2>1. runtime' = Counted(s, records)
    BY <1>6 DEF Becomes, Switched, Ended, Both
  <2>2. /\ Fits(s) /\ s.coordinators = [runtime.coordinators EXCEPT ![m] = 0]
        /\ s.candidates = runtime.candidates
    BY <1>1, StoppedPiece
  <2>3. /\ Tallied(runtime', records) /\ Same(s, runtime') /\ runtime'.objects = s.objects
    BY <2>1, <2>2, CountedPiece, CountedTally DEF Fits
  <2>4. /\ runtime'.coordinators = [runtime.coordinators EXCEPT ![m] = 0]
        /\ runtime'.candidates = runtime.candidates
    BY <2>2, <2>3 DEF Same
  <2>5. Offers'
    BY <1>3, <2>4, OffersStay DEF Settled
  <2>6. Follows'
    BY <1>1, <1>2, <1>3, <1>6, <2>4, FollowsStopped DEF Settled
  <2>7. Counting'
    BY <2>3, CountingTallied
  <2>8. Heals'
    BY <1>1, <1>3, <2>3, HealsStopped DEF Settled
  <2> QED
    BY <2>5, <2>6, <2>7, <2>8 DEF Settled
<1> QED
  BY <1>4, <1>5, <1>6

LEMMA SaveReturnsSettled ==
  ASSUME Core, Settled, ~Due, NEW t \in AllTasks, SaveReturns(t)
  PROVE  Settled'
<1> DEFINE task == tasks[t]
<1>1. /\ task.pc = "saving" /\ Becomes(t, AfterSave(runtime, records, task)) /\ Continue(t)
      /\ records' = records /\ rejected' = rejected /\ phase' = phase /\ queue' = queue
  BY DEF SaveReturns, Continue, registry
<1>2. /\ Fits(runtime) /\ task \in Task /\ TaskOK(runtime, t, task) /\ SaveOK(records, task)
      /\ tasks \in [AllTasks -> Task]
  BY CoreFacts DEF Core, TaskInv, TypeOK
<1>3. \A u \in AllTasks : u # t => tasks'[u] = tasks[u]
  BY <1>1, OthersStay DEF CloseBegins, CloseEnds
<1>4. \A u \in AllTasks : u # t => tasks[u].pc # "saving"
  BY <1>1 DEF Core, LockInv
<1>5. ~Owes(task)
  BY DEF Due
<1>6. ASSUME NEW k \in Miners, k = Subject(task), task.kind \notin {"remove", "reject"}
      PROVE  records[k].host = task.host /\ (task.enabled <=> k \in EnabledIn(records))
  <2>1. task.host \in Hosts /\ task.enabled \in BOOLEAN
    <3>1. Reads(task) \/ task.kind = "switch"
      <4>1. task # Idle
        BY <1>1, IdleTask
      <4> QED
        BY <1>1, <1>2, <1>6, <4>1 DEF TaskOK, Reads, Task, Kinds
    <3>2. task.host \in Hosts
      BY <1>1, <1>2, <3>1 DEF TaskOK, Locked
    <3> QED
      BY <1>2, <3>2 DEF Task
  <2>2. records[k] = [host |-> task.host, enabled |-> task.enabled]
    BY <1>1, <1>2, <1>6 DEF SaveOK
  <2>3. records[k] \in Record
    BY <2>1, <2>2 DEF Record
  <2>4. records[k].host = task.host /\ records[k].enabled = task.enabled
        /\ records[k] # NoRecord
    BY <2>2, <2>3, FleetAssumption
  <2> QED
    BY <2>4 DEF EnabledIn
<1>7. CASE task.object # 0
  <2>1. /\ task.kind \notin {"enroll", "remove", "reject"} /\ task.miner \in Miners
        /\ Subject(task) = task.miner
    BY <1>1, <1>2, <1>5, <1>7 DEF Owes, TaskOK, Locked, Reads, Subject
  <2>2. Becomes(t, Refreshed(runtime, records, task))
    <3>1. AfterSave(runtime, records, task) = AfterUpdate(runtime, records, task)
      <4> HIDE DEF task
      <4> QED
        BY <1>7, <2>1 DEF AfterSave
    <3> QED
      BY <1>1, <1>7, <3>1 DEF AfterUpdate
  <2>3. records[task.miner].host = task.host
    BY <1>6, <2>1
  <2> QED
    BY <1>1, <1>2, <1>3, <1>7, <2>1, <2>2, <2>3, RefreshedSettled
<1>8. CASE task.object = 0 /\ task.kind = "probe"
  <2>1. Becomes(t, Known(runtime, records, task))
    <3>1. AfterSave(runtime, records, task) = AfterUpdate(runtime, records, task)
      BY <1>8 DEF AfterSave
    <3> QED
      BY <1>1, <1>8, <3>1 DEF AfterUpdate
  <2>2. task.miner \in Miners /\ Subject(task) = task.miner
    BY <1>1, <1>2, <1>8 DEF TaskOK, Locked, Reads, Subject
  <2>3. task.enabled <=> task.miner \in EnabledIn(records)
    BY <1>6, <1>8, <2>2
  <2> QED
    BY <1>1, <1>2, <1>3, <1>4, <1>8, <2>1, <2>3, KnownSettled
<1>9. CASE task.object = 0 /\ task.kind = "approve"
  <2>1. Becomes(t, Approved(runtime, records, task))
    BY <1>1, <1>9 DEF AfterSave
  <2>2. task.miner \in Miners /\ Subject(task) = task.miner
    BY <1>1, <1>2, <1>9 DEF TaskOK, Locked, Reads, Subject
  <2>3. task.enabled <=> task.miner \in EnabledIn(records)
    BY <1>6, <1>9, <2>2
  <2> QED
    BY <1>1, <1>3, <1>9, <2>1, <2>3, ApprovedSettled
<1>10. CASE task.object = 0 /\ task.kind = "reject"
  <2>1. runtime' = Popped(runtime, task.asked)
    BY <1>1, <1>10 DEF AfterSave, Becomes, Both
  <2>2. task.asked \in Miners
    BY <1>2, <1>10 DEF TaskOK
  <2> QED
    BY <1>1, <1>3, <1>10, <2>1, <2>2, DecidedSettled
<1>11. CASE task.object = 0 /\ task.kind = "switch"
  <2>1. Becomes(t, Switched(runtime, records, task))
    BY <1>1, <1>11 DEF AfterSave
  <2>2. task.asked \in Miners /\ Subject(task) = task.asked
    BY <1>2, <1>11 DEF TaskOK, Reads, Subject
  <2>3. task.enabled <=> task.asked \in EnabledIn(records)
    BY <1>6, <1>11, <2>2
  <2> QED
    BY <1>1, <1>3, <1>11, <2>1, <2>3, SwitchedSettled
<1>12. task.object = 0 => task.kind \in {"probe", "approve", "reject", "switch"}
  <2>1. task # Idle
    BY <1>1, IdleTask
  <2> QED
    BY <1>1, <1>2, <1>5, <2>1 DEF Owes, TaskOK, Task, Kinds
<1> QED
  BY <1>7, <1>8, <1>9, <1>10, <1>11, <1>12

(* A coordinator was moved and has not been polled from its new client.    *)
LEMMA HealsMoved ==
  ASSUME Heals, NEW t \in AllTasks, NEW c, ~Current(runtime', c),
         \A u \in AllTasks : u # t => tasks'[u] = tasks[u],
         records' = records, Len(runtime'.objects) = Len(runtime.objects),
         \A d \in 1..Len(runtime.objects) :
           /\ runtime'.objects[d].miner = runtime.objects[d].miner
           /\ runtime'.objects[d].shut = runtime.objects[d].shut
           /\ d # c => /\ runtime'.objects[d].host = runtime.objects[d].host
                       /\ runtime'.objects[d].polled = runtime.objects[d].polled
                       /\ ~Relinks(tasks[t], runtime, d)
  PROVE  Heals'
<1> SUFFICES ASSUME NEW d \in 1..Len(runtime'.objects), Current(runtime', d)
             PROVE  \/ records[runtime'.objects[d].miner].host = runtime'.objects[d].host
                    \/ \E u \in AllTasks : Relinks(tasks'[u], runtime', d)
  BY DEF Heals
<1>1. d # c /\ d \in 1..Len(runtime.objects)
  OBVIOUS
<1>2. Current(runtime, d)
  BY <1>1 DEF Current
<1>3. CASE records[runtime.objects[d].miner].host = runtime.objects[d].host
  BY <1>1, <1>3
<1>4. CASE \E u \in AllTasks : Relinks(tasks[u], runtime, d)
  <2>1. PICK u \in AllTasks : Relinks(tasks[u], runtime, d)
    BY <1>4
  <2>2. tasks'[u] = tasks[u]
    BY <1>1, <2>1
  <2>3. Relinks(tasks'[u], runtime', d)
    BY <1>1, <2>1, <2>2 DEF Relinks
  <2> QED
    BY <2>3
<1> QED
  BY <1>1, <1>2, <1>3, <1>4 DEF Heals

LEMMA LinkedSettled ==
  ASSUME Core, Settled, ~Due, NEW t \in AllTasks, Linked(t)
  PROVE  Settled'
<1> DEFINE task == tasks[t]
           c == task.object
           h == task.host
           n == Moved(runtime, c, h)
           p == Published(n, records, c)
<1>1. /\ task.pc = "linking" /\ Continue(t)
      /\ Becomes(t, IF task.kind = "probe" THEN Both(p, Idle)
                    ELSE Refresh(n, records, task, c))
      /\ records' = records /\ rejected' = rejected /\ phase' = phase /\ queue' = queue
  BY DEF Linked, Moved, Continue, registry
<1>2. /\ Fits(runtime) /\ runtime \in Runtime /\ task \in Task /\ TaskOK(runtime, t, task)
      /\ tasks \in [AllTasks -> Task]
  BY CoreFacts DEF Core, TypeOK
<1>3. h \in Hosts /\ c # 0 /\ task.kind # "enroll"
  BY <1>1, <1>2 DEF TaskOK, Due, Owes
<1>4. c \in 1..Len(runtime.objects)
  BY <1>1, <1>3, Waiting
<1>5. \A u \in AllTasks : u # t => tasks'[u] = tasks[u]
  BY <1>1, OthersStay DEF CloseBegins, CloseEnds
<1> HIDE DEF c, h
<1>6. /\ Fits(n) /\ n \in Runtime /\ Len(n.objects) = Len(runtime.objects)
      /\ n.coordinators = runtime.coordinators /\ n.candidates = runtime.candidates
      /\ n.totals = runtime.totals /\ n.objects[c].polled = NoHost
      /\ \A d \in 1..Len(runtime.objects) :
           /\ n.objects[d].miner = runtime.objects[d].miner
           /\ n.objects[d].shut = runtime.objects[d].shut
           /\ n.objects[d].ok = runtime.objects[d].ok
           /\ n.objects[d].heard = runtime.objects[d].heard
           /\ d # c => n.objects[d] = runtime.objects[d]
  BY <1>2, <1>3, <1>4, MovedPiece DEF Fits
<1> HIDE DEF n
<1>7. Counts(runtime, n, records)
  BY <1>2, <1>6 DEF Counts, Hushed, Fits, Listing
<1>8. /\ runtime' \in Runtime /\ Same(n, runtime') /\ Counts(n, runtime', records)
      /\ \A d \in 1..Len(n.objects) : runtime'.objects[d].polled = n.objects[d].polled
  <2>1. CASE task.kind = "probe"
    <3>1. runtime' = p
      BY <1>1, <2>1 DEF Becomes, Both
    <3> QED
      BY <1>4, <1>6, <3>1, PublishedPiece
  <2>2. CASE task.kind # "probe"
    <3>1. runtime' = Refresh(n, records, task, c).runtime
      BY <1>1, <2>2 DEF Becomes
    <3> QED
      BY <1>6, <3>1, RefreshCalm DEF Calm
  <2> QED
    BY <2>1, <2>2
<1>9. Recounts(task) => Recounts(tasks'[t]) \/ Tallied(runtime', records)
  <2> SUFFICES ASSUME Recounts(task) PROVE Recounts(tasks'[t]) \/ Tallied(runtime', records)
    OBVIOUS
  <2>1. task.kind = "switch"
    BY <1>1 DEF Recounts
  <2>2. /\ runtime' = Refresh(n, records, task, c).runtime
        /\ tasks'[t] = Refresh(n, records, task, c).task
    BY <1>1, <1>2, <2>1 DEF Becomes
  <2>3. CASE n.objects[c].shut
    <3>1. runtime' = Ended(n, records, task).runtime
      BY <2>2, <2>3 DEF Refresh
    <3> QED
      BY <1>6, <2>1, <3>1, EndedCounts
  <2>4. CASE ~n.objects[c].shut
    <3>1. tasks'[t] = [task EXCEPT !.pc = "reading", !.object = c, !.host = n.objects[c].host,
                                   !.first = answers[n.objects[c].host]]
      BY <2>2, <2>4 DEF Refresh, Both
    <3>2. tasks'[t].kind = "switch" /\ tasks'[t].object = c
      BY <1>2, <2>1, <3>1 DEF Task
    <3> QED
      BY <1>3, <3>2 DEF Recounts
  <2> QED
    BY <2>3, <2>4
<1>10. /\ \A k : /\ ~Decides(task, k) /\ ~Enables(task, k) /\ ~Disables(task, k)
                 /\ ~Removes(task, k)
       /\ \A k : ~Announces(task, runtime, k)
       /\ \A d : d # c => ~Relinks(task, runtime, d)
  <2>1. \A k : /\ ~Decides(task, k) /\ ~Enables(task, k) /\ ~Disables(task, k)
               /\ ~Removes(task, k)
    BY <1>1 DEF Decides, Enables, Disables, Removes
  <2>2. \A k : ~Announces(task, runtime, k)
    BY <1>1 DEF Announces
  <2>3. \A d : d # c => ~Relinks(task, runtime, d)
    BY <1>1 DEF Relinks, c
  <2> QED
    BY <2>1, <2>2, <2>3
<1> HIDE DEF task
<1>11. /\ runtime'.coordinators = runtime.coordinators
       /\ runtime'.candidates = runtime.candidates
       /\ Counts(runtime, runtime', records)
  BY <1>6, <1>7, <1>8, CountsTrans DEF Same
<1>12. Offers'
  BY <1>1, <1>5, <1>10, <1>11, OffersStay DEF Settled, task
<1>13. Follows'
  BY <1>1, <1>5, <1>10, <1>11, FollowsStay DEF Settled, task
<1>14. Counting'
  BY <1>1, <1>5, <1>9, <1>10, <1>11, CountingStays DEF Settled, task
<1>15. Heals'
  <2>1. /\ Len(runtime'.objects) = Len(runtime.objects)
        /\ \A d \in 1..Len(runtime.objects) :
             /\ runtime'.objects[d].miner = runtime.objects[d].miner
             /\ runtime'.objects[d].shut = runtime.objects[d].shut
             /\ d # c => /\ runtime'.objects[d].host = runtime.objects[d].host
                         /\ runtime'.objects[d].polled = runtime.objects[d].polled
    BY <1>6, <1>8 DEF Same
  <2>2. ~Current(runtime', c)
    <3>1. runtime'.objects[c].polled = NoHost
      BY <1>4, <1>6, <1>8
    <3>2. runtime'.objects[c] \in Coordinator
      BY <1>4, <1>8, <2>1, RuntimeFields
    <3> QED
      BY <3>1, <3>2, FleetAssumption DEF Current, Coordinator
  <2> QED
    BY <1>1, <1>5, <1>10, <2>1, <2>2, HealsMoved DEF Settled, task
<1> QED
  BY <1>12, <1>13, <1>14, <1>15 DEF Settled

LEMMA CallsSettled ==
  ASSUME Core, Settled, NEW t \in AllTasks, Calls(t)
  PROVE  Settled'
<1>1. PICK r, task : Begin(t, r, task)
  BY DEF Calls, EnrollHost, ProbeEndpoint, ApproveCandidate, RejectCandidate, RemoveMiner,
     SetEnabled, Poll
<1>2. /\ tasks[t] = Idle
      /\ records' = records /\ rejected' = rejected /\ phase' = phase /\ queue' = queue
  BY <1>1 DEF Begin, registry
<1>3. Unmarked(tasks[t])
  BY <1>2, IdleTask DEF Unmarked
<1>4. \A u \in AllTasks : u # t => tasks'[u] = tasks[u]
  BY <1>2, IdleTask, OthersStay DEF CloseBegins, CloseEnds
<1>5. /\ Fits(runtime) /\ runtime \in Runtime /\ tasks \in [AllTasks -> Task]
  BY CoreFacts DEF Core, TypeOK
<1>6. ASSUME NEW x, Begin(t, runtime, x) PROVE Settled'
  <2>1. runtime' = runtime
    BY <1>6 DEF Begin, Becomes, Both
  <2> QED
    BY <1>2, <1>3, <1>4, <1>5, <2>1, CalmSelf, UnmarkedSettled
<1>7. ASSUME NEW m \in Miners, Poll(t, m) PROVE Settled'
  <2>1. runtime' = Refresh(runtime, records, [Idle EXCEPT !.kind = "poll"],
                           runtime.coordinators[m]).runtime
    BY <1>7 DEF Poll, Begin, Becomes, Both
  <2> QED
    BY <1>2, <1>3, <1>4, <1>5, <2>1, RefreshCalm, UnmarkedSettled
<1>8. ASSUME NEW m \in Miners, RemoveMiner(t, m) PROVE Settled'
  <2> DEFINE s == Stopped(runtime, m)
             x == tasks'[t]
  <2>1. runtime' = s /\ x = Locking("remove", m)
    BY <1>5, <1>8 DEF RemoveMiner, Begin, Becomes, Both
  <2>2. x.kind = "remove" /\ x.pc = "locking" /\ x.asked = m
    BY <2>1 DEF Locking, Idle
  <2>3. /\ s.coordinators = [runtime.coordinators EXCEPT ![m] = 0]
        /\ s.candidates = runtime.candidates
    BY <1>5, StoppedPiece
  <2> HIDE DEF s, x
  <2>4. Removes(x, m) /\ Recounts(x)
    BY <2>2 DEF Removes, Recounts
  <2>5. Offers'
    BY <1>2, <1>3, <1>4, <2>1, <2>3, UnmarkedTask, OffersStay DEF Settled
  <2>6. Follows'
    BY <1>2, <1>3, <1>4, <1>5, <2>1, <2>3, <2>4, UnmarkedTask, FollowsStopped DEF Settled, x
  <2>7. Counting'
    BY <2>4 DEF Counting, x
  <2>8. Heals'
    BY <1>2, <1>3, <1>4, <1>5, <2>1, UnmarkedTask, HealsStopped DEF Settled, s
  <2> QED
    BY <2>5, <2>6, <2>7, <2>8 DEF Settled
<1> QED
  BY <1>6, <1>7, <1>8 DEF Calls, EnrollHost, ProbeEndpoint, ApproveCandidate,
     RejectCandidate, SetEnabled

LEMMA StartSettled ==
  ASSUME Core, Settled, StartContinues
  PROVE  Settled'
<1>1. /\ Fits(runtime) /\ runtime \in Runtime /\ tasks \in [AllTasks -> Task]
      /\ Starter \in AllTasks
  BY CoreFacts, TaskNumbers DEF Core, TypeOK
<1>2. CASE StartEnds
  <2>1. /\ runtime' = Counted(runtime, records) /\ tasks' = tasks
        /\ records' = records /\ rejected' = rejected /\ queue' = queue
    BY <1>2 DEF StartEnds, registry
  <2>2. /\ runtime' \in Runtime /\ Tallied(runtime', records) /\ Same(runtime, runtime')
        /\ runtime'.objects = runtime.objects
    BY <1>1, <2>1, CountedPiece, CountedTally
  <2>3. /\ runtime'.coordinators = runtime.coordinators
        /\ runtime'.candidates = runtime.candidates
    BY <2>2 DEF Same
  <2>4. Offers'
    BY <1>1, <2>1, <2>3, OffersStay DEF Settled
  <2>5. Follows'
    BY <1>1, <2>1, <2>3, FollowsStay DEF Settled
  <2>6. Counting'
    BY <2>1, <2>2, CountingTallied
  <2>7. Heals'
    BY <1>1, <2>1, <2>2, HealsStay DEF Settled, Alike
  <2> QED
    BY <2>4, <2>5, <2>6, <2>7 DEF Settled
<1>3. ASSUME NEW m \in Miners, StartNext(m) PROVE Settled'
  <2> DEFINE both == StartMiner(runtime, records, Idle, m, queue[m].host)
  <2>1. /\ phase = "starting" /\ tasks[Starter] = Idle /\ queue[m] # NoRecord
        /\ queue' = [queue EXCEPT ![m] = NoRecord]
        /\ runtime' = both.runtime /\ tasks'[Starter] = both.task
        /\ \A u \in AllTasks : u # Starter => tasks'[u] = tasks[u]
        /\ records' = records /\ rejected' = rejected /\ phase' = phase
    BY <1>1, <1>3 DEF StartNext, Becomes, registry
  <2>2. queue \in Records /\ queue[m].host \in Hosts
    BY <2>1 DEF Core, TypeOK, Records, Record
  <2>3. /\ Starts(runtime, both.runtime, m) /\ both.runtime.candidates = runtime.candidates
        /\ both.task.object = both.runtime.coordinators[m]
        /\ runtime.coordinators[m] # 0 => both.task.pc = "linking"
    BY <1>1, <2>2, IdleTask, StartsPiece
  <2> HIDE DEF both
  <2>4. Unmarked(tasks[Starter])
    BY <2>1, IdleTask DEF Unmarked
  <2>5. Present(m) /\ \A k \in Miners : k # m => queue'[k] = queue[k]
    BY <2>1, <2>2 DEF Present, Records
  <2> QED
    BY <1>1, <2>1, <2>3, <2>4, <2>5, UnmarkedTask, StartedSettled
<1> QED
  BY <1>2, <1>3 DEF StartContinues

(* The old runtime is closed and nothing is left of it.                    *)
LEMMA FreshSettled ==
  ASSUME runtime' = EmptyRuntime, records' \in Records, queue' = Captured(records'),
         phase' = "starting"
  PROVE  Settled'
<1>1. /\ Len(runtime'.objects) = 0
      /\ \A m \in Miners : runtime'.coordinators[m] = 0 /\ runtime'.candidates[m] = NoHost
  BY EmptyFits
<1>2. \A m \in Miners : Present(m)' <=> m \in EnabledIn(records')
  BY <1>1, CapturedType DEF Present
<1>3. Offers' /\ Follows' /\ Counting' /\ Heals'
  BY <1>1, <1>2 DEF Offers, Follows, Counting, Heals
<1> QED
  BY <1>3 DEF Settled

LEMMA CloseEndsSettled ==
  ASSUME Core, NEW t \in AllTasks, CloseEnds(t)
  PROVE  Settled'
BY CoreFacts, FreshSettled DEF CloseEnds, registry

-----------------------------------------------------------------------------
(* The invariant.                                                          *)

IInv == Core /\ (Due \/ Settled)

LEMMA IInvInit == Init => IInv
<1> SUFFICES ASSUME Init PROVE Core /\ Settled
  BY DEF IInv
<1>1. Core
  BY CoreInit
<1>2. /\ runtime = EmptyRuntime /\ queue = Captured(records) /\ phase = "starting"
      /\ records \in Records
  BY <1>1 DEF Init, Core, TypeOK
<1>3. /\ Len(runtime.objects) = 0
      /\ \A m \in Miners : runtime.coordinators[m] = 0 /\ runtime.candidates[m] = NoHost
  BY <1>2, EmptyFits
<1>4. \A m \in Miners : Present(m) <=> m \in EnabledIn(records)
  BY <1>2, <1>3, CapturedType DEF Present
<1>5. Offers /\ Follows /\ Counting /\ Heals
  BY <1>2, <1>3, <1>4 DEF Offers, Follows, Counting, Heals
<1> QED
  BY <1>1, <1>5 DEF Settled

LEMMA ContinueSettled ==
  ASSUME Core, Settled, ~Due, NEW t \in AllTasks, Continue(t)
  PROVE  Due' \/ Settled'
<1>1. ~CloseBegins(t) /\ ~CloseEnds(t)
  BY DEF CloseBegins, CloseEnds, Due, Owes
<1> QED
  BY <1>1, ReadSettled, EnrollAcquiresSettled, UpdateAcquiresSettled, RejectAcquiresSettled,
     RemoveAcquiresSettled, SwitchAcquiresSettled, SaveReturnsSettled, LinkedSettled
     DEF Continue

LEMMA IInvNext == IInv /\ [Next]_vars => IInv'
<1> SUFFICES ASSUME IInv, [Next]_vars PROVE Due' \/ Settled'
  BY CoreNext DEF IInv
<1>1. CASE Due
  BY <1>1, DueNext, CloseEndsSettled DEF IInv
<1>2. CASE ~Due /\ Settled
  <2>1. ASSUME NEW t \in AllTasks, Continue(t) PROVE Due' \/ Settled'
    BY <1>2, <2>1, ContinueSettled DEF IInv
  <2>2. ASSUME NEW t \in AllTasks, Calls(t) PROVE Settled'
    BY <1>2, <2>2, CallsSettled DEF IInv
  <2>3. CASE StartContinues
    BY <1>2, <2>3, StartSettled DEF IInv
  <2>4. CASE UNCHANGED <<registry, phase, queue, runtime, tasks>>
    BY <1>2, <2>4 DEF Settled, Offers, Follows, Counting, Heals, Present, registry
  <2>5. (\E host \in Hosts, a \in Answer : Moves(host, a)) \/ UNCHANGED vars =>
          UNCHANGED <<registry, phase, queue, runtime, tasks>>
    BY DEF Moves, vars, registry
  <2> QED
    BY <2>1, <2>2, <2>3, <2>4, <2>5 DEF Next
<1> QED
  BY <1>1, <1>2 DEF IInv

LEMMA IInvAlways == Spec => []IInv
BY IInvInit, IInvNext, PTL DEF Spec

-----------------------------------------------------------------------------
(* What a quiet fleet keeps.                                               *)

LEMMA QuietSettled ==
  ASSUME IInv, Quiet
  PROVE  /\ Settled /\ Fits(runtime) /\ phase # "starting"
         /\ \A t \in AllTasks : Unmarked(tasks[t])
         /\ \A m \in Miners : queue[m] = NoRecord
<1>1. /\ phase = "running" /\ \A t \in AllTasks : tasks[t] = Idle
  BY DEF Quiet
<1>2. ~Due
  BY <1>1, IdleTask DEF Due, Owes
<1>3. \A t \in AllTasks : Unmarked(tasks[t])
  BY <1>1, IdleTask DEF Unmarked
<1> QED
  BY <1>1, <1>2, <1>3, CoreFacts DEF IInv, Core, PhaseInv

(* However the calls interleave, no miner that was approved, enrolled or   *)
(* rejected is offered again once every call is over.                      *)
THEOREM CandidatesUndecided == Spec => []CandidatesAreUndecided
<1>1. IInv => CandidatesAreUndecided
  BY QuietSettled, UnmarkedTask DEF CandidatesAreUndecided, Settled, Offers
<1> QED
  BY <1>1, IInvAlways, PTL

(* Once every call and reload is over the enabled miners, and no others,   *)
(* have a coordinator, and the published totals count them.                *)
THEOREM FleetFollows == Spec => []FleetFollowsRegistry
<1>1. ASSUME IInv, Quiet
      PROVE  /\ \A m \in Miners :
                  (runtime.coordinators[m] # 0) <=> (m \in EnabledIn(records))
             /\ runtime = Counted(runtime, records)
  <2>1. /\ Settled /\ Fits(runtime) /\ phase # "starting"
        /\ \A m \in Miners : queue[m] = NoRecord
        /\ \A t \in AllTasks : Unmarked(tasks[t])
    BY <1>1, QuietSettled
  <2>2. \A m \in Miners : (runtime.coordinators[m] # 0) <=> (m \in EnabledIn(records))
    BY <2>1, UnmarkedTask DEF Settled, Follows, Present
  <2>3. /\ runtime.totals.online = {m \in EnabledIn(records) : Online(runtime, m)}
        /\ runtime.totals.enabled \subseteq EnabledIn(records)
        /\ EnabledIn(records) \subseteq runtime.totals.enabled
    BY <2>1, UnmarkedTask, EnabledType DEF Settled, Counting
  <2>4. runtime.totals.enabled = EnabledIn(records)
    BY <2>3
  <2>5. /\ runtime.totals \in Totals
        /\ runtime = [coordinators |-> runtime.coordinators, objects |-> runtime.objects,
                      totals |-> runtime.totals, candidates |-> runtime.candidates]
    BY <2>1, RuntimeFields DEF Fits
  <2>6. runtime.totals = [enabled |-> EnabledIn(records),
                          online |-> {m \in EnabledIn(records) : Online(runtime, m)}]
    BY <2>3, <2>4, <2>5 DEF Totals
  <2>7. runtime = Counted(runtime, records)
    BY <2>5, <2>6 DEF Counted
  <2> QED
    BY <2>2, <2>7
<1>2. IInv => FleetFollowsRegistry
  BY <1>1 DEF FleetFollowsRegistry
<1> QED
  BY <1>2, IInvAlways, PTL

(* The address a coordinator polls is the recorded one, once a poll from   *)
(* its present client went well and every call is over.                    *)
THEOREM EndpointHealed == Spec => []EndpointHealedByPoll
<1>1. ASSUME IInv, Quiet, NEW c \in 1..Len(runtime.objects), ~runtime.objects[c].shut,
             runtime.objects[c].polled = runtime.objects[c].host, Unswitched(c)
      PROVE  records[runtime.objects[c].miner].host = runtime.objects[c].host
  <2>1. Settled /\ \A t \in AllTasks : Unmarked(tasks[t])
    BY <1>1, QuietSettled
  <2>2. Current(runtime, c)
    BY <1>1 DEF Current, Unswitched
  <2> QED
    BY <2>1, <2>2, UnmarkedTask DEF Settled, Heals
<1>2. IInv => EndpointHealedByPoll
  BY <1>1 DEF EndpointHealedByPoll
<1> QED
  BY <1>2, IInvAlways, PTL

-----------------------------------------------------------------------------
(* Nobody waits for ever: a close waits for a reload that goes on, and     *)
(* whoever waits for the lock waits for a save.                            *)

Closing == phase = "closing" => \E t \in AllTasks : tasks[t].pc = "reloading"

(* Nothing but the close moves a reloading task while the entry closes.    *)
LEMMA ClosingNext ==
  ASSUME Core, [Next]_vars, Closing
  PROVE  Closing'
<1>1. ASSUME phase' = "closing", phase # "closing"
      PROVE  \E t \in AllTasks : CloseBegins(t)
  <2>1. PICK t \in AllTasks : Continue(t) \/ Calls(t)
    BY <1>1 DEF Next, StartContinues, StartEnds, StartNext, Moves, vars
  <2>2. Calls(t) => phase' = phase
    BY DEF Calls, EnrollHost, ProbeEndpoint, ApproveCandidate, RejectCandidate,
       RemoveMiner, SetEnabled, Poll, Begin
  <2>3. Continue(t) => phase' = phase \/ CloseBegins(t) \/ CloseEnds(t)
    BY DEF Continue, ReadReturns, Answered, EnrollAcquires, UpdateAcquires, RejectAcquires,
       RemoveAcquires, SwitchAcquires, Acquires, SaveReturns, Linked
  <2>4. ~CloseEnds(t)
    BY <1>1 DEF CloseEnds
  <2> QED
    BY <1>1, <2>1, <2>2, <2>3, <2>4
<1>2. ASSUME NEW t \in AllTasks, CloseBegins(t)
      PROVE  Closing'
  <2>1. tasks[t].pc = "reloading" /\ TaskOK(runtime, t, tasks[t])
    BY <1>2, CoreFacts DEF CloseBegins
  <2>2. tasks[t].kind # "probe"
    BY <2>1 DEF TaskOK
  <2>3. tasks'[t] = tasks[t]
    BY <1>2, <2>2 DEF CloseBegins
  <2> QED
    BY <2>1, <2>3 DEF Closing
<1>3. ASSUME phase' = "closing", phase = "closing"
      PROVE  Closing'
  <2>1. PICK u \in AllTasks : tasks[u].pc = "reloading"
    BY <1>3 DEF Closing
  <2>2. tasks[u] # Idle /\ tasks \in [AllTasks -> Task] /\ TaskOK(runtime, u, tasks[u])
    BY <2>1, IdleTask, CoreFacts DEF Core, TypeOK
  <2>3. ASSUME NEW t \in AllTasks, Continue(t) \/ Calls(t)
        PROVE  tasks'[u] = tasks[u]
    <3>1. ~CloseBegins(t) /\ ~CloseEnds(t)
      BY <1>3 DEF CloseBegins, CloseEnds
    <3>2. CASE u # t
      BY <2>3, <3>1, <3>2, OthersStay
    <3>3. CASE u = t
      <4>1. Calls(t) => tasks[t] = Idle
        BY DEF Calls, EnrollHost, ProbeEndpoint, ApproveCandidate, RejectCandidate,
           RemoveMiner, SetEnabled, Poll, Begin
      <4>2. Continue(t) => tasks[t].pc # "reloading" \/ CloseBegins(t) \/ CloseEnds(t)
        BY DEF Continue, ReadReturns, Answered, EnrollAcquires, UpdateAcquires,
           RejectAcquires, RemoveAcquires, SwitchAcquires, Acquires, SaveReturns, Linked
      <4> QED
        BY <2>1, <2>2, <2>3, <3>1, <3>3, <4>1, <4>2
    <3> QED
      BY <3>2, <3>3
  <2>4. CASE StartContinues \/ (\E host \in Hosts, a \in Answer : Moves(host, a))
    BY <1>3, <2>4 DEF StartContinues, StartEnds, StartNext, Moves, Closing
  <2>5. CASE UNCHANGED vars
    BY <2>5, <1>3 DEF vars, Closing
  <2> QED
    BY <2>1, <2>3, <2>4, <2>5 DEF Next, Closing
<1> QED
  BY <1>1, <1>2, <1>3 DEF Closing

(* A task that is no longer idle is ready or waits for one that is.        *)
LEMMA WaitsForReady ==
  ASSUME Core, Closing, NEW t \in AllTasks, tasks[t] # Idle
  PROVE  StartReady \/ \E u \in AllTasks : Ready(u)
<1>1. /\ tasks[t] \in Task /\ TaskOK(runtime, t, tasks[t]) /\ PhaseInv /\ Starter \in AllTasks
      /\ TaskOK(runtime, Starter, tasks[Starter]) /\ tasks[Starter] \in Task
  BY CoreFacts, TaskNumbers DEF Core
<1>2. ASSUME NEW u \in AllTasks, tasks[u].pc \in {"reading", "saving", "linking", "locking"}
      PROVE  \E v \in AllTasks : Ready(v)
  BY <1>2 DEF Ready
<1>3. CASE tasks[t].pc = "reloading" /\ phase = "starting"
  <2>1. CASE tasks[Starter] = Idle
    BY <1>3, <2>1 DEF StartReady
  <2>2. CASE tasks[Starter] # Idle
    <3>1. tasks[Starter].pc \notin {"idle", "reloading"}
      BY <1>1, <2>2 DEF TaskOK
    <3>2. tasks[Starter].pc \in {"reading", "saving", "linking", "locking"}
      BY <1>1, <3>1 DEF Task
    <3> QED
      BY <1>1, <1>2, <3>2
  <2> QED
    BY <2>1, <2>2
<1>4. CASE tasks[t].pc = "reloading" /\ phase # "starting"
  BY <1>4 DEF Ready
<1>5. CASE tasks[t].pc # "reloading"
  <2>1. tasks[t].pc \in {"reading", "saving", "linking", "locking"}
    BY <1>1, <1>5 DEF TaskOK, Task
  <2> QED
    BY <1>2, <2>1
<1> QED
  BY <1>3, <1>4, <1>5

(* However many calls, starts and reloads wait for the registry's lock,    *)
(* for each other and for the devices, one of them can go on until all are *)
(* over and the fleet runs (runtime.py, storage.py, __init__.py).          *)
THEOREM SomebodyGoesOn == Spec => []NobodyStuck
<1>1. Init => Closing
  BY DEF Init, Closing
<1>2. Core /\ Closing /\ [Next]_vars => Closing'
  BY ClosingNext
<1>3. Core /\ Closing => NobodyStuck
  <2> SUFFICES ASSUME Core, Closing, ~Quiet
               PROVE  StartReady \/ \E t \in AllTasks : Ready(t)
    BY DEF NobodyStuck
  <2>1. CASE \E t \in AllTasks : tasks[t] # Idle
    BY <2>1, WaitsForReady
  <2>2. CASE \A t \in AllTasks : tasks[t] = Idle
    <3>1. phase # "running"
      BY <2>2 DEF Quiet
    <3>2. phase # "closing"
      BY <2>2, IdleTask DEF Closing
    <3>3. phase = "starting"
      BY <3>1, <3>2 DEF Core, TypeOK
    <3> QED
      BY <2>2, <3>3, TaskNumbers DEF StartReady
  <2> QED
    BY <2>1, <2>2
<1> QED
  BY <1>1, <1>2, <1>3, CoreAlways, PTL DEF Spec
=============================================================================
