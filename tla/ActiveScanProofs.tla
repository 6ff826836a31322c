-------------------------- MODULE ActiveScanProofs ---------------------------
(***************************************************************************)
(* The safety of ActiveScan for every concurrency, every set of network    *)
(* sizes and every number of scans: types, the accounting of the probes,   *)
(* the published status, the stop, and that it implements BoundedScan.     *)
(***************************************************************************)
EXTENDS ActiveScan, FiniteSetTheorems, TLAPS

(* What holds of one scan between any two of its steps. *)
ScanInv(s) ==
  /\ s.next_index <= s.total
  /\ \A w \in Workers : s.worker[w] = "probing" => s.host[w] < s.next_index
  /\ \A v, w \in Workers :
       s.worker[v] = "probing" /\ s.worker[w] = "probing" /\ s.host[v] = s.host[w]
         => v = w
  /\ s.completed = Cardinality(Over(s))
  /\ s.positive \subseteq Over(s)
  /\ s.discovered = Cardinality(s.positive)
  /\ \A w \in Workers : s.worker[w] = "returned" => s.next_index = s.total

(* How the task of a scan and its workers belong together. *)
GatherInv(s) ==
  /\ s.task = "none" =>
       s.total = 0 /\ s.next_index = 0 /\ \A w \in Workers : s.worker[w] = "absent"
  /\ s.task # "none" => s.worker[1] # "absent"
  /\ \A w \in Workers : s.worker[w] = "cancelled" => s.task = "cancelled"
  /\ s.task # "gathering" => Raised(s) \/ Active(s) = {}
  /\ s.task = "returned" => s.completed = s.total /\ Active(s) = {}

(* One scan at a time has a task to wait for, and it is the published one. *)
ManagerInv ==
  /\ \A g \in Scans : g > started => scans[g].task = "none"
  /\ \A g \in Scans :
       scans[g].task = "gathering" => scan_task = g /\ stopping \in {"no", "browser"}
  /\ scan_task # 0 => scan_task = started
  /\ closed = (stopping # "no")
  /\ RunningScanIsShown
  /\ scan_task # 0 /\ scans[scan_task].task = "returned" =>
       status.discovered_candidates = scans[scan_task].discovered

IInv ==
  /\ TypeOK
  /\ \A g \in Scans : ScanInv(scans[g]) /\ GatherInv(scans[g])
  /\ ManagerInv

-----------------------------------------------------------------------------
(* The sets of hosts of one scan.                                          *)

(* The size of an interval that begins at a and ends before b. *)
LEMMA HalfOpenInterval ==
  ASSUME NEW a \in Nat, NEW b \in Nat, a <= b
  PROVE  IsFiniteSet(a..b-1) /\ Cardinality(a..b-1) = b - a
<1>1. b - 1 \in Int /\ a \in Int
  OBVIOUS
<1>2. IsFiniteSet(a..b-1)
      /\ Cardinality(a..b-1) = IF a > b - 1 THEN 0 ELSE b - 1 - a + 1
  BY <1>1, FS_Interval
<1> QED
  BY <1>2

(* They are finite sets of hosts, and next_index of them are taken. *)
LEMMA HostSets ==
  ASSUME NEW s \in ScanType
  PROVE  /\ IsFiniteSet(Taken(s)) /\ IsFiniteSet(Over(s))
         /\ Cardinality(Over(s)) \in Nat
         /\ Cardinality(Taken(s)) = s.next_index
<1>1. s.next_index \in Nat
  BY DEF ScanType
<1>2. IsFiniteSet(Taken(s)) /\ Cardinality(Taken(s)) = s.next_index
  <2>1. IsFiniteSet(0..s.next_index-1) /\ Cardinality(0..s.next_index-1) = s.next_index - 0
    BY <1>1, HalfOpenInterval
  <2> QED
    BY <1>1, <2>1 DEF Taken
<1>3. IsFiniteSet(Over(s)) /\ Cardinality(Over(s)) \in Nat
  BY <1>2, FS_Subset, FS_CardinalityType DEF Over
<1> QED
  BY <1>2, <1>3

(* A probe that is over leaves the probed hosts and joins those that are   *)
(* over, where it was not before.                                          *)
LEMMA ProbeOver ==
  ASSUME NEW s \in ScanType, ScanInv(s), NEW w \in Workers, s.worker[w] = "probing",
         NEW t \in ScanType, NEW x \in WorkerState \ {"probing"},
         t.next_index = s.next_index, t.host = s.host,
         t.worker = [s.worker EXCEPT ![w] = x]
  PROVE  /\ s.host[w] \in Probing(s)
         /\ s.host[w] \notin Over(s)
         /\ Probing(t) = Probing(s) \ {s.host[w]}
         /\ Over(t) = Over(s) \cup {s.host[w]}
         /\ Cardinality(Over(t)) = Cardinality(Over(s)) + 1
<1>1. s.host[w] \in Probing(s) /\ s.host[w] \in Taken(s)
  BY DEF Probing, Taken, ScanInv, ScanType
<1>2. s.worker \in [Workers -> WorkerState]
  BY DEF ScanType
<1>3. Probing(t) = Probing(s) \ {s.host[w]}
  <2>1. ASSUME NEW h \in Probing(t) PROVE h \in Probing(s) /\ h # s.host[w]
    <3>1. PICK v \in Workers : t.worker[v] = "probing" /\ h = t.host[v]
      BY DEF Probing
    <3>2. v # w /\ s.worker[v] = "probing" /\ h = s.host[v]
      BY <1>2, <3>1
    <3> QED
      BY <3>2 DEF Probing, ScanInv
  <2>2. ASSUME NEW h \in Probing(s), h # s.host[w] PROVE h \in Probing(t)
    <3>1. PICK v \in Workers : s.worker[v] = "probing" /\ h = s.host[v]
      BY DEF Probing
    <3>2. t.worker[v] = "probing" /\ h = t.host[v]
      BY <1>2, <2>2, <3>1
    <3> QED
      BY <3>2 DEF Probing
  <2> QED
    BY <2>1, <2>2
<1>4. Taken(t) = Taken(s)
  BY DEF Taken
<1>5. Over(t) = Over(s) \cup {s.host[w]} /\ s.host[w] \notin Over(s)
  BY <1>1, <1>3, <1>4 DEF Over
<1>6. Cardinality(Over(t)) = Cardinality(Over(s)) + 1
  BY <1>5, HostSets, FS_AddElement
<1> QED
  BY <1>1, <1>3, <1>5, <1>6

(* What a worker that takes a host does to the sets of hosts. *)
LEMMA TakeHostFacts ==
  ASSUME NEW s \in ScanType, ScanInv(s), closed \in BOOLEAN,
         NEW w \in Workers, s.worker[w] = "ready"
  PROVE  LET t == TakeHost(s, w)
         IN  /\ t \in ScanType /\ ScanInv(t)
             /\ t.total = s.total /\ t.task = s.task
             /\ t.worker[w] \in {"returned", "probing"}
             /\ \A v \in Workers : v # w => t.worker[v] = s.worker[v]
             /\ t.positive = s.positive /\ t.discovered = s.discovered
             /\ \/ Probing(t) = Probing(s) /\ Over(t) = Over(s) \cup Todo(s) /\ Todo(t) = {}
                \/ /\ s.next_index \in Todo(s) /\ Over(t) = Over(s)
                   /\ Probing(t) = Probing(s) \cup {s.next_index}
                   /\ Todo(t) = Todo(s) \ {s.next_index}
<1> USE ScanAssumption
<1> DEFINE t == TakeHost(s, w)
<1>1. /\ s.next_index \in Nat /\ s.total \in Nat /\ s.next_index <= s.total
      /\ s.completed \in Nat /\ s.worker \in [Workers -> WorkerState]
      /\ s.host \in [Workers -> Nat]
  BY DEF ScanType, ScanInv
<1>2. CASE closed \/ s.next_index = s.total
  <2>1. t = [s EXCEPT !.worker[w] = "returned",
                      !.next_index = s.total,
                      !.completed = @ + (s.total - s.next_index)]
    BY <1>2 DEF TakeHost
  <2>2. /\ t.worker = [s.worker EXCEPT ![w] = "returned"] /\ t.next_index = s.total
        /\ t.completed = s.completed + (s.total - s.next_index)
        /\ t.total = s.total /\ t.task = s.task /\ t.host = s.host
        /\ t.positive = s.positive /\ t.discovered = s.discovered
    BY <2>1 DEF ScanType
  <2>3. t \in ScanType
    <3>1. "returned" \in WorkerState /\ s.completed + (s.total - s.next_index) \in Nat
      BY <1>1 DEF WorkerState
    <3>2. [s.worker EXCEPT ![w] = "returned"] \in [Workers -> WorkerState]
      BY <1>1, <3>1
    <3> QED
      BY <1>1, <2>1, <3>1, <3>2 DEF ScanType
  <2> HIDE DEF t
  <2>4. Probing(t) = Probing(s)
    BY <1>1, <2>2 DEF Probing
  <2>5. Over(t) = Over(s) \cup Todo(s) /\ Todo(t) = {} /\ Over(s) \cap Todo(s) = {}
    <3>1. Taken(t) = Taken(s) \cup Todo(s) /\ Todo(t) = {} /\ Taken(s) \cap Todo(s) = {}
      BY <1>1, <2>2 DEF Taken, Todo
    <3>2. Probing(s) \subseteq Taken(s)
      BY <1>1 DEF Probing, ScanInv, Taken
    <3> QED
      BY <2>4, <3>1, <3>2 DEF Over
  <2>6. IsFiniteSet(Todo(s)) /\ Cardinality(Todo(s)) = s.total - s.next_index
    BY <1>1, HalfOpenInterval DEF Todo
  <2>7. Cardinality(Over(t)) = Cardinality(Over(s)) + (s.total - s.next_index)
    <3>1. IsFiniteSet(Over(s)) /\ Cardinality(Over(s)) \in Nat
      BY HostSets
    <3>2. Cardinality(Over(t)) =
            Cardinality(Over(s)) + Cardinality(Todo(s)) - Cardinality({})
      BY <2>5, <2>6, <3>1, FS_Union
    <3> QED
      BY <1>1, <2>6, <3>1, <3>2, FS_EmptySet
  <2>8. ScanInv(t)
    BY <1>1, <2>2, <2>5, <2>7 DEF ScanInv
  <2> QED
    BY <1>1, <2>2, <2>3, <2>4, <2>5, <2>8 DEF t
<1>3. CASE ~(closed \/ s.next_index = s.total)
  <2>1. t = [s EXCEPT !.worker[w] = "probing", !.host[w] = s.next_index,
                      !.next_index = @ + 1]
    BY <1>3 DEF TakeHost
  <2>2. /\ t.worker = [s.worker EXCEPT ![w] = "probing"]
        /\ t.host = [s.host EXCEPT ![w] = s.next_index]
        /\ t.next_index = s.next_index + 1 /\ t.completed = s.completed
        /\ t.total = s.total /\ t.task = s.task
        /\ t.positive = s.positive /\ t.discovered = s.discovered
    BY <2>1 DEF ScanType
  <2>3. t \in ScanType
    <3>1. /\ [s.worker EXCEPT ![w] = "probing"] \in [Workers -> WorkerState]
          /\ [s.host EXCEPT ![w] = s.next_index] \in [Workers -> Nat]
          /\ s.next_index + 1 \in Nat
      BY <1>1 DEF WorkerState
    <3> QED
      BY <1>1, <2>1, <3>1 DEF ScanType
  <2> HIDE DEF t
  <2>4. Probing(t) = Probing(s) \cup {s.next_index}
    <3>1. ASSUME NEW h \in Probing(t) PROVE h \in Probing(s) \cup {s.next_index}
      <4>1. PICK v \in Workers : t.worker[v] = "probing" /\ h = t.host[v]
        BY DEF Probing
      <4> QED
        BY <1>1, <2>2, <4>1 DEF Probing
    <3>2. ASSUME NEW h \in Probing(s) PROVE h \in Probing(t)
      <4>1. PICK v \in Workers : s.worker[v] = "probing" /\ h = s.host[v]
        BY DEF Probing
      <4> QED
        BY <1>1, <2>2, <4>1 DEF Probing
    <3>3. s.next_index \in Probing(t)
      BY <1>1, <2>2 DEF Probing
    <3> QED
      BY <3>1, <3>2, <3>3
  <2>5. /\ Taken(t) = Taken(s) \cup {s.next_index} /\ s.next_index \notin Taken(s)
        /\ Todo(t) = Todo(s) \ {s.next_index} /\ s.next_index \in Todo(s)
    BY <1>1, <1>3, <2>2 DEF Taken, Todo
  <2>6. Over(t) = Over(s)
    BY <2>4, <2>5 DEF Over
  <2>7. ScanInv(t)
    <3>1. \A v \in Workers : t.worker[v] = "probing" => t.host[v] < t.next_index
      BY <1>1, <2>2 DEF ScanInv
    <3>2. ASSUME NEW u \in Workers, NEW v \in Workers, t.worker[u] = "probing",
                 t.worker[v] = "probing", t.host[u] = t.host[v]
          PROVE  u = v
      BY <1>1, <2>2, <3>2 DEF ScanInv
    <3>3. \A v \in Workers : t.worker[v] # "returned"
      BY <1>1, <1>3, <2>2 DEF ScanInv
    <3>4. /\ t.next_index <= t.total /\ t.completed = Cardinality(Over(t))
          /\ t.positive \subseteq Over(t) /\ t.discovered = Cardinality(t.positive)
      BY <1>1, <1>3, <2>2, <2>6 DEF ScanInv
    <3> QED
      BY <3>1, <3>2, <3>3, <3>4 DEF ScanInv
  <2> QED
    BY <1>1, <2>2, <2>3, <2>4, <2>5, <2>6, <2>7 DEF t
<1> QED
  BY <1>2, <1>3

-----------------------------------------------------------------------------
(* The steps of a worker.                                                  *)

(* A scan moves on from s to t: some probes end, some begin, hosts are      *)
(* skipped, and none of them comes back.                                    *)
Moves(s, t) ==
  \E ended \in SUBSET Probing(s) :
    \E begun \in SUBSET Todo(s) :
      \E skipped \in SUBSET Todo(s) :
        /\ Todo(t) = Todo(s) \ (begun \cup skipped)
        /\ Probing(t) = (Probing(s) \ ended) \cup begun
        /\ Over(t) = Over(s) \cup ended \cup skipped

(* A probe that answers: the host is over and counted once. *)
LEMMA AnsweredFacts ==
  ASSUME NEW s \in ScanType, ScanInv(s), NEW w \in Workers, s.worker[w] = "probing",
         NEW found \in BOOLEAN
  PROVE  LET t == Answered(s, w, found)
         IN  /\ t \in ScanType /\ ScanInv(t) /\ t.worker[w] = "ready"
             /\ t.total = s.total /\ t.task = s.task
             /\ \A v \in Workers : v # w => t.worker[v] = s.worker[v]
             /\ s.host[w] \in Probing(s) /\ Probing(t) = Probing(s) \ {s.host[w]}
             /\ Over(t) = Over(s) \cup {s.host[w]} /\ Todo(t) = Todo(s)
<1> DEFINE t == Answered(s, w, found)
<1>1. /\ s.worker \in [Workers -> WorkerState] /\ s.host \in [Workers -> Nat]
      /\ s.completed \in Nat /\ s.discovered \in Nat /\ s.positive \in SUBSET Nat
      /\ s.next_index \in Nat /\ s.total \in Nat
  BY DEF ScanType
<1>2. /\ t.worker = [s.worker EXCEPT ![w] = "ready"] /\ t.host = s.host
      /\ t.next_index = s.next_index /\ t.total = s.total /\ t.task = s.task
      /\ t.completed = s.completed + 1
      /\ t.discovered = IF found THEN s.discovered + 1 ELSE s.discovered
      /\ t.positive = IF found THEN s.positive \cup {s.host[w]} ELSE s.positive
  BY DEF Answered, ScanType
<1>3. t \in ScanType
  <2>1. [s.worker EXCEPT ![w] = "ready"] \in [Workers -> WorkerState]
    BY <1>1 DEF WorkerState
  <2>2. /\ (IF found THEN s.discovered + 1 ELSE s.discovered) \in Nat
        /\ (IF found THEN s.positive \cup {s.host[w]} ELSE s.positive) \in SUBSET Nat
        /\ s.completed + 1 \in Nat
    BY <1>1
  <2> QED
    BY <1>1, <2>1, <2>2 DEF Answered, ScanType
<1> HIDE DEF t
<1>4. /\ s.host[w] \in Probing(s) /\ s.host[w] \notin Over(s)
      /\ Probing(t) = Probing(s) \ {s.host[w]} /\ Over(t) = Over(s) \cup {s.host[w]}
      /\ Cardinality(Over(t)) = Cardinality(Over(s)) + 1
  <2>1. "ready" \in WorkerState \ {"probing"}
    BY DEF WorkerState
  <2> QED
    BY <1>2, <1>3, <2>1, ProbeOver
<1>5. t.positive \subseteq Over(t) /\ t.discovered = Cardinality(t.positive)
  <2>1. IsFiniteSet(s.positive)
    BY HostSets, FS_Subset DEF ScanInv
  <2>2. s.host[w] \notin s.positive
    BY <1>4 DEF ScanInv
  <2>3. Cardinality(s.positive \cup {s.host[w]}) = Cardinality(s.positive) + 1
    BY <2>1, <2>2, FS_AddElement
  <2> QED
    BY <1>2, <1>4, <2>3 DEF ScanInv
<1>6. ScanInv(t)
  <2>1. \A v \in Workers : v # w => t.worker[v] = s.worker[v]
    BY <1>1, <1>2
  <2>2. t.worker[w] = "ready"
    BY <1>1, <1>2
  <2> QED
    BY <1>2, <1>4, <1>5, <2>1, <2>2 DEF ScanInv
<1>7. Todo(t) = Todo(s)
  BY <1>2 DEF Todo
<1> QED
  BY <1>1, <1>2, <1>3, <1>4, <1>6, <1>7 DEF t

(* A probe that raises ends its worker and counts its host. *)
LEMMA RaisedFacts ==
  ASSUME NEW s \in ScanType, ScanInv(s), NEW w \in Workers, s.worker[w] = "probing"
  PROVE  LET t == RaisedAfterCount(s, w)
         IN  /\ t \in ScanType /\ ScanInv(t) /\ t.worker[w] = "raised"
             /\ t.total = s.total /\ t.task = s.task
             /\ \A v \in Workers : v # w => t.worker[v] = s.worker[v]
             /\ Moves(s, t)
<1> DEFINE t == RaisedAfterCount(s, w)
<1>1. /\ s.worker \in [Workers -> WorkerState] /\ s.completed \in Nat
      /\ s.next_index \in Nat /\ s.total \in Nat
  BY DEF ScanType
<1>2. /\ t.worker = [s.worker EXCEPT ![w] = "raised"] /\ t.host = s.host
      /\ t.next_index = s.next_index /\ t.total = s.total /\ t.task = s.task
      /\ t.completed = s.completed + 1
      /\ t.discovered = s.discovered /\ t.positive = s.positive
  BY DEF RaisedAfterCount, ScanType
<1>3. t \in ScanType
  <2>1. [s.worker EXCEPT ![w] = "raised"] \in [Workers -> WorkerState]
    BY <1>1 DEF WorkerState
  <2> QED
    <3>1. s.completed + 1 \in Nat
      BY <1>1
    <3> QED
      BY <1>1, <2>1, <3>1 DEF RaisedAfterCount, ScanType
<1> HIDE DEF t
<1>4. /\ s.host[w] \in Probing(s)
      /\ Probing(t) = Probing(s) \ {s.host[w]} /\ Over(t) = Over(s) \cup {s.host[w]}
      /\ Cardinality(Over(t)) = Cardinality(Over(s)) + 1
  <2>1. "raised" \in WorkerState \ {"probing"}
    BY DEF WorkerState
  <2> QED
    BY <1>2, <1>3, <2>1, ProbeOver
<1>5. /\ \A v \in Workers : v # w => t.worker[v] = s.worker[v]
      /\ t.worker[w] = "raised"
  BY <1>1, <1>2
<1>6. ScanInv(t)
  BY <1>2, <1>4, <1>5 DEF ScanInv
<1>7. Moves(s, t)
  <2>1. Todo(t) = Todo(s) \ ({} \cup {})
    BY <1>2 DEF Todo
  <2>2. Probing(t) = (Probing(s) \ {s.host[w]}) \cup {}
        /\ Over(t) = Over(s) \cup {s.host[w]} \cup {}
    BY <1>4
  <2>3. {s.host[w]} \in SUBSET Probing(s) /\ {} \in SUBSET Todo(s)
    BY <1>4
  <2> QED
    BY <2>1, <2>2, <2>3 DEF Moves
<1> QED
  BY <1>2, <1>3, <1>5, <1>6, <1>7 DEF t

(* Every step of a worker keeps what its scan promises. *)
LEMMA WorkerStep ==
  ASSUME IInv, NEW g \in Scans, NEW w \in Workers, WorkerRuns(g, w)
  PROVE  /\ UNCHANGED <<closed, stopping, scan_task, started>>
         /\ scans[g].worker[w] \in {"ready", "probing"}
         /\ \E t \in ScanType :
              /\ Continue(g, t)
              /\ ScanInv(t) /\ Moves(scans[g], t)
              /\ t.task = scans[g].task /\ t.total = scans[g].total
              /\ \A v \in Workers : v # w => t.worker[v] = scans[g].worker[v]
              /\ t.worker[w] \in {"returned", "probing", "raised"}
<1> DEFINE s == scans[g]
<1>1. s \in ScanType /\ ScanInv(s) /\ closed \in BOOLEAN
  BY DEF IInv, TypeOK
<1>2. UNCHANGED <<closed, stopping, scan_task, started>>
  BY DEF WorkerRuns, WorkerStarts, ProbeReturns, ProbeRaises
<1> HIDE DEF s
<1>3. CASE WorkerStarts(g, w)
  <2> DEFINE t == TakeHost(s, w)
  <2>1. s.worker[w] = "ready" /\ Continue(g, t)
    BY <1>3 DEF WorkerStarts, s
  <2>2. /\ t \in ScanType /\ ScanInv(t)
        /\ t.total = s.total /\ t.task = s.task
        /\ t.worker[w] \in {"returned", "probing"}
        /\ \A v \in Workers : v # w => t.worker[v] = s.worker[v]
        /\ \/ Probing(t) = Probing(s) /\ Over(t) = Over(s) \cup Todo(s) /\ Todo(t) = {}
           \/ /\ s.next_index \in Todo(s) /\ Over(t) = Over(s)
              /\ Probing(t) = Probing(s) \cup {s.next_index}
              /\ Todo(t) = Todo(s) \ {s.next_index}
    BY <1>1, <2>1, TakeHostFacts
  <2> HIDE DEF t
  <2>3. Moves(s, t)
    <3>1. CASE Probing(t) = Probing(s) /\ Over(t) = Over(s) \cup Todo(s) /\ Todo(t) = {}
      <4>1. /\ Todo(t) = Todo(s) \ ({} \cup Todo(s))
            /\ Probing(t) = (Probing(s) \ {}) \cup {}
            /\ Over(t) = Over(s) \cup {} \cup Todo(s)
        BY <3>1
      <4> QED
        BY <4>1 DEF Moves
    <3>2. CASE /\ s.next_index \in Todo(s) /\ Over(t) = Over(s)
               /\ Probing(t) = Probing(s) \cup {s.next_index}
               /\ Todo(t) = Todo(s) \ {s.next_index}
      <4>1. /\ Todo(t) = Todo(s) \ ({s.next_index} \cup {})
            /\ Probing(t) = (Probing(s) \ {}) \cup {s.next_index}
            /\ Over(t) = Over(s) \cup {} \cup {}
            /\ {s.next_index} \in SUBSET Todo(s)
        BY <3>2
      <4> QED
        BY <4>1 DEF Moves
    <3> QED
      BY <2>2, <3>1, <3>2
  <2> QED
    BY <1>2, <2>1, <2>2, <2>3 DEF s
<1>4. ASSUME NEW found \in BOOLEAN, ProbeReturns(g, w, found)
      PROVE  /\ s.worker[w] = "probing"
             /\ \E t \in ScanType :
                  /\ Continue(g, t)
                  /\ ScanInv(t) /\ Moves(s, t)
                  /\ t.task = s.task /\ t.total = s.total
                  /\ \A v \in Workers : v # w => t.worker[v] = s.worker[v]
                  /\ t.worker[w] \in {"returned", "probing", "raised"}
  <2> DEFINE u == Answered(s, w, found)
             t == TakeHost(u, w)
  <2>1. s.worker[w] = "probing" /\ Continue(g, t)
    BY <1>4 DEF ProbeReturns, s
  <2>2. /\ u \in ScanType /\ ScanInv(u) /\ u.worker[w] = "ready"
        /\ u.total = s.total /\ u.task = s.task
        /\ \A v \in Workers : v # w => u.worker[v] = s.worker[v]
        /\ s.host[w] \in Probing(s) /\ Probing(u) = Probing(s) \ {s.host[w]}
        /\ Over(u) = Over(s) \cup {s.host[w]} /\ Todo(u) = Todo(s)
    BY <1>1, <2>1, AnsweredFacts
  <2> HIDE DEF u
  <2>3. /\ t \in ScanType /\ ScanInv(t)
        /\ t.total = u.total /\ t.task = u.task
        /\ t.worker[w] \in {"returned", "probing"}
        /\ \A v \in Workers : v # w => t.worker[v] = u.worker[v]
        /\ \/ Probing(t) = Probing(u) /\ Over(t) = Over(u) \cup Todo(u) /\ Todo(t) = {}
           \/ /\ u.next_index \in Todo(u) /\ Over(t) = Over(u)
              /\ Probing(t) = Probing(u) \cup {u.next_index}
              /\ Todo(t) = Todo(u) \ {u.next_index}
    BY <1>1, <2>2, TakeHostFacts
  <2> HIDE DEF t
  <2>4. Moves(s, t)
    <3> DEFINE h == s.host[w]
               n == u.next_index
    <3>1. CASE Probing(t) = Probing(u) /\ Over(t) = Over(u) \cup Todo(u) /\ Todo(t) = {}
      <4>1. /\ Todo(t) = Todo(s) \ ({} \cup Todo(s))
            /\ Probing(t) = (Probing(s) \ {h}) \cup {}
            /\ Over(t) = Over(s) \cup {h} \cup Todo(s)
            /\ {h} \in SUBSET Probing(s)
        BY <2>2, <3>1
      <4> QED
        BY <4>1 DEF Moves
    <3>2. CASE /\ n \in Todo(u) /\ Over(t) = Over(u)
               /\ Probing(t) = Probing(u) \cup {n}
               /\ Todo(t) = Todo(u) \ {n}
      <4>1. /\ Todo(t) = Todo(s) \ ({n} \cup {})
            /\ Probing(t) = (Probing(s) \ {h}) \cup {n}
            /\ Over(t) = Over(s) \cup {h} \cup {}
            /\ {h} \in SUBSET Probing(s) /\ {n} \in SUBSET Todo(s)
        BY <2>2, <3>2
      <4> QED
        BY <4>1 DEF Moves
    <3> QED
      BY <2>3, <3>1, <3>2
  <2> QED
    BY <2>1, <2>2, <2>3, <2>4
<1>5. CASE ProbeRaises(g, w)
  <2> DEFINE t == RaisedAfterCount(s, w)
  <2>1. s.worker[w] = "probing" /\ Continue(g, t)
    BY <1>5 DEF ProbeRaises, s
  <2>2. /\ t \in ScanType /\ ScanInv(t) /\ t.worker[w] = "raised"
        /\ t.total = s.total /\ t.task = s.task
        /\ \A v \in Workers : v # w => t.worker[v] = s.worker[v]
        /\ Moves(s, t)
    BY <1>1, <2>1, RaisedFacts
  <2> HIDE DEF t
  <2> QED
    BY <1>2, <2>1, <2>2 DEF s
<1> QED
  BY <1>2, <1>3, <1>4, <1>5 DEF WorkerRuns, s

-----------------------------------------------------------------------------
(* The other steps, and the invariant.                                     *)

(* What a scan promises between its steps does not depend on its task. *)
LEMMA TaskChange ==
  ASSUME NEW s \in ScanType, ScanInv(s), NEW x \in TaskState
  PROVE  LET t == [s EXCEPT !.task = x]
         IN  /\ t \in ScanType /\ ScanInv(t) /\ t.task = x
             /\ t.worker = s.worker /\ t.completed = s.completed /\ t.total = s.total
             /\ t.next_index = s.next_index /\ t.discovered = s.discovered
             /\ Todo(t) = Todo(s) /\ Probing(t) = Probing(s) /\ Over(t) = Over(s)
             /\ Raised(t) = Raised(s) /\ Active(t) = Active(s)
<1> DEFINE t == [s EXCEPT !.task = x]
<1>1. t \in ScanType
  BY DEF ScanType
<1>2. /\ t.task = x /\ t.worker = s.worker /\ t.host = s.host
      /\ t.next_index = s.next_index /\ t.total = s.total
      /\ t.completed = s.completed
      /\ t.discovered = s.discovered /\ t.positive = s.positive
  BY DEF ScanType
<1> HIDE DEF t
<1>3. Todo(t) = Todo(s) /\ Probing(t) = Probing(s) /\ Over(t) = Over(s)
  BY <1>2 DEF Todo, Probing, Over, Taken
<1>4. ScanInv(t)
  BY <1>2, <1>3 DEF ScanInv
<1>5. Raised(t) = Raised(s) /\ Active(t) = Active(s)
  BY <1>2 DEF Raised, Active
<1> QED
  BY <1>1, <1>2, <1>3, <1>4, <1>5 DEF t

(* A cancelled scan has counted every host it had begun. *)
LEMMA CancelledFacts ==
  ASSUME NEW s \in ScanType, ScanInv(s)
  PROVE  LET t == Cancelled(s)
         IN  /\ t \in ScanType /\ ScanInv(t) /\ t.task = "cancelled"
             /\ t.total = s.total
             /\ Raised(t) \/ Active(t) = {}
             /\ s.worker[1] # "absent" => t.worker[1] # "absent"
             /\ Moves(s, t)
<1> USE ScanAssumption
<1> DEFINE t == Cancelled(s)
<1>1. /\ s.worker \in [Workers -> WorkerState] /\ s.completed \in Nat
      /\ s.host \in [Workers -> Nat] /\ s.next_index \in Nat /\ s.total \in Nat
  BY DEF ScanType
<1>2. CASE Raised(s)
  <2>1. t = [s EXCEPT !.task = "cancelled"]
    BY <1>2 DEF Cancelled
  <2>2. "cancelled" \in TaskState
    BY DEF TaskState
  <2> HIDE DEF t
  <2>3. /\ t \in ScanType /\ ScanInv(t) /\ t.task = "cancelled" /\ t.total = s.total
        /\ t.worker = s.worker /\ Raised(t)
        /\ Todo(t) = Todo(s) /\ Probing(t) = Probing(s) /\ Over(t) = Over(s)
    BY <1>2, <2>1, <2>2, TaskChange
  <2>4. Moves(s, t)
    <3>1. /\ Todo(t) = Todo(s) \ ({} \cup {}) /\ Probing(t) = (Probing(s) \ {}) \cup {}
          /\ Over(t) = Over(s) \cup {} \cup {}
      BY <2>3
    <3> QED
      BY <3>1 DEF Moves
  <2> QED
    BY <2>3, <2>4 DEF t
<1>3. CASE ~Raised(s)
  <2> DEFINE P == {w \in Workers : s.worker[w] = "probing"}
             W == [w \in Workers |-> IF w \in Active(s) THEN "cancelled" ELSE s.worker[w]]
             f == [w \in P |-> s.host[w]]
  <2>1. t = [s EXCEPT !.task = "cancelled", !.completed = @ + Cardinality(P), !.worker = W]
    BY <1>3 DEF Cancelled
  <2>2. IsFiniteSet(P) /\ Cardinality(P) \in Nat
    <3>1. IsFiniteSet(Workers)
      BY FS_Interval DEF Workers
    <3> QED
      BY <3>1, FS_Subset, FS_CardinalityType
  <2>3. Cardinality(Probing(s)) = Cardinality(P)
    <3>1. f \in Surjection(P, Probing(s))
      BY DEF Surjection, Probing
    <3>2. f \in Injection(P, Probing(s))
      BY <3>1 DEF Injection, IsInjective, Surjection, ScanInv
    <3> HIDE DEF P, f
    <3> QED
      BY <2>2, <3>1, <3>2, FS_Surjection
  <2>4. W \in [Workers -> WorkerState]
    BY <1>1 DEF WorkerState
  <2>5. \A w \in Workers : W[w] \notin {"ready", "probing"}
                           /\ (W[w] = "returned" => s.worker[w] = "returned")
                           /\ (W[w] = "absent" => s.worker[w] = "absent")
    BY DEF Active
  <2> HIDE DEF P, W, f
  <2>6. /\ t.task = "cancelled" /\ t.worker = W /\ t.host = s.host
        /\ t.next_index = s.next_index /\ t.total = s.total
        /\ t.completed = s.completed + Cardinality(P)
        /\ t.discovered = s.discovered /\ t.positive = s.positive
    BY <2>1 DEF ScanType
  <2>7. t \in ScanType
    <3>1. s.completed + Cardinality(P) \in Nat /\ "cancelled" \in TaskState
      BY <1>1, <2>2 DEF TaskState
    <3> QED
      BY <2>1, <2>4, <3>1 DEF ScanType
  <2> HIDE DEF t
  <2>8. Probing(t) = {} /\ Taken(t) = Taken(s) /\ Over(t) = Taken(s) /\ Todo(t) = Todo(s)
    BY <2>5, <2>6 DEF Probing, Over, Taken, Todo
  <2>9. Probing(s) \subseteq Taken(s)
    BY <1>1 DEF Probing, Taken, ScanInv
  <2>10. Cardinality(Taken(s)) = Cardinality(Over(s)) + Cardinality(P)
    <3>1. Over(s) = Taken(s) \ Probing(s) /\ Taken(s) \cap Probing(s) = Probing(s)
      BY <2>9 DEF Over
    <3>2. Cardinality(Over(s)) = Cardinality(Taken(s)) - Cardinality(Probing(s))
      BY <3>1, HostSets, FS_Difference
    <3>3. Cardinality(Taken(s)) \in Nat /\ Cardinality(Over(s)) \in Nat
      BY <1>1, HostSets
    <3> QED
      BY <2>2, <2>3, <3>2, <3>3
  <2>11. ScanInv(t)
    <3>1. s.completed = Cardinality(Over(s)) /\ Over(s) \subseteq Taken(s)
      BY DEF ScanInv, Over
    <3> QED
      BY <2>5, <2>6, <2>8, <2>10, <3>1 DEF ScanInv
  <2>12. Active(t) = {} /\ (s.worker[1] # "absent" => t.worker[1] # "absent")
    BY <2>5, <2>6 DEF Active, Workers
  <2>13. Moves(s, t)
    <3>1. /\ Todo(t) = Todo(s) \ ({} \cup {})
          /\ Probing(t) = (Probing(s) \ Probing(s)) \cup {}
          /\ Over(t) = Over(s) \cup Probing(s) \cup {}
      BY <2>8, <2>9 DEF Over
    <3> QED
      BY <3>1 DEF Moves
  <2> QED
    BY <2>6, <2>7, <2>11, <2>12, <2>13 DEF t
<1> QED
  BY <1>2, <1>3

(* A scan that starts has probed nothing and has a worker. *)
LEMMA StartedFacts ==
  ASSUME NEW n \in HostCounts
  PROVE  LET t == [NoScan EXCEPT !.task = "gathering", !.total = n,
                                 !.worker = CreatedWorkers(n)]
         IN  /\ t \in ScanType /\ ScanInv(t) /\ GatherInv(t) /\ t.task = "gathering"
             /\ t.total = n /\ Todo(t) = 0..n-1 /\ Probing(t) = {} /\ Over(t) = {}
<1> USE ScanAssumption
<1> DEFINE t == [NoScan EXCEPT !.task = "gathering", !.total = n,
                               !.worker = CreatedWorkers(n)]
<1>1. /\ t.task = "gathering" /\ t.total = n /\ t.worker = CreatedWorkers(n)
      /\ t.next_index = 0 /\ t.completed = 0 /\ t.discovered = 0 /\ t.positive = {}
      /\ t.host = [w \in Workers |-> 0]
  BY DEF NoScan
<1>2. /\ CreatedWorkers(n) \in [Workers -> WorkerState]
      /\ \A w \in Workers : CreatedWorkers(n)[w] \in {"ready", "absent"}
      /\ 1 \in Workers /\ CreatedWorkers(n)[1] = "ready"
      /\ n \in Nat /\ n >= 1
  BY DEF CreatedWorkers, WorkerState, Workers
<1>3. t \in ScanType
  <2>1. "gathering" \in TaskState /\ 0 \in Nat /\ {} \in SUBSET Nat
        /\ [w \in Workers |-> 0] \in [Workers -> Nat]
    BY DEF TaskState
  <2>2. [w \in Workers |-> "absent"] \in [Workers -> WorkerState] /\ "none" \in TaskState
    BY DEF WorkerState, TaskState
  <2>3. NoScan \in ScanType
    BY <2>1, <2>2 DEF NoScan, ScanType
  <2> QED
    BY <1>2, <2>1, <2>3 DEF ScanType
<1> HIDE DEF t
<1>4. Taken(t) = {} /\ Todo(t) = 0..n-1 /\ Probing(t) = {} /\ Over(t) = {}
  BY <1>1, <1>2 DEF Taken, Todo, Probing, Over
<1>5. ScanInv(t)
  BY <1>1, <1>2, <1>4, FS_EmptySet DEF ScanInv
<1>6. GatherInv(t)
  BY <1>1, <1>2 DEF GatherInv
<1> QED
  BY <1>1, <1>3, <1>4, <1>5, <1>6 DEF t

(* A published progress is a status that says running. *)
LEMMA ProgressTyped ==
  ASSUME TypeOK, NEW n \in Nat, NEW m \in Nat
  PROVE  /\ Progress(n, m) \in StatusType /\ Progress(n, m).running
         /\ Progress(n, m).discovered_candidates = status.discovered_candidates
  BY DEF Progress, StatusType, TypeOK

LEMMA InitIInv == ASSUME Init PROVE IInv
<1> USE ScanAssumption
<1>1. TypeOK
  <2>1. /\ [w \in Workers |-> "absent"] \in [Workers -> WorkerState] /\ "none" \in TaskState
        /\ [w \in Workers |-> 0] \in [Workers -> Nat]
    BY DEF WorkerState, TaskState
  <2>2. NoScan \in ScanType /\ Idle \in StatusType
    BY <2>1 DEF NoScan, ScanType, Idle, StatusType
  <2>3. scans \in [Scans -> ScanType] /\ status \in StatusType
    BY <2>2 DEF Init
  <2>4. 0 \in 0..MaxScans
    OBVIOUS
  <2> QED
    BY <2>3, <2>4 DEF Init, TypeOK
<1>2. /\ NoScan.task = "none" /\ NoScan.total = 0 /\ NoScan.next_index = 0
      /\ NoScan.completed = 0 /\ NoScan.discovered = 0 /\ NoScan.positive = {}
      /\ NoScan.worker = [w \in Workers |-> "absent"]
  BY DEF NoScan
<1>3. Taken(NoScan) = {} /\ Probing(NoScan) = {} /\ Over(NoScan) = {}
  BY <1>2 DEF Taken, Probing, Over
<1>4. ScanInv(NoScan)
  BY <1>2, <1>3, FS_EmptySet DEF ScanInv
<1>5. GatherInv(NoScan)
  BY <1>2 DEF GatherInv, Active
<1>6. \A g \in Scans : scans[g] = NoScan
  BY DEF Init
<1>7. ManagerInv
  BY <1>2, <1>6 DEF Init, ManagerInv, RunningScanIsShown, Gathering
<1> QED
  BY <1>1, <1>4, <1>5, <1>6, <1>7 DEF IInv

LEMMA StartScanStep == ASSUME IInv, NEW n \in HostCounts, StartScan(n) PROVE IInv'
<1> USE ScanAssumption
<1> DEFINE t == [NoScan EXCEPT !.task = "gathering", !.total = n,
                               !.worker = CreatedWorkers(n)]
           g0 == started + 1
<1>1. /\ ~closed /\ ~Gathering /\ started < MaxScans /\ started' = g0 /\ scan_task' = g0
      /\ scans' = [scans EXCEPT ![g0] = t]
      /\ status' = [Idle EXCEPT !.running = TRUE, !.total_hosts = n]
      /\ UNCHANGED <<closed, stopping>>
  BY DEF StartScan
<1>2. t \in ScanType /\ ScanInv(t) /\ GatherInv(t) /\ t.task = "gathering"
  BY StartedFacts
<1> HIDE DEF t
<1>3. g0 \in Scans /\ started \in Nat /\ scans \in [Scans -> ScanType]
  BY <1>1 DEF IInv, TypeOK, Scans
<1>4. status' \in StatusType /\ status'.running
  BY <1>1 DEF Idle, StatusType
<1>5. TypeOK'
  BY <1>1, <1>2, <1>3, <1>4 DEF IInv, TypeOK, Scans
<1>6. scans'[g0] = t /\ \A g \in Scans : g # g0 => scans'[g] = scans[g]
  BY <1>1, <1>3
<1>7. (\A g \in Scans : ScanInv(scans[g]) /\ GatherInv(scans[g]))'
  BY <1>2, <1>6 DEF IInv
<1>8. ManagerInv'
  <2>1. \A g \in Scans : g # g0 => scans[g].task # "gathering"
    BY <1>1 DEF IInv, ManagerInv, Gathering, Scans
  <2>2. stopping' = "no" /\ closed' = FALSE
    BY <1>1 DEF IInv, ManagerInv, TypeOK
  <2>3. \A g \in Scans : g > g0 => scans'[g].task = "none"
    BY <1>3, <1>6 DEF IInv, ManagerInv, Scans
  <2>4. RunningScanIsShown'
    BY <1>4 DEF RunningScanIsShown
  <2>5. scans'[g0].task = "gathering"
    BY <1>2, <1>6
  <2> QED
    BY <1>1, <1>6, <2>1, <2>2, <2>3, <2>4, <2>5 DEF ManagerInv
<1> QED
  BY <1>5, <1>7, <1>8 DEF IInv

(* A worker's step keeps what links it to its scan's task. *)
LEMMA GatherKept ==
  ASSUME NEW s \in ScanType, GatherInv(s), NEW t \in ScanType, NEW w \in Workers,
         s.worker[w] \in {"ready", "probing"},
         t.task = s.task, t.total = s.total,
         \A v \in Workers : v # w => t.worker[v] = s.worker[v],
         t.worker[w] \in {"returned", "probing", "raised"}
  PROVE  GatherInv(t) /\ s.task \notin {"none", "returned"}
<1> USE ScanAssumption
<1>1. w \in Active(s) /\ s.task \notin {"none", "returned"}
  BY DEF Active, GatherInv
<1>2. 1 \in Workers
  BY DEF Workers
<1>3. t.worker[1] # "absent"
  BY <1>1, <1>2 DEF GatherInv
<1>4. Raised(s) => Raised(t)
  BY DEF Raised
<1> QED
  BY <1>1, <1>3, <1>4 DEF GatherInv

LEMMA WorkerRunsStep ==
  ASSUME IInv, NEW g \in Scans, NEW w \in Workers, WorkerRuns(g, w) PROVE IInv'
<1>1. PICK t \in ScanType :
        /\ Continue(g, t)
        /\ ScanInv(t)
        /\ t.task = scans[g].task /\ t.total = scans[g].total
        /\ \A v \in Workers : v # w => t.worker[v] = scans[g].worker[v]
        /\ t.worker[w] \in {"returned", "probing", "raised"}
  BY WorkerStep
<1>2. UNCHANGED <<closed, stopping, scan_task, started>>
      /\ scans[g].worker[w] \in {"ready", "probing"}
  BY WorkerStep
<1>3. /\ scans' = [scans EXCEPT ![g] = t] /\ scans[g] \in ScanType
      /\ scans \in [Scans -> ScanType] /\ GatherInv(scans[g]) /\ t.total \in Nat
      /\ t.completed \in Nat
  BY <1>1 DEF Continue, IInv, TypeOK, ScanType
<1>4. scans'[g] = t /\ \A h \in Scans : h # g => scans'[h] = scans[h]
  BY <1>3
<1>5. GatherInv(t) /\ scans[g].task \notin {"none", "returned"}
  BY <1>1, <1>2, <1>3, GatherKept
<1>6. status' = status \/ status' = Progress(t.completed, t.total)
  BY <1>1 DEF Continue
<1>7. /\ status' \in StatusType
      /\ status.running => status'.running
      /\ status'.discovered_candidates = status.discovered_candidates
  BY <1>3, <1>6, ProgressTyped DEF IInv, TypeOK
<1>8. TypeOK'
  BY <1>2, <1>3, <1>7 DEF IInv, TypeOK
<1>9. (\A h \in Scans : ScanInv(scans[h]) /\ GatherInv(scans[h]))'
  BY <1>1, <1>4, <1>5 DEF IInv
<1>10. ManagerInv'
  <2>1. \A h \in Scans : scans'[h].task = scans[h].task
    BY <1>1, <1>4
  <2>2. scan_task # 0 => scan_task \in Scans
    BY DEF IInv, TypeOK, Scans
  <2>3. RunningScanIsShown'
    BY <1>2, <1>7, <2>1, <2>2 DEF RunningScanIsShown, Gathering, IInv, ManagerInv
  <2>4. scan_task # 0 /\ scans'[scan_task].task = "returned" =>
          status'.discovered_candidates = scans'[scan_task].discovered
    BY <1>4, <1>5, <1>7, <2>1, <2>2 DEF IInv, ManagerInv
  <2> QED
    BY <1>2, <2>1, <2>3, <2>4 DEF IInv, ManagerInv
<1> QED
  BY <1>8, <1>9, <1>10 DEF IInv

LEMMA ScanFinishes ==
  ASSUME IInv, NEW g \in Scans, ScanFails(g) \/ ScanEnds(g) PROVE IInv'
<1> USE ScanAssumption
<1> DEFINE s == scans[g]
<1>1. PICK x \in {"raised", "returned"} :
        /\ scans' = [scans EXCEPT ![g].task = x]
        /\ x = "raised" => Raised(s)
        /\ x = "returned" => /\ ~Raised(s) /\ Active(s) = {}
                             /\ status'.discovered_candidates = s.discovered
        /\ status' \in StatusType
        /\ s.task = "gathering"
  BY DEF ScanFails, ScanEnds, Discovered, StatusType, IInv, TypeOK, ScanType
<1>2. UNCHANGED <<closed, stopping, scan_task, started>>
  BY DEF ScanFails, ScanEnds
<1>3. s \in ScanType /\ scans \in [Scans -> ScanType] /\ ScanInv(s) /\ GatherInv(s)
  BY DEF IInv, TypeOK
<1> HIDE DEF s
<1> DEFINE t == [s EXCEPT !.task = x]
<1>4. /\ t \in ScanType /\ ScanInv(t) /\ t.task = x
      /\ t.worker = s.worker /\ t.completed = s.completed /\ t.total = s.total
      /\ t.next_index = s.next_index /\ t.discovered = s.discovered
      /\ Probing(t) = Probing(s) /\ Over(t) = Over(s)
      /\ Raised(t) = Raised(s) /\ Active(t) = Active(s)
  <2>1. x \in TaskState
    BY DEF TaskState
  <2> QED
    BY <1>3, <2>1, TaskChange
<1>5. scans' = [scans EXCEPT ![g] = t]
  BY <1>1, <1>3 DEF s
<1> HIDE DEF t
<1>6. scans'[g] = t /\ \A h \in Scans : h # g => scans'[h] = scans[h]
  BY <1>3, <1>5
<1>7. x = "returned" => t.completed = t.total
  <2> SUFFICES ASSUME x = "returned" PROVE t.completed = t.total
    OBVIOUS
  <2>1. 1 \in Workers /\ s.worker[1] \in WorkerState
    BY <1>3 DEF Workers, ScanType
  <2>2. s.worker[1] = "returned"
    BY <1>1, <2>1, <1>3 DEF GatherInv, Active, Raised, WorkerState
  <2>3. s.next_index = s.total
    BY <1>3, <2>1, <2>2 DEF ScanInv
  <2>4. Probing(s) = {} /\ Over(s) = Taken(s)
    BY <1>1 DEF Probing, Active, Over
  <2> QED
    BY <1>3, <1>4, <2>3, <2>4, HostSets DEF ScanInv
<1>8. GatherInv(t)
  BY <1>1, <1>3, <1>4, <1>7 DEF GatherInv
<1>9. TypeOK'
  BY <1>1, <1>2, <1>3, <1>4, <1>5 DEF IInv, TypeOK
<1>10. (\A h \in Scans : ScanInv(scans[h]) /\ GatherInv(scans[h]))'
  BY <1>4, <1>6, <1>8 DEF IInv
<1>11. ManagerInv'
  <2>1. scan_task = g /\ \A h \in Scans : h # g => scans[h].task # "gathering"
    BY <1>1 DEF IInv, ManagerInv, s
  <2>2. RunningScanIsShown'
    BY <1>2, <1>4, <1>6, <2>1 DEF RunningScanIsShown, Gathering
  <2>3. scans[g].task = "gathering"
    BY <1>1 DEF s
  <2> QED
    BY <1>1, <1>2, <1>4, <1>6, <2>1, <2>2, <2>3 DEF IInv, ManagerInv
<1> QED
  BY <1>9, <1>10, <1>11 DEF IInv

LEMMA StopSteps ==
  ASSUME IInv, StopBegins \/ StopCancels \/ StopReturns PROVE IInv'
<1> USE ScanAssumption
<1>0. CASE StopBegins
  <2>1. /\ ~closed /\ closed' = TRUE /\ stopping' = "browser"
        /\ UNCHANGED <<scan_task, started, scans, status>>
    BY <1>0 DEF StopBegins
  <2>2. ManagerInv'
    BY <2>1 DEF IInv, ManagerInv, RunningScanIsShown, Gathering
  <2> QED
    BY <2>1, <2>2 DEF IInv, TypeOK
<1>1. CASE StopReturns
  <2>1. /\ stopping = "scan" /\ stopping' = "stopped" /\ scan_task' = 0
        /\ UNCHANGED <<closed, started, scans, status>>
    BY <1>1 DEF StopReturns
  <2>2. ManagerInv'
    BY <2>1 DEF IInv, ManagerInv, RunningScanIsShown, Gathering
  <2>3. 0 \in 0..MaxScans
    OBVIOUS
  <2> QED
    BY <2>1, <2>2, <2>3 DEF IInv, TypeOK
<1>2. CASE StopCancels /\ ~Gathering
  <2>1. /\ UNCHANGED <<closed, scan_task, started, scans, status>>
        /\ stopping = "browser" /\ stopping' = "scan"
    BY <1>2 DEF StopCancels
  <2>2. \A g \in Scans : scans[g].task # "gathering"
    BY <1>2 DEF IInv, ManagerInv, Gathering, Scans
  <2> QED
    BY <2>1, <2>2 DEF IInv, TypeOK, ManagerInv, RunningScanIsShown, Gathering
<1>3. CASE StopCancels /\ Gathering
  <2> DEFINE s == scans[scan_task]
             t == Cancelled(s)
  <2>1. /\ stopping = "browser" /\ stopping' = "scan" /\ Continue(scan_task, t)
        /\ UNCHANGED <<closed, scan_task, started>>
    BY <1>3 DEF StopCancels
  <2>2. /\ scan_task \in Scans /\ scans \in [Scans -> ScanType] /\ s.task = "gathering"
        /\ s \in ScanType /\ ScanInv(s) /\ GatherInv(s)
    BY <1>3 DEF Gathering, IInv, TypeOK, Scans
  <2> HIDE DEF s
  <2>3. /\ t \in ScanType /\ ScanInv(t) /\ t.task = "cancelled" /\ t.total = s.total
        /\ Raised(t) \/ Active(t) = {}
        /\ s.worker[1] # "absent" => t.worker[1] # "absent"
    BY <2>2, CancelledFacts
  <2> HIDE DEF t
  <2>4. GatherInv(t)
    BY <2>2, <2>3 DEF GatherInv
  <2>5. scans' = [scans EXCEPT ![scan_task] = t]
    BY <2>1 DEF Continue
  <2>6. scans'[scan_task] = t /\ \A h \in Scans : h # scan_task => scans'[h] = scans[h]
    BY <2>2, <2>5
  <2>7. status' \in StatusType
    <3>1. t.completed \in Nat /\ t.total \in Nat
      BY <2>3 DEF ScanType
    <3> QED
      BY <2>1, <3>1, ProgressTyped DEF Continue, IInv, TypeOK
  <2>8. TypeOK'
    BY <2>1, <2>2, <2>3, <2>5, <2>7 DEF IInv, TypeOK
  <2>9. (\A h \in Scans : ScanInv(scans[h]) /\ GatherInv(scans[h]))'
    BY <2>3, <2>4, <2>6 DEF IInv
  <2>10. ManagerInv'
    <3>1. \A h \in Scans : scans'[h].task # "gathering"
      BY <2>3, <2>6 DEF IInv, ManagerInv
    <3>2. \A h \in Scans : h > started => scans'[h].task = "none"
      BY <2>2, <2>6 DEF IInv, ManagerInv, TypeOK, Scans
    <3>3. RunningScanIsShown'
      BY <2>1, <2>3, <2>6 DEF RunningScanIsShown, Gathering
    <3>4. closed = TRUE
      BY <2>1 DEF IInv, ManagerInv
    <3> QED
      BY <2>1, <2>3, <2>6, <3>1, <3>2, <3>3, <3>4 DEF IInv, ManagerInv
  <2> QED
    BY <2>8, <2>9, <2>10 DEF IInv
<1> QED
  BY <1>0, <1>1, <1>2, <1>3

LEMMA NextIInv == ASSUME IInv, [Next]_vars PROVE IInv'
<1>1. CASE UNCHANGED vars
  BY <1>1 DEF vars, IInv, TypeOK, ManagerInv, RunningScanIsShown, Gathering
<1>2. CASE Next
  BY <1>2, StartScanStep, WorkerRunsStep, ScanFinishes, StopSteps DEF Next
<1> QED
  BY <1>1, <1>2

(* The inductive invariant holds of every behaviour. *)
THEOREM Inductive == Spec => []IInv
<1> QED
  BY InitIInv, NextIInv, PTL DEF Spec

(* Every variable keeps its type. *)
THEOREM TypesOK == Spec => []TypeOK
<1>1. IInv => TypeOK
  BY DEF IInv
<1> QED
  BY <1>1, Inductive, PTL

(* Progress counts exactly the hosts whose probe is over, also those whose  *)
(* probe raised or was cancelled, and all hosts once the scan returned      *)
(* (active_scan.py:68-84).                                                  *)
THEOREM CompletedCounts == Spec => []CompletedCountsEndedProbes
<1>1. IInv => CompletedCountsEndedProbes
  BY DEF IInv, ScanInv, GatherInv, TypeOK, CompletedCountsEndedProbes
<1> QED
  BY <1>1, Inductive, PTL

-----------------------------------------------------------------------------
(* The published status, beside scans that failed and still have workers.  *)

(* Total and completed hosts are those of one scan, the current or a failed *)
(* one; what is shown after the current scan ended, and who sets it.        *)
PublishedInv ==
  scan_task # 0 =>
    /\ \E g \in 1..scan_task :
         (g = scan_task \/ Raised(scans[g])) /\ CountsOf(g)
    /\ scans[scan_task].task = "returned" /\ status.running =>
         \E g \in 1..scan_task-1 : Raised(scans[g])
    /\ status.error => scans[scan_task].task = "raised"

LEMMA StartPublishes ==
  ASSUME IInv, NEW n \in HostCounts, StartScan(n) PROVE PublishedInv'
<1> USE ScanAssumption
<1> DEFINE t == [NoScan EXCEPT !.task = "gathering", !.total = n,
                               !.worker = CreatedWorkers(n)]
           g0 == started + 1
<1>1. /\ scans' = [scans EXCEPT ![g0] = t] /\ scan_task' = g0
      /\ status' = [Idle EXCEPT !.running = TRUE, !.total_hosts = n]
      /\ g0 \in Scans /\ scans \in [Scans -> ScanType] /\ started \in Nat
  BY DEF StartScan, IInv, TypeOK, Scans
<1>2. t.total = n /\ t.completed = 0 /\ t.task = "gathering"
  BY DEF NoScan
<1>3. status'.total_hosts = n /\ status'.completed_hosts = 0 /\ status'.error = FALSE
  BY <1>1 DEF Idle
<1> HIDE DEF t
<1>4. scans'[g0] = t
  BY <1>1
<1>5. g0 \in 1..g0
  BY <1>1
<1> HIDE DEF g0
<1> QED
  BY <1>1, <1>2, <1>3, <1>4, <1>5 DEF PublishedInv, CountsOf

(* A worker that publishes is one of the current scan or of a failed one.   *)
LEMMA WorkerPublishes ==
  ASSUME IInv, PublishedInv, NEW g \in Scans, NEW w \in Workers, WorkerRuns(g, w)
  PROVE  PublishedInv'
<1> USE ScanAssumption
<1> SUFFICES ASSUME scan_task' # 0 PROVE PublishedInv'
  BY DEF PublishedInv
<1>1. PICK t \in ScanType :
        /\ Continue(g, t)
        /\ t.task = scans[g].task /\ t.total = scans[g].total
        /\ \A v \in Workers : v # w => t.worker[v] = scans[g].worker[v]
        /\ t.worker[w] \in {"returned", "probing", "raised"}
  BY WorkerStep
<1>2. UNCHANGED <<closed, stopping, scan_task, started>>
      /\ scans[g].worker[w] \in {"ready", "probing"}
  BY WorkerStep
<1>3. /\ scans' = [scans EXCEPT ![g] = t] /\ scans[g] \in ScanType
      /\ scans \in [Scans -> ScanType] /\ GatherInv(scans[g])
      /\ scan_task \in Scans /\ scan_task \in Nat /\ g \in Nat /\ g >= 1
      /\ status \in StatusType /\ scan_task = started /\ scan_task >= 1
  BY <1>1, <1>2 DEF Continue, IInv, TypeOK, Scans, ManagerInv
<1>4. scans'[g] = t /\ \A h \in Scans : h # g => scans'[h] = scans[h]
  BY <1>3
<1>5. scans[g].task \notin {"none", "returned"}
  BY <1>1, <1>2, <1>3, GatherKept
<1>6. \A h \in Scans : Raised(scans[h]) => Raised(scans'[h])
  BY <1>1, <1>2, <1>4 DEF Raised
<1>7. g \in 1..scan_task
  BY <1>3, <1>5 DEF IInv, ManagerInv
<1>8. g = scan_task \/ Raised(scans'[g])
  <2>1. Active(scans[g]) # {}
    BY <1>2 DEF Active
  <2>2. scans[g].task = "gathering" \/ Raised(scans[g])
    BY <1>3, <2>1 DEF GatherInv
  <2> QED
    BY <1>6, <2>2 DEF IInv, ManagerInv
<1>9. CASE t.completed # scans[g].completed
  <2>1. status' = Progress(t.completed, t.total)
    BY <1>1, <1>9 DEF Continue
  <2>2. /\ status'.total_hosts = t.total /\ status'.completed_hosts = t.completed
        /\ status'.error = FALSE
    BY <1>3, <2>1 DEF Progress, StatusType
  <2>3. CountsOf(g)'
    BY <1>4, <2>2 DEF CountsOf
  <2>4. scans'[scan_task].task = "returned" => g \in 1..scan_task-1 /\ Raised(scans'[g])
    BY <1>1, <1>3, <1>4, <1>5, <1>7, <1>8
  <2> QED
    BY <1>2, <1>7, <1>8, <2>2, <2>3, <2>4 DEF PublishedInv
<1>10. CASE t.completed = scans[g].completed
  <2>1. status' = status
    BY <1>1, <1>10 DEF Continue
  <2>2. \A h \in Scans : /\ scans'[h].total = scans[h].total
                         /\ scans'[h].completed = scans[h].completed
                         /\ scans'[h].task = scans[h].task
    BY <1>1, <1>4, <1>10
  <2>3. 1..scan_task \subseteq Scans /\ 1..scan_task-1 \subseteq Scans
    BY <1>3 DEF Scans, IInv, TypeOK
  <2>4. \A h \in Scans : CountsOf(h) => CountsOf(h)'
    BY <2>1, <2>2 DEF CountsOf
  <2> QED
    BY <1>2, <1>3, <1>6, <2>1, <2>2, <2>3, <2>4 DEF PublishedInv
<1> QED
  BY <1>9, <1>10

LEMMA EndPublishes ==
  ASSUME IInv, PublishedInv, NEW g \in Scans, ScanFails(g) \/ ScanEnds(g)
  PROVE  PublishedInv'
<1> USE ScanAssumption
<1>1. PICK x \in {"raised", "returned"} :
        /\ scans' = [scans EXCEPT ![g].task = x]
        /\ scans[g].task = "gathering" /\ UNCHANGED scan_task
        /\ status'.total_hosts = status.total_hosts
        /\ status'.completed_hosts = status.completed_hosts
        /\ status'.running = FALSE /\ (status'.error => x = "raised")
  BY DEF ScanFails, ScanEnds, StatusType, IInv, TypeOK
<1>2. scan_task = g /\ scans \in [Scans -> ScanType] /\ scan_task # 0
      /\ 1..scan_task \subseteq Scans
  BY <1>1 DEF IInv, ManagerInv, TypeOK, Scans
<1>3. \A h \in Scans : /\ scans'[h].total = scans[h].total
                       /\ scans'[h].completed = scans[h].completed
                       /\ scans'[h].worker = scans[h].worker
  BY <1>1, <1>2 DEF ScanType
<1>4. scans'[g].task = x
  BY <1>1, <1>2 DEF ScanType
<1>5. \A h \in Scans : /\ CountsOf(h) => CountsOf(h)'
                       /\ Raised(scans[h]) => Raised(scans'[h])
  BY <1>1, <1>3 DEF CountsOf, Raised
<1> QED
  BY <1>1, <1>2, <1>4, <1>5 DEF PublishedInv

LEMMA StopPublishes ==
  ASSUME IInv, PublishedInv, StopBegins \/ StopCancels \/ StopReturns
  PROVE  PublishedInv'
<1> USE ScanAssumption
<1>1. CASE StopReturns
  BY <1>1 DEF StopReturns, PublishedInv
<1>2. CASE UNCHANGED <<scan_task, scans, status>>
  BY <1>2 DEF PublishedInv, CountsOf
<1>3. CASE StopCancels /\ Gathering
  <2> DEFINE s == scans[scan_task]
             t == Cancelled(s)
  <2>1. /\ Continue(scan_task, t) /\ UNCHANGED scan_task /\ scan_task # 0
        /\ s.task = "gathering"
    BY <1>3 DEF StopCancels, Gathering
  <2>2. /\ scan_task \in Scans /\ scans \in [Scans -> ScanType] /\ s \in ScanType
        /\ ScanInv(s) /\ status \in StatusType /\ scan_task \in 1..scan_task
        /\ 1..scan_task \subseteq Scans
    BY <2>1 DEF IInv, TypeOK, Scans
  <2> HIDE DEF s
  <2>3. t.task = "cancelled" /\ t.total = s.total
    BY <2>2, CancelledFacts
  <2> HIDE DEF t
  <2>4. scans' = [scans EXCEPT ![scan_task] = t]
    BY <2>1 DEF Continue
  <2>5. scans'[scan_task] = t /\ \A h \in Scans : h # scan_task => scans'[h] = scans[h]
    BY <2>2, <2>4
  <2>6. ~status.error
    BY <2>1 DEF PublishedInv, s
  <2>7. CASE t.completed # s.completed
    <3>1. status' = Progress(t.completed, t.total)
      BY <2>1, <2>7 DEF Continue, s
    <3>2. /\ status'.total_hosts = t.total /\ status'.completed_hosts = t.completed
          /\ status'.error = FALSE
      BY <2>2, <3>1 DEF Progress, StatusType
    <3>3. CountsOf(scan_task)'
      BY <2>1, <2>5, <3>2 DEF CountsOf
    <3> QED
      BY <2>1, <2>2, <2>3, <2>5, <3>2, <3>3 DEF PublishedInv
  <2>8. CASE t.completed = s.completed
    <3>1. status' = status
      BY <2>1, <2>8 DEF Continue, s
    <3>2. PICK g \in 1..scan_task : (g = scan_task \/ Raised(scans[g])) /\ CountsOf(g)
      BY <2>1 DEF PublishedInv
    <3>3. scans'[g].total = scans[g].total /\ scans'[g].completed = scans[g].completed
      BY <2>2, <2>3, <2>5, <2>8 DEF s
    <3>4. CountsOf(g)' /\ (g = scan_task \/ Raised(scans'[g]))
      BY <2>2, <2>5, <3>1, <3>2, <3>3 DEF CountsOf
    <3> QED
      BY <2>1, <2>3, <2>5, <2>6, <3>1, <3>4 DEF PublishedInv
  <2> QED
    BY <2>7, <2>8
<1> QED
  BY <1>1, <1>2, <1>3 DEF StopBegins, StopCancels

(* Whatever the workers of failed scans publish beside the current one: the *)
(* hosts shown are those of the current scan or of a failed one, running    *)
(* outlives the current scan only after a failed one, an error is the       *)
(* current scan's own, and its result is not touched (manager.py:123-144,   *)
(* 240-272).                                                                *)
THEOREM StatusFollows == Spec => []StatusFollowsScan
<1>1. Init => PublishedInv
  BY DEF Init, PublishedInv
<1>2. ASSUME IInv, PublishedInv, [Next]_vars PROVE PublishedInv'
  <2>1. CASE UNCHANGED vars
    BY <1>2, <2>1 DEF vars, PublishedInv, CountsOf
  <2>2. CASE Next
    BY <1>2, <2>2, StartPublishes, WorkerPublishes, EndPublishes, StopPublishes DEF Next
  <2> QED
    BY <1>2, <2>1, <2>2
<1>3. IInv /\ PublishedInv => StatusFollowsScan
  <2> SUFFICES ASSUME IInv, PublishedInv PROVE StatusFollowsScan
    OBVIOUS
  <2>1. RunningScanIsShown
    BY DEF IInv, ManagerInv
  <2>2. scan_task # 0 => scan_task \in Scans
    BY DEF IInv, TypeOK, Scans
  <2>3. scan_task # 0 /\ scans[scan_task].task = "returned" =>
          status.discovered_candidates = Cardinality(scans[scan_task].positive)
    BY <2>2 DEF IInv, ManagerInv, ScanInv
  <2> QED
    BY <2>1, <2>3 DEF PublishedInv, StatusFollowsScan
<1> QED
  BY <1>1, <1>2, <1>3, Inductive, PTL DEF Spec

-----------------------------------------------------------------------------
(* The stop.                                                               *)

(* The stop leaves no worker probing, except those of a scan that a raising *)
(* probe had already ended (manager.py:101-117).                            *)
THEOREM StopEnds == Spec => []StopEndsScan
<1>1. IInv => StopEndsScan
  <2> SUFFICES ASSUME IInv, stopping \in {"scan", "stopped"}, NEW g \in Scans
               PROVE  Raised(scans[g]) \/ Active(scans[g]) = {}
    BY DEF StopEndsScan
  <2>1. scans[g].task # "gathering"
    BY DEF IInv, ManagerInv
  <2> QED
    BY <2>1 DEF IInv, GatherInv
<1> QED
  BY <1>1, Inductive, PTL

-----------------------------------------------------------------------------
(* ActiveScan implements BoundedScan.                                      *)

(* A step that moves one scan on is a step of the abstract scan. *)
LEMMA MoveImplements ==
  ASSUME IInv, IInv', NEW g \in Scans, NEW t \in ScanType,
         scans' = [scans EXCEPT ![g] = t], Moves(scans[g], t)
  PROVE  Bounded!Next
<1>1. scans \in [Scans -> ScanType]
  BY DEF IInv, TypeOK
<1>2. PICK ended \in SUBSET Probing(scans[g]), begun \in SUBSET Todo(scans[g]),
           skipped \in SUBSET Todo(scans[g]) :
        /\ Todo(t) = Todo(scans[g]) \ (begun \cup skipped)
        /\ Probing(t) = (Probing(scans[g]) \ ended) \cup begun
        /\ Over(t) = Over(scans[g]) \cup ended \cup skipped
  BY DEF Moves
<1>3. scans'[g] = t /\ \A h \in Scans : h # g => scans'[h] = scans[h]
  BY <1>1
<1>4. Bounded!FitIn(Probing(t), Concurrency)
  <2> DEFINE slot == [h \in Probing(t) |->
                        CHOOSE w \in Workers : t.worker[w] = "probing" /\ t.host[w] = h]
  <2>1. \A h \in Probing(t) :
          slot[h] \in Workers /\ t.worker[slot[h]] = "probing" /\ t.host[slot[h]] = h
    BY DEF Probing
  <2>2. slot \in [Probing(t) -> 1..Concurrency]
    BY <2>1 DEF Workers
  <2>3. \A h, k \in Probing(t) : slot[h] = slot[k] => h = k
    BY <2>1
  <2> QED
    BY <2>2, <2>3 DEF Bounded!FitIn
<1>5. Bounded!Advance(g, ended, begun, skipped)
  <2>1. \A h \in Scans :
          /\ Todo(scans'[h]) = IF h = g THEN Todo(scans[g]) \ (begun \cup skipped)
                               ELSE Todo(scans[h])
          /\ Probing(scans'[h]) = IF h = g THEN (Probing(scans[g]) \ ended) \cup begun
                                  ELSE Probing(scans[h])
          /\ Over(scans'[h]) = IF h = g THEN Over(scans[g]) \cup ended \cup skipped
                               ELSE Over(scans[h])
    BY <1>2, <1>3
  <2>2. [h \in Scans |-> Todo(scans[h])]' =
          [[h \in Scans |-> Todo(scans[h])] EXCEPT ![g] = @ \ (begun \cup skipped)]
    BY <2>1
  <2>3. [h \in Scans |-> Probing(scans[h])]' =
          [[h \in Scans |-> Probing(scans[h])] EXCEPT ![g] = (@ \ ended) \cup begun]
    BY <2>1
  <2>4. [h \in Scans |-> Over(scans[h])]' =
          [[h \in Scans |-> Over(scans[h])] EXCEPT ![g] = @ \cup ended \cup skipped]
    BY <2>1
  <2>5. [h \in Scans |-> Probing(scans[h])]'[g] = Probing(t)
    BY <1>3
  <2> QED
    BY <1>4, <2>2, <2>3, <2>4, <2>5 DEF Bounded!Advance
<1> QED
  BY <1>2, <1>5 DEF Bounded!Next

(* A step that changes no host set is a stuttering step of the abstract one. *)
LEMMA SameHosts ==
  ASSUME \A g \in Scans : /\ Todo(scans'[g]) = Todo(scans[g])
                          /\ Probing(scans'[g]) = Probing(scans[g])
                          /\ Over(scans'[g]) = Over(scans[g])
  PROVE  UNCHANGED Bounded!vars
  BY DEF Bounded!vars

LEMMA InitImplements == ASSUME Init PROVE Bounded!Init
<1>1. \A g \in Scans : Todo(scans[g]) = {} /\ Probing(scans[g]) = {} /\ Over(scans[g]) = {}
  <2>1. /\ NoScan.next_index = 0 /\ NoScan.total = 0
        /\ NoScan.worker = [w \in Workers |-> "absent"]
    BY DEF NoScan
  <2>2. Todo(NoScan) = {} /\ Probing(NoScan) = {} /\ Over(NoScan) = {}
    BY <2>1 DEF Todo, Probing, Over, Taken
  <2> QED
    BY <2>2 DEF Init
<1> QED
  BY <1>1 DEF Bounded!Init

LEMMA StartImplements ==
  ASSUME IInv, NEW n \in HostCounts, StartScan(n) PROVE Bounded!Next
<1> USE ScanAssumption
<1> DEFINE t == [NoScan EXCEPT !.task = "gathering", !.total = n,
                               !.worker = CreatedWorkers(n)]
           g == started + 1
<1>1. /\ scans' = [scans EXCEPT ![g] = t] /\ g \in Scans /\ g > started
  BY DEF StartScan, IInv, TypeOK, Scans
<1>2. Todo(t) = 0..n-1 /\ Probing(t) = {} /\ Over(t) = {}
  BY StartedFacts
<1> HIDE DEF t, g
<1>3. Todo(scans[g]) = {} /\ Probing(scans[g]) = {} /\ Over(scans[g]) = {}
  <2>1. scans[g].total = 0 /\ scans[g].next_index = 0
        /\ \A w \in Workers : scans[g].worker[w] = "absent"
    BY <1>1 DEF IInv, ManagerInv, GatherInv
  <2> QED
    BY <2>1 DEF Todo, Probing, Over, Taken
<1>4. scans'[g] = t /\ \A h \in Scans : h # g => scans'[h] = scans[h]
  BY <1>1 DEF IInv, TypeOK
<1>5. \A h \in Scans :
        /\ Todo(scans'[h]) = IF h = g THEN 0..n-1 ELSE Todo(scans[h])
        /\ Probing(scans'[h]) = Probing(scans[h])
        /\ Over(scans'[h]) = Over(scans[h])
  BY <1>2, <1>3, <1>4
<1>6. [h \in Scans |-> Todo(scans[h])]' =
        [[h \in Scans |-> Todo(scans[h])] EXCEPT ![g] = 0..n-1]
  BY <1>5
<1>7. /\ [h \in Scans |-> Probing(scans[h])]' = [h \in Scans |-> Probing(scans[h])]
      /\ [h \in Scans |-> Over(scans[h])]' = [h \in Scans |-> Over(scans[h])]
  BY <1>5
<1>8. Bounded!Start(g)
  BY <1>1, <1>3, <1>6, <1>7 DEF Bounded!Start
<1> QED
  BY <1>1, <1>8 DEF Bounded!Next

(* Every scan of the code probes each host of its network at most once and  *)
(* at most Concurrency of them at a time, whatever the networks, the probes' *)
(* answers and exceptions, and the moment of the stop (active_scan.py:59-82, *)
(* manager.py:101-144).                                                     *)
THEOREM ScanIsBounded == Spec => BoundedSpec
<1>1. Init => Bounded!Init
  BY InitImplements
<1>2. ASSUME IInv, IInv', [Next]_vars
      PROVE  [Bounded!Next]_Bounded!vars
  <2>1. CASE \E n \in HostCounts : StartScan(n)
    BY <1>2, <2>1, StartImplements
  <2>2. ASSUME NEW g \in Scans, NEW w \in Workers, WorkerRuns(g, w)
        PROVE  Bounded!Next
    <3>1. PICK t \in ScanType : Continue(g, t) /\ Moves(scans[g], t)
      BY <1>2, <2>2, WorkerStep
    <3>2. scans' = [scans EXCEPT ![g] = t]
      BY <3>1 DEF Continue
    <3> QED
      BY <1>2, <3>1, <3>2, MoveImplements
  <2>3. ASSUME NEW g \in Scans, ScanFails(g) \/ ScanEnds(g)
        PROVE  UNCHANGED Bounded!vars
    <3>1. PICK x \in TaskState : scans' = [scans EXCEPT ![g].task = x]
      BY <2>3 DEF ScanFails, ScanEnds, TaskState
    <3>2. /\ scans \in [Scans -> ScanType] /\ scans[g] \in ScanType /\ ScanInv(scans[g])
      BY <1>2 DEF IInv, TypeOK
    <3> DEFINE s == scans[g]
               t == [s EXCEPT !.task = x]
    <3>3. scans' = [scans EXCEPT ![g] = t]
      BY <3>1, <3>2
    <3>4. Todo(t) = Todo(s) /\ Probing(t) = Probing(s) /\ Over(t) = Over(s)
      BY <3>2, TaskChange
    <3> HIDE DEF t
    <3>5. \A h \in Scans : scans'[h] = IF h = g THEN t ELSE scans[h]
      BY <3>2, <3>3
    <3> QED
      BY <3>4, <3>5, SameHosts
  <2>4. CASE StopBegins \/ StopReturns \/ UNCHANGED vars
    <3>1. scans' = scans
      BY <2>4 DEF StopBegins, StopReturns, vars
    <3> QED
      BY <3>1, SameHosts
  <2>5. CASE StopCancels
    <3>1. CASE ~Gathering
      <4>1. scans' = scans
        BY <2>5, <3>1 DEF StopCancels
      <4> QED
        BY <4>1, SameHosts
    <3>2. CASE Gathering
      <4> DEFINE s == scans[scan_task]
                 t == Cancelled(s)
      <4>1. scan_task \in Scans /\ s \in ScanType /\ ScanInv(s)
        BY <1>2, <3>2 DEF Gathering, IInv, TypeOK, Scans
      <4>2. scans' = [scans EXCEPT ![scan_task] = t]
        BY <2>5, <3>2 DEF StopCancels, Continue
      <4>3. t \in ScanType /\ Moves(s, t)
        BY <4>1, CancelledFacts
      <4> HIDE DEF t
      <4> QED
        BY <1>2, <4>1, <4>2, <4>3, MoveImplements
    <3> QED
      BY <3>1, <3>2
  <2> QED
    BY <1>2, <2>1, <2>2, <2>3, <2>4, <2>5 DEF Next
<1> QED
  BY <1>1, <1>2, Inductive, PTL DEF Spec, BoundedSpec, Bounded!Spec

=============================================================================
