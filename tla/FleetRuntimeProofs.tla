--------------------------- MODULE FleetRuntimeProofs ---------------------------
(***************************************************************************)
(* The safety of FleetRuntime for every set of miners and hosts and any    *)
(* number of concurrent calls, reloads and moves of the network.           *)
(***************************************************************************)
EXTENDS FleetRuntime, FiniteSetTheorems, SequenceTheorems, TLAPS

(* The coordinators a runtime lists are alive and of the miner they are    *)
(* listed for, and no other one is alive.                                  *)
Listing(r) ==
  /\ \A m \in Miners : r.coordinators[m] # 0 =>
       /\ r.coordinators[m] \in 1..Len(r.objects)
       /\ r.objects[r.coordinators[m]].miner = m
       /\ ~r.objects[r.coordinators[m]].shut
  /\ \A c \in 1..Len(r.objects) :
       ~r.objects[c].shut => r.coordinators[r.objects[c].miner] = c

Fits(r) == r \in Runtime /\ Listing(r)

(* The objects of a runtime never vanish nor change their miner.           *)
Grows(r, n) ==
  /\ Len(r.objects) <= Len(n.objects)
  /\ \A c \in 1..Len(r.objects) : n.objects[c].miner = r.objects[c].miner

(* What a poll or a count leaves alone.                                    *)
Same(r, n) ==
  /\ n.coordinators = r.coordinators
  /\ n.candidates = r.candidates
  /\ Len(n.objects) = Len(r.objects)
  /\ \A c \in 1..Len(r.objects) :
       /\ n.objects[c].miner = r.objects[c].miner
       /\ n.objects[c].host = r.objects[c].host
       /\ n.objects[c].shut = r.objects[c].shut

-----------------------------------------------------------------------------
(* The pieces of the coroutines: what they make of a runtime.              *)

LEMMA RuntimeFields ==
  ASSUME NEW r \in Runtime
  PROVE  /\ r.coordinators \in [Miners -> Nat] /\ r.objects \in Seq(Coordinator)
         /\ r.totals \in Totals /\ r.candidates \in [Miners -> Hosts \cup {NoHost}]
         /\ Len(r.objects) \in Nat
         /\ \A c \in 1..Len(r.objects) : r.objects[c] \in Coordinator
         /\ r = [coordinators |-> r.coordinators, objects |-> r.objects,
                 totals |-> r.totals, candidates |-> r.candidates]
<1>1. /\ r.coordinators \in [Miners -> Nat] /\ r.objects \in Seq(Coordinator)
      /\ r.totals \in Totals /\ r.candidates \in [Miners -> Hosts \cup {NoHost}]
      /\ r = [coordinators |-> r.coordinators, objects |-> r.objects,
              totals |-> r.totals, candidates |-> r.candidates]
  BY DEF Runtime
<1>2. Len(r.objects) \in Nat
  BY <1>1, LenProperties
<1>3. \A c \in 1..Len(r.objects) : r.objects[c] \in Coordinator
  BY <1>1, ElementOfSeq
<1> QED
  BY <1>1, <1>2, <1>3

(* One coordinator replaced by another state of it.                        *)
LEMMA ObjectReplaced ==
  ASSUME NEW r \in Runtime, NEW c \in 1..Len(r.objects), NEW x \in Coordinator,
         NEW n, n = [r EXCEPT !.objects = [r.objects EXCEPT ![c] = x]]
  PROVE  /\ n \in Runtime /\ n.coordinators = r.coordinators
         /\ n.candidates = r.candidates /\ n.totals = r.totals
         /\ Len(n.objects) = Len(r.objects) /\ n.objects[c] = x
         /\ \A d \in 1..Len(r.objects) : d # c => n.objects[d] = r.objects[d]
<1> DEFINE o == [r.objects EXCEPT ![c] = x]
<1>1. r.objects \in Seq(Coordinator)
  BY RuntimeFields
<1>2. /\ o \in Seq(Coordinator) /\ Len(o) = Len(r.objects)
      /\ \A d \in 1..Len(r.objects) : o[d] = IF d = c THEN x ELSE r.objects[d]
  BY <1>1, ExceptSeq
<1> HIDE DEF o
<1>3. n = [r EXCEPT !.objects = o]
  BY DEF o
<1>4. /\ n.objects = o /\ n.coordinators = r.coordinators
      /\ n.candidates = r.candidates /\ n.totals = r.totals /\ n \in Runtime
  BY <1>2, <1>3 DEF Runtime
<1> QED
  BY <1>2, <1>4

LEMMA SameFits ==
  ASSUME NEW r, Fits(r), NEW n \in Runtime, Same(r, n)
  PROVE  Fits(n) /\ Grows(r, n)
<1>1. r \in Runtime /\ Len(r.objects) \in Nat /\ Len(n.objects) = Len(r.objects)
  BY RuntimeFields DEF Fits, Same
<1>2. Grows(r, n)
  BY <1>1 DEF Same, Grows
<1>3. ASSUME NEW m \in Miners, n.coordinators[m] # 0
      PROVE  /\ n.coordinators[m] \in 1..Len(n.objects)
             /\ n.objects[n.coordinators[m]].miner = m
             /\ ~n.objects[n.coordinators[m]].shut
  BY <1>1, <1>3 DEF Same, Fits, Listing
<1>4. ASSUME NEW c \in 1..Len(n.objects), ~n.objects[c].shut
      PROVE  n.coordinators[n.objects[c].miner] = c
  BY <1>1, <1>4 DEF Same, Fits, Listing
<1> QED
  BY <1>2, <1>3, <1>4 DEF Fits, Listing

LEMMA EnabledType ==
  ASSUME NEW recs
  PROVE  EnabledIn(recs) \subseteq Miners
BY DEF EnabledIn

(* Counting changes the totals alone.                                      *)
LEMMA CountedPiece ==
  ASSUME NEW r \in Runtime, NEW recs
  PROVE  /\ Counted(r, recs) \in Runtime /\ Same(r, Counted(r, recs))
         /\ Counted(r, recs).objects = r.objects
         /\ Counted(r, recs).totals = [enabled |-> EnabledIn(recs),
                                       online |-> {m \in EnabledIn(recs) : Online(r, m)}]
<1> DEFINE totals == [enabled |-> EnabledIn(recs),
                      online |-> {m \in EnabledIn(recs) : Online(r, m)}]
<1>1. totals \in Totals
  BY EnabledType DEF Totals
<1> HIDE DEF totals
<1>2. Counted(r, recs) = [r EXCEPT !.totals = totals]
  BY DEF Counted, totals
<1>3. /\ Counted(r, recs) \in Runtime /\ Counted(r, recs).totals = totals
      /\ Counted(r, recs).objects = r.objects
      /\ Counted(r, recs).coordinators = r.coordinators
      /\ Counted(r, recs).candidates = r.candidates
  BY <1>1, <1>2 DEF Runtime
<1> QED
  BY <1>3 DEF Same, totals

LEMMA NotifiedPiece ==
  ASSUME NEW r \in Runtime, NEW recs, NEW c
  PROVE  /\ Notified(r, recs, c) \in {r, Counted(r, recs)}
         /\ Notified(r, recs, c) \in Runtime /\ Same(r, Notified(r, recs, c))
         /\ Notified(r, recs, c).objects = r.objects
BY CountedPiece DEF Notified, Same

(* The totals are those of the registry and the coordinators.              *)
Tallied(r, recs) ==
  r.totals = [enabled |-> EnabledIn(recs),
              online |-> {m \in EnabledIn(recs) : Online(r, m)}]

(* The listed coordinators did not change what the totals count.           *)
Hushed(r, n) ==
  /\ n.totals = r.totals
  /\ n.coordinators = r.coordinators
  /\ \A m \in Miners : r.coordinators[m] # 0 =>
       /\ n.objects[r.coordinators[m]].ok = r.objects[r.coordinators[m]].ok
       /\ n.objects[r.coordinators[m]].heard = r.objects[r.coordinators[m]].heard

(* From r to n the totals were counted, or there is nothing new to count.  *)
Counts(r, n, recs) == Tallied(n, recs) \/ Hushed(r, n)

LEMMA CountedTally ==
  ASSUME NEW r \in Runtime, NEW recs
  PROVE  Tallied(Counted(r, recs), recs)
<1>1. \A m \in Miners : Online(Counted(r, recs), m) <=> Online(r, m)
  BY CountedPiece DEF Same, Online
<1> QED
  BY <1>1, CountedPiece, EnabledType DEF Tallied

LEMMA EndedTask ==
  ASSUME NEW r, NEW recs, NEW task
  PROVE  /\ task.kind = "enroll" =>
              Ended(r, recs, task).task = [task EXCEPT !.pc = "reloading"]
         /\ task.kind # "enroll" => Ended(r, recs, task).task = Idle
<1>1. CASE task.kind = "enroll"
  BY <1>1 DEF Ended, Both
<1>2. CASE task.kind = "switch"
  BY <1>2 DEF Ended, Both
<1>3. CASE task.kind \notin {"enroll", "switch"}
  BY <1>3 DEF Ended, Both
<1> QED
  BY <1>1, <1>2, <1>3

LEMMA EndedPiece ==
  ASSUME NEW r \in Runtime, NEW recs, NEW task
  PROVE  /\ Ended(r, recs, task).runtime \in {r, Counted(r, recs)}
         /\ task.kind = "switch" => Ended(r, recs, task).runtime = Counted(r, recs)
         /\ Ended(r, recs, task).runtime \in Runtime
         /\ Same(r, Ended(r, recs, task).runtime)
         /\ Ended(r, recs, task).runtime.objects = r.objects
         /\ Counts(r, Ended(r, recs, task).runtime, recs)
<1> DEFINE e == Ended(r, recs, task)
<1>1. /\ e.runtime \in {r, Counted(r, recs)}
      /\ task.kind = "switch" => e.runtime = Counted(r, recs)
  <2>1. CASE task.kind = "enroll"
    BY <2>1 DEF Ended, Both
  <2>2. CASE task.kind = "switch"
    BY <2>2 DEF Ended, Both
  <2>3. CASE task.kind \notin {"enroll", "switch"}
    BY <2>3 DEF Ended, Both
  <2> QED
    BY <2>1, <2>2, <2>3
<1> HIDE DEF e
<1>2. e.runtime \in Runtime /\ Same(r, e.runtime) /\ e.runtime.objects = r.objects
  <2>1. CASE e.runtime = r
    BY <2>1 DEF Same
  <2>2. CASE e.runtime = Counted(r, recs)
    BY <2>2, CountedPiece
  <2> QED
    BY <1>1, <2>1, <2>2
<1>3. Counts(r, e.runtime, recs)
  BY <1>1, CountedTally DEF Counts, Hushed
<1> QED
  BY <1>1, <1>2, <1>3 DEF e

(* A poll that failed.                                                     *)
LEMMA FailedPiece ==
  ASSUME NEW r, Fits(r), NEW recs, NEW c \in 1..Len(r.objects)
  PROVE  /\ Failed(r, recs, c) \in Runtime /\ Same(r, Failed(r, recs, c))
         /\ \A d \in 1..Len(r.objects) :
              Failed(r, recs, c).objects[d].polled = r.objects[d].polled
         /\ ~Failed(r, recs, c).objects[c].ok
         /\ Counts(r, Failed(r, recs, c), recs)
         /\ r.objects[c].ok /\ r.coordinators[r.objects[c].miner] = c =>
              Tallied(Failed(r, recs, c), recs)
<1> DEFINE x == [r.objects[c] EXCEPT !.ok = FALSE]
           f == [r EXCEPT !.objects[c].ok = FALSE]
           n == Failed(r, recs, c)
<1>1. /\ r \in Runtime /\ r.objects[c] \in Coordinator /\ r.objects[c].miner \in Miners
      /\ c \in 1..Len(r.objects) /\ c # 0
  BY RuntimeFields DEF Fits, Coordinator
<1>2. /\ x \in Coordinator /\ ~x.ok
      /\ x.miner = r.objects[c].miner /\ x.host = r.objects[c].host
      /\ x.shut = r.objects[c].shut /\ x.polled = r.objects[c].polled
  BY <1>1 DEF Coordinator
<1>3. f = [r EXCEPT !.objects = [r.objects EXCEPT ![c] = x]]
  OBVIOUS
<1> HIDE DEF x, f
<1>4. /\ f \in Runtime /\ f.coordinators = r.coordinators
      /\ f.candidates = r.candidates /\ f.totals = r.totals
      /\ Len(f.objects) = Len(r.objects) /\ f.objects[c] = x
      /\ \A d \in 1..Len(r.objects) : d # c => f.objects[d] = r.objects[d]
  BY <1>1, <1>2, <1>3, ObjectReplaced
<1>5. Same(r, f) /\ \A d \in 1..Len(r.objects) : f.objects[d].polled = r.objects[d].polled
  BY <1>2, <1>4 DEF Same
<1>6. n = IF r.objects[c].ok THEN Notified(f, recs, c) ELSE f
  BY DEF Failed, f
<1> HIDE DEF n
<1>7. n \in {f, Counted(f, recs)} /\ n \in Runtime /\ Same(f, n) /\ n.objects = f.objects
  BY <1>4, <1>6, NotifiedPiece DEF Same
<1>8. Same(r, n)
  BY <1>5, <1>7 DEF Same
<1>9. r.objects[c].ok /\ r.coordinators[r.objects[c].miner] = c => Tallied(n, recs)
  <2> SUFFICES ASSUME r.objects[c].ok, r.coordinators[r.objects[c].miner] = c
               PROVE  Tallied(n, recs)
    OBVIOUS
  <2>1. n = Counted(f, recs)
    BY <1>2, <1>4, <1>6 DEF Notified
  <2> QED
    BY <1>4, <2>1, CountedTally
<1>10. Counts(r, n, recs)
  <2>1. CASE n = Counted(f, recs)
    BY <1>4, <2>1, CountedTally DEF Counts
  <2>2. CASE n = f /\ ~(r.objects[c].ok /\ r.coordinators[r.objects[c].miner] = c)
    <3>1. ASSUME NEW m \in Miners, r.coordinators[m] # 0
          PROVE  /\ n.objects[r.coordinators[m]].ok = r.objects[r.coordinators[m]].ok
                 /\ n.objects[r.coordinators[m]].heard = r.objects[r.coordinators[m]].heard
      <4>1. r.coordinators[m] \in 1..Len(r.objects) /\ r.objects[r.coordinators[m]].miner = m
        BY <3>1 DEF Fits, Listing
      <4>2. CASE r.coordinators[m] = c
        <5>1. ~r.objects[c].ok
          BY <2>2, <4>1, <4>2
        <5>2. x = r.objects[c]
          BY <1>1, <5>1 DEF x, Coordinator
        <5> QED
          BY <1>4, <2>2, <4>2, <5>2
      <4>3. CASE r.coordinators[m] # c
        BY <1>4, <2>2, <4>1, <4>3
      <4> QED
        BY <4>2, <4>3
    <3> QED
      BY <1>4, <2>2, <3>1 DEF Counts, Hushed
  <2> QED
    BY <1>7, <1>9, <2>1, <2>2 DEF Counts
<1> QED
  BY <1>2, <1>4, <1>5, <1>7, <1>8, <1>9, <1>10 DEF n

(* A snapshot that was published.                                          *)
LEMMA PublishedPiece ==
  ASSUME NEW r, Fits(r), NEW recs, NEW c \in 1..Len(r.objects)
  PROVE  /\ Published(r, recs, c) \in Runtime /\ Same(r, Published(r, recs, c))
         /\ \A d \in 1..Len(r.objects) :
              Published(r, recs, c).objects[d].polled = r.objects[d].polled
         /\ Published(r, recs, c).objects[c].heard
         /\ Counts(r, Published(r, recs, c), recs)
         /\ r.coordinators[r.objects[c].miner] = c => Tallied(Published(r, recs, c), recs)
<1> DEFINE x == [r.objects[c] EXCEPT !.ok = TRUE, !.heard = TRUE]
           f == [r EXCEPT !.objects[c].ok = TRUE, !.objects[c].heard = TRUE]
           n == Published(r, recs, c)
<1>1. /\ r \in Runtime /\ r.objects[c] \in Coordinator /\ r.objects[c].miner \in Miners
      /\ c # 0 /\ r.objects \in Seq(Coordinator)
  <2>1. r \in Runtime
    BY DEF Fits
  <2>2. r.objects \in Seq(Coordinator) /\ r.objects[c] \in Coordinator /\ c # 0
    BY <2>1, RuntimeFields
  <2> QED
    BY <2>1, <2>2 DEF Coordinator
<1>2. /\ x \in Coordinator /\ x.heard
      /\ x.miner = r.objects[c].miner /\ x.host = r.objects[c].host
      /\ x.shut = r.objects[c].shut /\ x.polled = r.objects[c].polled
  BY <1>1 DEF Coordinator
<1>3. f = [r EXCEPT !.objects = [r.objects EXCEPT ![c] = x]]
  BY <1>1, LenProperties DEF Runtime
<1> HIDE DEF x, f
<1>4. /\ f \in Runtime /\ f.coordinators = r.coordinators
      /\ f.candidates = r.candidates /\ f.totals = r.totals
      /\ Len(f.objects) = Len(r.objects) /\ f.objects[c] = x
      /\ \A d \in 1..Len(r.objects) : d # c => f.objects[d] = r.objects[d]
  BY <1>1, <1>2, <1>3, ObjectReplaced
<1>5. Same(r, f) /\ \A d \in 1..Len(r.objects) : f.objects[d].polled = r.objects[d].polled
  BY <1>2, <1>4 DEF Same
<1>6. n = Notified(f, recs, c)
  BY DEF Published, f
<1> HIDE DEF n
<1>7. n \in {f, Counted(f, recs)} /\ n \in Runtime /\ Same(f, n) /\ n.objects = f.objects
  BY <1>4, <1>6, NotifiedPiece
<1>8. Same(r, n)
  BY <1>5, <1>7 DEF Same
<1>9. r.coordinators[r.objects[c].miner] = c => Tallied(n, recs)
  <2> SUFFICES ASSUME r.coordinators[r.objects[c].miner] = c
               PROVE  Tallied(n, recs)
    OBVIOUS
  <2>1. n = Counted(f, recs)
    BY <1>2, <1>4, <1>6 DEF Notified
  <2> QED
    BY <1>4, <2>1, CountedTally
<1>10. Counts(r, n, recs)
  <2>1. CASE n = Counted(f, recs)
    BY <1>4, <2>1, CountedTally DEF Counts
  <2>2. CASE n = f /\ r.coordinators[r.objects[c].miner] # c
    <3>1. ASSUME NEW m \in Miners, r.coordinators[m] # 0
          PROVE  n.objects[r.coordinators[m]] = r.objects[r.coordinators[m]]
      <4>1. r.coordinators[m] \in 1..Len(r.objects) /\ r.coordinators[m] # c
        BY <1>1, <2>2, <3>1 DEF Fits, Listing
      <4> QED
        BY <1>4, <2>2, <4>1
    <3> QED
      BY <1>4, <2>2, <3>1 DEF Counts, Hushed
  <2> QED
    BY <1>7, <1>9, <2>1, <2>2 DEF Counts
<1> QED
  BY <1>2, <1>4, <1>5, <1>7, <1>8, <1>9, <1>10 DEF n

(* A new coordinator is alive and has not been polled; the others stay.    *)
LEMMA CreatedObject ==
  ASSUME NEW r \in Runtime, NEW m \in Miners, NEW host \in Hosts
  PROVE  /\ LET x == Created(r, m, host).objects[Len(r.objects) + 1]
            IN  /\ x.miner = m /\ x.host = host /\ x.polled = NoHost
                /\ ~x.shut /\ x.ok /\ ~x.heard
         /\ \A d \in 1..Len(r.objects) : Created(r, m, host).objects[d] = r.objects[d]
<1> DEFINE x == [miner |-> m, host |-> host, shut |-> FALSE, ok |-> TRUE,
                 heard |-> FALSE, polled |-> NoHost]
<1>1. /\ x.miner = m /\ x.host = host /\ x.polled = NoHost
      /\ ~x.shut /\ x.ok /\ ~x.heard /\ x \in Coordinator
  BY DEF Coordinator
<1>2. Created(r, m, host).objects = Append(r.objects, x) /\ r.objects \in Seq(Coordinator)
  BY RuntimeFields DEF Created, Runtime
<1> HIDE DEF x
<1>3. /\ Created(r, m, host).objects[Len(r.objects) + 1] = x
      /\ \A d \in 1..Len(r.objects) : Created(r, m, host).objects[d] = r.objects[d]
  BY <1>1, <1>2, AppendProperties
<1> QED
  BY <1>1, <1>3

(* It is listed.                                                           *)
LEMMA CreatedPiece ==
  ASSUME NEW r, Fits(r), NEW m \in Miners, NEW host \in Hosts, r.coordinators[m] = 0
  PROVE  LET n == Created(r, m, host)
             c == Len(r.objects) + 1
         IN  /\ Fits(n) /\ Grows(r, n) /\ Len(n.objects) = c
             /\ n.coordinators = [r.coordinators EXCEPT ![m] = c]
             /\ n.candidates = r.candidates /\ n.totals = r.totals
<1> DEFINE c == Len(r.objects) + 1
           n == Created(r, m, host)
           x == [miner |-> m, host |-> host, shut |-> FALSE, ok |-> TRUE,
                 heard |-> FALSE, polled |-> NoHost]
<1>1. /\ r \in Runtime /\ r.objects \in Seq(Coordinator) /\ Len(r.objects) \in Nat
      /\ r.coordinators \in [Miners -> Nat]
      /\ \A d \in 1..Len(r.objects) : r.objects[d] \in Coordinator
  BY RuntimeFields DEF Fits
<1>2. /\ x \in Coordinator /\ x.miner = m /\ x.host = host /\ ~x.shut
      /\ x.ok /\ ~x.heard /\ x.polled = NoHost
  BY DEF Coordinator
<1>3. /\ n.objects = Append(r.objects, x)
      /\ n.coordinators = [r.coordinators EXCEPT ![m] = c]
      /\ n.candidates = r.candidates /\ n.totals = r.totals
  BY <1>1 DEF Created, Runtime
<1>4. n \in Runtime
  <2>1. n = [r EXCEPT !.coordinators = [r.coordinators EXCEPT ![m] = c],
                      !.objects = Append(r.objects, x)]
    BY <1>1 DEF Created, Runtime
  <2> HIDE DEF x, n
  <2>2. Append(r.objects, x) \in Seq(Coordinator)
    BY <1>1, <1>2, AppendProperties
  <2>3. [r.coordinators EXCEPT ![m] = c] \in [Miners -> Nat]
    BY <1>1
  <2> HIDE DEF c
  <2> QED
    BY <1>1, <2>1, <2>2, <2>3 DEF Runtime
<1> HIDE DEF x, n
<1>5. /\ Len(n.objects) = c /\ n.objects[c] = x
      /\ \A d \in 1..Len(r.objects) : n.objects[d] = r.objects[d]
  BY <1>1, <1>2, <1>3, AppendProperties
<1>6. Grows(r, n)
  BY <1>1, <1>5 DEF Grows
<1>7. Listing(n)
  <2>1. ASSUME NEW k \in Miners, n.coordinators[k] # 0
        PROVE  /\ n.coordinators[k] \in 1..Len(n.objects)
               /\ n.objects[n.coordinators[k]].miner = k
               /\ ~n.objects[n.coordinators[k]].shut
    <3>1. CASE k = m
      <4>1. n.coordinators[k] = c
        BY <1>1, <1>3, <3>1
      <4> QED
        BY <1>1, <1>2, <1>5, <3>1, <4>1
    <3>2. CASE k # m
      <4>1. n.coordinators[k] = r.coordinators[k]
        BY <1>1, <1>3, <3>2
      <4>2. /\ r.coordinators[k] \in 1..Len(r.objects)
            /\ r.objects[r.coordinators[k]].miner = k
            /\ ~r.objects[r.coordinators[k]].shut
        BY <2>1, <4>1 DEF Fits, Listing
      <4> QED
        BY <1>1, <1>5, <4>1, <4>2
    <3> QED
      BY <3>1, <3>2
  <2>2. ASSUME NEW d \in 1..Len(n.objects), ~n.objects[d].shut
        PROVE  n.coordinators[n.objects[d].miner] = d
    <3>1. CASE d = c
      BY <1>1, <1>2, <1>3, <1>5, <3>1
    <3>2. CASE d # c
      <4>1. d \in 1..Len(r.objects) /\ n.objects[d] = r.objects[d]
        BY <1>1, <1>5, <3>2
      <4>2. r.coordinators[r.objects[d].miner] = d /\ r.objects[d].miner \in Miners /\ d # 0
        BY <1>1, <2>2, <4>1 DEF Fits, Listing, Coordinator
      <4>3. r.objects[d].miner # m
        BY <4>2
      <4> QED
        BY <1>1, <1>3, <4>1, <4>2, <4>3
    <3> QED
      BY <3>1, <3>2
  <2> QED
    BY <2>1, <2>2 DEF Listing
<1> QED
  BY <1>2, <1>3, <1>4, <1>5, <1>6, <1>7 DEF Fits, n

(* A coordinator that was stopped is neither listed nor alive.             *)
LEMMA StoppedPiece ==
  ASSUME NEW r, Fits(r), NEW m \in Miners
  PROVE  /\ Fits(Stopped(r, m)) /\ Grows(r, Stopped(r, m)) /\ Grows(Stopped(r, m), r)
         /\ Stopped(r, m).coordinators = [r.coordinators EXCEPT ![m] = 0]
         /\ Stopped(r, m).candidates = r.candidates
         /\ Stopped(r, m).totals = r.totals
         /\ \A d \in 1..Len(r.objects) :
              ~Stopped(r, m).objects[d].shut => Stopped(r, m).objects[d] = r.objects[d]
<1> DEFINE c == r.coordinators[m]
           n == Stopped(r, m)
<1>1. /\ r \in Runtime /\ r.objects \in Seq(Coordinator) /\ Len(r.objects) \in Nat
      /\ r.coordinators \in [Miners -> Nat]
      /\ \A d \in 1..Len(r.objects) : r.objects[d] \in Coordinator
  BY RuntimeFields DEF Fits
<1>2. CASE c = 0
  <2>1. n = r /\ r.coordinators = [r.coordinators EXCEPT ![m] = 0]
    BY <1>1, <1>2 DEF Stopped
  <2> QED
    BY <1>1, <2>1 DEF Grows
<1>3. CASE c # 0
  <2> DEFINE x == [r.objects[c] EXCEPT !.shut = TRUE]
             o == [r.objects EXCEPT ![c] = x]
             s == [r EXCEPT !.objects = o]
  <2>1. c \in 1..Len(r.objects) /\ r.objects[c].miner = m
    BY <1>3 DEF Fits, Listing
  <2>2. x \in Coordinator /\ x.shut /\ x.miner = m
    BY <1>1, <2>1 DEF Coordinator
  <2>3. n = [s EXCEPT !.coordinators = [r.coordinators EXCEPT ![m] = 0]]
    BY <1>1, <1>3, <2>1, LenProperties DEF Stopped, Runtime
  <2>4. /\ s \in Runtime /\ s.coordinators = r.coordinators
        /\ s.candidates = r.candidates /\ s.totals = r.totals
        /\ Len(s.objects) = Len(r.objects) /\ s.objects[c] = x
        /\ \A d \in 1..Len(r.objects) : d # c => s.objects[d] = r.objects[d]
    <3> HIDE DEF x
    <3> QED
      BY <1>1, <2>1, <2>2, ObjectReplaced
  <2> HIDE DEF x, o, s, n
  <2>5. /\ n \in Runtime /\ n.coordinators = [r.coordinators EXCEPT ![m] = 0]
        /\ n.candidates = s.candidates /\ n.totals = s.totals /\ n.objects = s.objects
    <3>1. [r.coordinators EXCEPT ![m] = 0] \in [Miners -> Nat]
      BY <1>1
    <3> QED
      BY <2>3, <2>4, <3>1 DEF Runtime
  <2>6. Grows(r, n) /\ Grows(n, r)
    BY <1>1, <2>1, <2>2, <2>4, <2>5 DEF Grows
  <2>7. Listing(n)
    <3>1. ASSUME NEW k \in Miners, n.coordinators[k] # 0
          PROVE  /\ n.coordinators[k] \in 1..Len(n.objects)
                 /\ n.objects[n.coordinators[k]].miner = k
                 /\ ~n.objects[n.coordinators[k]].shut
      <4>1. k # m /\ n.coordinators[k] = r.coordinators[k]
        BY <1>1, <2>5, <3>1
      <4>2. /\ r.coordinators[k] \in 1..Len(r.objects)
            /\ r.objects[r.coordinators[k]].miner = k
            /\ ~r.objects[r.coordinators[k]].shut
        BY <3>1, <4>1 DEF Fits, Listing
      <4>3. r.coordinators[k] # c
        BY <2>1, <4>1, <4>2
      <4> HIDE DEF c
      <4> QED
        BY <2>4, <2>5, <4>1, <4>2, <4>3
    <3>2. ASSUME NEW d \in 1..Len(n.objects), ~n.objects[d].shut
          PROVE  n.coordinators[n.objects[d].miner] = d
      <4>1. d \in 1..Len(r.objects) /\ d # c
        BY <2>2, <2>4, <2>5, <3>2
      <4>2. n.objects[d] = r.objects[d]
        BY <2>4, <2>5, <4>1
      <4>3. r.coordinators[r.objects[d].miner] = d /\ r.objects[d].miner \in Miners
        BY <1>1, <3>2, <4>1, <4>2 DEF Fits, Listing, Coordinator
      <4>4. r.objects[d].miner # m
        BY <4>1, <4>3
      <4> QED
        BY <1>1, <2>5, <4>2, <4>3, <4>4
    <3> QED
      BY <3>1, <3>2 DEF Listing
  <2>8. \A d \in 1..Len(r.objects) : ~n.objects[d].shut => n.objects[d] = r.objects[d]
    BY <2>2, <2>4, <2>5
  <2> QED
    BY <2>4, <2>5, <2>6, <2>7, <2>8 DEF Fits, n
<1> QED
  BY <1>2, <1>3

LEMMA PoppedPiece ==
  ASSUME NEW r, Fits(r), NEW m
  PROVE  /\ Fits(Popped(r, m)) /\ Grows(r, Popped(r, m))
         /\ Popped(r, m).coordinators = r.coordinators
         /\ Popped(r, m).candidates = [r.candidates EXCEPT ![m] = NoHost]
         /\ Popped(r, m).totals = r.totals
         /\ Popped(r, m).objects = r.objects
<1> DEFINE n == Popped(r, m)
<1>1. /\ r \in Runtime /\ Len(r.objects) \in Nat
      /\ r.candidates \in [Miners -> Hosts \cup {NoHost}]
  BY RuntimeFields DEF Fits
<1>2. /\ n \in Runtime /\ n.coordinators = r.coordinators
      /\ n.candidates = [r.candidates EXCEPT ![m] = NoHost]
      /\ n.totals = r.totals /\ n.objects = r.objects
  <2>1. [r.candidates EXCEPT ![m] = NoHost] \in [Miners -> Hosts \cup {NoHost}]
    BY <1>1
  <2>2. n = [r EXCEPT !.candidates = [r.candidates EXCEPT ![m] = NoHost]]
    BY DEF Popped
  <2> HIDE DEF n
  <2> QED
    BY <1>1, <2>1, <2>2 DEF Runtime
<1> HIDE DEF n
<1>3. Fits(n) /\ Grows(r, n)
  BY <1>1, <1>2 DEF Fits, Listing, Grows
<1> QED
  BY <1>2, <1>3 DEF n

-----------------------------------------------------------------------------
(* The tasks.                                                              *)

(* A task that reads a device, or has read it.                             *)
Reads(task) == task.object # 0 \/ task.kind \in {"enroll", "approve", "probe"}
Locked(task) == task.pc \in {"locking", "saving"}

(* What a task is made of, where it waits.                                 *)
TaskOK(r, t, task) ==
  /\ task.pc = "idle" => task = Idle
  /\ task.kind = "start" => task = Idle \/ (t = Starter /\ task.object # 0)
  /\ t = Starter => task.kind = "start"
  /\ task.pc = "reloading" => task.kind \in {"enroll", "remove"}
  /\ task.pc \in {"reading", "linking"} => task.host \in Hosts
  /\ task.pc = "linking" => task.object # 0
  /\ task.pc = "reading" => Reads(task)
  /\ Locked(task) /\ Reads(task) => task.host \in Hosts /\ task.miner \in Miners
  /\ task.pc = "saving" /\ task.kind = "switch" => task.host \in Hosts
  /\ task.object # 0 /\ task.pc # "reloading" =>
       /\ task.object <= Len(r.objects)
       /\ Locked(task) => task.miner = r.objects[task.object].miner
  /\ task.kind \in {"remove", "reject", "switch", "approve"} => task.asked \in Miners
  /\ task.kind \in {"remove", "reject"} => task.object = 0
  /\ task.kind = "poll" => task.object # 0
  /\ Locked(task) /\ task.object = 0 /\ task.kind = "approve" => task.miner = task.asked

(* The task of a coroutine that may go on to a coordinator.                *)
Goes(t, task) ==
  /\ task \in Task
  /\ task.kind = "start" <=> t = Starter
  /\ task.kind \notin {"remove", "reject"}
  /\ task.kind \in {"switch", "approve"} => task.asked \in Miners

(* What a piece makes of the runtime r and of a task of this kind.         *)
Good(r, t, kind, both) ==
  /\ Fits(both.runtime) /\ Grows(r, both.runtime)
  /\ both.task \in Task /\ TaskOK(both.runtime, t, both.task)
  /\ both.task.pc # "saving" /\ both.task.kind \in {kind, "start"}

LEMMA IdleTask ==
  /\ Idle \in Task /\ Idle.pc = "idle" /\ Idle.kind = "start" /\ Idle.object = 0
  /\ \A r, t : TaskOK(r, t, Idle)
<1>1. /\ Idle \in Task /\ Idle.pc = "idle" /\ Idle.kind = "start" /\ Idle.object = 0
  BY DEF Idle, Task, Answer, Kinds
<1>2. ASSUME NEW r, NEW t PROVE TaskOK(r, t, Idle)
  BY <1>1 DEF TaskOK, Locked
<1> QED
  BY <1>1, <1>2

LEMMA GrowsTrans ==
  ASSUME NEW r, NEW s, NEW n, Len(r.objects) \in Nat, Len(s.objects) \in Nat,
         Len(n.objects) \in Nat, Grows(r, s), Grows(s, n)
  PROVE  Grows(r, n)
BY DEF Grows

LEMMA GrowsSelf ==
  ASSUME NEW r \in Runtime
  PROVE  Grows(r, r)
BY RuntimeFields DEF Grows

(* A task that was good where it started is good for what grew from it.    *)
LEMMA TaskGrows ==
  ASSUME NEW r \in Runtime, NEW n \in Runtime, Grows(r, n), NEW t, NEW task \in Task,
         TaskOK(r, t, task)
  PROVE  TaskOK(n, t, task)
<1>1. Len(r.objects) \in Nat /\ Len(n.objects) \in Nat /\ task.object \in Nat
  BY RuntimeFields DEF Task
<1>2. task.object # 0 /\ task.object <= Len(r.objects) =>
        /\ task.object <= Len(n.objects)
        /\ n.objects[task.object].miner = r.objects[task.object].miner
  BY <1>1 DEF Grows
<1> QED
  BY <1>2 DEF TaskOK

LEMMA EndedGood ==
  ASSUME NEW r, NEW n, Fits(r), Fits(n), Grows(r, n), NEW recs, NEW t \in AllTasks,
         NEW task, Goes(t, task)
  PROVE  Good(r, t, task.kind, Ended(n, recs, task))
<1> DEFINE e == Ended(n, recs, task)
<1>1. e.runtime \in Runtime /\ Same(n, e.runtime)
  BY EndedPiece DEF Fits
<1>2. Fits(e.runtime) /\ Grows(n, e.runtime)
  BY <1>1, SameFits
<1>3. Grows(r, e.runtime)
  BY <1>1, <1>2, RuntimeFields, GrowsTrans DEF Fits
<1>4. CASE task.kind = "enroll"
  <2> DEFINE x == [task EXCEPT !.pc = "reloading"]
  <2>1. e.task = x
    BY <1>4, EndedTask
  <2>2. x \in Task /\ x.pc = "reloading" /\ x.kind = "enroll"
    BY <1>4 DEF Goes, Task
  <2>3. t # Starter
    BY <1>4 DEF Goes
  <2>4. TaskOK(e.runtime, t, x)
    <3> HIDE DEF x, e
    <3> QED
      BY <2>2, <2>3 DEF TaskOK, Locked
  <2> QED
    BY <1>2, <1>3, <1>4, <2>1, <2>2, <2>4 DEF Good
<1>5. CASE task.kind # "enroll"
  <2>1. e.task = Idle
    BY <1>5, EndedTask
  <2> QED
    BY <1>2, <1>3, <2>1, IdleTask DEF Good
<1> QED
  BY <1>4, <1>5

LEMMA RefreshGood ==
  ASSUME NEW r, NEW n, Fits(r), Fits(n), Grows(r, n), NEW recs, NEW t \in AllTasks,
         NEW task, Goes(t, task), NEW c \in 1..Len(n.objects),
         answers \in [Hosts -> Answer]
  PROVE  Good(r, t, task.kind, Refresh(n, recs, task, c))
<1>1. CASE n.objects[c].shut
  <2>1. Refresh(n, recs, task, c) = Ended(n, recs, task)
    BY <1>1 DEF Refresh
  <2> QED
    BY <2>1, EndedGood
<1>2. CASE ~n.objects[c].shut
  <2> DEFINE host == n.objects[c].host
             x == [task EXCEPT !.pc = "reading", !.object = c, !.host = host,
                               !.first = answers[host]]
  <2>1. Refresh(n, recs, task, c).runtime = n /\ Refresh(n, recs, task, c).task = x
    BY <1>2 DEF Refresh, Both
  <2>2. c \in Nat /\ c # 0 /\ c <= Len(n.objects) /\ host \in Hosts
    BY RuntimeFields DEF Fits, Coordinator
  <2>3. answers[host] \in Answer
    BY <2>2
  <2> HIDE DEF host
  <2>4. /\ x \in Task /\ x.pc = "reading" /\ x.object = c /\ x.host = host
        /\ x.kind = task.kind /\ x.asked = task.asked
    BY <2>2, <2>3 DEF Goes, Task
  <2> HIDE DEF x
  <2>5. TaskOK(n, t, x)
    BY <2>2, <2>4 DEF TaskOK, Locked, Reads, Goes
  <2> QED
    BY <2>1, <2>4, <2>5 DEF Good
<1> QED
  BY <1>1, <1>2

LEMMA StartMinerGood ==
  ASSUME NEW r, NEW n, Fits(r), Fits(n), Grows(r, n), NEW recs, NEW t \in AllTasks,
         NEW task, Goes(t, task), NEW m \in Miners, NEW host \in Hosts,
         answers \in [Hosts -> Answer]
  PROVE  Good(r, t, task.kind, StartMiner(n, recs, task, m, host))
<1>1. CASE n.coordinators[m] = 0
  <2> DEFINE new == Created(n, m, host)
  <2>1. Fits(new) /\ Grows(n, new) /\ Len(new.objects) = Len(n.objects) + 1
    BY <1>1, CreatedPiece
  <2>2. StartMiner(n, recs, task, m, host) = Refresh(new, recs, task, Len(new.objects))
    BY <1>1 DEF StartMiner
  <2> HIDE DEF new
  <2>3. /\ Len(r.objects) \in Nat /\ Len(n.objects) \in Nat /\ Len(new.objects) \in Nat
        /\ Len(new.objects) \in 1..Len(new.objects)
    BY <2>1, RuntimeFields DEF Fits
  <2>4. Grows(r, new)
    BY <2>1, <2>3, GrowsTrans
  <2> QED
    BY <2>1, <2>2, <2>3, <2>4, RefreshGood
<1>2. CASE n.coordinators[m] # 0
  <2> DEFINE c == n.coordinators[m]
             x == [task EXCEPT !.pc = "linking", !.host = host, !.object = c]
  <2>1. /\ StartMiner(n, recs, task, m, host).runtime = n
        /\ StartMiner(n, recs, task, m, host).task = x
    BY <1>2 DEF StartMiner, Both
  <2>2. c \in Nat /\ c # 0 /\ c <= Len(n.objects)
    <3>1. c \in 1..Len(n.objects) /\ Len(n.objects) \in Nat
      BY <1>2, RuntimeFields DEF Fits, Listing
    <3> QED
      BY <3>1
  <2> HIDE DEF c
  <2>3. /\ x \in Task /\ x.pc = "linking" /\ x.object = c /\ x.host = host
        /\ x.kind = task.kind /\ x.asked = task.asked
    BY <2>2 DEF Goes, Task
  <2> HIDE DEF x
  <2>4. TaskOK(n, t, x)
    BY <2>2, <2>3 DEF TaskOK, Locked, Reads, Goes
  <2> QED
    BY <2>1, <2>3, <2>4 DEF Good
<1> QED
  BY <1>1, <1>2

(* A refresh that went well: the host is remembered, the snapshot told.    *)
LEMMA PolledPiece ==
  ASSUME NEW r, Fits(r), NEW c \in 1..Len(r.objects), NEW host \in Hosts
  PROVE  LET n == [r EXCEPT !.objects[c].polled = host]
         IN  /\ n \in Runtime /\ Same(r, n) /\ n.totals = r.totals
             /\ n.objects[c].polled = host
             /\ \A d \in 1..Len(r.objects) : d # c => n.objects[d] = r.objects[d]
             /\ Hushed(r, n)
<1> DEFINE x == [r.objects[c] EXCEPT !.polled = host]
           n == [r EXCEPT !.objects[c].polled = host]
<1>1. r \in Runtime /\ r.objects[c] \in Coordinator
  BY RuntimeFields DEF Fits
<1>2. /\ x \in Coordinator /\ x.polled = host /\ x.miner = r.objects[c].miner
      /\ x.host = r.objects[c].host /\ x.shut = r.objects[c].shut
      /\ x.ok = r.objects[c].ok /\ x.heard = r.objects[c].heard
  BY <1>1 DEF Coordinator
<1>3. n = [r EXCEPT !.objects = [r.objects EXCEPT ![c] = x]]
  OBVIOUS
<1> HIDE DEF x, n
<1>4. /\ n \in Runtime /\ n.coordinators = r.coordinators
      /\ n.candidates = r.candidates /\ n.totals = r.totals
      /\ Len(n.objects) = Len(r.objects) /\ n.objects[c] = x
      /\ \A d \in 1..Len(r.objects) : d # c => n.objects[d] = r.objects[d]
  BY <1>1, <1>2, <1>3, ObjectReplaced
<1>5. Same(r, n)
  BY <1>2, <1>4 DEF Same
<1>6. Hushed(r, n)
  <2>1. ASSUME NEW m \in Miners, r.coordinators[m] # 0
        PROVE  /\ n.objects[r.coordinators[m]].ok = r.objects[r.coordinators[m]].ok
               /\ n.objects[r.coordinators[m]].heard = r.objects[r.coordinators[m]].heard
    <3>1. r.coordinators[m] \in 1..Len(r.objects)
      BY <2>1 DEF Fits, Listing
    <3> QED
      BY <1>2, <1>4, <3>1
  <2> QED
    BY <1>4, <2>1 DEF Hushed
<1> QED
  BY <1>2, <1>4, <1>5, <1>6 DEF n

LEMMA RefreshedGood ==
  ASSUME NEW r, Fits(r), NEW recs, NEW t \in AllTasks, NEW task, Goes(t, task),
         task.object \in 1..Len(r.objects), task.host \in Hosts
  PROVE  Good(r, t, task.kind, Refreshed(r, recs, task))
<1> DEFINE c == task.object
           n == [r EXCEPT !.objects[c].polled = task.host]
           p == Published(n, recs, c)
<1>1. n \in Runtime /\ Same(r, n)
  BY PolledPiece
<1>2. Fits(n) /\ Grows(r, n) /\ c \in 1..Len(n.objects)
  BY <1>1, SameFits DEF Same
<1>3. Refreshed(r, recs, task) = Ended(p, recs, task)
  BY DEF Refreshed
<1> HIDE DEF n
<1>4. p \in Runtime /\ Same(n, p)
  BY <1>2, PublishedPiece
<1>5. Fits(p) /\ Grows(n, p)
  BY <1>2, <1>4, SameFits
<1>6. Grows(r, p)
  BY <1>2, <1>5, RuntimeFields, GrowsTrans DEF Fits
<1> HIDE DEF p
<1> QED
  BY <1>3, <1>5, <1>6, EndedGood

LEMMA IdleGood ==
  ASSUME NEW r, NEW n, Fits(n), Grows(r, n), NEW t, NEW kind
  PROVE  Good(r, t, kind, Both(n, Idle))
BY IdleTask DEF Good, Both

LEMMA AfterUpdateGood ==
  ASSUME NEW r, Fits(r), NEW recs, NEW t \in AllTasks, NEW task, Goes(t, task),
         task.object # 0 => task.object \in 1..Len(r.objects),
         task.host \in Hosts, task.miner \in Miners, answers \in [Hosts -> Answer]
  PROVE  Good(r, t, task.kind, AfterUpdate(r, recs, task))
<1>1. Grows(r, r)
  BY GrowsSelf DEF Fits
<1>2. CASE task.object # 0
  BY <1>2, RefreshedGood DEF AfterUpdate
<1>3. CASE task.object = 0 /\ task.enabled
  BY <1>1, <1>3, StartMinerGood DEF AfterUpdate, Known
<1>4. CASE task.object = 0 /\ ~task.enabled
  BY <1>1, <1>4, IdleGood DEF AfterUpdate, Known
<1> QED
  BY <1>2, <1>3, <1>4

(* What follows a registry operation.                                      *)
LEMMA AfterSaveGood ==
  ASSUME NEW r, Fits(r), NEW recs, NEW t \in AllTasks, NEW task \in Task,
         TaskOK(r, t, task), task.pc = "saving", answers \in [Hosts -> Answer]
  PROVE  Good(r, t, task.kind, AfterSave(r, recs, task))
<1>1. Grows(r, r) /\ r \in Runtime /\ Len(r.objects) \in Nat /\ task.object \in Nat
  BY GrowsSelf, RuntimeFields DEF Fits, Task
<1>2. task # Idle
  BY IdleTask
<1>3. task.kind \notin {"remove", "reject"} => Goes(t, task)
  BY <1>2 DEF TaskOK, Goes
<1>4. /\ Reads(task) => task.host \in Hosts /\ task.miner \in Miners
      /\ task.kind \in {"remove", "reject", "switch", "approve"} => task.asked \in Miners
      /\ task.object # 0 => task.object \in 1..Len(r.objects)
      /\ task.kind = "switch" => task.host \in Hosts
      /\ task.kind \in {"remove", "reject"} => task.object = 0
      /\ task.object = 0 => task.kind \notin {"start", "poll"}
  BY <1>1, <1>2 DEF TaskOK, Locked
<1>5. CASE task.object # 0 \/ task.kind = "probe"
  <2>1. AfterSave(r, recs, task) = AfterUpdate(r, recs, task)
    BY <1>4, <1>5 DEF AfterSave
  <2>2. Goes(t, task) /\ task.host \in Hosts /\ task.miner \in Miners
    BY <1>3, <1>4, <1>5 DEF Reads
  <2> QED
    BY <1>4, <2>1, <2>2, AfterUpdateGood
<1>6. CASE task.object = 0 /\ task.kind = "enroll"
  <2>1. AfterSave(r, recs, task) = StartMiner(r, recs, task, task.miner, task.host)
    BY <1>6 DEF AfterSave
  <2>2. Goes(t, task) /\ task.host \in Hosts /\ task.miner \in Miners
    BY <1>3, <1>4, <1>6 DEF Reads
  <2> QED
    BY <1>1, <2>1, <2>2, StartMinerGood
<1>7. CASE task.object = 0 /\ task.kind = "approve"
  <2> DEFINE n == Popped(r, task.asked)
  <2>1. AfterSave(r, recs, task) =
          IF task.enabled THEN StartMiner(n, recs, task, task.miner, task.host)
          ELSE Both(n, Idle)
    BY <1>7 DEF AfterSave, Approved
  <2>2. Goes(t, task) /\ task.host \in Hosts /\ task.miner \in Miners
    BY <1>3, <1>4, <1>7 DEF Reads
  <2>3. Fits(n) /\ Grows(r, n)
    BY PoppedPiece
  <2> HIDE DEF n
  <2> QED
    BY <2>1, <2>2, <2>3, StartMinerGood, IdleGood
<1>8. CASE task.object = 0 /\ task.kind = "switch"
  <2> DEFINE m == task.asked
             n == IF task.enabled THEN r ELSE Stopped(r, m)
  <2>1. AfterSave(r, recs, task) =
          IF task.enabled /\ r.coordinators[m] = 0 THEN StartMiner(r, recs, task, m, task.host)
          ELSE Ended(n, recs, task)
    BY <1>8 DEF AfterSave, Switched
  <2>2. Goes(t, task) /\ task.host \in Hosts /\ m \in Miners
    BY <1>3, <1>4, <1>8
  <2>3. Fits(n) /\ Grows(r, n)
    BY <1>1, <2>2, StoppedPiece
  <2> HIDE DEF n, m
  <2> QED
    BY <1>1, <2>1, <2>2, <2>3, StartMinerGood, EndedGood
<1>9. CASE task.kind = "reject"
  <2>1. AfterSave(r, recs, task) = Both(Popped(r, task.asked), Idle)
    BY <1>4, <1>9 DEF AfterSave
  <2>2. Fits(Popped(r, task.asked)) /\ Grows(r, Popped(r, task.asked))
    BY PoppedPiece
  <2> QED
    BY <2>1, <2>2, IdleGood
<1>10. CASE task.kind = "remove"
  <2> DEFINE x == [task EXCEPT !.pc = "reloading"]
  <2>1. AfterSave(r, recs, task) = Both(Counted(r, recs), x)
    BY <1>4, <1>10 DEF AfterSave
  <2>2. Fits(Counted(r, recs)) /\ Grows(r, Counted(r, recs))
    BY <1>1, CountedPiece, SameFits
  <2>3. /\ x \in Task /\ x.pc = "reloading" /\ x.kind = "remove" /\ x.object = 0
        /\ x.asked \in Miners
    BY <1>4, <1>10 DEF Task
  <2>4. t # Starter
    BY <1>10 DEF TaskOK
  <2> HIDE DEF x
  <2>5. TaskOK(Counted(r, recs), t, x)
    BY <2>3, <2>4 DEF TaskOK, Locked
  <2> QED
    BY <1>10, <2>1, <2>2, <2>3, <2>5 DEF Good, Both
<1> QED
  BY <1>4, <1>5, <1>6, <1>7, <1>8, <1>9, <1>10 DEF Task, Kinds

-----------------------------------------------------------------------------
(* The core of the invariant: types, the listing, the tasks, the lock and  *)
(* the phases.                                                             *)

(* Whose record a registry operation changes.                              *)
Subject(task) == IF Reads(task) THEN task.miner ELSE task.asked

(* While the save is awaited the record is what the task made of it.       *)
SaveOK(recs, task) ==
  task.pc = "saving" /\ task.kind \notin {"remove", "reject"} =>
    recs[Subject(task)] = [host |-> task.host, enabled |-> task.enabled]

TaskInv ==
  \A t \in AllTasks : TaskOK(runtime, t, tasks[t]) /\ SaveOK(records, tasks[t])

LockInv ==
  \A t, u \in AllTasks : tasks[t].pc = "saving" /\ tasks[u].pc = "saving" => t = u

PhaseInv ==
  /\ phase # "starting" =>
       tasks[Starter] = Idle /\ \A m \in Miners : queue[m] = NoRecord
  /\ phase = "starting" =>
       \A t \in AllTasks : tasks[t].kind \in {"start", "enroll", "remove", "poll"}

Core == TypeOK /\ Listing(runtime) /\ TaskInv /\ LockInv /\ PhaseInv

LEMMA TaskNumbers == AllTasks \subseteq Nat /\ Starter \in AllTasks /\ Starter \notin Tasks
BY FleetAssumption DEF AllTasks, Tasks, Starter

LEMMA CoreFacts ==
  ASSUME Core
  PROVE  /\ Fits(runtime) /\ runtime \in Runtime /\ Grows(runtime, runtime)
         /\ records \in Records /\ answers \in [Hosts -> Answer]
         /\ \A t \in AllTasks : tasks[t] \in Task /\ TaskOK(runtime, t, tasks[t])
BY GrowsSelf DEF Core, TypeOK, Fits, TaskInv

LEMMA ListedBound ==
  ASSUME NEW r, Fits(r)
  PROVE  \A m \in Miners : r.coordinators[m] <= Len(r.objects)
<1> SUFFICES ASSUME NEW m \in Miners PROVE r.coordinators[m] <= Len(r.objects)
  OBVIOUS
<1>1. Len(r.objects) \in Nat /\ r.coordinators[m] \in Nat
  BY RuntimeFields DEF Fits
<1> QED
  BY <1>1 DEF Fits, Listing

(* A task comes to its next await and saves nothing.                       *)
LEMMA BecomesCore ==
  ASSUME Core, NEW t \in AllTasks, NEW both, NEW kind, Becomes(t, both),
         Good(runtime, t, kind, both),
         answers' = answers, moves' = moves, records' = records, rejected' = rejected,
         phase' = phase, queue' \in Records, started' \in 0..MaxStarted,
         phase = "starting" => kind \in {"start", "enroll", "remove", "poll"},
         phase # "starting" => t # Starter /\ queue' = queue
  PROVE  Core'
<1>1. /\ TypeOK /\ Listing(runtime) /\ TaskInv /\ LockInv /\ PhaseInv
      /\ runtime \in Runtime /\ tasks \in [AllTasks -> Task]
  BY DEF Core, TypeOK
<1>2. /\ runtime' = both.runtime /\ runtime' \in Runtime /\ Listing(runtime')
      /\ Grows(runtime, runtime') /\ Fits(runtime')
  BY DEF Becomes, Good, Fits
<1>3. /\ tasks' \in [AllTasks -> Task]
      /\ tasks'[t] = both.task /\ \A u \in AllTasks \ {t} : tasks'[u] = tasks[u]
  BY <1>1 DEF Becomes, Good
<1>4. TypeOK'
  BY <1>1, <1>2, <1>3, ListedBound DEF TypeOK
<1>5. TaskInv'
  <2>1. ASSUME NEW u \in AllTasks
        PROVE  TaskOK(runtime', u, tasks'[u]) /\ SaveOK(records', tasks'[u])
    <3>1. CASE u = t
      <4>1. TaskOK(runtime', u, tasks'[u])
        BY <1>2, <1>3, <3>1 DEF Good
      <4>2. tasks'[u].pc # "saving"
        BY <1>3, <3>1 DEF Good
      <4> QED
        BY <4>1, <4>2 DEF SaveOK
    <3>2. CASE u # t
      <4>1. tasks'[u] = tasks[u] /\ tasks[u] \in Task
        BY <1>1, <1>3, <3>2
      <4>2. TaskOK(runtime', u, tasks[u])
        BY <1>1, <1>2, <4>1, TaskGrows DEF TaskInv
      <4> QED
        BY <1>1, <4>1, <4>2 DEF TaskInv
    <3> QED
      BY <3>1, <3>2
  <2> QED
    BY <2>1 DEF TaskInv
<1>6. LockInv'
  BY <1>1, <1>3 DEF LockInv, Good
<1>7. PhaseInv'
  BY <1>1, <1>3, TaskNumbers DEF PhaseInv, Good
<1> QED
  BY <1>2, <1>4, <1>5, <1>6, <1>7 DEF Core

(* A task changes the registry and awaits the save.                        *)
LEMMA SavingCore ==
  ASSUME Core, NEW t \in AllTasks, Acquires(t), NEW x \in Task,
         tasks' = [tasks EXCEPT ![t] = x], runtime' = runtime,
         TaskOK(runtime, t, x), x.pc = "saving", x.kind = tasks[t].kind,
         records' \in Records, rejected' \subseteq Miners, SaveOK(records', x)
  PROVE  Core'
<1>1. /\ TypeOK /\ Listing(runtime) /\ TaskInv /\ LockInv /\ PhaseInv
      /\ tasks \in [AllTasks -> Task]
  BY DEF Core, TypeOK
<1>2. /\ \A u \in AllTasks : tasks[u].pc # "saving"
      /\ tasks[t].pc = "locking"
      /\ UNCHANGED <<answers, moves, phase, queue, started>>
  BY DEF Acquires, network
<1>3. /\ tasks' \in [AllTasks -> Task]
      /\ tasks'[t] = x /\ \A u \in AllTasks \ {t} : tasks'[u] = tasks[u]
  BY <1>1
<1>4. TypeOK'
  BY <1>1, <1>2, <1>3 DEF TypeOK
<1>5. TaskInv'
  BY <1>1, <1>2, <1>3 DEF TaskInv, SaveOK
<1>6. LockInv'
  BY <1>2, <1>3 DEF LockInv
<1>7. PhaseInv'
  <2>1. tasks[Starter] = Idle => t # Starter
    BY <1>2, IdleTask
  <2> QED
    BY <1>1, <1>2, <1>3, <2>1, TaskNumbers DEF PhaseInv
<1> QED
  BY <1>1, <1>4, <1>5, <1>6, <1>7 DEF Core

-----------------------------------------------------------------------------
(* Every action keeps the core.                                            *)

(* A task that waits for something.                                        *)
LEMMA Waiting ==
  ASSUME Core, NEW t \in AllTasks, tasks[t].pc # "idle"
  PROVE  /\ tasks[t] # Idle
         /\ phase = "starting" => tasks[t].kind \in {"start", "enroll", "remove", "poll"}
         /\ phase # "starting" => t # Starter
         /\ tasks[t].kind \notin {"remove", "reject"} => Goes(t, tasks[t])
         /\ tasks[t].object # 0 /\ tasks[t].pc # "reloading" =>
              tasks[t].object \in 1..Len(runtime.objects)
<1>1. /\ tasks[t] \in Task /\ TaskOK(runtime, t, tasks[t]) /\ PhaseInv
      /\ Len(runtime.objects) \in Nat /\ tasks[t].object \in Nat
  BY CoreFacts, RuntimeFields DEF Core, Task
<1>2. tasks[t] # Idle
  BY IdleTask
<1>3. tasks[t].kind \notin {"remove", "reject"} => Goes(t, tasks[t])
  BY <1>1, <1>2 DEF TaskOK, Goes
<1>4. /\ phase = "starting" => tasks[t].kind \in {"start", "enroll", "remove", "poll"}
      /\ phase # "starting" => t # Starter
  BY <1>1, <1>2 DEF PhaseInv
<1>5. tasks[t].object # 0 /\ tasks[t].pc # "reloading" =>
        tasks[t].object \in 1..Len(runtime.objects)
  BY <1>1 DEF TaskOK
<1> QED
  BY <1>2, <1>3, <1>4, <1>5

(* A waiting task comes to its next await; the rest of the state stays.    *)
LEMMA ContinueCore ==
  ASSUME Core, NEW t \in AllTasks, tasks[t].pc # "idle", NEW both, Becomes(t, both),
         Good(runtime, t, tasks[t].kind, both),
         UNCHANGED <<network, registry, phase, queue, started>>
  PROVE  Core'
<1>1. /\ phase = "starting" => tasks[t].kind \in {"start", "enroll", "remove", "poll"}
      /\ phase # "starting" => t # Starter
  BY Waiting
<1>2. queue \in Records /\ started \in 0..MaxStarted
  BY DEF Core, TypeOK
<1> QED
  BY <1>1, <1>2, BecomesCore DEF network, registry

(* A read that found a miner waits for the registry.                       *)
LEMMA LockGood ==
  ASSUME Core, NEW t \in AllTasks, tasks[t].pc = "reading", NEW m \in Miners,
         tasks[t].object # 0 => m = runtime.objects[tasks[t].object].miner,
         tasks[t].object = 0 /\ tasks[t].kind = "approve" => m = tasks[t].asked
  PROVE  Good(runtime, t, tasks[t].kind, Both(runtime, Lock(tasks[t], m)))
<1> DEFINE task == tasks[t]
           x == Lock(task, m)
<1>1. task \in Task /\ TaskOK(runtime, t, task) /\ Fits(runtime) /\ Grows(runtime, runtime)
  BY CoreFacts
<1>2. /\ x \in Task /\ x.pc = "locking" /\ x.miner = m /\ x.kind = task.kind
      /\ x.host = task.host /\ x.object = task.object /\ x.asked = task.asked
  BY <1>1 DEF Lock, Task, Answer
<1>3. task # Idle
  BY IdleTask
<1> HIDE DEF x
<1>4. TaskOK(runtime, t, x)
  BY <1>1, <1>2, <1>3 DEF TaskOK, Locked, Reads
<1> QED
  BY <1>1, <1>2, <1>4 DEF Good, Both, x

LEMMA OfferedPiece ==
  ASSUME NEW r, Fits(r), NEW m \in Miners, NEW host \in Hosts
  PROVE  LET n == [r EXCEPT !.candidates[m] = host]
         IN  /\ Fits(n) /\ Grows(r, n)
             /\ n.candidates = [r.candidates EXCEPT ![m] = host]
             /\ n.coordinators = r.coordinators /\ n.totals = r.totals
             /\ n.objects = r.objects
<1> DEFINE n == [r EXCEPT !.candidates[m] = host]
<1>1. /\ r \in Runtime /\ Len(r.objects) \in Nat
      /\ r.candidates \in [Miners -> Hosts \cup {NoHost}]
  BY RuntimeFields DEF Fits
<1>2. /\ n \in Runtime /\ n.coordinators = r.coordinators
      /\ n.candidates = [r.candidates EXCEPT ![m] = host]
      /\ n.totals = r.totals /\ n.objects = r.objects
  <2>1. [r.candidates EXCEPT ![m] = host] \in [Miners -> Hosts \cup {NoHost}]
    BY <1>1
  <2>2. n = [r EXCEPT !.candidates = [r.candidates EXCEPT ![m] = host]]
    OBVIOUS
  <2> HIDE DEF n
  <2> QED
    BY <1>1, <2>1, <2>2 DEF Runtime
<1> HIDE DEF n
<1>3. Fits(n) /\ Grows(r, n)
  BY <1>1, <1>2 DEF Fits, Listing, Grows
<1> QED
  BY <1>2, <1>3 DEF n

LEMMA ReadReturnsCore ==
  ASSUME Core, NEW t \in AllTasks, NEW a \in Answer, ReadReturns(t, a)
  PROVE  Core'
<1> DEFINE task == tasks[t]
<1>1. /\ task.pc = "reading" /\ task.pc # "idle"
      /\ UNCHANGED <<network, registry, phase, queue, started>>
  BY DEF ReadReturns, Answered
<1>2. /\ Fits(runtime) /\ Grows(runtime, runtime) /\ task \in Task
      /\ TaskOK(runtime, t, task) /\ task.host \in Hosts /\ Reads(task)
      /\ \A c \in 1..Len(runtime.objects) : runtime.objects[c].miner \in Miners
  BY <1>1, CoreFacts, RuntimeFields DEF TaskOK, Coordinator
<1>3. a # Nobody => a \in Miners
  BY DEF Answer
<1>4. CASE task.object # 0 /\ Becomes(t, RefreshRead(task, a))
  <2> DEFINE c == task.object
             f == Failed(runtime, records, c)
  <2>1. c \in 1..Len(runtime.objects) /\ Goes(t, task)
    BY <1>1, <1>2, <1>4, Waiting DEF TaskOK
  <2>2. Good(runtime, t, task.kind, RefreshRead(task, a))
    <3>1. CASE a = runtime.objects[c].miner
      BY <1>1, <1>2, <1>4, <2>1, <3>1, LockGood DEF RefreshRead
    <3>2. CASE a # runtime.objects[c].miner
      <4>1. RefreshRead(task, a) = Ended(f, records, task)
        BY <3>2 DEF RefreshRead
      <4>2. Fits(f) /\ Grows(runtime, f)
        BY <1>2, <2>1, FailedPiece, SameFits
      <4> HIDE DEF f
      <4> QED
        BY <1>2, <2>1, <4>1, <4>2, EndedGood
    <3> QED
      BY <3>1, <3>2
  <2> QED
    BY <1>1, <1>4, <2>2, ContinueCore
<1>5. CASE /\ task.object = 0 /\ task.kind = "enroll"
           /\ Becomes(t, Both(runtime, IF a = Nobody THEN Idle ELSE Lock(task, a)))
  <2>1. Good(runtime, t, task.kind,
             Both(runtime, IF a = Nobody THEN Idle ELSE Lock(task, a)))
    BY <1>1, <1>2, <1>3, <1>5, IdleGood, LockGood
  <2> QED
    BY <1>1, <1>5, <2>1, ContinueCore
<1>6. CASE /\ task.object = 0 /\ task.kind = "approve" /\ Becomes(t, Revalidated(task, a))
  <2>1. Good(runtime, t, task.kind, Revalidated(task, a))
    <3>1. CASE a = Nobody
      <4>1. task.asked # Nobody
        BY <1>2, <1>6, FleetAssumption DEF TaskOK
      <4>2. Revalidated(task, a) = Both(runtime, Idle)
        BY <3>1, <4>1 DEF Revalidated
      <4> QED
        BY <1>2, <4>2, IdleGood
    <3>2. CASE a # Nobody /\ a = task.asked
      <4>1. Revalidated(task, a) = Both(runtime, Lock(task, a))
        BY <3>2 DEF Revalidated
      <4> QED
        BY <1>1, <1>3, <1>6, <3>2, <4>1, LockGood
    <3>3. CASE a # Nobody /\ a # task.asked
      <4>1. Revalidated(task, a) = Both(Popped(runtime, task.asked), Idle)
        BY <3>3 DEF Revalidated
      <4>2. Fits(Popped(runtime, task.asked)) /\ Grows(runtime, Popped(runtime, task.asked))
        BY <1>2, PoppedPiece
      <4> QED
        BY <4>1, <4>2, IdleGood
    <3> QED
      BY <3>1, <3>2, <3>3
  <2> QED
    BY <1>1, <1>6, <2>1, ContinueCore
<1>7. CASE /\ task.object = 0 /\ task.kind = "probe" /\ Becomes(t, Probed(task, a))
  <2>1. Good(runtime, t, task.kind, Probed(task, a))
    <3>1. CASE a = Nobody \/ (records[a] = NoRecord /\ a \in rejected)
      BY <1>2, <3>1, IdleGood DEF Probed
    <3>2. CASE a # Nobody /\ records[a] # NoRecord
      BY <1>1, <1>3, <1>7, <3>2, LockGood DEF Probed
    <3>3. CASE a # Nobody /\ records[a] = NoRecord /\ a \notin rejected
      <4> DEFINE n == [runtime EXCEPT !.candidates[a] = task.host]
      <4>1. Probed(task, a) = Both(n, Idle)
        BY <3>3 DEF Probed
      <4>2. Fits(n) /\ Grows(runtime, n)
        BY <1>2, <1>3, <3>3, OfferedPiece
      <4> HIDE DEF n
      <4> QED
        BY <4>1, <4>2, IdleGood
    <3> QED
      BY <3>1, <3>2, <3>3
  <2> QED
    BY <1>1, <1>7, <2>1, ContinueCore
<1> QED
  BY <1>4, <1>5, <1>6, <1>7 DEF ReadReturns

(* The task that awaits its save.                                          *)
LEMMA SavingTask ==
  ASSUME Core, NEW t \in AllTasks, tasks[t].pc = "locking", NEW x \in Task,
         x.pc = "saving", x.kind = tasks[t].kind, x.object = tasks[t].object,
         x.miner = tasks[t].miner, x.asked = tasks[t].asked,
         Reads(tasks[t]) \/ tasks[t].kind = "switch" => x.host \in Hosts
  PROVE  TaskOK(runtime, t, x)
<1>1. TaskOK(runtime, t, tasks[t]) /\ tasks[t] # Idle
  BY CoreFacts, IdleTask
<1> QED
  BY <1>1 DEF TaskOK, Locked, Reads

LEMMA EnrollAcquiresCore ==
  ASSUME Core, NEW t \in AllTasks, EnrollAcquires(t)
  PROVE  Core'
<1> DEFINE task == tasks[t]
           m == task.miner
           enabled == records[m] # NoRecord => records[m].enabled
           x == [task EXCEPT !.pc = "saving", !.enabled = enabled, !.host = task.host]
<1>1. /\ Acquires(t) /\ task.pc = "locking" /\ task.object = 0
      /\ task.kind \in {"enroll", "approve"}
      /\ records' = [records EXCEPT ![m] = [host |-> task.host, enabled |-> enabled]]
      /\ rejected' = rejected \ {m}
      /\ Saving(t, enabled, task.host)
  BY DEF EnrollAcquires, Acquires
<1>2. /\ Reads(task) /\ task.host \in Hosts /\ m \in Miners
      /\ records \in Records /\ rejected \subseteq Miners /\ task \in Task
  BY <1>1, CoreFacts DEF Reads, TaskOK, Locked, Core, TypeOK
<1>3. enabled \in BOOLEAN
  OBVIOUS
<1> HIDE DEF enabled
<1>4. /\ x \in Task /\ x.pc = "saving" /\ x.kind = task.kind /\ x.object = 0
      /\ x.miner = m /\ x.asked = task.asked /\ x.enabled = enabled
      /\ x.host = task.host
  BY <1>1, <1>2, <1>3 DEF Task
<1>5. tasks' = [tasks EXCEPT ![t] = x] /\ runtime' = runtime
  BY <1>1 DEF Saving, Core, TypeOK
<1> HIDE DEF x
<1>6. TaskOK(runtime, t, x)
  BY <1>1, <1>2, <1>4, SavingTask
<1>7. [host |-> task.host, enabled |-> enabled] \in Record
  BY <1>2, <1>3 DEF Record
<1>8. /\ records' \in Records /\ rejected' \subseteq Miners
      /\ records'[m] = [host |-> task.host, enabled |-> enabled]
  BY <1>1, <1>2, <1>7 DEF Records
<1>9. SaveOK(records', x)
  BY <1>1, <1>4, <1>8 DEF SaveOK, Subject, Reads
<1> QED
  BY <1>1, <1>4, <1>8, <1>9, <1>5, <1>6, SavingCore

LEMMA UpdateAcquiresCore ==
  ASSUME Core, NEW t \in AllTasks, UpdateAcquires(t)
  PROVE  Core'
<1> DEFINE task == tasks[t]
           m == task.miner
<1>1. /\ Acquires(t) /\ task.pc = "locking" /\ task.pc # "idle"
      /\ task.object # 0 \/ task.kind = "probe"
      /\ rejected' = rejected
  BY DEF UpdateAcquires, Acquires
<1>2. /\ Reads(task) /\ task.host \in Hosts /\ m \in Miners /\ task \in Task
      /\ records \in Records /\ rejected \subseteq Miners /\ Fits(runtime)
      /\ answers \in [Hosts -> Answer]
      /\ task.kind \notin {"remove", "reject"}
  BY <1>1, CoreFacts DEF Reads, TaskOK, Locked, Core, TypeOK
<1>3. Goes(t, task) /\ (task.object # 0 => task.object \in 1..Len(runtime.objects))
  BY <1>1, <1>2, Waiting
<1>4. ASSUME NEW e \in BOOLEAN, records' = records,
             Becomes(t, AfterUpdate(runtime, records, [task EXCEPT !.enabled = e]))
      PROVE  Core'
  <2> DEFINE x == [task EXCEPT !.enabled = e]
  <2>1. /\ x \in Task /\ x.kind = task.kind /\ x.object = task.object /\ x.host = task.host
        /\ x.miner = m /\ x.asked = task.asked
    BY <1>2 DEF Task
  <2> HIDE DEF x
  <2>2. Goes(t, x)
    BY <1>3, <2>1 DEF Goes
  <2>3. Good(runtime, t, task.kind, AfterUpdate(runtime, records, x))
    BY <1>2, <1>3, <2>1, <2>2, AfterUpdateGood
  <2>4. UNCHANGED <<network, registry, phase, queue, started>>
    BY <1>1, <1>4 DEF Acquires, registry
  <2>5. Becomes(t, AfterUpdate(runtime, records, x))
    BY <1>4 DEF x
  <2> QED
    BY <1>1, <2>3, <2>4, <2>5, ContinueCore
<1>5. CASE records[m] = NoRecord
  BY <1>4, <1>5 DEF UpdateAcquires
<1>6. CASE records[m] # NoRecord
  <2>1. records[m] \in Record /\ records[m].enabled \in BOOLEAN
    BY <1>2, <1>6 DEF Records, Record
  <2>2. CASE records[m].host = task.host
    BY <1>4, <1>6, <2>1, <2>2 DEF UpdateAcquires
  <2>3. CASE records[m].host # task.host
    <3> DEFINE enabled == records[m].enabled
               x == [task EXCEPT !.pc = "saving", !.enabled = enabled, !.host = task.host]
    <3>1. /\ Saving(t, enabled, task.host)
          /\ records' = [records EXCEPT ![m].host = task.host]
      BY <1>6, <2>3 DEF UpdateAcquires
    <3>2. enabled \in BOOLEAN
      BY <2>1
    <3> HIDE DEF enabled
    <3>3. /\ x \in Task /\ x.pc = "saving" /\ x.kind = task.kind
          /\ x.object = task.object /\ x.miner = m /\ x.asked = task.asked
          /\ x.enabled = enabled /\ x.host = task.host
      BY <1>2, <3>2 DEF Task
    <3>4. tasks' = [tasks EXCEPT ![t] = x] /\ runtime' = runtime
      BY <3>1 DEF Saving, Core, TypeOK
    <3> HIDE DEF x
    <3>5. TaskOK(runtime, t, x)
      BY <1>1, <1>2, <3>3, SavingTask
    <3>6. /\ records' \in Records
          /\ records'[m] = [host |-> task.host, enabled |-> enabled]
      BY <1>2, <2>1, <3>1 DEF Records, Record, enabled
    <3>7. SaveOK(records', x)
      BY <1>1, <3>3, <3>6 DEF SaveOK, Subject, Reads
    <3> QED
      BY <1>1, <1>2, <3>3, <3>6, <3>7, <3>4, <3>5, SavingCore
  <2> QED
    BY <2>2, <2>3
<1> QED
  BY <1>5, <1>6

LEMMA RejectAcquiresCore ==
  ASSUME Core, NEW t \in AllTasks, RejectAcquires(t)
  PROVE  Core'
<1> DEFINE task == tasks[t]
           x == [task EXCEPT !.pc = "saving", !.enabled = FALSE, !.host = NoHost]
<1>1. /\ Acquires(t) /\ task.pc = "locking" /\ task.kind = "reject"
      /\ rejected' = rejected \cup {task.asked} /\ records' = records
      /\ Saving(t, FALSE, NoHost)
  BY DEF RejectAcquires, Acquires
<1>2. /\ ~Reads(task) /\ task.asked \in Miners /\ records \in Records
      /\ rejected \subseteq Miners /\ task \in Task
  BY <1>1, CoreFacts DEF Reads, TaskOK, Core, TypeOK
<1>3. /\ x \in Task /\ x.pc = "saving" /\ x.kind = task.kind /\ x.object = task.object
      /\ x.miner = task.miner /\ x.asked = task.asked
  BY <1>2 DEF Task
<1>4. tasks' = [tasks EXCEPT ![t] = x] /\ runtime' = runtime
  BY <1>1 DEF Saving, Core, TypeOK
<1> HIDE DEF x
<1>5. TaskOK(runtime, t, x)
  BY <1>1, <1>2, <1>3, SavingTask
<1>6. SaveOK(records', x)
  BY <1>1, <1>3 DEF SaveOK
<1> QED
  BY <1>1, <1>2, <1>3, <1>6, <1>4, <1>5, SavingCore

LEMMA RemoveAcquiresCore ==
  ASSUME Core, NEW t \in AllTasks, RemoveAcquires(t)
  PROVE  Core'
<1> DEFINE task == tasks[t]
           m == task.asked
           n == Counted(runtime, records)
           x == [task EXCEPT !.pc = "saving", !.enabled = FALSE, !.host = NoHost]
<1>1. /\ Acquires(t) /\ task.pc = "locking" /\ task.pc # "idle" /\ task.kind = "remove"
      /\ rejected' = rejected
  BY DEF RemoveAcquires, Acquires
<1>2. /\ ~Reads(task) /\ m \in Miners /\ records \in Records /\ rejected \subseteq Miners
      /\ Fits(runtime) /\ runtime \in Runtime /\ task \in Task
  BY <1>1, CoreFacts DEF Reads, TaskOK, Core, TypeOK
<1>3. CASE records[m] = NoRecord
  <2>1. Becomes(t, Both(n, Idle)) /\ records' = records
    BY <1>3 DEF RemoveAcquires
  <2>2. Fits(n) /\ Grows(runtime, n)
    BY <1>2, CountedPiece, SameFits
  <2> HIDE DEF n
  <2>3. UNCHANGED <<network, registry, phase, queue, started>>
    BY <1>1, <2>1 DEF Acquires, registry
  <2> QED
    BY <1>1, <2>1, <2>2, <2>3, IdleGood, ContinueCore
<1>4. CASE records[m] # NoRecord
  <2>1. Saving(t, FALSE, NoHost) /\ records' = [records EXCEPT ![m] = NoRecord]
    BY <1>4 DEF RemoveAcquires
  <2>2. records' \in Records
    BY <1>2, <2>1 DEF Records
  <2>3. /\ x \in Task /\ x.pc = "saving" /\ x.kind = task.kind /\ x.object = task.object
        /\ x.miner = task.miner /\ x.asked = task.asked
    BY <1>2 DEF Task
  <2>4. tasks' = [tasks EXCEPT ![t] = x] /\ runtime' = runtime
    BY <2>1 DEF Saving, Core, TypeOK
  <2> HIDE DEF x
  <2>5. TaskOK(runtime, t, x)
    BY <1>1, <1>2, <2>3, SavingTask
  <2>6. SaveOK(records', x)
    BY <1>1, <2>3 DEF SaveOK
  <2> QED
    BY <1>1, <1>2, <2>2, <2>3, <2>6, <2>4, <2>5, SavingCore
<1> QED
  BY <1>3, <1>4

LEMMA SwitchAcquiresCore ==
  ASSUME Core, NEW t \in AllTasks, SwitchAcquires(t)
  PROVE  Core'
<1> DEFINE task == tasks[t]
           m == task.asked
           host == records[m].host
           x == [task EXCEPT !.pc = "saving", !.enabled = task.enabled, !.host = host]
<1>1. /\ Acquires(t) /\ task.pc = "locking" /\ task.pc # "idle" /\ task.kind = "switch"
      /\ task.object = 0 /\ rejected' = rejected
  BY DEF SwitchAcquires, Acquires
<1>2. /\ ~Reads(task) /\ m \in Miners /\ records \in Records /\ rejected \subseteq Miners
      /\ Fits(runtime) /\ Grows(runtime, runtime) /\ task.enabled \in BOOLEAN
      /\ task \in Task
  BY <1>1, CoreFacts DEF Reads, TaskOK, Core, TypeOK, Task
<1>3. CASE records[m] = NoRecord
  <2>1. Becomes(t, Both(runtime, Idle)) /\ records' = records
    BY <1>3 DEF SwitchAcquires
  <2>2. UNCHANGED <<network, registry, phase, queue, started>>
    BY <1>1, <2>1 DEF Acquires, registry
  <2> QED
    BY <1>1, <1>2, <2>1, <2>2, IdleGood, ContinueCore
<1>4. CASE records[m] # NoRecord
  <2>1. /\ Saving(t, task.enabled, host)
        /\ records' = [records EXCEPT ![m].enabled = task.enabled]
    BY <1>4 DEF SwitchAcquires
  <2>2. host \in Hosts /\ records[m] \in Record
    BY <1>2, <1>4 DEF Records, Record
  <2>3. records' \in Records /\ records'[m] = [host |-> host, enabled |-> task.enabled]
    BY <1>2, <2>1, <2>2 DEF Records, Record
  <2> HIDE DEF host
  <2>4. /\ x \in Task /\ x.pc = "saving" /\ x.kind = task.kind /\ x.object = 0
        /\ x.miner = task.miner /\ x.asked = m
        /\ x.host = host /\ x.enabled = task.enabled
    BY <1>1, <1>2, <2>2 DEF Task
  <2>5. tasks' = [tasks EXCEPT ![t] = x] /\ runtime' = runtime
    BY <2>1 DEF Saving, Core, TypeOK
  <2> HIDE DEF x
  <2>6. TaskOK(runtime, t, x)
    BY <1>1, <1>2, <2>2, <2>4, SavingTask
  <2>7. SaveOK(records', x)
    BY <1>1, <2>3, <2>4 DEF SaveOK, Subject, Reads
  <2> QED
    BY <1>1, <1>2, <2>3, <2>4, <2>7, <2>5, <2>6, SavingCore
<1> QED
  BY <1>3, <1>4

LEMMA SaveReturnsCore ==
  ASSUME Core, NEW t \in AllTasks, SaveReturns(t)
  PROVE  Core'
<1>1. /\ tasks[t].pc = "saving" /\ tasks[t].pc # "idle"
      /\ Becomes(t, AfterSave(runtime, records, tasks[t]))
      /\ UNCHANGED <<network, registry, phase, queue, started>>
  BY DEF SaveReturns
<1>2. Good(runtime, t, tasks[t].kind, AfterSave(runtime, records, tasks[t]))
  BY <1>1, CoreFacts, AfterSaveGood
<1> QED
  BY <1>1, <1>2, ContinueCore

(* The record of a coordinator is replaced, and its client with it.        *)
Moved(r, c, host) ==
  [r EXCEPT !.objects[c].host = host, !.objects[c].polled = NoHost]

LEMMA MovedPiece ==
  ASSUME NEW r, Fits(r), NEW c \in 1..Len(r.objects), NEW host \in Hosts, NEW n,
         n = Moved(r, c, host)
  PROVE  /\ Fits(n) /\ Grows(r, n) /\ Len(n.objects) = Len(r.objects)
         /\ n.coordinators = r.coordinators /\ n.candidates = r.candidates
         /\ n.totals = r.totals
         /\ n.objects[c].polled = NoHost
         /\ \A d \in 1..Len(r.objects) :
              /\ n.objects[d].miner = r.objects[d].miner
              /\ n.objects[d].shut = r.objects[d].shut
              /\ n.objects[d].ok = r.objects[d].ok
              /\ n.objects[d].heard = r.objects[d].heard
              /\ d # c => n.objects[d] = r.objects[d]
<1> DEFINE x == [r.objects[c] EXCEPT !.host = host, !.polled = NoHost]
<1>1. r \in Runtime /\ r.objects[c] \in Coordinator /\ r.objects \in Seq(Coordinator)
  <2>1. r \in Runtime
    BY DEF Fits
  <2> QED
    BY <2>1, RuntimeFields
<1>2. /\ x \in Coordinator /\ x.polled = NoHost /\ x.miner = r.objects[c].miner
      /\ x.shut = r.objects[c].shut
      /\ x.ok = r.objects[c].ok /\ x.heard = r.objects[c].heard
  BY <1>1 DEF Coordinator
<1>3. n = [r EXCEPT !.objects = [r.objects EXCEPT ![c] = x]]
  BY <1>1, LenProperties DEF Runtime, Moved
<1> HIDE DEF x
<1>4. /\ n \in Runtime /\ n.coordinators = r.coordinators
      /\ n.candidates = r.candidates /\ n.totals = r.totals
      /\ Len(n.objects) = Len(r.objects) /\ n.objects[c] = x
      /\ \A d \in 1..Len(r.objects) : d # c => n.objects[d] = r.objects[d]
  BY <1>1, <1>2, <1>3, ObjectReplaced
<1>5. \A d \in 1..Len(r.objects) :
        /\ n.objects[d].miner = r.objects[d].miner
        /\ n.objects[d].shut = r.objects[d].shut
        /\ n.objects[d].ok = r.objects[d].ok
        /\ n.objects[d].heard = r.objects[d].heard
  BY <1>2, <1>4
<1>6. Grows(r, n)
  BY <1>1, <1>4, <1>5, RuntimeFields DEF Grows
<1>7. Fits(n)
  <2>1. Listing(r)
    BY DEF Fits
  <2>2. ASSUME NEW m \in Miners, n.coordinators[m] # 0
        PROVE  /\ n.coordinators[m] \in 1..Len(n.objects)
               /\ n.objects[n.coordinators[m]].miner = m
               /\ ~n.objects[n.coordinators[m]].shut
    <3>1. /\ r.coordinators[m] \in 1..Len(r.objects)
          /\ r.objects[r.coordinators[m]].miner = m
          /\ ~r.objects[r.coordinators[m]].shut
      BY <1>4, <2>1, <2>2 DEF Listing
    <3> QED
      BY <1>4, <1>5, <3>1
  <2>3. ASSUME NEW d \in 1..Len(n.objects), ~n.objects[d].shut
        PROVE  n.coordinators[n.objects[d].miner] = d
    <3>1. d \in 1..Len(r.objects) /\ ~r.objects[d].shut
      BY <1>4, <1>5, <2>3
    <3>2. r.coordinators[r.objects[d].miner] = d
      BY <2>1, <3>1 DEF Listing
    <3> QED
      BY <1>4, <1>5, <3>1, <3>2
  <2> QED
    BY <1>4, <2>2, <2>3 DEF Fits, Listing
<1> QED
  BY <1>2, <1>4, <1>5, <1>6, <1>7

LEMMA LinkedCore ==
  ASSUME Core, NEW t \in AllTasks, Linked(t)
  PROVE  Core'
<1> DEFINE task == tasks[t]
           c == task.object
           n == Moved(runtime, c, task.host)
           p == Published(n, records, c)
<1>1. /\ task.pc = "linking" /\ task.pc # "idle" /\ task.pc # "reloading"
      /\ Becomes(t, IF task.kind = "probe" THEN Both(p, Idle)
                    ELSE Refresh(n, records, task, c))
      /\ UNCHANGED <<network, registry, phase, queue, started>>
  BY DEF Linked, Moved
<1>2. /\ Fits(runtime) /\ task \in Task /\ TaskOK(runtime, t, task)
      /\ answers \in [Hosts -> Answer]
  BY CoreFacts
<1>3. task.host \in Hosts /\ c # 0 /\ task.kind \notin {"remove", "reject"}
  BY <1>1, <1>2 DEF TaskOK
<1>4. Goes(t, task) /\ c \in 1..Len(runtime.objects)
  BY <1>1, <1>3, Waiting
<1> HIDE DEF c
<1>5. Fits(n) /\ Grows(runtime, n) /\ Len(n.objects) = Len(runtime.objects)
  BY <1>2, <1>3, <1>4, MovedPiece
<1> HIDE DEF n
<1>6. p \in Runtime /\ Same(n, p)
  BY <1>4, <1>5, PublishedPiece
<1>7. Fits(p) /\ Grows(n, p)
  BY <1>5, <1>6, SameFits
<1>8. Grows(runtime, p)
  BY <1>2, <1>5, <1>7, RuntimeFields, GrowsTrans DEF Fits
<1> HIDE DEF p
<1>9. Good(runtime, t, task.kind, IF task.kind = "probe" THEN Both(p, Idle)
                                  ELSE Refresh(n, records, task, c))
  BY <1>2, <1>4, <1>5, <1>7, <1>8, IdleGood, RefreshGood
<1> QED
  BY <1>1, <1>9, ContinueCore

LEMMA StartCore ==
  ASSUME Core, StartContinues
  PROVE  Core'
<1>1. CASE StartEnds
  <2> DEFINE n == Counted(runtime, records)
  <2>1. n \in Runtime /\ Same(runtime, n)
    BY CoreFacts, CountedPiece
  <2>2. Fits(n) /\ Grows(runtime, n)
    BY <2>1, CoreFacts, SameFits
  <2>3. /\ runtime' = n /\ phase' = "running" /\ tasks[Starter] = Idle
        /\ \A m \in Miners : queue[m] = NoRecord
        /\ UNCHANGED <<network, registry, queue, tasks, started>>
    BY <1>1 DEF StartEnds
  <2> HIDE DEF n
  <2>4. TypeOK'
    BY <2>2, <2>3, ListedBound DEF Core, TypeOK, network, registry, Fits
  <2>5. TaskInv'
    <3>1. ASSUME NEW t \in AllTasks
          PROVE  TaskOK(runtime', t, tasks'[t]) /\ SaveOK(records', tasks'[t])
      <4>1. TaskOK(n, t, tasks[t])
        BY <2>2, CoreFacts, TaskGrows DEF Fits
      <4> QED
        BY <2>3, <4>1 DEF Core, TaskInv, registry
    <3> QED
      BY <3>1 DEF TaskInv
  <2> QED
    BY <2>2, <2>3, <2>4, <2>5 DEF Core, Fits, LockInv, PhaseInv
<1>2. CASE \E m \in Miners : StartNext(m)
  <2>1. PICK m \in Miners : StartNext(m)
    BY <1>2
  <2> DEFINE both == StartMiner(runtime, records, Idle, m, queue[m].host)
  <2>2. /\ phase = "starting" /\ tasks[Starter] = Idle /\ queue[m] # NoRecord
        /\ queue' = [queue EXCEPT ![m] = NoRecord]
        /\ Becomes(Starter, both)
        /\ UNCHANGED <<network, registry, phase, started>>
    BY <2>1 DEF StartNext
  <2>3. /\ queue \in Records /\ queue[m].host \in Hosts /\ queue' \in Records
        /\ started \in 0..MaxStarted
    BY <2>2 DEF Core, TypeOK, Records, Record
  <2>4. Goes(Starter, Idle)
    BY IdleTask DEF Goes
  <2>5. Good(runtime, Starter, "start", both)
    BY <2>3, <2>4, IdleTask, CoreFacts, TaskNumbers, StartMinerGood
  <2> HIDE DEF both
  <2> QED
    BY <2>2, <2>3, <2>5, TaskNumbers, BecomesCore DEF network, registry
<1> QED
  BY <1>1, <1>2 DEF StartContinues

LEMMA EmptyFits ==
  /\ Fits(EmptyRuntime) /\ EmptyRuntime.objects = <<>> /\ Len(EmptyRuntime.objects) = 0
  /\ \A m \in Miners : EmptyRuntime.coordinators[m] = 0 /\ EmptyRuntime.candidates[m] = NoHost
<1>1. <<>> \in Seq(Coordinator) /\ Len(<<>>) = 0
  BY EmptySeq
<1>2. EmptyRuntime \in Runtime
  BY <1>1 DEF EmptyRuntime, Runtime, Totals
<1>3. /\ EmptyRuntime.objects = <<>> /\ Len(EmptyRuntime.objects) = 0
      /\ \A m \in Miners : /\ EmptyRuntime.coordinators[m] = 0
                          /\ EmptyRuntime.candidates[m] = NoHost
  BY <1>1 DEF EmptyRuntime
<1> QED
  BY <1>2, <1>3 DEF Fits, Listing

LEMMA CapturedType ==
  ASSUME NEW recs \in Records
  PROVE  /\ Captured(recs) \in Records
         /\ \A m \in Miners : Captured(recs)[m] # NoRecord <=> m \in EnabledIn(recs)
BY DEF Captured, Records, EnabledIn

LEMMA CloseCore ==
  ASSUME Core, NEW t \in AllTasks, CloseBegins(t) \/ CloseEnds(t)
  PROVE  Core'
<1>1. /\ TypeOK /\ Listing(runtime) /\ TaskInv /\ LockInv /\ PhaseInv
      /\ tasks \in [AllTasks -> Task]
  BY DEF Core, TypeOK
<1>2. CASE CloseBegins(t)
  <2>1. /\ phase = "running" /\ phase' = "closing"
        /\ tasks' = [u \in AllTasks |-> IF tasks[u].kind = "probe" THEN Idle ELSE tasks[u]]
        /\ UNCHANGED <<network, registry, queue, runtime, started>>
    BY <1>2 DEF CloseBegins
  <2>2. /\ tasks' \in [AllTasks -> Task]
        /\ \A u \in AllTasks : tasks'[u] = Idle \/ tasks'[u] = tasks[u]
    BY <1>1, <2>1, IdleTask
  <2>3. TypeOK'
    BY <1>1, <2>1, <2>2 DEF TypeOK, network, registry
  <2>4. TaskInv' /\ LockInv'
    BY <1>1, <2>1, <2>2, IdleTask DEF TaskInv, SaveOK, LockInv, registry
  <2>5. PhaseInv'
    BY <1>1, <2>1, <2>2, TaskNumbers DEF PhaseInv
  <2> QED
    BY <1>1, <2>1, <2>3, <2>4, <2>5 DEF Core
<1>3. CASE CloseEnds(t)
  <2>1. /\ phase' = "starting" /\ queue' = Captured(records) /\ runtime' = EmptyRuntime
        /\ tasks' = [u \in AllTasks |-> IF u # t /\ tasks[u].pc = "reloading"
                                         THEN tasks[u] ELSE Idle]
        /\ UNCHANGED <<network, registry, started>>
    BY <1>3 DEF CloseEnds
  <2>2. /\ tasks' \in [AllTasks -> Task]
        /\ \A u \in AllTasks :
             tasks'[u] = Idle \/ (tasks'[u] = tasks[u] /\ tasks[u].pc = "reloading")
    BY <1>1, <2>1, IdleTask
  <2>3. TypeOK'
    BY <1>1, <2>1, <2>2, EmptyFits, CapturedType, ListedBound
       DEF TypeOK, network, registry, Fits
  <2>4. TaskInv'
    <3>1. ASSUME NEW u \in AllTasks
          PROVE  TaskOK(runtime', u, tasks'[u]) /\ SaveOK(records', tasks'[u])
      <4>1. CASE tasks'[u] = Idle
        BY <4>1, IdleTask DEF SaveOK
      <4>2. CASE tasks'[u] = tasks[u] /\ tasks[u].pc = "reloading"
        BY <1>1, <4>2 DEF TaskInv, TaskOK, SaveOK, Locked
      <4> QED
        BY <2>2, <4>1, <4>2
    <3> QED
      BY <3>1 DEF TaskInv
  <2>5. LockInv'
    BY <2>2, IdleTask DEF LockInv
  <2>6. PhaseInv'
    <3>1. ASSUME NEW u \in AllTasks
          PROVE  tasks'[u].kind \in {"start", "enroll", "remove", "poll"}
      BY <1>1, <2>2, IdleTask DEF TaskInv, TaskOK
    <3> QED
      BY <2>1, <3>1 DEF PhaseInv
  <2> QED
    BY <2>1, <2>3, <2>4, <2>5, <2>6, EmptyFits DEF Core, Fits
<1> QED
  BY <1>2, <1>3

LEMMA MovesCore ==
  ASSUME Core, NEW host \in Hosts, NEW a \in Answer, Moves(host, a)
  PROVE  Core'
<1>1. /\ moves < MaxMoves /\ moves' = moves + 1
      /\ answers' = [h \in Hosts |-> IF h = host THEN a
                                     ELSE IF answers[h] = a THEN Nobody ELSE answers[h]]
      /\ UNCHANGED <<registry, phase, queue, runtime, tasks, started>>
  BY DEF Moves
<1>2. answers' \in [Hosts -> Answer] /\ moves' \in 0..MaxMoves
  BY <1>1, FleetAssumption DEF Core, TypeOK, Answer
<1>3. TypeOK'
  BY <1>1, <1>2 DEF Core, TypeOK, registry
<1> QED
  BY <1>1, <1>3 DEF Core, TaskInv, LockInv, PhaseInv, registry

(* A call begins.                                                          *)
LEMMA BeginCore ==
  ASSUME Core, NEW t, NEW r, NEW task, Begin(t, r, task), NEW kind \in Kinds,
         Good(runtime, t, kind, Both(r, task)),
         phase = "starting" => kind \in {"enroll", "remove", "poll"}
  PROVE  Core'
<1>1. /\ t \in Tasks /\ started < MaxStarted /\ started' = started + 1
      /\ Becomes(t, Both(r, task))
      /\ UNCHANGED <<network, registry, phase, queue>>
  BY DEF Begin
<1>2. t \in AllTasks /\ t # Starter
  BY <1>1, TaskNumbers DEF AllTasks
<1>3. started' \in 0..MaxStarted /\ queue' \in Records
  BY <1>1, FleetAssumption DEF Core, TypeOK
<1>4. phase = "starting" => kind \in {"start", "enroll", "remove", "poll"}
  OBVIOUS
<1> QED
  BY <1>1, <1>2, <1>3, <1>4, BecomesCore DEF network, registry

LEMMA ReadingGood ==
  ASSUME NEW r, Fits(r), NEW t \in Tasks, NEW kind \in {"enroll", "probe", "approve"},
         NEW asked \in Answer, kind = "approve" => asked \in Miners, NEW host \in Hosts,
         answers \in [Hosts -> Answer]
  PROVE  Good(r, t, kind, Both(r, Reading(kind, asked, host)))
<1> DEFINE x == Reading(kind, asked, host)
<1>1. /\ x \in Task /\ x.pc = "reading" /\ x.kind = kind /\ x.asked = asked
      /\ x.host = host /\ x.object = 0
  <2>1. answers[host] \in Answer
    OBVIOUS
  <2> QED
    BY <2>1, IdleTask DEF Reading, Task, Kinds, Idle
<1>2. t # Starter
  BY TaskNumbers
<1> HIDE DEF x
<1>3. TaskOK(r, t, x)
  BY <1>1, <1>2 DEF TaskOK, Locked, Reads
<1>4. Grows(r, r)
  BY GrowsSelf DEF Fits
<1> QED
  BY <1>1, <1>3, <1>4 DEF Good, Both, x

LEMMA LockingGood ==
  ASSUME NEW r, NEW n, Fits(n), Grows(r, n), NEW t \in Tasks,
         NEW kind \in {"reject", "remove", "switch"}, NEW m \in Miners,
         NEW enabled \in BOOLEAN
  PROVE  /\ Good(r, t, kind, Both(n, Locking(kind, m)))
         /\ Good(r, t, kind, Both(n, [Locking(kind, m) EXCEPT !.enabled = enabled]))
<1> DEFINE x == Locking(kind, m)
           y == [x EXCEPT !.enabled = enabled]
<1>1. /\ x \in Task /\ x.pc = "locking" /\ x.kind = kind /\ x.asked = m /\ x.object = 0
  BY IdleTask DEF Locking, Task, Kinds, Answer, Idle
<1>2. /\ y \in Task /\ y.pc = "locking" /\ y.kind = kind /\ y.asked = m /\ y.object = 0
  BY <1>1 DEF Task
<1>3. t # Starter
  BY TaskNumbers
<1> HIDE DEF x, y
<1>4. TaskOK(n, t, x) /\ TaskOK(n, t, y)
  BY <1>1, <1>2, <1>3 DEF TaskOK, Locked, Reads
<1> QED
  BY <1>1, <1>2, <1>4 DEF Good, Both, x, y

LEMMA CallsCore ==
  ASSUME Core, NEW t \in AllTasks, Calls(t)
  PROVE  Core'
<1>1. /\ Fits(runtime) /\ Grows(runtime, runtime) /\ answers \in [Hosts -> Answer]
      /\ runtime \in Runtime
  BY CoreFacts
<1>2. ASSUME NEW host \in Hosts, EnrollHost(t, host) PROVE Core'
  <2>1. Begin(t, runtime, Reading("enroll", Nobody, host)) /\ t \in Tasks
    BY <1>2 DEF EnrollHost, Begin
  <2>2. Nobody \in Answer
    BY DEF Answer
  <2>3. Good(runtime, t, "enroll", Both(runtime, Reading("enroll", Nobody, host)))
    BY <1>1, <2>1, <2>2, ReadingGood
  <2> QED
    BY <2>1, <2>3, BeginCore DEF Kinds
<1>3. ASSUME NEW host \in Hosts, ProbeEndpoint(t, host) PROVE Core'
  <2>1. /\ Begin(t, runtime, Reading("probe", Nobody, host)) /\ t \in Tasks
        /\ phase # "starting"
    BY <1>3 DEF ProbeEndpoint, Begin
  <2>2. Nobody \in Answer
    BY DEF Answer
  <2>3. Good(runtime, t, "probe", Both(runtime, Reading("probe", Nobody, host)))
    BY <1>1, <2>1, <2>2, ReadingGood
  <2> QED
    BY <2>1, <2>3, BeginCore DEF Kinds
<1>4. ASSUME NEW m \in Miners, ApproveCandidate(t, m) PROVE Core'
  <2> DEFINE host == runtime.candidates[m]
  <2>1. /\ Begin(t, runtime, Reading("approve", m, host)) /\ t \in Tasks
        /\ phase # "starting" /\ host # NoHost
    BY <1>4 DEF ApproveCandidate, Begin
  <2>2. host \in Hosts /\ m \in Answer
    BY <1>1, <2>1, RuntimeFields DEF Answer
  <2> HIDE DEF host
  <2>3. Good(runtime, t, "approve", Both(runtime, Reading("approve", m, host)))
    BY <1>1, <2>1, <2>2, ReadingGood
  <2> QED
    BY <2>1, <2>3, BeginCore DEF Kinds
<1>5. ASSUME NEW m \in Miners, RejectCandidate(t, m) PROVE Core'
  <2>1. Begin(t, runtime, Locking("reject", m)) /\ t \in Tasks /\ phase # "starting"
    BY <1>5 DEF RejectCandidate, Begin
  <2>2. Good(runtime, t, "reject", Both(runtime, Locking("reject", m)))
    BY <1>1, <2>1, LockingGood
  <2> QED
    BY <2>1, <2>2, BeginCore DEF Kinds
<1>6. ASSUME NEW m \in Miners, RemoveMiner(t, m) PROVE Core'
  <2>1. Begin(t, Stopped(runtime, m), Locking("remove", m)) /\ t \in Tasks
    BY <1>6 DEF RemoveMiner, Begin
  <2>2. Good(runtime, t, "remove", Both(Stopped(runtime, m), Locking("remove", m)))
    BY <1>1, <2>1, StoppedPiece, LockingGood
  <2> QED
    BY <2>1, <2>2, BeginCore DEF Kinds
<1>7. ASSUME NEW m \in Miners, NEW enabled \in BOOLEAN, SetEnabled(t, m, enabled)
      PROVE  Core'
  <2> DEFINE x == [Locking("switch", m) EXCEPT !.enabled = enabled]
  <2>1. Begin(t, runtime, x) /\ t \in Tasks /\ phase # "starting"
    BY <1>7 DEF SetEnabled, Begin
  <2>2. Good(runtime, t, "switch", Both(runtime, x))
    BY <1>1, <2>1, LockingGood
  <2> HIDE DEF x
  <2> QED
    BY <2>1, <2>2, BeginCore DEF Kinds
<1>8. ASSUME NEW m \in Miners, Poll(t, m) PROVE Core'
  <2> DEFINE c == runtime.coordinators[m]
             x == [Idle EXCEPT !.kind = "poll"]
             both == Refresh(runtime, records, x, c)
  <2>1. /\ Begin(t, both.runtime, both.task) /\ t \in Tasks /\ c # 0
    BY <1>8 DEF Poll, Begin
  <2>2. c \in 1..Len(runtime.objects)
    BY <1>1, <2>1 DEF Fits, Listing
  <2>3. Goes(t, x)
    BY <2>1, TaskNumbers, IdleTask DEF Goes, Task, Kinds
  <2>4. x.kind = "poll"
    BY DEF Idle
  <2> HIDE DEF x, c
  <2>5. Good(runtime, t, "poll", both)
    BY <1>1, <2>2, <2>3, <2>4, RefreshGood
  <2> HIDE DEF both
  <2>6. Good(runtime, t, "poll", Both(both.runtime, both.task))
    BY <2>5 DEF Good, Both
  <2> QED
    BY <2>1, <2>6, BeginCore DEF Kinds
<1> QED
  BY <1>2, <1>3, <1>4, <1>5, <1>6, <1>7, <1>8 DEF Calls

LEMMA CoreInit == Init => Core
<1> SUFFICES ASSUME Init PROVE Core
  OBVIOUS
<1>1. /\ answers \in [Hosts -> Answer] /\ records \in Records /\ queue \in Records
      /\ runtime = EmptyRuntime /\ tasks = [t \in AllTasks |-> Idle]
  BY FleetAssumption, CapturedType DEF Init, Answer
<1>2. TypeOK
  <2>1. tasks \in [AllTasks -> Task] /\ runtime \in Runtime
    BY <1>1, IdleTask, EmptyFits DEF Fits
  <2>2. started \in 0..MaxStarted /\ moves \in 0..MaxMoves
    BY FleetAssumption DEF Init
  <2>3. phase \in {"starting", "running", "closing"} /\ rejected \subseteq Miners
    BY DEF Init
  <2>4. \A m \in Miners : runtime.coordinators[m] <= Len(runtime.objects)
    BY <1>1, EmptyFits, ListedBound
  <2> QED
    BY <1>1, <2>1, <2>2, <2>3, <2>4 DEF TypeOK
<1>3. TaskInv /\ LockInv /\ PhaseInv
  BY <1>1, IdleTask DEF TaskInv, SaveOK, LockInv, PhaseInv, Init
<1> QED
  BY <1>1, <1>2, <1>3, EmptyFits DEF Core, Fits

LEMMA ContinuesCore ==
  ASSUME Core, NEW t \in AllTasks, Continue(t)
  PROVE  Core'
BY ReadReturnsCore, EnrollAcquiresCore, UpdateAcquiresCore, RejectAcquiresCore,
   RemoveAcquiresCore, SwitchAcquiresCore, SaveReturnsCore, LinkedCore, CloseCore
   DEF Continue

LEMMA CoreNext == Core /\ [Next]_vars => Core'
<1> SUFFICES ASSUME Core, [Next]_vars PROVE Core'
  OBVIOUS
<1>1. CASE UNCHANGED vars
  BY <1>1 DEF Core, TypeOK, Listing, TaskInv, LockInv, PhaseInv, vars
<1>2. CASE Next
  BY <1>2, ContinuesCore, CallsCore, StartCore, MovesCore DEF Next
<1> QED
  BY <1>1, <1>2

LEMMA CoreAlways == Spec => []Core
BY CoreInit, CoreNext, PTL DEF Spec

-----------------------------------------------------------------------------
(* What follows from the core.                                             *)

(* Every state is of its type; in particular the runtime lists coordinators*)
(* that exist.                                                             *)
THEOREM TypesOK == Spec => []TypeOK
<1>1. Core => TypeOK
  BY DEF Core
<1> QED
  BY <1>1, CoreAlways, PTL

(* No coordinator polls that the runtime does not list: whoever is         *)
(* refreshing it, closing, disabling and removing reach every one.         *)
THEOREM CoordinatorsListed == Spec => []NoStrayCoordinator
<1>1. Core => NoStrayCoordinator
  BY DEF Core, Listing, NoStrayCoordinator
<1> QED
  BY <1>1, CoreAlways, PTL

(* The operator's requests that enroll a miner.                            *)
Approves(m) ==
  \E t \in Tasks :
    /\ tasks[t].pc = "locking" /\ tasks'[t].pc = "saving"
    /\ \/ tasks[t].kind = "enroll"
       \/ tasks[t].kind = "approve" /\ tasks[t].asked = m

LEMMA NewRecordApproved ==
  ASSUME Core, Next, NEW m \in Miners, records[m] = NoRecord, records'[m] # NoRecord
  PROVE  Approves(m)
<1>1. records \in Records /\ records' # records /\ tasks \in [AllTasks -> Task]
  BY DEF Core, TypeOK
<1>2. \/ \E t \in AllTasks : Continue(t) \/ Calls(t)
      \/ StartContinues
      \/ \E host \in Hosts, a \in Answer : Moves(host, a)
  BY DEF Next
<1>3. CASE StartContinues \/ \E host \in Hosts, a \in Answer : Moves(host, a)
  BY <1>1, <1>3 DEF StartContinues, StartEnds, StartNext, Moves, registry
<1>4. ASSUME NEW t \in AllTasks, Calls(t) PROVE FALSE
  BY <1>1, <1>4 DEF Calls, EnrollHost, ProbeEndpoint, ApproveCandidate, RejectCandidate,
     RemoveMiner, SetEnabled, Poll, Begin, registry
<1>5. ASSUME NEW t \in AllTasks, Continue(t) PROVE Approves(m)
  <2> DEFINE task == tasks[t]
  <2>1. CASE EnrollAcquires(t)
    <3>1. /\ Acquires(t) /\ task.pc = "locking" /\ task.object = 0
          /\ task.kind \in {"enroll", "approve"}
          /\ \E r : records' = [records EXCEPT ![task.miner] = r]
          /\ \E e, h : Saving(t, e, h)
      BY <2>1 DEF EnrollAcquires, Acquires
    <3>2. task.miner = m
      BY <1>1, <3>1 DEF Records
    <3>3. /\ task.kind = "approve" => task.asked = m
          /\ t \in Tasks
      <4>1. TaskOK(runtime, t, task)
        BY CoreFacts
      <4> QED
        BY <3>1, <3>2, <4>1 DEF TaskOK, Locked, AllTasks
    <3>4. tasks'[t].pc = "saving"
      <4>1. PICK e, h : Saving(t, e, h)
        BY <3>1
      <4>2. tasks[t] \in Task /\ tasks'[t] =
              [tasks[t] EXCEPT !.pc = "saving", !.enabled = e, !.host = h]
        BY <1>1, <4>1 DEF Saving
      <4> QED
        BY <4>2 DEF Task
    <3> QED
      BY <3>1, <3>3, <3>4 DEF Approves
  <2>2. CASE UpdateAcquires(t)
    <3>1. records' = [records EXCEPT ![task.miner].host = task.host]
          /\ records[task.miner] # NoRecord
      BY <1>1, <2>2 DEF UpdateAcquires
    <3> QED
      BY <1>1, <3>1 DEF Records
  <2>3. CASE RejectAcquires(t)
    BY <1>1, <2>3 DEF RejectAcquires
  <2>4. CASE RemoveAcquires(t)
    <3>1. records' = [records EXCEPT ![task.asked] = NoRecord]
      BY <1>1, <2>4 DEF RemoveAcquires
    <3> QED
      BY <1>1, <3>1 DEF Records
  <2>5. CASE SwitchAcquires(t)
    <3>1. records' = [records EXCEPT ![task.asked].enabled = task.enabled]
          /\ records[task.asked] # NoRecord
      BY <1>1, <2>5 DEF SwitchAcquires
    <3> QED
      BY <1>1, <3>1 DEF Records
  <2>6. CASE \/ \E a \in Answer : ReadReturns(t, a)
             \/ SaveReturns(t) \/ Linked(t) \/ CloseBegins(t) \/ CloseEnds(t)
    BY <1>1, <2>6 DEF ReadReturns, Answered, SaveReturns, Linked, CloseBegins, CloseEnds,
       registry
  <2> QED
    BY <1>5, <2>1, <2>2, <2>3, <2>4, <2>5, <2>6 DEF Continue
<1> QED
  BY <1>2, <1>3, <1>4, <1>5

(* A miner is enrolled only by a request that named its host, or that      *)
(* named its MAC and was read back at the candidate's host.                *)
THEOREM OnlyApproved == Spec => ExplicitApproval
<1>1. Core /\ [Next]_vars => [\A m \in Miners :
        records[m] = NoRecord /\ records'[m] # NoRecord =>
          \E t \in Tasks :
            /\ tasks[t].pc = "locking" /\ tasks'[t].pc = "saving"
            /\ \/ tasks[t].kind = "enroll"
               \/ tasks[t].kind = "approve" /\ tasks[t].asked = m]_vars
  BY NewRecordApproved DEF Approves
<1> QED
  BY <1>1, CoreAlways, PTL DEF Spec, ExplicitApproval

-----------------------------------------------------------------------------
(* FleetRuntime implements AtomicRegistry.                                 *)

Held(recs) == [m \in Miners |-> HeldRecord(recs[m])]
Shape(h, refused) == [miners |-> h, rejected |-> refused, incidents |-> <<>>]
HeldIn(recs, refused) == Shape(Held(recs), refused)

LEMMA HeldRecordFacts ==
  ASSUME NEW r \in Record
  PROVE  /\ HeldRecord(r) = [host |-> r.host, settings |-> [f \in {"enabled"} |-> ~r.enabled]]
         /\ HeldRecord(r) \in Registry!Record /\ HeldRecord(r) # NoRecord
<1>1. r # NoRecord /\ r.host \in Hosts /\ r.enabled \in BOOLEAN
  BY FleetAssumption DEF Record
<1>2. HeldRecord(r) = [host |-> r.host, settings |-> [f \in {"enabled"} |-> ~r.enabled]]
  BY <1>1 DEF HeldRecord
<1>3. HeldRecord(r) \in [host : Hosts, settings : [{"enabled"} -> BOOLEAN]]
  BY <1>1, <1>2
<1> QED
  BY <1>2, <1>3, FleetAssumption DEF Registry!Record, Registry!Settings

(* One record replaced on both sides.                                      *)
LEMMA HeldReplaced ==
  ASSUME NEW recs \in Records, NEW m \in Miners, NEW r
  PROVE  Held([recs EXCEPT ![m] = r]) = [Held(recs) EXCEPT ![m] = HeldRecord(r)]
BY DEF Held, Records

LEMMA HeldNow ==
  /\ HeldFleet = HeldIn(records, rejected)
  /\ \A n, x : n = records' /\ x = rejected' => HeldFleet' = HeldIn(n, x)
<1>1. HeldFleet = HeldIn(records, rejected)
  BY DEF HeldFleet, HeldIn, Shape, Held
<1>2. ASSUME NEW n, NEW x, n = records', x = rejected' PROVE HeldFleet' = HeldIn(n, x)
  BY <1>2 DEF HeldFleet, HeldIn, Shape, Held, HeldRecord
<1> QED
  BY <1>1, <1>2

LEMMA HeldStill ==
  ASSUME records' = records, rejected' = rejected
  PROVE  UNCHANGED HeldFleet
BY DEF HeldFleet, HeldRecord

LEMMA NothingToForget ==
  ASSUME NEW m
  PROVE  Registry!Without(<<>>, m) = <<>>
<1>1. Registry!Cardinality({}) = 0
  <2>1. Registry!Cardinality({}) = Cardinality({})
    BY DEF Registry!Cardinality, Cardinality
  <2> QED
    BY <2>1, FS_EmptySet
<1>2. {i \in DOMAIN <<>> : <<>>[i] # m} = {}
  OBVIOUS
<1> QED
  BY <1>1, <1>2 DEF Registry!Without

(* The operations of the registry, field by field.                         *)
LEMMA MinersAndIncidents ==
  ASSUME NEW h, NEW refused, NEW k
  PROVE  [Shape(h, refused) EXCEPT !.miners = k, !.incidents = <<>>] = Shape(k, refused)
<1> DEFINE a == [Shape(h, refused) EXCEPT !.miners = k, !.incidents = <<>>]
<1>1. /\ DOMAIN a = {"miners", "rejected", "incidents"}
      /\ a = [x \in {"miners", "rejected", "incidents"} |-> a[x]]
      /\ a.miners = k /\ a.rejected = refused /\ a.incidents = <<>>
  BY DEF Shape
<1> HIDE DEF a
<1>2. a = [miners |-> k, rejected |-> refused, incidents |-> <<>>]
  BY <1>1
<1> QED
  BY <1>2 DEF a, Shape

LEMMA EnrolledFields ==
  ASSUME NEW h, NEW refused, NEW m, NEW host
  PROVE  Registry!EnrolledIn(Shape(h, refused), m, host) =
           Shape([h EXCEPT ![m] = Registry!FromSnapshot(host, h[m])], refused \ {m})
<1> DEFINE k == [h EXCEPT ![m] = Registry!FromSnapshot(host, h[m])]
           w == refused \ {m}
           a == [Shape(h, refused) EXCEPT !.miners = k, !.rejected = w]
<1>1. Registry!EnrolledIn(Shape(h, refused), m, host) = a
  BY DEF Registry!EnrolledIn, Shape
<1> HIDE DEF k, w
<1>2. /\ DOMAIN a = {"miners", "rejected", "incidents"}
      /\ a = [x \in {"miners", "rejected", "incidents"} |-> a[x]]
      /\ a.miners = k /\ a.rejected = w /\ a.incidents = <<>>
  BY DEF Shape
<1> HIDE DEF a
<1>3. a = [miners |-> k, rejected |-> w, incidents |-> <<>>]
  BY <1>2
<1> QED
  BY <1>1, <1>3 DEF Shape, k, w

LEMMA UpdatedFields ==
  ASSUME NEW h, NEW refused, NEW m, NEW host
  PROVE  Registry!UpdatedIn(Shape(h, refused), m, host) =
           Shape([h EXCEPT ![m] = Registry!FromSnapshot(host, h[m])], refused)
BY DEF Registry!UpdatedIn, Shape

LEMMA SetFields ==
  ASSUME NEW h, NEW refused, NEW m, NEW f, NEW value
  PROVE  Registry!SetIn(Shape(h, refused), m, f, value) =
           Shape([h EXCEPT ![m] = [h[m] EXCEPT !.settings[f] = value]], refused)
BY DEF Registry!SetIn, Shape

LEMMA RejectedFields ==
  ASSUME NEW h, NEW refused, NEW m
  PROVE  Registry!RejectedIn(Shape(h, refused), m) = Shape(h, refused \cup {m})
<1> DEFINE w == refused \cup {m}
<1>1. Registry!RejectedIn(Shape(h, refused), m) = [Shape(h, refused) EXCEPT !.rejected = w]
  BY DEF Registry!RejectedIn, Shape
<1> HIDE DEF w
<1>2. [Shape(h, refused) EXCEPT !.rejected = w] = Shape(h, w)
  BY DEF Shape
<1> QED
  BY <1>1, <1>2 DEF w

LEMMA RemovedFields ==
  ASSUME NEW h, NEW refused, NEW m
  PROVE  Registry!RemovedFrom(Shape(h, refused), m) = Shape([h EXCEPT ![m] = NoRecord], refused)
<1> DEFINE k == [h EXCEPT ![m] = NoRecord]
<1>1. Registry!RemovedFrom(Shape(h, refused), m) =
        [Shape(h, refused) EXCEPT !.miners = k, !.incidents = <<>>]
  BY NothingToForget DEF Registry!RemovedFrom, Shape
<1> HIDE DEF k
<1>2. Registry!RemovedFrom(Shape(h, refused), m) = Shape(k, refused)
  <2>1. [Shape(h, refused) EXCEPT !.miners = k, !.incidents = <<>>] = Shape(k, refused)
    BY MinersAndIncidents
  <2> QED
    BY <1>1, <2>1
<1> QED
  BY <1>2 DEF k

(* The runtime's fleet with one record replaced.                           *)
LEMMA HeldInReplaced ==
  ASSUME NEW recs \in Records, NEW refused, NEW m \in Miners, NEW r
  PROVE  HeldIn([recs EXCEPT ![m] = r], refused) =
           Shape([Held(recs) EXCEPT ![m] = HeldRecord(r)], refused)
BY HeldReplaced DEF HeldIn

(* What a registered snapshot makes of a record, here and there.           *)
LEMMA HeldSnapshot ==
  ASSUME NEW e \in Record \cup {NoRecord}, NEW host \in Hosts, NEW r,
         r = [host |-> host, enabled |-> e # NoRecord => e.enabled]
  PROVE  Registry!FromSnapshot(host, HeldRecord(e)) = HeldRecord(r)
<1>1. r \in Record
  BY DEF Record
<1>2. CASE e = NoRecord
  <2>1. HeldRecord(e) = NoRecord /\ r.enabled = TRUE /\ r.host = host
    BY <1>2 DEF HeldRecord
  <2>2. HeldRecord(r) = [host |-> host, settings |-> [f \in {"enabled"} |-> FALSE]]
    BY <1>1, <2>1, HeldRecordFacts
  <2> QED
    BY <2>1, <2>2 DEF Registry!FromSnapshot, Registry!Approved, Registry!Defaults
<1>3. CASE e # NoRecord
  <2>1. /\ e \in Record /\ r.host = host /\ r.enabled = e.enabled
    BY <1>3 DEF Record
  <2>2. /\ HeldRecord(e) = [host |-> e.host, settings |-> [f \in {"enabled"} |-> ~e.enabled]]
        /\ HeldRecord(e) # NoRecord
        /\ HeldRecord(r) = [host |-> host, settings |-> [f \in {"enabled"} |-> ~e.enabled]]
    BY <1>1, <2>1, HeldRecordFacts
  <2> QED
    BY <2>2 DEF Registry!FromSnapshot
<1> QED
  BY <1>2, <1>3

LEMMA EnrollOperation ==
  ASSUME Core, NEW t \in AllTasks, EnrollAcquires(t)
  PROVE  Registry!Operation
<1> DEFINE task == tasks[t]
           m == task.miner
           e == records[m]
           r == [host |-> task.host, enabled |-> e # NoRecord => e.enabled]
<1>1. PICK n, x : n = records' /\ x = rejected'
  OBVIOUS
<1>2. /\ task.pc = "locking" /\ task.object = 0 /\ task.kind \in {"enroll", "approve"}
      /\ n = [records EXCEPT ![m] = r] /\ x = rejected \ {m}
  BY <1>1 DEF EnrollAcquires, Acquires
<1>3. task.host \in Hosts /\ m \in Miners /\ records \in Records
  BY <1>2, CoreFacts DEF Reads, TaskOK, Locked
<1>4. e \in Record \cup {NoRecord}
  BY <1>3 DEF Records
<1>5. Registry!FromSnapshot(task.host, HeldRecord(e)) = HeldRecord(r)
  BY <1>3, <1>4, HeldSnapshot
<1>6. Registry!EnrolledIn(HeldIn(records, rejected), m, task.host) = HeldIn(n, x)
  <2>1. Held(records)[m] = HeldRecord(records[m])
    BY <1>3 DEF Held
  <2> HIDE DEF m, r, task
  <2>2. HeldIn(n, x) = Shape([Held(records) EXCEPT ![m] = HeldRecord(r)], x)
    BY <1>2, <1>3, <1>5, HeldInReplaced
  <2> QED
    BY <1>2, <1>3, <1>5, <2>1, <2>2, EnrolledFields DEF HeldIn
<1> QED
  BY <1>1, <1>3, <1>6, HeldNow DEF Registry!Operation

(* A record that is there is one on both sides.                            *)
LEMMA HeldEnrolled ==
  ASSUME records \in Records, NEW m \in Miners, records[m] # NoRecord
  PROVE  /\ records[m] \in Record
         /\ m \in Registry!Enrolled(HeldIn(records, rejected))
<1>1. records[m] \in Record
  BY DEF Records
<1>2. HeldRecord(records[m]) # NoRecord
  BY <1>1, HeldRecordFacts
<1> QED
  BY <1>1, <1>2 DEF Registry!Enrolled, HeldIn, Shape, Held

LEMMA UpdateOperation ==
  ASSUME Core, NEW t \in AllTasks, UpdateAcquires(t)
  PROVE  Registry!Operation \/ UNCHANGED HeldFleet
<1> DEFINE task == tasks[t]
           m == task.miner
           e == records[m]
           r == [host |-> task.host, enabled |-> e # NoRecord => e.enabled]
<1>1. PICK n, x : n = records' /\ x = rejected'
  OBVIOUS
<1>2. /\ task.pc = "locking" /\ x = rejected
      /\ task.object # 0 \/ task.kind = "probe"
  BY <1>1 DEF UpdateAcquires, Acquires
<1>3. task.host \in Hosts /\ m \in Miners /\ records \in Records
  BY <1>2, CoreFacts DEF Reads, TaskOK, Locked
<1>4. CASE n = records
  BY <1>1, <1>2, <1>4, HeldStill
<1>5. CASE n # records
  <2>1. e # NoRecord /\ n = [records EXCEPT ![m].host = task.host]
    BY <1>1, <1>5 DEF UpdateAcquires
  <2>2. e \in Record /\ m \in Registry!Enrolled(HeldIn(records, rejected))
    BY <1>3, <2>1, HeldEnrolled
  <2>3. n = [records EXCEPT ![m] = r]
    <3>1. [e EXCEPT !.host = task.host] = r
      BY <2>1, <2>2 DEF Record
    <3> QED
      BY <2>1, <3>1
  <2>4. Registry!FromSnapshot(task.host, HeldRecord(e)) = HeldRecord(r)
    BY <1>3, <2>2, HeldSnapshot
  <2>5. Registry!UpdatedIn(HeldIn(records, rejected), m, task.host) = HeldIn(n, x)
    <3>1. Held(records)[m] = HeldRecord(records[m])
      BY <1>3 DEF Held
    <3> HIDE DEF m, r, task
    <3>2. HeldIn(n, x) = Shape([Held(records) EXCEPT ![m] = HeldRecord(r)], x)
      BY <1>2, <1>3, <2>3, <2>4, HeldInReplaced
    <3> QED
      BY <1>2, <1>3, <2>3, <2>4, <3>1, <3>2, UpdatedFields DEF HeldIn
  <2> QED
    BY <1>1, <1>3, <2>2, <2>5, HeldNow DEF Registry!Operation
<1> QED
  BY <1>4, <1>5

LEMMA RejectOperation ==
  ASSUME Core, NEW t \in AllTasks, RejectAcquires(t)
  PROVE  Registry!Operation
<1> DEFINE m == tasks[t].asked
<1>1. PICK n, x : n = records' /\ x = rejected'
  OBVIOUS
<1>2. m \in Miners /\ x = rejected \cup {m} /\ n = records
  BY <1>1, CoreFacts DEF TaskOK, RejectAcquires
<1> HIDE DEF m
<1>3. Registry!RejectedIn(HeldIn(records, rejected), m) = HeldIn(n, x)
  BY <1>2, RejectedFields DEF HeldIn
<1> QED
  BY <1>1, <1>2, <1>3, HeldNow DEF Registry!Operation

LEMMA RemoveOperation ==
  ASSUME Core, NEW t \in AllTasks, RemoveAcquires(t)
  PROVE  Registry!Operation \/ UNCHANGED HeldFleet
<1> DEFINE m == tasks[t].asked
<1>1. PICK n, x : n = records' /\ x = rejected'
  OBVIOUS
<1>2. m \in Miners /\ x = rejected /\ records \in Records
  BY <1>1, CoreFacts DEF TaskOK, RemoveAcquires
<1>3. CASE n = records
  BY <1>1, <1>2, <1>3, HeldStill
<1>4. CASE n # records
  <2>1. records[m] # NoRecord /\ n = [records EXCEPT ![m] = NoRecord]
    BY <1>1, <1>4 DEF RemoveAcquires
  <2>2. m \in Registry!Enrolled(HeldIn(records, rejected))
    BY <1>2, <2>1, HeldEnrolled
  <2>3. HeldRecord(NoRecord) = NoRecord
    BY DEF HeldRecord
  <2>4. Registry!RemovedFrom(HeldIn(records, rejected), m) = HeldIn(n, x)
    <3>1. Held(records)[m] = HeldRecord(records[m])
      BY <1>2 DEF Held
    <3> HIDE DEF m
    <3>2. HeldIn(n, x) = Shape([Held(records) EXCEPT ![m] = HeldRecord(NoRecord)], x)
      BY <1>2, <2>1, <2>3, HeldInReplaced
    <3> QED
      BY <1>2, <2>1, <2>3, <3>1, <3>2, RemovedFields DEF HeldIn
  <2> QED
    BY <1>1, <1>2, <2>2, <2>4, HeldNow DEF Registry!Operation
<1> QED
  BY <1>3, <1>4

LEMMA SwitchOperation ==
  ASSUME Core, NEW t \in AllTasks, SwitchAcquires(t)
  PROVE  Registry!Operation \/ UNCHANGED HeldFleet
<1> DEFINE task == tasks[t]
           m == task.asked
           e == records[m]
           r == [host |-> e.host, enabled |-> task.enabled]
<1>1. PICK n, x : n = records' /\ x = rejected'
  OBVIOUS
<1>2. m \in Miners /\ x = rejected /\ records \in Records /\ task.enabled \in BOOLEAN
  BY <1>1, CoreFacts DEF TaskOK, SwitchAcquires, Task
<1>3. CASE n = records
  BY <1>1, <1>2, <1>3, HeldStill
<1>4. CASE n # records
  <2>1. e # NoRecord /\ n = [records EXCEPT ![m].enabled = task.enabled]
    BY <1>1, <1>4 DEF SwitchAcquires
  <2>2. e \in Record /\ m \in Registry!Enrolled(HeldIn(records, rejected))
    BY <1>2, <2>1, HeldEnrolled
  <2>3. n = [records EXCEPT ![m] = r] /\ r \in Record
    <3>1. [e EXCEPT !.enabled = task.enabled] = r /\ r \in Record
      BY <1>2, <2>2 DEF Record
    <3> QED
      BY <2>1, <3>1
  <2>4. [HeldRecord(e) EXCEPT !.settings["enabled"] = ~task.enabled] = HeldRecord(r)
    <3>1. /\ HeldRecord(e) = [host |-> e.host, settings |-> [f \in {"enabled"} |-> ~e.enabled]]
          /\ HeldRecord(r) =
               [host |-> e.host, settings |-> [f \in {"enabled"} |-> ~task.enabled]]
      BY <2>2, <2>3, HeldRecordFacts
    <3> QED
      BY <3>1
  <2>5. Registry!SetIn(HeldIn(records, rejected), m, "enabled", ~task.enabled) = HeldIn(n, x)
    <3>1. Held(records)[m] = HeldRecord(records[m])
      BY <1>2 DEF Held
    <3> HIDE DEF m, r, task
    <3>2. HeldIn(n, x) = Shape([Held(records) EXCEPT ![m] = HeldRecord(r)], x)
      BY <1>2, <2>3, <2>4, HeldInReplaced
    <3> QED
      BY <1>2, <2>3, <2>4, <3>1, <3>2, SetFields DEF HeldIn
  <2>6. "enabled" \in {"enabled"} /\ (~task.enabled) \in BOOLEAN
    OBVIOUS
  <2> QED
    BY <1>1, <1>2, <2>2, <2>5, <2>6, HeldNow DEF Registry!Operation
<1> QED
  BY <1>3, <1>4

LEMMA OthersLeaveRegistry ==
  ASSUME NEW t \in AllTasks,
         \/ Calls(t) \/ SaveReturns(t) \/ Linked(t) \/ CloseBegins(t) \/ CloseEnds(t)
         \/ \E a \in Answer : ReadReturns(t, a)
  PROVE  UNCHANGED HeldFleet
<1>1. records' = records /\ rejected' = rejected
  BY DEF Calls, EnrollHost, ProbeEndpoint, ApproveCandidate, RejectCandidate, RemoveMiner,
     SetEnabled, Poll, Begin, registry, ReadReturns, Answered, SaveReturns, Linked,
     CloseBegins, CloseEnds
<1> QED
  BY <1>1, HeldStill

(* Any number of enrollments, approvals, rejections, removals, switches,   *)
(* probes and polls at a time, through reloads (runtime.py, manager.py,    *)
(* coordinator.py): each changes the registry by one whole operation on    *)
(* the fleet that is there when it gets the lock, and by nothing else.     *)
THEOREM RuntimeImplementsAtomic == Spec => RegistryIsAtomic
<1>1. Init => Registry!Init
  <2> SUFFICES ASSUME Init PROVE HeldFleet \in Registry!Fleet
    BY DEF Registry!Init
  <2>1. records \in Records /\ rejected = {}
    BY FleetAssumption DEF Init
  <2>2. Held(records) \in Registry!Records
    <3>1. \A m \in Miners : HeldRecord(records[m]) \in Registry!Record \cup {NoRecord}
      BY <2>1, HeldRecordFacts DEF Records, HeldRecord
    <3> QED
      BY <3>1 DEF Held, Registry!Records
  <2>3. <<>> \in Registry!Incidents
    <3>1. <<>> \in [1..0 -> Miners] /\ 0 \in 0..1
      OBVIOUS
    <3> QED
      BY <3>1 DEF Registry!Incidents
  <2> QED
    BY <2>1, <2>2, <2>3, HeldNow DEF Registry!Fleet, HeldIn, Shape
<1>2. Core /\ [Next]_vars => [Registry!Operation]_HeldFleet
  <2> SUFFICES ASSUME Core, [Next]_vars PROVE Registry!Operation \/ UNCHANGED HeldFleet
    OBVIOUS
  <2>1. CASE UNCHANGED vars
    BY <2>1, HeldStill DEF vars
  <2>2. CASE StartContinues \/ \E host \in Hosts, a \in Answer : Moves(host, a)
    BY <2>2, HeldStill DEF StartContinues, StartEnds, StartNext, Moves, registry
  <2>3. ASSUME NEW t \in AllTasks, Calls(t) \/ Continue(t)
        PROVE  Registry!Operation \/ UNCHANGED HeldFleet
    BY <2>3, EnrollOperation, UpdateOperation, RejectOperation, RemoveOperation,
       SwitchOperation, OthersLeaveRegistry DEF Continue
  <2> QED
    BY <2>1, <2>2, <2>3 DEF Next
<1> QED
  BY <1>1, <1>2, CoreAlways, PTL DEF Spec, RegistryIsAtomic, Registry!Spec
=============================================================================
