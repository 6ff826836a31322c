-------------------------- MODULE MinerRegistryProofs --------------------------
(***************************************************************************)
(* The safety of MinerRegistry for every set of miners, hosts and fields,  *)
(* every first file and any number of instances, operations and errors:    *)
(* types with the limit on incidents, that the file follows the memory,    *)
(* that decisions stand, and that no known miner is lost.                  *)
(***************************************************************************)
EXTENDS MinerRegistry, FiniteSetTheorems, SequenceTheorems, TLAPS

(* A save under way writes what its instance holds.  A migration always    *)
(* has one, which nothing cancels; a registry yet to come has none.  The   *)
(* file is behind the newest registry only when one of these is why.       *)
SavesInv ==
  /\ \A g \in Instances :
       /\ g > instance => status[g] = "absent"
       /\ status[g] = "absent" => saves[g] = Nothing
       /\ saves[g] # Nothing => saves[g].file = Serialized(memory[g])
       /\ status[g] = "migrating" => saves[g] # Nothing /\ ~saves[g].cancellable
  /\ instance = 0 => orphans = {}
  /\ instance > 0 => status[instance] # "absent"
  /\ instance > 0 /\ saves[instance] = Nothing /\ ~behind =>
       Read(file) = memory[instance]

(* The ledger follows the newest registry, unloaded or gone as it may be,  *)
(* and before there is one the first file.                                 *)
LedgerInv ==
  /\ instance = 0 => ~behind /\ ledger = DecisionsIn(Read(file))
  /\ instance > 0 => ledger = DecisionsIn(memory[instance])

(* Whatever may become the file or the memory has the known miners.        *)
KnownInv ==
  /\ known \subseteq Enrolled(Read(file))
  /\ \A g \in Instances : status[g] # "absent" => known \subseteq Enrolled(memory[g])
  /\ \A f \in orphans : known \subseteq Enrolled(Read(f))

IInv == TypeOK /\ SavesInv /\ LedgerInv /\ KnownInv

-----------------------------------------------------------------------------
(* The list of incidents.                                                  *)

LEMMA IncidentsAreSequences ==
  \A s : s \in Incidents <=> s \in Seq(Miners) /\ Len(s) <= MaxIncidents
<1> USE RegistryAssumption
<1>1. ASSUME NEW s \in Incidents PROVE s \in Seq(Miners) /\ Len(s) <= MaxIncidents
  <2>1. PICK n \in 0..MaxIncidents : s \in [1..n -> Miners]
    BY DEF Incidents
  <2>2. n \in Nat
    BY <2>1
  <2> QED
    BY <2>1, <2>2, IsASeq, LenProperties
<1>2. ASSUME NEW s \in Seq(Miners), Len(s) <= MaxIncidents PROVE s \in Incidents
  <2>1. Len(s) \in 0..MaxIncidents /\ s \in [1..Len(s) -> Miners]
    BY <1>2, LenProperties
  <2> QED
    BY <2>1 DEF Incidents
<1> QED
  BY <1>1, <1>2

(* Of a finite set of positions, every rank up to its size is somebody's.  *)
LEMMA EveryRankIsTaken ==
  ASSUME NEW kept \in SUBSET Nat, IsFiniteSet(kept), NEW k \in 1..Cardinality(kept)
  PROVE  Kth(kept, k) \in kept
<1> DEFINE Below(i) == {j \in kept : j <= i}
           n == Cardinality(kept)
           rank == [i \in kept |-> Cardinality(Below(i))]
<1>1. n \in Nat
  BY FS_CardinalityType
<1>2. ASSUME NEW i \in kept
      PROVE  IsFiniteSet(Below(i)) /\ Cardinality(Below(i)) \in 1..n
  <2>1. IsFiniteSet(Below(i)) /\ Cardinality(Below(i)) <= n
    BY FS_Subset
  <2>2. i \in Below(i)
    OBVIOUS
  <2>3. Cardinality(Below(i)) \in Nat /\ Cardinality(Below(i)) # 0
    <3> HIDE DEF Below
    <3> QED
      BY <2>1, <2>2, FS_CardinalityType, FS_EmptySet
  <2> QED
    BY <1>1, <2>1, <2>3
<1>3. ASSUME NEW i \in kept, NEW j \in kept, i < j
      PROVE  Cardinality(Below(i)) # Cardinality(Below(j))
  <2>1. ASSUME NEW x \in Below(i) PROVE x \in Below(j)
    <3>1. x \in Nat /\ i \in Nat /\ j \in Nat /\ x <= i
      OBVIOUS
    <3> QED
      BY <1>3, <3>1
  <2>2. j \in Below(j) /\ j \notin Below(i)
    <3>1. i \in Nat /\ j \in Nat
      OBVIOUS
    <3> QED
      BY <1>3, <3>1
  <2> HIDE DEF Below
  <2> QED
    BY <1>2, <2>1, <2>2, FS_Subset
<1>4. rank \in Injection(kept, 1..n)
  <2>1. rank \in [kept -> 1..n]
    BY <1>2
  <2>2. ASSUME NEW i \in kept, NEW j \in kept, rank[i] = rank[j] PROVE i = j
    <3>1. Cardinality(Below(i)) = Cardinality(Below(j))
      BY <2>2
    <3>2. ~(i < j) /\ ~(j < i)
      BY <1>3, <3>1
    <3> QED
      BY <3>2
  <2> HIDE DEF rank
  <2> QED
    BY <2>1, <2>2 DEF Injection, IsInjective
<1>5. IsFiniteSet(1..n) /\ Cardinality(1..n) = n
  <2> HIDE DEF n
  <2> QED
    BY <1>1, FS_Interval
<1>6. rank \in Surjection(kept, 1..n)
  <2> HIDE DEF rank
  <2> QED
    BY <1>4, <1>5, FS_Injection
<1>7. PICK i \in kept : rank[i] = k
  <2> HIDE DEF rank, n
  <2> QED
    BY <1>6 DEF Surjection, n
<1>8. Cardinality(Below(i)) = k
  BY <1>7
<1> QED
  BY <1>8 DEF Kth

(* What is left of the incidents when a miner's are taken out.             *)
LEMMA WithoutType ==
  ASSUME NEW s \in Incidents, NEW m \in Miners
  PROVE  Without(s, m) \in Incidents
<1> DEFINE kept == {i \in DOMAIN s : s[i] # m}
<1>1. PICK n \in 0..MaxIncidents : s \in [1..n -> Miners]
  BY DEF Incidents
<1>2. n \in Nat
  BY <1>1, RegistryAssumption
<1>3. /\ kept \in SUBSET Nat /\ IsFiniteSet(kept)
      /\ Cardinality(kept) \in Nat /\ Cardinality(kept) <= n
  <2>1. kept \in SUBSET (1..n) /\ IsFiniteSet(1..n) /\ Cardinality(1..n) = n
    BY <1>1, <1>2, FS_Interval
  <2> HIDE DEF kept
  <2>2. IsFiniteSet(kept) /\ Cardinality(kept) <= n
    BY <2>1, FS_Subset
  <2>3. Cardinality(kept) \in Nat
    BY <2>2, FS_CardinalityType
  <2> QED
    BY <2>1, <2>2, <2>3
<1>4. Without(s, m) = [k \in 1..Cardinality(kept) |-> s[Kth(kept, k)]]
  BY DEF Without
<1>5. \A k \in 1..Cardinality(kept) : s[Kth(kept, k)] \in Miners
  <2>1. ASSUME NEW i \in kept PROVE s[i] \in Miners
    BY <1>1
  <2> HIDE DEF kept
  <2> QED
    BY <1>3, <2>1, EveryRankIsTaken
<1>6. Cardinality(kept) \in 0..MaxIncidents
  BY <1>1, <1>3, RegistryAssumption
<1> HIDE DEF kept
<1> QED
  BY <1>4, <1>5, <1>6 DEF Incidents

(* The list with one more incident, cut to the limit.                      *)
LEMMA NewestType ==
  ASSUME NEW s \in Incidents, NEW m \in Miners
  PROVE  Newest(Append(s, m)) \in Incidents
<1> DEFINE t == Append(s, m)
<1>1. t \in Seq(Miners) /\ Len(t) \in Nat
  BY IncidentsAreSequences, AppendProperties, LenProperties
<1>2. CASE Len(t) <= MaxIncidents
  BY <1>1, <1>2, IncidentsAreSequences DEF Newest
<1>3. CASE Len(t) > MaxIncidents
  <2>1. Newest(t) = SubSeq(t, Len(t) - MaxIncidents + 1, Len(t))
    BY <1>1, <1>3, RegistryAssumption DEF Newest
  <2>2. \A i \in Len(t) - MaxIncidents + 1 .. Len(t) : t[i] \in Miners
    BY <1>1, <1>3, RegistryAssumption, ElementOfSeq
  <2>3. Newest(t) \in Seq(Miners) /\ Len(Newest(t)) = MaxIncidents
    <3> DEFINE a == Len(t) - MaxIncidents + 1
               b == Len(t)
    <3>1. a \in Int /\ b \in Int /\ a <= b /\ b - a + 1 = MaxIncidents
      BY <1>1, <1>3, RegistryAssumption
    <3>2. Newest(t) = SubSeq(t, a, b) /\ \A i \in a .. b : t[i] \in Miners
      BY <2>1, <2>2
    <3> HIDE DEF a, b, t
    <3> QED
      BY <3>1, <3>2, SubSeqProperties
  <2> QED
    BY <2>3, IncidentsAreSequences, RegistryAssumption
<1> QED
  BY <1>1, <1>2, <1>3, RegistryAssumption

-----------------------------------------------------------------------------
(* Fleets and files.                                                       *)

LEMMA EmptyFleet == Empty \in Fleet
<1>1. <<>> \in Incidents
  <2>1. <<>> \in [1..0 -> Miners]
    OBVIOUS
  <2>2. 0 \in 0..MaxIncidents
    BY RegistryAssumption
  <2> QED
    BY <2>1, <2>2 DEF Incidents
<1>2. NoMiners \in Records
  BY DEF NoMiners, Records
<1> QED
  BY <1>1, <1>2 DEF Empty, Fleet

LEMMA ApprovedRecord ==
  ASSUME NEW host \in Hosts
  PROVE  /\ Approved(host) \in Record /\ Approved(host) # NoRecord
         /\ Approved(host).settings = Defaults
<1>1. Defaults \in Settings
  BY DEF Defaults, Settings
<1> QED
  BY <1>1, RegistryAssumption DEF Approved, Record

LEMMA ValidatedRecords ==
  ASSUME NEW records \in Records, NEW damaged \in SUBSET Miners, NEW legacy \in BOOLEAN
  PROVE  Validated(records, damaged, legacy) \in Records
<1>1. \A m \in Miners : records[m] # NoRecord => records[m] \in Record
  BY DEF Records
<1>2. \A r \in Record : Approved(r.host) \in Record
  BY ApprovedRecord DEF Record
<1> QED
  BY <1>1, <1>2 DEF Validated, Records

LEMMA ReadType ==
  ASSUME NEW f \in File
  PROVE  Read(f) \in Fleet
<1>1. /\ f.fleet \in Fleet /\ f.damaged \in SUBSET Miners
      /\ f.fleet.miners \in Records
  BY DEF File, Fleet
<1>2. CASE f.schema = "v1"
  <2>1. Read(f) = [Empty EXCEPT !.miners = Validated(f.fleet.miners, f.damaged, TRUE)]
    BY <1>2 DEF Read
  <2> QED
    BY <1>1, <2>1, EmptyFleet, ValidatedRecords DEF Fleet
<1>3. CASE f.schema = "v2"
  <2>1. Read(f) = [f.fleet EXCEPT !.miners = Validated(f.fleet.miners, f.damaged, FALSE)]
    BY <1>3 DEF Read
  <2> QED
    BY <1>1, <2>1, ValidatedRecords DEF Fleet
<1>4. CASE f.schema \notin {"v1", "v2"}
  BY <1>4, EmptyFleet DEF Read
<1> QED
  BY <1>2, <1>3, <1>4

(* What is stored is read back as it was.                                  *)
LEMMA ReadSerialized ==
  ASSUME NEW fleet \in Fleet
  PROVE  Serialized(fleet) \in File /\ Read(Serialized(fleet)) = fleet
<1>1. Serialized(fleet) \in File
  BY DEF Serialized, File
<1>2. Validated(fleet.miners, {}, FALSE) = fleet.miners
  BY DEF Validated, Fleet, Records
<1>3. Read(Serialized(fleet)) = [fleet EXCEPT !.miners = fleet.miners]
  BY <1>2 DEF Read, Serialized
<1> QED
  BY <1>1, <1>3 DEF Fleet

LEMMA DecisionsType ==
  ASSUME NEW fleet \in Fleet
  PROVE  DecisionsIn(fleet) \in Decisions
<1>1. \A m \in Miners : fleet.miners[m] # NoRecord => fleet.miners[m].settings \in Settings
  BY DEF Fleet, Records, Record
<1> QED
  BY <1>1 DEF DecisionsIn, Decisions, Fleet

(* A record is never mistaken for none, nor its settings.                  *)
LEMMA RecordFacts ==
  ASSUME NEW r \in Record
  PROVE  /\ r # NoRecord /\ r.settings \in Settings /\ r.settings # NoRecord
         /\ r.host \in Hosts
BY RegistryAssumption DEF Record

(* The fleet with one record replaced.                                     *)
LEMMA ReplacedRecord ==
  ASSUME NEW fleet \in Fleet, NEW m \in Miners, NEW r \in Record \cup {NoRecord},
         NEW rejected \in SUBSET Miners, NEW incidents \in Incidents, NEW n,
         n = [miners |-> [fleet.miners EXCEPT ![m] = r], rejected |-> rejected,
              incidents |-> incidents]
  PROVE  /\ n \in Fleet
         /\ Enrolled(n) = IF r = NoRecord THEN Enrolled(fleet) \ {m}
                          ELSE Enrolled(fleet) \cup {m}
         /\ DecisionsIn(n).rejected = rejected
         /\ DecisionsIn(n).settings =
              [DecisionsIn(fleet).settings EXCEPT
                 ![m] = IF r = NoRecord THEN NoRecord ELSE r.settings]
<1>1. fleet.miners \in Records
  BY DEF Fleet
<1>2. n.miners \in Records /\ n.miners[m] = r
      /\ \A x \in Miners \ {m} : n.miners[x] = fleet.miners[x]
  BY <1>1 DEF Records
<1>3. n \in Fleet
  BY <1>2 DEF Fleet
<1>4. Enrolled(n) = IF r = NoRecord THEN Enrolled(fleet) \ {m} ELSE Enrolled(fleet) \cup {m}
  BY <1>2 DEF Enrolled
<1>5. DecisionsIn(n).rejected = rejected
  BY DEF DecisionsIn
<1>6. DecisionsIn(n).settings =
        [DecisionsIn(fleet).settings EXCEPT ![m] = IF r = NoRecord THEN NoRecord ELSE r.settings]
  <2>1. DecisionsIn(n).settings = [x \in Miners |-> IF n.miners[x] = NoRecord THEN NoRecord
                                                   ELSE n.miners[x].settings]
    BY DEF DecisionsIn
  <2>2. DecisionsIn(fleet).settings =
          [x \in Miners |-> IF fleet.miners[x] = NoRecord THEN NoRecord
                           ELSE fleet.miners[x].settings]
    BY DEF DecisionsIn
  <2> QED
    BY <1>2, <2>1, <2>2
<1> QED
  BY <1>3, <1>4, <1>5, <1>6

-----------------------------------------------------------------------------
(* The operations.                                                         *)

(* An instance that can be called is there, and its save is not under way. *)
LEMMA HoldsFacts ==
  ASSUME IInv, NEW g \in Instances, Holds(g)
  PROVE  /\ memory[g] \in Fleet /\ g \in Nat /\ instance \in Nat
         /\ status[g] \in {"ready", "unloaded"} /\ 0 < instance /\ g <= instance
         /\ known \subseteq Enrolled(memory[g])
         /\ changes' = changes + 1 => changes' \in 0..MaxChanges
<1>1. /\ memory[g] \in Fleet /\ status[g] \in {"ready", "unloaded"}
      /\ changes \in 0..MaxChanges /\ changes < MaxChanges
  BY DEF IInv, TypeOK, Holds
<1>2. known \subseteq Enrolled(memory[g])
  BY <1>1 DEF IInv, KnownInv
<1>3. g <= instance /\ g \in Nat /\ instance \in Nat /\ 0 < instance
  BY <1>1, RegistryAssumption DEF IInv, TypeOK, SavesInv, Instances
<1> QED
  BY <1>1, <1>2, <1>3, RegistryAssumption

(* An operation: the memory of one instance becomes fleet, and its save is *)
(* under way.                                                              *)
LEMMA ChangeStep ==
  ASSUME IInv, NEW g \in Instances, Holds(g), NEW fleet \in Fleet,
         NEW cancellable \in BOOLEAN, Change(g, fleet, cancellable),
         ledger' = IF g = instance THEN DecisionsIn(fleet) ELSE ledger,
         known' \subseteq known, known' \subseteq Enrolled(fleet)
  PROVE  IInv'
<1> DEFINE save == Begun(Serialized(fleet), cancellable)
<1>1. TypeOK /\ SavesInv /\ LedgerInv /\ KnownInv
  BY DEF IInv
<1>2. /\ memory' = [memory EXCEPT ![g] = fleet] /\ saves' = [saves EXCEPT ![g] = save]
      /\ changes' = changes + 1
      /\ file' = file /\ instance' = instance /\ status' = status
      /\ orphans' = orphans /\ errors' = errors /\ behind' = behind
  BY DEF Change
<1>3. save \in SaveUnderWay /\ save # Nothing /\ save.file = Serialized(fleet)
  BY ReadSerialized, RegistryAssumption DEF Begun, SaveUnderWay
<1>4. /\ status[g] # "absent" /\ status[g] # "migrating" /\ changes' \in 0..MaxChanges
      /\ 0 < instance /\ g <= instance /\ instance \in Nat /\ g \in Nat
  BY <1>2, HoldsFacts
<1>5. memory \in [Instances -> Fleet] /\ saves \in [Instances -> SaveUnderWay \cup {Nothing}]
  BY <1>1 DEF TypeOK
<1>6. /\ memory'[g] = fleet /\ saves'[g] = save
      /\ \A h \in Instances \ {g} : memory'[h] = memory[h] /\ saves'[h] = saves[h]
  BY <1>2, <1>5
<1> HIDE DEF save
<1>7. ledger' \in Decisions
  BY <1>1, DecisionsType DEF TypeOK
<1>8. TypeOK'
  BY <1>1, <1>2, <1>3, <1>4, <1>7 DEF TypeOK
<1>9. SavesInv'
  <2>1. \A h \in Instances :
          /\ h > instance' => status'[h] = "absent"
          /\ status'[h] = "absent" => saves'[h] = Nothing
          /\ saves'[h] # Nothing => saves'[h].file = Serialized(memory'[h])
          /\ status'[h] = "migrating" => saves'[h] # Nothing /\ ~saves'[h].cancellable
    BY <1>1, <1>2, <1>3, <1>4, <1>6 DEF SavesInv
  <2>2. instance' > 0 => status'[instance'] # "absent"
    BY <1>1, <1>2 DEF SavesInv
  <2>3. instance' > 0 /\ saves'[instance'] = Nothing /\ ~behind' =>
          Read(file') = memory'[instance']
    <3>1. instance \in Instances
      BY <1>1, <1>4 DEF TypeOK, Instances
    <3> QED
      BY <1>1, <1>2, <1>3, <1>6, <3>1 DEF SavesInv
  <2>4. instance' = 0 => orphans' = {}
    BY <1>2, <1>4
  <2> QED
    BY <2>1, <2>2, <2>3, <2>4 DEF SavesInv
<1>10. LedgerInv'
  <2>1. instance \in Instances
    BY <1>1, <1>4 DEF TypeOK, Instances
  <2>2. ledger' = DecisionsIn(memory'[instance])
    BY <1>1, <1>4, <1>6, <2>1 DEF LedgerInv
  <2> QED
    BY <1>2, <1>4, <2>2 DEF LedgerInv
<1>11. KnownInv'
  <2>1. known' \subseteq Enrolled(Read(file)) /\ \A f \in orphans : known' \subseteq Enrolled(Read(f))
    BY <1>1 DEF KnownInv
  <2>2. \A h \in Instances : status[h] # "absent" => known' \subseteq Enrolled(memory'[h])
    BY <1>1, <1>6 DEF KnownInv
  <2> QED
    BY <1>2, <2>1, <2>2 DEF KnownInv
<1> QED
  BY <1>8, <1>9, <1>10, <1>11 DEF IInv

LEMMA EnrollStep ==
  ASSUME IInv, NEW g \in Instances, NEW m \in Miners, NEW host \in Hosts, Enroll(g, m, host)
  PROVE  IInv'
<1> DEFINE fleet == memory[g]
           r == FromSnapshot(host, fleet.miners[m])
           n == [miners |-> [fleet.miners EXCEPT ![m] = r],
                 rejected |-> fleet.rejected \ {m}, incidents |-> fleet.incidents]
<1>1. /\ Holds(g) /\ fleet \in Fleet /\ known \subseteq Enrolled(fleet)
      /\ LedgerInv /\ 0 < instance
  BY HoldsFacts DEF Enroll, IInv
<1>2. /\ fleet.miners \in Records /\ fleet.rejected \in SUBSET Miners
      /\ fleet.incidents \in Incidents
      /\ fleet.miners[m] # NoRecord => fleet.miners[m] \in Record
  BY <1>1 DEF Fleet, Records
<1>3. /\ r \in Record
      /\ r.settings = IF fleet.miners[m] = NoRecord THEN Defaults
                      ELSE fleet.miners[m].settings
  BY <1>2, ApprovedRecord DEF FromSnapshot, Record
<1>4. n = EnrolledIn(fleet, m, host)
  <2>1. EnrolledIn(fleet, m, host) =
          [fleet EXCEPT !.miners = [fleet.miners EXCEPT ![m] = r],
                        !.rejected = fleet.rejected \ {m}]
    BY <1>1, <1>2 DEF EnrolledIn, Fleet
  <2>2. fleet = [miners |-> fleet.miners, rejected |-> fleet.rejected,
                 incidents |-> fleet.incidents]
    BY <1>1 DEF Fleet
  <2> HIDE DEF fleet, r
  <2> QED
    BY <2>1, <2>2
<1>5. /\ n \in Fleet /\ Enrolled(n) = Enrolled(fleet) \cup {m}
      /\ DecisionsIn(n).rejected = fleet.rejected \ {m}
      /\ DecisionsIn(n).settings = [DecisionsIn(fleet).settings EXCEPT ![m] = r.settings]
  <2>1. fleet.rejected \ {m} \in SUBSET Miners /\ r # NoRecord
    BY <1>2, <1>3, RecordFacts
  <2> HIDE DEF fleet, r
  <2> QED
    BY <1>1, <1>2, <1>3, <2>1, ReplacedRecord
<1>6. ledger' = IF g = instance THEN DecisionsIn(n) ELSE ledger
  <2>1. CASE g = instance
    <3>1. ledger = DecisionsIn(fleet)
      BY <1>1, <2>1 DEF LedgerInv
    <3>2. /\ ledger.rejected = fleet.rejected
          /\ ledger.settings[m] = IF fleet.miners[m] = NoRecord THEN NoRecord
                                  ELSE fleet.miners[m].settings
          /\ DOMAIN ledger.settings = Miners
      BY <3>1 DEF DecisionsIn
    <3>3. r.settings = IF ledger.settings[m] = NoRecord THEN Defaults ELSE ledger.settings[m]
      BY <1>2, <1>3, <3>2, RecordFacts
    <3>4. ledger' = [settings |-> [ledger.settings EXCEPT ![m] = r.settings],
                     rejected |-> ledger.rejected \ {m}]
      BY <2>1, <3>3 DEF Enroll, Decided
    <3>5. DecisionsIn(n) = [settings |-> DecisionsIn(n).settings,
                            rejected |-> DecisionsIn(n).rejected]
      BY DEF DecisionsIn
    <3> QED
      BY <1>5, <2>1, <3>1, <3>2, <3>4, <3>5
  <2>2. CASE g # instance
    BY <2>2 DEF Enroll, Decided
  <2> QED
    BY <2>1, <2>2
<1>7. Change(g, n, FALSE) /\ known' = known
  BY <1>4 DEF Enroll
<1> HIDE DEF n, r, fleet
<1> QED
  BY <1>1, <1>5, <1>6, <1>7, ChangeStep

LEMMA UpdateStep ==
  ASSUME IInv, NEW g \in Instances, NEW m \in Miners, NEW host \in Hosts,
         UpdateFromSnapshot(g, m, host)
  PROVE  IInv'
<1> DEFINE fleet == memory[g]
           r == FromSnapshot(host, fleet.miners[m])
           n == [miners |-> [fleet.miners EXCEPT ![m] = r],
                 rejected |-> fleet.rejected, incidents |-> fleet.incidents]
<1>1. /\ Holds(g) /\ fleet \in Fleet /\ known \subseteq Enrolled(fleet)
      /\ LedgerInv /\ 0 < instance /\ fleet.miners[m] # NoRecord
  BY HoldsFacts DEF UpdateFromSnapshot, IInv
<1>2. /\ fleet.miners \in Records /\ fleet.rejected \in SUBSET Miners
      /\ fleet.incidents \in Incidents /\ fleet.miners[m] \in Record
  BY <1>1 DEF Fleet, Records
<1>3. r \in Record /\ r.settings = fleet.miners[m].settings
  BY <1>1, <1>2 DEF FromSnapshot, Record
<1>4. n = UpdatedIn(fleet, m, host)
  BY <1>1, <1>2 DEF UpdatedIn, Fleet, Records
<1>5. /\ n \in Fleet /\ Enrolled(n) = Enrolled(fleet) \cup {m}
      /\ DecisionsIn(n).rejected = fleet.rejected
      /\ DecisionsIn(n).settings = [DecisionsIn(fleet).settings EXCEPT ![m] = r.settings]
  <2>1. r # NoRecord
    BY <1>3, RecordFacts
  <2> HIDE DEF fleet, r
  <2> QED
    BY <1>1, <1>2, <1>3, <2>1, ReplacedRecord
<1>6. DecisionsIn(n) = DecisionsIn(fleet)
  <2>1. /\ DecisionsIn(fleet).settings[m] = r.settings /\ DOMAIN DecisionsIn(fleet).settings = Miners
        /\ DecisionsIn(fleet).rejected = fleet.rejected
    BY <1>1, <1>3 DEF DecisionsIn
  <2>2. [DecisionsIn(fleet).settings EXCEPT ![m] = r.settings] = DecisionsIn(fleet).settings
    BY <2>1 DEF DecisionsIn
  <2> HIDE DEF n, r, fleet
  <2> QED
    BY <1>5, <2>1, <2>2 DEF DecisionsIn
<1>7. Change(g, n, TRUE) /\ known' = known /\ ledger' = ledger
  BY <1>4 DEF UpdateFromSnapshot
<1>8. ledger' = IF g = instance THEN DecisionsIn(n) ELSE ledger
  BY <1>1, <1>6, <1>7 DEF LedgerInv
<1> HIDE DEF n, r, fleet
<1> QED
  BY <1>1, <1>5, <1>7, <1>8, ChangeStep

LEMMA SetStep ==
  ASSUME IInv, NEW g \in Instances, NEW m \in Miners, NEW f \in Fields, NEW value \in BOOLEAN,
         Set(g, m, f, value)
  PROVE  IInv'
<1> DEFINE fleet == memory[g]
           r == [fleet.miners[m] EXCEPT !.settings[f] = value]
           n == [miners |-> [fleet.miners EXCEPT ![m] = r],
                 rejected |-> fleet.rejected, incidents |-> fleet.incidents]
<1>1. /\ Holds(g) /\ fleet \in Fleet /\ known \subseteq Enrolled(fleet)
      /\ LedgerInv /\ 0 < instance /\ fleet.miners[m] # NoRecord
  BY HoldsFacts DEF Set, IInv
<1>2. /\ fleet.miners \in Records /\ fleet.rejected \in SUBSET Miners
      /\ fleet.incidents \in Incidents /\ fleet.miners[m] \in Record
  BY <1>1 DEF Fleet, Records
<1>3. r \in Record /\ r.settings = [fleet.miners[m].settings EXCEPT ![f] = value]
  BY <1>1, <1>2 DEF Record, Settings
<1>4. n = SetIn(fleet, m, f, value)
  BY <1>1, <1>2 DEF SetIn, Fleet, Records
<1>5. /\ n \in Fleet /\ Enrolled(n) = Enrolled(fleet) \cup {m}
      /\ DecisionsIn(n).rejected = fleet.rejected
      /\ DecisionsIn(n).settings = [DecisionsIn(fleet).settings EXCEPT ![m] = r.settings]
  <2>1. r \in Record /\ r # NoRecord
    BY <1>3, RecordFacts
  <2> HIDE DEF fleet, r
  <2> QED
    BY <1>1, <1>2, <2>1, ReplacedRecord
<1>6. ledger' = IF g = instance THEN DecisionsIn(n) ELSE ledger
  <2>1. CASE g = instance
    <3>1. ledger = DecisionsIn(fleet)
      BY <1>1, <2>1 DEF LedgerInv
    <3>2. /\ ledger.rejected = fleet.rejected
          /\ ledger.settings[m] = fleet.miners[m].settings
          /\ DOMAIN ledger.settings = Miners
          /\ ledger = [settings |-> ledger.settings, rejected |-> ledger.rejected]
      BY <1>1, <3>1 DEF DecisionsIn
    <3>3. ledger' = [ledger EXCEPT !.settings[m][f] = value]
      BY <2>1 DEF Set, Decided
    <3>4. ledger' = [settings |-> [ledger.settings EXCEPT ![m] = r.settings],
                     rejected |-> fleet.rejected]
      BY <1>3, <3>2, <3>3
    <3>5. DecisionsIn(n) = [settings |-> DecisionsIn(n).settings,
                            rejected |-> DecisionsIn(n).rejected]
      BY DEF DecisionsIn
    <3> QED
      BY <1>5, <2>1, <3>1, <3>4, <3>5
  <2>2. CASE g # instance
    BY <2>2 DEF Set, Decided
  <2> QED
    BY <2>1, <2>2
<1>7. Change(g, n, FALSE) /\ known' = known
  BY <1>4 DEF Set
<1> HIDE DEF n, r, fleet
<1> QED
  BY <1>1, <1>5, <1>6, <1>7, ChangeStep

(* The fleet with the same records.                                        *)
LEMMA SameRecords ==
  ASSUME NEW fleet \in Fleet, NEW rejected \in SUBSET Miners, NEW incidents \in Incidents,
         NEW n,
         n = [miners |-> fleet.miners, rejected |-> rejected, incidents |-> incidents]
  PROVE  /\ n \in Fleet /\ Enrolled(n) = Enrolled(fleet)
         /\ DecisionsIn(n) = [DecisionsIn(fleet) EXCEPT !.rejected = rejected]
<1>1. n \in Fleet
  BY DEF Fleet
<1>2. Enrolled(n) = Enrolled(fleet)
  BY DEF Enrolled
<1>3. DecisionsIn(n) = [DecisionsIn(fleet) EXCEPT !.rejected = rejected]
  <2>1. n.miners = fleet.miners /\ n.rejected = rejected
    OBVIOUS
  <2>2. \A x \in Miners : n.miners[x] = fleet.miners[x]
    BY <2>1
  <2>3. DecisionsIn(n).settings = DecisionsIn(fleet).settings
    BY <2>2 DEF DecisionsIn
  <2>4. DecisionsIn(n).rejected = rejected
    BY <2>1 DEF DecisionsIn
  <2>5. DecisionsIn(n) = [settings |-> DecisionsIn(n).settings,
                          rejected |-> DecisionsIn(n).rejected]
    BY DEF DecisionsIn
  <2>6. [DecisionsIn(fleet) EXCEPT !.rejected = rejected] =
          [settings |-> DecisionsIn(fleet).settings, rejected |-> rejected]
    <3>1. DecisionsIn(fleet) = [settings |-> DecisionsIn(fleet).settings,
                                rejected |-> DecisionsIn(fleet).rejected]
      BY DEF DecisionsIn
    <3> QED
      BY <3>1
  <2> QED
    BY <2>3, <2>4, <2>5, <2>6
<1> QED
  BY <1>1, <1>2, <1>3

LEMMA RejectStep ==
  ASSUME IInv, NEW g \in Instances, NEW m \in Miners, RejectCandidate(g, m)
  PROVE  IInv'
<1> DEFINE fleet == memory[g]
           n == [miners |-> fleet.miners, rejected |-> fleet.rejected \cup {m},
                 incidents |-> fleet.incidents]
<1>1. /\ Holds(g) /\ fleet \in Fleet /\ known \subseteq Enrolled(fleet)
      /\ LedgerInv /\ 0 < instance
  BY HoldsFacts DEF RejectCandidate, IInv
<1>2. fleet.rejected \cup {m} \in SUBSET Miners /\ fleet.incidents \in Incidents
  BY <1>1 DEF Fleet
<1>3. n = RejectedIn(fleet, m)
  BY <1>1 DEF RejectedIn, Fleet
<1>4. /\ n \in Fleet /\ Enrolled(n) = Enrolled(fleet)
      /\ DecisionsIn(n) = [DecisionsIn(fleet) EXCEPT !.rejected = fleet.rejected \cup {m}]
  <2> HIDE DEF fleet
  <2> QED
    BY <1>1, <1>2, SameRecords
<1>5. ledger' = IF g = instance THEN DecisionsIn(n) ELSE ledger
  <2>1. CASE g = instance
    <3>1. ledger = DecisionsIn(fleet) /\ ledger.rejected = fleet.rejected
      BY <1>1, <2>1 DEF LedgerInv, DecisionsIn
    <3>2. ledger' = [ledger EXCEPT !.rejected = ledger.rejected \cup {m}]
      BY <2>1, <3>1 DEF RejectCandidate, Decided, DecisionsIn
    <3> QED
      BY <1>4, <2>1, <3>1, <3>2
  <2>2. CASE g # instance
    BY <2>2 DEF RejectCandidate, Decided
  <2> QED
    BY <2>1, <2>2
<1>6. Change(g, n, FALSE) /\ known' = known
  BY <1>3 DEF RejectCandidate
<1> HIDE DEF n, fleet
<1> QED
  BY <1>1, <1>4, <1>5, <1>6, ChangeStep

LEMMA RemoveStep ==
  ASSUME IInv, NEW g \in Instances, NEW m \in Miners, Remove(g, m)
  PROVE  IInv'
<1> DEFINE fleet == memory[g]
           n == [miners |-> [fleet.miners EXCEPT ![m] = NoRecord],
                 rejected |-> fleet.rejected, incidents |-> Without(fleet.incidents, m)]
<1>1. /\ Holds(g) /\ fleet \in Fleet /\ known \subseteq Enrolled(fleet)
      /\ LedgerInv /\ 0 < instance
  BY HoldsFacts DEF Remove, IInv
<1>2. fleet.rejected \in SUBSET Miners /\ Without(fleet.incidents, m) \in Incidents
  BY <1>1, WithoutType DEF Fleet
<1>3. n = RemovedFrom(fleet, m)
  <2>1. RemovedFrom(fleet, m) =
          [fleet EXCEPT !.miners = [fleet.miners EXCEPT ![m] = NoRecord],
                        !.incidents = Without(fleet.incidents, m)]
    BY <1>1 DEF RemovedFrom, Fleet
  <2>2. fleet = [miners |-> fleet.miners, rejected |-> fleet.rejected,
                 incidents |-> fleet.incidents]
    BY <1>1 DEF Fleet
  <2> HIDE DEF fleet
  <2> QED
    BY <2>1, <2>2
<1>4. /\ n \in Fleet /\ Enrolled(n) = Enrolled(fleet) \ {m}
      /\ DecisionsIn(n).rejected = fleet.rejected
      /\ DecisionsIn(n).settings = [DecisionsIn(fleet).settings EXCEPT ![m] = NoRecord]
  <2> HIDE DEF fleet
  <2> QED
    BY <1>1, <1>2, ReplacedRecord
<1>5. ledger' = IF g = instance THEN DecisionsIn(n) ELSE ledger
  <2>1. CASE g = instance
    <3>1. ledger = DecisionsIn(fleet)
      BY <1>1, <2>1 DEF LedgerInv
    <3>2. /\ ledger.rejected = fleet.rejected
          /\ ledger = [settings |-> ledger.settings, rejected |-> ledger.rejected]
      BY <3>1 DEF DecisionsIn
    <3>3. ledger' = [ledger EXCEPT !.settings[m] = NoRecord]
      BY <2>1 DEF Remove, Decided
    <3>4. ledger' = [settings |-> [ledger.settings EXCEPT ![m] = NoRecord],
                     rejected |-> fleet.rejected]
      BY <3>2, <3>3
    <3>5. DecisionsIn(n) = [settings |-> DecisionsIn(n).settings,
                            rejected |-> DecisionsIn(n).rejected]
      BY DEF DecisionsIn
    <3> QED
      BY <1>4, <2>1, <3>1, <3>4, <3>5
  <2>2. CASE g # instance
    BY <2>2 DEF Remove, Decided
  <2> QED
    BY <2>1, <2>2
<1>6. Change(g, n, FALSE) /\ known' = known \ {m}
  BY <1>3 DEF Remove
<1> HIDE DEF n, fleet
<1> QED
  BY <1>1, <1>4, <1>5, <1>6, ChangeStep

LEMMA RecordIncidentStep ==
  ASSUME IInv, NEW g \in Instances, NEW m \in Miners, NEW cancellable \in BOOLEAN,
         RecordIncident(g, m, cancellable)
  PROVE  IInv'
<1> DEFINE fleet == memory[g]
           n == [miners |-> fleet.miners, rejected |-> fleet.rejected,
                 incidents |-> Newest(Append(fleet.incidents, m))]
<1>1. /\ Holds(g) /\ fleet \in Fleet /\ known \subseteq Enrolled(fleet)
      /\ LedgerInv /\ 0 < instance
  BY HoldsFacts DEF RecordIncident, IInv
<1>2. fleet.rejected \in SUBSET Miners /\ Newest(Append(fleet.incidents, m)) \in Incidents
  BY <1>1, NewestType DEF Fleet
<1>3. n = RecordedIn(fleet, m)
  BY <1>1 DEF RecordedIn, Fleet
<1>4. /\ n \in Fleet /\ Enrolled(n) = Enrolled(fleet)
      /\ DecisionsIn(n) = DecisionsIn(fleet)
  <2>1. [DecisionsIn(fleet) EXCEPT !.rejected = fleet.rejected] = DecisionsIn(fleet)
    BY DEF DecisionsIn
  <2> HIDE DEF fleet
  <2> QED
    BY <1>1, <1>2, <2>1, SameRecords
<1>5. Change(g, n, cancellable) /\ known' = known /\ ledger' = ledger
  BY <1>3 DEF RecordIncident
<1>6. ledger' = IF g = instance THEN DecisionsIn(n) ELSE ledger
  BY <1>1, <1>4, <1>5 DEF LedgerInv
<1> HIDE DEF n, fleet
<1> QED
  BY <1>1, <1>4, <1>5, <1>6, ChangeStep

LEMMA OperationStep ==
  ASSUME IInv, NEW g \in Instances, Operation(g)
  PROVE  IInv'
BY EnrollStep, UpdateStep, SetStep, RejectStep, RemoveStep, RecordIncidentStep DEF Operation

-----------------------------------------------------------------------------
(* The saves, and what cuts them short.                                    *)

(* A save under way writes the fleet of its instance, known miners and all.*)
LEMMA SaveFacts ==
  ASSUME IInv, NEW g \in Instances, saves[g] # Nothing
  PROVE  /\ saves[g] \in SaveUnderWay /\ saves[g].file \in File
         /\ Read(saves[g].file) = memory[g]
         /\ known \subseteq Enrolled(Read(saves[g].file))
         /\ 0 < instance /\ instance \in Instances
<1>1. saves[g] \in SaveUnderWay /\ memory[g] \in Fleet /\ instance \in 0..MaxInstances
  BY DEF IInv, TypeOK
<1>2. saves[g].file = Serialized(memory[g]) /\ status[g] # "absent" /\ ~(g > instance)
  BY DEF IInv, SavesInv
<1>3. Read(saves[g].file) = memory[g] /\ saves[g].file \in File
  BY <1>1, <1>2, ReadSerialized
<1>4. known \subseteq Enrolled(memory[g])
  BY <1>2 DEF IInv, KnownInv
<1>5. 0 < instance /\ instance \in Instances
  BY <1>1, <1>2, RegistryAssumption DEF Instances
<1> QED
  BY <1>1, <1>3, <1>4, <1>5

(* A save ends, however it does.                                           *)
LEMMA SaveEnds ==
  ASSUME IInv, NEW g \in Instances, saves[g] # Nothing,
         Released(g), Loaded(g) \/ (saves[g].cancellable /\ status' = status),
         instance' = instance, memory' = memory, changes' = changes, ledger' = ledger,
         known' = known, errors' \in 0..MaxErrors, behind' \in BOOLEAN,
         file' \in File, known \subseteq Enrolled(Read(file')),
         orphans' \subseteq File, \A f \in orphans' : known \subseteq Enrolled(Read(f)),
         saves'[instance] = Nothing /\ ~behind' => Read(file') = memory[instance]
  PROVE  IInv'
<1>1. TypeOK /\ SavesInv /\ LedgerInv /\ KnownInv /\ instance \in Instances /\ 0 < instance
      /\ instance \in Nat
  BY SaveFacts DEF IInv, TypeOK
<1>2. /\ saves' \in [Instances -> SaveUnderWay \cup {Nothing}]
      /\ saves'[g] = Nothing /\ \A h \in Instances \ {g} : saves'[h] = saves[h]
  BY <1>1 DEF TypeOK, Released
<1>3. /\ status' \in [Instances -> {"absent", "migrating", "ready", "unloaded", "gone"}]
      /\ status'[g] # "migrating" /\ \A h \in Instances \ {g} : status'[h] = status[h]
      /\ \A h \in Instances : (status'[h] = "absent") <=> (status[h] = "absent")
  <2>1. CASE Loaded(g)
    BY <1>1, <2>1 DEF TypeOK, Loaded
  <2>2. CASE saves[g].cancellable /\ status' = status
    BY <1>1, <2>2 DEF TypeOK, SavesInv
  <2> QED
    BY <2>1, <2>2
<1>4. TypeOK'
  BY <1>1, <1>2, <1>3 DEF TypeOK
<1>5. SavesInv'
  <2>1. \A h \in Instances :
          /\ h > instance => status'[h] = "absent"
          /\ status'[h] = "absent" => saves'[h] = Nothing
          /\ saves'[h] # Nothing => saves'[h].file = Serialized(memory[h])
          /\ status'[h] = "migrating" => saves'[h] # Nothing /\ ~saves'[h].cancellable
    BY <1>1, <1>2, <1>3 DEF SavesInv
  <2>2. status'[instance] # "absent"
    BY <1>1, <1>3 DEF SavesInv
  <2>3. instance' > 0 /\ saves'[instance'] = Nothing /\ ~behind' =>
          Read(file') = memory'[instance']
    OBVIOUS
  <2>4. ~(instance' = 0)
    BY <1>1
  <2>5. \A h \in Instances :
          /\ h > instance' => status'[h] = "absent"
          /\ status'[h] = "absent" => saves'[h] = Nothing
          /\ saves'[h] # Nothing => saves'[h].file = Serialized(memory'[h])
          /\ status'[h] = "migrating" => saves'[h] # Nothing /\ ~saves'[h].cancellable
    BY <2>1
  <2> QED
    BY <2>2, <2>3, <2>4, <2>5 DEF SavesInv
<1>6. LedgerInv'
  BY <1>1 DEF LedgerInv
<1>7. KnownInv'
  BY <1>1, <1>3 DEF KnownInv
<1> QED
  BY <1>4, <1>5, <1>6, <1>7 DEF IInv

LEMMA SaveLandsStep ==
  ASSUME IInv, NEW g \in Instances, SaveLands(g)
  PROVE  IInv'
<1>1. TypeOK /\ SavesInv /\ KnownInv
  BY DEF IInv
<1>2. /\ saves[g] # Nothing /\ Released(g) /\ Loaded(g) /\ file' = saves[g].file
      /\ behind' = (g # instance)
      /\ UNCHANGED <<instance, memory, orphans, changes, errors, ledger, known>>
  BY DEF SaveLands, bounds
<1>3. /\ file' \in File /\ known \subseteq Enrolled(Read(file')) /\ Read(file') = memory[g]
  BY <1>2, SaveFacts
<1>4. saves'[instance] = Nothing /\ ~behind' => Read(file') = memory[instance]
  BY <1>2, <1>3
<1>5. orphans' \subseteq File /\ \A f \in orphans' : known \subseteq Enrolled(Read(f))
  BY <1>1, <1>2 DEF TypeOK, KnownInv
<1>6. errors' \in 0..MaxErrors /\ behind' \in BOOLEAN
  BY <1>1, <1>2 DEF TypeOK
<1> QED
  BY <1>2, <1>3, <1>4, <1>5, <1>6, SaveEnds

(* A save that is lost leaves the file behind, if it was the newest's.     *)
LEMMA SaveLost ==
  ASSUME IInv, NEW g \in Instances, saves[g] # Nothing, Released(g),
         file' = file, errors < MaxErrors, errors' = errors + 1,
         behind' = (behind \/ g = instance)
  PROVE  /\ errors' \in 0..MaxErrors /\ behind' \in BOOLEAN
         /\ file' \in File /\ known \subseteq Enrolled(Read(file'))
         /\ saves'[instance] = Nothing /\ ~behind' => Read(file') = memory[instance]
<1>1. TypeOK /\ SavesInv /\ KnownInv /\ 0 < instance /\ instance \in Instances
  BY SaveFacts DEF IInv
<1>2. errors' \in 0..MaxErrors /\ behind' \in BOOLEAN /\ file' \in File
  BY <1>1, RegistryAssumption DEF TypeOK
<1>3. known \subseteq Enrolled(Read(file'))
  BY <1>1 DEF KnownInv
<1>4. saves'[instance] = Nothing /\ ~behind' => Read(file') = memory[instance]
  BY <1>1 DEF TypeOK, Released, SavesInv
<1> QED
  BY <1>2, <1>3, <1>4

LEMMA SaveFailsStep ==
  ASSUME IInv, NEW g \in Instances, SaveFails(g)
  PROVE  IInv'
<1>1. /\ saves[g] # Nothing /\ Released(g) /\ Loaded(g) /\ file' = file
      /\ errors < MaxErrors /\ errors' = errors + 1
      /\ behind' = (behind \/ g = instance)
      /\ UNCHANGED <<instance, memory, orphans, changes, ledger, known>>
  BY DEF SaveFails
<1>2. /\ errors' \in 0..MaxErrors /\ behind' \in BOOLEAN
      /\ file' \in File /\ known \subseteq Enrolled(Read(file'))
      /\ saves'[instance] = Nothing /\ ~behind' => Read(file') = memory[instance]
  BY <1>1, SaveLost
<1>3. orphans' \subseteq File /\ \A f \in orphans' : known \subseteq Enrolled(Read(f))
  BY <1>1 DEF IInv, TypeOK, KnownInv
<1> QED
  BY <1>1, <1>2, <1>3, SaveEnds

LEMMA SaveCancelledStep ==
  ASSUME IInv, NEW g \in Instances, SaveCancelled(g)
  PROVE  IInv'
<1>1. /\ saves[g] # Nothing /\ Released(g) /\ saves[g].cancellable /\ status' = status
      /\ file' = file /\ errors < MaxErrors /\ errors' = errors + 1
      /\ behind' = (behind \/ g = instance)
      /\ orphans' \subseteq orphans \cup {saves[g].file}
      /\ UNCHANGED <<instance, memory, changes, ledger, known>>
  BY DEF SaveCancelled
<1>2. /\ errors' \in 0..MaxErrors /\ behind' \in BOOLEAN
      /\ file' \in File /\ known \subseteq Enrolled(Read(file'))
      /\ saves'[instance] = Nothing /\ ~behind' => Read(file') = memory[instance]
  BY <1>1, SaveLost
<1>3. orphans' \subseteq File /\ \A f \in orphans' : known \subseteq Enrolled(Read(f))
  BY <1>1, SaveFacts DEF IInv, TypeOK, KnownInv
<1> QED
  BY <1>1, <1>2, <1>3, SaveEnds

LEMMA OrphanLandsStep ==
  ASSUME IInv, OrphanLands
  PROVE  IInv'
<1>1. PICK f \in orphans :
        /\ file' = f /\ orphans' = orphans \ {f} /\ behind' = TRUE
        /\ UNCHANGED <<instance, status, memory, saves, bounds, ledger, known>>
  BY DEF OrphanLands
<1>2. TypeOK /\ SavesInv /\ LedgerInv /\ KnownInv
  BY DEF IInv
<1>3. TypeOK'
  BY <1>1, <1>2 DEF TypeOK, bounds
<1>4. KnownInv' /\ SavesInv'
  BY <1>1, <1>2 DEF KnownInv, SavesInv
<1>5. LedgerInv'
  <2>1. instance # 0
    BY <1>1, <1>2 DEF SavesInv
  <2> QED
    BY <1>1, <1>2, <2>1 DEF LedgerInv
<1> QED
  BY <1>3, <1>4, <1>5 DEF IInv

-----------------------------------------------------------------------------
(* Load, unload and crash.                                                 *)

LEMMA LoadStep ==
  ASSUME IInv, Load
  PROVE  IInv'
<1> DEFINE g == instance + 1
           fleet == Read(file)
           save == Begun(Migrated(fleet), FALSE)
<1>1. TypeOK /\ SavesInv /\ LedgerInv /\ KnownInv /\ fleet \in Fleet
  BY ReadType DEF IInv, TypeOK
<1>2. /\ instance \in Nat /\ instance < MaxInstances /\ g \in Instances /\ g > instance
      /\ g \in Nat /\ g > 0 /\ g \in 0..MaxInstances
      /\ status[g] = "absent" /\ saves[g] = Nothing
      /\ instance > 0 => instance \in Instances
      /\ \A h \in Instances : h > g => h > instance
      /\ \A h \in Instances : h > instance /\ h # g => h > g
  <2>1. instance \in 0..MaxInstances /\ instance < MaxInstances
    BY <1>1 DEF Load, TypeOK
  <2>2. /\ instance \in Nat /\ g \in Instances /\ g > instance
        /\ g \in Nat /\ g > 0 /\ g \in 0..MaxInstances
        /\ instance > 0 => instance \in Instances
        /\ \A h \in Instances : h > g => h > instance
        /\ \A h \in Instances : h > instance /\ h # g => h > g
    BY <2>1, RegistryAssumption DEF Instances
  <2> QED
    BY <1>1, <2>1, <2>2 DEF SavesInv
<1>3. /\ instance' = g /\ memory' = [memory EXCEPT ![g] = fleet] /\ behind' = FALSE
      /\ ledger' = IF behind \/ \E h \in Instances : saves[h] # Nothing
                   THEN DecisionsIn(fleet) ELSE ledger
      /\ UNCHANGED <<file, orphans, changes, errors, known>>
      /\ \/ status' = [status EXCEPT ![g] = "migrating"] /\ saves' = [saves EXCEPT ![g] = save]
         \/ status' = [status EXCEPT ![g] = "ready"] /\ saves' = saves
  BY DEF Load, bounds
<1>4. /\ save \in SaveUnderWay /\ save.file = Serialized(fleet) /\ ~save.cancellable
      /\ save # Nothing
  <2>1. Serialized(fleet) \in File
    BY <1>1, ReadSerialized
  <2>2. save \in SaveUnderWay
    BY <2>1 DEF Begun, Migrated, SaveUnderWay
  <2>3. save.file = Serialized(fleet) /\ ~save.cancellable
    BY DEF Begun, Migrated
  <2> HIDE DEF save
  <2> QED
    BY <2>2, <2>3, RegistryAssumption
<1>5. /\ memory' \in [Instances -> Fleet] /\ memory'[g] = fleet
      /\ \A h \in Instances \ {g} : memory'[h] = memory[h]
  BY <1>1, <1>2, <1>3 DEF TypeOK
<1>6. /\ status' \in [Instances -> {"absent", "migrating", "ready", "unloaded", "gone"}]
      /\ saves' \in [Instances -> SaveUnderWay \cup {Nothing}]
      /\ \A h \in Instances \ {g} : status'[h] = status[h] /\ saves'[h] = saves[h]
      /\ \/ status'[g] = "migrating" /\ saves'[g] = save
         \/ status'[g] = "ready" /\ saves'[g] = Nothing
  <2> HIDE DEF save, g
  <2> QED
    BY <1>1, <1>2, <1>3, <1>4 DEF TypeOK
<1> HIDE DEF save, g
<1>7. ledger' = DecisionsIn(fleet)
  <2>1. CASE behind \/ \E h \in Instances : saves[h] # Nothing
    BY <1>3, <2>1
  <2>2. CASE ~behind /\ \A h \in Instances : saves[h] = Nothing
    <3>1. CASE instance = 0
      BY <1>1, <1>3, <2>2, <3>1 DEF LedgerInv
    <3>2. CASE instance > 0
      <4>1. fleet = memory[instance]
        BY <1>1, <1>2, <2>2, <3>2 DEF SavesInv
      <4> HIDE DEF fleet
      <4> QED
        BY <1>1, <1>3, <2>2, <3>2, <4>1 DEF LedgerInv
    <3> QED
      BY <1>2, <3>1, <3>2
  <2> QED
    BY <2>1, <2>2
<1>8. TypeOK'
  <2>1. ledger' \in Decisions
    BY <1>1, <1>7, DecisionsType
  <2> QED
    BY <1>1, <1>2, <1>3, <1>5, <1>6, <2>1 DEF TypeOK
<1>9. SavesInv'
  <2>1. \A h \in Instances :
          /\ h > g => status'[h] = "absent"
          /\ status'[h] = "absent" => saves'[h] = Nothing
          /\ saves'[h] # Nothing => saves'[h].file = Serialized(memory'[h])
          /\ status'[h] = "migrating" => saves'[h] # Nothing /\ ~saves'[h].cancellable
    BY <1>1, <1>2, <1>4, <1>5, <1>6 DEF SavesInv
  <2> QED
    BY <1>2, <1>3, <1>5, <1>6, <2>1 DEF SavesInv
<1>10. LedgerInv'
  BY <1>2, <1>3, <1>5, <1>7 DEF LedgerInv
<1>11. KnownInv'
  BY <1>1, <1>2, <1>3, <1>5, <1>6 DEF KnownInv
<1> QED
  BY <1>8, <1>9, <1>10, <1>11 DEF IInv

LEMMA UnloadStep ==
  ASSUME IInv, Unload
  PROVE  IInv'
<1>1. TypeOK /\ SavesInv /\ LedgerInv /\ KnownInv
  BY DEF IInv
<1>2. /\ status' = [status EXCEPT ![instance] = "unloaded"]
      /\ status[instance] = "ready" /\ instance > 0
      /\ UNCHANGED <<file, instance, memory, saves, orphans, bounds, history>>
  BY DEF Unload
<1>3. /\ status' \in [Instances -> {"absent", "migrating", "ready", "unloaded", "gone"}]
      /\ \A h \in Instances :
           status'[h] = status[h] \/ (h = instance /\ status'[h] = "unloaded")
      /\ instance \in Instances
  BY <1>1, <1>2, RegistryAssumption DEF TypeOK, Instances
<1>4. TypeOK'
  BY <1>1, <1>2, <1>3 DEF TypeOK, bounds, history
<1>5. \A h \in Instances : (status'[h] = "absent") <=> (status[h] = "absent")
  BY <1>2, <1>3
<1>6. SavesInv'
  BY <1>1, <1>2, <1>3, <1>5 DEF SavesInv, history
<1>7. LedgerInv' /\ KnownInv'
  BY <1>1, <1>2, <1>5 DEF LedgerInv, KnownInv, history
<1> QED
  BY <1>4, <1>6, <1>7 DEF IInv

LEMMA CrashStep ==
  ASSUME IInv, Crash
  PROVE  IInv'
<1>1. TypeOK /\ SavesInv /\ LedgerInv /\ KnownInv
  BY DEF IInv
<1>2. /\ instance > 0 /\ orphans' = {}
      /\ behind' = (behind \/ saves[instance] # Nothing)
      /\ UNCHANGED <<file, instance, memory, bounds, ledger, known>>
  BY DEF Crash
<1>3. /\ status' \in [Instances -> {"absent", "migrating", "ready", "unloaded", "gone"}]
      /\ saves' \in [Instances -> SaveUnderWay \cup {Nothing}]
      /\ \A h \in Instances :
           /\ saves'[h] = Nothing
           /\ status'[h] \in {"absent", "gone"}
           /\ (status'[h] = "absent") <=> (status[h] = "absent")
      /\ instance \in Instances
  <2>1. instance \in Instances
    BY <1>1, <1>2, RegistryAssumption DEF TypeOK, Instances
  <2>2. /\ status' = [h \in Instances |-> IF status[h] = "absent" THEN "absent" ELSE "gone"]
        /\ saves' = [h \in Instances |-> Nothing]
    BY DEF Crash
  <2>3. \A h \in Instances :
          /\ saves'[h] = Nothing
          /\ status'[h] \in {"absent", "gone"}
          /\ (status'[h] = "absent") <=> (status[h] = "absent")
    BY <2>2
  <2> QED
    BY <2>1, <2>2, <2>3
<1>4. TypeOK'
  BY <1>1, <1>2, <1>3 DEF TypeOK, bounds
<1>5. SavesInv'
  BY <1>1, <1>2, <1>3 DEF SavesInv
<1>6. LedgerInv' /\ KnownInv'
  BY <1>1, <1>2, <1>3 DEF LedgerInv, KnownInv
<1> QED
  BY <1>4, <1>5, <1>6 DEF IInv

-----------------------------------------------------------------------------
(* The invariant, and what follows from it.                                *)

LEMMA Initially == Init => IInv
<1> SUFFICES ASSUME Init PROVE IInv
  OBVIOUS
<1> USE RegistryAssumption
<1>1. file \in File /\ Read(file) \in Fleet
  BY ReadType DEF Init
<1>2. ledger \in Decisions /\ known \subseteq Miners
  BY <1>1, DecisionsType DEF Init, Enrolled
<1>3. TypeOK
  <2>1. /\ status \in [Instances -> {"absent", "migrating", "ready", "unloaded", "gone"}]
        /\ memory \in [Instances -> Fleet]
        /\ saves \in [Instances -> SaveUnderWay \cup {Nothing}]
    BY EmptyFleet DEF Init
  <2>2. /\ instance \in 0..MaxInstances /\ changes \in 0..MaxChanges
        /\ errors \in 0..MaxErrors
    <3>1. instance = 0 /\ changes = 0 /\ errors = 0
      BY DEF Init
    <3> QED
      BY <3>1
  <2>3. behind \in BOOLEAN /\ orphans \subseteq File
    BY DEF Init
  <2> QED
    BY <1>1, <1>2, <2>1, <2>2, <2>3 DEF TypeOK
<1>4. SavesInv /\ LedgerInv /\ KnownInv
  BY DEF Init, SavesInv, LedgerInv, KnownInv
<1> QED
  BY <1>3, <1>4 DEF IInv

LEMMA Inductive == IInv /\ [Next]_vars => IInv'
<1> SUFFICES ASSUME IInv, [Next]_vars PROVE IInv'
  OBVIOUS
<1>1. CASE UNCHANGED vars
  BY <1>1 DEF IInv, TypeOK, SavesInv, LedgerInv, KnownInv, vars, bounds, history
<1> QED
  BY <1>1, LoadStep, UnloadStep, CrashStep, OrphanLandsStep, OperationStep, SaveLandsStep,
     SaveFailsStep, SaveCancelledStep DEF Next

(* In every behaviour IInv holds.                                          *)
LEMMA Always == Spec => []IInv
BY Initially, Inductive, PTL DEF Spec

(* Every state is of its type; in particular no list of incidents outgrows *)
(* its limit (storage.py:268).                                             *)
THEOREM TypesOK == Spec => []TypeOK
<1>1. IInv => TypeOK
  BY DEF IInv
<1> QED
  BY <1>1, Always, PTL

(* A registry at rest is on disk, unless a write was lost, cancelled or    *)
(* came late and none has landed since.                                    *)
THEOREM IdleIsSaved == Spec => []SavedWhenIdle
<1>1. IInv => SavedWhenIdle
  BY DEF IInv, SavesInv, SavedWhenIdle, Ready
<1> QED
  BY <1>1, Always, PTL

(* Only the operator changes what the operator decided.                    *)
THEOREM DecisionsKept == Spec => []DecisionsStand
<1>1. IInv => DecisionsStand
  BY DEF IInv, LedgerInv, DecisionsStand, Ready
<1> QED
  BY <1>1, Always, PTL

(* A miner that could be read once stays in every later file and registry  *)
(* until it is removed.                                                    *)
THEOREM KnownMinersKept == Spec => []KnownMinersSurvive
<1>1. IInv => KnownMinersSurvive
  <2> SUFFICES ASSUME IInv, Ready PROVE known \subseteq Enrolled(memory[instance])
    BY DEF KnownMinersSurvive, IInv, KnownInv
  <2>1. instance \in Instances /\ status[instance] # "absent"
    BY RegistryAssumption DEF IInv, TypeOK, Ready, Instances
  <2> QED
    BY <2>1 DEF IInv, KnownInv
<1> QED
  BY <1>1, Always, PTL

-----------------------------------------------------------------------------
(* MinerRegistry implements StoredRegistry.                                *)

(* The abstract operations are the code's.                                 *)
LEMMA SameOperations ==
  ASSUME NEW fleet, NEW m, NEW host, NEW f, NEW value
  PROVE  /\ Stored!EnrolledIn(fleet, m, host) = EnrolledIn(fleet, m, host)
         /\ Stored!UpdatedIn(fleet, m, host) = UpdatedIn(fleet, m, host)
         /\ Stored!SetIn(fleet, m, f, value) = SetIn(fleet, m, f, value)
         /\ Stored!RejectedIn(fleet, m) = RejectedIn(fleet, m)
         /\ Stored!RecordedIn(fleet, m) = RecordedIn(fleet, m)
         /\ Stored!RemovedFrom(fleet, m) = RemovedFrom(fleet, m)
         /\ Stored!Enrolled(fleet) = Enrolled(fleet)
         /\ Stored!Fleet = Fleet
<1>1. \A e : Stored!FromSnapshot(host, e) = FromSnapshot(host, e)
  BY DEF Stored!FromSnapshot, FromSnapshot, Stored!Approved, Approved,
         Stored!Defaults, Defaults
<1>2. \A s : Stored!Newest(s) = Newest(s)
  BY DEF Stored!Newest, Newest
<1>3. \A s : Stored!Without(s, m) = Without(s, m)
  <2>1. ASSUME NEW S PROVE Stored!Cardinality(S) = Cardinality(S)
    BY DEF Stored!Cardinality, Cardinality
  <2>2. ASSUME NEW kept, NEW k PROVE Stored!Kth(kept, k) = Kth(kept, k)
    BY <2>1 DEF Stored!Kth, Kth
  <2>3. ASSUME NEW s PROVE Stored!Without(s, m) = Without(s, m)
    <3> DEFINE kept == {i \in DOMAIN s : s[i] # m}
    <3>1. /\ Stored!Without(s, m) =
               [k \in 1..Stored!Cardinality(kept) |-> s[Stored!Kth(kept, k)]]
          /\ Without(s, m) = [k \in 1..Cardinality(kept) |-> s[Kth(kept, k)]]
      BY DEF Stored!Without, Without
    <3> HIDE DEF kept
    <3> QED
      BY <2>1, <2>2, <3>1
  <2> QED
    BY <2>3
<1>4. Stored!Fleet = Fleet
  BY DEF Stored!Fleet, Fleet, Stored!Records, Records, Stored!Record, Record,
         Stored!Settings, Settings, Stored!Incidents, Incidents
<1> QED
  BY <1>1, <1>2, <1>3, <1>4
     DEF Stored!EnrolledIn, EnrolledIn, Stored!UpdatedIn, UpdatedIn, Stored!SetIn, SetIn,
         Stored!RejectedIn, RejectedIn, Stored!RecordedIn, RecordedIn,
         Stored!RemovedFrom, RemovedFrom, Stored!Enrolled, Enrolled

(* What an operation makes of the fleet of its instance.                   *)
Operated(before, after) ==
  \E m \in Miners :
    \/ \E host \in Hosts : after = EnrolledIn(before, m, host)
    \/ after = RejectedIn(before, m)
    \/ after = RecordedIn(before, m)
    \/ /\ m \in Enrolled(before)
       /\ \/ \E host \in Hosts : after = UpdatedIn(before, m, host)
          \/ \E f \in Fields, value \in BOOLEAN : after = SetIn(before, m, f, value)
          \/ after = RemovedFrom(before, m)

LEMMA OperatedImplements ==
  ASSUME Operated(Held, Held') PROVE Stored!Operation
BY SameOperations DEF Operated, Stored!Operation

LEMMA OperationIsChange ==
  ASSUME NEW g \in Instances, Operation(g)
  PROVE  \E fleet : \E cancellable \in BOOLEAN :
           Operated(memory[g], fleet) /\ Change(g, fleet, cancellable) /\ Holds(g)
<1>1. ASSUME NEW m \in Miners, NEW host \in Hosts, Enroll(g, m, host)
      PROVE  Operated(memory[g], EnrolledIn(memory[g], m, host))
             /\ Change(g, EnrolledIn(memory[g], m, host), FALSE) /\ Holds(g)
  BY <1>1 DEF Operated, Enroll
<1>2. ASSUME NEW m \in Miners, NEW host \in Hosts, UpdateFromSnapshot(g, m, host)
      PROVE  Operated(memory[g], UpdatedIn(memory[g], m, host))
             /\ Change(g, UpdatedIn(memory[g], m, host), TRUE) /\ Holds(g)
  BY <1>2 DEF Operated, UpdateFromSnapshot, Enrolled
<1>3. ASSUME NEW m \in Miners, NEW f \in Fields, NEW value \in BOOLEAN, Set(g, m, f, value)
      PROVE  Operated(memory[g], SetIn(memory[g], m, f, value))
             /\ Change(g, SetIn(memory[g], m, f, value), FALSE) /\ Holds(g)
  BY <1>3 DEF Operated, Set, Enrolled
<1>4. ASSUME NEW m \in Miners, RejectCandidate(g, m)
      PROVE  Operated(memory[g], RejectedIn(memory[g], m))
             /\ Change(g, RejectedIn(memory[g], m), FALSE) /\ Holds(g)
  BY <1>4 DEF Operated, RejectCandidate
<1>5. ASSUME NEW m \in Miners, Remove(g, m)
      PROVE  Operated(memory[g], RemovedFrom(memory[g], m))
             /\ Change(g, RemovedFrom(memory[g], m), FALSE) /\ Holds(g)
  BY <1>5 DEF Operated, Remove, Enrolled
<1>6. ASSUME NEW m \in Miners, NEW cancellable \in BOOLEAN, RecordIncident(g, m, cancellable)
      PROVE  Operated(memory[g], RecordedIn(memory[g], m))
             /\ Change(g, RecordedIn(memory[g], m), cancellable) /\ Holds(g)
  BY <1>6 DEF Operated, RecordIncident
<1> QED
  BY <1>1, <1>2, <1>3, <1>4, <1>5, <1>6 DEF Operation

(* A call of an older registry changes nothing the newest one shows.       *)
LEMMA OperationImplements ==
  ASSUME IInv, NEW g \in Instances, Operation(g)
  PROVE  [Stored!StoredNext]_Stored!stored
<1>1. PICK fleet : \E c \in BOOLEAN :
        Operated(memory[g], fleet) /\ Change(g, fleet, c) /\ Holds(g)
  BY OperationIsChange
<1>2. PICK cancellable \in BOOLEAN :
        Operated(memory[g], fleet) /\ Change(g, fleet, cancellable) /\ Holds(g)
  BY <1>1
<1> DEFINE save == Begun(Serialized(fleet), cancellable)
<1>3. /\ memory' = [memory EXCEPT ![g] = fleet] /\ saves' = [saves EXCEPT ![g] = save]
      /\ UNCHANGED <<file, instance, behind>>
  BY <1>2 DEF Change
<1>4. /\ memory \in [Instances -> Fleet] /\ saves \in [Instances -> SaveUnderWay \cup {Nothing}]
      /\ instance # 0 /\ memory' \in [Instances -> Fleet]
      /\ saves' \in [Instances -> SaveUnderWay \cup {Nothing}]
  BY <1>2, HoldsFacts, OperationStep DEF IInv, TypeOK
<1>5. CASE g = instance
  <2>1. Held = memory[g] /\ Held' = fleet
    BY <1>3, <1>4, <1>5 DEF Held
  <2>2. Stored!Operation
    BY <1>2, <2>1, OperatedImplements
  <2>3. saves'[instance'] # Nothing
    <3>1. saves'[g] = save
      BY <1>3, <1>4
    <3>2. save # Nothing
      <4> SUFFICES ASSUME save = Nothing PROVE FALSE
        OBVIOUS
      <4>1. Serialized(fleet) \in File
        <5>1. fleet \in Fleet
          BY <1>3, <1>4
        <5> QED
          BY <5>1, ReadSerialized
      <4>2. save \in SaveUnderWay
        BY <4>1 DEF Begun, SaveUnderWay
      <4> QED
        BY <4>2, RegistryAssumption
    <3> QED
      BY <1>3, <1>5, <3>1, <3>2
  <2>4. Stored!Operate
    BY <1>3, <1>4, <2>2, <2>3 DEF Stored!Operate
  <2> QED
    BY <2>4 DEF Stored!StoredNext
<1>6. CASE g # instance
  <2>1. Held' = Held /\ saves'[instance'] = saves[instance]
    <3>1. instance \in Instances
      BY <1>1, <1>4, RegistryAssumption DEF IInv, TypeOK, Instances
    <3> QED
      BY <1>3, <1>4, <1>6, <3>1 DEF Held
  <2> QED
    BY <1>3, <2>1 DEF Stored!stored
<1> QED
  BY <1>5, <1>6

(* A save that lands stores the fleet, or writes an old one over it.       *)
LEMMA SaveLandsImplements ==
  ASSUME IInv, NEW g \in Instances, SaveLands(g)
  PROVE  Stored!StoredNext
<1>1. /\ saves[g] # Nothing /\ Released(g) /\ file' = saves[g].file
      /\ behind' = (g # instance) /\ UNCHANGED <<instance, memory>>
  BY DEF SaveLands
<1>2. /\ Read(file') = memory[g] /\ instance # 0 /\ instance \in Instances
      /\ memory[g] \in Fleet /\ saves' = [saves EXCEPT ![g] = Nothing]
      /\ saves \in [Instances -> SaveUnderWay \cup {Nothing}]
  BY <1>1, SaveFacts DEF IInv, TypeOK, Released
<1>3. Held' = Held /\ Held = memory[instance]
  BY <1>1, <1>2 DEF Held
<1>4. CASE g = instance
  BY <1>1, <1>2, <1>3, <1>4 DEF Stored!Store, Stored!StoredNext
<1>5. CASE g # instance
  <2>1. behind' = TRUE /\ instance' # 0
    BY <1>1, <1>2, <1>5
  <2> QED
    BY <1>2, <1>3, <2>1, SameOperations DEF Stored!Overwrite, Stored!StoredNext
<1> QED
  BY <1>4, <1>5

(* Whatever cuts a save short was not safe before, and is not after.       *)
LEMMA LostImplements ==
  ASSUME IInv, NEW g \in Instances, SaveFails(g) \/ SaveCancelled(g)
  PROVE  UNCHANGED Stored!stored
<1>1. /\ saves[g] # Nothing /\ saves' = [saves EXCEPT ![g] = Nothing]
      /\ behind' = (behind \/ g = instance) /\ UNCHANGED <<file, instance, memory>>
  BY DEF SaveFails, SaveCancelled, Released
<1>2. /\ instance # 0 /\ instance \in Instances /\ behind \in BOOLEAN
      /\ saves \in [Instances -> SaveUnderWay \cup {Nothing}]
  BY <1>1, SaveFacts DEF IInv, TypeOK
<1> QED
  BY <1>1, <1>2 DEF Stored!stored, Held

LEMMA OrphanLandsImplements ==
  ASSUME IInv, OrphanLands
  PROVE  Stored!StoredNext
<1>1. PICK f \in orphans :
        /\ file' = f /\ behind' = TRUE /\ UNCHANGED <<instance, memory, saves>>
  BY DEF OrphanLands
<1>2. instance # 0 /\ Read(file') \in Fleet
  BY <1>1, ReadType DEF IInv, TypeOK, SavesInv
<1> QED
  BY <1>1, <1>2, SameOperations DEF Stored!Overwrite, Stored!StoredNext, Held

(* A new registry, even one that stands in for a registry not yet stored,  *)
(* holds what the file holds.                                              *)
LEMMA LoadImplements ==
  ASSUME IInv, Load
  PROVE  Stored!Restart
<1> DEFINE g == instance + 1
<1>1. /\ instance' = g /\ memory' = [memory EXCEPT ![g] = Read(file)] /\ file' = file
  BY DEF Load
<1>2. /\ instance \in Nat /\ g # 0 /\ g \in Instances
      /\ memory \in [Instances -> Fleet]
  BY RegistryAssumption DEF Load, IInv, TypeOK, Instances
<1>3. Held' = Read(file)
  BY <1>1, <1>2 DEF Held
<1> QED
  BY <1>1, <1>3 DEF Stored!Restart

LEMMA CrashImplements ==
  ASSUME IInv, Crash
  PROVE  UNCHANGED Stored!stored
<1>1. /\ instance > 0 /\ behind' = (behind \/ saves[instance] # Nothing)
      /\ saves' = [g \in Instances |-> Nothing] /\ UNCHANGED <<file, instance, memory>>
  BY DEF Crash
<1>2. instance # 0 /\ instance \in Instances /\ behind \in BOOLEAN
  BY <1>1, RegistryAssumption DEF IInv, TypeOK, Instances
<1> QED
  BY <1>1, <1>2 DEF Stored!stored, Held

LEMMA UnloadImplements ==
  ASSUME Unload \/ UNCHANGED vars
  PROVE  UNCHANGED Stored!stored
BY DEF Unload, vars, history, bounds, Stored!stored, Held

(* Any number of registries, with operations of old ones, saves that land, *)
(* fail, are cancelled or come late, and crashes between any two steps     *)
(* (storage.py:103-270): what the newest one shows changes by one whole    *)
(* operation at a time, and a restart loads the file, which is the fleet   *)
(* once its save landed.                                                   *)
THEOREM RegistryImplementsStored == Spec => RegistryIsStored
<1>1. Init => Stored!StoredInit
  <2> SUFFICES ASSUME Init PROVE Stored!StoredInit
    OBVIOUS
  <2>1. instance = 0 /\ Held = Read(file) /\ Read(file) \in Fleet
    BY ReadType, RegistryAssumption DEF Init, Held
  <2> QED
    BY <2>1, SameOperations DEF Stored!StoredInit, Stored!Init
<1>2. ASSUME IInv, [Next]_vars
      PROVE  [Stored!StoredNext]_Stored!stored
  BY <1>2, OperationImplements, SaveLandsImplements, LostImplements, OrphanLandsImplements,
     LoadImplements, CrashImplements, UnloadImplements DEF Next, Stored!StoredNext
<1> QED
  BY <1>1, <1>2, Always, PTL DEF Spec, RegistryIsStored, Stored!StoredSpec
=============================================================================
