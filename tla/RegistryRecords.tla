---------------------------- MODULE RegistryRecords ----------------------------
(***************************************************************************)
(* What the registry of approved miners holds, and what each of its        *)
(* operations makes of it (storage.py).                                    *)
(***************************************************************************)
EXTENDS Integers, Sequences, FiniteSets

CONSTANTS
  Miners,       \* permanent identities
  Hosts,        \* endpoint and metadata of a miner, as last read from it
  Fields,       \* what the operator sets: name, enabled, profile, policy
  NoRecord,     \* the miner is not enrolled
  MaxIncidents  \* MAX_STORED_INCIDENTS

(* TRUE: not the default. *)
Settings == [Fields -> BOOLEAN]
Record == [host : Hosts, settings : Settings]
Records == [Miners -> Record \cup {NoRecord}]
Incidents == UNION {[1..n -> Miners] : n \in 0..MaxIncidents}
Fleet == [miners : Records, rejected : SUBSET Miners, incidents : Incidents]

Defaults == [f \in Fields |-> FALSE]
Approved(host) == [host |-> host, settings |-> Defaults]
NoMiners == [m \in Miners |-> NoRecord]
Empty == [miners |-> NoMiners, rejected |-> {}, incidents |-> <<>>]

(* Mutant: a snapshot brings the defaults. *)
FromSnapshotAlone(host, existing) == Approved(host)

(* A known miner keeps what the operator set. *)
FromSnapshot(host, existing) ==
  IF existing = NoRecord THEN Approved(host)
  ELSE [existing EXCEPT !.host = host]

EnrolledIn(fleet, m, host) ==
  [fleet EXCEPT !.miners[m] = FromSnapshot(host, @), !.rejected = @ \ {m}]

(* Mutant: the list is never cut. *)
AllIncidents(incidents) == incidents

Newest(incidents) ==
  IF Len(incidents) <= MaxIncidents THEN incidents
  ELSE SubSeq(incidents, Len(incidents) - MaxIncidents + 1, Len(incidents))

(* The k-th of a set of positions. *)
Kth(positions, k) ==
  CHOOSE i \in positions : Cardinality({j \in positions : j <= i}) = k

Without(incidents, m) ==
  LET kept == {i \in DOMAIN incidents : incidents[i] # m}
  IN  [k \in 1..Cardinality(kept) |-> incidents[Kth(kept, k)]]

UpdatedIn(fleet, m, host) ==
  [fleet EXCEPT !.miners[m] = FromSnapshot(host, @)]

SetIn(fleet, m, f, value) ==
  [fleet EXCEPT !.miners[m].settings[f] = value]

RejectedIn(fleet, m) == [fleet EXCEPT !.rejected = @ \cup {m}]

RecordedIn(fleet, m) == [fleet EXCEPT !.incidents = Newest(Append(@, m))]

RemovedFrom(fleet, m) ==
  [fleet EXCEPT !.miners[m] = NoRecord, !.incidents = Without(@, m)]

Enrolled(fleet) == {m \in Miners : fleet.miners[m] # NoRecord}
================================================================================
