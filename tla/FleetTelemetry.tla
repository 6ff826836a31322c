---------------------------- MODULE FleetTelemetry ----------------------------
(***************************************************************************)
(* The bounded computations over what the miners report: the fleet totals  *)
(* with their coverage (aggregates.py), the thinned history of a graph     *)
(* (history.py), the bounded log text (axeos/client.py, axeos/parser.py)   *)
(* and the size of an active scan (discovery/active_scan.py).  As in       *)
(* AxeosValues, a function that may raise is the set of what it may return.*)
(***************************************************************************)
EXTENDS AxeosValues, SequencesExt

CONSTANTS
  MaxLogResponse,  \* MAX_AXEOS_LOG_RESPONSE_BYTES
  MaxLogText,      \* MAX_AXEOS_LOG_TEXT_BYTES
  MaxScanHosts     \* MAX_ACTIVE_SCAN_HOSTS

(***************************************************************************)
(* Fleet totals.  A reading is what a fresh snapshot says of one miner;    *)
(* every field may be None, and none is less than zero.  fault is a power  *)
(* or a hardware fault.                                                    *)
(***************************************************************************)
Snapshot ==
  [hashrate : Nat \cup {None}, power : Nat \cup {None}, uptime : Nat \cup {None},
   best : Nat \cup {None}, overheat_mode : Nat \cup {None},
   mining_paused : BOOLEAN \cup {None}, fault : BOOLEAN]

SnapshotCondition(s) ==
  IF s.overheat_mode \notin {None, 0} THEN "overheat"
  ELSE IF s.mining_paused = TRUE THEN "paused"
  ELSE IF s.fault THEN "fault"
  ELSE IF s.hashrate = None THEN "unknown"
  ELSE IF s.hashrate <= 0 THEN "zero_hashrate"
  ELSE "healthy"

(* Where a field has a value. *)
Reporting(snapshots, field) ==
  {i \in DOMAIN snapshots : snapshots[i][field] # None}

(* The values are added in the order of the snapshots.                     *)
SumOf(snapshots, field) ==
  LET sum[n \in 0..Len(snapshots)] ==
        IF n = 0 THEN 0
        ELSE IF snapshots[n][field] = None THEN sum[n - 1]
        ELSE sum[n - 1] + snapshots[n][field]
  IN  sum[Len(snapshots)]

(* Mutant: the sum of nothing taken for a total.                           *)
SumOrZero(snapshots, field) == SumOf(snapshots, field)

SumOrNone(snapshots, field) ==
  IF Reporting(snapshots, field) = {} THEN None ELSE SumOf(snapshots, field)

LargestOrNone(snapshots, field) ==
  LET all == Reporting(snapshots, field)
  IN  IF all = {} THEN None ELSE Max({snapshots[i][field] : i \in all})

Judged(snapshots) ==
  {i \in DOMAIN snapshots : SnapshotCondition(snapshots[i]) # "unknown"}

Unhealthy(s) == SnapshotCondition(s) \notin {"healthy", "paused"}

CountOrNone(all, some) == IF all = {} THEN None ELSE Cardinality(some)

Efficiency(watts, gh_s) ==
  IF None \in {watts, gh_s} \/ gh_s <= 0 THEN None
  ELSE [watts |-> watts, gh_s |-> gh_s]

(* efficiency_j_th is the quotient watts / (gh_s / 1000).                  *)
Aggregates(snapshots) ==
  LET Of(field) == Reporting(snapshots, field)
      judged == Judged(snapshots)
      gh_s == SumOrNone(snapshots, "hashrate")
      watts == SumOrNone(snapshots, "power")
  IN  [online_miners      |-> Len(snapshots),
       coverage           |->
         [hashrate |-> Cardinality(Of("hashrate")),
          power |-> Cardinality(Of("power")),
          uptime |-> Cardinality(Of("uptime")), best |-> Cardinality(Of("best")),
          unhealthy |-> Cardinality(judged),
          overheat |-> Cardinality(Of("overheat_mode"))],
       total_hashrate     |-> gh_s,
       total_power        |-> watts,
       efficiency         |-> Efficiency(watts, gh_s),
       total_uptime       |-> SumOrNone(snapshots, "uptime"),
       best_difficulty    |-> LargestOrNone(snapshots, "best"),
       unhealthy_miners   |->
         CountOrNone(judged, {i \in judged : Unhealthy(snapshots[i])}),
       overheating_miners |->
         CountOrNone(Of("overheat_mode"),
                     {i \in Of("overheat_mode") : snapshots[i].overheat_mode # 0})]

(* BitaxeBinarySensor.is_on of a miner with this snapshot.                 *)
IsOn(sensor, s) ==
  CASE sensor = "mining" ->
         IF s.mining_paused = None THEN None ELSE ~s.mining_paused
    [] sensor = "overheating" ->
         IF s.overheat_mode = None THEN None ELSE s.overheat_mode # 0

(***************************************************************************)
(* History.  round() is Python's: a half goes to the even neighbour.       *)
(***************************************************************************)
RoundedQuotient(a, b) ==
  LET q == a \div b
      twice == 2 * (a % b)
  IN  IF twice < b \/ (twice = b /\ q % 2 = 0) THEN q ELSE q + 1

(* A recorder state that is no finite number is a gap in the graph.        *)
FiniteValue(state) == IF state.finite THEN state.number ELSE None

(* Points spread over the window as if its end were one more point.        *)
SeriesWithoutEnd(states, MaxPoints) ==
  LET n == Len(states)
  IN  [i \in 1..(IF n <= MaxPoints THEN n ELSE MaxPoints) |->
         LET at == IF n <= MaxPoints THEN i
                   ELSE 1 + RoundedQuotient((i - 1) * (n - 1), MaxPoints)
         IN  [observed_at |-> states[at].last_updated,
              value |-> FiniteValue(states[at])]]

SeriesFromStates(states, MaxPoints) ==
  LET points == [i \in DOMAIN states |->
                   [observed_at |-> states[i].last_updated,
                    value |-> FiniteValue(states[i])]]
      last == Len(points) - 1
  IN  IF Len(points) <= MaxPoints THEN points
      ELSE [i \in 1..MaxPoints |->
              points[1 + RoundedQuotient((i - 1) * last, MaxPoints - 1)]]

(***************************************************************************)
(* Logs.  A text is a sequence of characters, its UTF-8 form a sequence of *)
(* bytes; "wide" is a character of two bytes.                              *)
(***************************************************************************)
Bytes(c) == IF c = "wide" THEN <<"wide1", "wide2">> ELSE <<c>>
Encode(text) == FlattenSeq([i \in DOMAIN text |-> Bytes(text[i])])

(* decode(errors="ignore"): a second byte whose first one has been cut off *)
(* is dropped.                                                             *)
Characters(b) ==
  CASE b = "wide1" -> <<"wide">>
    [] b = "wide2" -> <<>>
    [] OTHER -> <<b>>
Decode(bytes) == FlattenSeq([i \in DOMAIN bytes |-> Characters(bytes[i])])

(* _async_read_response_body: chunks as they come from the network, read   *)
(* to the first one that is enough; content_length is None when the miner  *)
(* does not announce it.                                                   *)
ReadResponseBody(chunks, content_length) ==
  LET Body(n) == LET all == FlattenSeq(SubSeq(chunks, 1, n))
                 IN  SubSeq(all, 1, Min({Len(all), MaxLogResponse + 1}))
      enough == {n \in 1..Len(chunks) :
                   \/ Len(Body(n)) > MaxLogResponse
                   \/ content_length = None
                   \/ Len(Body(n)) >= content_length}
      received == Body(Min(enough \cup {Len(chunks)}))
  IN  IF \/ content_length # None /\ content_length > MaxLogResponse
         \/ Len(received) > MaxLogResponse
      THEN {} ELSE {received}

(* The newest bytes, from wherever the bound cuts.                         *)
LogTailFromCut(bytes) ==
  Decode(SubSeq(bytes, Len(bytes) - MaxLogText + 1, Len(bytes)))

LogTail(bytes) ==
  LET tail == SubSeq(bytes, Len(bytes) - MaxLogText + 1, Len(bytes))
      newlines == {i \in DOMAIN tail : tail[i] = "newline"}
  IN  Decode(IF newlines = {} THEN tail
             ELSE SubSeq(tail, Min(newlines) + 1, Len(tail)))

ParseSystemLogs(bytes) ==
  IF "nul" \in ToSet(bytes) \/ Len(bytes) > MaxLogResponse THEN {}
  ELSE IF Len(bytes) <= MaxLogText THEN {Decode(bytes)}
  ELSE {LogTail(bytes)}

(* _async_get_text decodes strictly: a body cut within a character raises. *)
GetSystemLogs(chunks, content_length) ==
  UNION {IF body # <<>> /\ Last(body) = "wide1" THEN {} ELSE ParseSystemLogs(body) :
           body \in ReadResponseBody(chunks, content_length)}

(***************************************************************************)
(* An active scan.  A network is its prefix length, its number of          *)
(* addresses, and whether it lies in an RFC 1918 range.                    *)
(***************************************************************************)
HostCount(network) ==
  CASE network.prefixlen = 32 -> 1
    [] network.prefixlen = 31 -> 2
    [] OTHER -> network.num_addresses - 2

ParsePrivateNetwork(network) ==
  IF network.private /\ HostCount(network) <= MaxScanHosts THEN {network} ELSE {}

(* IPv4Network.hosts(): all addresses of a /31 or a /32, and of a larger   *)
(* network all but the first and the last.                                 *)
ScannedHosts(network) ==
  LET last == network.num_addresses - 1
  IN  IF network.prefixlen >= 31 THEN 0..last ELSE (0..last) \ {0, last}
=============================================================================
