------------------------------ MODULE Conversions ------------------------------
(***************************************************************************)
(* One call after the other of the functions of AxeosValues and            *)
(* FleetTelemetry, each with any of its inputs, and what the integration   *)
(* relies on between them: what one of them accepts, the next one takes.   *)
(***************************************************************************)
EXTENDS FleetTelemetry

CONSTANTS
  SystemInfos,   \* bodies of GET /api/system/info: [fields, changed], where
                 \* changed are the fields that differ from a usual body
  SystemAsics,   \* the fields of bodies of GET /api/system/asic
  Messages,      \* the policies of bitaxe_fleet/recovery/policy/set messages
  Fleets,        \* the fresh snapshots of a fleet
  Histories,     \* the states of a recorder series, with the most points
  LogResponses,  \* the responses of GET /api/system/logs
  Networks       \* the networks an active scan may be asked for

Json(fields) == \A f \in DOMAIN fields : IsJson(fields[f])

(* None is no value of any other kind.  What comes in is JSON; a fleet is a *)
(* sequence of snapshots; a recorder series is a sequence of states, each  *)
(* known here by its place in time; what a miner sends of its logs is the  *)
(* encoded text, in chunks that are not empty; a network with a prefix of  *)
(* less than 31 bits has more than two addresses.                          *)
ASSUME ConversionsAssumption ==
  /\ None \notin Int \cup BOOLEAN \cup [watts : Nat, gh_s : Nat]
  /\ \A body \in SystemInfos : Json(body.fields)
  /\ \A fields \in SystemAsics : Json(fields)
  /\ \A message \in Messages :
       IsJson(message) /\ (message.kind = "object" => Json(message.fields))
  /\ \A snapshots \in Fleets : snapshots \in Seq(Snapshot)
  /\ \A history \in Histories :
       /\ history.most \in Nat \ {0, 1}
       /\ IsList(history.states)
       /\ \A i \in DOMAIN history.states :
            LET state == history.states[i]
            IN  state.last_updated = i /\ state.finite \in BOOLEAN /\ state.number # None
  /\ MaxLogResponse \in Nat /\ MaxLogText \in Nat \ {0}
  /\ \A response \in LogResponses :
       /\ IsList(response.text) /\ {"wide1", "wide2"} \cap ToSet(response.text) = {}
       /\ response.chunks \in Seq(Seq(ToSet(Encode(response.text))) \ {<<>>})
       /\ FlattenSeq(response.chunks) = Encode(response.text)
       /\ response.announced \in BOOLEAN
  /\ MaxScanHosts \in Nat
  /\ \A network \in Networks :
       /\ network.prefixlen \in 0..32 /\ network.num_addresses \in Nat
       /\ CASE network.prefixlen = 32 -> network.num_addresses = 1
            [] network.prefixlen = 31 -> network.num_addresses = 2
            [] OTHER -> network.num_addresses > 2

VARIABLES call, result

vars == <<call, result>>

Idle == [to |-> "nothing"]

Init == call = Idle /\ result = {}

ReadSystemInfo ==
  \E body \in SystemInfos :
    /\ call = Idle
    /\ call' = [to |-> "parse_system_info", body |-> body]
    /\ result' = ParseSystemInfo(Object(body.fields))

ReadSystemAsic ==
  \E fields \in SystemAsics :
    /\ call = Idle
    /\ call' = [to |-> "parse_system_asic", fields |-> fields]
    /\ result' = ParseSystemAsic(Object(fields))

ReceivePolicy ==
  \E message \in Messages :
    /\ call = Idle
    /\ call' = [to |-> "policy_from_message", message |-> message]
    /\ result' = PolicyFromMessage(message)

AddUp ==
  \E snapshots \in Fleets :
    /\ call = Idle
    /\ call' = [to |-> "calculate_fleet_aggregates", snapshots |-> snapshots]
    /\ result' = {Aggregates(snapshots)}

ThinHistory ==
  \E history \in Histories :
    /\ call = Idle
    /\ call' = [to |-> "series_from_states", history |-> history]
    /\ result' = {SeriesFromStates(history.states, history.most)}

ReadLogs ==
  \E response \in LogResponses :
    /\ call = Idle
    /\ call' = [to |-> "get_system_logs", response |-> response]
    /\ result' = GetSystemLogs(
                    response.chunks,
                    IF response.announced THEN Len(Encode(response.text)) ELSE None)

PlanScan ==
  \E network \in Networks :
    /\ call = Idle
    /\ call' = [to |-> "parse_private_network", network |-> network]
    /\ result' = ParsePrivateNetwork(network)

Finish ==
  /\ call # Idle
  /\ call' = Idle
  /\ result' = {}

Next ==
  \/ ReadSystemInfo \/ ReadSystemAsic \/ ReceivePolicy
  \/ AddUp \/ ThinHistory \/ ReadLogs \/ PlanScan \/ Finish

Spec == Init /\ [][Next]_vars

(***************************************************************************)
(* Properties.                                                             *)
(***************************************************************************)

(* The bounds of the parser, of the domain objects, of the PATCH and of    *)
(* the storage are written down four times.  A complete configuration the  *)
(* parser accepts makes a profile; the miner enrolled from the snapshot,   *)
(* with that profile, is read back from storage as it was; a device that   *)
(* took over the body of the PATCH reads back as that profile; and a       *)
(* policy the panel may set is read back, shown and accepted again as it   *)
(* was.  Otherwise a restart would lose an approved miner, whose record    *)
(* loads whole or not at all.  Of a record of version 1 the identity and   *)
(* the address are read.                                                   *)
Reloaded(m) == DeserializeMiner(SerializeMiner(m), FALSE)

SettingsSurviveEveryForm ==
  /\ call.to = "parse_system_info" =>
       \A s \in result, h \in PrivateHosts :
         LET profiles == ToRecoveryProfile(s.configuration)
             miner(p) == [identity |-> s.identity, host |-> h,
                          display_name |-> s.identity.hostname,
                          enabled |-> FALSE, recovery_profile |-> p,
                          recovery_policy |-> DefaultPolicy]
             patched(p) == [f \in DOMAIN call.body.fields \cup DOMAIN PatchBody(p) |->
                              Get(IF f \in DOMAIN PatchBody(p) THEN PatchBody(p)
                                  ELSE call.body.fields, f)]
         IN  /\ profiles # {}
             /\ \A p \in profiles :
                  /\ Reloaded(miner(p)) = {miner(p)}
                  /\ DeserializeMiner(SerializeMiner(miner(p)), TRUE) =
                       {[miner(p) EXCEPT !.display_name = None, !.enabled = TRUE,
                                         !.recovery_profile = None]}
                  /\ p # None =>
                       {ToRecoveryProfile(t.configuration) :
                          t \in ParseSystemInfo(Object(patched(p)))} = {{p}}
  /\ call.to = "policy_from_message" =>
       \A p \in result :
         /\ DeserializePolicy(SerializePolicy(p)) = {p}
         /\ PolicyDto(p) = call.message
         /\ PolicyFromMessage(PolicyDto(p)) = {p}

(* Firmware versions send a number as a number or as text and a switch as  *)
(* a boolean or as 0 and 1.  How a value is spelt changes nothing of what  *)
(* is read, an id comes out the same from every spelling of the address,   *)
(* and a boolean is never taken for a number.                              *)
SameNumber(v) ==
  IF "halves" \notin DOMAIN v THEN {}
  ELSE {Float(v.halves), Numeral(v.halves, TRUE)}
       \cup (IF v.halves % 2 = 0
             THEN {Integer(v.halves \div 2), Numeral(v.halves, FALSE)} ELSE {})

SameSwitch(v) ==
  UNION {forms \in {{Bool(FALSE), Integer(0), Float(0)}, {Bool(TRUE), Integer(1), Float(2)}} :
           v \in forms}

SameAddress(v) ==
  IF "mac" \in DOMAIN v
  THEN {Mac(v.mac, spelling) : spelling \in {"colons", "dashes", "plain"}} ELSE {}

Switches ==
  {"overclockEnabled", "autofanspeed", "miningPaused", "isUsingFallbackStratum"}
Numbers ==
  (DOMAIN TelemetrySchema \cup DOMAIN ConfigurationSchema \cup {"overheat_mode"})
    \ Switches

SpellingIsIrrelevant ==
  call.to = "parse_system_info" =>
    \A f \in call.body.changed \cap DOMAIN call.body.fields :
      LET v == call.body.fields[f]
          same == IF f \in Switches THEN SameSwitch(v)
                  ELSE IF f \in Numbers THEN SameNumber(v)
                  ELSE IF f = "macAddr" THEN SameAddress(v) ELSE {}
      IN  /\ \A w \in same :
               ParseSystemInfo(Object([call.body.fields EXCEPT ![f] = w])) = result
          /\ f \in Numbers /\ v.kind = "bool" => result = {}

(* Capabilities that are accepted can be used: the lists of options are    *)
(* not empty and name nothing twice, every pair of options makes a profile *)
(* the device supports, and so does the device's own default.              *)
WithOptions(frequency, voltage) ==
  [frequency_mhz |-> frequency, core_voltage_mv |-> voltage,
   overclock_enabled |-> TRUE, automatic_fan_speed |-> TRUE,
   target_temperature_c |-> 60, minimum_fan_speed_percent |-> 25]

CapabilitiesUsable ==
  call.to = "parse_system_asic" =>
    \A c \in result :
      LET frequencies == c.frequency_options_mhz
          voltages == c.voltage_options_mv
          Usable(p) == RecoveryProfile(p) = {p} /\ SupportsProfile(c, p)
      IN  /\ \A options \in {frequencies, voltages} \ {None} :
               Len(options) >= 1 /\ Cardinality(ToSet(options)) = Len(options)
          /\ None \notin {frequencies, voltages} =>
               /\ \A i \in DOMAIN frequencies : \A j \in DOMAIN voltages :
                    Usable(WithOptions(frequencies[i], voltages[j]))
               /\ None \notin {c.default_frequency_mhz, c.default_voltage_mv} =>
                    Usable(WithOptions(c.default_frequency_mhz, c.default_voltage_mv))

(* A metric nobody reports has no total, and a total of zero means zero.   *)
(* Every total is that of any two parts of the fleet together, so a miner  *)
(* counts once and an absent value not at all; coverage never exceeds the  *)
(* miners that are online; overheating miners are among the unhealthy ones *)
(* and are those whose own sensor says so; a miner whose sensor says it    *)
(* mines is never counted as paused; and there is an efficiency exactly    *)
(* when there is something to divide and to divide by.                     *)
Together(x, y, Op(_, _)) ==
  IF x = None THEN y ELSE IF y = None THEN x ELSE Op(x, y)

Larger(x, y) == IF x > y THEN x ELSE y

On(sensor) ==
  {i \in DOMAIN call.snapshots : IsOn(sensor, call.snapshots[i]) = TRUE}

TotalsMatchCoverage ==
  call.to = "calculate_fleet_aggregates" =>
    \A a \in result :
      /\ \A k \in 0..Len(call.snapshots) :
           LET l == Aggregates(SubSeq(call.snapshots, 1, k))
               r == Aggregates(SubSeq(call.snapshots, k + 1, Len(call.snapshots)))
           IN  /\ \A t \in {"total_hashrate", "total_power", "total_uptime",
                            "unhealthy_miners", "overheating_miners"} :
                    a[t] = Together(l[t], r[t], +)
               /\ a.best_difficulty =
                    Together(l.best_difficulty, r.best_difficulty, Larger)
      /\ \A pair \in {<<"total_hashrate", "hashrate">>, <<"total_power", "power">>,
                      <<"total_uptime", "uptime">>, <<"best_difficulty", "best">>,
                      <<"unhealthy_miners", "unhealthy">>,
                      <<"overheating_miners", "overheat">>} :
           /\ (a[pair[1]] = None) = (a.coverage[pair[2]] = 0)
           /\ a.coverage[pair[2]] <= a.online_miners
      /\ a.overheating_miners \notin {None, 0} =>
           a.unhealthy_miners # None /\ a.overheating_miners <= a.unhealthy_miners
      /\ On("overheating") # {} =>
           a.overheating_miners = Cardinality(On("overheating"))
      /\ \A i \in On("mining") :
           SnapshotCondition(call.snapshots[i]) # "paused"
      /\ (a.efficiency = None) =
           (None \in {a.total_power, a.total_hashrate} \/ a.total_hashrate = 0)

(* However long the recorder's series is, the graph has at most as many    *)
(* points as allowed, begins with its first state and ends with its last   *)
(* one, goes forward in time, shows no state twice, leaves out no more     *)
(* than its share between two points, and draws no value over an outage.   *)
HistoryKeepsEnds ==
  call.to = "series_from_states" =>
    \A points \in result :
      LET states == call.history.states
          n == Len(states)
          most == call.history.most
          At(i) == points[i].observed_at
      IN  /\ Len(points) = (IF n <= most THEN n ELSE most)
          /\ n > 0 => At(1) = 1 /\ At(Len(points)) = n
          /\ \A i \in 1..(Len(points) - 1) :
               /\ At(i) < At(i + 1)
               /\ (At(i + 1) - At(i) - 1) * (most - 1) < Max({n - 1, most})
          /\ \A i \in DOMAIN points :
               (points[i].value = None) = ~states[At(i)].finite

(* Of a response with a known length, however the network splits it, and   *)
(* of one that comes in one piece, the panel shows the newest lines: a     *)
(* text of at most MaxLogText bytes that ends where the log ends and       *)
(* starts at the start of a line (or, when not even one line end is left,  *)
(* within the last line).  The line before it would not have fitted with a *)
(* byte to spare, and no character is garbled by the cut.                  *)
LogsAreNewestWholeLines ==
  call.to = "get_system_logs"
  /\ (call.response.announced \/ Len(call.response.chunks) <= 1) =>
    LET text == call.response.text
        size == Len(Encode(text))
    IN  /\ (result = {}) = ("nul" \in ToSet(text) \/ size > MaxLogResponse)
        /\ \A t \in result :
             LET cut == Len(text) - Len(t)
                 before == SubSeq(text, 1, cut - 1)
                 line == Max({0} \cup {i \in DOMAIN before : before[i] = "newline"})
                 withLine == Encode(SubSeq(text, line + 1, Len(text)))
             IN  /\ Len(Encode(t)) <= MaxLogText
                 /\ SubSeq(text, cut + 1, Len(text)) = t
                 /\ cut > 0 =>
                      \/ text[cut] = "newline" /\ Len(withLine) >= MaxLogText
                      \/ /\ "newline" \notin ToSet(t)
                         /\ Len(Encode(t)) >= MaxLogText - 1

(* The total the operator sees before a scan is the number of addresses    *)
(* the scan probes, for /31 and /32 too; it is within the bound and there  *)
(* is something to scan.                                                   *)
ScanTotalIsProbed ==
  call.to = "parse_private_network" =>
    \A network \in result :
      /\ HostCount(network) = Cardinality(ScannedHosts(network))
      /\ HostCount(network) \in 1..MaxScanHosts
=============================================================================
