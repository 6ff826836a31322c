----------------------------- MODULE AxeosValues -----------------------------
(***************************************************************************)
(* What a value becomes on its way through the integration: from AxeOS     *)
(* JSON to a snapshot and to capabilities (axeos/parser.py), from an       *)
(* observed configuration to a recovery profile (axeos/models.py), to the  *)
(* body of a PATCH (axeos/client.py), to the stored record and back        *)
(* (storage.py), and from the panel's message to a policy (websocket.py).  *)
(*                                                                         *)
(* A function that may raise is the set of what it may return: one value,  *)
(* or none when it raises.  Numbers are counted in halves, so that whole   *)
(* numbers and others differ.  Text is a shape: what the code tests of it. *)
(***************************************************************************)
EXTENDS Integers, Sequences, FiniteSets

CONSTANTS
  None,          \* Python's None
  Stations,      \* the MAC addresses of single stations
  PrivateHosts   \* the RFC 1918 addresses

(***************************************************************************)
(* JSON.  A numeral is a text that float() reads; pointed says that it is  *)
(* spelt with a decimal point.  A phrase is printable, short enough and no *)
(* host name.  Text has lost its outer blanks already.                     *)
(***************************************************************************)
Null == [kind |-> "null"]
Bool(b) == [kind |-> "bool", bool |-> b]
Integer(n) == [kind |-> "int", halves |-> 2 * n]
Float(h) == [kind |-> "float", halves |-> h]
NonFinite == [kind |-> "nonfinite"]
Text(shape) == [kind |-> "text", shape |-> shape]
Numeral(h, pointed) ==
  [kind |-> "text", shape |-> "numeral", halves |-> h, pointed |-> pointed]
Mac(m, spelling) ==
  [kind |-> "text", shape |-> "mac", mac |-> m, spelling |-> spelling]
Address(h) == [kind |-> "text", shape |-> "ipv4", host |-> h]
List(items) == [kind |-> "list", items |-> items]
Object(fields) == [kind |-> "object", fields |-> fields]

IsList(s) == Len(s) \in Nat /\ s = [i \in 1..Len(s) |-> s[i]]

(* A value of one of these forms, with text and objects of any content.    *)
IsJson(v) ==
  LET Has(f) == f \in DOMAIN v
  IN  \/ v \in {Null, NonFinite, Bool(FALSE), Bool(TRUE)}
      \/ Has("halves") /\ v.halves \in Int /\ v \in {Integer(v.halves \div 2), Float(v.halves)}
      \/ Has("pointed") /\ v.halves \in Int /\ v = Numeral(v.halves, v.pointed)
      \/ Has("mac") /\ v = Mac(v.mac, v.spelling)
      \/ Has("host") /\ v = Address(v.host)
      \/ Has("shape") /\ v = Text(v.shape) /\ v.shape \notin {"numeral", "mac", "ipv4"}
      \/ Has("items") /\ v = List(v.items) /\ IsList(v.items)
      \/ Has("fields") /\ v = Object(v.fields) /\ v.fields = [f \in DOMAIN v.fields |-> v.fields[f]]

Get(fields, key) == IF key \in DOMAIN fields THEN fields[key] ELSE Null

(* Every field parsed, or nothing when one of them raises.                 *)
AllOf(parsed) ==
  IF \E k \in DOMAIN parsed : parsed[k] = {} THEN {}
  ELSE {[k \in DOMAIN parsed |-> CHOOSE v \in parsed[k] : TRUE]}

(***************************************************************************)
(* axeos/parser.py: single fields.                                         *)
(***************************************************************************)
(* The number behind the value, Python's numbers being what bool is too.   *)
ParsedNumberOrBool(v) ==
  IF v.kind = "bool" THEN {IF v.bool THEN 2 ELSE 0}
  ELSE IF "halves" \in DOMAIN v THEN {v.halves} ELSE {}

ParsedNumber(v) ==
  IF \/ v.kind \in {"int", "float"}
     \/ v.kind = "text" /\ v.shape = "numeral"
  THEN {v.halves}
  ELSE {}

(* The numbers that a minimum and a maximum admit. *)
Within(minimum, maximum) == minimum..maximum

Whole(numbers) == {h \div 2 : h \in {g \in numbers : g % 2 = 0}}

OptionalNumber(v, allowed) ==
  IF v = Null THEN {None} ELSE {h \in ParsedNumber(v) : h \in allowed}

OptionalInt(v, allowed) ==
  IF v = Null THEN {None} ELSE {n \in Whole(ParsedNumber(v)) : n \in allowed}

FormsOf(b) ==
  LET n == IF b THEN 1 ELSE 0
  IN  {Bool(b), Integer(n), Float(2 * n), Numeral(2 * n, FALSE)}

OptionalBool(v) ==
  IF v = Null THEN {None} ELSE {b \in BOOLEAN : v \in FormsOf(b)}

(* The sentinel of a sensor that is not fitted is -1.                      *)
OptionalTemperature(v, missing_sentinel) ==
  IF v = Null THEN {None}
  ELSE IF missing_sentinel /\ ParsedNumber(v) = {-2} THEN {None}
  ELSE {h \in ParsedNumber(v) : h \in Within(0, 400)}

OptionalText(v) ==
  IF v \in {Null, Text("blank")} THEN {None}
  ELSE {t \in {v} : t.kind = "text" /\ t.shape \notin {"long", "unprintable"}}

RequiredText(v) == OptionalText(v) \ {None}

IsHostname(t) ==
  \/ t.shape \in {"name", "ipv4"}
  \/ t.shape = "numeral" /\ t.halves >= 0
  \/ t.shape = "mac" /\ t.spelling # "colons"

(* Any printable text taken for a host name.                               *)
HostnameAsSent(v) == OptionalText(v)

OptionalHostname(v) ==
  {IF t # None /\ IsHostname(t) THEN t ELSE None : t \in OptionalText(v)}

NormalizedMinerId(v) ==
  IF v.kind = "text" /\ v.shape = "mac" THEN {v.mac} \cap Stations ELSE {}

ParsedPrivateHost(v) ==
  IF v.kind = "text" /\ v.shape = "ipv4" THEN {v.host} \cap PrivateHosts ELSE {}

RejectionReason(v) ==
  IF v.kind # "object" THEN {}
  ELSE AllOf([message |-> RequiredText(Get(v.fields, "message")),
              count   |-> OptionalInt(Get(v.fields, "count"), Nat) \ {None}])

OptionalRejectionReasons(v) ==
  IF v = Null THEN {None}
  ELSE IF v.kind # "list" THEN {}
  ELSE AllOf([i \in DOMAIN v.items |-> RejectionReason(v.items[i])])

(* _optional_number_tuple and _optional_int_tuple: as they go they reject  *)
(* a value that is there already.                                          *)
Distinct(values) ==
  \A i, j \in DOMAIN values : values[i] = values[j] => i = j

ItemsOf(v) == IF v.kind = "list" THEN v.items ELSE <<>>

(* parsed holds what each item is parsed to.                               *)
OptionsOf(v, parsed) ==
  IF v = Null THEN {None}
  ELSE IF ItemsOf(v) = <<>> THEN {}
  ELSE {values \in AllOf(parsed) : Distinct(values)}

(***************************************************************************)
(* GET /api/system/info.  The schema of a field: the function that parses  *)
(* it, and the numbers allowed (in halves for "number").                   *)
(***************************************************************************)
NumberIn(allowed) == [parser |-> "number", allowed |-> allowed]
WholeIn(allowed) == [parser |-> "int", allowed |-> allowed]
SwitchField == [parser |-> "bool"]
WordsField == [parser |-> "text"]
SensorField(missing_sentinel) ==
  [parser |-> "temperature", missing_sentinel |-> missing_sentinel]

Parsed(schema, v) ==
  CASE schema.parser = "number" -> OptionalNumber(v, schema.allowed)
    [] schema.parser = "int" -> OptionalInt(v, schema.allowed)
    [] schema.parser = "bool" -> OptionalBool(v)
    [] schema.parser = "text" -> OptionalText(v)
    [] schema.parser = "temperature" ->
         OptionalTemperature(v, schema.missing_sentinel)

Amounts ==
  {"hashRate", "power", "hashRate_1m", "hashRate_10m", "hashRate_1h",
   "expectedHashrate", "voltage", "current", "coreVoltageActual", "bestDiff",
   "bestSessionDiff", "poolDifficulty", "responseTime", "networkDifficulty"}
Percentages == {"errorPercentage", "fanspeed"}
Counters ==
  {"fanrpm", "fan2rpm", "sharesAccepted", "sharesRejected", "uptimeSeconds",
   "blockHeight", "blockFound"}

TelemetrySchema ==
  [f \in Amounts \cup Percentages \cup Counters
         \cup {"temp", "temp2", "vrTemp", "actualFrequency", "wifiRSSI"} |->
     CASE f \in Amounts -> NumberIn(Nat)
       [] f \in Percentages -> NumberIn(Within(0, 200))
       [] f \in Counters -> WholeIn(Nat)
       [] f = "temp" -> SensorField(FALSE)
       [] f \in {"temp2", "vrTemp"} -> SensorField(TRUE)
       [] f = "actualFrequency" -> NumberIn(Within(0, 20000))
       [] f = "wifiRSSI" -> WholeIn(Within(-200, 0))]

ConfigurationSchema ==
  [frequency       |-> NumberIn(Within(2, 20000)),
   coreVoltage     |-> WholeIn(Within(1, 10000)),
   overclockEnabled |-> SwitchField,
   autofanspeed    |-> SwitchField,
   temptarget      |-> WholeIn(Within(0, 100)),
   minFanSpeed     |-> WholeIn(Within(0, 100)),
   manualFanSpeed  |-> WholeIn(Within(0, 100))]

HealthSchema ==
  [miningPaused           |-> SwitchField,
   isUsingFallbackStratum |-> SwitchField,
   overheat_mode          |-> WholeIn(Within(0, 255)),
   power_fault            |-> WordsField,
   hardware_fault         |-> WordsField,
   resetReason            |-> WordsField,
   wifiStatus             |-> WordsField]

ParsedFields(schema, fields) ==
  AllOf([f \in DOMAIN schema |-> Parsed(schema[f], Get(fields, f))])

(* version, or axeOSVersion where there is none: the latter is not looked  *)
(* at otherwise.                                                           *)
FirmwareVersion(fields) ==
  UNION {IF t # None THEN {t} ELSE OptionalText(Get(fields, "axeOSVersion")) :
           t \in OptionalText(Get(fields, "version"))}

ParsedIdentity(fields) ==
  AllOf([miner_id         |-> NormalizedMinerId(Get(fields, "macAddr")),
         hostname         |-> OptionalHostname(Get(fields, "hostname")),
         asic_model       |-> RequiredText(Get(fields, "ASICModel")),
         board_version    |-> OptionalText(Get(fields, "boardVersion")),
         firmware_version |-> FirmwareVersion(fields)])

ParsedTelemetry(fields) ==
  AllOf([measured |-> ParsedFields(TelemetrySchema, fields),
         share_rejection_reasons |->
           OptionalRejectionReasons(Get(fields, "sharesRejectedReasons"))])

ParseSystemInfo(payload) ==
  IF payload.kind # "object" THEN {}
  ELSE AllOf([identity      |-> ParsedIdentity(payload.fields),
              telemetry     |-> ParsedTelemetry(payload.fields),
              configuration |-> ParsedFields(ConfigurationSchema, payload.fields),
              health        |-> ParsedFields(HealthSchema, payload.fields)])

(***************************************************************************)
(* GET /api/system/asic.                                                   *)
(***************************************************************************)
FrequencyOption(v) == {h \in ParsedNumber(v) : h \in Within(2, 20000)}
(* A list of voltages that may name 0 for off.                             *)
VoltageOptionFromZero(v) == {n \in Whole(ParsedNumber(v)) : n \in Within(0, 10000)}

VoltageOption(v) == {n \in Whole(ParsedNumber(v)) : n \in Within(1, 10000)}

Offers(options, default) ==
  options = None \/ default = None \/ \E i \in DOMAIN options : options[i] = default

FrequencyOptions(v) ==
  OptionsOf(v, [i \in DOMAIN ItemsOf(v) |-> FrequencyOption(ItemsOf(v)[i])])

VoltageOptions(v) ==
  OptionsOf(v, [i \in DOMAIN ItemsOf(v) |-> VoltageOption(ItemsOf(v)[i])])

AsicFields(fields) ==
  AllOf([asic_model            |-> RequiredText(Get(fields, "ASICModel")),
         device_model          |-> OptionalText(Get(fields, "deviceModel")),
         swarm_color           |-> OptionalText(Get(fields, "swarmColor")),
         asic_count            |-> OptionalInt(Get(fields, "asicCount"), Within(0, 256)),
         frequency_options_mhz |-> FrequencyOptions(Get(fields, "frequencyOptions")),
         voltage_options_mv    |-> VoltageOptions(Get(fields, "voltageOptions")),
         default_frequency_mhz |->
           OptionalNumber(Get(fields, "defaultFrequency"), Within(2, 20000)),
         default_voltage_mv    |->
           OptionalInt(Get(fields, "defaultVoltage"), Within(1, 10000))])

ParseSystemAsic(payload) ==
  IF payload.kind # "object" THEN {}
  ELSE {c \in AsicFields(payload.fields) :
          /\ Offers(c.frequency_options_mhz, c.default_frequency_mhz)
          /\ Offers(c.voltage_options_mv, c.default_voltage_mv)}

SupportsProfile(c, profile) ==
  /\ None \notin {c.frequency_options_mhz, c.voltage_options_mv}
  /\ Offers(c.frequency_options_mhz, profile.frequency_mhz)
  /\ Offers(c.voltage_options_mv, profile.core_voltage_mv)

(***************************************************************************)
(* The recovery profile and its three forms: the domain object, the stored *)
(* record, the body of the PATCH.                                          *)
(***************************************************************************)
ProfileFields ==
  {"frequency_mhz", "core_voltage_mv", "overclock_enabled",
   "automatic_fan_speed", "target_temperature_c", "minimum_fan_speed_percent"}

(* RecoveryProfile's constructor, for a record of the right types.         *)
RecoveryProfile(p) ==
  IF /\ p.frequency_mhz \in Within(2, 20000)
     /\ p.core_voltage_mv \in Within(1, 10000)
     /\ p.target_temperature_c \in Within(0, 100)
     /\ p.minimum_fan_speed_percent \in Within(0, 100)
  THEN {p} ELSE {}

ToRecoveryProfile(c) ==
  LET p == [frequency_mhz             |-> c.frequency,
            core_voltage_mv           |-> c.coreVoltage,
            overclock_enabled         |-> c.overclockEnabled,
            automatic_fan_speed       |-> c.autofanspeed,
            target_temperature_c      |-> c.temptarget,
            minimum_fan_speed_percent |-> c.minFanSpeed]
  IN  IF \E f \in ProfileFields : p[f] = None THEN {None}
      ELSE RecoveryProfile(p)

SerializeProfile(p) ==
  IF p = None THEN Null
  ELSE Object(
    [frequency_mhz             |-> Float(p.frequency_mhz),
     core_voltage_mv           |-> Integer(p.core_voltage_mv),
     overclock_enabled         |-> Bool(p.overclock_enabled),
     automatic_fan_speed       |-> Bool(p.automatic_fan_speed),
     target_temperature_c      |-> Integer(p.target_temperature_c),
     minimum_fan_speed_percent |-> Integer(p.minimum_fan_speed_percent)])

(* The body of PATCH /api/system: switches are sent as 0 and 1.            *)
PatchBody(p) ==
  LET Flag(b) == Integer(IF b THEN 1 ELSE 0)
  IN  [frequency        |-> Float(p.frequency_mhz),
       coreVoltage      |-> Integer(p.core_voltage_mv),
       overclockEnabled |-> Flag(p.overclock_enabled),
       autofanspeed     |-> Flag(p.automatic_fan_speed),
       temptarget       |-> Integer(p.target_temperature_c),
       minFanSpeed      |-> Integer(p.minimum_fan_speed_percent)]

StoredInt(v) == IF v.kind = "int" THEN {v.halves \div 2} ELSE {}
StoredFloat(v) == IF v.kind \in {"int", "float"} THEN {v.halves} ELSE {}
StoredBool(v) == IF v.kind = "bool" THEN {v.bool} ELSE {}

DeserializeProfile(v) ==
  IF v = Null THEN {None}
  ELSE IF v.kind # "object" THEN {}
  ELSE UNION {RecoveryProfile(p) : p \in AllOf(
         [f \in ProfileFields |->
            CASE f = "frequency_mhz" -> StoredFloat(Get(v.fields, f))
              [] f \in {"overclock_enabled", "automatic_fan_speed"} ->
                   StoredBool(Get(v.fields, f))
              [] OTHER -> StoredInt(Get(v.fields, f))])}

(***************************************************************************)
(* The recovery policy.                                                    *)
(***************************************************************************)
PolicyBounds ==
  [startup_grace_seconds          |-> Within(0, 3600),
   consecutive_unhealthy_required |-> Within(1, 20),
   cooldown_seconds               |-> Within(0, 86400),
   max_attempts                   |-> Within(1, 20),
   rolling_window_seconds         |-> Within(60, 604800),
   post_restart_timeout_seconds   |-> Within(30, 3600),
   verification_timeout_seconds   |-> Within(10, 3600)]

PolicySwitches ==
  {"automatic_recovery_enabled", "automatic_profile_restore_enabled"}
PolicyKeys == DOMAIN PolicyBounds \cup PolicySwitches \cup {"overheat_policy"}

OverheatPolicy ==
  {Text("keep_safe_values"), Text("restore_after_cooldown"), Text("log_only")}

RecoveryPolicy(p) ==
  IF \A f \in DOMAIN PolicyBounds : p[f] \in PolicyBounds[f] THEN {p} ELSE {}

DefaultPolicy ==
  [automatic_recovery_enabled        |-> FALSE,
   automatic_profile_restore_enabled |-> FALSE,
   startup_grace_seconds             |-> 180,
   consecutive_unhealthy_required    |-> 3,
   cooldown_seconds                  |-> 600,
   max_attempts                      |-> 3,
   rolling_window_seconds            |-> 3600,
   post_restart_timeout_seconds      |-> 180,
   verification_timeout_seconds      |-> 60,
   overheat_policy                   |-> Text("keep_safe_values")]

(* What _required_bool, _required_int and OverheatPolicy read of a message *)
(* and _stored_bool, _stored_int and OverheatPolicy of a record.           *)
PolicyFields(fields) ==
  AllOf([f \in PolicyKeys |->
    LET v == Get(fields, f)
    IN  CASE f \in PolicySwitches -> StoredBool(v)
          [] f = "overheat_policy" -> {v} \cap OverheatPolicy
          [] OTHER -> StoredInt(v)])

PolicyFromMessage(v) ==
  IF v.kind # "object" \/ DOMAIN v.fields # PolicyKeys THEN {}
  ELSE UNION {RecoveryPolicy(p) : p \in PolicyFields(v.fields)}

SerializePolicy(p) ==
  Object([f \in PolicyKeys |->
            CASE f \in PolicySwitches -> Bool(p[f])
              [] f = "overheat_policy" -> p[f]
              [] OTHER -> Integer(p[f])])

(* What the panel is shown of a policy, and sends back changed.            *)
PolicyDto(p) == SerializePolicy(p)

DeserializePolicy(v) ==
  IF v = Null THEN {DefaultPolicy}
  ELSE IF v.kind # "object" THEN {}
  ELSE UNION {RecoveryPolicy(p) : p \in PolicyFields(v.fields)}

(***************************************************************************)
(* The stored record of an enrolled miner.                                 *)
(***************************************************************************)
OptionalJson(t) == IF t = None THEN Null ELSE t

SerializeMiner(m) ==
  Object([miner_id         |-> Mac(m.identity.miner_id, "colons"),
          hostname         |-> OptionalJson(m.identity.hostname),
          asic_model       |-> OptionalJson(m.identity.asic_model),
          board_version    |-> OptionalJson(m.identity.board_version),
          firmware_version |-> OptionalJson(m.identity.firmware_version),
          host             |-> Address(m.host),
          display_name     |-> OptionalJson(m.display_name),
          enabled          |-> Bool(m.enabled),
          recovery_policy  |-> SerializePolicy(m.recovery_policy),
          recovery_profile |-> SerializeProfile(m.recovery_profile)])

(* _stored_optional_text: a blank or unfit text raises, a missing one is   *)
(* None.                                                                   *)
StoredOptionalText(v) ==
  IF v = Null THEN {None} ELSE OptionalText(v) \ {None}

StoredHostname(v) ==
  {t \in StoredOptionalText(v) : t = None \/ IsHostname(t)}

StoredIdentity(fields) ==
  AllOf([miner_id         |-> NormalizedMinerId(Get(fields, "miner_id")),
         hostname         |-> StoredHostname(Get(fields, "hostname")),
         asic_model       |-> StoredOptionalText(Get(fields, "asic_model")),
         board_version    |-> StoredOptionalText(Get(fields, "board_version")),
         firmware_version |->
           StoredOptionalText(Get(fields, "firmware_version"))])

(* enabled is TRUE where a record does not say; a v1 record has only the   *)
(* endpoint and the identity.                                              *)
DeserializeMiner(v, legacy) ==
  IF v.kind # "object" THEN {}
  ELSE AllOf(
    [identity |-> StoredIdentity(v.fields),
     host     |-> ParsedPrivateHost(Get(v.fields, "host")),
     display_name |->
       IF legacy THEN {None}
       ELSE StoredOptionalText(Get(v.fields, "display_name")),
     enabled |->
       IF legacy \/ "enabled" \notin DOMAIN v.fields THEN {TRUE}
       ELSE StoredBool(v.fields["enabled"]),
     recovery_profile |->
       IF legacy THEN {None}
       ELSE DeserializeProfile(Get(v.fields, "recovery_profile")),
     recovery_policy |->
       IF legacy THEN {DefaultPolicy}
       ELSE DeserializePolicy(Get(v.fields, "recovery_policy"))])
=============================================================================
