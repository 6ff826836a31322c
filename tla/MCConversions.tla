---------------------------- MODULE MCConversions ----------------------------
(***************************************************************************)
(* Inputs for Conversions: usual ones with one or two fields replaced by   *)
(* values at, beside and far from every bound, in every spelling.          *)
(***************************************************************************)
EXTENDS Conversions

CONSTANTS station, multicast, host

(* In halves: around -200, -1, 0, 1, 100, 200, 255, 256 and 10000.         *)
Edges ==
  {-402, -400, -3, -2, -1, 0, 1, 2, 3, 60, 200, 201, 202, 400, 401, 510, 512,
   20000, 20001, 20002}

Spelt(h) ==
  {Float(h), Numeral(h, TRUE)}
    \cup (IF h % 2 = 0 THEN {Integer(h \div 2), Numeral(h, FALSE)} ELSE {})

Reason(count) == Object([message |-> Text("phrase"), count |-> count])

Odd ==
  {Null, Bool(TRUE), Bool(FALSE), NonFinite, Object([message |-> Text("name")]),
   Address(host), Mac(station, "colons"), Mac(station, "plain"),
   Mac(multicast, "plain"), List(<<>>), List(<<Reason(Integer(0)), Reason(Float(6))>>),
   List(<<Reason(Bool(TRUE))>>), List(<<Integer(1)>>)}
    \cup {Text(shape) : shape \in {"blank", "name", "phrase", "long", "unprintable"}}

Values == Odd \cup UNION {Spelt(h) : h \in Edges}

UsualSettings ==
  [frequency |-> Float(1051), coreVoltage |-> Integer(1150),
   overclockEnabled |-> Integer(0), autofanspeed |-> Numeral(2, FALSE),
   temptarget |-> Numeral(120, FALSE), minFanSpeed |-> Integer(25)]

UsualInfo ==
  [f \in DOMAIN UsualSettings \cup
         {"macAddr", "ASICModel", "hostname", "hashRate", "temp"} |->
     IF f \in DOMAIN UsualSettings THEN UsualSettings[f]
     ELSE CASE f = "macAddr" -> Mac(station, "colons")
            [] f = "hashRate" -> Float(2401)
            [] f = "temp" -> Integer(55)
            [] OTHER -> Text("name")]

InfoFields ==
  DOMAIN TelemetrySchema \cup DOMAIN ConfigurationSchema
    \cup DOMAIN HealthSchema
    \cup {"macAddr", "ASICModel", "hostname", "boardVersion", "version",
          "axeOSVersion", "sharesRejectedReasons"}

With(fields, f, v) ==
  [g \in DOMAIN fields \cup {f} |-> IF g = f THEN v ELSE fields[g]]

OneChanged ==
  {[fields |-> With(UsualInfo, f, v), changed |-> {f}] :
     f \in InfoFields, v \in Values}

FewValues ==
  {Null, Bool(TRUE), Integer(0), Float(0), Numeral(1, TRUE), Integer(1),
   Numeral(200, FALSE), Float(202), Integer(10000)}

Pairs == {<<"frequency", "coreVoltage">>, <<"overclockEnabled", "autofanspeed">>,
          <<"temptarget", "minFanSpeed">>, <<"frequency", "overclockEnabled">>,
          <<"version", "axeOSVersion">>}

TwoChanged ==
  {[fields |-> With(With(UsualInfo, p[1], v), p[2], w), changed |-> {p[1], p[2]}] :
     p \in Pairs, v \in FewValues, w \in FewValues \cup {Text("name")}}

MCSystemInfos == OneChanged \cup TwoChanged

OptionValues ==
  {Integer(525), Float(1050), Numeral(1050, TRUE), Float(1051), Integer(0),
   Integer(10000), Bool(TRUE), Text("name")}

OptionLists ==
  {Null, Text("name"), List(<<>>)}
    \cup {List(<<v>>) : v \in OptionValues}
    \cup {List(<<v, w>>) : v \in OptionValues, w \in OptionValues}

Defaults == {Null, Integer(525), Float(1051), Integer(10001)}

UsualAsic == [ASICModel |-> Text("name"), frequencyOptions |-> List(<<Integer(525)>>),
              voltageOptions |-> List(<<Integer(1150), Integer(1200)>>)]

MCSystemAsics ==
  {With(With(UsualAsic, o[1], options), o[2], default) :
     o \in {<<"frequencyOptions", "defaultFrequency">>,
            <<"voltageOptions", "defaultVoltage">>},
     options \in OptionLists, default \in Defaults}
  \cup {With(UsualAsic, f, v) :
          f \in {"ASICModel", "deviceModel", "asicCount"}, v \in Values}

UsualPolicy == SerializePolicy(DefaultPolicy)

PolicyEdges(f) ==
  IF f \in DOMAIN PolicyBounds
  THEN LET low == CHOOSE n \in {0, 1, 10, 30, 60} :
                    n \in PolicyBounds[f] /\ n - 1 \notin PolicyBounds[f]
       IN  {Integer(low - 1), Integer(low), Float(2 * low), Numeral(2 * low, FALSE)}
             \cup {Integer(n) : n \in {20, 21, 3600, 3601, 86400, 86401, 604800, 604801}}
  ELSE {}

MCMessages ==
  {Null, Text("name"), Object(With(UsualPolicy.fields, "unknown", Integer(1)))}
    \cup {Object([g \in PolicyKeys \ {f} |-> UsualPolicy.fields[g]]) : f \in PolicyKeys}
    \cup UNION {{Object(With(UsualPolicy.fields, f, v)) :
                   v \in Odd \cup OverheatPolicy \cup PolicyEdges(f)} : f \in PolicyKeys}

Reading(hashrate, power, mode, paused) ==
  [hashrate |-> hashrate, power |-> power, uptime |-> hashrate, best |-> power,
   overheat_mode |-> mode, mining_paused |-> paused, fault |-> power = 0]

Readings ==
  {Reading(hashrate, power, mode, paused) :
     hashrate \in {None, 0, 2}, power \in {None, 0, 3}, mode \in {None, 0, 1},
     paused \in {None, FALSE, TRUE}}

MCFleets ==
  UNION {{<<>>}, {<<x>> : x \in Readings}, {<<x, y>> : x \in Readings, y \in Readings}}

(* Up to 17 states for 2 to 7 points, with one outage at most.             *)
MCHistories ==
  {[states |-> [i \in 1..n |-> [last_updated |-> i, finite |-> i # outage,
                                number |-> i]],
    most |-> most] : n \in 0..17, outage \in 0..17, most \in 2..7}

Texts(characters, length) == UNION {[1..n -> characters] : n \in 0..length}

SplitAt(bytes, k) == <<SubSeq(bytes, 1, k), SubSeq(bytes, k + 1, Len(bytes))>>

Splits(bytes) ==
  {SelectSeq(SplitAt(bytes, k), LAMBDA chunk : chunk # <<>>) : k \in 0..Len(bytes)}

MCLogResponses ==
  UNION {{[text |-> text, chunks |-> chunks, announced |-> announced] :
            chunks \in Splits(Encode(text)), announced \in BOOLEAN} :
           text \in Texts({"a", "wide", "newline"}, 5) \cup Texts({"a", "nul"}, 3)}

MCNetworks ==
  {[prefixlen |-> prefixlen, num_addresses |-> 2 ^ (32 - prefixlen), private |-> private] :
     prefixlen \in 20..32, private \in BOOLEAN}
=============================================================================
