--------------------------- MODULE ConversionsProofs ---------------------------
(***************************************************************************)
(* Theorems about Conversions: for every JSON value, every list of options *)
(* and every length of a history, not only for those of a run.             *)
(***************************************************************************)
EXTENDS Conversions, SequenceTheorems, FiniteSetTheorems, TLAPS

(* The result is that of the call. *)
Answered ==
  /\ call.to = "parse_system_info" =>
       call.body \in SystemInfos /\ result = ParseSystemInfo(Object(call.body.fields))
  /\ call.to = "parse_system_asic" =>
       call.fields \in SystemAsics /\ result = ParseSystemAsic(Object(call.fields))
  /\ call.to = "policy_from_message" =>
       call.message \in Messages /\ result = PolicyFromMessage(call.message)
  /\ call.to = "series_from_states" =>
       /\ call.history \in Histories
       /\ result = {SeriesFromStates(call.history.states, call.history.most)}
  /\ call.to = "parse_private_network" =>
       call.network \in Networks /\ result = ParsePrivateNetwork(call.network)

LEMMA AnsweredAlways == Spec => []Answered
<1>1. Init => Answered
  BY DEF Init, Idle, Answered
<1>2. Answered /\ [Next]_vars => Answered'
  <2> SUFFICES ASSUME Answered, [Next]_vars PROVE Answered'
    OBVIOUS
  <2>1. CASE ReadSystemInfo
    BY <2>1 DEF ReadSystemInfo, Answered
  <2>2. CASE ReadSystemAsic
    BY <2>2 DEF ReadSystemAsic, Answered
  <2>3. CASE ReceivePolicy
    BY <2>3 DEF ReceivePolicy, Answered
  <2>4. CASE AddUp
    BY <2>4 DEF AddUp, Answered
  <2>5. CASE ThinHistory
    BY <2>5 DEF ThinHistory, Answered
  <2>6. CASE ReadLogs
    BY <2>6 DEF ReadLogs, Answered
  <2>7. CASE PlanScan
    BY <2>7 DEF PlanScan, Answered
  <2>8. CASE Finish
    BY <2>8 DEF Finish, Idle, Answered
  <2>9. CASE UNCHANGED vars
    BY <2>9 DEF vars, Answered
  <2> QED
    BY <2>1, <2>2, <2>3, <2>4, <2>5, <2>6, <2>7, <2>8, <2>9 DEF Next
<1> QED
  BY <1>1, <1>2, PTL DEF Spec

-----------------------------------------------------------------------------
(* What AllOf returns has every field, parsed from its own.                *)
LEMMA AllOfFields ==
  ASSUME NEW parsed, NEW c \in AllOf(parsed)
  PROVE  /\ c = [k \in DOMAIN parsed |-> c[k]]
         /\ DOMAIN c = DOMAIN parsed
         /\ \A k \in DOMAIN parsed : c[k] \in parsed[k]
<1>1. \A k \in DOMAIN parsed : parsed[k] # {}
  BY DEF AllOf
<1>2. c = [k \in DOMAIN parsed |-> CHOOSE v \in parsed[k] : TRUE]
  BY <1>1 DEF AllOf
<1> QED
  BY <1>1, <1>2

-----------------------------------------------------------------------------
(* Capabilities.                                                           *)

(* The items of a JSON value are a sequence. *)
LEMMA ItemsAreList ==
  ASSUME NEW fields, Json(fields), NEW key
  PROVE  IsList(ItemsOf(Get(fields, key)))
<1> DEFINE v == Get(fields, key)
<1>1. IsList(<<>>)
  BY DEF IsList
<1>2. v = Null \/ IsJson(v)
  BY DEF Get, Json
<1>3. ASSUME v.kind = "list" PROVE IsList(v.items)
  BY <1>2, <1>3 DEF IsJson, Null, NonFinite, Bool, Integer, Float, Numeral, Mac, Address,
     Text, List, Object
<1> QED
  BY <1>1, <1>3 DEF ItemsOf

(* The options of a list: at least one, none twice, each from its item.    *)
LEMMA OptionsListed ==
  ASSUME NEW v, IsList(ItemsOf(v)), NEW parsed, DOMAIN parsed = DOMAIN ItemsOf(v),
         NEW options \in OptionsOf(v, parsed), options # None
  PROVE  /\ \A i \in DOMAIN options : options[i] \in parsed[i]
         /\ DOMAIN options = DOMAIN parsed
         /\ Len(options) >= 1
         /\ Cardinality(ToSet(options)) = Len(options)
<1> DEFINE items == ItemsOf(v)
           n == Len(items)
<1>1. /\ n \in Nat /\ DOMAIN items = 1..n /\ items # <<>>
      /\ options \in AllOf(parsed) /\ Distinct(options)
  BY DEF IsList, OptionsOf
<1>2. DOMAIN options = 1..n /\ options = [i \in 1..n |-> options[i]]
  BY <1>1, AllOfFields
<1>3. \A i \in DOMAIN options : options[i] \in parsed[i]
  BY <1>1, AllOfFields
<1>4. options \in Seq(ToSet(options)) /\ Len(options) = n
  BY <1>1, <1>2 DEF ToSet
<1>5. n >= 1
  <2> SUFFICES ASSUME n = 0 PROVE FALSE
    BY <1>1
  <2>1. items \in Seq({})
    BY <1>1 DEF IsList
  <2> QED
    BY <1>1, <2>1
<1>6. ExistsBijection(1..n, ToSet(options))
  <2>1. options \in [1..n -> ToSet(options)]
    BY <1>2 DEF ToSet
  <2>2. \A i, j \in 1..n : options[i] = options[j] => i = j
    BY <1>1, <1>2 DEF Distinct
  <2>3. \A x \in ToSet(options) : \E i \in 1..n : options[i] = x
    BY <1>2 DEF ToSet
  <2> QED
    BY <2>1, <2>2, <2>3 DEF ExistsBijection, Bijection, Injection, Surjection, IsInjective
<1>7. Cardinality(ToSet(options)) = n
  BY <1>1, <1>6, FS_CountingElements
<1> QED
  BY <1>1, <1>2, <1>3, <1>4, <1>5, <1>7

(* What an accepted body of capabilities is made of. *)
LEMMA CapabilitiesParsed ==
  ASSUME NEW fields \in SystemAsics, NEW c \in ParseSystemAsic(Object(fields))
  PROVE  /\ c.frequency_options_mhz \in FrequencyOptions(Get(fields, "frequencyOptions"))
         /\ c.voltage_options_mv \in VoltageOptions(Get(fields, "voltageOptions"))
         /\ c.default_frequency_mhz # None => c.default_frequency_mhz \in Within(2, 20000)
         /\ c.default_voltage_mv # None => c.default_voltage_mv \in Within(1, 10000)
         /\ Offers(c.frequency_options_mhz, c.default_frequency_mhz)
         /\ Offers(c.voltage_options_mv, c.default_voltage_mv)
<1> DEFINE parsed ==
      [asic_model            |-> RequiredText(Get(fields, "ASICModel")),
       device_model          |-> OptionalText(Get(fields, "deviceModel")),
       swarm_color           |-> OptionalText(Get(fields, "swarmColor")),
       asic_count            |-> OptionalInt(Get(fields, "asicCount"), Within(0, 256)),
       frequency_options_mhz |-> FrequencyOptions(Get(fields, "frequencyOptions")),
       voltage_options_mv    |-> VoltageOptions(Get(fields, "voltageOptions")),
       default_frequency_mhz |->
         OptionalNumber(Get(fields, "defaultFrequency"), Within(2, 20000)),
       default_voltage_mv    |->
         OptionalInt(Get(fields, "defaultVoltage"), Within(1, 10000))]
<1>1. c \in AllOf(parsed)
  BY DEF ParseSystemAsic, Object, AsicFields
<1>2. /\ c.frequency_options_mhz \in FrequencyOptions(Get(fields, "frequencyOptions"))
      /\ c.voltage_options_mv \in VoltageOptions(Get(fields, "voltageOptions"))
      /\ c.default_frequency_mhz \in
           OptionalNumber(Get(fields, "defaultFrequency"), Within(2, 20000))
      /\ c.default_voltage_mv \in OptionalInt(Get(fields, "defaultVoltage"), Within(1, 10000))
  <2>1. {"frequency_options_mhz", "voltage_options_mv", "default_frequency_mhz",
         "default_voltage_mv"} \subseteq DOMAIN parsed
    OBVIOUS
  <2>2. \A k \in DOMAIN parsed : c[k] \in parsed[k]
    <3> HIDE DEF parsed
    <3> QED
      BY <1>1, AllOfFields
  <2> QED
    BY <2>1, <2>2
<1>3. /\ Offers(c.frequency_options_mhz, c.default_frequency_mhz)
      /\ Offers(c.voltage_options_mv, c.default_voltage_mv)
  BY DEF ParseSystemAsic, Object
<1>4. c.default_frequency_mhz # None => c.default_frequency_mhz \in Within(2, 20000)
  BY <1>2 DEF OptionalNumber
<1>5. c.default_voltage_mv # None => c.default_voltage_mv \in Within(1, 10000)
  BY <1>2 DEF OptionalInt
<1> QED
  BY <1>2, <1>3, <1>4, <1>5

(* The frequencies a device offers. *)
LEMMA FrequenciesParsed ==
  ASSUME NEW fields, Json(fields), NEW key,
         NEW options \in FrequencyOptions(Get(fields, key)), options # None
  PROVE  /\ Len(options) >= 1 /\ Cardinality(ToSet(options)) = Len(options)
         /\ \A i \in DOMAIN options : options[i] \in Within(2, 20000)
<1> DEFINE v == Get(fields, key)
           items == ItemsOf(v)
           parsed == [i \in DOMAIN items |-> FrequencyOption(items[i])]
<1>1. IsList(items) /\ options \in OptionsOf(v, parsed) /\ DOMAIN parsed = DOMAIN items
  BY ItemsAreList DEF FrequencyOptions
<1>2. \A i \in DOMAIN parsed : parsed[i] \subseteq Within(2, 20000)
  BY DEF FrequencyOption
<1> HIDE DEF parsed, items, v
<1>3. /\ \A i \in DOMAIN options : options[i] \in parsed[i]
      /\ DOMAIN options = DOMAIN parsed
      /\ Len(options) >= 1 /\ Cardinality(ToSet(options)) = Len(options)
  BY <1>1, OptionsListed DEF items
<1> QED
  BY <1>2, <1>3

(* The voltages it offers. *)
LEMMA VoltagesParsed ==
  ASSUME NEW fields, Json(fields), NEW key,
         NEW options \in VoltageOptions(Get(fields, key)), options # None
  PROVE  /\ Len(options) >= 1 /\ Cardinality(ToSet(options)) = Len(options)
         /\ \A i \in DOMAIN options : options[i] \in Within(1, 10000)
<1> DEFINE v == Get(fields, key)
           items == ItemsOf(v)
           parsed == [i \in DOMAIN items |-> VoltageOption(items[i])]
<1>1. IsList(items) /\ options \in OptionsOf(v, parsed) /\ DOMAIN parsed = DOMAIN items
  BY ItemsAreList DEF VoltageOptions
<1>2. \A i \in DOMAIN parsed : parsed[i] \subseteq Within(1, 10000)
  BY DEF VoltageOption
<1> HIDE DEF parsed, items, v
<1>3. /\ \A i \in DOMAIN options : options[i] \in parsed[i]
      /\ DOMAIN options = DOMAIN parsed
      /\ Len(options) >= 1 /\ Cardinality(ToSet(options)) = Len(options)
  BY <1>1, OptionsListed DEF items
<1> QED
  BY <1>2, <1>3

(* A pair within the bounds that the lists offer makes a profile.          *)
LEMMA OfferedIsUsable ==
  ASSUME NEW c, NEW f \in Within(2, 20000), NEW v \in Within(1, 10000),
         None \notin {c.frequency_options_mhz, c.voltage_options_mv},
         Offers(c.frequency_options_mhz, f), Offers(c.voltage_options_mv, v)
  PROVE  LET p == WithOptions(f, v)
         IN  RecoveryProfile(p) = {p} /\ SupportsProfile(c, p)
<1> DEFINE p == WithOptions(f, v)
<1>1. /\ p.frequency_mhz = f /\ p.core_voltage_mv = v
      /\ p.target_temperature_c \in Within(0, 100)
      /\ p.minimum_fan_speed_percent \in Within(0, 100)
  BY DEF WithOptions, Within
<1> HIDE DEF p
<1>2. RecoveryProfile(p) = {p}
  BY <1>1 DEF RecoveryProfile
<1>3. SupportsProfile(c, p)
  BY <1>1 DEF SupportsProfile
<1> QED
  BY <1>2, <1>3 DEF p

(* Whatever the two lists and the defaults of a response are, what is      *)
(* accepted of it can be used (axeos/parser.py:339, axeos/models.py).      *)
THEOREM OptionsUsable == Spec => []CapabilitiesUsable
<1>1. Answered => CapabilitiesUsable
  <2> SUFFICES ASSUME Answered, call.to = "parse_system_asic", NEW c \in result
               PROVE  LET frequencies == c.frequency_options_mhz
                          voltages == c.voltage_options_mv
                          Usable(p) == RecoveryProfile(p) = {p} /\ SupportsProfile(c, p)
                      IN  /\ \A options \in {frequencies, voltages} \ {None} :
                               Len(options) >= 1
                                 /\ Cardinality(ToSet(options)) = Len(options)
                          /\ None \notin {frequencies, voltages} =>
                               /\ \A i \in DOMAIN frequencies : \A j \in DOMAIN voltages :
                                    Usable(WithOptions(frequencies[i], voltages[j]))
                               /\ None \notin {c.default_frequency_mhz, c.default_voltage_mv} =>
                                    Usable(WithOptions(c.default_frequency_mhz,
                                                       c.default_voltage_mv))
    BY DEF CapabilitiesUsable
  <2> DEFINE frequencies == c.frequency_options_mhz
             voltages == c.voltage_options_mv
             Usable(p) == RecoveryProfile(p) = {p} /\ SupportsProfile(c, p)
  <2>1. call.fields \in SystemAsics /\ c \in ParseSystemAsic(Object(call.fields))
    BY DEF Answered
  <2>2. /\ frequencies # None =>
             /\ Len(frequencies) >= 1 /\ Cardinality(ToSet(frequencies)) = Len(frequencies)
             /\ \A i \in DOMAIN frequencies : frequencies[i] \in Within(2, 20000)
        /\ voltages # None =>
             /\ Len(voltages) >= 1 /\ Cardinality(ToSet(voltages)) = Len(voltages)
             /\ \A i \in DOMAIN voltages : voltages[i] \in Within(1, 10000)
    <3>1. Json(call.fields)
      BY <2>1, ConversionsAssumption
    <3>2. /\ frequencies \in FrequencyOptions(Get(call.fields, "frequencyOptions"))
          /\ voltages \in VoltageOptions(Get(call.fields, "voltageOptions"))
      BY <2>1, CapabilitiesParsed
    <3> HIDE DEF frequencies, voltages
    <3> QED
      BY <3>1, <3>2, FrequenciesParsed, VoltagesParsed
  <2>3. ASSUME None \notin {frequencies, voltages},
               NEW i \in DOMAIN frequencies, NEW j \in DOMAIN voltages
        PROVE  Usable(WithOptions(frequencies[i], voltages[j]))
    <3>1. Offers(frequencies, frequencies[i]) /\ Offers(voltages, voltages[j])
      BY DEF Offers
    <3> QED
      BY <2>2, <2>3, <3>1, OfferedIsUsable
  <2>4. ASSUME None \notin {frequencies, voltages},
               None \notin {c.default_frequency_mhz, c.default_voltage_mv}
        PROVE  Usable(WithOptions(c.default_frequency_mhz, c.default_voltage_mv))
    BY <2>1, <2>4, CapabilitiesParsed, OfferedIsUsable
  <2>5. \A options \in {frequencies, voltages} \ {None} :
          Len(options) >= 1 /\ Cardinality(ToSet(options)) = Len(options)
    BY <2>2
  <2>6. None \notin {frequencies, voltages} =>
          /\ \A i \in DOMAIN frequencies : \A j \in DOMAIN voltages :
               Usable(WithOptions(frequencies[i], voltages[j]))
          /\ None \notin {c.default_frequency_mhz, c.default_voltage_mv} =>
               Usable(WithOptions(c.default_frequency_mhz, c.default_voltage_mv))
    BY <2>3, <2>4
  <2> HIDE DEF Usable
  <2> QED
    BY <2>5, <2>6 DEF Usable
<1> QED
  BY <1>1, AnsweredAlways, PTL


-----------------------------------------------------------------------------
(* Histories.                                                              *)

(* A quotient is a whole number at most a half away from the fraction.     *)
LEMMA Rounding ==
  ASSUME NEW a \in Nat, NEW b \in Nat \ {0}
  PROVE  /\ RoundedQuotient(a, b) \in Nat
         /\ 2 * (RoundedQuotient(a, b) * b) <= 2 * a + b
         /\ 2 * a <= 2 * (RoundedQuotient(a, b) * b) + b
<1> DEFINE q == a \div b
           r == a % b
<1>1. q \in Nat /\ r \in 0..(b - 1) /\ a = q * b + r
  OBVIOUS
<1>2. (q + 1) * b = q * b + b
  BY <1>1
<1>3. RoundedQuotient(a, b) = IF 2 * r < b \/ (2 * r = b /\ q % 2 = 0) THEN q ELSE q + 1
  BY DEF RoundedQuotient
<1>4. q * b \in Int
  BY <1>1
<1> HIDE DEF q, r
<1>5. CASE RoundedQuotient(a, b) = q
  BY <1>1, <1>3, <1>4, <1>5
<1>6. CASE RoundedQuotient(a, b) = q + 1
  BY <1>1, <1>2, <1>3, <1>4, <1>6
<1> QED
  BY <1>3, <1>5, <1>6

(* Of a fraction that is whole it is that. *)
LEMMA RoundingWhole ==
  ASSUME NEW k \in Nat, NEW b \in Nat \ {0}
  PROVE  RoundedQuotient(k * b, b) = k
<1> DEFINE r == RoundedQuotient(k * b, b)
<1>1. k * b \in Nat
  OBVIOUS
<1>2. r \in Nat /\ 2 * (r * b) <= 2 * (k * b) + b /\ 2 * (k * b) <= 2 * (r * b) + b
  BY <1>1, Rounding
<1> HIDE DEF r
<1>3. (r - k) * b = r * b - k * b
  BY <1>2
<1>4. r - k >= 1 => (r - k) * b >= b
  BY <1>2
<1>5. k - r >= 1 => (r - k) * b <= 0 - b
  <2>1. k - r >= 1 => (k - r) * b >= b
    BY <1>2
  <2>2. (k - r) * b = 0 - (r - k) * b
    BY <1>2
  <2> QED
    BY <2>1, <2>2, <1>2
<1>6. r * b \in Int /\ k * b \in Int /\ (r - k) * b \in Int
  BY <1>2
<1>7. ~(r - k >= 1) /\ ~(k - r >= 1)
  BY <1>1, <1>2, <1>3, <1>4, <1>5, <1>6
<1> QED
  BY <1>2, <1>7 DEF r

(* Indices a fraction larger than one apart go forward, and leave out less *)
(* than that fraction: it would be that much if both were rounded from a   *)
(* half, but then the fraction is whole and so are they.                   *)
LEMMA Stride ==
  ASSUME NEW c \in Nat, NEW b \in Nat \ {0}, c >= b + 1, NEW i \in Nat
  PROVE  LET r == RoundedQuotient(i * c, b)
             s == RoundedQuotient((i + 1) * c, b)
         IN  r < s /\ (s - r - 1) * b < c
<1> DEFINE x == i * c
           r == RoundedQuotient(i * c, b)
           s == RoundedQuotient((i + 1) * c, b)
           k == s - r - 1
<1>1. x \in Nat /\ (i + 1) * c = x + c /\ (i + 1) * c \in Nat
  OBVIOUS
<1>2. /\ r \in Nat /\ 2 * (r * b) <= 2 * x + b /\ 2 * x <= 2 * (r * b) + b
      /\ s \in Nat /\ 2 * (s * b) <= 2 * (x + c) + b /\ 2 * (x + c) <= 2 * (s * b) + b
  BY <1>1, Rounding
<1> HIDE DEF r, s
<1>3. /\ r * b \in Int /\ s * b \in Int /\ k \in Int /\ k * b \in Int
      /\ (s - r) * b = s * b - r * b
      /\ k * b = s * b - r * b - b
  BY <1>2
<1>4. r < s
  <2>1. (s - r) * b >= 1
    <3> HIDE DEF x
    <3> QED
      BY <1>1, <1>2, <1>3
  <2>2. s - r <= 0 => (s - r) * b <= 0
    BY <1>2
  <2> QED
    BY <1>2, <2>1, <2>2
<1>5. k * b <= c
  <2> HIDE DEF x, k
  <2> QED
    BY <1>1, <1>2, <1>3
<1>6. ASSUME k * b = c PROVE FALSE
  <2>1. 2 * (s * b) = 2 * x + 2 * c + b
    <3> HIDE DEF x, k
    <3> QED
      BY <1>1, <1>2, <1>3, <1>6
  <2>2. k \in Nat /\ i * k \in Nat
    BY <1>2, <1>4
  <2>3. x = (i * k) * b
    BY <1>6, <2>2
  <2> DEFINE j == i * k
             d == 2 * s - 2 * j - 2 * k - 1
  <2> HIDE DEF j, k, x
  <2>4. d * b = 2 * (s * b) - 2 * (j * b) - 2 * (k * b) - b
    BY <1>2, <2>2 DEF j
  <2>5. d * b = 0
    BY <1>6, <2>1, <2>3, <2>4, <1>1, <1>3 DEF j
  <2>6. d = 0
    <3> HIDE DEF d
    <3>1. d \in Int
      BY <1>2, <2>2 DEF d, j
    <3> QED
      BY <2>5, <3>1
  <2> QED
    BY <1>2, <2>2, <2>6 DEF j
<1> QED
  BY <1>3, <1>4, <1>5, <1>6 DEF r, s

(* An index is one of the series. *)
LEMMA IndexInRange ==
  ASSUME NEW c \in Nat, NEW b \in Nat \ {0}, NEW i \in 0..b
  PROVE  RoundedQuotient(i * c, b) \in 0..c
<1> DEFINE r == RoundedQuotient(i * c, b)
<1>1. i * c \in Nat /\ i * c <= c * b /\ c * b \in Nat
  OBVIOUS
<1>2. r \in Nat /\ 2 * (r * b) <= 2 * (i * c) + b
  BY <1>1, Rounding
<1> HIDE DEF r
<1>3. r >= c + 1 => r * b >= c * b + b
  BY <1>2
<1>4. r * b \in Nat
  BY <1>2
<1>5. ~(r >= c + 1)
  BY <1>1, <1>2, <1>3, <1>4
<1> QED
  BY <1>2, <1>5 DEF r

(* The length of a function on 1..n. *)
LEMMA LengthOf ==
  ASSUME NEW n \in Nat, NEW f, DOMAIN f = 1..n, f = [i \in 1..n |-> f[i]]
  PROVE  Len(f) = n
<1>1. f \in Seq(ToSet(f))
  BY DEF ToSet
<1> QED
  BY <1>1

LEMMA LargerOfTwo ==
  ASSUME NEW x \in Int, NEW y \in Int
  PROVE  Max({x, y}) = IF x >= y THEN x ELSE y
BY DEF Max

(* The state a point shows. *)
Shown(n, most, i) ==
  IF n <= most THEN i ELSE 1 + RoundedQuotient((i - 1) * (n - 1), most - 1)

LEMMA ShownStates ==
  ASSUME NEW n \in Nat, NEW most \in Nat \ {0, 1}
  PROVE  LET size == IF n <= most THEN n ELSE most
         IN  /\ \A i \in 1..size : Shown(n, most, i) \in 1..n
             /\ n > 0 => Shown(n, most, 1) = 1 /\ Shown(n, most, size) = n
             /\ \A i \in 1..(size - 1) :
                  /\ Shown(n, most, i) < Shown(n, most, i + 1)
                  /\ (Shown(n, most, i + 1) - Shown(n, most, i) - 1) * (most - 1)
                       < Max({n - 1, most})
<1>1. CASE n <= most
  <2>1. \A i \in Nat : Shown(n, most, i) = i
    BY <1>1 DEF Shown
  <2>2. Max({n - 1, most}) > 0
    BY LargerOfTwo
  <2>3. \A i \in Nat : (Shown(n, most, i + 1) - Shown(n, most, i) - 1) * (most - 1) = 0
    BY <2>1
  <2> QED
    BY <1>1, <2>1, <2>2, <2>3
<1>2. CASE n > most
  <2> DEFINE c == n - 1
             b == most - 1
             r(i) == RoundedQuotient(i * c, b)
  <2>1. c \in Nat /\ b \in Nat \ {0} /\ c >= b + 1 /\ Max({n - 1, most}) = c
    BY <1>2, LargerOfTwo
  <2>2. \A i \in Nat : Shown(n, most, i + 1) = 1 + r(i)
    BY <1>2 DEF Shown
  <2>3. \A i \in 0..b : r(i) \in 0..c
    BY <2>1, IndexInRange
  <2>4. \A i \in Nat : r(i) < r(i + 1) /\ (r(i + 1) - r(i) - 1) * b < c
    BY <2>1, Stride
  <2>5. r(0) = 0 /\ r(b) = c
    <3>1. 0 * c = 0 * b /\ b * c = c * b
      BY <2>1
    <3>2. RoundedQuotient(0 * b, b) = 0 /\ RoundedQuotient(c * b, b) = c
      BY <2>1, RoundingWhole
    <3> QED
      BY <3>1, <3>2
  <2> HIDE DEF r
  <2>6. ASSUME NEW i \in 1..most PROVE Shown(n, most, i) = 1 + r(i - 1)
    BY <2>2
  <2>7. \A i \in 1..most : Shown(n, most, i) \in 1..n
    BY <2>3, <2>6
  <2>8. Shown(n, most, 1) = 1 /\ Shown(n, most, most) = n
    BY <2>5, <2>6
  <2>9. ASSUME NEW i \in 1..(most - 1)
        PROVE  /\ Shown(n, most, i) < Shown(n, most, i + 1)
               /\ (Shown(n, most, i + 1) - Shown(n, most, i) - 1) * b < c
    <3>1. Shown(n, most, i) = 1 + r(i - 1) /\ Shown(n, most, i + 1) = 1 + r(i)
      BY <2>6
    <3>2. r(i - 1) \in Int /\ r(i) \in Int
      BY <2>3
    <3>3. r(i - 1) < r(i) /\ (r(i) - r(i - 1) - 1) * b < c
      BY <2>4
    <3>4. Shown(n, most, i + 1) - Shown(n, most, i) - 1 = r(i) - r(i - 1) - 1
      BY <3>1, <3>2
    <3> QED
      BY <3>1, <3>2, <3>3, <3>4
  <2> QED
    BY <1>2, <2>1, <2>7, <2>8, <2>9
<1>3. n <= most \/ n > most
  OBVIOUS
<1> QED
  BY <1>1, <1>2, <1>3, Zenon

(* The points of a series show the states at these indices.                *)
LEMMA PointsShown ==
  ASSUME NEW states, IsList(states), NEW most \in Nat \ {0, 1},
         \A i \in DOMAIN states : states[i].last_updated = i
  PROVE  LET n == Len(states)
             size == IF n <= most THEN n ELSE most
             points == SeriesFromStates(states, most)
         IN  /\ Len(points) = size /\ DOMAIN points = 1..size
             /\ \A i \in 1..size :
                  /\ points[i].observed_at = Shown(n, most, i)
                  /\ points[i].value = FiniteValue(states[Shown(n, most, i)])
<1> DEFINE n == Len(states)
           size == IF n <= most THEN n ELSE most
           Point(at) == [observed_at |-> states[at].last_updated,
                         value |-> FiniteValue(states[at])]
           all == [i \in DOMAIN states |-> Point(i)]
           points == SeriesFromStates(states, most)
<1>1. n \in Nat /\ DOMAIN states = 1..n /\ size \in Nat
  BY DEF IsList
<1>2. Len(all) = n
  BY <1>1, LengthOf
<1>3. points = IF n <= most THEN all
               ELSE [i \in 1..most |-> all[1 + RoundedQuotient((i - 1) * (n - 1), most - 1)]]
  <2>1. points = IF Len(all) <= most THEN all
                 ELSE [i \in 1..most |->
                         all[1 + RoundedQuotient((i - 1) * (Len(all) - 1), most - 1)]]
    BY Zenon DEF SeriesFromStates
  <2> HIDE DEF points, all, n
  <2> QED
    BY <1>2, <2>1
<1>4. \A i \in 1..size : Shown(n, most, i) \in 1..n
  BY <1>1, ShownStates
<1>5. points = [i \in 1..size |-> all[Shown(n, most, i)]]
  <2>1. all = [i \in 1..n |-> all[i]]
    BY <1>1
  <2> HIDE DEF points, all, n
  <2>2. CASE n <= most
    BY <1>3, <2>1, <2>2 DEF Shown
  <2>3. CASE ~(n <= most)
    BY <1>3, <2>3 DEF Shown
  <2> QED
    BY <2>2, <2>3
<1>6. Len(points) = size /\ DOMAIN points = 1..size
  <2> HIDE DEF points, size, all
  <2> QED
    BY <1>1, <1>5, LengthOf
<1>7. ASSUME NEW i \in 1..size PROVE points[i] = Point(Shown(n, most, i))
  BY <1>1, <1>4, <1>5
<1>8. ASSUME NEW i \in 1..size
      PROVE  /\ points[i].observed_at = Shown(n, most, i)
             /\ points[i].value = FiniteValue(states[Shown(n, most, i)])
  <2>1. states[Shown(n, most, i)].last_updated = Shown(n, most, i)
    BY <1>1, <1>4
  <2> DEFINE at == Shown(n, most, i)
  <2>2. points[i] = [observed_at |-> states[at].last_updated, value |-> FiniteValue(states[at])]
    BY <1>7
  <2> HIDE DEF at, points
  <2> QED
    BY <2>1, <2>2 DEF at
<1> QED
  BY <1>6, <1>8

(* However many states the Recorder has, the graph keeps both ends, goes   *)
(* forward, and leaves out less than its share between two points          *)
(* (history.py:183).                                                       *)
THEOREM EndsKept == Spec => []HistoryKeepsEnds
<1>1. Answered => HistoryKeepsEnds
  <2> SUFFICES ASSUME Answered, call.to = "series_from_states", NEW points \in result
               PROVE  LET states == call.history.states
                          n == Len(states)
                          most == call.history.most
                          At(i) == points[i].observed_at
                      IN  /\ Len(points) = (IF n <= most THEN n ELSE most)
                          /\ n > 0 => At(1) = 1 /\ At(Len(points)) = n
                          /\ \A i \in 1..(Len(points) - 1) :
                               /\ At(i) < At(i + 1)
                               /\ (At(i + 1) - At(i) - 1) * (most - 1) < Max({n - 1, most})
                          /\ \A i \in DOMAIN points :
                               (points[i].value = None) = ~states[At(i)].finite
    BY DEF HistoryKeepsEnds
  <2> DEFINE states == call.history.states
             n == Len(states)
             most == call.history.most
             size == IF n <= most THEN n ELSE most
             At(i) == points[i].observed_at
  <2>1. /\ IsList(states) /\ most \in Nat \ {0, 1} /\ points = SeriesFromStates(states, most)
        /\ \A i \in DOMAIN states :
             /\ states[i].last_updated = i
             /\ states[i].finite \in BOOLEAN /\ states[i].number # None
    BY ConversionsAssumption DEF Answered
  <2>2. n \in Nat /\ DOMAIN states = 1..n /\ size \in Nat /\ (n > 0 => size > 0)
    BY <2>1 DEF IsList
  <2> HIDE DEF states, most
  <2>3. /\ Len(points) = size /\ DOMAIN points = 1..size
        /\ \A i \in 1..size : /\ At(i) = Shown(n, most, i)
                              /\ points[i].value = FiniteValue(states[Shown(n, most, i)])
    BY <2>1, PointsShown
  <2> HIDE DEF n
  <2>4. /\ \A i \in 1..size : At(i) \in 1..n
        /\ n > 0 => At(1) = 1 /\ At(size) = n
        /\ \A i \in 1..(size - 1) :
             /\ At(i) < At(i + 1)
             /\ (At(i + 1) - At(i) - 1) * (most - 1) < Max({n - 1, most})
    <3>1. /\ \A i \in 1..size : Shown(n, most, i) \in 1..n
          /\ n > 0 => Shown(n, most, 1) = 1 /\ Shown(n, most, size) = n
          /\ \A i \in 1..(size - 1) :
               /\ Shown(n, most, i) < Shown(n, most, i + 1)
               /\ (Shown(n, most, i + 1) - Shown(n, most, i) - 1) * (most - 1)
                    < Max({n - 1, most})
      BY <2>1, <2>2, ShownStates
    <3> HIDE DEF At, size
    <3>2. \A i \in 1..(size - 1) : i \in 1..size /\ i + 1 \in 1..size
      BY <2>2
    <3>3. n > 0 => 1 \in 1..size /\ size \in 1..size
      BY <2>2
    <3> QED
      BY <2>2, <2>3, <3>1, <3>2, <3>3
  <2>5. \A i \in DOMAIN points : (points[i].value = None) = ~states[At(i)].finite
    BY <2>1, <2>2, <2>3, <2>4 DEF FiniteValue
  <2> HIDE DEF At
  <2> QED
    BY <2>3, <2>4, <2>5 DEF states, n, most, At
<1> QED
  BY <1>1, AnsweredAlways, PTL

-----------------------------------------------------------------------------
(* Whatever the prefix is, the total announced for an accepted network is  *)
(* what IPv4Network.hosts yields (discovery/active_scan.py:87).            *)
THEOREM TotalProbed == Spec => []ScanTotalIsProbed
<1>1. Answered => ScanTotalIsProbed
  <2> SUFFICES ASSUME Answered, call.to = "parse_private_network", NEW network \in result
               PROVE  /\ HostCount(network) = Cardinality(ScannedHosts(network))
                      /\ HostCount(network) \in 1..MaxScanHosts
    BY DEF ScanTotalIsProbed
  <2> DEFINE a == network.num_addresses
  <2>1. network \in Networks /\ HostCount(network) <= MaxScanHosts
    BY DEF Answered, ParsePrivateNetwork
  <2>2. MaxScanHosts \in Nat /\ a \in Nat
    BY <2>1, ConversionsAssumption
  <2>3. \/ network.prefixlen = 32 /\ a = 1
        \/ network.prefixlen = 31 /\ a = 2
        \/ network.prefixlen \in 0..30 /\ a > 2
    BY <2>1, ConversionsAssumption
  <2>4. Cardinality(0..(a - 1)) = a
    <3>1. a > 0
      BY <2>2, <2>3
    <3> HIDE DEF a
    <3> QED
      BY <2>2, <3>1, FS_Interval
  <2>5. CASE network.prefixlen = 32
    <3>1. HostCount(network) = 1 /\ a = 1 /\ ScannedHosts(network) = 0..(a - 1)
      BY <2>3, <2>5 DEF HostCount, ScannedHosts
    <3> QED
      BY <2>1, <2>2, <2>4, <3>1
  <2>6. CASE network.prefixlen = 31
    <3>1. HostCount(network) = 2 /\ a = 2 /\ ScannedHosts(network) = 0..(a - 1)
      BY <2>3, <2>6 DEF HostCount, ScannedHosts
    <3> QED
      BY <2>1, <2>2, <2>4, <3>1
  <2>7. CASE network.prefixlen \in 0..30
    <3>1. HostCount(network) = a - 2 /\ ScannedHosts(network) = 1..(a - 2) /\ a > 2
      <4>1. HostCount(network) = a - 2 /\ a > 2
        BY <2>3, <2>7 DEF HostCount
      <4>2. ScannedHosts(network) = (0..(a - 1)) \ {0, a - 1}
        BY <2>7 DEF ScannedHosts
      <4>3. (0..(a - 1)) \ {0, a - 1} = 1..(a - 2)
        BY <2>2
      <4> QED
        BY <4>1, <4>2, <4>3
    <3>2. Cardinality(1..(a - 2)) = a - 2
      BY <2>2, <3>1, FS_Interval
    <3> QED
      BY <2>1, <2>2, <3>1, <3>2
  <2> QED
    BY <2>3, <2>5, <2>6, <2>7
<1> QED
  BY <1>1, AnsweredAlways, PTL

-----------------------------------------------------------------------------
(* Spellings.                                                              *)

(* The fields of a response that are numbers, and those that are switches. *)
LEMMA Schemas ==
  /\ \A f \in DOMAIN TelemetrySchema :
       /\ f \notin Switches
       /\ TelemetrySchema[f].parser \in {"number", "int", "temperature"}
  /\ \A f \in DOMAIN ConfigurationSchema :
       ConfigurationSchema[f].parser \in
         (IF f \in Switches THEN {"bool"} ELSE {"number", "int"})
  /\ \A f \in DOMAIN HealthSchema :
       HealthSchema[f].parser =
         (IF f \in Switches THEN "bool" ELSE IF f = "overheat_mode" THEN "int" ELSE "text")
  /\ Switches \subseteq DOMAIN ConfigurationSchema \cup DOMAIN HealthSchema
  /\ "overheat_mode" \in DOMAIN HealthSchema
<1>1. \A f \in DOMAIN TelemetrySchema :
        /\ f \notin Switches
        /\ TelemetrySchema[f].parser \in {"number", "int", "temperature"}
  BY DEF TelemetrySchema, Amounts, Percentages, Counters, Switches, NumberIn, WholeIn,
     SensorField
<1>2. \A f \in DOMAIN ConfigurationSchema :
        ConfigurationSchema[f].parser \in
          (IF f \in Switches THEN {"bool"} ELSE {"number", "int"})
  BY DEF ConfigurationSchema, Switches, NumberIn, WholeIn, SwitchField
<1>3. \A f \in DOMAIN HealthSchema :
        HealthSchema[f].parser =
          (IF f \in Switches THEN "bool" ELSE IF f = "overheat_mode" THEN "int" ELSE "text")
  BY DEF HealthSchema, Switches, WholeIn, SwitchField, WordsField
<1>4. /\ Switches \subseteq DOMAIN ConfigurationSchema \cup DOMAIN HealthSchema
      /\ "overheat_mode" \in DOMAIN HealthSchema
  BY DEF ConfigurationSchema, HealthSchema, Switches
<1> QED
  BY <1>1, <1>2, <1>3, <1>4

(* The keys of the identity are neither. *)
OtherKeys ==
  {"macAddr", "hostname", "ASICModel", "boardVersion", "version", "axeOSVersion",
   "sharesRejectedReasons"}

LEMMA OtherKeysApart ==
  OtherKeys \cap (DOMAIN TelemetrySchema \cup DOMAIN ConfigurationSchema
                   \cup DOMAIN HealthSchema) = {}
BY DEF OtherKeys, TelemetrySchema, ConfigurationSchema, HealthSchema, Amounts, Percentages,
   Counters

(* The fields that a schema names are parsed alike.                        *)
ReadAlike(schema, fields, others) ==
  \A f \in DOMAIN schema :
    Parsed(schema[f], Get(fields, f)) = Parsed(schema[f], Get(others, f))

LEMMA FieldsAlike ==
  ASSUME NEW schema, NEW fields, NEW others, ReadAlike(schema, fields, others)
  PROVE  ParsedFields(schema, fields) = ParsedFields(schema, others)
<1>1. [f \in DOMAIN schema |-> Parsed(schema[f], Get(fields, f))]
        = [f \in DOMAIN schema |-> Parsed(schema[f], Get(others, f))]
  BY DEF ReadAlike
<1> QED
  BY <1>1, Zenon DEF ParsedFields

(* Bodies that differ in settings only agree in all the rest. *)
LEMMA PartsAlike ==
  ASSUME NEW fields, NEW others,
         ReadAlike(TelemetrySchema, fields, others),
         ReadAlike(HealthSchema, fields, others),
         NormalizedMinerId(Get(fields, "macAddr")) = NormalizedMinerId(Get(others, "macAddr")),
         \A key \in OtherKeys \ {"macAddr"} : Get(fields, key) = Get(others, key)
  PROVE  /\ ParsedIdentity(fields) = ParsedIdentity(others)
         /\ ParsedTelemetry(fields) = ParsedTelemetry(others)
         /\ ParsedFields(HealthSchema, fields) = ParsedFields(HealthSchema, others)
<1>1. ParsedIdentity(fields) = ParsedIdentity(others)
  <2>1. \A key \in {"hostname", "ASICModel", "boardVersion", "version", "axeOSVersion"} :
          Get(fields, key) = Get(others, key)
    BY DEF OtherKeys
  <2>2. FirmwareVersion(fields) = FirmwareVersion(others)
    BY <2>1 DEF FirmwareVersion
  <2> QED
    BY <2>1, <2>2 DEF ParsedIdentity
<1>2. ParsedTelemetry(fields) = ParsedTelemetry(others)
  <2>1. Get(fields, "sharesRejectedReasons") = Get(others, "sharesRejectedReasons")
    BY DEF OtherKeys
  <2> QED
    BY <2>1, FieldsAlike DEF ParsedTelemetry
<1> QED
  BY <1>1, <1>2, FieldsAlike

LEMMA BodiesAlike ==
  ASSUME NEW fields, NEW others,
         ReadAlike(TelemetrySchema, fields, others),
         ReadAlike(ConfigurationSchema, fields, others),
         ReadAlike(HealthSchema, fields, others),
         NormalizedMinerId(Get(fields, "macAddr")) = NormalizedMinerId(Get(others, "macAddr")),
         \A key \in OtherKeys \ {"macAddr"} : Get(fields, key) = Get(others, key)
  PROVE  ParseSystemInfo(Object(fields)) = ParseSystemInfo(Object(others))
<1>1. /\ ParsedIdentity(fields) = ParsedIdentity(others)
      /\ ParsedTelemetry(fields) = ParsedTelemetry(others)
      /\ ParsedFields(ConfigurationSchema, fields) = ParsedFields(ConfigurationSchema, others)
      /\ ParsedFields(HealthSchema, fields) = ParsedFields(HealthSchema, others)
  BY PartsAlike, FieldsAlike
<1>2. \A g : Object(g).kind = "object" /\ Object(g).fields = g
  BY DEF Object
<1> QED
  BY <1>1, <1>2 DEF ParseSystemInfo

(* Spellings of a number are read as that number, and no boolean is.       *)
LEMMA NumbersAlike ==
  ASSUME NEW v, IsJson(v), NEW w \in SameNumber(v)
  PROVE  ParsedNumber(w) = ParsedNumber(v) /\ v # Null /\ w # Null
<1>1. "halves" \in DOMAIN v
  BY DEF SameNumber
<1> DEFINE h == v.halves
<1>2. /\ h \in Int
      /\ v \in {Integer(h \div 2), Float(h)} \/ v = Numeral(h, v.pointed)
  BY <1>1 DEF IsJson, Null, NonFinite, Bool, Integer, Float, Numeral, Mac, Address, Text,
     List, Object
<1>3. ParsedNumber(v) = {h} /\ v # Null
  BY <1>2 DEF ParsedNumber, Integer, Float, Numeral, Null
<1>4. \/ w \in {Float(h), Numeral(h, TRUE), Numeral(h, FALSE)}
      \/ h % 2 = 0 /\ w = Integer(h \div 2)
  <2>1. w \in {Float(h), Numeral(h, TRUE)} \cup
              (IF h % 2 = 0 THEN {Integer(h \div 2), Numeral(h, FALSE)} ELSE {})
    BY <1>1, Zenon DEF SameNumber
  <2> HIDE DEF h
  <2> QED
    BY <2>1
<1>5. h % 2 = 0 => 2 * (h \div 2) = h
  BY <1>2
<1> HIDE DEF h
<1>6. ParsedNumber(w) = {h} /\ w # Null
  BY <1>4, <1>5 DEF ParsedNumber, Integer, Float, Numeral, Null
<1> QED
  BY <1>3, <1>6

LEMMA NoNumber ==
  ASSUME NEW v, v.kind = "bool"
  PROVE  ParsedNumber(v) = {} /\ v # Null
BY DEF ParsedNumber, Null

(* So are the fields that hold them.                                       *)
LEMMA ParsedByNumber ==
  ASSUME NEW schema, schema.parser \in {"number", "int", "temperature"},
         NEW v, NEW w, v # Null, w # Null, ParsedNumber(v) = ParsedNumber(w)
  PROVE  Parsed(schema, v) = Parsed(schema, w)
BY DEF Parsed, OptionalNumber, OptionalInt, OptionalTemperature

LEMMA ParsedNoNumber ==
  ASSUME NEW schema, schema.parser \in {"number", "int", "temperature"},
         NEW v, v.kind = "bool"
  PROVE  Parsed(schema, v) = {}
BY NoNumber DEF Parsed, OptionalNumber, OptionalInt, OptionalTemperature, Whole

LEMMA SwitchesAlike ==
  ASSUME NEW v, NEW w \in SameSwitch(v)
  PROVE  OptionalBool(w) = OptionalBool(v)
<1> DEFINE Off == {Bool(FALSE), Integer(0), Float(0)}
           On_ == {Bool(TRUE), Integer(1), Float(2)}
<1>1. \/ v \in Off /\ w \in Off
      \/ v \in On_ /\ w \in On_
  BY DEF SameSwitch
<1>2. ASSUME NEW u \in Off PROVE OptionalBool(u) = {FALSE}
  <2>1. u \in FormsOf(FALSE) /\ u # Null
    BY DEF FormsOf, Bool, Integer, Float, Numeral, Null
  <2>2. u \notin FormsOf(TRUE)
    BY DEF FormsOf, Bool, Integer, Float, Numeral
  <2> QED
    BY <2>1, <2>2 DEF OptionalBool
<1>3. ASSUME NEW u \in On_ PROVE OptionalBool(u) = {TRUE}
  <2>1. u \in FormsOf(TRUE) /\ u # Null
    BY DEF FormsOf, Bool, Integer, Float, Numeral, Null
  <2>2. u \notin FormsOf(FALSE)
    BY DEF FormsOf, Bool, Integer, Float, Numeral
  <2> QED
    BY <2>1, <2>2 DEF OptionalBool
<1> QED
  BY <1>1, <1>2, <1>3

LEMMA AddressesAlike ==
  ASSUME NEW v, IsJson(v), NEW w \in SameAddress(v)
  PROVE  NormalizedMinerId(w) = NormalizedMinerId(v)
<1>1. v = Mac(v.mac, v.spelling) /\ \E spelling : w = Mac(v.mac, spelling)
  BY DEF SameAddress, IsJson, Null, NonFinite, Bool, Integer, Float, Numeral, Mac, Address,
     Text, List, Object
<1> QED
  BY <1>1 DEF NormalizedMinerId, Mac

(* One field is replaced by a value that is parsed alike.                  *)
LEMMA OneRespelt ==
  ASSUME NEW fields, NEW f \in DOMAIN fields, NEW w,
         \/ /\ f \notin OtherKeys
            /\ f \in DOMAIN TelemetrySchema =>
                 Parsed(TelemetrySchema[f], fields[f]) = Parsed(TelemetrySchema[f], w)
            /\ f \in DOMAIN ConfigurationSchema =>
                 Parsed(ConfigurationSchema[f], fields[f]) = Parsed(ConfigurationSchema[f], w)
            /\ f \in DOMAIN HealthSchema =>
                 Parsed(HealthSchema[f], fields[f]) = Parsed(HealthSchema[f], w)
         \/ f = "macAddr" /\ NormalizedMinerId(fields[f]) = NormalizedMinerId(w)
  PROVE  ParseSystemInfo(Object([fields EXCEPT ![f] = w])) = ParseSystemInfo(Object(fields))
<1> DEFINE others == [fields EXCEPT ![f] = w]
<1>1. /\ \A key : key # f => Get(others, key) = Get(fields, key)
      /\ Get(others, f) = w /\ Get(fields, f) = fields[f]
  BY DEF Get
<1> HIDE DEF others
<1>2. f = "macAddr" => f \notin DOMAIN TelemetrySchema \cup DOMAIN ConfigurationSchema
                                \cup DOMAIN HealthSchema
  BY OtherKeysApart DEF OtherKeys
<1>3. /\ ReadAlike(TelemetrySchema, others, fields)
      /\ ReadAlike(ConfigurationSchema, others, fields)
      /\ ReadAlike(HealthSchema, others, fields)
  BY <1>1, <1>2 DEF ReadAlike
<1>4. /\ NormalizedMinerId(Get(others, "macAddr")) = NormalizedMinerId(Get(fields, "macAddr"))
      /\ \A key \in OtherKeys \ {"macAddr"} : Get(others, key) = Get(fields, key)
  BY <1>1 DEF OtherKeys
<1> QED
  BY <1>3, <1>4, BodiesAlike DEF others

LEMMA NumbersInSchemas ==
  ASSUME NEW f \in Numbers
  PROVE  /\ f \notin OtherKeys
         /\ \/ f \in DOMAIN TelemetrySchema \/ f \in DOMAIN ConfigurationSchema
            \/ f \in DOMAIN HealthSchema
         /\ f \in DOMAIN TelemetrySchema =>
              TelemetrySchema[f].parser \in {"number", "int", "temperature"}
         /\ f \in DOMAIN ConfigurationSchema =>
              ConfigurationSchema[f].parser \in {"number", "int", "temperature"}
         /\ f \in DOMAIN HealthSchema =>
              HealthSchema[f].parser \in {"number", "int", "temperature"}
<1>1. f \notin Switches
  BY DEF Numbers
<1>2. \/ f \in DOMAIN TelemetrySchema \/ f \in DOMAIN ConfigurationSchema
      \/ f = "overheat_mode"
  BY DEF Numbers
<1>3. f \notin OtherKeys
  BY <1>2, OtherKeysApart, Schemas
<1>4. f \in DOMAIN HealthSchema => f = "overheat_mode"
  BY <1>2 DEF HealthSchema, TelemetrySchema, ConfigurationSchema, Amounts, Percentages,
     Counters
<1> QED
  BY <1>1, <1>2, <1>3, <1>4, Schemas

(* A response with a boolean for a number is refused.                      *)
LEMMA BooleanRefused ==
  ASSUME NEW fields, NEW f \in Numbers \cap DOMAIN fields, fields[f].kind = "bool"
  PROVE  ParseSystemInfo(Object(fields)) = {}
<1>1. Get(fields, f) = fields[f]
  BY DEF Get
<1>2. ASSUME NEW schema, f \in DOMAIN schema,
             schema[f].parser \in {"number", "int", "temperature"}
      PROVE  ParsedFields(schema, fields) = {}
  <2>1. Parsed(schema[f], Get(fields, f)) = {}
    BY <1>1, <1>2, ParsedNoNumber
  <2> QED
    BY <1>2, <2>1 DEF ParsedFields, AllOf
<1>3. \/ ParsedFields(TelemetrySchema, fields) = {}
      \/ ParsedFields(ConfigurationSchema, fields) = {}
      \/ ParsedFields(HealthSchema, fields) = {}
  BY <1>2, NumbersInSchemas
<1>4. ParsedFields(TelemetrySchema, fields) = {} => ParsedTelemetry(fields) = {}
  BY DEF ParsedTelemetry, AllOf
<1>5. Object(fields).fields = fields
  BY DEF Object
<1> QED
  BY <1>3, <1>4, <1>5 DEF ParseSystemInfo, AllOf

(* However a number, a switch or an address is spelt, the same is read of  *)
(* it, and a boolean is no number (axeos/parser.py:411, 536).              *)
THEOREM SpellingNeverMatters == Spec => []SpellingIsIrrelevant
<1>1. Answered => SpellingIsIrrelevant
  <2> DEFINE fields == call.body.fields
             Same(f) == IF f \in Switches THEN SameSwitch(fields[f])
                        ELSE IF f \in Numbers THEN SameNumber(fields[f])
                        ELSE IF f = "macAddr" THEN SameAddress(fields[f]) ELSE {}
  <2> SUFFICES ASSUME Answered, call.to = "parse_system_info", NEW f \in DOMAIN fields
               PROVE  /\ \A w \in Same(f) :
                           ParseSystemInfo(Object([fields EXCEPT ![f] = w])) = result
                      /\ f \in Numbers /\ fields[f].kind = "bool" => result = {}
    BY DEF SpellingIsIrrelevant
  <2>1. IsJson(fields[f]) /\ result = ParseSystemInfo(Object(fields))
    BY ConversionsAssumption DEF Answered, Json
  <2> HIDE DEF fields
  <2>2. ASSUME NEW w \in Same(f)
        PROVE  ParseSystemInfo(Object([fields EXCEPT ![f] = w])) = result
    <3>1. CASE f \in Switches
      <4>1. OptionalBool(w) = OptionalBool(fields[f])
        BY <2>2, <3>1, SwitchesAlike
      <4>2. \A schema : schema.parser = "bool" => Parsed(schema, fields[f]) = Parsed(schema, w)
        BY <4>1 DEF Parsed
      <4>3. f \notin OtherKeys
        BY <3>1, Schemas, OtherKeysApart
      <4> QED
        BY <2>1, <3>1, <4>2, <4>3, Schemas, OneRespelt
    <3>2. CASE f \in Numbers /\ f \notin Switches
      <4>1. w \in SameNumber(fields[f])
        BY <2>2, <3>2
      <4>2. \A schema : schema.parser \in {"number", "int", "temperature"} =>
              Parsed(schema, fields[f]) = Parsed(schema, w)
        BY <2>1, <4>1, NumbersAlike, ParsedByNumber
      <4> QED
        BY <2>1, <3>2, <4>2, NumbersInSchemas, OneRespelt
    <3>3. CASE f \notin Switches /\ f \notin Numbers
      <4>1. f = "macAddr" /\ w \in SameAddress(fields[f])
        BY <2>2, <3>3
      <4>2. NormalizedMinerId(w) = NormalizedMinerId(fields[f])
        BY <2>1, <4>1, AddressesAlike
      <4> QED
        BY <2>1, <4>1, <4>2, OneRespelt
    <3> QED
      BY <3>1, <3>2, <3>3
  <2>3. f \in Numbers /\ fields[f].kind = "bool" => result = {}
    BY <2>1, BooleanRefused
  <2> QED
    BY <2>2, <2>3
<1> QED
  BY <1>1, AnsweredAlways, PTL

-----------------------------------------------------------------------------
(* Policies.                                                               *)

(* When every field is parsed to what p has there, the whole is p.         *)
LEMMA AllOfSingles ==
  ASSUME NEW parsed, NEW p, p = [k \in DOMAIN parsed |-> p[k]],
         \A k \in DOMAIN parsed : parsed[k] = {p[k]}
  PROVE  AllOf(parsed) = {p}
<1>1. \A k \in DOMAIN parsed : parsed[k] # {} /\ (CHOOSE v \in parsed[k] : TRUE) = p[k]
  OBVIOUS
<1>2. [k \in DOMAIN parsed |-> CHOOSE v \in parsed[k] : TRUE] = p
  BY <1>1
<1> QED
  BY <1>1, <1>2 DEF AllOf

LEMMA WithinInt ==
  ASSUME NEW a \in Int, NEW b \in Int
  PROVE  Within(a, b) \subseteq Int
BY DEF Within

(* An integer is stored and read as it is. *)
LEMMA IntegerReload == \A n \in Int : StoredInt(Integer(n)) = {n}
BY DEF StoredInt, Integer

LEMMA BoolReload == \A b \in BOOLEAN : StoredBool(Bool(b)) = {b}
BY DEF StoredBool, Bool

IsPolicy(p) ==
  /\ p = [f \in PolicyKeys |-> p[f]]
  /\ \A f \in DOMAIN PolicyBounds : p[f] \in PolicyBounds[f]
  /\ \A f \in PolicySwitches : p[f] \in BOOLEAN
  /\ p["overheat_policy"] \in OverheatPolicy

LEMMA PolicyKeysApart ==
  /\ \A f \in PolicyKeys : \/ f \in DOMAIN PolicyBounds
                           \/ f \in PolicySwitches
                           \/ f = "overheat_policy"
  /\ DOMAIN PolicyBounds \cap (PolicySwitches \cup {"overheat_policy"}) = {}
  /\ "overheat_policy" \notin PolicySwitches
  /\ \A f \in DOMAIN PolicyBounds : PolicyBounds[f] \subseteq Int
<1>1. \A f \in DOMAIN PolicyBounds : PolicyBounds[f] \subseteq Int
  <2>1. /\ Within(0, 3600) \subseteq Int /\ Within(1, 20) \subseteq Int
        /\ Within(0, 86400) \subseteq Int /\ Within(60, 604800) \subseteq Int
        /\ Within(30, 3600) \subseteq Int /\ Within(10, 3600) \subseteq Int
    BY WithinInt
  <2> QED
    BY <2>1 DEF PolicyBounds
<1> QED
  BY <1>1 DEF PolicyKeys, PolicyBounds, PolicySwitches

LEMMA PolicyReload ==
  ASSUME NEW p, IsPolicy(p)
  PROVE  /\ DeserializePolicy(SerializePolicy(p)) = {p}
         /\ PolicyFromMessage(SerializePolicy(p)) = {p}
<1> DEFINE F == [f \in PolicyKeys |->
                   CASE f \in PolicySwitches -> Bool(p[f])
                     [] f = "overheat_policy" -> p[f]
                     [] OTHER -> Integer(p[f])]
           parsed == [f \in PolicyKeys |->
                        LET v == Get(F, f)
                        IN  CASE f \in PolicySwitches -> StoredBool(v)
                              [] f = "overheat_policy" -> {v} \cap OverheatPolicy
                              [] OTHER -> StoredInt(v)]
<1>1. ASSUME NEW f \in PolicyKeys PROVE parsed[f] = {p[f]}
  <2>1. Get(F, f) = CASE f \in PolicySwitches -> Bool(p[f])
                      [] f = "overheat_policy" -> p[f]
                      [] OTHER -> Integer(p[f])
    BY DEF Get
  <2>2. CASE f \in PolicySwitches
    BY <2>1, <2>2, BoolReload, PolicyKeysApart DEF IsPolicy
  <2>3. CASE f = "overheat_policy"
    BY <2>1, <2>3, PolicyKeysApart DEF IsPolicy
  <2>4. CASE f \in DOMAIN PolicyBounds
    BY <2>1, <2>4, IntegerReload, PolicyKeysApart DEF IsPolicy
  <2> QED
    BY <2>2, <2>3, <2>4, PolicyKeysApart
<1>2. AllOf(parsed) = {p}
  <2> HIDE DEF parsed
  <2>1. DOMAIN parsed = PolicyKeys
    BY DEF parsed
  <2> QED
    BY <1>1, <2>1, AllOfSingles DEF IsPolicy
<1>3. PolicyFields(F) = {p}
  BY <1>2 DEF PolicyFields
<1>4. RecoveryPolicy(p) = {p}
  BY DEF IsPolicy, RecoveryPolicy
<1>5. SerializePolicy(p) = Object(F) /\ DOMAIN F = PolicyKeys
  BY DEF SerializePolicy
<1> HIDE DEF F
<1>6. Object(F).kind = "object" /\ Object(F).fields = F /\ Object(F) # Null
  BY DEF Object, Null
<1> QED
  BY <1>3, <1>4, <1>5, <1>6 DEF DeserializePolicy, PolicyFromMessage

(* A policy that was accepted, and what it was accepted from.              *)
LEMMA PolicyAccepted ==
  ASSUME NEW message \in Messages, NEW p \in PolicyFromMessage(message)
  PROVE  IsPolicy(p) /\ SerializePolicy(p) = message
<1> DEFINE fields == message.fields
           parsed == [f \in PolicyKeys |->
                        LET v == Get(fields, f)
                        IN  CASE f \in PolicySwitches -> StoredBool(v)
                              [] f = "overheat_policy" -> {v} \cap OverheatPolicy
                              [] OTHER -> StoredInt(v)]
<1>1. /\ message.kind = "object" /\ DOMAIN fields = PolicyKeys
      /\ \E q \in PolicyFields(fields) : p \in RecoveryPolicy(q)
  BY DEF PolicyFromMessage
<1>2. /\ p \in AllOf(parsed)
      /\ \A f \in DOMAIN PolicyBounds : p[f] \in PolicyBounds[f]
  BY <1>1 DEF RecoveryPolicy, PolicyFields
<1>3. /\ p = [f \in PolicyKeys |-> p[f]]
      /\ \A f \in PolicyKeys : p[f] \in parsed[f]
  <2> HIDE DEF parsed
  <2>1. DOMAIN parsed = PolicyKeys
    BY DEF parsed
  <2> QED
    BY <1>2, <2>1, AllOfFields
<1>4. /\ IsJson(message) /\ \A f \in PolicyKeys : IsJson(fields[f]) /\ Get(fields, f) = fields[f]
  BY <1>1, ConversionsAssumption DEF Json, Get
<1>5. message = Object(fields) /\ fields = [f \in PolicyKeys |-> fields[f]]
  BY <1>1, <1>4 DEF IsJson, Null, NonFinite, Bool, Integer, Float, Numeral, Mac, Address,
     Text, List, Object
<1>6. ASSUME NEW v, IsJson(v)
      PROVE  /\ \A b \in StoredBool(v) : b \in BOOLEAN /\ v = Bool(b)
             /\ \A n \in StoredInt(v) : v = Integer(n)
  <2>1. v.kind = "bool" => v \in {Bool(FALSE), Bool(TRUE)}
    BY <1>6 DEF IsJson, Null, NonFinite, Bool, Integer, Float, Numeral, Mac, Address, Text,
       List, Object
  <2>2. v.kind = "int" => v = Integer(v.halves \div 2)
    BY <1>6 DEF IsJson, Null, NonFinite, Bool, Integer, Float, Numeral, Mac, Address, Text,
       List, Object
  <2>3. \A b \in BOOLEAN : Bool(b).bool = b
    BY DEF Bool
  <2>4. \A b \in StoredBool(v) : b \in BOOLEAN /\ v = Bool(b)
    BY <2>1, <2>3 DEF StoredBool
  <2>5. \A n \in StoredInt(v) : v = Integer(n)
    BY <2>2 DEF StoredInt
  <2> QED
    BY <2>4, <2>5
<1>7. ASSUME NEW f \in PolicyKeys
      PROVE  /\ f \in PolicySwitches => p[f] \in BOOLEAN /\ fields[f] = Bool(p[f])
             /\ f = "overheat_policy" => p[f] \in OverheatPolicy /\ fields[f] = p[f]
             /\ f \in DOMAIN PolicyBounds => fields[f] = Integer(p[f])
  <2>1. /\ f \in PolicySwitches => p[f] \in StoredBool(fields[f])
        /\ f = "overheat_policy" => p[f] \in {fields[f]} \cap OverheatPolicy
        /\ f \in DOMAIN PolicyBounds => p[f] \in StoredInt(fields[f])
    BY <1>3, <1>4, PolicyKeysApart
  <2> QED
    BY <1>4, <1>6, <2>1
<1>8. IsPolicy(p)
  BY <1>2, <1>3, <1>7 DEF IsPolicy, PolicyKeys
<1>9. SerializePolicy(p) = Object(fields)
  <2>1. \A f \in PolicyKeys : fields[f] = CASE f \in PolicySwitches -> Bool(p[f])
                                            [] f = "overheat_policy" -> p[f]
                                            [] OTHER -> Integer(p[f])
    BY <1>7, PolicyKeysApart
  <2> QED
    BY <1>5, <2>1 DEF SerializePolicy
<1> QED
  BY <1>5, <1>8, <1>9

-----------------------------------------------------------------------------
(* Profiles.                                                               *)

IsProfile(p) ==
  /\ p = [frequency_mhz             |-> p.frequency_mhz,
          core_voltage_mv           |-> p.core_voltage_mv,
          overclock_enabled         |-> p.overclock_enabled,
          automatic_fan_speed       |-> p.automatic_fan_speed,
          target_temperature_c      |-> p.target_temperature_c,
          minimum_fan_speed_percent |-> p.minimum_fan_speed_percent]
  /\ p.overclock_enabled \in BOOLEAN /\ p.automatic_fan_speed \in BOOLEAN
  /\ p.frequency_mhz \in Within(2, 20000)
  /\ p.core_voltage_mv \in Within(1, 10000)
  /\ p.target_temperature_c \in Within(0, 100)
  /\ p.minimum_fan_speed_percent \in Within(0, 100)

LEMMA ProfileInts ==
  ASSUME NEW p, IsProfile(p)
  PROVE  {p.frequency_mhz, p.core_voltage_mv, p.target_temperature_c,
          p.minimum_fan_speed_percent} \subseteq Int
<1>1. /\ Within(2, 20000) \subseteq Int /\ Within(1, 10000) \subseteq Int
      /\ Within(0, 100) \subseteq Int
  BY WithinInt
<1> QED
  BY <1>1 DEF IsProfile

LEMMA ProfileConstructed == \A p : IsProfile(p) => RecoveryProfile(p) = {p}
BY DEF IsProfile, RecoveryProfile

(* A profile is read from storage as it was. *)
LEMMA ProfileReload ==
  ASSUME NEW p, p = None \/ IsProfile(p)
  PROVE  DeserializeProfile(SerializeProfile(p)) = {p}
<1>1. CASE p = None
  BY <1>1 DEF DeserializeProfile, SerializeProfile
<1>2. CASE p # None
  <2> DEFINE F == [frequency_mhz             |-> Float(p.frequency_mhz),
                   core_voltage_mv           |-> Integer(p.core_voltage_mv),
                   overclock_enabled         |-> Bool(p.overclock_enabled),
                   automatic_fan_speed       |-> Bool(p.automatic_fan_speed),
                   target_temperature_c      |-> Integer(p.target_temperature_c),
                   minimum_fan_speed_percent |-> Integer(p.minimum_fan_speed_percent)]
             parsed == [f \in ProfileFields |->
                          CASE f = "frequency_mhz" -> StoredFloat(Get(F, f))
                            [] f \in {"overclock_enabled", "automatic_fan_speed"} ->
                                 StoredBool(Get(F, f))
                            [] OTHER -> StoredInt(Get(F, f))]
  <2>1. p = [f \in ProfileFields |-> p[f]]
    BY <1>2 DEF IsProfile, ProfileFields
  <2>2. \A h : StoredFloat(Float(h)) = {h}
    BY DEF StoredFloat, Float
  <2>3. ASSUME NEW f \in ProfileFields PROVE parsed[f] = {p[f]}
    <3>1. CASE f = "frequency_mhz"
      <4>1. Get(F, f) = Float(p.frequency_mhz)
        BY <3>1 DEF Get
      <4> HIDE DEF F
      <4> QED
        BY <2>2, <3>1, <4>1
    <3>2. CASE f \in {"overclock_enabled", "automatic_fan_speed"}
      <4>1. Get(F, f) = Bool(p[f]) /\ p[f] \in BOOLEAN
        BY <1>2, <3>2 DEF Get, IsProfile
      <4> HIDE DEF F
      <4> QED
        BY <3>2, <4>1, BoolReload
    <3>3. CASE f \in {"core_voltage_mv", "target_temperature_c", "minimum_fan_speed_percent"}
      <4>1. Get(F, f) = Integer(p[f]) /\ p[f] \in Int
        BY <1>2, <3>3, ProfileInts DEF Get
      <4> HIDE DEF F
      <4> QED
        BY <3>3, <4>1, IntegerReload
    <3> QED
      BY <3>1, <3>2, <3>3 DEF ProfileFields
  <2>4. AllOf(parsed) = {p}
    <3> HIDE DEF parsed
    <3>1. DOMAIN parsed = ProfileFields
      BY DEF parsed
    <3> QED
      BY <2>1, <2>3, <3>1, AllOfSingles
  <2>5. SerializeProfile(p) = Object(F)
    BY <1>2 DEF SerializeProfile
  <2>6. Object(F).kind = "object" /\ Object(F).fields = F /\ Object(F) # Null
    BY DEF Object, Null
  <2>7. DeserializeProfile(Object(F)) = UNION {RecoveryProfile(q) : q \in AllOf(parsed)}
    <3> HIDE DEF F
    <3> QED
      BY <2>6 DEF DeserializeProfile
  <2>8. RecoveryProfile(p) = {p}
    BY <1>2, ProfileConstructed
  <2> HIDE DEF F, parsed
  <2> QED
    BY <2>4, <2>5, <2>7, <2>8
<1> QED
  BY <1>1, <1>2

(* A configuration that was accepted. *)
LEMMA ConfigurationParsed ==
  ASSUME NEW fields, NEW c \in ParsedFields(ConfigurationSchema, fields)
  PROVE  /\ c.frequency \in {None} \cup Within(2, 20000)
         /\ c.coreVoltage \in {None} \cup Within(1, 10000)
         /\ c.overclockEnabled \in {None} \cup BOOLEAN
         /\ c.autofanspeed \in {None} \cup BOOLEAN
         /\ c.temptarget \in {None} \cup Within(0, 100)
         /\ c.minFanSpeed \in {None} \cup Within(0, 100)
<1>1. \A f \in DOMAIN ConfigurationSchema :
        c[f] \in Parsed(ConfigurationSchema[f], Get(fields, f))
  <2> DEFINE parsed ==
        [f \in DOMAIN ConfigurationSchema |-> Parsed(ConfigurationSchema[f], Get(fields, f))]
  <2>1. c \in AllOf(parsed)
    BY DEF ParsedFields
  <2>2. \A f \in DOMAIN parsed : c[f] \in parsed[f]
    <3> HIDE DEF parsed
    <3> QED
      BY <2>1, AllOfFields
  <2> QED
    BY <2>2
<1>2. \A allowed, v : /\ Parsed(NumberIn(allowed), v) \subseteq {None} \cup allowed
                      /\ Parsed(WholeIn(allowed), v) \subseteq {None} \cup allowed
  BY DEF Parsed, NumberIn, WholeIn, OptionalNumber, OptionalInt
<1>3. \A v : Parsed(SwitchField, v) \subseteq {None} \cup BOOLEAN
  BY DEF Parsed, SwitchField, OptionalBool
<1>4. /\ {"frequency", "coreVoltage", "overclockEnabled", "autofanspeed", "temptarget",
          "minFanSpeed"} \subseteq DOMAIN ConfigurationSchema
      /\ ConfigurationSchema["frequency"] = NumberIn(Within(2, 20000))
      /\ ConfigurationSchema["coreVoltage"] = WholeIn(Within(1, 10000))
      /\ ConfigurationSchema["overclockEnabled"] = SwitchField
      /\ ConfigurationSchema["autofanspeed"] = SwitchField
      /\ ConfigurationSchema["temptarget"] = WholeIn(Within(0, 100))
      /\ ConfigurationSchema["minFanSpeed"] = WholeIn(Within(0, 100))
  BY DEF ConfigurationSchema
<1> QED
  BY <1>1, <1>2, <1>3, <1>4

(* It makes a profile, or none where it is not complete. *)
LEMMA ProfileMade ==
  ASSUME NEW fields, NEW c \in ParsedFields(ConfigurationSchema, fields)
  PROVE  /\ ToRecoveryProfile(c) # {}
         /\ \A p \in ToRecoveryProfile(c) :
              p = None \/ (IsProfile(p) /\ \A f \in ProfileFields : p[f] # None)
<1> DEFINE p == [frequency_mhz             |-> c.frequency,
                 core_voltage_mv           |-> c.coreVoltage,
                 overclock_enabled         |-> c.overclockEnabled,
                 automatic_fan_speed       |-> c.autofanspeed,
                 target_temperature_c      |-> c.temptarget,
                 minimum_fan_speed_percent |-> c.minFanSpeed]
<1>1. ToRecoveryProfile(c) = IF \E f \in ProfileFields : p[f] = None THEN {None}
                             ELSE RecoveryProfile(p)
  BY Zenon DEF ToRecoveryProfile
<1>2. (\A f \in ProfileFields : p[f] # None) => IsProfile(p)
  <2>1. /\ p.frequency_mhz \in {None} \cup Within(2, 20000)
        /\ p.core_voltage_mv \in {None} \cup Within(1, 10000)
        /\ p.overclock_enabled \in {None} \cup BOOLEAN
        /\ p.automatic_fan_speed \in {None} \cup BOOLEAN
        /\ p.target_temperature_c \in {None} \cup Within(0, 100)
        /\ p.minimum_fan_speed_percent \in {None} \cup Within(0, 100)
    BY ConfigurationParsed
  <2>2. p = [frequency_mhz             |-> p.frequency_mhz,
             core_voltage_mv           |-> p.core_voltage_mv,
             overclock_enabled         |-> p.overclock_enabled,
             automatic_fan_speed       |-> p.automatic_fan_speed,
             target_temperature_c      |-> p.target_temperature_c,
             minimum_fan_speed_percent |-> p.minimum_fan_speed_percent]
    OBVIOUS
  <2> HIDE DEF p
  <2> QED
    BY <2>1, <2>2 DEF ProfileFields, IsProfile
<1> HIDE DEF p
<1> QED
  BY <1>1, <1>2, ProfileConstructed

-----------------------------------------------------------------------------
(* Miners.                                                                 *)

(* A text that was accepted, or none. *)
Words(t) == t = None \/ (OptionalText(t) = {t} /\ t # Null)

IsIdentity(i) ==
  /\ i = [miner_id         |-> i.miner_id,
          hostname         |-> i.hostname,
          asic_model       |-> i.asic_model,
          board_version    |-> i.board_version,
          firmware_version |-> i.firmware_version]
  /\ i.miner_id \in Stations
  /\ i.hostname = None \/ IsHostname(i.hostname)
  /\ \A t \in {i.hostname, i.asic_model, i.board_version, i.firmware_version} : Words(t)

LEMMA TextParsed == \A v : \A t \in OptionalText(v) : Words(t)
<1> SUFFICES ASSUME NEW v, NEW t \in OptionalText(v), t # None PROVE Words(t)
  BY DEF Words
<1>1. v \notin {Null, Text("blank")}
  BY DEF OptionalText
<1>2. t = v /\ v.kind = "text" /\ v.shape \notin {"long", "unprintable"}
  BY <1>1 DEF OptionalText
<1>3. OptionalText(v) = {v}
  BY <1>1, <1>2 DEF OptionalText
<1> QED
  BY <1>1, <1>2, <1>3 DEF Words

LEMMA IdentityParsed ==
  ASSUME NEW fields, NEW i \in ParsedIdentity(fields)
  PROVE  IsIdentity(i)
<1> DEFINE parsed ==
      [miner_id         |-> NormalizedMinerId(Get(fields, "macAddr")),
       hostname         |-> OptionalHostname(Get(fields, "hostname")),
       asic_model       |-> RequiredText(Get(fields, "ASICModel")),
       board_version    |-> OptionalText(Get(fields, "boardVersion")),
       firmware_version |-> FirmwareVersion(fields)]
<1>1. i \in AllOf(parsed)
  BY DEF ParsedIdentity
<1>2. i = [k \in DOMAIN parsed |-> i[k]] /\ \A k \in DOMAIN parsed : i[k] \in parsed[k]
  <2> HIDE DEF parsed
  <2> QED
    BY <1>1, AllOfFields
<1>3. /\ i = [miner_id         |-> i.miner_id,
              hostname         |-> i.hostname,
              asic_model       |-> i.asic_model,
              board_version    |-> i.board_version,
              firmware_version |-> i.firmware_version]
      /\ i.miner_id \in NormalizedMinerId(Get(fields, "macAddr"))
      /\ i.hostname \in OptionalHostname(Get(fields, "hostname"))
      /\ i.asic_model \in OptionalText(Get(fields, "ASICModel"))
      /\ i.board_version \in OptionalText(Get(fields, "boardVersion"))
      /\ i.firmware_version \in FirmwareVersion(fields)
  BY <1>2 DEF RequiredText
<1>4. i.miner_id \in Stations
  BY <1>3 DEF NormalizedMinerId
<1>5. Words(i.hostname) /\ (i.hostname = None \/ IsHostname(i.hostname))
  <2>1. PICK t \in OptionalText(Get(fields, "hostname")) :
          i.hostname = IF t # None /\ IsHostname(t) THEN t ELSE None
    BY <1>3 DEF OptionalHostname
  <2>2. CASE t # None /\ IsHostname(t)
    BY <2>1, <2>2, TextParsed
  <2>3. CASE ~(t # None /\ IsHostname(t))
    BY <2>1, <2>3 DEF Words
  <2> QED
    BY <2>2, <2>3
<1>6. Words(i.firmware_version)
  <2>1. PICK t \in OptionalText(Get(fields, "version")) :
          i.firmware_version \in
            IF t # None THEN {t} ELSE OptionalText(Get(fields, "axeOSVersion"))
    BY <1>3 DEF FirmwareVersion
  <2> QED
    BY <2>1, TextParsed
<1>7. Words(i.asic_model) /\ Words(i.board_version)
  BY <1>3, TextParsed
<1> HIDE DEF parsed
<1> QED
  BY <1>3, <1>4, <1>5, <1>6, <1>7 DEF IsIdentity

LEMMA TextReload == \A t : Words(t) => StoredOptionalText(OptionalJson(t)) = {t}
BY DEF Words, StoredOptionalText, OptionalJson

(* A miner is read from storage as it was; of a record of version 1, its   *)
(* identity and its address.                                               *)
LEMMA MinerReload ==
  ASSUME NEW m, IsIdentity(m.identity), m.host \in PrivateHosts, Words(m.display_name),
         m.enabled \in BOOLEAN,
         m.recovery_profile = None \/ IsProfile(m.recovery_profile),
         IsPolicy(m.recovery_policy),
         m = [identity         |-> m.identity,
              host             |-> m.host,
              display_name     |-> m.display_name,
              enabled          |-> m.enabled,
              recovery_profile |-> m.recovery_profile,
              recovery_policy  |-> m.recovery_policy]
  PROVE  /\ DeserializeMiner(SerializeMiner(m), FALSE) = {m}
         /\ DeserializeMiner(SerializeMiner(m), TRUE) =
              {[identity         |-> m.identity,
                host             |-> m.host,
                display_name     |-> None,
                enabled          |-> TRUE,
                recovery_profile |-> None,
                recovery_policy  |-> DefaultPolicy]}
<1> DEFINE i == m.identity
           F == [miner_id         |-> Mac(m.identity.miner_id, "colons"),
                 hostname         |-> OptionalJson(m.identity.hostname),
                 asic_model       |-> OptionalJson(m.identity.asic_model),
                 board_version    |-> OptionalJson(m.identity.board_version),
                 firmware_version |-> OptionalJson(m.identity.firmware_version),
                 host             |-> Address(m.host),
                 display_name     |-> OptionalJson(m.display_name),
                 enabled          |-> Bool(m.enabled),
                 recovery_policy  |-> SerializePolicy(m.recovery_policy),
                 recovery_profile |-> SerializeProfile(m.recovery_profile)]
<1>1. SerializeMiner(m) = Object(F) /\ Object(F).kind = "object" /\ Object(F).fields = F
  BY DEF SerializeMiner, Object
<1>2. /\ Get(F, "miner_id") = Mac(i.miner_id, "colons")
      /\ Get(F, "hostname") = OptionalJson(i.hostname)
      /\ Get(F, "asic_model") = OptionalJson(i.asic_model)
      /\ Get(F, "board_version") = OptionalJson(i.board_version)
      /\ Get(F, "firmware_version") = OptionalJson(i.firmware_version)
      /\ Get(F, "host") = Address(m.host)
      /\ Get(F, "display_name") = OptionalJson(m.display_name)
      /\ "enabled" \in DOMAIN F /\ F["enabled"] = Bool(m.enabled)
      /\ Get(F, "recovery_policy") = SerializePolicy(m.recovery_policy)
      /\ Get(F, "recovery_profile") = SerializeProfile(m.recovery_profile)
  BY DEF Get
<1> HIDE DEF F
<1>3. StoredIdentity(F) = {i}
  <2> DEFINE parsed ==
        [miner_id         |-> NormalizedMinerId(Get(F, "miner_id")),
         hostname         |-> StoredHostname(Get(F, "hostname")),
         asic_model       |-> StoredOptionalText(Get(F, "asic_model")),
         board_version    |-> StoredOptionalText(Get(F, "board_version")),
         firmware_version |-> StoredOptionalText(Get(F, "firmware_version"))]
  <2> HIDE DEF i
  <2>1. IsIdentity(i)
    BY DEF i
  <2>2. NormalizedMinerId(Mac(i.miner_id, "colons")) = {i.miner_id}
    BY <2>1 DEF NormalizedMinerId, Mac, IsIdentity
  <2>3. /\ StoredOptionalText(OptionalJson(i.hostname)) = {i.hostname}
        /\ StoredOptionalText(OptionalJson(i.asic_model)) = {i.asic_model}
        /\ StoredOptionalText(OptionalJson(i.board_version)) = {i.board_version}
        /\ StoredOptionalText(OptionalJson(i.firmware_version)) = {i.firmware_version}
    BY <2>1, TextReload DEF IsIdentity
  <2>4. StoredHostname(OptionalJson(i.hostname)) = {i.hostname}
    BY <2>1, <2>3 DEF StoredHostname, IsIdentity
  <2>5. parsed = [miner_id         |-> {i.miner_id},
                  hostname         |-> {i.hostname},
                  asic_model       |-> {i.asic_model},
                  board_version    |-> {i.board_version},
                  firmware_version |-> {i.firmware_version}]
    BY <1>2, <2>2, <2>3, <2>4 DEF i
  <2>6. /\ i = [k \in DOMAIN parsed |-> i[k]]
        /\ \A k \in DOMAIN parsed : parsed[k] = {i[k]}
    <3> HIDE DEF parsed
    <3> QED
      BY <2>1, <2>5 DEF IsIdentity
  <2>7. AllOf(parsed) = {i}
    <3> HIDE DEF parsed
    <3> QED
      BY <2>6, AllOfSingles
  <2> QED
    BY <2>7 DEF StoredIdentity
<1>4. ParsedPrivateHost(Get(F, "host")) = {m.host}
  BY <1>2 DEF ParsedPrivateHost, Address
<1>5. StoredOptionalText(Get(F, "display_name")) = {m.display_name}
  BY <1>2, TextReload
<1>6. StoredBool(F["enabled"]) = {m.enabled}
  BY <1>2, BoolReload
<1>7. DeserializeProfile(Get(F, "recovery_profile")) = {m.recovery_profile}
  BY <1>2, ProfileReload
<1>8. DeserializePolicy(Get(F, "recovery_policy")) = {m.recovery_policy}
  BY <1>2, PolicyReload
<1>9. ASSUME NEW legacy \in BOOLEAN, NEW r,
             r = [identity         |-> m.identity,
                  host             |-> m.host,
                  display_name     |-> IF legacy THEN None ELSE m.display_name,
                  enabled          |-> IF legacy THEN TRUE ELSE m.enabled,
                  recovery_profile |-> IF legacy THEN None ELSE m.recovery_profile,
                  recovery_policy  |-> IF legacy THEN DefaultPolicy ELSE m.recovery_policy]
      PROVE  DeserializeMiner(Object(F), legacy) = {r}
  <2> DEFINE parsed ==
        [identity |-> StoredIdentity(F),
         host     |-> ParsedPrivateHost(Get(F, "host")),
         display_name |->
           IF legacy THEN {None} ELSE StoredOptionalText(Get(F, "display_name")),
         enabled |->
           IF legacy \/ "enabled" \notin DOMAIN F THEN {TRUE} ELSE StoredBool(F["enabled"]),
         recovery_profile |->
           IF legacy THEN {None} ELSE DeserializeProfile(Get(F, "recovery_profile")),
         recovery_policy |->
           IF legacy THEN {DefaultPolicy}
           ELSE DeserializePolicy(Get(F, "recovery_policy"))]
  <2>1. parsed = [identity         |-> {r.identity},
                  host             |-> {r.host},
                  display_name     |-> {r.display_name},
                  enabled          |-> {r.enabled},
                  recovery_profile |-> {r.recovery_profile},
                  recovery_policy  |-> {r.recovery_policy}]
    BY <1>2, <1>3, <1>4, <1>5, <1>6, <1>7, <1>8, <1>9
  <2>2. /\ r = [k \in DOMAIN parsed |-> r[k]]
        /\ \A k \in DOMAIN parsed : parsed[k] = {r[k]}
    <3> HIDE DEF parsed
    <3>1. r = [identity         |-> r.identity,
               host             |-> r.host,
               display_name     |-> r.display_name,
               enabled          |-> r.enabled,
               recovery_profile |-> r.recovery_profile,
               recovery_policy  |-> r.recovery_policy]
      BY <1>9
    <3> QED
      BY <2>1, <3>1
  <2>3. AllOf(parsed) = {r}
    <3> HIDE DEF parsed
    <3> QED
      BY <2>2, AllOfSingles
  <2> QED
    BY <1>1, <2>3 DEF DeserializeMiner
<1>10. DeserializeMiner(Object(F), FALSE) = {m}
  BY <1>9
<1>11. DeserializeMiner(Object(F), TRUE) =
         {[identity         |-> m.identity,
           host             |-> m.host,
           display_name     |-> None,
           enabled          |-> TRUE,
           recovery_profile |-> None,
           recovery_policy  |-> DefaultPolicy]}
  BY <1>9
<1> QED
  BY <1>1, <1>10, <1>11

LEMMA DefaultPolicyIsPolicy == IsPolicy(DefaultPolicy)
<1>1. /\ 180 \in Within(0, 3600) /\ 3 \in Within(1, 20) /\ 600 \in Within(0, 86400)
      /\ 3600 \in Within(60, 604800) /\ 180 \in Within(30, 3600)
      /\ 60 \in Within(10, 3600)
  <2>1. \A a, b, n \in Int : a <= n /\ n <= b => n \in Within(a, b)
    BY DEF Within
  <2> QED
    BY <2>1
<1>2. DefaultPolicy = [f \in PolicyKeys |-> DefaultPolicy[f]]
  BY DEF DefaultPolicy, PolicyKeys, PolicyBounds, PolicySwitches
<1>3. \A f \in DOMAIN PolicyBounds : DefaultPolicy[f] \in PolicyBounds[f]
  BY <1>1 DEF DefaultPolicy, PolicyBounds
<1>4. /\ \A f \in PolicySwitches : DefaultPolicy[f] \in BOOLEAN
      /\ DefaultPolicy["overheat_policy"] \in OverheatPolicy
  BY DEF DefaultPolicy, PolicySwitches, OverheatPolicy
<1> QED
  BY <1>2, <1>3, <1>4 DEF IsPolicy


-----------------------------------------------------------------------------
(* The device that took over the body of the PATCH.                        *)

(* An accepted body is parsed in four parts. *)
LEMMA InfoParsed ==
  ASSUME NEW fields
  PROVE  /\ ParseSystemInfo(Object(fields)) # {} <=>
              {} \notin {ParsedIdentity(fields), ParsedTelemetry(fields),
                        ParsedFields(ConfigurationSchema, fields),
                        ParsedFields(HealthSchema, fields)}
         /\ \A s \in ParseSystemInfo(Object(fields)) :
              /\ s.identity \in ParsedIdentity(fields)
              /\ s.configuration \in ParsedFields(ConfigurationSchema, fields)
<1> DEFINE parsed == [identity      |-> ParsedIdentity(fields),
                      telemetry     |-> ParsedTelemetry(fields),
                      configuration |-> ParsedFields(ConfigurationSchema, fields),
                      health        |-> ParsedFields(HealthSchema, fields)]
<1>1. ParseSystemInfo(Object(fields)) = AllOf(parsed)
  BY DEF ParseSystemInfo, Object
<1>2. AllOf(parsed) # {} <=> \A k \in DOMAIN parsed : parsed[k] # {}
  <2> HIDE DEF parsed
  <2> QED
    BY DEF AllOf
<1>3. (\A k \in DOMAIN parsed : parsed[k] # {}) <=>
        {} \notin {ParsedIdentity(fields), ParsedTelemetry(fields),
                  ParsedFields(ConfigurationSchema, fields),
                  ParsedFields(HealthSchema, fields)}
  OBVIOUS
<1>4. \A s \in AllOf(parsed) : \A k \in DOMAIN parsed : s[k] \in parsed[k]
  <2> HIDE DEF parsed
  <2> QED
    BY AllOfFields
<1>5. \A s \in AllOf(parsed) :
        /\ s.identity \in ParsedIdentity(fields)
        /\ s.configuration \in ParsedFields(ConfigurationSchema, fields)
  BY <1>4
<1> QED
  BY <1>1, <1>2, <1>3, <1>5

(* The settings are read as those of the profile. *)
LEMMA PatchParsed ==
  ASSUME NEW p, IsProfile(p)
  PROVE  LET Read(f) == Parsed(ConfigurationSchema[f], PatchBody(p)[f])
         IN  /\ Read("frequency") = {p.frequency_mhz}
             /\ Read("coreVoltage") = {p.core_voltage_mv}
             /\ Read("overclockEnabled") = {p.overclock_enabled}
             /\ Read("autofanspeed") = {p.automatic_fan_speed}
             /\ Read("temptarget") = {p.target_temperature_c}
             /\ Read("minFanSpeed") = {p.minimum_fan_speed_percent}
<1> DEFINE Flag(b) == Integer(IF b THEN 1 ELSE 0)
<1>1. ASSUME NEW allowed, NEW h \in allowed PROVE Parsed(NumberIn(allowed), Float(h)) = {h}
  <2>1. ParsedNumber(Float(h)) = {h} /\ Float(h) # Null
    BY DEF ParsedNumber, Float, Null
  <2> QED
    BY <2>1 DEF Parsed, NumberIn, OptionalNumber
<1>2. ASSUME NEW allowed, NEW n \in allowed, n \in Int
      PROVE  Parsed(WholeIn(allowed), Integer(n)) = {n}
  <2>1. ParsedNumber(Integer(n)) = {2 * n} /\ Integer(n) # Null
    BY DEF ParsedNumber, Integer, Null
  <2>2. Whole({2 * n}) = {n}
    <3>1. (2 * n) % 2 = 0 /\ (2 * n) \div 2 = n
      BY <1>2
    <3> QED
      BY <3>1 DEF Whole
  <2> QED
    BY <2>1, <2>2 DEF Parsed, WholeIn, OptionalInt
<1>3. \A b \in BOOLEAN : Parsed(SwitchField, Flag(b)) = {b}
  <2>1. OptionalBool(Integer(1)) = {TRUE}
    <3>1. Integer(1) \in FormsOf(TRUE) /\ Integer(1) \notin FormsOf(FALSE) /\ Integer(1) # Null
      BY DEF FormsOf, Bool, Integer, Float, Numeral, Null
    <3> QED
      BY <3>1 DEF OptionalBool
  <2>2. OptionalBool(Integer(0)) = {FALSE}
    <3>1. Integer(0) \in FormsOf(FALSE) /\ Integer(0) \notin FormsOf(TRUE) /\ Integer(0) # Null
      BY DEF FormsOf, Bool, Integer, Float, Numeral, Null
    <3> QED
      BY <3>1 DEF OptionalBool
  <2>3. \A v : Parsed(SwitchField, v) = OptionalBool(v)
    BY DEF Parsed, SwitchField
  <2> QED
    BY <2>1, <2>2, <2>3
<1>4. /\ ConfigurationSchema["frequency"] = NumberIn(Within(2, 20000))
      /\ ConfigurationSchema["coreVoltage"] = WholeIn(Within(1, 10000))
      /\ ConfigurationSchema["overclockEnabled"] = SwitchField
      /\ ConfigurationSchema["autofanspeed"] = SwitchField
      /\ ConfigurationSchema["temptarget"] = WholeIn(Within(0, 100))
      /\ ConfigurationSchema["minFanSpeed"] = WholeIn(Within(0, 100))
  BY DEF ConfigurationSchema
<1>5. /\ PatchBody(p)["frequency"] = Float(p.frequency_mhz)
      /\ PatchBody(p)["coreVoltage"] = Integer(p.core_voltage_mv)
      /\ PatchBody(p)["overclockEnabled"] = Flag(p.overclock_enabled)
      /\ PatchBody(p)["autofanspeed"] = Flag(p.automatic_fan_speed)
      /\ PatchBody(p)["temptarget"] = Integer(p.target_temperature_c)
      /\ PatchBody(p)["minFanSpeed"] = Integer(p.minimum_fan_speed_percent)
  BY DEF PatchBody
<1> HIDE DEF Flag
<1> QED
  BY <1>1, <1>2, <1>3, <1>4, <1>5, ProfileInts DEF IsProfile

LEMMA PatchReadBack ==
  ASSUME NEW fields, NEW s \in ParseSystemInfo(Object(fields)),
         NEW p \in ToRecoveryProfile(s.configuration), p # None,
         NEW patched,
         patched = [f \in DOMAIN fields \cup DOMAIN PatchBody(p) |->
                      Get(IF f \in DOMAIN PatchBody(p) THEN PatchBody(p) ELSE fields, f)]
  PROVE  /\ ParseSystemInfo(Object(patched)) # {}
         /\ \A t \in ParseSystemInfo(Object(patched)) :
              ToRecoveryProfile(t.configuration) = {p}
<1> DEFINE B == PatchBody(p)
           Settings == {"frequency", "coreVoltage", "overclockEnabled", "autofanspeed",
                        "temptarget", "minFanSpeed"}
<1>1. IsProfile(p) /\ \A f \in ProfileFields : p[f] # None
  BY InfoParsed, ProfileMade
<1>2. DOMAIN B = Settings
  BY DEF PatchBody
<1> HIDE DEF B
<1>3. /\ \A f \in Settings : Get(patched, f) = B[f]
      /\ \A f : f \notin Settings => Get(patched, f) = Get(fields, f)
  BY <1>2 DEF Get, B
<1>4. Settings \cap (DOMAIN TelemetrySchema \cup DOMAIN HealthSchema \cup OtherKeys) = {}
  BY DEF TelemetrySchema, HealthSchema, OtherKeys, Amounts, Percentages, Counters
<1>5. DOMAIN ConfigurationSchema = Settings \cup {"manualFanSpeed"}
  BY DEF ConfigurationSchema
<1> HIDE DEF Settings
<1>6. /\ ParsedIdentity(patched) = ParsedIdentity(fields)
      /\ ParsedTelemetry(patched) = ParsedTelemetry(fields)
      /\ ParsedFields(HealthSchema, patched) = ParsedFields(HealthSchema, fields)
  <2>1. "macAddr" \in OtherKeys
    BY DEF OtherKeys
  <2> QED
    BY <1>3, <1>4, <2>1, PartsAlike DEF ReadAlike
<1>7. \A f \in Settings : Parsed(ConfigurationSchema[f], B[f]) # {}
  BY <1>1, PatchParsed DEF B, Settings
<1>8. ParsedFields(ConfigurationSchema, patched) # {}
  <2>1. ASSUME NEW f \in DOMAIN ConfigurationSchema
        PROVE  Parsed(ConfigurationSchema[f], Get(patched, f)) # {}
    <3>1. CASE f \in Settings
      BY <1>3, <1>7, <3>1
    <3>2. CASE f \notin Settings
      <4>1. ParsedFields(ConfigurationSchema, fields) # {}
        BY InfoParsed
      <4>2. Parsed(ConfigurationSchema[f], Get(fields, f)) # {}
        BY <4>1 DEF ParsedFields, AllOf
      <4> QED
        BY <1>3, <3>2, <4>2
    <3> QED
      BY <3>1, <3>2
  <2> QED
    BY <2>1 DEF ParsedFields, AllOf
<1>9. ParseSystemInfo(Object(patched)) # {}
  <2>1. {} \notin {ParsedIdentity(fields), ParsedTelemetry(fields),
                  ParsedFields(HealthSchema, fields)}
    BY InfoParsed
  <2> QED
    BY <1>6, <1>8, <2>1, InfoParsed
<1>10. ASSUME NEW t \in ParseSystemInfo(Object(patched))
       PROVE  ToRecoveryProfile(t.configuration) = {p}
  <2> DEFINE c == t.configuration
             parsed == [f \in DOMAIN ConfigurationSchema |->
                          Parsed(ConfigurationSchema[f], Get(patched, f))]
             made == [frequency_mhz             |-> c.frequency,
                      core_voltage_mv           |-> c.coreVoltage,
                      overclock_enabled         |-> c.overclockEnabled,
                      automatic_fan_speed       |-> c.autofanspeed,
                      target_temperature_c      |-> c.temptarget,
                      minimum_fan_speed_percent |-> c.minFanSpeed]
  <2>1. c \in AllOf(parsed)
    BY InfoParsed DEF ParsedFields
  <2>2. \A f \in DOMAIN parsed : c[f] \in parsed[f]
    <3> HIDE DEF parsed, c
    <3> QED
      BY <2>1, AllOfFields
  <2> HIDE DEF c
  <2>3. \A f \in Settings : c[f] \in Parsed(ConfigurationSchema[f], B[f])
    BY <1>3, <1>5, <2>2
  <2>4. made = p
    BY <1>1, <2>3, PatchParsed DEF B, Settings, IsProfile
  <2>5. ToRecoveryProfile(c) = IF \E f \in ProfileFields : made[f] = None THEN {None}
                               ELSE RecoveryProfile(made)
    BY Zenon DEF ToRecoveryProfile
  <2> HIDE DEF made
  <2> QED
    BY <1>1, <2>4, <2>5, ProfileConstructed DEF c
<1> QED
  BY <1>9, <1>10

(* What a device reports, an operator approves or the panel sends comes    *)
(* back the same from storage, from the device and from the panel, and of  *)
(* a record of version 1 the identity and the address (storage.py:368,     *)
(* axeos/client.py:104, websocket.py:594).                                 *)
THEOREM SettingsSurvive == Spec => []SettingsSurviveEveryForm
<1>1. Answered => SettingsSurviveEveryForm
  <2> SUFFICES ASSUME Answered PROVE SettingsSurviveEveryForm
    OBVIOUS
  <2>1. ASSUME call.to = "policy_from_message", NEW p \in result
        PROVE  /\ DeserializePolicy(SerializePolicy(p)) = {p}
               /\ PolicyDto(p) = call.message
               /\ PolicyFromMessage(PolicyDto(p)) = {p}
    <3>1. call.message \in Messages /\ p \in PolicyFromMessage(call.message)
      BY <2>1 DEF Answered
    <3> QED
      BY <3>1, PolicyAccepted, PolicyReload DEF PolicyDto
  <2>2. ASSUME call.to = "parse_system_info", NEW s \in result, NEW h \in PrivateHosts
        PROVE  LET profiles == ToRecoveryProfile(s.configuration)
                   miner(p) == [identity |-> s.identity, host |-> h,
                                display_name |-> s.identity.hostname,
                                enabled |-> FALSE, recovery_profile |-> p,
                                recovery_policy |-> DefaultPolicy]
                   patched(p) == [f \in DOMAIN call.body.fields \cup DOMAIN PatchBody(p) |->
                                    Get(IF f \in DOMAIN PatchBody(p) THEN PatchBody(p)
                                        ELSE call.body.fields, f)]
               IN  /\ profiles # {}
                   /\ \A p \in profiles :
                        /\ Reloaded(miner(p)) = {miner(p)}
                        /\ DeserializeMiner(SerializeMiner(miner(p)), TRUE) =
                             {[miner(p) EXCEPT !.display_name = None, !.enabled = TRUE,
                                               !.recovery_profile = None]}
                        /\ p # None =>
                             {ToRecoveryProfile(t.configuration) :
                                t \in ParseSystemInfo(Object(patched(p)))} = {{p}}
    <3> DEFINE fields == call.body.fields
               c == s.configuration
               miner(p) == [identity |-> s.identity, host |-> h,
                            display_name |-> s.identity.hostname,
                            enabled |-> FALSE, recovery_profile |-> p,
                            recovery_policy |-> DefaultPolicy]
               patched(p) == [f \in DOMAIN fields \cup DOMAIN PatchBody(p) |->
                                Get(IF f \in DOMAIN PatchBody(p) THEN PatchBody(p)
                                    ELSE fields, f)]
    <3>1. s \in ParseSystemInfo(Object(fields))
      BY <2>2 DEF Answered
    <3>2. IsIdentity(s.identity) /\ c \in ParsedFields(ConfigurationSchema, fields)
      BY <3>1, InfoParsed, IdentityParsed
    <3>3. ToRecoveryProfile(c) # {}
      BY <3>2, ProfileMade
    <3>4. ASSUME NEW p \in ToRecoveryProfile(c)
          PROVE  /\ Reloaded(miner(p)) = {miner(p)}
                 /\ DeserializeMiner(SerializeMiner(miner(p)), TRUE) =
                      {[miner(p) EXCEPT !.display_name = None, !.enabled = TRUE,
                                        !.recovery_profile = None]}
      <4> DEFINE m == miner(p)
      <4>1. /\ m.identity = s.identity /\ m.host = h /\ m.enabled = FALSE
            /\ m.display_name = s.identity.hostname
            /\ m.recovery_profile = p /\ m.recovery_policy = DefaultPolicy
        OBVIOUS
      <4>2. m = [identity         |-> m.identity,
                 host             |-> m.host,
                 display_name     |-> m.display_name,
                 enabled          |-> m.enabled,
                 recovery_profile |-> m.recovery_profile,
                 recovery_policy  |-> m.recovery_policy]
        OBVIOUS
      <4>3. Words(s.identity.hostname)
        BY <3>2 DEF IsIdentity
      <4>4. p = None \/ IsProfile(p)
        BY <3>2, ProfileMade
      <4> HIDE DEF m
      <4>5. [m EXCEPT !.display_name = None, !.enabled = TRUE, !.recovery_profile = None]
                 = [identity         |-> m.identity,
                    host             |-> m.host,
                    display_name     |-> None,
                    enabled          |-> TRUE,
                    recovery_profile |-> None,
                    recovery_policy  |-> DefaultPolicy]
        <5>1. DOMAIN m = {"identity", "host", "display_name", "enabled", "recovery_profile",
                          "recovery_policy"}
          BY <4>2
        <5> DEFINE old == [m EXCEPT !.display_name = None, !.enabled = TRUE,
                                    !.recovery_profile = None]
        <5>2. old = [k \in DOMAIN m |-> old[k]]
          OBVIOUS
        <5>3. /\ old.identity = m.identity /\ old.host = m.host
              /\ old.recovery_policy = m.recovery_policy
          BY <5>1
        <5>4. /\ old.display_name = None /\ old.enabled = TRUE
              /\ old.recovery_profile = None
          BY <5>1
        <5> HIDE DEF old
        <5>5. old = [identity         |-> m.identity,
                     host             |-> m.host,
                     display_name     |-> None,
                     enabled          |-> TRUE,
                     recovery_profile |-> None,
                     recovery_policy  |-> DefaultPolicy]
          BY <4>1, <5>1, <5>2, <5>3, <5>4
        <5> QED
          BY <5>5 DEF old
      <4>6. /\ DeserializeMiner(SerializeMiner(m), FALSE) = {m}
            /\ DeserializeMiner(SerializeMiner(m), TRUE) =
                 {[identity         |-> m.identity,
                   host             |-> m.host,
                   display_name     |-> None,
                   enabled          |-> TRUE,
                   recovery_profile |-> None,
                   recovery_policy  |-> DefaultPolicy]}
        BY <3>2, <4>1, <4>2, <4>3, <4>4, DefaultPolicyIsPolicy, MinerReload
      <4>7. /\ Reloaded(m) = {m}
            /\ DeserializeMiner(SerializeMiner(m), TRUE) =
                 {[m EXCEPT !.display_name = None, !.enabled = TRUE,
                            !.recovery_profile = None]}
        BY <4>5, <4>6 DEF Reloaded
      <4> QED
        BY <4>7 DEF m
    <3>5. ASSUME NEW p \in ToRecoveryProfile(c), p # None
          PROVE  {ToRecoveryProfile(t.configuration) :
                    t \in ParseSystemInfo(Object(patched(p)))} = {{p}}
      <4> DEFINE body == patched(p)
      <4>1. body = [f \in DOMAIN fields \cup DOMAIN PatchBody(p) |->
                      Get(IF f \in DOMAIN PatchBody(p) THEN PatchBody(p) ELSE fields, f)]
        OBVIOUS
      <4> HIDE DEF body
      <4>2. /\ ParseSystemInfo(Object(body)) # {}
            /\ \A t \in ParseSystemInfo(Object(body)) :
                 ToRecoveryProfile(t.configuration) = {p}
        BY <3>1, <3>5, <4>1, PatchReadBack
      <4> QED
        BY <4>2 DEF body
    <3> QED
      BY <3>3, <3>4, <3>5
  <2> QED
    BY <2>1, <2>2 DEF SettingsSurviveEveryForm
<1> QED
  BY <1>1, AnsweredAlways, PTL
=============================================================================
