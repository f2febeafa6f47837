------------------------------ MODULE Hub_proofs ------------------------------
(***************************************************************************)
(* Proofs about the hub as a whole, for every configuration, every length  *)
(* of the window and every bound: what the code generation makes of a      *)
(* configuration meets what the entities rely on, the invariant of the     *)
(* hub, the repair of losses, and that it implements the mirror.           *)
(*                                                                         *)
(* What a handler does to its entity is taken from the proofs about the    *)
(* entities, each with the Hub's variables in place of its own.            *)
(***************************************************************************)
EXTENDS Hub, SequenceTheorems, TLAPS

ClimateProofs == INSTANCE ClimateEntity_proofs
  WITH ready <- climate_ready, sent <- climate_sent

SettingProofs == INSTANCE SettingSync_proofs
  WITH sent <- setting_sent, sources <- origins, asked <- origins, kept <- origins,
       overlapped <- origins, Registers <- [e \in Setting |-> Int], MaxAutomations <- 0,
       MaxPanel <- MaxTroubles, MaxLosses <- MaxTroubles, MaxReboots <- MaxTroubles

MirrorProofs == INSTANCE Mirror_proofs
  WITH Together <- {{e} : e \in Setting} \cup SUBSET Climate!Message,
       Value <- RegisterValue, shown <- Shown, held <- device, flight <- Flight,
       open <- armed, acts <- spent.command + spent.panel

(***************************************************************************)
(* What the code generation makes of a configuration.                      *)
(***************************************************************************)

\* Ids and messages are paired one to one.
LEMMA IdsPaired ==
  ASSUME NEW m \in DOMAIN MessageId
  PROVE  MessageOf(MessageId[m]) = m
<1>1. \A x, y \in DOMAIN MessageId : MessageId[x] = MessageId[y] => x = y
  BY DEF MessageId
<1>2. MessageOf(MessageId[m]) \in DOMAIN MessageId
      /\ MessageId[MessageOf(MessageId[m])] = MessageId[m]
  BY DEF MessageOf
<1> QED BY <1>1, <1>2

\* Every row of the table of numbers names the id of a temperature.
LEMMA NumberRows ==
  ASSUME NEW k \in DOMAIN NUMBER_SETTINGS
  PROVE  \E m \in Entities!TemperatureSetting :
           m \in DOMAIN MessageId /\ NUMBER_SETTINGS[k].msg_id = MessageId[m]
BY DEF NUMBER_SETTINGS, MessageId, Entities!TemperatureSetting

\* Every row of the table of selects names the id of a byte.
LEMMA SelectRows ==
  ASSUME NEW k \in DOMAIN SELECT_SETTINGS
  PROVE  \E m \in Entities!ByteSetting :
           m \in DOMAIN MessageId /\ SELECT_SETTINGS[k].msg_id = MessageId[m]
BY DEF SELECT_SETTINGS, MessageId, Entities!ByteSetting

\* What is generated for a message is the row of its id.
LEMMA RowOf ==
  ASSUME NEW table, NEW m \in DOMAIN Generated(table),
         \A k \in DOMAIN table : \E x \in DOMAIN MessageId : table[k].msg_id = MessageId[x]
  PROVE  \E k \in DOMAIN table : /\ Generated(table)[m] = table[k]
                                 /\ table[k].msg_id = MessageId[m]
                                 /\ m \in DOMAIN MessageId
<1>1. PICK k \in DOMAIN table \ Disabled : m = MessageOf(table[k].msg_id)
  BY DEF Generated
<1>2. PICK x \in DOMAIN MessageId : table[k].msg_id = MessageId[x]
  BY <1>1
<1>3. m = x
  BY <1>1, <1>2, IdsPaired
<1> DEFINE row == CHOOSE q \in DOMAIN table : table[q].msg_id = MessageId[m]
<1>4. row \in DOMAIN table /\ table[row].msg_id = MessageId[m]
  BY <1>1, <1>2, <1>3
<1>5. Generated(table)[m] = table[row]
  BY DEF Generated
<1> QED BY <1>2, <1>3, <1>4, <1>5

\* A generated number is bound to a temperature setting and starts at an integer.
LEMMA NumbersOK ==
  ASSUME NEW n \in Numbers, ValuesInRange
  PROVE  n \in Entities!TemperatureSetting /\ initial_value_[n] \in Int /\ Values[n] \subseteq Int
<1>1. PICK k \in DOMAIN NUMBER_SETTINGS :
        NumberEntities[n] = NUMBER_SETTINGS[k] /\ NUMBER_SETTINGS[k].msg_id = MessageId[n]
        /\ n \in DOMAIN MessageId
  BY RowOf, NumberRows DEF Numbers, NumberEntities
<1>2. n \in Entities!TemperatureSetting
  BY <1>1, NumberRows, IdsPaired
<1>3. NumberEntities[n].initial_value \in Int /\ NumberEntities[n].lo \in Int /\ NumberEntities[n].hi \in Int
  BY <1>1 DEF NUMBER_SETTINGS
<1>4. initial_value_[n] \in Int
  BY <1>3, FineAssumption DEF initial_value_
<1>5. Range_(n) \subseteq Int
  BY <1>3, FineAssumption DEF Range_
<1> QED BY <1>2, <1>4, <1>5 DEF ValuesInRange

\* A generated select is bound to a byte setting; its bytes are distinct and its
\* initial option exists.
LEMMA SelectsOK ==
  ASSUME NEW s \in Selects
  PROVE  /\ s \in Entities!ByteSetting
         /\ option_bytes_[s] \in Seq(0 .. 255)
         /\ \A i, j \in 1 .. Len(option_bytes_[s]) :
              option_bytes_[s][i] = option_bytes_[s][j] => i = j
         /\ s \in Restored => initial_index_[s] \in 1 .. Len(option_bytes_[s])
<1>1. PICK k \in DOMAIN SELECT_SETTINGS :
        SelectEntities[s] = SELECT_SETTINGS[k] /\ SELECT_SETTINGS[k].msg_id = MessageId[s]
        /\ s \in DOMAIN MessageId
  BY RowOf, SelectRows DEF Selects, SelectEntities
<1>2. s \in Entities!ByteSetting
  BY <1>1, SelectRows, IdsPaired
<1>3. option_bytes_[s] = SELECT_SETTINGS[k].options
  BY <1>1 DEF option_bytes_
<1>4. s \in Restored => initial_index_[s] = SELECT_SETTINGS[k].initial_index + 1
  BY <1>1 DEF initial_index_
<1>5. CASE k = "system_mode"
  <2>1. option_bytes_[s] = <<0, 1, 2, 3>> /\ (s \in Restored => initial_index_[s] = 1)
    BY <1>3, <1>4, <1>5 DEF SELECT_SETTINGS
  <2> QED BY <1>2, <2>1
<1>6. CASE k = "display_unit"
  <2>1. option_bytes_[s] = <<2, 3>> /\ (s \in Restored => initial_index_[s] = 1)
    BY <1>3, <1>4, <1>6 DEF SELECT_SETTINGS
  <2> QED BY <1>2, <2>1
<1> QED BY <1>5, <1>6 DEF SELECT_SETTINGS

\* Whatever is disabled, the generated entities meet what SettingEntities relies
\* on: ids of known messages, one option per byte, initial values that exist.
THEOREM GeneratedOK ==
  ASSUME ValuesInRange
  PROVE  Entities!ConfigurationOK
<1>1. Restored \subseteq Selects
  BY DEF Restored
<1>2. /\ \A n \in Numbers : Values[n] \subseteq Int /\ initial_value_[n] \in Int
      /\ Numbers \subseteq Entities!TemperatureSetting
  BY NumbersOK
<1>3. /\ \A s \in Selects :
           /\ option_bytes_[s] \in Seq(0 .. 255)
           /\ \A i, j \in 1 .. Len(option_bytes_[s]) :
                option_bytes_[s][i] = option_bytes_[s][j] => i = j
      /\ Selects \subseteq Entities!ByteSetting
  BY SelectsOK
<1>4. \A s \in Restored : initial_index_[s] \in 1 .. Len(option_bytes_[s])
  BY <1>1, SelectsOK
<1> QED BY <1>1, <1>2, <1>3, <1>4, FineAssumption DEF Entities!ConfigurationOK

(***************************************************************************)
(* The instances of one module define the same.                            *)
(***************************************************************************)

LEMMA SameClimateTables ==
  /\ Climate!Message = ClimateProofs!Message
  /\ Climate!Nothing = ClimateProofs!Nothing
  /\ Climate!ActiveMode = ClimateProofs!ActiveMode
  /\ Climate!SupportedMode = ClimateProofs!SupportedMode
  /\ Climate!FanMode = ClimateProofs!FanMode
  /\ Climate!DeviceMode = ClimateProofs!DeviceMode
  /\ Climate!DeviceFan = ClimateProofs!DeviceFan
  /\ Climate!Unknown = ClimateProofs!Unknown
  /\ Climate!device_mode_to_climate = ClimateProofs!device_mode_to_climate
  /\ Climate!device_fan_to_climate = ClimateProofs!device_fan_to_climate
  /\ Climate!FactoryState = ClimateProofs!FactoryState
  /\ Climate!Temperature = ClimateProofs!Temperature
  BY Zenon DEF Climate!Message, ClimateProofs!Message, Climate!Nothing,
       ClimateProofs!Nothing, Climate!ActiveMode, ClimateProofs!ActiveMode,
       Climate!SupportedMode, ClimateProofs!SupportedMode, Climate!FanMode,
       ClimateProofs!FanMode, Climate!DeviceMode, ClimateProofs!DeviceMode,
       Climate!DeviceFan, ClimateProofs!DeviceFan, Climate!Unknown,
       ClimateProofs!Unknown, Climate!device_mode_to_climate,
       ClimateProofs!device_mode_to_climate, Climate!device_fan_to_climate,
       ClimateProofs!device_fan_to_climate, Climate!FactoryState,
       ClimateProofs!FactoryState, Climate!Temperature, ClimateProofs!Temperature

LEMMA SameClimateConversions ==
  /\ \A t : Climate!ToTenths(t) = ClimateProofs!ToTenths(t)
  /\ \A n : Climate!FromTenths(n) = ClimateProofs!FromTenths(n)
  /\ \A m : Climate!climate_mode_to_device(m) = ClimateProofs!climate_mode_to_device(m)
  /\ \A f : Climate!climate_fan_to_device(f) = ClimateProofs!climate_fan_to_device(f)
  /\ \A p, a : Climate!FoldedMode(p, a) = ClimateProofs!FoldedMode(p, a)
  /\ \A S : Climate!Optional(S) = ClimateProofs!Optional(S)
  /\ \A v, S : Climate!IsOptional(v, S) <=> ClimateProofs!IsOptional(v, S)
  BY Zenon DEF Climate!ToTenths, ClimateProofs!ToTenths, Climate!FromTenths,
       ClimateProofs!FromTenths, Climate!climate_mode_to_device,
       ClimateProofs!climate_mode_to_device, Climate!climate_fan_to_device,
       ClimateProofs!climate_fan_to_device, Climate!FoldedMode, ClimateProofs!FoldedMode,
       Climate!Optional, ClimateProofs!Optional, Climate!IsOptional, ClimateProofs!IsOptional

LEMMA SameClimateContent ==
  /\ \A m, t, p, a, f : Climate!Content(m, t, p, a, f) = ClimateProofs!Content(m, t, p, a, f)
  /\ \A t, p, a, f : Climate!SyncMessages(t, p, a, f) = ClimateProofs!SyncMessages(t, p, a, f)
  /\ \A c : Climate!ControlMessages(c) = ClimateProofs!ControlMessages(c)
  /\ \A c : Climate!ToActive(c) <=> ClimateProofs!ToActive(c)
  /\ \A c : Climate!ToOff(c) <=> ClimateProofs!ToOff(c)
  BY Zenon DEF Climate!Content, ClimateProofs!Content, Climate!SyncMessages,
       ClimateProofs!SyncMessages, Climate!ControlMessages, ClimateProofs!ControlMessages,
       Climate!Transmits, ClimateProofs!Transmits, Climate!ToActive, ClimateProofs!ToActive,
       Climate!ToOff, ClimateProofs!ToOff, Climate!ActiveMode, ClimateProofs!ActiveMode,
       Climate!Message, ClimateProofs!Message, Climate!ToTenths, ClimateProofs!ToTenths,
       Climate!climate_mode_to_device, ClimateProofs!climate_mode_to_device,
       Climate!climate_fan_to_device, ClimateProofs!climate_fan_to_device

LEMMA SameClimateDevice ==
  /\ Climate!Registers = ClimateProofs!Registers
  /\ \A p, d : Climate!Apply(p, d) = ClimateProofs!Apply(p, d)
  /\ \A d : Climate!Visible(d) = ClimateProofs!Visible(d)
  /\ \A m : Climate!Value(m) = ClimateProofs!Value(m)
  BY SameClimateContent, SameClimateTables, Zenon DEF Climate!Registers, ClimateProofs!Registers,
       Climate!Apply, ClimateProofs!Apply, Climate!Visible, ClimateProofs!Visible,
       Climate!Value, ClimateProofs!Value, Climate!Message, ClimateProofs!Message,
       Climate!Unknown, ClimateProofs!Unknown, Climate!DeviceMode, ClimateProofs!DeviceMode,
       Climate!DeviceFan, ClimateProofs!DeviceFan

LEMMA SameClimateIInv == Climate!IInv <=> ClimateProofs!IInv
<1>1. Climate!State = ClimateProofs!State
  BY SameClimateTables, SameClimateConversions, Zenon DEF Climate!State, ClimateProofs!State
<1>2. Climate!TypeOK <=> ClimateProofs!TypeOK
  BY <1>1, SameClimateTables, SameClimateConversions, Zenon DEF Climate!TypeOK,
       ClimateProofs!TypeOK
<1>3. Climate!ModeFolded <=> ClimateProofs!ModeFolded
  BY SameClimateConversions, Zenon DEF Climate!ModeFolded, ClimateProofs!ModeFolded
<1>4. /\ Climate!Controllable <=> ClimateProofs!Controllable
      /\ Climate!NothingHidden <=> ClimateProofs!NothingHidden
  BY Zenon DEF Climate!Controllable, ClimateProofs!Controllable,
       Climate!NothingHidden, ClimateProofs!NothingHidden
<1>5. QED
  BY <1>2, <1>3, <1>4, Zenon DEF Climate!IInv, ClimateProofs!IInv

LEMMA SameClimateIInvNext == Climate!IInv' <=> ClimateProofs!IInv'
  BY SameClimateIInv, PTL

LEMMA SameClimateInit == Climate!Init <=> ClimateProofs!Init
  BY Zenon DEF Climate!Init, ClimateProofs!Init, Climate!Saveable, ClimateProofs!Saveable,
       Climate!Optional, ClimateProofs!Optional, Climate!Nothing, ClimateProofs!Nothing

LEMMA SameClimateSteps ==
  /\ Climate!Setup <=> ClimateProofs!Setup
  /\ Climate!SyncToDevice <=> ClimateProofs!SyncToDevice
  /\ \A c : Climate!Control(c) <=> ClimateProofs!Control(c)
  /\ \A m, v : Climate!Reflect(m, v) <=> ClimateProofs!Reflect(m, v)
  /\ Climate!Flush <=> ClimateProofs!Flush
  /\ Climate!Reboot <=> ClimateProofs!Reboot
<1>1. Climate!Restored = ClimateProofs!Restored
  BY SameClimateTables, Zenon DEF Climate!Restored, ClimateProofs!Restored
<1>2. Climate!Setup <=> ClimateProofs!Setup
  BY <1>1, SameClimateTables, SameClimateConversions, SameClimateContent, Zenon DEF Climate!Setup,
       ClimateProofs!Setup, Climate!publish_state, ClimateProofs!publish_state
<1>3. Climate!SyncToDevice <=> ClimateProofs!SyncToDevice
  BY SameClimateContent, Zenon DEF Climate!SyncToDevice, ClimateProofs!SyncToDevice,
       Climate!shown, ClimateProofs!shown
<1>4. \A c : Climate!Control(c) <=> ClimateProofs!Control(c)
  BY SameClimateConversions, SameClimateContent, Zenon DEF Climate!Control, ClimateProofs!Control,
       Climate!publish_state, ClimateProofs!publish_state
<1>5. \A m, v : Climate!Reflect(m, v) <=> ClimateProofs!Reflect(m, v)
  BY Zenon DEF Climate!Reflect, ClimateProofs!Reflect,
       Climate!PublishCurrentTemperature, ClimateProofs!PublishCurrentTemperature,
       Climate!PublishTargetTemperature, ClimateProofs!PublishTargetTemperature,
       Climate!PublishPower, ClimateProofs!PublishPower, Climate!PublishMode,
       ClimateProofs!PublishMode, Climate!PublishFanSpeed, ClimateProofs!PublishFanSpeed,
       Climate!PublishCombinedMode, ClimateProofs!PublishCombinedMode,
       Climate!publish_state, ClimateProofs!publish_state, Climate!FromTenths,
       ClimateProofs!FromTenths, Climate!FoldedMode, ClimateProofs!FoldedMode,
       Climate!Nothing, ClimateProofs!Nothing, Climate!DeviceMode, ClimateProofs!DeviceMode,
       Climate!DeviceFan, ClimateProofs!DeviceFan, Climate!device_mode_to_climate,
       ClimateProofs!device_mode_to_climate, Climate!device_fan_to_climate,
       ClimateProofs!device_fan_to_climate
<1>6. /\ Climate!Flush <=> ClimateProofs!Flush
      /\ Climate!Reboot <=> ClimateProofs!Reboot
  BY SameClimateTables, Zenon DEF Climate!Flush, ClimateProofs!Flush, Climate!Reboot,
       ClimateProofs!Reboot, Climate!shown, ClimateProofs!shown
<1>7. QED
  BY <1>2, <1>3, <1>4, <1>5, <1>6

LEMMA SameClimateCall == Climate!Call = ClimateProofs!Call
  BY SameClimateConversions, Zenon DEF Climate!Call, ClimateProofs!Call

LEMMA SameClimateRegisters ==
  /\ Climate!Registers = ClimateProofs!Registers
  /\ Climate!Registers' = ClimateProofs!Registers'
  BY SameClimateContent, SameClimateTables, Zenon
  DEF Climate!Registers, ClimateProofs!Registers

\* The assumptions under which the entity's lemmas hold.
LEMMA ClimateAssumptions ==
  /\ ClimateProofs!TemperatureAssumption
  /\ ClimateProofs!ModesAssumption
  /\ ClimateProofs!FansAssumption
  BY ClimateAssumption, SameClimateTables, Zenon
  DEF Climate!TemperatureAssumption, ClimateProofs!TemperatureAssumption,
      Climate!ModesAssumption, ClimateProofs!ModesAssumption,
      Climate!FansAssumption, ClimateProofs!FansAssumption

LEMMA SameSettings ==
  /\ Setting = SettingProofs!Setting
  /\ Entities!Setting = Setting
  /\ SettingProofs!Entities!Setting = Setting
  /\ Entities!Persistent = SettingProofs!Entities!Persistent
  /\ Entities!Nothing = SettingProofs!Entities!Nothing
  /\ Entities!TemperatureSetting = SettingProofs!Entities!TemperatureSetting
  /\ Entities!ByteSetting = SettingProofs!Entities!ByteSetting
  BY Zenon DEF Setting, SettingProofs!Setting, Entities!Setting,
       SettingProofs!Entities!Setting, Entities!Persistent,
       SettingProofs!Entities!Persistent, Entities!Nothing,
       SettingProofs!Entities!Nothing, Entities!TemperatureSetting,
       SettingProofs!Entities!TemperatureSetting, Entities!ByteSetting,
       SettingProofs!Entities!ByteSetting

LEMMA SameSettingValues ==
  /\ \A v : Entities!ToTenths(v) = SettingProofs!Entities!ToTenths(v)
  /\ \A v : Entities!FromTenths(v) = SettingProofs!Entities!FromTenths(v)
  /\ \A e : Entities!Indices(e) = SettingProofs!Entities!Indices(e)
  /\ \A e, b : Entities!IsMapped(e, b) <=> SettingProofs!Entities!IsMapped(e, b)
  /\ \A e, b : Entities!IndexOf(e, b) = SettingProofs!Entities!IndexOf(e, b)
  /\ \A v, S : Entities!IsOptional(v, S) <=> SettingProofs!Entities!IsOptional(v, S)
  /\ \A e, v : Entities!Shows(e, v) <=> SettingProofs!Entities!Shows(e, v)
  /\ \A e : Entities!Callable(e) = SettingProofs!Entities!Callable(e)
  /\ \A k, e, v : Entities!Call(k, e, v) = SettingProofs!Entities!Call(k, e, v)
  BY Zenon DEF Entities!ToTenths, SettingProofs!Entities!ToTenths,
       Entities!FromTenths, SettingProofs!Entities!FromTenths, Entities!Indices,
       SettingProofs!Entities!Indices, Entities!IsMapped,
       SettingProofs!Entities!IsMapped, Entities!IndexOf,
       SettingProofs!Entities!IndexOf, Entities!IsOptional,
       SettingProofs!Entities!IsOptional, Entities!Shows,
       SettingProofs!Entities!Shows, Entities!Callable,
       SettingProofs!Entities!Callable, Entities!Call, SettingProofs!Entities!Call

LEMMA SameSettingMessages ==
  /\ \A e, s : Entities!Message(e, s) = SettingProofs!Entities!Message(e, s)
  /\ \A e, s : Entities!Wire(e, s) = SettingProofs!Wire(e, s)
  /\ \A s : Entities!Messages(s) = SettingProofs!Entities!Messages(s)
<1>1. \A e, s : Entities!Message(e, s) = SettingProofs!Entities!Message(e, s)
  BY SameSettings, SameSettingValues, Zenon
  DEF Entities!Message, SettingProofs!Entities!Message, Entities!NumberMessage,
      SettingProofs!Entities!NumberMessage, Entities!SelectMessage,
      SettingProofs!Entities!SelectMessage, Entities!send_temperature_setting,
      SettingProofs!Entities!send_temperature_setting, Entities!send_byte_setting,
      SettingProofs!Entities!send_byte_setting, Entities!When,
      SettingProofs!Entities!When
<1>2. \A e, s : Entities!Wire(e, s) = SettingProofs!Wire(e, s)
  BY SameSettingValues, Zenon
  DEF Entities!Wire, SettingProofs!Wire, SettingProofs!Entities!Wire
<1>3. \A s : Entities!Messages(s) = SettingProofs!Entities!Messages(s)
  BY Zenon DEF Entities!Messages, SettingProofs!Entities!Messages, Entities!Message,
       SettingProofs!Entities!Message, Entities!NumberMessage,
       SettingProofs!Entities!NumberMessage, Entities!SelectMessage,
       SettingProofs!Entities!SelectMessage, Entities!send_temperature_setting,
       SettingProofs!Entities!send_temperature_setting, Entities!send_byte_setting,
       SettingProofs!Entities!send_byte_setting, Entities!When,
       SettingProofs!Entities!When, Entities!Nothing, SettingProofs!Entities!Nothing,
       Entities!ToTenths, SettingProofs!Entities!ToTenths, Entities!Indices,
       SettingProofs!Entities!Indices, Entities!TemperatureSetting,
       SettingProofs!Entities!TemperatureSetting, Entities!ByteSetting,
       SettingProofs!Entities!ByteSetting
<1>4. QED
  BY <1>1, <1>2, <1>3

LEMMA SameSettingType == Entities!TypeOK <=> SettingProofs!Entities!TypeOK
  BY SameSettings, SameSettingValues, Zenon
  DEF Entities!TypeOK, SettingProofs!Entities!TypeOK

LEMMA SameSettingTypeNext == Entities!TypeOK' <=> SettingProofs!Entities!TypeOK'
  BY SameSettingType, PTL

LEMMA SameSettingSteps ==
  /\ Entities!Init => SettingProofs!Entities!Init
  /\ \A e : Entities!Setup(e) <=> SettingProofs!Entities!Setup(e)
  /\ Entities!SyncToDevice <=> SettingProofs!Entities!SyncToDevice
  /\ \A e, v : Entities!Control(e, v) <=> SettingProofs!Entities!Control(e, v)
  /\ Entities!Return <=> SettingProofs!Entities!Return
  /\ \A e, w : Entities!Reflect(e, w) <=> SettingProofs!Entities!Reflect(e, w)
  /\ Entities!Flush <=> SettingProofs!Entities!Flush
  /\ Entities!Reboot <=> SettingProofs!Entities!Reboot
<1>0. Entities!ready <=> SettingProofs!Entities!ready
  BY Zenon DEF Entities!ready, SettingProofs!Entities!ready
<1>1. Entities!Init => SettingProofs!Entities!Init
  BY Zenon DEF Entities!Init, SettingProofs!Entities!Init, Entities!Saveable,
       SettingProofs!Entities!Saveable, Entities!Optional,
       SettingProofs!Entities!Optional, Entities!Nothing,
       SettingProofs!Entities!Nothing, Entities!Setting,
       SettingProofs!Entities!Setting, Entities!Persistent,
       SettingProofs!Entities!Persistent
<1>2. \A e : Entities!Setup(e) <=> SettingProofs!Entities!Setup(e)
  <2>1. /\ \A n : Entities!NumberSetup(n) = SettingProofs!Entities!NumberSetup(n)
        /\ \A s : Entities!SelectSetup(s) = SettingProofs!Entities!SelectSetup(s)
    BY SameSettingValues, Zenon
    DEF Entities!NumberSetup, SettingProofs!Entities!NumberSetup,
        Entities!SelectSetup, SettingProofs!Entities!SelectSetup
  <2>2. QED
    BY <2>1, SameSettings, SameSettingValues, Zenon
    DEF Entities!Setup, SettingProofs!Entities!Setup
<1>3. Entities!SyncToDevice <=> SettingProofs!Entities!SyncToDevice
  BY <1>0, SameSettingMessages, Zenon
  DEF Entities!SyncToDevice, SettingProofs!Entities!SyncToDevice
<1>4. \A e, v : Entities!Control(e, v) <=> SettingProofs!Entities!Control(e, v)
  BY <1>0, SameSettingMessages, SameSettingValues, Zenon
  DEF Entities!Control, SettingProofs!Entities!Control
<1>5. Entities!Return <=> SettingProofs!Entities!Return
  BY SameSettings, SameSettingMessages, Zenon
  DEF Entities!Return, SettingProofs!Entities!Return
<1>6. \A e, w : Entities!Reflect(e, w) <=> SettingProofs!Entities!Reflect(e, w)
  BY <1>0, SameSettings, SameSettingValues, Zenon
  DEF Entities!Reflect, SettingProofs!Entities!Reflect
<1>7. /\ Entities!Flush <=> SettingProofs!Entities!Flush
      /\ Entities!Reboot <=> SettingProofs!Entities!Reboot
  BY <1>0, SameSettings, Zenon
  DEF Entities!Flush, SettingProofs!Entities!Flush, Entities!Reboot,
      SettingProofs!Entities!Reboot
<1>8. QED
  BY <1>1, <1>2, <1>3, <1>4, <1>5, <1>6, <1>7

\* The assumptions under which the settings' lemmas hold.
LEMMA SettingAssumptions ==
  /\ SettingProofs!WindowAssumption
  /\ SettingProofs!SettingAssumption
  /\ SettingProofs!RegistersAssumption
  /\ SettingProofs!BoundsAssumption
<1>1. Entities!ConfigurationOK
  BY GeneratedOK, ValuesAssumption
<1>2. SettingProofs!Entities!ConfigurationOK
  BY <1>1, SameSettings, Zenon
  DEF Entities!ConfigurationOK, SettingProofs!Entities!ConfigurationOK
<1>3. SettingProofs!RegistersAssumption
  BY SameSettings DEF SettingProofs!RegistersAssumption
<1>4. SettingProofs!WindowAssumption
  BY WindowAssumption DEF SettingProofs!WindowAssumption
<1>5. SettingProofs!BoundsAssumption
  BY BoundsAssumption DEF SettingProofs!BoundsAssumption
<1>6. QED
  BY <1>2, <1>3, <1>4, <1>5, Zenon DEF SettingProofs!SettingAssumption

(***************************************************************************)
(* What the entities show.                                                 *)
(***************************************************************************)

\* Entities and their messages.
LEMMA Kinds ==
  /\ Setting = Numbers \cup Selects
  /\ Setting \subseteq DOMAIN MessageId
  /\ Numbers \cap Selects = {}
  /\ Restored \subseteq Selects
  /\ Entities!Persistent = Numbers \cup Restored
  /\ Setting \subseteq Register /\ Climate!Message \subseteq Register
  /\ Setting \cap Climate!Message = {}
  /\ Register = Climate!Message \cup DOMAIN MessageId
  /\ DOMAIN MessageId \cap Climate!Message = {}
  /\ "Temperature" \notin Register
<1>1. /\ Numbers \subseteq Entities!TemperatureSetting
      /\ Selects \subseteq Entities!ByteSetting
      /\ Restored \subseteq Selects
  BY GeneratedOK, ValuesAssumption DEF Entities!ConfigurationOK
<1>2. /\ Entities!TemperatureSetting \cup Entities!ByteSetting = DOMAIN MessageId
      /\ Entities!TemperatureSetting \cap Entities!ByteSetting = {}
      /\ Climate!Message \cap DOMAIN MessageId = {}
      /\ "Temperature" \notin Climate!Message \cup DOMAIN MessageId
  BY DEF Entities!TemperatureSetting, Entities!ByteSetting, MessageId, Climate!Message
<1>3. QED
  BY <1>1, <1>2 DEF Setting, Register, Entities!Persistent

\* What a setting in state s shows.
SettingShown(e, s) ==
  LET message == Entities!Message(e, s)
  IN  IF message = Entities!Nothing THEN <<>> ELSE <<message[e]>>

ShownIs ==
  /\ Shown = [r \in Register |-> Shown[r]]
  /\ \A r \in Climate!Message :
       Shown[r] = IF HasClimate /\ climate_ready THEN <<Climate!Registers[r]>> ELSE <<>>
  /\ \A r \in Setting : Shown[r] = SettingShown(r, state[r])
  /\ \A r \in Register \ (Climate!Message \cup Setting) : Shown[r] = <<>>

\* `Shown` by the kind of the register.
LEMMA ShownNow == ShownIs
<1>1. Shown = [r \in Register |-> Shown[r]]
  BY DEF Shown
<1>2. \A r \in Climate!Message :
        Shown[r] = IF HasClimate /\ climate_ready THEN <<Climate!Registers[r]>> ELSE <<>>
  BY Kinds, Zenon DEF Shown
<1>3. ASSUME NEW r \in Setting
      PROVE  Shown[r] = SettingShown(r, state[r])
  BY <1>3, Kinds DEF Shown, SettingShown
<1>4. \A r \in Register \ (Climate!Message \cup Setting) : Shown[r] = <<>>
  BY Zenon DEF Shown
<1>5. QED
  BY <1>1, <1>2, <1>3, <1>4 DEF ShownIs

LEMMA ShownNext == ShownIs'
  BY ShownNow, PTL

\* A setting shows nothing or the value that it would transmit.
LEMMA SettingShows ==
  ASSUME NEW e \in Setting, NEW s, Entities!Shows(e, s)
  PROVE  /\ SettingShown(e, s) = <<>> <=> s = <<>>
         /\ s # <<>> => \E w \in Int : /\ SettingShown(e, s) = <<w>>
                                       /\ Entities!Wire(e, s) = {w}
         /\ s = <<>> => Entities!Wire(e, s) = {}
<1> DEFINE message == Entities!Message(e, s)
<1>1. /\ DOMAIN message = IF s = <<>> THEN {} ELSE {e}
      /\ Entities!Wire(e, s) = {message[m] : m \in DOMAIN message}
      /\ Entities!Wire(e, s) \subseteq Int
      /\ s = <<>> <=> message = Entities!Nothing
  <2>1. e \in SettingProofs!Setting /\ SettingProofs!Entities!Shows(e, s)
    BY SameSettings, SameSettingValues
  <2>2. /\ DOMAIN SettingProofs!Entities!Message(e, s) = IF s = <<>> THEN {} ELSE {e}
        /\ SettingProofs!Wire(e, s)
             = {SettingProofs!Entities!Message(e, s)[m] :
                  m \in DOMAIN SettingProofs!Entities!Message(e, s)}
        /\ SettingProofs!Wire(e, s) \subseteq Int
        /\ s = <<>> <=> SettingProofs!Entities!Message(e, s) = SettingProofs!Entities!Nothing
    BY <2>1, SettingAssumptions, SettingProofs!Transmitted
  <2>3. QED
    BY <2>2, SameSettings, SameSettingMessages
<1> HIDE DEF message
<1>2. SettingShown(e, s) = IF message = Entities!Nothing THEN <<>> ELSE <<message[e]>>
  BY DEF SettingShown, message
<1>3. CASE s = <<>>
  BY <1>1, <1>2, <1>3
<1>4. CASE s # <<>>
  <2>1. /\ SettingShown(e, s) = <<message[e]>>
        /\ Entities!Wire(e, s) = {message[e]}
        /\ message[e] \in Int
    BY <1>1, <1>2, <1>4
  <2>2. <<message[e]>> # <<>>
    OBVIOUS
  <2>3. QED
    BY <1>4, <2>1, <2>2
<1>5. QED
  BY <1>3, <1>4

\* What commands may ask for is among the values of a register.
LEMMA AskableValues ==
  /\ \A t \in Setpoints : Climate!ToTenths(t) \in RegisterValue["TargetTemperature"]
  /\ BOOLEAN \subseteq RegisterValue["Power"]
  /\ Climate!DeviceMode \subseteq RegisterValue["Mode"]
  /\ Climate!DeviceFan \subseteq RegisterValue["FanSpeed"]
  /\ \A n \in Numbers : \A v \in Values[n] : Entities!ToTenths(v) \in RegisterValue[n]
  /\ \A s \in Selects : \A i \in Entities!Indices(s) :
       option_bytes_[s][i] \in RegisterValue[s]
<1>1. \A r \in Register : Askable(r) \subseteq RegisterValue[r]
  BY DEF RegisterValue
<1>2. \A r \in {"TargetTemperature", "Power", "Mode", "FanSpeed"} :
        r \in Register /\ r \notin Numbers /\ r \notin Selects
  BY Kinds DEF Climate!Message
<1>3. /\ Askable("TargetTemperature") = {Climate!ToTenths(t) : t \in Setpoints}
      /\ Askable("Power") = BOOLEAN
      /\ Askable("Mode") = Climate!DeviceMode
      /\ Askable("FanSpeed") = Climate!DeviceFan
  <2>1. Askable("TargetTemperature") = {Climate!ToTenths(t) : t \in Setpoints}
    BY <1>2 DEF Askable
  <2>2. Askable("Power") = BOOLEAN
    BY <1>2 DEF Askable
  <2>3. Askable("Mode") = Climate!DeviceMode
    BY <1>2 DEF Askable
  <2>4. Askable("FanSpeed") = Climate!DeviceFan
    BY <1>2 DEF Askable
  <2>5. QED
    BY <2>1, <2>2, <2>3, <2>4
<1>4. ASSUME NEW n \in Numbers
      PROVE  Askable(n) = {Entities!ToTenths(v) : v \in Values[n]} /\ n \in Register
  BY <1>2, Kinds DEF Askable
<1>5. ASSUME NEW s \in Selects
      PROVE  Askable(s) = {option_bytes_[s][i] : i \in Entities!Indices(s)} /\ s \in Register
  BY <1>2, Kinds DEF Askable
<1>6. QED
  BY <1>1, <1>2, <1>3, <1>4, <1>5

(***************************************************************************)
(* The climate entity within the hub.                                      *)
(***************************************************************************)

\* Every handler maintains the entity's invariant.
LEMMA ClimateStep ==
  ASSUME Climate!IInv,
         \/ Climate!Setup
         \/ Climate!SyncToDevice
         \/ \E call \in Climate!Call : Climate!Control(call)
         \/ \E m : \E v \in Climate!Value(m) : Climate!Reflect(m, v)
         \/ Climate!Flush
         \/ Climate!Reboot
         \/ ClimateIdle
         \/ UNCHANGED <<climateVars, climate_sent>>
  PROVE  Climate!IInv'
<1> SUFFICES ClimateProofs!IInv'
  BY SameClimateIInvNext
<1>0. ClimateProofs!IInv
  BY SameClimateIInv
<1>1. CASE Climate!Setup
  BY <1>0, <1>1, SameClimateSteps, ClimateAssumptions, ClimateProofs!SetupStep
<1>2. CASE Climate!SyncToDevice \/ Climate!Flush \/ Climate!Reboot
  BY <1>0, <1>2, SameClimateSteps, ClimateAssumptions, ClimateProofs!OtherSteps
<1>3. ASSUME NEW call \in Climate!Call, Climate!Control(call)
      PROVE  ClimateProofs!IInv'
  BY <1>0, <1>3, SameClimateSteps, SameClimateCall, ClimateAssumptions,
     ClimateProofs!ControlStep
<1>4. ASSUME NEW m, NEW v \in Climate!Value(m), Climate!Reflect(m, v)
      PROVE  ClimateProofs!IInv'
  BY <1>0, <1>4, SameClimateSteps, SameClimateDevice, ClimateAssumptions,
     ClimateProofs!ReflectStep
<1>5. CASE ClimateIdle \/ UNCHANGED <<climateVars, climate_sent>>
  <2>1. UNCHANGED climateVars /\ DOMAIN climate_sent' \subseteq ClimateProofs!Message
    BY <1>0, <1>5 DEF ClimateIdle, Climate!Nothing, ClimateProofs!IInv, ClimateProofs!TypeOK
  <2>2. QED
    BY <1>0, <2>1
    DEF climateVars, ClimateProofs!IInv, ClimateProofs!TypeOK,
        ClimateProofs!ModeFolded, ClimateProofs!Controllable,
        ClimateProofs!NothingHidden
<1>6. QED
  BY <1>1, <1>2, <1>3, <1>4, <1>5

\* A reading of the first channel is a message like the others.
LEMMA ReadingReflects ==
  ASSUME NEW n \in Nat, Climate!PublishCurrentTemperature(n)
  PROVE  /\ \E m : \E v \in Climate!Value(m) : Climate!Reflect(m, v)
         /\ climate_sent' = Climate!Nothing
         /\ UNCHANGED <<climate_ready, saved, power_on_, active_mode_>>
         /\ Climate!Registers' = Climate!Registers
         /\ current_temperature' = Climate!FromTenths(n)
<1>1. n \in Climate!Value("Temperature")
  BY DEF Climate!Value
<1>2. Climate!Reflect("Temperature", n)
  BY DEF Climate!Reflect
<1>3. QED
  BY <1>1, <1>2 DEF Climate!PublishCurrentTemperature, Climate!Registers

\* What is transmitted is shown.
LEMMA ClimateSends ==
  ASSUME Climate!IInv, Climate!IInv', HasClimate,
         \/ Climate!Setup
         \/ Climate!SyncToDevice
         \/ \E call \in Climate!Call : Climate!Control(call)
  PROVE  \A m \in DOMAIN climate_sent' :
           m \in Climate!Message /\ Shown'[m] = <<climate_sent'[m]>>
<1>1. \A m \in DOMAIN climate_sent' :
        m \in Climate!Message /\ climate_sent'[m] = Climate!Registers'[m]
  <2>1. /\ ClimateProofs!IInv /\ ClimateProofs!IInv'
        /\ \/ ClimateProofs!Setup \/ ClimateProofs!SyncToDevice
           \/ \E call \in ClimateProofs!Call : ClimateProofs!Control(call)
    BY SameClimateIInv, SameClimateIInvNext, SameClimateSteps, SameClimateCall
  <2>2. \A m \in DOMAIN climate_sent' :
          /\ m \in ClimateProofs!Message
          /\ climate_sent'[m] = ClimateProofs!Registers'[m]
    BY <2>1, ClimateAssumptions, ClimateProofs!SentRegister
  <2>3. QED
    BY <2>2, SameClimateTables, SameClimateRegisters
<1>2. climate_ready'
  BY DEF Climate!Setup, Climate!SyncToDevice, Climate!Control
<1>3. QED
  BY <1>1, <1>2, ShownNext DEF ShownIs

\* A round leaves out at most the mode of an entity that is off.
LEMMA ClimateRound ==
  ASSUME Climate!IInv', HasClimate, Climate!SyncToDevice
  PROVE  /\ \A m \in Climate!Message \ DOMAIN climate_sent' : m = "Mode" /\ ~ power_on_
         /\ UNCHANGED climateVars /\ climate_ready
<1>1. ClimateProofs!IInv' /\ ClimateProofs!SyncToDevice
  BY SameClimateIInvNext, SameClimateSteps
<1>2. /\ power_on_' \in BOOLEAN /\ target_temperature' # NaN /\ fan_mode' # <<>>
      /\ climate_sent' = ClimateProofs!SyncMessages(target_temperature', power_on_',
                                                    active_mode_', fan_mode')
  BY <1>1, ClimateAssumptions, ClimateProofs!RoundSends
<1>3. DOMAIN climate_sent' = IF power_on_' THEN Climate!Message
                             ELSE Climate!Message \ {"Mode"}
  BY <1>2, ClimateAssumptions, ClimateProofs!SyncSends, SameClimateTables
<1>4. UNCHANGED climateVars /\ climate_ready
  BY DEF Climate!SyncToDevice, Climate!shown, climateVars
<1>5. QED
  BY <1>3, <1>4 DEF climateVars

\* A command transmits what it is about, and changes nothing else.
LEMMA ClimateCommand ==
  ASSUME Climate!IInv, HasClimate, NEW call \in Climate!Call, Climate!Control(call)
  PROVE  /\ DOMAIN climate_sent' \subseteq Asked(call)
         /\ \A m \in Climate!Message \ Asked(call) : Climate!Registers'[m] = Climate!Registers[m]
         /\ climate_ready /\ UNCHANGED <<climate_ready, current_temperature, saved>>
         /\ "Power" \notin Asked(call) => power_on_' = power_on_
         /\ Asked(call) \subseteq Climate!Message
<1>1. DOMAIN climate_sent' \subseteq Asked(call)
  <2>1. \A m \in DOMAIN climate_sent' : m \in Climate!Message /\ Climate!Transmits(call, m)
    BY DEF Climate!Control, Climate!ControlMessages
  <2>2. Climate!ToOff(call) \/ Climate!ToActive(call) => call.mode # <<>>
    BY DEF Climate!ToOff, Climate!ToActive
  <2>3. QED
    BY <2>1, <2>2 DEF Climate!Transmits, Asked
<1>2. \A m \in Climate!Message \ Asked(call) : Climate!Registers'[m] = Climate!Registers[m]
  <2>1. ClimateProofs!IInv /\ call \in ClimateProofs!Call /\ ClimateProofs!Control(call)
    BY SameClimateIInv, SameClimateCall, SameClimateSteps
  <2>2. \A m \in ClimateProofs!Message : m \notin DOMAIN climate_sent' =>
          ClimateProofs!Registers'[m] = ClimateProofs!Registers[m]
    BY <2>1, ClimateAssumptions, ClimateProofs!ControlKeeps
  <2>3. QED
    BY <1>1, <2>2, SameClimateTables, SameClimateRegisters
<1>3. "Power" \notin Asked(call) => power_on_' = power_on_
  <2>1. "Power" \notin Asked(call) => call.mode = <<>>
    BY DEF Asked, Climate!Message
  <2>2. call.mode = <<>> => ~ Climate!ToActive(call) /\ ~ Climate!ToOff(call)
    BY DEF Climate!ToActive, Climate!ToOff
  <2>3. power_on_ \in BOOLEAN
    BY DEF Climate!IInv, Climate!TypeOK
  <2>4. power_on_' = (Climate!ToActive(call) \/ (power_on_ /\ ~ Climate!ToOff(call)))
    BY DEF Climate!Control
  <2>5. QED
    BY <2>1, <2>2, <2>3, <2>4
<1>4. QED
  BY <1>1, <1>2, <1>3 DEF Climate!Control, Asked

\* A command leads to values of the registers it is about.
LEMMA ClimateCommandValue ==
  ASSUME Climate!IInv', NEW call \in Climate!Call, Climate!Control(call),
         NEW m \in Asked(call)
  PROVE  Climate!Registers'[m] \in RegisterValue[m]
<1>1. Climate!Registers'[m] = Climate!Content(m, target_temperature', power_on_',
                                              active_mode_', fan_mode'[1])
  BY DEF Asked, Climate!Registers
<1>2. m \in Register
  BY Kinds DEF Asked
<1>3. CASE m = "TargetTemperature"
  <2>1. target_temperature' \in Setpoints
    <3>1. call.target # <<>> /\ call.target \in Climate!Optional(Setpoints)
      BY <1>3 DEF Asked, Climate!Call
    <3>2. call.target[1] \in Setpoints
      BY <3>1 DEF Climate!Optional
    <3>3. QED
      BY <3>1, <3>2 DEF Climate!Control
  <2>2. QED
    BY <1>1, <1>3, <2>1, AskableValues DEF Climate!Content
<1>4. CASE m = "Power"
  <2>1. power_on_' \in BOOLEAN
    BY DEF Climate!IInv, Climate!TypeOK
  <2>2. QED
    BY <1>1, <1>4, <2>1, AskableValues DEF Climate!Content
<1>5. CASE m = "Mode"
  <2>1. Climate!climate_mode_to_device(active_mode_') \in Climate!DeviceMode
    BY DEF Climate!climate_mode_to_device, Climate!DeviceMode
  <2>2. QED
    BY <1>1, <1>5, <2>1, AskableValues DEF Climate!Content
<1>6. CASE m = "FanSpeed"
  <2>1. Climate!climate_fan_to_device(fan_mode'[1]) \in Climate!DeviceFan
    BY DEF Climate!climate_fan_to_device, Climate!DeviceFan
  <2>2. QED
    BY <1>1, <1>6, <2>1, AskableValues DEF Climate!Content
<1>7. QED
  BY <1>3, <1>4, <1>5, <1>6 DEF Asked, Climate!Message

\* A received register is shown from then on or ignored.
LEMMA ClimateReflects ==
  ASSUME NEW m \in Climate!Message, NEW v \in Climate!Value(m), Climate!Reflect(m, v)
  PROVE  /\ \/ Climate!Registers' = Climate!Registers
            \/ Climate!Registers' = [Climate!Registers EXCEPT ![m] = v]
         /\ climate_sent' = Climate!Nothing
         /\ climate_ready /\ UNCHANGED <<climate_ready, current_temperature, saved>>
         /\ m # "Power" => power_on_' = power_on_
<1>1. /\ m \in ClimateProofs!Message /\ v \in ClimateProofs!Value(m)
      /\ ClimateProofs!Reflect(m, v)
  BY SameClimateTables, SameClimateDevice, SameClimateSteps
<1>2. \/ ClimateProofs!Registers' = ClimateProofs!Registers
      \/ ClimateProofs!Registers' = [ClimateProofs!Registers EXCEPT ![m] = v]
  BY <1>1, ClimateAssumptions, ClimateProofs!ReflectRegisters
<1>3. /\ climate_sent' = Climate!Nothing
      /\ climate_ready /\ UNCHANGED <<climate_ready, current_temperature, saved>>
      /\ m # "Power" => power_on_' = power_on_
  BY DEF Climate!Message, Climate!Reflect, Climate!PublishTargetTemperature,
         Climate!PublishPower, Climate!PublishMode, Climate!PublishFanSpeed
<1>4. QED
  BY <1>2, <1>3, SameClimateRegisters

\* The values that a factory-new program starts from.
LEMMA FactoryValues ==
  /\ Factory["TargetTemperature"] = {Climate!ToTenths(DEFAULT_TARGET_TEMPERATURE)}
  /\ Factory["Power"] = {TRUE}
  /\ Factory["Mode"] = {"Auto", "Heat"}
  /\ Factory["FanSpeed"] = {"Auto"}
  /\ \A e \in Setting : Factory[e] = SettingProofs!Configured(e)
  /\ \A r \in Register \ (Climate!Message \cup Setting) : Factory[r] = {}
<1>1. \A r \in {"TargetTemperature", "Power", "Mode", "FanSpeed"} :
        r \in Register /\ r \notin Numbers /\ r \notin Restored
  BY Kinds DEF Climate!Message
<1>2. Factory["TargetTemperature"] = {Climate!ToTenths(DEFAULT_TARGET_TEMPERATURE)}
  BY <1>1 DEF Factory
<1>3. Factory["Power"] = {TRUE}
  BY <1>1 DEF Factory
<1>4. Factory["Mode"] = {"Auto", "Heat"}
  BY <1>1 DEF Factory
<1>5. Factory["FanSpeed"] = {"Auto"}
  BY <1>1 DEF Factory
<1>6. ASSUME NEW e \in Setting
      PROVE  Factory[e] = SettingProofs!Configured(e)
  <2>1. CASE e \in Numbers
    <3>1. Factory[e] = {Entities!ToTenths(initial_value_[e])}
      BY <1>1, <2>1, Kinds DEF Factory
    <3>2. SettingProofs!Configured(e) = {SettingProofs!Entities!ToTenths(initial_value_[e])}
      BY <2>1, Kinds DEF SettingProofs!Configured
    <3>3. QED
      BY <3>1, <3>2, SameSettingValues
  <2>2. CASE e \in Restored
    <3>1. Factory[e] = {option_bytes_[e][initial_index_[e]]}
      BY <1>1, <2>2, Kinds DEF Factory
    <3>2. SettingProofs!Configured(e) = {option_bytes_[e][initial_index_[e]]}
      BY <2>2, Kinds DEF SettingProofs!Configured
    <3>3. QED
      BY <3>1, <3>2
  <2>3. CASE e \notin Numbers /\ e \notin Restored
    <3>1. e \notin {"TargetTemperature", "Power", "Mode", "FanSpeed"} /\ e \in Register
      BY Kinds DEF Climate!Message
    <3>2. Factory[e] = {}
      BY <2>3, <3>1 DEF Factory
    <3>3. SettingProofs!Configured(e) = {}
      BY <2>3 DEF SettingProofs!Configured
    <3>4. QED
      BY <3>2, <3>3
  <2>4. QED
    BY <2>1, <2>2, <2>3
<1>7. ASSUME NEW r \in Register \ (Climate!Message \cup Setting)
      PROVE  Factory[r] = {}
  BY <1>1, <1>7, Kinds DEF Factory, Climate!Message
<1>8. QED
  BY <1>2, <1>3, <1>4, <1>5, <1>6, <1>7

\* Whatever was saved, the entity starts with values that came from outside.
LEMMA ClimateRestores ==
  ASSUME Booted, Sourced, HasClimate, Climate!IInv, Climate!Setup
  PROVE  \A m \in Climate!Message : Climate!Registers'[m] \in origins[m]
<1> DEFINE R == Climate!Restored
           target == IF R.target = NaN THEN DEFAULT_TARGET_TEMPERATURE ELSE R.target
           active == CASE R.mode \in Climate!ActiveMode -> R.mode
                       [] R.mode = "OFF" -> active_mode_
                       [] OTHER -> "HEAT"
           fan == IF R.fan = <<>> THEN "AUTO" ELSE R.fan[1]
<1>1. /\ Climate!Registers'["TargetTemperature"] = Climate!ToTenths(target)
      /\ Climate!Registers'["Power"] = (R.mode # "OFF")
      /\ Climate!Registers'["Mode"] = Climate!climate_mode_to_device(active)
      /\ Climate!Registers'["FanSpeed"] = Climate!climate_fan_to_device(fan)
  <2>1. ClimateProofs!Setup /\ ClimateProofs!Restored = R
    BY SameClimateSteps, SameClimateTables, Zenon
    DEF Climate!Restored, ClimateProofs!Restored
  <2>2. QED
    BY <2>1, ClimateAssumptions, ClimateProofs!SetupRegisters, SameClimateRegisters,
       SameClimateTables, SameClimateConversions
<1>2. active_mode_ = "HEAT"
  BY DEF Booted, Climate!Setup
<1>3. /\ \A r \in Climate!Message : Factory[r] \subseteq origins[r]
      /\ Climate!ToTenths(DEFAULT_TARGET_TEMPERATURE) \in origins["TargetTemperature"]
      /\ TRUE \in origins["Power"]
      /\ "Heat" \in origins["Mode"] /\ "Auto" \in origins["Mode"]
      /\ "Auto" \in origins["FanSpeed"]
  <2>1. \A r \in Climate!Message : Factory[r] \subseteq origins[r]
    BY Kinds DEF Sourced
  <2>2. QED
    BY <2>1, FactoryValues DEF Climate!Message
<1>4. /\ Climate!climate_mode_to_device("HEAT") = "Heat"
      /\ Climate!climate_mode_to_device("HEAT_COOL") = "Auto"
      /\ Climate!climate_fan_to_device("AUTO") = "Auto"
  BY DEF Climate!climate_mode_to_device, Climate!climate_fan_to_device
<1>5. CASE saved = <<>>
  <2>1. R = [target |-> DEFAULT_TARGET_TEMPERATURE, mode |-> "HEAT_COOL", fan |-> <<"AUTO">>]
    BY <1>5 DEF Climate!Restored, Climate!FactoryState
  <2>2. target = DEFAULT_TARGET_TEMPERATURE /\ active = "HEAT_COOL" /\ fan = "AUTO"
    BY <2>1 DEF Climate!ActiveMode
  <2>3. QED
    BY <1>1, <1>3, <1>4, <2>1, <2>2 DEF Climate!Message
<1>6. CASE saved # <<>>
  <2>1. R = saved[1] /\ 1 \in DOMAIN saved /\ saved[1] \in Climate!State
    BY <1>6 DEF Climate!Restored, Climate!IInv, Climate!TypeOK, Climate!IsOptional
  <2>2. /\ R.target # NaN => Climate!ToTenths(R.target) \in origins["TargetTemperature"]
        /\ (R.mode # "OFF") \in origins["Power"]
        /\ R.mode \in Climate!ActiveMode =>
             Climate!climate_mode_to_device(R.mode) \in origins["Mode"]
        /\ \A j \in DOMAIN R.fan :
             Climate!climate_fan_to_device(R.fan[j]) \in origins["FanSpeed"]
    BY <2>1 DEF Sourced, SavedSourced
  <2>3. R.fan = <<>> \/ 1 \in DOMAIN R.fan
    BY <2>1 DEF Climate!State, Climate!Optional
  <2>4. R.mode \notin Climate!ActiveMode => active = "HEAT"
    BY <1>2 DEF Climate!ActiveMode
  <2>5. R.mode \in Climate!ActiveMode => active = R.mode
    BY DEF Climate!ActiveMode
  <2>6. QED
    BY <1>1, <1>3, <1>4, <2>2, <2>3, <2>4, <2>5 DEF Climate!Message
<1>7. QED
  BY <1>5, <1>6

(***************************************************************************)
(* The settings within the hub.                                            *)
(***************************************************************************)

\* Every handler maintains the entities' type.
LEMMA SettingStep ==
  ASSUME Entities!TypeOK,
         \/ \E e \in Setting : Entities!Setup(e)
         \/ Entities!SyncToDevice
         \/ \E e \in Setting : \E v \in Entities!Callable(e) : Entities!Control(e, v)
         \/ Entities!Return
         \/ \E e \in Setting : \E w \in Int : Entities!Reflect(e, w)
         \/ Entities!Flush
         \/ Entities!Reboot
         \/ SettingsIdle
         \/ UNCHANGED <<settingVars, setting_sent>>
  PROVE  Entities!TypeOK'
<1> SUFFICES SettingProofs!Entities!TypeOK'
  BY SameSettingTypeNext
<1>0. SettingProofs!Entities!TypeOK
  BY SameSettingType
<1>1. ASSUME NEW e \in Setting, Entities!Setup(e)
      PROVE  SettingProofs!Entities!TypeOK'
  BY <1>0, <1>1, SameSettings, SameSettingSteps, SettingAssumptions,
     SettingProofs!SetupType
<1>2. CASE Entities!SyncToDevice
  BY <1>0, <1>2, SameSettingSteps, SettingAssumptions, SettingProofs!SyncToDeviceType
<1>3. ASSUME NEW e \in Setting, NEW v \in Entities!Callable(e), Entities!Control(e, v)
      PROVE  SettingProofs!Entities!TypeOK'
  BY <1>0, <1>3, SameSettings, SameSettingValues, SameSettingSteps,
     SettingAssumptions, SettingProofs!ControlType
<1>4. CASE Entities!Return
  BY <1>0, <1>4, SameSettingSteps, SettingAssumptions, SettingProofs!ReturnType
<1>5. ASSUME NEW e \in Setting, NEW w \in Int, Entities!Reflect(e, w)
      PROVE  SettingProofs!Entities!TypeOK'
  BY <1>0, <1>5, SameSettings, SameSettingSteps, SettingAssumptions,
     SettingProofs!ReflectType
<1>6. CASE Entities!Flush
  BY <1>0, <1>6, SameSettingSteps, SettingAssumptions, SettingProofs!FlushType
<1>7. CASE Entities!Reboot
  BY <1>0, <1>7, SameSettingSteps, SettingAssumptions, SettingProofs!RebootType
<1>8. CASE SettingsIdle \/ UNCHANGED <<settingVars, setting_sent>>
  <2>1. UNCHANGED settingVars /\ DOMAIN setting_sent' \subseteq SettingProofs!Entities!Setting
    BY <1>0, <1>8 DEF SettingsIdle, Entities!Nothing, SettingProofs!Entities!TypeOK
  <2>2. QED
    BY <1>0, <2>1 DEF settingVars, SettingProofs!Entities!TypeOK
<1>9. QED
  BY <1>1, <1>2, <1>3, <1>4, <1>5, <1>6, <1>7, <1>8

\* setup() of a setting shows the value in flash or the configured one.
LEMMA SettingSetup ==
  ASSUME Entities!TypeOK, NEW e \in Setting, Entities!Setup(e)
  PROVE  /\ calls = <<>> /\ e \in unset /\ unset' = unset \ {e}
         /\ setting_sent' = Entities!Nothing
         /\ UNCHANGED <<queued, flash>>
         /\ \A x \in Setting \ {e} : state'[x] = state[x]
         /\ calls' = <<>> \/ calls' = <<Entities!Call("setup", e, state'[e])>>
         /\ Entities!Wire(e, state'[e])
              \subseteq Entities!Wire(e, state[e]) \cup Factory[e]
                        \cup UNION {Entities!Wire(x, flash[x]) : x \in Entities!Persistent \cap {e}}
<1>1. /\ calls = <<>> /\ e \in unset /\ unset' = unset \ {e}
      /\ setting_sent' = Entities!Nothing
      /\ UNCHANGED <<queued, flash>>
      /\ calls' = <<>> \/ calls' = <<Entities!Call("setup", e, state'[e])>>
  BY DEF Entities!Setup
<1>2. \A x \in Setting \ {e} : state'[x] = state[x]
  BY SameSettings DEF Entities!Setup, Entities!TypeOK
<1>3. CASE e \in Entities!Persistent
  <2>1. state'[e] = IF e \in Numbers THEN Entities!NumberSetup(e)
                    ELSE Entities!SelectSetup(e)
    BY <1>3, SameSettings DEF Entities!Setup, Entities!TypeOK
  <2>2. state'[e] = IF e \in Numbers THEN SettingProofs!Entities!NumberSetup(e)
                    ELSE SettingProofs!Entities!SelectSetup(e)
    BY <2>1, SameSettingValues, Zenon
    DEF Entities!NumberSetup, SettingProofs!Entities!NumberSetup,
        Entities!SelectSetup, SettingProofs!Entities!SelectSetup
  <2>3. SettingProofs!Entities!TypeOK /\ e \in SettingProofs!Entities!Persistent
    BY <1>3, SameSettingType, SameSettings
  <2>4. SettingProofs!Wire(e, state'[e])
          \subseteq SettingProofs!Configured(e) \cup SettingProofs!Wire(e, flash[e])
    BY <2>2, <2>3, SettingAssumptions, SettingProofs!SetupShows
  <2>5. Entities!Wire(e, state'[e]) \subseteq Factory[e] \cup Entities!Wire(e, flash[e])
    BY <2>4, FactoryValues, SameSettingMessages
  <2>6. QED
    BY <1>1, <1>2, <1>3, <2>5
<1>4. CASE e \notin Entities!Persistent
  <2>1. state' = state
    BY <1>4 DEF Entities!Setup
  <2>2. QED
    BY <1>1, <1>2, <2>1
<1>5. QED
  BY <1>3, <1>4

\* What is transmitted is shown.
LEMMA SettingSends ==
  ASSUME Entities!TypeOK, Entities!TypeOK',
         \/ Entities!SyncToDevice
         \/ \E e \in Setting : \E v \in Entities!Callable(e) : Entities!Control(e, v)
         \/ Entities!Return
  PROVE  \A m \in DOMAIN setting_sent' :
           m \in Setting /\ Shown'[m] = <<setting_sent'[m]>>
<1>1. SettingProofs!Entities!TypeOK
  BY SameSettingType
<1>2. SettingProofs!SendsState
  <2>1. CASE Entities!SyncToDevice
    BY <1>1, <2>1, SameSettingSteps, SettingAssumptions, SettingProofs!RoundSendsState
  <2>2. ASSUME NEW e \in Setting, NEW v \in Entities!Callable(e), Entities!Control(e, v)
        PROVE  SettingProofs!SendsState
    BY <1>1, <2>2, SameSettings, SameSettingValues, SameSettingSteps,
       SettingAssumptions, SettingProofs!ControlSendsState
  <2>3. CASE Entities!Return
    BY <1>1, <2>3, SameSettingSteps, SettingAssumptions, SettingProofs!ReturnSendsState
  <2>4. QED
    BY <2>1, <2>2, <2>3
<1> SUFFICES ASSUME NEW m \in DOMAIN setting_sent'
             PROVE  m \in Setting /\ Shown'[m] = <<setting_sent'[m]>>
  OBVIOUS
<1>3. m \in Setting /\ Entities!Wire(m, state'[m]) = {setting_sent'[m]}
  BY <1>2, SameSettings, SameSettingMessages DEF SettingProofs!SendsState
<1>4. Entities!Shows(m, state'[m])
  BY <1>3, SameSettings DEF Entities!TypeOK
<1>5. SettingShown(m, state'[m]) = <<setting_sent'[m]>>
  BY <1>3, <1>4, SettingShows
<1>6. QED
  BY <1>3, <1>5, ShownNext DEF ShownIs

\* A round transmits all that is shown.
LEMMA SettingRound ==
  ASSUME Entities!TypeOK, Entities!SyncToDevice
  PROVE  /\ \A e \in Setting \ DOMAIN setting_sent' : Shown[e] = <<>>
         /\ Entities!ready /\ UNCHANGED settingVars
<1>1. SettingProofs!Entities!TypeOK /\ SettingProofs!Entities!SyncToDevice
  BY SameSettingType, SameSettingSteps
<1>2. \A e \in Setting \ DOMAIN setting_sent' : Entities!Wire(e, state[e]) = {}
  BY <1>1, SettingAssumptions, SettingProofs!RoundSendsState, SameSettings,
     SameSettingMessages
<1>3. \A e \in Setting : Entities!Shows(e, state[e])
  BY SameSettings DEF Entities!TypeOK
<1>4. \A e \in Setting \ DOMAIN setting_sent' : SettingShown(e, state[e]) = <<>>
  BY <1>2, <1>3, SettingShows
<1>5. QED
  BY <1>4, ShownNow DEF ShownIs, Entities!SyncToDevice, settingVars

\* A command transmits the setting it is about, and changes nothing else.
LEMMA SettingCommand ==
  ASSUME Entities!TypeOK, NEW e \in Setting, NEW v \in Entities!Callable(e),
         Entities!Control(e, v), calls = <<>>
  PROVE  /\ DOMAIN setting_sent' \subseteq {e}
         /\ state'[e] = <<v>> /\ \A x \in Setting \ {e} : state'[x] = state[x]
         /\ calls' = <<Entities!Call("control", e, <<v>>)>>
         /\ UNCHANGED <<unset, queued, flash>>
         /\ \E w \in RegisterValue[e] : /\ Shown'[e] = <<w>>
                                        /\ Entities!Wire(e, <<v>>) = {w}
<1>1. /\ DOMAIN setting_sent' \subseteq {e} /\ state'[e] = <<v>>
  <2>1. /\ SettingProofs!Entities!TypeOK /\ e \in SettingProofs!Setting
        /\ v \in SettingProofs!Entities!Callable(e) /\ SettingProofs!Entities!Control(e, v)
    BY SameSettingType, SameSettings, SameSettingValues, SameSettingSteps
  <2>2. QED
    BY <2>1, SettingAssumptions, SettingProofs!ControlSendsState
<1>2. /\ \A x \in Setting \ {e} : state'[x] = state[x]
      /\ calls' = <<Entities!Call("control", e, <<v>>)>>
      /\ UNCHANGED <<unset, queued, flash>>
  BY SameSettings DEF Entities!Control, Entities!TypeOK
<1>3. Entities!Shows(e, <<v>>)
  BY SettingAssumptions, SettingProofs!CallableShown, SameSettings, SameSettingValues
<1>4. PICK w \in Int : SettingShown(e, <<v>>) = <<w>> /\ Entities!Wire(e, <<v>>) = {w}
  BY <1>3, SettingShows
<1>5. w \in RegisterValue[e]
  <2>1. CASE e \in Numbers
    <3>1. Entities!Wire(e, <<v>>) = {Entities!ToTenths(v)} /\ v \in Values[e]
      BY <2>1 DEF Entities!Wire, Entities!Callable
    <3>2. QED
      BY <1>4, <2>1, <3>1, AskableValues
  <2>2. CASE e \notin Numbers
    <3>1. v \in Entities!Indices(e)
      BY <2>2 DEF Entities!Callable
    <3>2. Entities!Wire(e, <<v>>) = {option_bytes_[e][v]}
      BY <2>2, <3>1 DEF Entities!Wire
    <3>3. QED
      BY <1>4, <2>2, <3>1, <3>2, AskableValues, Kinds
  <2>3. QED
    BY <2>1, <2>2
<1>6. Shown'[e] = <<w>>
  BY <1>1, <1>4, ShownNext DEF ShownIs
<1>7. QED
  BY <1>1, <1>2, <1>4, <1>5, <1>6

\* A received setting is shown from then on or ignored.
LEMMA SettingReflects ==
  ASSUME Entities!TypeOK, NEW e \in Setting, NEW w \in Int, Entities!Reflect(e, w)
  PROVE  /\ \A x \in Setting \ {e} : state'[x] = state[x]
         /\ state'[e] = state[e] \/ Shown'[e] = <<w>>
         /\ setting_sent' = Entities!Nothing
         /\ UNCHANGED <<unset, calls, queued, flash>> /\ Entities!ready
<1> DEFINE v == <<IF e \in Numbers THEN Entities!FromTenths(w)
                  ELSE Entities!IndexOf(e, w)>>
<1>1. /\ UNCHANGED <<unset, calls, queued, flash>> /\ Entities!ready
      /\ setting_sent' = Entities!Nothing
      /\ \/ UNCHANGED state
         \/ /\ e \in Numbers \/ Entities!IsMapped(e, w)
            /\ state' = [state EXCEPT ![e] = v]
  BY Kinds DEF Entities!Reflect
<1>2. e \in Numbers \/ Entities!IsMapped(e, w) =>
        SettingProofs!Entities!Shows(e, v) /\ SettingProofs!Wire(e, v) = {w}
  <2>1. v = <<IF e \in Numbers THEN SettingProofs!Entities!FromTenths(w)
              ELSE SettingProofs!Entities!IndexOf(e, w)>>
    BY SameSettingValues
  <2>2. QED
    BY <2>1, SameSettings, SameSettingValues, SettingAssumptions,
       SettingProofs!ReflectShows
<1>3. e \in Numbers \/ Entities!IsMapped(e, w) =>
        Entities!Shows(e, v) /\ Entities!Wire(e, v) = {w}
  BY <1>2, SameSettingValues, SameSettingMessages
<1> HIDE DEF v
<1>4. CASE UNCHANGED state
  BY <1>1, <1>4
<1>5. CASE /\ e \in Numbers \/ Entities!IsMapped(e, w)
           /\ state' = [state EXCEPT ![e] = v]
  <2>1. state'[e] = v /\ \A x \in Setting \ {e} : state'[x] = state[x]
    BY <1>5, SameSettings DEF Entities!TypeOK
  <2>2. SettingShown(e, v) = <<w>>
    BY <1>3, <1>5, SettingShows
  <2>3. QED
    BY <1>1, <2>1, <2>2, ShownNext DEF ShownIs
<1>6. QED
  BY <1>1, <1>4, <1>5

(***************************************************************************)
(* What is shown, transmitted and on its way.                              *)
(***************************************************************************)

\* A register shows the same as long as its entity does not change.
LEMMA ShownKept ==
  /\ \A r \in Climate!Message :
       UNCHANGED climate_ready /\ Climate!Registers'[r] = Climate!Registers[r]
         => Shown'[r] = Shown[r]
  /\ \A r \in Setting : state'[r] = state[r] => Shown'[r] = Shown[r]
  /\ \A r \in Register \ (Climate!Message \cup Setting) : Shown'[r] = Shown[r]
  /\ UNCHANGED climateVars => Climate!Registers' = Climate!Registers
<1>1. UNCHANGED climateVars => Climate!Registers' = Climate!Registers
  BY DEF climateVars, Climate!Registers
<1>2. \A r \in Setting : state'[r] = state[r] => Shown'[r] = Shown[r]
  <2>1. \A r \in Setting : Shown[r] = SettingShown(r, state[r])
    BY ShownNow DEF ShownIs
  <2>2. \A r \in Setting : Shown'[r] = SettingShown(r, state'[r])
    BY ShownNext DEF ShownIs
  <2>3. QED
    BY <2>1, <2>2
<1>3. ASSUME NEW m \in Climate!Message, UNCHANGED climate_ready,
             Climate!Registers'[m] = Climate!Registers[m]
      PROVE  Shown'[m] = Shown[m]
  <2>1. \A r \in Climate!Message :
          Shown[r] = IF HasClimate /\ climate_ready THEN <<Climate!Registers[r]>> ELSE <<>>
    BY ShownNow DEF ShownIs
  <2>2. \A r \in Climate!Message :
          Shown'[r] = IF HasClimate /\ climate_ready' THEN <<Climate!Registers'[r]>> ELSE <<>>
    BY ShownNext DEF ShownIs
  <2>3. QED
    BY <1>3, <2>1, <2>2
<1>4. \A r \in Register \ (Climate!Message \cup Setting) : Shown'[r] = Shown[r]
  BY ShownNow, ShownNext DEF ShownIs
<1>5. QED
  BY <1>1, <1>2, <1>3, <1>4

\* Nothing else shows when no entity has changed.
LEMMA ShownSame ==
  ASSUME UNCHANGED <<climate_ready>>, Climate!Registers' = Climate!Registers,
         \A e \in Setting : state'[e] = state[e]
  PROVE  Shown' = Shown
<1>1. \A r \in Register : Shown'[r] = Shown[r]
  BY ShownKept
<1>2. Shown = [r \in Register |-> Shown[r]] /\ Shown' = [r \in Register |-> Shown'[r]]
  BY ShownNow, ShownNext DEF ShownIs
<1>3. [r \in Register |-> Shown'[r]] = [r \in Register |-> Shown[r]]
  BY <1>1
<1>4. QED
  BY <1>2, <1>3

\* Spending counts the events, which stay within their bounds.
LEMMA Spending ==
  ASSUME NEW events, Spend(events), spent \in [Events -> Nat]
  PROVE  /\ spent' \in [Events -> Nat]
         /\ spent'.panel + spent'.loss + spent'.damage + spent'.reboot <= MaxTroubles
         /\ \A e \in Events : spent'[e] = IF e \in events THEN spent[e] + 1 ELSE spent[e]
         /\ spent'.loss >= spent.loss
<1>1. /\ spent' = [e \in Events |-> IF e \in events THEN spent[e] + 1 ELSE spent[e]]
      /\ spent'.panel + spent'.loss + spent'.damage + spent'.reboot <= MaxTroubles
  BY DEF Spend
<1>2. \A e \in Events : spent[e] \in Nat /\ spent'[e] \in Nat
  BY <1>1
<1>3. spent' \in [Events -> Nat]
  BY <1>1, <1>2
<1>4. "loss" \in Events
  BY DEF Events
<1>5. QED
  BY <1>1, <1>2, <1>3, <1>4

\* All that the last handler has sent is shown.
SentShown ==
  /\ \A m \in DOMAIN climate_sent' :
       m \in Climate!Message /\ Shown'[m] = <<climate_sent'[m]>>
  /\ \A m \in DOMAIN setting_sent' :
       m \in Setting /\ Shown'[m] = <<setting_sent'[m]>>

\* Of what is sent the device takes over all but what is lost, and a loss counts.
LEMMA Transmission ==
  ASSUME NEW events, events = {} \/ events = {"command"}, TransmitTo(events),
         spent \in [Events -> Nat], SentShown
  PROVE  /\ device' = [r \in Register |-> device'[r]]
         /\ \A r \in Register :
              \/ device'[r] = device[r]
              \/ r \in SentMessages' /\ Shown'[r] = <<device'[r]>>
         /\ \/ \A r \in SentMessages' : Shown'[r] = <<device'[r]>>
            \/ spent'.loss >= spent.loss + 1
         /\ spent' \in [Events -> Nat]
         /\ spent'.panel + spent'.loss + spent'.damage + spent'.reboot <= MaxTroubles
         /\ spent'.loss >= spent.loss
         /\ spent'.command = IF events = {} THEN spent.command ELSE spent.command + 1
         /\ spent'.panel = spent.panel
<1>1. PICK lost : Transmit(lost, events)
  BY DEF TransmitTo
<1>2. Spend(events \cup (IF lost = {} THEN {} ELSE {"loss"}))
  BY <1>1 DEF Transmit
<1>3. /\ spent' \in [Events -> Nat]
      /\ spent'.panel + spent'.loss + spent'.damage + spent'.reboot <= MaxTroubles
      /\ spent'.loss >= spent.loss
      /\ \A e \in Events :
           spent'[e] = IF e \in events \cup (IF lost = {} THEN {} ELSE {"loss"})
                       THEN spent[e] + 1 ELSE spent[e]
  BY <1>2, Spending
<1>4. /\ spent'.command = IF events = {} THEN spent.command ELSE spent.command + 1
      /\ spent'.panel = spent.panel
      /\ lost # {} => spent'.loss >= spent.loss + 1
  BY <1>3 DEF Events
<1>5. device' = [r \in Register |->
         CASE r \in DOMAIN climate_sent' \ lost -> climate_sent'[r]
           [] r \in DOMAIN setting_sent' \ lost -> setting_sent'[r]
           [] OTHER -> device[r]]
  BY <1>1 DEF Transmit
<1>6. ASSUME NEW r \in Register
      PROVE  /\ r \in DOMAIN climate_sent' \ lost => device'[r] = climate_sent'[r]
             /\ r \in DOMAIN setting_sent' \ lost => device'[r] = setting_sent'[r]
             /\ r \notin SentMessages' \/ r \in lost => device'[r] = device[r]
  <2>1. r \in DOMAIN climate_sent' => r \notin DOMAIN setting_sent'
    BY Kinds DEF SentShown
  <2>2. QED
    BY <1>5, <2>1 DEF SentMessages
<1>7. ASSUME NEW r \in SentMessages'
      PROVE  r \in Register /\ (r \notin lost => Shown'[r] = <<device'[r]>>)
  <2>1. r \in DOMAIN climate_sent' \/ r \in DOMAIN setting_sent'
    BY DEF SentMessages
  <2>2. r \in Register
    BY <2>1, Kinds DEF SentShown
  <2>3. QED
    BY <1>6, <2>1, <2>2 DEF SentShown
<1>8. \A r \in Register :
        \/ device'[r] = device[r]
        \/ r \in SentMessages' /\ Shown'[r] = <<device'[r]>>
  BY <1>6, <1>7
<1>9. device' = [r \in Register |-> device'[r]]
  BY <1>5
<1>10. QED
  BY <1>3, <1>4, <1>7, <1>8, <1>9

\* A handler that sends nothing leaves the device alone.
LEMMA NothingSent ==
  climate_sent' = Climate!Nothing /\ setting_sent' = Entities!Nothing
    => SentShown /\ SentMessages' = {}
BY DEF SentShown, SentMessages, Climate!Nothing, Entities!Nothing

\* What an option stands for is a number.
LEMMA ByteOf ==
  ASSUME NEW bytes \in Seq(0 .. 255), NEW i \in 1 .. Len(bytes)
  PROVE  bytes[i] \in Int
<1>1. bytes[i] \in 0 .. 255
  BY ElementOfSeq
<1>2. 0 .. 255 \subseteq Int
  OBVIOUS
<1>3. QED
  BY <1>1, <1>2, Zenon

\* The values of a register are those its message carries.
LEMMA ValuesCarried ==
  ASSUME NEW r \in Register
  PROVE  RegisterValue[r] \subseteq Carried(r)
<1>1. Possible[r] \subseteq Carried(r)
  BY WorldAssumption
<1>2. {f[2] : f \in {x \in Noise : x[1] = r}} \subseteq Carried(r)
  BY WorldAssumption
<1>3. \A t \in Nat : Climate!ToTenths(t) \in Nat
  <2>1. Fine \in Nat \ {0}
    BY FineAssumption
  <2>2. QED
    BY <2>1 DEF Climate!ToTenths
<1>4. Factory[r] \subseteq Carried(r)
  <2>1. CASE r \in Climate!Message
    <3>1. Climate!ToTenths(DEFAULT_TARGET_TEMPERATURE) \in Nat
      BY <1>3, ClimateAssumption DEF Climate!TemperatureAssumption
    <3>2. Carried(r) = Climate!Value(r)
      BY <2>1 DEF Carried
    <3>3. QED
      BY <2>1, <3>1, <3>2, FactoryValues
      DEF Climate!Message, Climate!Value, Climate!DeviceMode, Climate!DeviceFan
  <2>2. CASE r \in Setting
    <3>1. Carried(r) = Int
      BY <2>2, Kinds DEF Carried
    <3>2. SettingProofs!Configured(r) \subseteq Int
      <4>1. CASE r \in Numbers
        <5>1. initial_value_[r] \in Int
          BY <4>1, NumbersOK, ValuesAssumption
        <5>2. SettingProofs!Configured(r) = {Entities!ToTenths(initial_value_[r])}
          BY <4>1, Kinds, SameSettingValues DEF SettingProofs!Configured
        <5>3. Entities!ToTenths(initial_value_[r]) \in Int
          BY <5>1, FineAssumption DEF Entities!ToTenths
        <5>4. QED
          BY <5>2, <5>3
      <4>2. CASE r \in Restored
        <5>1. /\ option_bytes_[r] \in Seq(0 .. 255)
              /\ initial_index_[r] \in 1 .. Len(option_bytes_[r])
          BY <4>2, Kinds, SelectsOK
        <5>2. option_bytes_[r][initial_index_[r]] \in Int
          BY <5>1, ByteOf
        <5>3. SettingProofs!Configured(r) = {option_bytes_[r][initial_index_[r]]}
          BY <4>2, Kinds DEF SettingProofs!Configured
        <5>4. QED
          BY <5>2, <5>3
      <4>3. CASE r \notin Numbers /\ r \notin Restored
        BY <4>3 DEF SettingProofs!Configured
      <4>4. QED
        BY <4>1, <4>2, <4>3
    <3>3. QED
      BY <2>2, <3>1, <3>2, FactoryValues
  <2>3. CASE r \notin Climate!Message \cup Setting
    BY <2>3, FactoryValues
  <2>4. QED
    BY <2>1, <2>2, <2>3
<1>5. Askable(r) \subseteq Carried(r)
  <2>1. CASE r \in Climate!Message
    <3>1. r \notin Numbers /\ r \notin Selects /\ Carried(r) = Climate!Value(r)
      BY <2>1, Kinds DEF Carried
    <3>2. \A t \in Setpoints : Climate!ToTenths(t) \in Nat
      BY <1>3, ClimateAssumption DEF Climate!TemperatureAssumption
    <3>3. CASE r = "TargetTemperature"
      BY <3>1, <3>2, <3>3 DEF Askable, Climate!Value
    <3>4. CASE r = "Power"
      BY <3>1, <3>4 DEF Askable, Climate!Value
    <3>5. CASE r = "Mode"
      BY <3>1, <3>5 DEF Askable, Climate!Value
    <3>6. CASE r = "FanSpeed"
      BY <3>1, <3>6 DEF Askable, Climate!Value
    <3>7. QED
      BY <2>1, <3>3, <3>4, <3>5, <3>6 DEF Climate!Message
  <2>2. CASE r \in Setting
    <3>1. Carried(r) = Int /\ r \notin {"TargetTemperature", "Power", "Mode", "FanSpeed"}
      BY <2>2, Kinds DEF Carried, Climate!Message
    <3>2. CASE r \in Numbers
      <4>1. Askable(r) = {Entities!ToTenths(v) : v \in Values[r]}
        BY <3>1, <3>2, Kinds DEF Askable
      <4>2. \A v \in Int : Entities!ToTenths(v) \in Int
        BY FineAssumption DEF Entities!ToTenths
      <4>3. QED
        BY <3>1, <3>2, <4>1, <4>2, NumbersOK, ValuesAssumption
    <3>3. CASE r \in Selects
      <4>1. Askable(r) = {option_bytes_[r][i] : i \in Entities!Indices(r)}
        BY <3>1, <3>3, Kinds DEF Askable
      <4>2. option_bytes_[r] \in Seq(0 .. 255)
        BY <3>3, SelectsOK
      <4>3. \A i \in Entities!Indices(r) : option_bytes_[r][i] \in Int
        BY <4>2, ByteOf DEF Entities!Indices
      <4>4. QED
        BY <3>1, <4>1, <4>3
    <3>4. QED
      BY <2>2, <3>2, <3>3, Kinds
  <2>3. CASE r \notin Climate!Message \cup Setting
    <3>1. Askable(r) = {}
      BY <2>3, Kinds DEF Askable, Climate!Message
    <3>2. QED
      BY <3>1
  <2>4. QED
    BY <2>1, <2>2, <2>3
<1>6. RegisterValue[r] = Possible[r] \cup Factory[r] \cup Askable(r)
                         \cup {f[2] : f \in {x \in Noise : x[1] = r}}
  BY DEF RegisterValue
<1>7. QED
  BY <1>1, <1>2, <1>4, <1>5, <1>6

\* What a frame carries is of the type of its message.
LEMMA FrameCarries ==
  ASSUME NEW f \in Frame
  PROVE  /\ f = <<f[1], f[2]>>
         /\ f[1] \in Register => f[2] \in Carried(f[1])
         /\ f[1] = "Temperature" => f[2] \in Channels
<1>1. CASE f \in UNION {{r} \X RegisterValue[r] : r \in Register}
  <2>1. PICK r \in Register : f \in {r} \X RegisterValue[r]
    BY <1>1
  <2>2. f = <<f[1], f[2]>> /\ f[1] = r /\ f[2] \in RegisterValue[r]
    BY <2>1
  <2>3. QED
    BY <2>2, ValuesCarried, Kinds
<1>2. CASE f \in {"Temperature"} \X Measured
  BY <1>2, WorldAssumption, Kinds
<1>3. CASE f \in (Announced \ (Register \cup {"Temperature"})) \X {<<>>}
  BY <1>3
<1>4. CASE f \in Noise
  BY <1>4, WorldAssumption
<1>5. QED
  BY <1>1, <1>2, <1>3, <1>4 DEF Frame

\* The oldest frame and the others.
LEMMA Oldest ==
  ASSUME rx \in Seq(Frame), rx # <<>>
  PROVE  /\ Head(rx) \in Frame /\ Tail(rx) \in Seq(Frame) /\ Len(Tail(rx)) = Len(rx) - 1
         /\ {rx[i] : i \in DOMAIN rx}
              = {Head(rx)} \cup {Tail(rx)[i] : i \in DOMAIN Tail(rx)}
<1>1. /\ Head(rx) = rx[1] /\ Head(rx) \in Frame
      /\ Tail(rx) \in Seq(Frame) /\ Len(Tail(rx)) = Len(rx) - 1
      /\ Len(rx) \in Nat \ {0} /\ DOMAIN rx = 1 .. Len(rx)
      /\ \A i \in 1 .. Len(Tail(rx)) : Tail(rx)[i] = rx[i + 1]
      /\ DOMAIN Tail(rx) = 1 .. Len(Tail(rx))
  BY HeadTailProperties, EmptySeq
<1>2. \A i \in DOMAIN rx :
        i = 1 \/ (i - 1 \in DOMAIN Tail(rx) /\ Tail(rx)[i - 1] = rx[i])
  BY <1>1
<1>3. \A i \in DOMAIN Tail(rx) : i + 1 \in DOMAIN rx /\ Tail(rx)[i] = rx[i + 1]
  BY <1>1
<1>4. 1 \in DOMAIN rx
  BY <1>1
<1>5. \A x : x \in {rx[i] : i \in DOMAIN rx} =>
             x \in {Head(rx)} \cup {Tail(rx)[i] : i \in DOMAIN Tail(rx)}
  BY <1>1, <1>2
<1>6. \A x : x \in {Head(rx)} \cup {Tail(rx)[i] : i \in DOMAIN Tail(rx)} =>
             x \in {rx[i] : i \in DOMAIN rx}
  BY <1>1, <1>3, <1>4
<1>7. QED
  BY <1>1, <1>5, <1>6

\* Whatever the frame, the dispatch is a step of the entities.
LEMMA Dispatch ==
  ASSUME NEW f \in Frame, log_frame_(f)
  PROVE  /\ HasClimate =>
              \/ \E m : \E v \in Climate!Value(m) : Climate!Reflect(m, v)
              \/ ClimateIdle
         /\ \/ \E e \in Setting : \E w \in Int : Entities!Reflect(e, w)
            \/ SettingsIdle
<1>1. CASE f[1] = "Temperature" /\ publish_temperature(f[2]) /\ SettingsIdle
  <2>1. f[2].t1 \in Nat
    BY <1>1, FrameCarries DEF Channels, CHANNELS
  <2>2. QED
    BY <1>1, <2>1, ReadingReflects DEF publish_temperature
<1>2. CASE /\ f[1] \in Climate!Message /\ HasClimate
           /\ Climate!Reflect(f[1], f[2])
           /\ SettingsIdle
  <2>1. f[2] \in Climate!Value(f[1])
    BY <1>2, FrameCarries, Kinds DEF Carried
  <2>2. QED
    BY <1>2, <2>1
<1>3. CASE f[1] \in Setting /\ Entities!Reflect(f[1], f[2]) /\ ClimateIdle
  <2>1. f[2] \in Int
    BY <1>3, FrameCarries, Kinds DEF Carried
  <2>2. QED
    BY <1>3, <2>1
<1>4. CASE ClimateIdle /\ SettingsIdle
  BY <1>4
<1>5. QED
  BY <1>1, <1>2, <1>3, <1>4 DEF log_frame_

\* Every step maintains what the entities maintain of their own.
LEMMA EntitiesKept ==
  ASSUME IInv, Next
  PROVE  (HasClimate => Climate!IInv') /\ Entities!TypeOK'
<1>0. (HasClimate => Climate!IInv) /\ Entities!TypeOK
  BY DEF IInv, TypeOK
<1>1. CASE BootClimate
  BY <1>0, <1>1, ClimateStep, SettingStep DEF BootClimate
<1>2. ASSUME NEW e \in Setting, BootSetting(e)
      PROVE  (HasClimate => Climate!IInv') /\ Entities!TypeOK'
  BY <1>0, <1>2, ClimateStep, SettingStep DEF BootSetting
<1>3. CASE Return
  BY <1>0, <1>3, ClimateStep, SettingStep DEF Return
<1>4. CASE sync_iteration_
  BY <1>0, <1>4, ClimateStep, SettingStep DEF sync_iteration_
<1>5. CASE loop
  <2>1. Head(rx) \in Frame /\ log_frame_(Head(rx))
    BY <1>5, Oldest DEF loop, IInv, TypeOK
  <2>2. QED
    BY <1>0, <2>1, Dispatch, ClimateStep, SettingStep
<1>6. ASSUME NEW call \in Climate!Call, CommandClimate(call)
      PROVE  (HasClimate => Climate!IInv') /\ Entities!TypeOK'
  BY <1>0, <1>6, ClimateStep, SettingStep DEF CommandClimate
<1>7. ASSUME NEW e \in Setting, NEW v \in Entities!Callable(e), CommandSetting(e, v)
      PROVE  (HasClimate => Climate!IInv') /\ Entities!TypeOK'
  BY <1>0, <1>7, ClimateStep, SettingStep DEF CommandSetting
<1>8. CASE \/ \E id \in Announced : Broadcast(id)
           \/ \E i \in DOMAIN rx : Damage(i)
           \/ \E r \in Register : Panel(r)
  <2>1. ClimateIdle /\ SettingsIdle
    BY <1>8 DEF Broadcast, Damage, Panel, Idle
  <2>2. QED
    BY <1>0, <2>1, ClimateStep, SettingStep
<1>9. CASE Flush
  BY <1>0, <1>9, ClimateStep, SettingStep DEF Flush
<1>10. CASE Reboot
  BY <1>0, <1>10, ClimateStep, SettingStep DEF Reboot
<1>11. QED
  BY <1>1, <1>2, <1>3, <1>4, <1>5, <1>6, <1>7, <1>8, <1>9, <1>10 DEF Next

(***************************************************************************)
(* The steps: each is one of the mirror's, or none, and maintains the rest *)
(* of the invariant.                                                       *)
(***************************************************************************)

\* The hub's own part of the type.
HubType ==
  /\ DOMAIN sensors = Sensors
  /\ \A c \in Sensors : sensors[c] = <<>> \/ sensors[c][1] \in Nat
  /\ sync_count_ \in 0 .. SYNC_REPEAT_COUNT
  /\ armed \in BOOLEAN
  /\ device = [r \in Register |-> device[r]]
  /\ rx \in Seq(Frame) /\ Len(rx) <= MaxRx
  /\ spent \in [Events -> Nat]
  /\ spent.panel + spent.loss + spent.damage + spent.reboot <= MaxTroubles
  /\ quiet \subseteq Register

\* What a step starts from, and what is to be shown of it.
Before == IInv /\ (HasClimate => Climate!IInv') /\ Entities!TypeOK'

Mirrors == [MirrorProofs!Next]_(MirrorProofs!vars)
Rest == HubType /\ Booted /\ ChannelsAgree /\ SavedSourced /\ SettingsSourced /\ Repairing

\* The instances of the mirror define the same.
LEMMA SameMirror ==
  /\ Mirror!NothingStrays <=> MirrorProofs!NothingStrays
  /\ Mirror!Init <=> MirrorProofs!Init
  /\ Mirror!Next <=> MirrorProofs!Next
  /\ Mirror!vars = MirrorProofs!vars
<1>1. \A S : Mirror!Optional(S) = MirrorProofs!Optional(S)
  BY Zenon DEF Mirror!Optional, MirrorProofs!Optional
<1>2. Mirror!NothingStrays <=> MirrorProofs!NothingStrays
  BY <1>1, Zenon DEF Mirror!NothingStrays, MirrorProofs!NothingStrays
<1>3. Mirror!Init <=> MirrorProofs!Init
  BY Zenon DEF Mirror!Init, MirrorProofs!Init
<1>4. \A S : Mirror!TakeOver(S) <=> MirrorProofs!TakeOver(S)
  BY Zenon DEF Mirror!TakeOver, MirrorProofs!TakeOver
<1>5. /\ Mirror!Command <=> MirrorProofs!Command
      /\ Mirror!Boot <=> MirrorProofs!Boot
      /\ Mirror!Resend <=> MirrorProofs!Resend
      /\ Mirror!Restart <=> MirrorProofs!Restart
  BY <1>1, <1>4, Zenon
  DEF Mirror!Command, MirrorProofs!Command, Mirror!Boot, MirrorProofs!Boot,
      Mirror!Resend, MirrorProofs!Resend, Mirror!Restart, MirrorProofs!Restart
<1>6. /\ \A r : Mirror!Panel(r) <=> MirrorProofs!Panel(r)
      /\ \A r : Mirror!Announce(r) <=> MirrorProofs!Announce(r)
      /\ \A r : Mirror!Garble(r) <=> MirrorProofs!Garble(r)
      /\ \A f : Mirror!Hear(f) <=> MirrorProofs!Hear(f)
  BY Zenon
  DEF Mirror!Panel, MirrorProofs!Panel, Mirror!Announce, MirrorProofs!Announce,
      Mirror!Garble, MirrorProofs!Garble, Mirror!Hear, MirrorProofs!Hear
<1>7. Mirror!Next <=> MirrorProofs!Next
  BY <1>5, <1>6, Zenon DEF Mirror!Next, MirrorProofs!Next
<1>8. Mirror!vars = MirrorProofs!vars
  BY Zenon DEF Mirror!vars, MirrorProofs!vars
<1>9. QED
  BY <1>2, <1>3, <1>7, <1>8

\* A step that the mirror does not see.
LEMMA MirrorStutters ==
  ASSUME Shown' = Shown, Flight' = Flight, UNCHANGED <<device, armed, origins>>,
         spent'.command = spent.command, spent'.panel = spent.panel
  PROVE  Mirrors
BY DEF Mirrors, MirrorProofs!vars

\* A transmission as the mirror sees it.
LEMMA TakenOver ==
  ASSUME device' = [r \in Register |-> device'[r]], NEW S, SentMessages' \subseteq S,
         \A r \in Register :
           \/ device'[r] = device[r]
           \/ r \in SentMessages' /\ Shown'[r] = <<device'[r]>>
  PROVE  MirrorProofs!TakeOver(S)
<1>1. DOMAIN device' = Register
  <2>1. DOMAIN [r \in Register |-> device'[r]] = Register
    OBVIOUS
  <2>2. QED
    BY <2>1
<1>2. QED
  BY <1>1 DEF MirrorProofs!TakeOver

\* What came from outside for a register stays.
Grown == \A r \in Register : origins[r] \subseteq origins'[r]

\* Saved state stays sourced while nothing is saved and no origin is forgotten.
LEMMA SavedKept ==
  ASSUME SavedSourced, UNCHANGED saved, Grown
  PROVE  SavedSourced'
<1>1. \A r \in {"TargetTemperature", "Power", "Mode", "FanSpeed"} :
        origins[r] \subseteq origins'[r]
  BY Kinds DEF Grown, Climate!Message
<1>2. QED
  BY <1>1 DEF SavedSourced

LEMMA SettingsKept ==
  ASSUME SettingsSourced, UNCHANGED <<queued, flash, calls>>, Grown, Entities!TypeOK
  PROVE  SettingsSourced'
<1>1. \A e \in Setting : origins[e] \subseteq origins'[e]
  BY Kinds DEF Grown
<1>2. \A i \in DOMAIN calls : calls[i].entity \in Setting
  BY SameSettingType, SameSettings, SettingAssumptions, SettingProofs!CallsTyped
<1>3. Entities!Persistent \subseteq Setting
  BY Kinds
<1>4. QED
  BY <1>1, <1>2, <1>3 DEF SettingsSourced

\* A register that is repaired stays so as long as nobody touches it.
LEMMA RepairingKept ==
  ASSUME IInv, UNCHANGED <<sync_count_, armed, unset, climate_ready>>, quiet' \subseteq quiet,
         spent' \in [Events -> Nat], spent'.loss >= spent.loss,
         "Power" \in quiet' => UNCHANGED power_on_,
         \A r \in quiet' : /\ Shown'[r] = Shown[r]
                           /\ device'[r] = device[r] \/ Shown'[r] = <<device'[r]>>
  PROVE  Repairing'
<1>1. /\ Repairing /\ sync_count_ \in Nat
      /\ spent.loss \in Nat /\ spent'.loss \in Nat
  <2>1. spent \in [Events -> Nat] /\ sync_count_ \in 0 .. SYNC_REPEAT_COUNT /\ "loss" \in Events
    BY DEF IInv, TypeOK, Events
  <2>2. QED
    BY <2>1, WindowAssumption DEF IInv
<1>2. /\ unset' # {} \/ (HasClimate /\ ~ climate_ready') => sync_count_' = 0
      /\ armed' => sync_count_' < SYNC_REPEAT_COUNT
      /\ unset' # Setting \/ climate_ready' => armed' \/ sync_count_' = SYNC_REPEAT_COUNT
  BY <1>1 DEF Repairing
<1>3. ASSUME NEW r \in quiet'
      PROVE  \/ Shown'[r] \in {<<>>, <<device'[r]>>}
             \/ Withheld(r)'
             \/ spent'.loss >= sync_count_'
  <2>1. CASE Shown[r] \in {<<>>, <<device[r]>>}
    BY <1>3, <2>1
  <2>2. CASE Withheld(r)
    BY <2>2 DEF Withheld
  <2>3. CASE spent.loss >= sync_count_
    BY <1>1, <2>3
  <2>4. QED
    BY <1>1, <1>3, <2>1, <2>2, <2>3 DEF Repairing
<1>4. QED
  BY <1>2, <1>3 DEF Repairing

\* What the steps use of the invariant.
LEMMA InvariantParts ==
  ASSUME IInv
  PROVE  /\ HasClimate => Climate!IInv
         /\ TypeOK /\ HubType /\ Entities!TypeOK /\ Booted /\ ChannelsAgree
         /\ Sourced /\ SavedSourced /\ SettingsSourced /\ Repairing
         /\ \A r \in Register : /\ device[r] \in origins[r]
                                /\ Factory[r] \subseteq origins[r]
                                /\ origins[r] \subseteq RegisterValue[r]
                                /\ Shown[r] \in MirrorProofs!Optional(origins[r])
         /\ \A f \in Flight : f[2] \in origins[f[1]]
         /\ DOMAIN origins = Register
<1>1. /\ HasClimate => Climate!IInv
      /\ TypeOK /\ Booted /\ ChannelsAgree /\ Sourced /\ Repairing
  BY DEF IInv
<1>2. HubType /\ Entities!TypeOK
  BY <1>1 DEF TypeOK, HubType
<1>3. MirrorProofs!NothingStrays /\ SavedSourced /\ SettingsSourced
  BY <1>1, SameMirror DEF Sourced
<1>4. \A r \in Register : /\ device[r] \in origins[r]
                          /\ Factory[r] \subseteq origins[r]
                          /\ origins[r] \subseteq RegisterValue[r]
                          /\ Shown[r] \in MirrorProofs!Optional(origins[r])
  BY <1>1, <1>3 DEF Sourced, TypeOK, MirrorProofs!NothingStrays
<1>5. (\A f \in Flight : f[2] \in origins[f[1]]) /\ DOMAIN origins = Register
  BY <1>1, <1>3 DEF TypeOK, MirrorProofs!NothingStrays
<1>6. QED
  BY <1>1, <1>2, <1>3, <1>4, <1>5

\* setup() of the climate entity shows restored or default values and transmits
\* them, in the window that it opens.
LEMMA BootClimateStep ==
  ASSUME Before, BootClimate
  PROVE  Mirrors /\ Rest'
<1>1. /\ HasClimate /\ calls = <<>> /\ Climate!Setup /\ SettingsIdle
      /\ armed' = TRUE /\ quiet' = quiet \cup Climate!Message
      /\ TransmitTo({})
      /\ UNCHANGED <<sensors, sync_count_, rx, origins>>
  BY DEF BootClimate, Booting
<1>2. /\ ~ climate_ready /\ climate_ready'
      /\ UNCHANGED <<current_temperature, saved>>
      /\ UNCHANGED settingVars /\ setting_sent' = Entities!Nothing
  BY <1>1 DEF Climate!Setup, SettingsIdle
<1>3. /\ HubType /\ Climate!IInv /\ Climate!IInv' /\ Booted /\ Repairing
      /\ spent \in [Events -> Nat] /\ Grown
  BY <1>1, InvariantParts DEF Before, HubType, Grown
<1>4. SentShown
  BY <1>1, <1>2, <1>3, ClimateSends DEF SentShown, Entities!Nothing
<1>5. /\ device' = [r \in Register |-> device'[r]]
      /\ \A r \in Register :
           \/ device'[r] = device[r]
           \/ r \in SentMessages' /\ Shown'[r] = <<device'[r]>>
      /\ spent' \in [Events -> Nat]
      /\ spent'.panel + spent'.loss + spent'.damage + spent'.reboot <= MaxTroubles
      /\ spent'.command = spent.command /\ spent'.panel = spent.panel
  BY <1>1, <1>3, <1>4, Transmission
<1>6. Mirrors
  <2>1. \A r \in Climate!Message : Shown'[r] = <<Climate!Registers'[r]>>
    BY <1>1, <1>2, ShownNext DEF ShownIs
  <2>2. \A r \in Climate!Message : Climate!Registers'[r] \in origins[r]
    BY <1>1, <1>3, InvariantParts, ClimateRestores DEF Before
  <2>3. ASSUME NEW r \in Register
        PROVE  Shown'[r] = Shown[r] \/ Shown'[r] \in MirrorProofs!Optional(origins[r])
    BY <1>2, <2>1, <2>2, ShownKept DEF settingVars, MirrorProofs!Optional
  <2>4. MirrorProofs!TakeOver(Register)
    <3>1. SentMessages' \subseteq Register
      BY <1>4, Kinds DEF SentShown, SentMessages
    <3>2. QED
      BY <1>5, <3>1, TakenOver
  <2>5. DOMAIN Shown' = Register
    BY ShownNext DEF ShownIs
  <2>6. Flight' = Flight
    BY <1>1 DEF Flight
  <2>7. MirrorProofs!Boot
    BY <1>1, <1>5, <2>3, <2>4, <2>5, <2>6 DEF MirrorProofs!Boot
  <2>8. QED
    BY <2>7 DEF Mirrors, MirrorProofs!Next
<1>7. HubType'
  BY <1>1, <1>3, <1>5, Kinds DEF HubType
<1>8. sync_count_ = 0
  BY <1>1, <1>2, <1>3 DEF Repairing
<1>9. Booted'
  BY <1>1, <1>2, <1>3, <1>8 DEF Booted, settingVars
<1>10. ChannelsAgree'
  BY <1>1, <1>2, InvariantParts DEF ChannelsAgree, Before
<1>11. SavedSourced' /\ SettingsSourced'
  BY <1>2, <1>3, InvariantParts, SavedKept, SettingsKept DEF Before, settingVars
<1>12. Repairing'
  <2>1. spent'.loss \in Nat
    BY <1>5 DEF Events
  <2>2. spent'.loss >= sync_count_' /\ sync_count_' = 0 /\ 0 < SYNC_REPEAT_COUNT
    BY <1>1, <1>8, <2>1, WindowAssumption
  <2>3. QED
    BY <1>1, <2>2 DEF Repairing
<1>13. QED
  BY <1>6, <1>7, <1>9, <1>10, <1>11, <1>12 DEF Rest

\* A setting shows a value from outside iff it would transmit one.
LEMMA ShownWire ==
  ASSUME NEW e \in Setting, NEW s, Entities!Shows(e, s), NEW S
  PROVE  SettingShown(e, s) \in MirrorProofs!Optional(S) <=> Entities!Wire(e, s) \subseteq S
<1>1. CASE s = <<>>
  BY <1>1, SettingShows DEF MirrorProofs!Optional
<1>2. CASE s # <<>>
  <2>1. PICK w \in Int : SettingShown(e, s) = <<w>> /\ Entities!Wire(e, s) = {w}
    BY <1>2, SettingShows
  <2>2. \A x : <<w>> = <<x>> => w = x
    OBVIOUS
  <2>3. <<w>> # <<>>
    OBVIOUS
  <2>4. QED
    BY <2>1, <2>2, <2>3 DEF MirrorProofs!Optional
<1>3. QED
  BY <1>1, <1>2

\* setup() of a setting shows what flash holds or what is configured.
LEMMA BootSettingStep ==
  ASSUME Before, NEW e \in Setting, BootSetting(e)
  PROVE  Mirrors /\ Rest'
<1>1. /\ Entities!Setup(e) /\ ClimateIdle
      /\ armed' = TRUE /\ quiet' = quiet \cup {e}
      /\ TransmitTo({})
      /\ UNCHANGED <<sensors, sync_count_, rx, origins>>
  BY DEF BootSetting, Booting
<1>2. /\ HubType /\ Entities!TypeOK /\ Entities!TypeOK' /\ Booted /\ Repairing
      /\ SettingsSourced
      /\ spent \in [Events -> Nat] /\ Grown
  BY <1>1, InvariantParts DEF Before, HubType, Grown
<1>3. /\ calls = <<>> /\ e \in unset /\ unset' = unset \ {e}
      /\ UNCHANGED <<queued, flash>>
      /\ \A x \in Setting \ {e} : state'[x] = state[x]
      /\ calls' = <<>> \/ calls' = <<Entities!Call("setup", e, state'[e])>>
      /\ Entities!Wire(e, state'[e])
           \subseteq Entities!Wire(e, state[e]) \cup Factory[e]
                     \cup UNION {Entities!Wire(x, flash[x]) : x \in Entities!Persistent \cap {e}}
      /\ setting_sent' = Entities!Nothing
  BY <1>1, <1>2, SettingSetup
<1>4. UNCHANGED climateVars /\ climate_sent' = Climate!Nothing
  BY <1>1 DEF ClimateIdle
<1>5. SentShown /\ SentMessages' = {}
  BY <1>3, <1>4, NothingSent
<1>6. /\ device' = [r \in Register |-> device'[r]]
      /\ \A r \in Register :
           \/ device'[r] = device[r]
           \/ r \in SentMessages' /\ Shown'[r] = <<device'[r]>>
      /\ spent' \in [Events -> Nat]
      /\ spent'.panel + spent'.loss + spent'.damage + spent'.reboot <= MaxTroubles
      /\ spent'.command = spent.command /\ spent'.panel = spent.panel
  BY <1>1, <1>2, <1>5, Transmission
<1>7. Entities!Wire(e, state'[e]) \subseteq origins[e]
  <2>1. e \in Register
    BY Kinds
  <2>2. Entities!Shows(e, state[e])
    BY <1>2, SameSettings DEF Entities!TypeOK
  <2>3. Shown[e] = SettingShown(e, state[e])
    BY ShownNow DEF ShownIs
  <2>4. Shown[e] \in MirrorProofs!Optional(origins[e]) /\ Factory[e] \subseteq origins[e]
    BY <2>1, InvariantParts DEF Before
  <2>5. Entities!Wire(e, state[e]) \subseteq origins[e]
    BY <2>2, <2>3, <2>4, ShownWire
  <2>6. \A x \in Entities!Persistent \cap {e} : Entities!Wire(x, flash[x]) \subseteq origins[e]
    BY <1>2 DEF SettingsSourced
  <2>7. QED
    BY <1>3, <2>4, <2>5, <2>6
<1>8. Mirrors
  <2>1. Shown'[e] \in MirrorProofs!Optional(origins[e])
    <3>1. Entities!Shows(e, state'[e])
      BY <1>2, SameSettings DEF Entities!TypeOK
    <3>2. Shown'[e] = SettingShown(e, state'[e])
      BY ShownNext DEF ShownIs
    <3>3. QED
      BY <1>7, <3>1, <3>2, ShownWire
  <2>2. ASSUME NEW r \in Register
        PROVE  Shown'[r] = Shown[r] \/ Shown'[r] \in MirrorProofs!Optional(origins[r])
    BY <1>3, <1>4, <2>1, ShownKept DEF climateVars
  <2>3. MirrorProofs!TakeOver(Register)
    BY <1>5, <1>6, TakenOver
  <2>4. DOMAIN Shown' = Register
    BY ShownNext DEF ShownIs
  <2>5. Flight' = Flight
    BY <1>1 DEF Flight
  <2>6. MirrorProofs!Boot
    BY <1>1, <1>6, <2>2, <2>3, <2>4, <2>5 DEF MirrorProofs!Boot
  <2>7. QED
    BY <2>6 DEF Mirrors, MirrorProofs!Next
<1>9. HubType'
  BY <1>1, <1>2, <1>6, Kinds DEF HubType
<1>10. sync_count_ = 0
  BY <1>2, <1>3 DEF Repairing
<1>11. Booted'
  <2>1. \A x \in unset' : state'[x] = <<>>
    BY <1>2, <1>3, SameSettings DEF Booted, Entities!TypeOK
  <2>2. /\ Len(calls') <= 1
        /\ calls' # <<>> => calls'[1].entity = e
    BY <1>3 DEF Entities!Call
  <2>3. QED
    BY <1>1, <1>2, <1>3, <1>4, <1>10, <2>1, <2>2 DEF Booted, climateVars
<1>12. ChannelsAgree'
  BY <1>1, <1>4, InvariantParts DEF ChannelsAgree, Before, climateVars
<1>13. SavedSourced'
  BY <1>2, <1>4, InvariantParts, SavedKept DEF Before, climateVars
<1>14. SettingsSourced'
  <2>1. \A i \in DOMAIN calls' :
          Entities!Wire(calls'[i].entity, calls'[i].value) \subseteq origins'[calls'[i].entity]
    <3>1. CASE calls' = <<>>
      BY <3>1
    <3>2. CASE calls' = <<Entities!Call("setup", e, state'[e])>>
      <4>1. ASSUME NEW i \in DOMAIN calls'
            PROVE  calls'[i].entity = e /\ calls'[i].value = state'[e]
        BY <3>2 DEF Entities!Call
      <4>2. QED
        BY <1>1, <1>7, <4>1
    <3>3. QED
      BY <1>3, <3>1, <3>2
  <2>2. QED
    BY <1>1, <1>2, <1>3, <2>1 DEF SettingsSourced
<1>15. Repairing'
  <2>1. spent'.loss \in Nat
    BY <1>6 DEF Events
  <2>2. spent'.loss >= sync_count_' /\ sync_count_' = 0 /\ 0 < SYNC_REPEAT_COUNT
    BY <1>1, <1>10, <2>1, WindowAssumption
  <2>3. QED
    BY <1>1, <2>2 DEF Repairing
<1>16. QED
  BY <1>8, <1>9, <1>11, <1>12, <1>13, <1>14, <1>15 DEF Rest

\* The rest of a handler transmits or saves what the setting shows.
LEMMA ReturnStep ==
  ASSUME Before, Return
  PROVE  Mirrors /\ Rest'
<1>1. /\ Entities!Return /\ ClimateIdle /\ TransmitTo({})
      /\ UNCHANGED <<sensors, sync_count_, armed, rx, quiet, origins>>
  BY DEF Return
<1>2. /\ HubType /\ Entities!TypeOK /\ Entities!TypeOK' /\ Booted /\ SettingsSourced
      /\ spent \in [Events -> Nat] /\ Grown
  BY <1>1, InvariantParts DEF Before, HubType, Grown
<1>3. UNCHANGED climateVars /\ climate_sent' = Climate!Nothing
  BY <1>1 DEF ClimateIdle
<1>4. /\ calls # <<>> /\ Len(calls) = 1 /\ 1 \in DOMAIN calls
      /\ calls' = <<>>
      /\ UNCHANGED <<unset, state, flash>>
      /\ \/ calls[1].kind = "setup" /\ UNCHANGED queued
         \/ /\ setting_sent' = Entities!Nothing
            /\ \/ UNCHANGED queued
               \/ /\ calls[1].entity \in Entities!Persistent
                  /\ queued' = [queued EXCEPT ![calls[1].entity] = calls[1].value]
  <2>1. /\ calls # <<>> /\ calls' = SubSeq(calls, 1, Len(calls) - 1)
        /\ UNCHANGED <<unset, state, flash>>
        /\ \/ calls[Len(calls)].kind = "setup" /\ UNCHANGED queued
           \/ /\ setting_sent' = Entities!Nothing
              /\ \/ UNCHANGED queued
                 \/ /\ calls[Len(calls)].entity \in Entities!Persistent
                    /\ queued' = [queued EXCEPT ![calls[Len(calls)].entity]
                                                  = calls[Len(calls)].value]
    BY <1>1 DEF Entities!Return
  <2>2. PICK S : calls \in Seq(S)
    BY <1>2 DEF Entities!TypeOK
  <2>3. Len(calls) = 1 /\ 1 \in DOMAIN calls
    <3>1. Len(calls) \in Nat /\ Len(calls) # 0 /\ DOMAIN calls = 1 .. Len(calls)
      BY <2>1, <2>2, EmptySeq
    <3>2. Len(calls) <= 1
      BY <1>2 DEF Booted
    <3>3. QED
      BY <3>1, <3>2
  <2>4. SubSeq(calls, 1, 0) = <<>>
    BY <2>2, SubSeqEmpty
  <2>5. QED
    BY <2>1, <2>3, <2>4
<1>5. SentShown
  BY <1>1, <1>2, <1>3, SettingSends DEF SentShown, Climate!Nothing
<1>6. /\ device' = [r \in Register |-> device'[r]]
      /\ \A r \in Register :
           \/ device'[r] = device[r]
           \/ r \in SentMessages' /\ Shown'[r] = <<device'[r]>>
      /\ spent' \in [Events -> Nat]
      /\ spent'.panel + spent'.loss + spent'.damage + spent'.reboot <= MaxTroubles
      /\ spent'.command = spent.command /\ spent'.panel = spent.panel
      /\ spent'.loss >= spent.loss
  BY <1>1, <1>2, <1>5, Transmission
<1>7. Shown' = Shown
  BY <1>3, <1>4, ShownSame, ShownKept DEF climateVars
<1>8. Flight' = Flight
  BY <1>1 DEF Flight
<1>9. Mirrors
  <2>1. CASE calls[1].kind = "setup"
    <3>1. SentMessages' \subseteq Register
      BY <1>5, Kinds DEF SentShown, SentMessages
    <3>2. MirrorProofs!TakeOver(Register)
      BY <1>6, <3>1, TakenOver
    <3>3. armed
      BY <1>2, <1>4, <2>1 DEF Booted
    <3>4. MirrorProofs!Resend
      BY <1>1, <1>2, <1>6, <1>7, <1>8, <3>2, <3>3 DEF MirrorProofs!Resend, HubType
    <3>5. QED
      BY <3>4 DEF Mirrors, MirrorProofs!Next
  <2>2. CASE setting_sent' = Entities!Nothing
    <3>1. SentMessages' = {}
      BY <1>3, <2>2, NothingSent
    <3>2. \A r \in Register : device'[r] = device[r]
      BY <1>6, <3>1
    <3>3. device' = device
      <4>1. device = [r \in Register |-> device[r]]
        BY <1>2 DEF HubType
      <4>2. [r \in Register |-> device'[r]] = [r \in Register |-> device[r]]
        BY <3>2
      <4>3. QED
        BY <1>6, <4>1, <4>2
    <3>4. QED
      BY <1>1, <1>6, <1>7, <1>8, <3>3, MirrorStutters
  <2>3. QED
    BY <1>4, <2>1, <2>2
<1>10. HubType'
  BY <1>1, <1>2, <1>6 DEF HubType
<1>11. Booted'
  BY <1>1, <1>2, <1>3, <1>4 DEF Booted, climateVars
<1>12. ChannelsAgree'
  BY <1>1, <1>3, InvariantParts DEF ChannelsAgree, Before, climateVars
<1>13. SavedSourced'
  BY <1>2, <1>3, InvariantParts, SavedKept DEF Before, climateVars
<1>14. SettingsSourced'
  <2>1. ASSUME NEW e \in Entities!Persistent
        PROVE  Entities!Wire(e, queued'[e]) \subseteq origins[e]
    <3>1. queued'[e] = queued[e] \/ (e = calls[1].entity /\ queued'[e] = calls[1].value)
      BY <1>2, <1>4 DEF Entities!TypeOK
    <3>2. QED
      BY <1>2, <1>4, <3>1 DEF SettingsSourced
  <2>2. QED
    BY <1>1, <1>2, <1>4, <2>1 DEF SettingsSourced
<1>15. Repairing'
  BY <1>1, <1>3, <1>4, <1>6, <1>7, RepairingKept DEF Before, climateVars, HubType,
     Repairing, IInv, TypeOK
<1>16. QED
  BY <1>9, <1>10, <1>11, <1>12, <1>13, <1>14, <1>15 DEF Rest

\* A round of the window re-sends what is shown; it repairs every untouched
\* register but one whose message is lost, and that loss counts.
LEMMA RoundStep ==
  ASSUME Before, sync_iteration_
  PROVE  Mirrors /\ Rest'
<1>1. /\ ready /\ armed /\ Entities!SyncToDevice
      /\ HasClimate => Climate!SyncToDevice
      /\ ~ HasClimate => ClimateIdle
      /\ TransmitTo({})
      /\ sync_count_' = sync_count_ + 1
      /\ armed' = (sync_count_' < SYNC_REPEAT_COUNT)
      /\ UNCHANGED <<sensors, rx, quiet, origins>>
  BY DEF sync_iteration_
<1>2. /\ HubType /\ Entities!TypeOK /\ Entities!TypeOK' /\ Booted /\ Repairing
      /\ HasClimate => Climate!IInv /\ Climate!IInv'
      /\ spent \in [Events -> Nat] /\ Grown
  BY <1>1, InvariantParts DEF Before, HubType, Grown
<1>3. UNCHANGED <<climateVars, settingVars>>
  BY <1>1, <1>2, ClimateRound, SettingRound DEF ClimateIdle
<1>4. SentShown
  <2>1. \A m \in DOMAIN climate_sent' :
          m \in Climate!Message /\ Shown'[m] = <<climate_sent'[m]>>
    BY <1>1, <1>2, ClimateSends DEF ClimateIdle, Climate!Nothing
  <2>2. QED
    BY <1>1, <1>2, <2>1, SettingSends DEF SentShown
<1>5. /\ device' = [r \in Register |-> device'[r]]
      /\ \A r \in Register :
           \/ device'[r] = device[r]
           \/ r \in SentMessages' /\ Shown'[r] = <<device'[r]>>
      /\ \/ \A r \in SentMessages' : Shown'[r] = <<device'[r]>>
         \/ spent'.loss >= spent.loss + 1
      /\ spent' \in [Events -> Nat]
      /\ spent'.panel + spent'.loss + spent'.damage + spent'.reboot <= MaxTroubles
      /\ spent'.command = spent.command /\ spent'.panel = spent.panel
      /\ spent'.loss >= spent.loss
  BY <1>1, <1>2, <1>4, Transmission
<1>6. Shown' = Shown
  BY <1>3, ShownSame, ShownKept DEF climateVars, settingVars
<1>7. sync_count_' \in 0 .. SYNC_REPEAT_COUNT /\ sync_count_ \in Nat
      /\ (armed' \/ sync_count_' = SYNC_REPEAT_COUNT)
  <2>1. sync_count_ < SYNC_REPEAT_COUNT /\ sync_count_ \in 0 .. SYNC_REPEAT_COUNT
    BY <1>1, <1>2 DEF Repairing, HubType
  <2>2. /\ sync_count_' \in 0 .. SYNC_REPEAT_COUNT /\ sync_count_ \in Nat
        /\ sync_count_' < SYNC_REPEAT_COUNT \/ sync_count_' = SYNC_REPEAT_COUNT
    BY <1>1, <2>1, WindowAssumption
  <2>3. QED
    BY <1>1, <2>2, Zenon
<1>8. Mirrors
  <2>1. SentMessages' \subseteq Register
    BY <1>4, Kinds DEF SentShown, SentMessages
  <2>2. MirrorProofs!TakeOver(Register)
    BY <1>5, <2>1, TakenOver
  <2>3. Flight' = Flight
    BY <1>1 DEF Flight
  <2>4. armed' \in BOOLEAN
    BY <1>1
  <2>5. MirrorProofs!Resend
    BY <1>1, <1>5, <1>6, <2>2, <2>3, <2>4 DEF MirrorProofs!Resend
  <2>6. QED
    BY <2>5 DEF Mirrors, MirrorProofs!Next
<1>9. HubType'
  <2>1. UNCHANGED <<sensors, rx, quiet>> /\ armed' \in BOOLEAN
    BY <1>1
  <2>2. /\ device' = [r \in Register |-> device'[r]]
        /\ spent' \in [Events -> Nat]
        /\ spent'.panel + spent'.loss + spent'.damage + spent'.reboot <= MaxTroubles
        /\ sync_count_' \in 0 .. SYNC_REPEAT_COUNT
    BY <1>5, <1>7
  <2>3. QED
    BY <1>2, <2>1, <2>2 DEF HubType
<1>10. Booted'
  <2>1. calls = <<>>
    BY <1>1 DEF ready, Entities!ready
  <2>2. QED
    BY <1>1, <1>2, <1>3, <2>1 DEF Booted, climateVars, settingVars
<1>11. ChannelsAgree'
  BY <1>1, <1>3, InvariantParts DEF ChannelsAgree, Before, climateVars
<1>12. SavedSourced' /\ SettingsSourced'
  BY <1>2, <1>3, InvariantParts, SavedKept, SettingsKept DEF Before, climateVars, settingVars
<1>13. Repairing'
  <2>1. /\ unset' = {} /\ (HasClimate => climate_ready')
    BY <1>1, <1>3 DEF ready, Entities!ready, climateVars, settingVars
  <2>2. ASSUME NEW r \in quiet
        PROVE  \/ Shown'[r] \in {<<>>, <<device'[r]>>}
               \/ Withheld(r)'
               \/ spent'.loss >= sync_count_'
    <3>1. r \in Register
      BY <1>2 DEF HubType
    <3>2. CASE \A x \in SentMessages' : Shown'[x] = <<device'[x]>>
      <4>1. CASE r \in SentMessages'
        BY <3>2, <4>1
      <4>2. CASE r \in Setting \ SentMessages'
        BY <1>1, <1>2, <1>6, <4>2, SettingRound DEF SentMessages
      <4>3. CASE r \in Climate!Message \ SentMessages' /\ HasClimate
        <5>1. r = "Mode" /\ ~ power_on_
          BY <1>1, <1>2, <4>3, ClimateRound DEF SentMessages
        <5>2. QED
          BY <1>3, <5>1 DEF Withheld, climateVars
      <4>4. CASE r \in Climate!Message /\ ~ HasClimate
        BY <1>6, <4>4, ShownNow DEF ShownIs
      <4>5. CASE r \notin Climate!Message \cup Setting
        BY <1>6, <3>1, <4>5, ShownNow DEF ShownIs
      <4>6. QED
        BY <4>1, <4>2, <4>3, <4>4, <4>5
    <3>3. CASE spent'.loss >= spent.loss + 1
      <4>1. spent.loss \in Nat /\ spent'.loss \in Nat
        BY <1>2, <1>5 DEF Events
      <4>2. CASE Shown[r] \in {<<>>, <<device[r]>>}
        BY <1>5, <1>6, <3>1, <4>2
      <4>3. CASE Withheld(r)
        BY <1>1, <1>3, <4>3 DEF Withheld, climateVars
      <4>4. CASE spent.loss >= sync_count_
        BY <1>1, <1>7, <3>3, <4>1, <4>4
      <4>5. QED
        BY <1>2, <4>2, <4>3, <4>4 DEF Repairing
    <3>4. QED
      BY <1>5, <3>2, <3>3
  <2>3. QED
    BY <1>1, <1>7, <2>1, <2>2 DEF Repairing
<1>14. QED
  BY <1>8, <1>9, <1>10, <1>11, <1>12, <1>13 DEF Rest

\* A step that transmits nothing.
LEMMA NothingTransmitted ==
  ASSUME HubType, TransmitTo({}), climate_sent' = Climate!Nothing,
         setting_sent' = Entities!Nothing
  PROVE  /\ device' = device
         /\ spent' \in [Events -> Nat]
         /\ spent'.panel + spent'.loss + spent'.damage + spent'.reboot <= MaxTroubles
         /\ spent'.command = spent.command /\ spent'.panel = spent.panel
         /\ spent'.loss >= spent.loss
<1>1. SentShown /\ SentMessages' = {} /\ spent \in [Events -> Nat]
  BY NothingSent DEF HubType
<1>2. /\ device' = [r \in Register |-> device'[r]]
      /\ \A r \in Register :
           \/ device'[r] = device[r]
           \/ r \in SentMessages' /\ Shown'[r] = <<device'[r]>>
      /\ spent' \in [Events -> Nat]
      /\ spent'.panel + spent'.loss + spent'.damage + spent'.reboot <= MaxTroubles
      /\ spent'.command = spent.command /\ spent'.panel = spent.panel
      /\ spent'.loss >= spent.loss
  BY <1>1, Transmission
<1>3. device' = device
  <2>1. device = [r \in Register |-> device[r]]
    BY DEF HubType
  <2>2. [r \in Register |-> device'[r]] = [r \in Register |-> device[r]]
    BY <1>1, <1>2
  <2>3. QED
    BY <1>2, <2>1, <2>2
<1>4. QED
  BY <1>2, <1>3

\* What the dispatch of a frame changes: what is shown of its register at most,
\* and for a measurement the temperatures.
LEMMA DispatchEffect ==
  ASSUME IInv, ready, NEW f \in Frame, log_frame_(f)
  PROVE  /\ climate_sent' = Climate!Nothing /\ setting_sent' = Entities!Nothing
         /\ UNCHANGED <<climate_ready, saved, unset, calls, queued, flash>>
         /\ f[1] # "Power" => UNCHANGED power_on_
         /\ \/ Shown' = Shown
            \/ f[1] \in Register /\ Shown' = [Shown EXCEPT ![f[1]] = <<f[2]>>]
         /\ \/ UNCHANGED <<current_temperature, sensors>>
            \/ /\ sensors' = [c \in DOMAIN sensors |-> <<f[2][c]>>]
               /\ f[2] \in Channels
               /\ HasClimate => current_temperature' = Climate!FromTenths(f[2].t1)
<1>0. /\ Entities!TypeOK
      /\ Shown = [r \in Register |-> Shown[r]]
      /\ Shown' = [r \in Register |-> Shown'[r]]
  BY InvariantParts, ShownNow, ShownNext DEF ready, ShownIs
<1>1. CASE f[1] = "Temperature" /\ publish_temperature(f[2]) /\ SettingsIdle
  <2>1. f[2].t1 \in Nat /\ f[2] \in Channels
    BY <1>1, FrameCarries DEF Channels, CHANNELS
  <2>2. /\ sensors' = [c \in DOMAIN sensors |-> <<f[2][c]>>]
        /\ HasClimate => Climate!PublishCurrentTemperature(f[2].t1)
        /\ ~ HasClimate => ClimateIdle
        /\ UNCHANGED settingVars /\ setting_sent' = Entities!Nothing
    BY <1>1 DEF publish_temperature, SettingsIdle
  <2>3. CASE HasClimate
    <3>1. /\ climate_sent' = Climate!Nothing
          /\ UNCHANGED <<climate_ready, saved, power_on_, active_mode_>>
          /\ Climate!Registers' = Climate!Registers
          /\ current_temperature' = Climate!FromTenths(f[2].t1)
      BY <2>1, <2>2, <2>3, ReadingReflects
    <3>2. Shown' = Shown
      BY <2>2, <3>1, ShownSame DEF settingVars
    <3>3. QED
      BY <2>1, <2>2, <3>1, <3>2 DEF settingVars
  <2>4. CASE ~ HasClimate
    <3>1. UNCHANGED climateVars /\ climate_sent' = Climate!Nothing
      BY <2>2, <2>4 DEF ClimateIdle
    <3>2. Shown' = Shown
      BY <2>2, <3>1, ShownSame, ShownKept DEF settingVars, climateVars
    <3>3. QED
      BY <2>1, <2>2, <2>4, <3>1, <3>2 DEF settingVars, climateVars
  <2>5. QED
    BY <2>3, <2>4
<1>2. CASE /\ f[1] \in Climate!Message /\ HasClimate
           /\ Climate!Reflect(f[1], f[2])
           /\ SettingsIdle
           /\ UNCHANGED sensors
  <2>1. f[2] \in Climate!Value(f[1])
    BY <1>2, FrameCarries, Kinds DEF Carried
  <2>2. /\ \/ Climate!Registers' = Climate!Registers
           \/ Climate!Registers' = [Climate!Registers EXCEPT ![f[1]] = f[2]]
        /\ climate_sent' = Climate!Nothing
        /\ climate_ready /\ UNCHANGED <<climate_ready, current_temperature, saved>>
        /\ f[1] # "Power" => power_on_' = power_on_
    BY <1>2, <2>1, ClimateReflects
  <2>3. UNCHANGED settingVars /\ setting_sent' = Entities!Nothing
    BY <1>2 DEF SettingsIdle
  <2>4. Shown' = Shown \/ Shown' = [Shown EXCEPT ![f[1]] = <<f[2]>>]
    <3>1. CASE Climate!Registers' = Climate!Registers
      BY <2>2, <2>3, <3>1, ShownSame DEF settingVars
    <3>2. CASE Climate!Registers' = [Climate!Registers EXCEPT ![f[1]] = f[2]]
      <4>1. DOMAIN Climate!Registers = Climate!Message
        BY DEF Climate!Registers
      <4>2. /\ Climate!Registers'[f[1]] = f[2]
            /\ \A r \in Climate!Message \ {f[1]} :
                 Climate!Registers'[r] = Climate!Registers[r]
        BY <1>2, <3>2, <4>1
      <4>3. Shown'[f[1]] = <<f[2]>>
        BY <1>2, <2>2, <4>2, ShownNext DEF ShownIs
      <4>4. \A r \in Register \ {f[1]} : Shown'[r] = Shown[r]
        BY <1>2, <2>2, <2>3, <4>2, ShownKept, Kinds DEF settingVars
      <4>5. QED
        BY <1>0, <4>3, <4>4
    <3>3. QED
      BY <2>2, <3>1, <3>2
  <2>5. QED
    BY <1>2, <2>2, <2>3, <2>4, Kinds DEF settingVars
<1>3. CASE f[1] \in Setting /\ Entities!Reflect(f[1], f[2]) /\ ClimateIdle /\ UNCHANGED sensors
  <2>1. f[2] \in Int
    BY <1>3, FrameCarries, Kinds DEF Carried
  <2>2. /\ \A x \in Setting \ {f[1]} : state'[x] = state[x]
        /\ state'[f[1]] = state[f[1]] \/ Shown'[f[1]] = <<f[2]>>
        /\ setting_sent' = Entities!Nothing
        /\ UNCHANGED <<unset, calls, queued, flash>>
    BY <1>0, <1>3, <2>1, SettingReflects
  <2>3. UNCHANGED climateVars /\ climate_sent' = Climate!Nothing
    BY <1>3 DEF ClimateIdle
  <2>4. Shown' = Shown \/ Shown' = [Shown EXCEPT ![f[1]] = <<f[2]>>]
    <3>1. \A r \in Register \ {f[1]} : Shown'[r] = Shown[r]
      BY <2>2, <2>3, ShownKept DEF climateVars
    <3>2. Shown'[f[1]] = Shown[f[1]] \/ Shown'[f[1]] = <<f[2]>>
      BY <1>3, <2>2, ShownKept
    <3>3. CASE Shown'[f[1]] = Shown[f[1]]
      <4>1. [r \in Register |-> Shown'[r]] = [r \in Register |-> Shown[r]]
        BY <3>1, <3>3
      <4>2. QED
        BY <1>0, <4>1
    <3>4. CASE Shown'[f[1]] = <<f[2]>>
      BY <1>0, <3>1, <3>4
    <3>5. QED
      BY <3>2, <3>3, <3>4
  <2>5. QED
    BY <1>3, <2>2, <2>3, <2>4, Kinds DEF climateVars
<1>4. CASE ClimateIdle /\ SettingsIdle /\ UNCHANGED sensors
  <2>1. /\ UNCHANGED <<climateVars, settingVars>>
        /\ climate_sent' = Climate!Nothing /\ setting_sent' = Entities!Nothing
    BY <1>4 DEF ClimateIdle, SettingsIdle
  <2>2. Shown' = Shown
    BY <2>1, ShownSame, ShownKept DEF settingVars, climateVars
  <2>3. QED
    BY <1>4, <2>1, <2>2 DEF settingVars, climateVars
<1>5. QED
  BY <1>1, <1>2, <1>3, <1>4 DEF log_frame_

\* A frame shows at its own register at most, and is not answered.
LEMMA LoopStep ==
  ASSUME Before, loop
  PROVE  Mirrors /\ Rest'
<1> DEFINE f == Head(rx)
<1>1. /\ ready /\ rx # <<>> /\ log_frame_(f) /\ rx' = Tail(rx) /\ TransmitTo({})
      /\ quiet' = quiet \ {f[1]}
      /\ UNCHANGED <<sync_count_, armed, origins>>
  BY DEF loop
<1>2. /\ HubType /\ Entities!TypeOK /\ Booted /\ ChannelsAgree /\ Grown /\ IInv
      /\ rx \in Seq(Frame) /\ Len(rx) <= MaxRx
  BY <1>1, InvariantParts DEF Before, HubType, Grown
<1>3. /\ f \in Frame /\ Tail(rx) \in Seq(Frame) /\ Len(Tail(rx)) = Len(rx) - 1
      /\ {rx[i] : i \in DOMAIN rx} = {f} \cup {Tail(rx)[i] : i \in DOMAIN Tail(rx)}
  BY <1>1, <1>2, Oldest
<1> HIDE DEF f
<1>4. /\ climate_sent' = Climate!Nothing /\ setting_sent' = Entities!Nothing
      /\ UNCHANGED <<climate_ready, saved, unset, calls, queued, flash>>
      /\ f[1] # "Power" => UNCHANGED power_on_
      /\ \/ Shown' = Shown
         \/ f[1] \in Register /\ Shown' = [Shown EXCEPT ![f[1]] = <<f[2]>>]
      /\ \/ UNCHANGED <<current_temperature, sensors>>
         \/ /\ sensors' = [c \in DOMAIN sensors |-> <<f[2][c]>>]
            /\ f[2] \in Channels
            /\ HasClimate => current_temperature' = Climate!FromTenths(f[2].t1)
  BY <1>1, <1>2, <1>3, DispatchEffect
<1>5. /\ device' = device
      /\ spent' \in [Events -> Nat]
      /\ spent'.panel + spent'.loss + spent'.damage + spent'.reboot <= MaxTroubles
      /\ spent'.command = spent.command /\ spent'.panel = spent.panel
      /\ spent'.loss >= spent.loss
  BY <1>1, <1>2, <1>4, NothingTransmitted
<1>6. Mirrors
  <2>1. CASE f[1] \in Register
    <3>1. f \in Flight /\ Flight' \in {Flight, Flight \ {f}}
      <4>1. Flight = {g \in {f} \cup {Tail(rx)[i] : i \in DOMAIN Tail(rx)} : g[1] \in Register}
        BY <1>3 DEF Flight
      <4>2. Flight' = {g \in {Tail(rx)[i] : i \in DOMAIN Tail(rx)} : g[1] \in Register}
        BY <1>1 DEF Flight
      <4>3. f \in Flight
        BY <2>1, <4>1
      <4>4. \A g : g \in Flight <=> g = f \/ g \in Flight'
        BY <2>1, <4>1, <4>2
      <4>5. f \in Flight' => Flight' = Flight
        BY <4>4
      <4>6. f \notin Flight' => Flight' = Flight \ {f}
        BY <4>4
      <4>7. QED
        BY <4>3, <4>5, <4>6
    <3>2. MirrorProofs!Hear(f)
      BY <1>1, <1>4, <1>5, <3>1 DEF MirrorProofs!Hear
    <3>3. QED
      BY <3>1, <3>2 DEF Mirrors, MirrorProofs!Next
  <2>2. CASE f[1] \notin Register
    <3>1. Flight' = Flight
      BY <1>1, <1>3, <2>2 DEF Flight
    <3>2. QED
      BY <1>1, <1>4, <1>5, <2>2, <3>1, MirrorStutters
  <2>3. QED
    BY <2>1, <2>2
<1>7. HubType'
  <2>1. /\ DOMAIN sensors' = Sensors
        /\ \A c \in Sensors : sensors'[c] = <<>> \/ sensors'[c][1] \in Nat
    <3>1. CASE UNCHANGED sensors
      BY <1>2, <3>1 DEF HubType
    <3>2. CASE sensors' = [c \in DOMAIN sensors |-> <<f[2][c]>>] /\ f[2] \in Channels
      <4>1. \A c \in CHANNELS : f[2][c] \in Nat
        BY <3>2 DEF Channels
      <4>2. \A x : <<x>>[1] = x
        OBVIOUS
      <4>3. QED
        BY <1>2, <3>2, <4>1, <4>2 DEF HubType, Sensors
    <3>3. QED
      BY <1>4, <3>1, <3>2
  <2>2. /\ rx' \in Seq(Frame) /\ Len(rx') <= MaxRx
    <3>1. Len(rx) \in Nat /\ MaxRx \in Nat
      BY <1>2, BoundsAssumption
    <3>2. QED
      BY <1>1, <1>2, <1>3, <3>1
  <2>3. QED
    BY <1>1, <1>2, <1>5, <2>1, <2>2 DEF HubType
<1>8. Booted'
  <2>1. unset' = {} /\ calls' = <<>> /\ (HasClimate => climate_ready')
    BY <1>1, <1>4 DEF ready, Entities!ready
  <2>2. QED
    BY <1>2, <1>4, <2>1 DEF Booted
<1>9. ChannelsAgree'
  <2>1. CASE UNCHANGED <<current_temperature, sensors>>
    BY <1>2, <2>1 DEF ChannelsAgree
  <2>2. CASE /\ sensors' = [c \in DOMAIN sensors |-> <<f[2][c]>>]
             /\ f[2] \in Channels
             /\ HasClimate => current_temperature' = Climate!FromTenths(f[2].t1)
    <3>1. DOMAIN sensors = Sensors
      BY <1>2 DEF HubType
    <3>2. "t1" \in Sensors => sensors'["t1"] = <<f[2].t1>>
      BY <2>2, <3>1
    <3>3. <<f[2].t1>>[1] = f[2].t1 /\ <<f[2].t1>> # <<>>
      OBVIOUS
    <3>4. QED
      BY <2>2, <3>2, <3>3 DEF ChannelsAgree
  <2>3. QED
    BY <1>4, <2>1, <2>2
<1>10. SavedSourced' /\ SettingsSourced'
  BY <1>2, <1>4, InvariantParts, SavedKept, SettingsKept
<1>11. Repairing'
  <2>1. \A r \in quiet' : Shown'[r] = Shown[r]
    <3>1. DOMAIN Shown = Register
      BY ShownNow DEF ShownIs
    <3>2. quiet' \subseteq Register
      BY <1>7 DEF HubType
    <3>3. QED
      BY <1>1, <1>4, <3>1, <3>2
  <2>2. /\ "Power" \in quiet' => UNCHANGED power_on_
        /\ quiet' \subseteq quiet
    BY <1>1, <1>4
  <2>3. QED
    BY <1>1, <1>2, <1>4, <1>5, <2>1, <2>2, RepairingKept
<1>12. QED
  BY <1>6, <1>7, <1>8, <1>9, <1>10, <1>11 DEF Rest

\* A command as the mirror sees it.
LEMMA Commanding ==
  ASSUME HubType, SentShown, NEW S, Commanded(S), SentMessages' \subseteq S, S \subseteq Register,
         S \in {{e} : e \in Setting} \cup SUBSET Climate!Message,
         \A r \in Register \ S : Shown'[r] = Shown[r],
         \A r \in S : \E v \in RegisterValue[r] : Shown'[r] = <<v>>
  PROVE  /\ Mirrors /\ HubType'
         /\ Grown /\ \A r \in S : Shown'[r][1] \in origins'[r]
         /\ spent'.loss >= spent.loss
         /\ \A r \in quiet' : r \in quiet /\ Shown'[r] = Shown[r] /\ device'[r] = device[r]
<1>1. /\ TransmitTo({"command"}) /\ quiet' = quiet \ S
      /\ origins' = [r \in Register |-> IF r \in S THEN origins[r] \cup {Shown'[r][1]}
                                        ELSE origins[r]]
      /\ UNCHANGED <<sensors, sync_count_, armed, rx>>
  BY DEF Commanded
<1>2. spent \in [Events -> Nat]
  BY DEF HubType
<1>3. /\ device' = [r \in Register |-> device'[r]]
      /\ \A r \in Register :
           \/ device'[r] = device[r]
           \/ r \in SentMessages' /\ Shown'[r] = <<device'[r]>>
      /\ spent' \in [Events -> Nat]
      /\ spent'.panel + spent'.loss + spent'.damage + spent'.reboot <= MaxTroubles
      /\ spent'.command = spent.command + 1 /\ spent'.panel = spent.panel
      /\ spent'.loss >= spent.loss
  BY <1>1, <1>2, Transmission
<1>4. Mirrors
  <2>1. MirrorProofs!TakeOver(S)
    BY <1>3, TakenOver
  <2>2. Flight' = Flight
    BY <1>1 DEF Flight
  <2>3. DOMAIN Shown' = Register
    BY ShownNext DEF ShownIs
  <2>4. spent'.command + spent'.panel = spent.command + spent.panel + 1
    BY <1>2, <1>3 DEF Events
  <2>5. MirrorProofs!Command
    BY <1>1, <2>1, <2>2, <2>3, <2>4 DEF MirrorProofs!Command
  <2>6. QED
    BY <2>5 DEF Mirrors, MirrorProofs!Next
<1>5. HubType'
  BY <1>1, <1>3 DEF HubType
<1>6. Grown /\ \A r \in S : Shown'[r][1] \in origins'[r]
  BY <1>1 DEF Grown
<1>7. \A r \in quiet' : r \in quiet /\ Shown'[r] = Shown[r] /\ device'[r] = device[r]
  BY <1>1, <1>3 DEF HubType
<1>8. QED
  BY <1>3, <1>4, <1>5, <1>6, <1>7

\* A command transmits the registers it asks for and no other.
LEMMA CommandClimateStep ==
  ASSUME Before, NEW call \in Climate!Call, CommandClimate(call)
  PROVE  Mirrors /\ Rest'
<1>1. /\ ready /\ HasClimate /\ Climate!Control(call) /\ SettingsIdle
      /\ Commanded(Asked(call))
  BY DEF CommandClimate
<1>2. /\ HubType /\ Climate!IInv /\ Climate!IInv' /\ Booted /\ IInv
  BY <1>1, InvariantParts DEF Before
<1>3. /\ DOMAIN climate_sent' \subseteq Asked(call)
      /\ \A m \in Climate!Message \ Asked(call) : Climate!Registers'[m] = Climate!Registers[m]
      /\ climate_ready /\ UNCHANGED <<climate_ready, current_temperature, saved>>
      /\ "Power" \notin Asked(call) => power_on_' = power_on_
      /\ Asked(call) \subseteq Climate!Message
  BY <1>1, <1>2, ClimateCommand
<1>4. UNCHANGED settingVars /\ setting_sent' = Entities!Nothing
  BY <1>1 DEF SettingsIdle
<1>5. SentShown /\ SentMessages' \subseteq Asked(call)
  BY <1>1, <1>2, <1>3, <1>4, ClimateSends DEF SentShown, SentMessages, Entities!Nothing
<1>6. \A r \in Register \ Asked(call) : Shown'[r] = Shown[r]
  BY <1>3, <1>4, ShownKept DEF settingVars
<1>7. ASSUME NEW r \in Asked(call)
      PROVE  \E v \in RegisterValue[r] : Shown'[r] = <<v>>
  <2>1. Climate!Registers'[r] \in RegisterValue[r]
    BY <1>1, <1>2, <1>7, ClimateCommandValue
  <2>2. Shown'[r] = <<Climate!Registers'[r]>>
    BY <1>1, <1>3, <1>7, ShownNext DEF ShownIs
  <2>3. QED
    BY <2>1, <2>2
<1>8. /\ Mirrors /\ HubType' /\ Grown /\ spent'.loss >= spent.loss
      /\ \A r \in quiet' : r \in quiet /\ Shown'[r] = Shown[r] /\ device'[r] = device[r]
  <2>1. /\ Asked(call) \in {{e} : e \in Setting} \cup SUBSET Climate!Message
        /\ Asked(call) \subseteq Register
    BY <1>3, Kinds
  <2>2. QED
    BY <1>1, <1>2, <1>5, <1>6, <1>7, <2>1, Commanding
<1>9. /\ UNCHANGED <<sensors, sync_count_, armed>> /\ quiet' = quiet \ Asked(call)
  BY <1>1 DEF Commanded
<1>10. Booted'
  BY <1>1, <1>2, <1>3, <1>4, <1>9 DEF Booted, settingVars
<1>11. ChannelsAgree'
  BY <1>2, <1>3, <1>9, InvariantParts DEF ChannelsAgree
<1>12. SavedSourced' /\ SettingsSourced'
  BY <1>2, <1>3, <1>4, <1>8, InvariantParts, SavedKept, SettingsKept DEF settingVars
<1>13. Repairing'
  <2>1. "Power" \in quiet' => UNCHANGED power_on_
    BY <1>3, <1>9
  <2>2. spent' \in [Events -> Nat] /\ quiet' \subseteq quiet
    BY <1>8 DEF HubType
  <2>3. QED
    BY <1>2, <1>3, <1>4, <1>8, <1>9, <2>1, <2>2, RepairingKept DEF settingVars
<1>14. QED
  BY <1>8, <1>10, <1>11, <1>12, <1>13 DEF Rest

LEMMA CommandSettingStep ==
  ASSUME Before, NEW e \in Setting, NEW v \in Entities!Callable(e), CommandSetting(e, v)
  PROVE  Mirrors /\ Rest'
<1>1. ready /\ Entities!Control(e, v) /\ ClimateIdle /\ Commanded({e})
  BY DEF CommandSetting
<1>2. /\ HubType /\ Entities!TypeOK /\ Entities!TypeOK' /\ Booted /\ IInv
  BY InvariantParts DEF Before
<1>3. unset = {} /\ calls = <<>> /\ (HasClimate => climate_ready)
  BY <1>1 DEF ready, Entities!ready
<1>4. /\ DOMAIN setting_sent' \subseteq {e}
      /\ \A x \in Setting \ {e} : state'[x] = state[x]
      /\ calls' = <<Entities!Call("control", e, <<v>>)>>
      /\ UNCHANGED <<unset, queued, flash>>
  BY <1>1, <1>2, <1>3, SettingCommand
<1>5. PICK w \in RegisterValue[e] : Shown'[e] = <<w>> /\ Entities!Wire(e, <<v>>) = {w}
  BY <1>1, <1>2, <1>3, SettingCommand
<1>6. UNCHANGED climateVars /\ climate_sent' = Climate!Nothing
  BY <1>1 DEF ClimateIdle
<1>7. SentShown /\ SentMessages' \subseteq {e}
  BY <1>1, <1>2, <1>4, <1>6, SettingSends DEF SentShown, SentMessages, Climate!Nothing
<1>8. \A r \in Register \ {e} : Shown'[r] = Shown[r]
  BY <1>4, <1>6, ShownKept DEF climateVars
<1>9. /\ Mirrors /\ HubType' /\ Grown /\ spent'.loss >= spent.loss
      /\ \A r \in quiet' : r \in quiet /\ Shown'[r] = Shown[r] /\ device'[r] = device[r]
      /\ w \in origins'[e]
  <2>1. {e} \in {{x} : x \in Setting} \cup SUBSET Climate!Message /\ {e} \subseteq Register
    BY Kinds
  <2>2. QED
    BY <1>1, <1>2, <1>5, <1>7, <1>8, <2>1, Commanding
<1>10. UNCHANGED <<sensors, sync_count_, armed>> /\ quiet' = quiet \ {e}
  BY <1>1 DEF Commanded
<1>11. Booted'
  BY <1>2, <1>3, <1>4, <1>6, <1>10 DEF Booted, climateVars, Entities!Call
<1>12. ChannelsAgree'
  BY <1>2, <1>6, <1>10, InvariantParts DEF ChannelsAgree, climateVars
<1>13. SavedSourced'
  BY <1>2, <1>6, <1>9, InvariantParts, SavedKept DEF climateVars
<1>14. SettingsSourced'
  <2>1. \A x \in Entities!Persistent : origins[x] \subseteq origins'[x]
    BY <1>9, Kinds DEF Grown
  <2>2. ASSUME NEW i \in DOMAIN calls'
        PROVE  Entities!Wire(calls'[i].entity, calls'[i].value) \subseteq origins'[calls'[i].entity]
    <3>1. calls'[i].entity = e /\ calls'[i].value = <<v>>
      BY <1>4 DEF Entities!Call
    <3>2. QED
      BY <1>5, <1>9, <3>1
  <2>3. SettingsSourced
    BY <1>2, InvariantParts
  <2>4. QED
    BY <1>4, <2>1, <2>2, <2>3 DEF SettingsSourced
<1>15. Repairing'
  <2>1. spent' \in [Events -> Nat] /\ quiet' \subseteq quiet
    BY <1>9 DEF HubType
  <2>2. QED
    BY <1>2, <1>4, <1>6, <1>9, <1>10, <2>1, RepairingKept DEF climateVars
<1>16. QED
  BY <1>9, <1>11, <1>12, <1>13, <1>14, <1>15 DEF Rest

\* A step between handlers leaves the entities, sensors and the window alone.
LEMMA IdleKeeps ==
  ASSUME IInv, Idle \/ UNCHANGED vars, Grown, spent' \in [Events -> Nat], spent'.loss >= spent.loss,
         quiet' \subseteq quiet, \A r \in quiet' : device'[r] = device[r]
  PROVE  /\ Shown' = Shown
         /\ Booted' /\ ChannelsAgree' /\ SavedSourced' /\ SettingsSourced' /\ Repairing'
<1>1. UNCHANGED <<climateVars, settingVars, sensors, sync_count_, armed>>
  BY DEF Idle, ClimateIdle, SettingsIdle, vars
<1>2. Shown' = Shown
  BY <1>1, ShownSame, ShownKept DEF climateVars, settingVars
<1>3. Booted'
  BY <1>1, InvariantParts DEF Booted, climateVars, settingVars
<1>4. ChannelsAgree'
  BY <1>1, InvariantParts DEF ChannelsAgree, climateVars
<1>5. SavedSourced' /\ SettingsSourced'
  BY <1>1, InvariantParts, SavedKept, SettingsKept DEF climateVars, settingVars
<1>6. Repairing'
  BY <1>1, <1>2, RepairingKept DEF climateVars, settingVars
<1>7. QED
  BY <1>2, <1>3, <1>4, <1>5, <1>6

\* The device tells what it holds.
LEMMA BroadcastStep ==
  ASSUME Before, NEW id \in Announced, Broadcast(id)
  PROVE  Mirrors /\ Rest'
<1>1. PICK value \in Content(id) : rx' = Append(rx, <<id, value>>)
  BY DEF Broadcast
<1>2. /\ Len(rx) < MaxRx /\ Idle
      /\ UNCHANGED <<device, spent, quiet, origins, sensors, sync_count_, armed>>
  BY DEF Broadcast, Idle
<1>3. HubType /\ IInv /\ rx \in Seq(Frame) /\ spent \in [Events -> Nat] /\ Grown
  BY <1>2, InvariantParts DEF Before, HubType, Grown
<1>4. <<id, value>> \in Frame /\ (id \in Register => value = device[id])
  <2>1. CASE id \in Register
    <3>1. value = device[id]
      BY <1>1, <2>1, Kinds DEF Content
    <3>2. value \in RegisterValue[id]
      BY <1>3, <2>1, <3>1, InvariantParts
    <3>3. QED
      BY <2>1, <3>1, <3>2 DEF Frame
  <2>2. CASE id = "Temperature"
    <3>1. value \in Measured
      BY <1>1, <2>2, Kinds DEF Content
    <3>2. QED
      BY <2>2, <3>1, Kinds DEF Frame
  <2>3. CASE id \notin Register \cup {"Temperature"}
    <3>1. value = <<>>
      BY <1>1, <2>3 DEF Content
    <3>2. QED
      BY <2>3, <3>1 DEF Frame
  <2>4. QED
    BY <2>1, <2>2, <2>3
<1>5. /\ rx' \in Seq(Frame) /\ Len(rx') = Len(rx) + 1
      /\ {rx'[i] : i \in DOMAIN rx'} = {rx[i] : i \in DOMAIN rx} \cup {<<id, value>>}
  <2> DEFINE frame == <<id, value>>
  <2>1. frame \in Frame /\ rx' = Append(rx, frame)
    BY <1>1, <1>4
  <2> HIDE DEF frame
  <2>2. /\ rx' \in Seq(Frame) /\ Len(rx') = Len(rx) + 1
        /\ \A i \in 1 .. Len(rx) : rx'[i] = rx[i]
        /\ rx'[Len(rx) + 1] = frame
        /\ Len(rx) \in Nat /\ DOMAIN rx = 1 .. Len(rx) /\ DOMAIN rx' = 1 .. Len(rx) + 1
    BY <1>3, <2>1, AppendProperties
  <2>3. \A i \in DOMAIN rx' : (i \in DOMAIN rx /\ rx'[i] = rx[i]) \/ rx'[i] = frame
    BY <2>2
  <2>4. \A i \in DOMAIN rx : i \in DOMAIN rx' /\ rx'[i] = rx[i]
    BY <2>2
  <2>5. Len(rx) + 1 \in DOMAIN rx'
    BY <2>2
  <2>6. {rx'[i] : i \in DOMAIN rx'} = {rx[i] : i \in DOMAIN rx} \cup {frame}
    BY <2>2, <2>3, <2>4, <2>5
  <2>7. QED
    BY <2>2, <2>6 DEF frame
<1>6. /\ Shown' = Shown
      /\ Booted' /\ ChannelsAgree' /\ SavedSourced' /\ SettingsSourced' /\ Repairing'
  <2>1. spent'.loss >= spent.loss /\ spent' \in [Events -> Nat]
    BY <1>2, <1>3 DEF Events
  <2>2. QED
    BY <1>2, <1>3, <2>1, IdleKeeps
<1>7. Mirrors
  <2>1. CASE id \in Register
    <3>1. Flight' = Flight \cup {<<id, device[id]>>}
      <4>1. <<id, value>>[1] = id
        OBVIOUS
      <4>2. QED
        BY <1>4, <1>5, <2>1, <4>1 DEF Flight
    <3>2. MirrorProofs!Announce(id)
      BY <1>2, <1>6, <3>1 DEF MirrorProofs!Announce
    <3>3. QED
      BY <2>1, <3>2 DEF Mirrors, MirrorProofs!Next
  <2>2. CASE id \notin Register
    <3>1. Flight' = Flight
      <4>1. <<id, value>>[1] = id
        OBVIOUS
      <4>2. QED
        BY <1>5, <2>2, <4>1 DEF Flight
    <3>2. QED
      BY <1>2, <1>6, <3>1, MirrorStutters
  <2>3. QED
    BY <2>1, <2>2
<1>8. HubType'
  <2>1. Len(rx') <= MaxRx
    <3>1. Len(rx) \in Nat /\ MaxRx \in Nat
      BY <1>3, BoundsAssumption
    <3>2. QED
      BY <1>2, <1>5, <3>1
  <2>2. QED
    BY <1>2, <1>3, <1>5, <2>1 DEF HubType
<1>9. QED
  BY <1>6, <1>7, <1>8 DEF Rest

\* A damaged frame may say anything, which then counts as coming from outside.
LEMMA DamageStep ==
  ASSUME Before, NEW i \in DOMAIN rx, Damage(i)
  PROVE  Mirrors /\ Rest'
<1>1. PICK f \in Noise \ {rx[i]} :
        /\ rx' = [rx EXCEPT ![i] = f]
        /\ origins' = [r \in Register |-> IF r = f[1] THEN origins[r] \cup {f[2]}
                                          ELSE origins[r]]
  BY DEF Damage
<1>2. /\ Spend({"damage"}) /\ Idle
      /\ UNCHANGED <<device, quiet, sensors, sync_count_, armed>>
  BY DEF Damage, Idle
<1>3. HubType /\ IInv /\ rx \in Seq(Frame) /\ spent \in [Events -> Nat] /\ Grown
  BY <1>1, InvariantParts DEF Before, HubType, Grown
<1>4. /\ spent' \in [Events -> Nat]
      /\ spent'.panel + spent'.loss + spent'.damage + spent'.reboot <= MaxTroubles
      /\ spent'.loss >= spent.loss
      /\ spent'.command = spent.command /\ spent'.panel = spent.panel
  BY <1>2, <1>3, Spending DEF Events
<1>5. /\ Shown' = Shown
      /\ Booted' /\ ChannelsAgree' /\ SavedSourced' /\ SettingsSourced' /\ Repairing'
  BY <1>2, <1>3, <1>4, IdleKeeps
<1>6. f \in Frame /\ f = <<f[1], f[2]>>
  BY <1>1, WorldAssumption DEF Frame
<1>7. /\ rx' \in Seq(Frame) /\ Len(rx') = Len(rx)
      /\ {rx'[j] : j \in DOMAIN rx'} \subseteq {rx[j] : j \in DOMAIN rx} \cup {f}
  <2>1. rx' \in Seq(Frame) /\ Len(rx') = Len(rx)
    BY <1>1, <1>3, <1>6, ExceptSeq
  <2>2. DOMAIN rx' = DOMAIN rx /\ \A j \in DOMAIN rx : rx'[j] = rx[j] \/ rx'[j] = f
    BY <1>1
  <2>3. QED
    BY <2>1, <2>2
<1>8. Mirrors
  <2>1. /\ UNCHANGED <<device, armed>>
        /\ spent'.command + spent'.panel = spent.command + spent.panel
    BY <1>2, <1>4
  <2>2. DOMAIN origins = Register
    BY <1>3, InvariantParts
  <2>3. CASE f[1] \in Register
    <3>1. f[2] \in RegisterValue[f[1]]
      BY <1>1, <2>3 DEF RegisterValue
    <3>2. Flight' \subseteq Flight \cup {<<f[1], f[2]>>}
      BY <1>6, <1>7 DEF Flight
    <3>3. origins' = [origins EXCEPT ![f[1]] = @ \cup {f[2]}]
      BY <1>1, <2>2, <2>3
    <3>4. MirrorProofs!Garble(f[1])
      BY <1>5, <2>1, <3>1, <3>2, <3>3 DEF MirrorProofs!Garble
    <3>5. QED
      BY <2>3, <3>4 DEF Mirrors, MirrorProofs!Next
  <2>4. CASE f[1] \notin Register
    <3>1. "Power" \in Register
      BY DEF Register, Climate!Message
    <3>2. device["Power"] \in RegisterValue["Power"] /\ device["Power"] \in origins["Power"]
      BY <1>3, <3>1, InvariantParts
    <3>3. Flight' \subseteq Flight \cup {<<"Power", device["Power"]>>}
      BY <1>7, <2>4 DEF Flight
    <3>4. origins' = [origins EXCEPT !["Power"] = @ \cup {device["Power"]}]
      <4>1. \A r \in Register : origins'[r] = origins[r]
        BY <1>1, <2>4
      <4>2. origins["Power"] \cup {device["Power"]} = origins["Power"]
        BY <3>2
      <4>3. QED
        BY <1>1, <2>2, <2>4, <4>1, <4>2
    <3>5. MirrorProofs!Garble("Power")
      BY <1>5, <2>1, <3>2, <3>3, <3>4 DEF MirrorProofs!Garble
    <3>6. QED
      BY <3>1, <3>5 DEF Mirrors, MirrorProofs!Next
  <2>5. QED
    BY <2>3, <2>4
<1>9. HubType'
  BY <1>2, <1>3, <1>4, <1>7 DEF HubType
<1>10. QED
  BY <1>5, <1>8, <1>9 DEF Rest

\* A user changes a register at the device.
LEMMA PanelStep ==
  ASSUME Before, NEW r \in Register, Panel(r)
  PROVE  Mirrors /\ Rest'
<1>1. PICK x \in Possible[r] : /\ device' = [device EXCEPT ![r] = x]
                               /\ origins' = [origins EXCEPT ![r] = @ \cup {x}]
  BY DEF Panel
<1>2. /\ Spend({"panel"}) /\ Idle /\ quiet' = quiet \ {r}
      /\ UNCHANGED <<rx, sensors, sync_count_, armed>>
  BY DEF Panel, Idle
<1>3. HubType /\ IInv /\ spent \in [Events -> Nat] /\ DOMAIN origins = Register
  BY InvariantParts DEF Before, HubType
<1>4. /\ spent' \in [Events -> Nat]
      /\ spent'.panel + spent'.loss + spent'.damage + spent'.reboot <= MaxTroubles
      /\ spent'.loss >= spent.loss
      /\ spent'.command = spent.command /\ spent'.panel = spent.panel + 1
  BY <1>2, <1>3, Spending DEF Events
<1>5. Grown
  BY <1>1, <1>3 DEF Grown
<1>6. /\ device' = [q \in Register |-> device'[q]]
      /\ \A q \in Register \ {r} : device'[q] = device[q]
  BY <1>1, <1>3 DEF HubType
<1>7. /\ Shown' = Shown
      /\ Booted' /\ ChannelsAgree' /\ SavedSourced' /\ SettingsSourced' /\ Repairing'
  <2>1. quiet' \subseteq quiet /\ \A q \in quiet' : device'[q] = device[q]
    BY <1>2, <1>3, <1>6 DEF HubType
  <2>2. QED
    BY <1>2, <1>3, <1>4, <1>5, <2>1, IdleKeeps
<1>8. Mirrors
  <2>1. x \in RegisterValue[r]
    BY <1>1 DEF RegisterValue
  <2>2. Flight' = Flight
    BY <1>2 DEF Flight
  <2>3. spent'.command + spent'.panel = spent.command + spent.panel + 1
    BY <1>3, <1>4 DEF Events
  <2>4. MirrorProofs!Panel(r)
    BY <1>1, <1>2, <1>7, <2>1, <2>2, <2>3 DEF MirrorProofs!Panel
  <2>5. QED
    BY <2>4 DEF Mirrors, MirrorProofs!Next
<1>9. HubType'
  BY <1>2, <1>3, <1>4, <1>6 DEF HubType
<1>10. QED
  BY <1>7, <1>8, <1>9 DEF Rest

\* What the climate entity publishes is what it shows.
LEMMA PublishedSourced ==
  ASSUME IInv, HasClimate, climate_ready
  PROVE  /\ published = <<[target |-> target_temperature, mode |-> mode, fan |-> fan_mode]>>
         /\ Climate!ToTenths(target_temperature) \in origins["TargetTemperature"]
         /\ (mode # "OFF") \in origins["Power"]
         /\ mode \in Climate!ActiveMode =>
              Climate!climate_mode_to_device(mode) \in origins["Mode"]
         /\ \A j \in DOMAIN fan_mode :
              Climate!climate_fan_to_device(fan_mode[j]) \in origins["FanSpeed"]
<1>1. /\ published = <<[target |-> target_temperature, mode |-> mode, fan |-> fan_mode]>>
      /\ mode = Climate!FoldedMode(power_on_, active_mode_)
      /\ power_on_ \in BOOLEAN /\ active_mode_ \in Climate!ActiveMode
      /\ fan_mode \in Climate!Optional(Climate!FanMode)
  BY InvariantParts
  DEF Climate!IInv, Climate!TypeOK, Climate!ModeFolded, Climate!NothingHidden
<1>2. \A r \in Climate!Message : Climate!Registers[r] \in origins[r]
  <2> TAKE r \in Climate!Message
  <2>1. Shown[r] = <<Climate!Registers[r]>>
    BY ShownNow DEF ShownIs
  <2>2. Shown[r] \in MirrorProofs!Optional(origins[r])
    BY InvariantParts, Kinds
  <2>3. PICK x \in origins[r] : <<Climate!Registers[r]>> = <<x>>
    BY <2>1, <2>2 DEF MirrorProofs!Optional
  <2>4. \A y, z : <<y>> = <<z>> => y = z
    OBVIOUS
  <2>5. QED
    BY <2>3, <2>4
<1>3. /\ Climate!Registers["TargetTemperature"] = Climate!ToTenths(target_temperature)
      /\ Climate!Registers["Power"] = power_on_
      /\ Climate!Registers["Mode"] = Climate!climate_mode_to_device(active_mode_)
      /\ Climate!Registers["FanSpeed"] = Climate!climate_fan_to_device(fan_mode[1])
  BY Zenon DEF Climate!Registers, Climate!Content, Climate!Message
<1>4. /\ Climate!ToTenths(target_temperature) \in origins["TargetTemperature"]
      /\ power_on_ \in origins["Power"]
      /\ Climate!climate_mode_to_device(active_mode_) \in origins["Mode"]
      /\ Climate!climate_fan_to_device(fan_mode[1]) \in origins["FanSpeed"]
  BY <1>2, <1>3 DEF Climate!Message
<1>5. /\ power_on_ = (mode # "OFF")
      /\ mode \in Climate!ActiveMode => mode = active_mode_
  BY <1>1 DEF Climate!FoldedMode, Climate!ActiveMode
<1>6. \A j \in DOMAIN fan_mode : j = 1
  BY <1>1 DEF Climate!Optional
<1>7. QED
  BY <1>1, <1>4, <1>5, <1>6

\* Nothing saved, nothing to restore.
LEMMA WireEmpty == \A e : Entities!Wire(e, <<>>) = {}
<1>1. {<<>>[i] : i \in DOMAIN <<>>} = {}
  OBVIOUS
<1>2. ASSUME NEW e
      PROVE  Entities!Wire(e, <<>>) = {}
  <2>1. {Entities!ToTenths(x) : x \in {}} = {} /\ {option_bytes_[e][i] : i \in {}} = {}
    OBVIOUS
  <2>2. {} \cap Entities!Indices(e) = {}
    OBVIOUS
  <2>3. QED
    BY <1>1, <2>1, <2>2, Zenon DEF Entities!Wire
<1>3. QED
  BY <1>2

\* What is saved to flash is what is shown.
LEMMA FlushStep ==
  ASSUME Before, Flush
  PROVE  Mirrors /\ Rest'
<1>1. /\ ready
      /\ (HasClimate /\ Climate!Flush) \/ ClimateIdle
      /\ Entities!Flush
      /\ UNCHANGED <<sensors, sync_count_, armed, device, rx, spent, quiet, origins>>
  BY DEF Flush
<1>2. HubType /\ Entities!TypeOK /\ Booted /\ IInv /\ SavedSourced /\ SettingsSourced /\ Grown
      /\ (HasClimate => climate_ready)
  BY <1>1, InvariantParts DEF Before, Grown, ready
<1>3. UNCHANGED <<climate_ready, target_temperature, current_temperature, mode, fan_mode,
                  power_on_, active_mode_, unset, calls, state>>
  BY <1>1 DEF Climate!Flush, Climate!shown, ClimateIdle, climateVars, Entities!Flush
<1>4. Shown' = Shown
  <2>1. Climate!Registers' = Climate!Registers
    BY <1>3 DEF Climate!Registers
  <2>2. QED
    BY <1>3, <2>1, ShownSame
<1>5. Flight' = Flight
  BY <1>1 DEF Flight
<1>6. Mirrors
  BY <1>1, <1>4, <1>5, MirrorStutters
<1>7. HubType'
  BY <1>1, <1>2 DEF HubType
<1>8. Booted'
  BY <1>1, <1>2, <1>3 DEF Booted
<1>9. ChannelsAgree'
  BY <1>1, <1>2, <1>3, InvariantParts DEF ChannelsAgree
<1>10. SavedSourced'
  <2>1. CASE HasClimate /\ Climate!Flush
    <3>1. saved' = published
      BY <2>1 DEF Climate!Flush
    <3>2. /\ published = <<[target |-> target_temperature, mode |-> mode, fan |-> fan_mode]>>
          /\ Climate!ToTenths(target_temperature) \in origins["TargetTemperature"]
          /\ (mode # "OFF") \in origins["Power"]
          /\ mode \in Climate!ActiveMode =>
               Climate!climate_mode_to_device(mode) \in origins["Mode"]
          /\ \A j \in DOMAIN fan_mode :
               Climate!climate_fan_to_device(fan_mode[j]) \in origins["FanSpeed"]
      BY <1>2, <2>1, PublishedSourced
    <3>3. ASSUME NEW i \in DOMAIN saved'
          PROVE  /\ saved'[i].target = target_temperature
                 /\ saved'[i].mode = mode /\ saved'[i].fan = fan_mode
      BY <3>1, <3>2
    <3>4. QED
      BY <1>1, <3>2, <3>3 DEF SavedSourced
  <2>2. CASE ClimateIdle
    BY <1>2, <2>2, SavedKept DEF ClimateIdle, climateVars
  <2>3. QED
    BY <1>1, <2>1, <2>2
<1>11. SettingsSourced'
  <2>1. ASSUME NEW e \in Entities!Persistent
        PROVE  Entities!Wire(e, queued'[e]) \cup Entities!Wire(e, flash'[e]) \subseteq origins[e]
    <3>1. queued'[e] = <<>> /\ (flash'[e] = flash[e] \/ flash'[e] = queued[e])
      BY <1>1 DEF Entities!Flush
    <3>2. QED
      BY <1>2, <3>1, WireEmpty DEF SettingsSourced
  <2>2. QED
    BY <1>1, <1>2, <1>3, <2>1 DEF SettingsSourced
<1>12. Repairing'
  <2>1. spent' \in [Events -> Nat] /\ spent'.loss >= spent.loss
    BY <1>1, <1>2 DEF HubType, Events
  <2>2. QED
    BY <1>1, <1>2, <1>3, <1>4, <2>1, RepairingKept
<1>13. QED
  BY <1>6, <1>7, <1>8, <1>9, <1>10, <1>11, <1>12 DEF Rest

\* Nothing is shown after a reboot; what flash holds stays sourced.
LEMMA RebootStep ==
  ASSUME Before, Reboot
  PROVE  Mirrors /\ Rest'
<1>1. /\ Spend({"reboot"})
      /\ Climate!Reboot \/ (~ climate_ready /\ ClimateIdle)
      /\ Entities!Reboot \/ (unset = Setting /\ SettingsIdle)
      /\ sensors' = [c \in DOMAIN sensors |-> <<>>]
      /\ sync_count_' = 0 /\ armed' = FALSE /\ rx' = <<>>
      /\ UNCHANGED <<device, quiet, origins>>
  BY DEF Reboot
<1>2. HubType /\ Entities!TypeOK /\ Booted /\ IInv /\ SavedSourced /\ SettingsSourced /\ Grown
      /\ spent \in [Events -> Nat]
  BY <1>1, InvariantParts DEF Before, Grown, HubType
<1>3. /\ spent' \in [Events -> Nat]
      /\ spent'.panel + spent'.loss + spent'.damage + spent'.reboot <= MaxTroubles
      /\ spent'.command = spent.command /\ spent'.panel = spent.panel
  BY <1>1, <1>2, Spending DEF Events
<1>4. /\ ~ climate_ready' /\ UNCHANGED saved
      /\ HasClimate => active_mode_' = "HEAT" /\ current_temperature' = NaN
  <2>1. CASE Climate!Reboot
    BY <2>1 DEF Climate!Reboot
  <2>2. CASE ~ climate_ready /\ ClimateIdle
    BY <1>2, <2>2 DEF ClimateIdle, climateVars, Booted
  <2>3. QED
    BY <1>1, <2>1, <2>2
<1>5. /\ unset' = Setting /\ calls' = <<>> /\ \A e \in Setting : state'[e] = <<>>
      /\ UNCHANGED flash /\ \A e \in Entities!Persistent : queued'[e] \in {<<>>, queued[e]}
  <2>1. CASE Entities!Reboot
    BY <2>1, SameSettings DEF Entities!Reboot
  <2>2. CASE unset = Setting /\ SettingsIdle
    <3>1. calls = <<>>
      <4>1. calls # <<>> => calls[1].entity \in Setting
        <5>1. PICK S : calls \in Seq(S)
          BY <1>2 DEF Entities!TypeOK
        <5>2. calls # <<>> => 1 \in DOMAIN calls
          BY <5>1, EmptySeq
        <5>3. QED
          BY <1>2, <5>2, SameSettingType, SameSettings, SettingAssumptions,
             SettingProofs!CallsTyped
      <4>2. QED
        BY <1>2, <2>2, <4>1 DEF Booted
    <3>2. \A e \in Setting : state[e] = <<>>
      BY <1>2, <2>2 DEF Booted
    <3>3. QED
      BY <2>2, <3>1, <3>2 DEF SettingsIdle, settingVars
  <2>3. QED
    BY <1>1, <2>1, <2>2
<1>6. Mirrors
  <2>1. Shown' = [r \in Register |-> <<>>]
    <3>1. \A e \in Setting : Shown'[e] = <<>>
      <4>1. \A e \in Setting : Entities!Shows(e, <<>>)
        BY Zenon DEF Entities!Shows, Entities!IsOptional
      <4>2. \A e \in Setting : SettingShown(e, <<>>) = <<>>
        BY <4>1, SettingShows
      <4>3. \A e \in Setting : Shown'[e] = SettingShown(e, state'[e])
        BY ShownNext DEF ShownIs
      <4>4. QED
        BY <1>5, <4>2, <4>3
    <3>2. \A r \in Register \ Setting : Shown'[r] = <<>>
      BY <1>4, ShownNext DEF ShownIs
    <3>3. Shown' = [r \in Register |-> Shown'[r]] /\ \A r \in Register : Shown'[r] = <<>>
      BY <3>1, <3>2, ShownNext DEF ShownIs
    <3>4. QED
      BY <3>3
  <2>2. Flight' = {}
    <3>1. {rx'[i] : i \in DOMAIN rx'} = {}
      BY <1>1
    <3>2. QED
      BY <3>1 DEF Flight
  <2>3. spent'.command + spent'.panel = spent.command + spent.panel
    BY <1>3
  <2>4. MirrorProofs!Restart
    BY <1>1, <2>1, <2>2, <2>3 DEF MirrorProofs!Restart
  <2>5. QED
    BY <2>4 DEF Mirrors, MirrorProofs!Next
<1>7. HubType'
  <2>1. rx' \in Seq(Frame) /\ Len(rx') <= MaxRx
    BY <1>1, EmptySeq, BoundsAssumption
  <2>2. /\ DOMAIN sensors' = Sensors /\ \A c \in Sensors : sensors'[c] = <<>>
    BY <1>1, <1>2 DEF HubType
  <2>3. 0 \in 0 .. SYNC_REPEAT_COUNT
    BY WindowAssumption
  <2>4. QED
    BY <1>1, <1>2, <1>3, <2>1, <2>2, <2>3 DEF HubType
<1>8. Booted'
  <2>1. \A c \in Sensors : sensors'[c] = <<>>
    BY <1>1, <1>2 DEF HubType
  <2>2. Len(calls') <= 1
    BY <1>5
  <2>3. QED
    BY <1>4, <1>5, <2>1, <2>2 DEF Booted
<1>9. ChannelsAgree'
  <2>1. \A c \in Sensors : sensors'[c] = <<>>
    BY <1>1, <1>2 DEF HubType
  <2>2. QED
    BY <1>4, <2>1 DEF ChannelsAgree
<1>10. SavedSourced'
  BY <1>2, <1>4, SavedKept
<1>11. SettingsSourced'
  <2>1. \A e \in Entities!Persistent : Entities!Wire(e, queued'[e]) \subseteq origins[e]
    BY <1>2, <1>5, WireEmpty DEF SettingsSourced
  <2>2. \A i \in DOMAIN calls' : FALSE
    BY <1>5
  <2>3. QED
    BY <1>1, <1>2, <1>5, <2>1, <2>2 DEF SettingsSourced
<1>12. Repairing'
  <2>1. spent'.loss >= 0
    BY <1>3 DEF Events
  <2>2. QED
    BY <1>1, <1>4, <1>5, <2>1 DEF Repairing
<1>13. QED
  BY <1>6, <1>7, <1>8, <1>9, <1>10, <1>11, <1>12 DEF Rest

(***************************************************************************)
(* The invariant and what follows from it.                                 *)
(***************************************************************************)

\* The parts that the proofs about the entities, the mirror and the steps bring.
Whole ==
  /\ HasClimate => Climate!IInv
  /\ Entities!TypeOK
  /\ MirrorProofs!IInv
  /\ \A r \in Register : Factory[r] \subseteq origins[r] /\ origins[r] \subseteq RegisterValue[r]
  /\ Rest

\* Put together, the parts are the invariant.
LEMMA Assembled == Whole => IInv
<1> SUFFICES ASSUME Whole PROVE IInv
  OBVIOUS
<1>1. DOMAIN origins = Register /\ MirrorProofs!NothingStrays
  BY DEF Whole, MirrorProofs!IInv, MirrorProofs!Shape
<1>2. TypeOK
  BY <1>1 DEF Whole, TypeOK, Rest, HubType, Climate!IInv
<1>3. Sourced
  BY <1>1, SameMirror DEF Whole, Sourced, Rest
<1>4. QED
  BY <1>2, <1>3 DEF Whole, Rest, IInv

LEMMA AssembledNext == Whole' => IInv'
  BY Assembled, PTL

\* In a state of the invariant the mirror's holds.
LEMMA MirrorInvariant == IInv => MirrorProofs!IInv
<1> SUFFICES ASSUME IInv PROVE MirrorProofs!IInv
  OBVIOUS
<1>1. MirrorProofs!NothingStrays
  BY SameMirror DEF IInv, Sourced
<1>2. DOMAIN Shown = Register
  BY ShownNow DEF ShownIs
<1>3. DOMAIN device = Register
  <2>1. device = [r \in Register |-> device[r]]
    BY DEF IInv, TypeOK
  <2>2. DOMAIN [r \in Register |-> device[r]] = Register
    OBVIOUS
  <2>3. QED
    BY <2>1, <2>2
<1>4. DOMAIN origins = Register
  BY DEF IInv, TypeOK
<1>5. \A f \in Flight : f[1] \in Register
  BY DEF Flight
<1>6. QED
  BY <1>1, <1>2, <1>3, <1>4, <1>5 DEF MirrorProofs!IInv, MirrorProofs!Shape

\* A thermostat is found with one of the values that each register may hold.
LEMMA DeviceValues ==
  ASSUME NEW d \in DeviceState
  PROVE  d = [r \in Register |-> d[r]] /\ \A r \in Register : d[r] \in Possible[r]
<1> DEFINE settings == {x \in [DOMAIN MessageId -> UNION {Possible[m] : m \in DOMAIN MessageId}] :
                          \A m \in DOMAIN MessageId : x[m] \in Possible[m]}
           climate == [TargetTemperature : Possible["TargetTemperature"],
                       Power : Possible["Power"], Mode : Possible["Mode"],
                       FanSpeed : Possible["FanSpeed"]]
<1>1. PICK c \in climate, x \in settings :
        d = [r \in Register |-> IF r \in DOMAIN c THEN c[r] ELSE x[r]]
  BY DEF DeviceState
<1>2. \A m \in DOMAIN MessageId : x[m] \in Possible[m]
  OBVIOUS
<1>3. DOMAIN c = Climate!Message /\ \A r \in Climate!Message : c[r] \in Possible[r]
  BY DEF Climate!Message
<1> HIDE DEF settings, climate
<1>4. \A r \in Register : d[r] \in Possible[r]
  BY <1>1, <1>2, <1>3, Kinds
<1>5. QED
  BY <1>1, <1>4

\* The initial states are the mirror's and have the invariant.
LEMMA Initially == Init => Whole /\ MirrorProofs!Init
<1> SUFFICES ASSUME Init PROVE Whole /\ MirrorProofs!Init
  OBVIOUS
<1>1. /\ Climate!Init /\ saved = <<>> /\ Entities!Init
      /\ flash = [e \in Entities!Persistent |-> <<>>]
      /\ sensors = [c \in Sensors |-> <<>>] /\ sync_count_ = 0 /\ armed = FALSE
      /\ device \in DeviceState /\ rx = <<>> /\ spent = [e \in Events |-> 0]
      /\ quiet = Register /\ origins = [r \in Register |-> {device[r]} \cup Factory[r]]
  BY DEF Init
<1>2. Climate!IInv
  BY <1>1, SameClimateInit, SameClimateIInv, ClimateAssumptions, ClimateProofs!Initially
<1>3. Entities!TypeOK
  BY <1>1, SameSettingSteps, SameSettingType, SettingAssumptions, SettingProofs!InitType
<1>4. /\ ~ climate_ready /\ active_mode_ = "HEAT" /\ current_temperature = NaN
      /\ unset = Setting /\ calls = <<>> /\ \A e \in Setting : state[e] = <<>>
      /\ \A e \in Entities!Persistent : queued[e] = <<>>
  BY <1>1, SameSettings DEF Climate!Init, Entities!Init
<1>5. \A r \in Register : Shown[r] = <<>>
  <2>1. \A e \in Setting : Entities!Shows(e, <<>>)
    BY Zenon DEF Entities!Shows, Entities!IsOptional
  <2>2. \A e \in Setting : SettingShown(e, <<>>) = <<>>
    BY <2>1, SettingShows
  <2>3. \A r \in Setting : Shown[r] = <<>>
    BY <1>4, <2>2, ShownNow DEF ShownIs
  <2>4. QED
    BY <1>4, <2>3, ShownNow DEF ShownIs
<1>6. /\ device = [r \in Register |-> device[r]]
      /\ \A r \in Register : /\ device[r] \in Possible[r]
                             /\ device[r] \in origins[r]
                             /\ Factory[r] \subseteq origins[r]
                             /\ origins[r] \subseteq RegisterValue[r]
  <2>1. device = [r \in Register |-> device[r]] /\ \A r \in Register : device[r] \in Possible[r]
    BY <1>1, DeviceValues
  <2>2. \A r \in Register : Possible[r] \subseteq RegisterValue[r] /\ Factory[r] \subseteq RegisterValue[r]
    BY DEF RegisterValue
  <2>3. \A r \in Register : origins[r] = {device[r]} \cup Factory[r]
    BY <1>1
  <2>4. QED
    BY <2>1, <2>2, <2>3
<1>7. MirrorProofs!Init
  <2>1. Shown = [r \in Register |-> <<>>]
    <3>1. Shown = [r \in Register |-> Shown[r]]
      BY ShownNow DEF ShownIs
    <3>2. QED
      BY <1>5, <3>1
  <2>2. DOMAIN device = Register /\ DOMAIN origins = Register
    <3>1. DOMAIN [r \in Register |-> device[r]] = Register
      OBVIOUS
    <3>2. QED
      BY <1>1, <1>6, <3>1
  <2>3. Flight = {}
    <3>1. {rx[i] : i \in DOMAIN rx} = {}
      BY <1>1
    <3>2. QED
      BY <3>1 DEF Flight
  <2>4. spent.command + spent.panel = 0
    BY <1>1 DEF Events
  <2>5. QED
    BY <1>1, <1>6, <2>1, <2>2, <2>3, <2>4 DEF MirrorProofs!Init
<1>8. HubType
  <2>1. rx \in Seq(Frame) /\ Len(rx) <= MaxRx
    BY <1>1, EmptySeq, BoundsAssumption
  <2>2. spent \in [Events -> Nat]
        /\ spent.panel + spent.loss + spent.damage + spent.reboot <= MaxTroubles
    BY <1>1, BoundsAssumption DEF Events
  <2>3. 0 \in 0 .. SYNC_REPEAT_COUNT
    BY WindowAssumption
  <2>4. QED
    BY <1>1, <1>6, <2>1, <2>2, <2>3 DEF HubType
<1>9. Booted /\ ChannelsAgree
  BY <1>1, <1>4 DEF Booted, ChannelsAgree
<1>10. SavedSourced
  BY <1>1 DEF SavedSourced
<1>11. SettingsSourced
  <2>1. \A e \in Entities!Persistent : flash[e] = <<>> /\ queued[e] = <<>>
    BY <1>1, <1>4
  <2>2. \A i \in DOMAIN calls : FALSE
    BY <1>4
  <2>3. QED
    BY <2>1, <2>2, WireEmpty DEF SettingsSourced
<1>12. Repairing
  BY <1>1, <1>4, <1>5 DEF Repairing
<1>13. MirrorProofs!IInv
  BY <1>7, MirrorProofs!Initially
<1>14. QED
  BY <1>2, <1>3, <1>6, <1>7, <1>8, <1>9, <1>10, <1>11, <1>12, <1>13 DEF Whole, Rest

\* Every step is a step of the mirror or none and maintains the invariant.
LEMMA Inductive ==
  ASSUME IInv, [Next]_vars
  PROVE  Mirrors /\ IInv'
<1>1. CASE Next
  <2>1. Before
    BY <1>1, EntitiesKept DEF Before
  <2>2. Mirrors /\ Rest'
    BY <1>1, <2>1, BootClimateStep, BootSettingStep, ReturnStep, RoundStep, LoopStep,
       CommandClimateStep, CommandSettingStep, BroadcastStep, DamageStep, PanelStep,
       FlushStep, RebootStep DEF Next
  <2>3. MirrorProofs!IInv
    BY MirrorInvariant
  <2>4. MirrorProofs!IInv' /\ \A r \in Register :
          origins[r] \subseteq origins'[r] /\ origins'[r] \subseteq origins[r] \cup RegisterValue[r]
    BY <2>2, <2>3, MirrorProofs!Inductive, MirrorProofs!OriginsGrow DEF Mirrors
  <2>5. \A r \in Register : Factory[r] \subseteq origins'[r] /\ origins'[r] \subseteq RegisterValue[r]
    BY <2>4, InvariantParts
  <2>6. Whole'
    BY <2>1, <2>2, <2>4, <2>5 DEF Whole, Before
  <2>7. QED
    BY <2>2, <2>6, AssembledNext
<1>2. CASE UNCHANGED vars
  <2>1. Mirrors
    BY <1>2 DEF Mirrors, MirrorProofs!vars, vars, climateVars, settingVars, Shown, Flight,
       Climate!Registers
  <2>2. (HasClimate => Climate!IInv') /\ Entities!TypeOK'
    BY <1>2, InvariantParts, ClimateStep, SettingStep DEF vars
  <2>3. MirrorProofs!IInv' /\ Grown /\ origins' = origins
    BY <1>2, <2>1, MirrorInvariant, MirrorProofs!Inductive DEF Mirrors, vars, Grown
  <2>4. HubType'
    BY <1>2, InvariantParts DEF vars, HubType
  <2>5. Booted' /\ ChannelsAgree' /\ SavedSourced' /\ SettingsSourced' /\ Repairing'
    <3>1. /\ spent' \in [Events -> Nat] /\ spent'.loss >= spent.loss
          /\ quiet' \subseteq quiet /\ device' = device
      BY <1>2, InvariantParts DEF vars, HubType, Events
    <3>2. QED
      BY <1>2, <2>3, <3>1, IdleKeeps
  <2>6. Whole'
    BY <2>2, <2>3, <2>4, <2>5, InvariantParts DEF Whole, Rest
  <2>7. QED
    BY <2>1, <2>6, AssembledNext
<1>3. QED
  BY <1>1, <1>2

(***************************************************************************)
(* The theorems.                                                           *)
(***************************************************************************)

\* Entities, device, line and window keep the invariant together: the types hold,
\* the window has no more rounds than it should, every value is of its register,
\* and a round that did not repair a register has cost a loss.
THEOREM IInvariance == Spec => []IInv
<1>1. Init => IInv
  BY Initially, Assembled
<1>2. IInv /\ [Next]_vars => IInv'
  BY Inductive
<1>3. QED
  BY <1>1, <1>2, PTL DEF Spec

\* The climate entity and the t1 sensor always show the same reading, whichever
\* of the two the configuration has and through set-up and reboots.
THEOREM ChannelsAlwaysAgree == Spec => []ChannelsAgree
<1>1. IInv => ChannelsAgree
  BY DEF IInv
<1>2. QED
  BY <1>1, IInvariance, PTL

\* Fewer lost messages than the window has rounds leave no untouched register
\* different when it closes.  The bound is needed: every round may lose the
\* message of the same register.
THEOREM WindowRepairs ==
  ASSUME MaxTroubles < SYNC_REPEAT_COUNT
  PROVE  Spec => []WindowRepairsLoss
<1>1. ASSUME IInv, ready, ~ armed, NEW r \in quiet
      PROVE  Shown[r] \in {<<>>, <<device[r]>>} \/ Withheld(r)
  <2>1. spent.loss < SYNC_REPEAT_COUNT
    <3>1. /\ spent.panel \in Nat /\ spent.loss \in Nat /\ spent.damage \in Nat
          /\ spent.reboot \in Nat
          /\ spent.panel + spent.loss + spent.damage + spent.reboot <= MaxTroubles
      BY <1>1, InvariantParts DEF HubType, Events
    <3>2. QED
      BY <3>1, WindowAssumption, BoundsAssumption
  <2>2. unset = {} /\ (HasClimate => climate_ready)
    BY <1>1 DEF ready, Entities!ready
  <2>3. CASE Setting # {} \/ climate_ready
    <3>1. sync_count_ = SYNC_REPEAT_COUNT
      BY <1>1, <2>2, <2>3, InvariantParts DEF Repairing
    <3>2. ~ (spent.loss >= sync_count_)
      <4>1. spent.loss \in Nat
        BY <1>1, InvariantParts DEF HubType, Events
      <4>2. QED
        BY <2>1, <3>1, <4>1, WindowAssumption
    <3>3. QED
      BY <1>1, <3>2, InvariantParts DEF Repairing
  <2>4. CASE Setting = {} /\ ~ climate_ready
    <3>1. r \in Register /\ ~ HasClimate
      BY <1>1, <2>2, <2>4, InvariantParts DEF HubType
    <3>2. Shown[r] = <<>>
      BY <2>4, <3>1, ShownNow DEF ShownIs
    <3>3. QED
      BY <3>2
  <2>5. QED
    BY <2>3, <2>4
<1>2. IInv => WindowRepairsLoss
  BY <1>1 DEF WindowRepairsLoss
<1>3. QED
  BY <1>2, IInvariance, PTL

\* The hub with its entities implements the mirror, whatever is configured: each
\* of its handlers, and each thing that the line and the device do, is a step of
\* the mirror or changes nothing that it speaks of.
THEOREM ImplementsMirror == Spec => IsMirror
<1>1. Init => Mirror!Init
  BY Initially, SameMirror
<1>2. IInv /\ [Next]_vars => [Mirror!Next]_(Mirror!vars)
  <2>1. ASSUME IInv, [Next]_vars PROVE [Mirror!Next]_(Mirror!vars)
    <3>1. [MirrorProofs!Next]_(MirrorProofs!vars)
      BY <2>1, Inductive DEF Mirrors
    <3>2. CASE MirrorProofs!Next
      BY <3>2, SameMirror
    <3>3. CASE UNCHANGED MirrorProofs!vars
      BY <3>3 DEF MirrorProofs!vars, Mirror!vars
    <3>4. QED
      BY <3>1, <3>2, <3>3
  <2>2. QED
    BY <2>1
<1>3. QED
  BY <1>1, <1>2, IInvariance, PTL DEF Spec, IsMirror, Mirror!Spec

\* Hence no value is made up and none strays to another register: what an entity
\* shows, what the device holds and what saved state stands for came from outside
\* for that very register.
THEOREM NothingStraysInHub == Spec => []Sourced
<1>1. IInv => Sourced
  BY DEF IInv
<1>2. QED
  BY <1>1, IInvariance, PTL
=============================================================================
