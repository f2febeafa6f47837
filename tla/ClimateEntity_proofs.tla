------------------------ MODULE ClimateEntity_proofs ------------------------
(***************************************************************************)
(* Theorems about the climate entity: its invariant, and what its messages *)
(* make of a device, for every set of temperatures, modes and fan speeds.  *)
(***************************************************************************)
EXTENDS ClimateEntity, TLAPS

(***************************************************************************)
(* Optional values and temperatures.                                       *)
(***************************************************************************)

\* An optional value that is there belongs to the set.
LEMMA OptionalValue ==
  ASSUME NEW S, NEW x \in Optional(S), x # <<>>
  PROVE  x[1] \in S /\ x = <<x[1]>>
  BY DEF Optional

\* A value makes an optional value that is there.
LEMMA ValueOptional ==
  ASSUME NEW S, NEW v \in S
  PROVE  <<v>> \in Optional(S) /\ <<v>> # <<>> /\ <<v>>[1] = v
  BY DEF Optional

\* Optional values of a subset.
LEMMA OptionalMonotone ==
  ASSUME NEW S, NEW T, S \subseteq T
  PROVE  Optional(S) \subseteq Optional(T)
  BY DEF Optional

\* The two ways to say that a value is optional agree.
LEMMA OptionalIs ==
  ASSUME NEW S, NEW v
  PROVE  v \in Optional(S) <=> IsOptional(v, S)
  BY DEF Optional, IsOptional

\* A received temperature is one, and never the unknown one.
LEMMA ReadingKnown ==
  ASSUME NEW n \in Nat
  PROVE  FromTenths(n) \in Temperature /\ FromTenths(n) # NaN
<1>1. n \in Nat /\ Fine \in Nat
  BY TemperatureAssumption
<1>2. n * Fine \in Nat
  BY <1>1
<1>3. QED
  BY <1>2, TemperatureAssumption DEF FromTenths, Temperature

\* So is a setpoint that a command may ask for, and the default.
LEMMA SetpointKnown ==
  /\ \A t \in Setpoints : t \in Temperature /\ t # NaN
  /\ DEFAULT_TARGET_TEMPERATURE \in Temperature
  /\ DEFAULT_TARGET_TEMPERATURE # NaN
  BY TemperatureAssumption DEF Temperature

\* A known temperature is a natural number.
LEMMA KnownIsNatural ==
  ASSUME NEW t \in Temperature, t # NaN
  PROVE  t \in Nat
  BY DEF Temperature

\* A known temperature has whole tenths.
LEMMA TenthsNatural ==
  ASSUME NEW t \in Nat
  PROVE  ToTenths(t) \in Nat
  BY TemperatureAssumption DEF ToTenths

\* A number of tenths is the same after a float has held it.
LEMMA TenthsStable ==
  ASSUME NEW n \in Nat
  PROVE  ToTenths(FromTenths(n)) = n
<1>1. Fine \in Nat /\ Fine > 0
  BY TemperatureAssumption
<1>2. (n * Fine) \div Fine = n
  BY <1>1
<1>3. QED
  BY <1>2 DEF ToTenths, FromTenths

\* The folded mode is a mode the entity supports.
LEMMA FoldedModeSupported ==
  ASSUME NEW power \in BOOLEAN, NEW active \in ActiveMode
  PROVE  FoldedMode(power, active) \in SupportedMode
  BY DEF FoldedMode, SupportedMode

\* What is published is a state when its parts are.
LEMMA PublishedState ==
  ASSUME target_temperature' \in Temperature, mode' \in SupportedMode,
         fan_mode' \in Optional(FanMode), publish_state
  PROVE  IsOptional(published', State)
<1>1. [target |-> target_temperature', mode |-> mode', fan |-> fan_mode']
        \in State
  BY DEF State
<1>2. QED
  BY <1>1 DEF publish_state, IsOptional

\* A handler transmits messages of the entity's four types.
LEMMA MessagesOnly ==
  /\ DOMAIN Nothing \subseteq Message
  /\ \A t, p, a, f : DOMAIN SyncMessages(t, p, a, f) \subseteq Message
  /\ \A c : DOMAIN ControlMessages(c) \subseteq Message
  BY DEF Nothing, SyncMessages, ControlMessages

\* What the device may send is of the kind of its message.
LEMMA BroadcastValue ==
  ASSUME NEW b \in Broadcastable
  PROVE  b[2] \in Value(b[1])
<1>1. CASE b \in {"Temperature", "TargetTemperature"} \X Readings
  BY <1>1, TemperatureAssumption DEF Value
<1>2. CASE b \in {"Power"} \X BOOLEAN
  BY <1>2 DEF Value
<1>3. CASE b \in {"Mode"} \X ({climate_mode_to_device(m) : m \in Modes \ {"OFF"}}
                               \cup {Unknown})
  <2>1. \A m : climate_mode_to_device(m) \in DeviceMode
    BY DEF climate_mode_to_device, DeviceMode
  <2>2. QED
    BY <1>3, <2>1 DEF Value
<1>4. CASE b \in {"FanSpeed"} \X ({climate_fan_to_device(f) : f \in Fans}
                                   \cup {Unknown})
  <2>1. \A f : climate_fan_to_device(f) \in DeviceFan
    BY DEF climate_fan_to_device, DeviceFan
  <2>2. QED
    BY <1>4, <2>1 DEF Value
<1>5. QED
  BY <1>1, <1>2, <1>3, <1>4 DEF Broadcastable

(***************************************************************************)
(* The invariant.                                                          *)
(***************************************************************************)

LEMMA Initially == Init => IInv
<1> SUFFICES ASSUME Init
             PROVE  IInv
  OBVIOUS
<1>1. saved \in Optional(State)
  <2>1. Setpoints \cup {DEFAULT_TARGET_TEMPERATURE, NaN} \subseteq Temperature
    BY SetpointKnown DEF Temperature
  <2>2. Modes \cup {"HEAT_COOL", "DRY"} \subseteq SupportedMode \cup {"DRY"}
    BY ModesAssumption DEF SupportedMode, ActiveMode
  <2>3. Optional(Fans \cup {"AUTO"}) \subseteq Optional(FanMode)
    BY FansAssumption DEF Optional, FanMode
  <2>4. Saveable \subseteq State
    BY <2>1, <2>2, <2>3 DEF Saveable, State
  <2>5. QED
    BY <2>4, OptionalMonotone DEF Init
<1>2. TypeOK
  BY <1>1, OptionalIs, MessagesOnly
     DEF Init, TypeOK, Temperature, SupportedMode, ActiveMode, Optional
<1>3. QED
  BY <1>2 DEF IInv, Init, ModeFolded, Controllable, NothingHidden

\* setup() establishes the invariant whatever flash held.
LEMMA SetupStep ==
  ASSUME IInv, Setup
  PROVE  IInv'
<1> USE DEF IInv, TypeOK
<1>1. /\ Restored.target \in Temperature
      /\ Restored.mode \in SupportedMode \cup {"DRY"}
      /\ Restored.fan \in Optional(FanMode)
  <2>1. CASE saved = <<>>
    BY <2>1, SetpointKnown
       DEF Restored, FactoryState, SupportedMode, ActiveMode, Optional, FanMode
  <2>2. CASE saved # <<>>
    <3>1. saved[1] \in State
      BY <2>2 DEF IsOptional
    <3>2. QED
      BY <2>2, <3>1 DEF Restored, State
  <2>3. QED
    BY <2>1, <2>2
<1>2. target_temperature' \in Temperature /\ target_temperature' # NaN
  BY <1>1, SetpointKnown DEF Setup
<1>3. fan_mode' \in Optional(FanMode) /\ fan_mode' # <<>>
  <2>1. "AUTO" \in FanMode
    BY DEF FanMode
  <2>2. QED
    BY <1>1, <2>1, ValueOptional DEF Setup
<1>4. power_on_' \in BOOLEAN
  BY DEF Setup
<1>5. active_mode_' \in ActiveMode
  BY <1>1 DEF Setup, ActiveMode
<1>6. mode' = FoldedMode(power_on_', active_mode_') /\ mode' \in SupportedMode
  BY <1>4, <1>5, FoldedModeSupported DEF Setup
<1>7. IsOptional(published', State)
  BY <1>2, <1>3, <1>6, PublishedState DEF Setup
<1>8. DOMAIN sent' \subseteq Message
  BY MessagesOnly DEF Setup
<1>9. TypeOK'
  BY <1>2, <1>3, <1>4, <1>5, <1>6, <1>7, <1>8 DEF Setup
<1>10. ModeFolded' /\ Controllable' /\ NothingHidden'
  BY <1>2, <1>3, <1>6
     DEF Setup, publish_state, ModeFolded, Controllable, NothingHidden
<1>11. QED
  BY <1>9, <1>10

\* control() maintains the invariant.
LEMMA ControlStep ==
  ASSUME IInv, NEW call \in Call, Control(call)
  PROVE  IInv'
<1> USE DEF IInv, TypeOK
<1>0. /\ call.target \in Optional(Setpoints)
      /\ call.mode \in Optional(Modes)
      /\ call.fan \in Optional(Fans)
  BY DEF Call
<1>1. target_temperature' \in Temperature /\ target_temperature' # NaN
  <2>1. CASE call.target = <<>>
    BY <2>1 DEF Control, Controllable
  <2>2. CASE call.target # <<>>
    BY <2>2, <1>0, OptionalValue, SetpointKnown DEF Control
  <2>3. QED
    BY <2>1, <2>2
<1>2. fan_mode' \in Optional(FanMode) /\ fan_mode' # <<>>
  <2>1. CASE call.fan = <<>>
    BY <2>1 DEF Control, Controllable
  <2>2. CASE call.fan # <<>>
    BY <2>2, <1>0, OptionalMonotone, FansAssumption DEF Control
  <2>3. QED
    BY <2>1, <2>2
<1>3. power_on_' \in BOOLEAN
  BY DEF Control
<1>4. active_mode_' \in ActiveMode
  BY DEF Control, ToActive
<1>5. mode' = FoldedMode(power_on_', active_mode_')
  <2>1. CASE call.mode = <<>>
    BY <2>1 DEF Control, ModeFolded, ToActive, ToOff
  <2>2. CASE call.mode # <<>>
    BY <2>2 DEF Control
  <2>3. QED
    BY <2>1, <2>2
<1>6. mode' \in SupportedMode
  BY <1>3, <1>4, <1>5, FoldedModeSupported
<1>7. IsOptional(published', State)
  BY <1>1, <1>2, <1>6, PublishedState DEF Control
<1>8. DOMAIN sent' \subseteq Message
  BY MessagesOnly DEF Control
<1>9. TypeOK'
  BY <1>1, <1>2, <1>3, <1>4, <1>6, <1>7, <1>8 DEF Control
<1>10. ModeFolded' /\ Controllable' /\ NothingHidden'
  BY <1>1, <1>2, <1>5
     DEF Control, publish_state, ModeFolded, Controllable, NothingHidden
<1>11. QED
  BY <1>9, <1>10

\* Each flush, rebroadcast and reboot maintains the invariant.
LEMMA OtherSteps ==
  ASSUME IInv, SyncToDevice \/ Flush \/ Reboot
  PROVE  IInv'
<1> USE DEF IInv, TypeOK
<1>1. CASE SyncToDevice
  <2>1. DOMAIN sent' \subseteq Message
    BY <1>1, MessagesOnly DEF SyncToDevice
  <2>2. QED
    BY <1>1, <2>1
       DEF SyncToDevice, shown, ModeFolded, Controllable, NothingHidden
<1>2. CASE Flush
  <2>1. DOMAIN sent' \subseteq Message
    BY <1>2, MessagesOnly DEF Flush
  <2>2. QED
    BY <1>2, <2>1 DEF Flush, shown, ModeFolded, Controllable, NothingHidden
<1>3. CASE Reboot
  <2>1. DOMAIN sent' \subseteq Message
    BY <1>3, MessagesOnly DEF Reboot
  <2>2. TypeOK'
    BY <1>3, <2>1
       DEF Reboot, Temperature, SupportedMode, ActiveMode, Optional, IsOptional
  <2>3. QED
    BY <1>3, <2>2 DEF Reboot, ModeFolded, Controllable, NothingHidden
<1>4. QED
  BY <1>1, <1>2, <1>3

\* So does what is received, be it a reading the device makes up on its own or a
\* setpoint it was sent before.
LEMMA ReflectStep ==
  ASSUME IInv, NEW message, NEW value, value \in Value(message),
         Reflect(message, value)
  PROVE  IInv'
<1> USE DEF IInv, TypeOK
<1>0. DOMAIN Nothing \subseteq Message
  BY MessagesOnly
<1>1. CASE message = "Temperature"
  <2>1. value \in Nat /\ PublishCurrentTemperature(value)
    BY <1>1 DEF Value, Reflect
  <2>2. current_temperature' \in Temperature
    BY <2>1, ReadingKnown DEF PublishCurrentTemperature
  <2>3. ready /\ UNCHANGED <<ready, target_temperature, mode, fan_mode,
                            power_on_, active_mode_, saved>>
    BY <2>1 DEF PublishCurrentTemperature
  <2>4. IsOptional(published', State)
    BY <2>1, <2>3, PublishedState DEF PublishCurrentTemperature
  <2>5. QED
    BY <1>0, <2>1, <2>2, <2>3, <2>4
       DEF PublishCurrentTemperature, publish_state, ModeFolded, Controllable,
           NothingHidden
<1>2. CASE message = "TargetTemperature"
  <2>1. value \in Nat /\ PublishTargetTemperature(value)
    BY <1>2 DEF Value, Reflect
  <2>2. target_temperature' \in Temperature /\ target_temperature' # NaN
    BY <2>1, ReadingKnown DEF PublishTargetTemperature
  <2>3. ready /\ UNCHANGED <<ready, current_temperature, mode, fan_mode,
                            power_on_, active_mode_, saved>>
    BY <2>1 DEF PublishTargetTemperature
  <2>4. IsOptional(published', State)
    BY <2>1, <2>2, <2>3, PublishedState DEF PublishTargetTemperature
  <2>5. QED
    BY <1>0, <2>1, <2>2, <2>3, <2>4
       DEF PublishTargetTemperature, publish_state, ModeFolded, Controllable,
           NothingHidden
<1>3. CASE message = "Power"
  <2>1. value \in BOOLEAN /\ PublishPower(value)
    BY <1>3 DEF Value, Reflect
  <2>2. power_on_' \in BOOLEAN /\ mode' = FoldedMode(power_on_', active_mode_')
    BY <2>1 DEF PublishPower, PublishCombinedMode
  <2>3. ready /\ UNCHANGED <<ready, target_temperature, current_temperature,
                            fan_mode, active_mode_, saved>>
    BY <2>1 DEF PublishPower
  <2>4. mode' \in SupportedMode
    BY <2>2, <2>3, FoldedModeSupported
  <2>5. IsOptional(published', State)
    BY <2>1, <2>3, <2>4, PublishedState DEF PublishPower, PublishCombinedMode
  <2>6. QED
    BY <1>0, <2>1, <2>2, <2>3, <2>4, <2>5
       DEF PublishPower, PublishCombinedMode, publish_state, ModeFolded,
           Controllable, NothingHidden
<1>4. CASE message = "Mode"
  <2>1. PublishMode(value)
    BY <1>4 DEF Reflect
  <2>2. ready /\ UNCHANGED <<ready, target_temperature, current_temperature,
                            fan_mode, power_on_, saved>>
    BY <2>1 DEF PublishMode
  <2>3. CASE value \in DeviceMode
    <3>1. active_mode_' = device_mode_to_climate[value] /\ PublishCombinedMode
      BY <2>1, <2>3 DEF PublishMode
    <3>2. active_mode_' \in ActiveMode
      BY <2>3, <3>1 DEF DeviceMode, device_mode_to_climate, ActiveMode
    <3>3. /\ mode' = FoldedMode(power_on_', active_mode_')
          /\ mode' \in SupportedMode
      BY <2>2, <3>1, <3>2, FoldedModeSupported DEF PublishCombinedMode
    <3>4. IsOptional(published', State)
      BY <2>2, <3>1, <3>3, PublishedState DEF PublishCombinedMode
    <3>5. sent' = Nothing
      BY <2>1 DEF PublishMode
    <3>6. QED
      BY <1>0, <2>2, <3>1, <3>2, <3>3, <3>4, <3>5
         DEF PublishCombinedMode, publish_state, ModeFolded, Controllable,
             NothingHidden
  <2>4. CASE value \notin DeviceMode
    BY <1>0, <2>1, <2>2, <2>4
       DEF PublishMode, ModeFolded, Controllable, NothingHidden
  <2>5. QED
    BY <2>3, <2>4
<1>5. CASE message = "FanSpeed"
  <2>1. PublishFanSpeed(value)
    BY <1>5 DEF Reflect
  <2>2. ready /\ UNCHANGED <<ready, target_temperature, current_temperature,
                            mode, power_on_, active_mode_, saved>>
    BY <2>1 DEF PublishFanSpeed
  <2>3. CASE value \in DeviceFan
    <3>1. fan_mode' = <<device_fan_to_climate[value]>> /\ publish_state
      BY <2>1, <2>3 DEF PublishFanSpeed
    <3>2. device_fan_to_climate[value] \in FanMode
      BY <2>3 DEF DeviceFan, device_fan_to_climate, FanMode
    <3>3. fan_mode' \in Optional(FanMode) /\ fan_mode' # <<>>
      BY <3>1, <3>2, ValueOptional
    <3>4. IsOptional(published', State)
      BY <2>2, <3>1, <3>3, PublishedState
    <3>5. sent' = Nothing
      BY <2>1 DEF PublishFanSpeed
    <3>6. QED
      BY <1>0, <2>2, <3>1, <3>3, <3>4, <3>5
         DEF publish_state, ModeFolded, Controllable, NothingHidden
  <2>4. CASE value \notin DeviceFan
    BY <1>0, <2>1, <2>2, <2>4
       DEF PublishFanSpeed, ModeFolded, Controllable, NothingHidden
  <2>5. QED
    BY <2>3, <2>4
<1>6. QED
  BY <1>1, <1>2, <1>3, <1>4, <1>5 DEF Reflect

LEMMA Inductive == IInv /\ [Next]_vars => IInv'
<1> SUFFICES ASSUME IInv, [Next]_vars
             PROVE  IInv'
  OBVIOUS
<1>1. CASE UNCHANGED vars
  BY <1>1 DEF vars, shown, IInv, TypeOK, ModeFolded, Controllable, NothingHidden
<1>2. CASE Setup
  BY <1>2, SetupStep
<1>3. CASE \E call \in Call : Control(call)
  BY <1>3, ControlStep
<1>4. CASE SyncToDevice \/ Flush \/ Reboot
  BY <1>4, OtherSteps
<1>5. ASSUME NEW b \in Broadcastable, Reflect(b[1], b[2])
      PROVE  IInv'
  BY <1>5, BroadcastValue, ReflectStep
<1>6. QED
  BY <1>1, <1>2, <1>3, <1>4, <1>5 DEF Next

\* In every reachable state the entity's parts agree: the folded mode with the
\* two caches, the published state with the fields, and once set up a setpoint
\* and a fan speed are known.
THEOREM Invariance == Spec => []IInv
<1>1. QED
  BY Initially, Inductive, PTL DEF Spec

(***************************************************************************)
(* What the transmitted messages make of a device.                         *)
(***************************************************************************)

LEMMA RegistersOf ==
  \A m \in Message :
    /\ Registers[m]
         = Content(m, target_temperature, power_on_, active_mode_, fan_mode[1])
    /\ Registers'[m]
         = Content(m, target_temperature', power_on_', active_mode_',
                   fan_mode'[1])
  BY DEF Registers

\* A command transmits registers of the state it leads to.
LEMMA ControlSends ==
  ASSUME IInv, NEW call \in Call, Control(call), NEW m \in DOMAIN sent'
  PROVE  m \in Message /\ sent'[m] = Registers'[m]
<1>1. /\ m \in Message /\ Transmits(call, m)
      /\ sent'[m] = Content(m, call.target[1], ToActive(call), call.mode[1],
                           call.fan[1])
  BY DEF Control, ControlMessages
<1>2. CASE m = "TargetTemperature"
  <2>1. call.target # <<>>
    BY <1>1, <1>2 DEF Transmits
  <2>2. target_temperature' = call.target[1]
    BY <2>1 DEF Control
  <2>3. QED
    BY <1>1, <1>2, <2>2, RegistersOf DEF Content
<1>3. CASE m = "Power"
  <2>1. power_on_' = ToActive(call)
    BY <1>1, <1>3 DEF Transmits, Control, ToOff, ToActive, ActiveMode
  <2>2. QED
    BY <1>1, <1>3, <2>1, RegistersOf DEF Content
<1>4. CASE m = "Mode"
  <2>1. ToActive(call)
    BY <1>1, <1>4 DEF Transmits
  <2>2. active_mode_' = call.mode[1]
    BY <2>1 DEF Control
  <2>3. QED
    BY <1>1, <1>4, <2>2, RegistersOf DEF Content
<1>5. CASE m = "FanSpeed"
  <2>1. call.fan # <<>>
    BY <1>1, <1>5 DEF Transmits
  <2>2. fan_mode' = call.fan
    BY <2>1 DEF Control
  <2>3. QED
    BY <1>1, <1>5, <2>2, RegistersOf DEF Content
<1>6. QED
  BY <1>1, <1>2, <1>3, <1>4, <1>5 DEF Message

\* A register that a command does not transmit is the same afterwards.
LEMMA ControlKeeps ==
  ASSUME IInv, NEW call \in Call, Control(call),
         NEW m \in Message, m \notin DOMAIN sent'
  PROVE  Registers'[m] = Registers[m]
<1>1. ~ Transmits(call, m)
  BY DEF Control, ControlMessages
<1>2. CASE m = "TargetTemperature"
  <2>1. target_temperature' = target_temperature
    BY <1>1, <1>2 DEF Transmits, Control
  <2>2. QED
    BY <1>2, <2>1, RegistersOf DEF Content
<1>3. CASE m = "Power"
  <2>1. power_on_' = power_on_
    BY <1>1, <1>3 DEF Transmits, Control, IInv, TypeOK
  <2>2. QED
    BY <1>3, <2>1, RegistersOf DEF Content
<1>4. CASE m = "Mode"
  <2>1. active_mode_' = active_mode_
    <3>1. CASE ToActive(call)
      <4>1. call.mode = <<active_mode_>>
        BY <1>1, <1>4, <3>1 DEF Transmits
      <4>2. QED
        BY <3>1, <4>1 DEF Control
    <3>2. CASE ~ ToActive(call)
      BY <3>2 DEF Control
    <3>3. QED
      BY <3>1, <3>2
  <2>2. QED
    BY <1>4, <2>1, RegistersOf DEF Content
<1>5. CASE m = "FanSpeed"
  <2>1. fan_mode' = fan_mode
    BY <1>1, <1>5 DEF Transmits, Control
  <2>2. QED
    BY <1>5, <2>1, RegistersOf DEF Content
<1>6. QED
  BY <1>2, <1>3, <1>4, <1>5 DEF Message

\* No command leaves out a message that a device in agreement would need.
THEOREM CommandsCover == Spec => CommandCovers
<1>1. IInv /\ IInv' /\ [Next]_vars
        => [(\E call \in Call : Control(call))
              => Apply(sent', Registers) = Registers']_vars
  <2> SUFFICES ASSUME IInv, NEW call \in Call, Control(call)
               PROVE  Apply(sent', Registers) = Registers'
    OBVIOUS
  <2>1. ASSUME NEW m \in Message
        PROVE  (IF m \in DOMAIN sent' THEN sent'[m] ELSE Registers[m])
                 = Registers'[m]
    BY <2>1, ControlSends, ControlKeeps
  <2>2. Registers' = [m \in Message |-> Registers'[m]]
    BY DEF Registers
  <2>3. QED
    BY <2>1, <2>2 DEF Apply
<1>2. Spec => []IInv
  BY Invariance
<1>3. QED
  BY <1>1, <1>2, PTL DEF Spec, CommandCovers

\* A rebroadcast of a state carries registers of that state, and leaves out
\* only the mode of an entity that is off.
LEMMA SyncSends ==
  ASSUME NEW t, NEW p \in BOOLEAN, NEW a, NEW f, t # NaN, f # <<>>
  PROVE  /\ DOMAIN SyncMessages(t, p, a, f)
              = IF p THEN Message ELSE Message \ {"Mode"}
         /\ \A m \in DOMAIN SyncMessages(t, p, a, f) :
              SyncMessages(t, p, a, f)[m] = Content(m, t, p, a, f[1])
  BY DEF SyncMessages, Message

\* Two devices look the same that differ at most in the mode they would run in
\* if they were on.
LEMMA LookTheSame ==
  ASSUME NEW d, NEW e,
         d = [m \in Message |-> d[m]], e = [m \in Message |-> e[m]],
         \A m \in Message \ {"Mode"} : d[m] = e[m],
         e.Power => d.Mode = e.Mode
  PROVE  Visible(d) = Visible(e)
<1>1. d.Power = e.Power
  BY DEF Message
<1>2. CASE e.Power
  <2>1. \A m \in Message : d[m] = e[m]
    BY <1>2
  <2>2. d = e
    BY <2>1
  <2>3. QED
    BY <2>2
<1>3. CASE ~ e.Power
  <2>1. /\ Visible(d) = [d EXCEPT !.Mode = Unknown]
        /\ Visible(e) = [e EXCEPT !.Mode = Unknown]
    BY <1>1, <1>3 DEF Visible
  <2>2. [d EXCEPT !.Mode = Unknown] = [e EXCEPT !.Mode = Unknown]
    BY DEF Message
  <2>3. QED
    BY <2>1, <2>2
<1>4. QED
  BY <1>2, <1>3

\* The rebroadcast of a state brings any device to look like that state.
LEMMA SyncCoversState ==
  ASSUME NEW d, NEW t, NEW p \in BOOLEAN, NEW a, NEW f, t # NaN, f # <<>>
  PROVE  Visible(Apply(SyncMessages(t, p, a, f), d))
           = Visible([m \in Message |-> Content(m, t, p, a, f[1])])
<1>0. /\ DOMAIN SyncMessages(t, p, a, f)
           = IF p THEN Message ELSE Message \ {"Mode"}
      /\ \A m \in DOMAIN SyncMessages(t, p, a, f) :
           SyncMessages(t, p, a, f)[m] = Content(m, t, p, a, f[1])
  BY DEF SyncMessages, Message
<1> DEFINE s == SyncMessages(t, p, a, f)
           after == Apply(s, d)
           state == [m \in Message |-> Content(m, t, p, a, f[1])]
<1>1. /\ DOMAIN s = IF p THEN Message ELSE Message \ {"Mode"}
      /\ \A m \in DOMAIN s : m \in Message /\ s[m] = state[m]
  <2>1. \A m \in Message : state[m] = Content(m, t, p, a, f[1])
    OBVIOUS
  <2> HIDE DEF state
  <2>2. QED
    BY <1>0, <2>1
<1>2. after = [m \in Message |-> IF m \in DOMAIN s THEN s[m] ELSE d[m]]
  BY DEF Apply
<1>3. state.Power = p
  BY DEF Message, Content
<1>4. state = [m \in Message |-> state[m]]
  OBVIOUS
<1> HIDE DEF s, after, state
<1>5. after = [m \in Message |-> after[m]]
  BY <1>2
<1>6. \A m \in Message \ {"Mode"} : after[m] = state[m]
  BY <1>1, <1>2
<1>7. state.Power => after.Mode = state.Mode
  <2>1. p => after["Mode"] = state["Mode"]
    BY <1>1, <1>2 DEF Message
  <2>2. QED
    BY <1>3, <2>1
<1>8. Visible(after) = Visible(state)
  BY <1>4, <1>5, <1>6, <1>7, LookTheSame
<1>9. QED
  BY <1>8 DEF after, s, state

\* One rebroadcast round brings any device into agreement with the entity in all
\* that can be seen of it.
THEOREM SyncsCover == Spec => SyncCovers
<1>1. IInv /\ IInv' /\ [Next]_vars
        => [SyncToDevice => \A d \in Device :
              Visible(Apply(sent', d)) = Visible(Registers)]_vars
  <2> SUFFICES ASSUME IInv, SyncToDevice, NEW d \in Device
               PROVE  Visible(Apply(sent', d)) = Visible(Registers)
    OBVIOUS
  <2>1. /\ power_on_ \in BOOLEAN
        /\ target_temperature # NaN
        /\ fan_mode # <<>>
    BY DEF SyncToDevice, IInv, TypeOK, Controllable
  <2>2. sent' = SyncMessages(target_temperature, power_on_, active_mode_, fan_mode)
    BY DEF SyncToDevice
  <2>3. QED
    BY <2>1, <2>2, SyncCoversState DEF Registers
<1>2. Spec => []IInv
  BY Invariance
<1>3. QED
  BY <1>1, <1>2, PTL DEF Spec, SyncCovers

(***************************************************************************)
(* What a device is to expect of a single step, for the systems that are   *)
(* composed of this entity and a device.                                   *)
(***************************************************************************)

\* setup() and a rebroadcast round transmit the state they lead to.
LEMMA RoundSends ==
  ASSUME IInv', Setup \/ SyncToDevice
  PROVE  /\ power_on_' \in BOOLEAN
         /\ target_temperature' # NaN
         /\ fan_mode' # <<>>
         /\ sent' = SyncMessages(target_temperature', power_on_', active_mode_',
                                 fan_mode')
<1>1. ready'
  BY DEF Setup, SyncToDevice
<1>2. QED
  BY <1>1 DEF Setup, SyncToDevice, shown, IInv, TypeOK, Controllable

\* Either brings any device to look like the entity.
LEMMA RoundCovers ==
  ASSUME IInv', Setup \/ SyncToDevice, NEW d
  PROVE  Visible(Apply(sent', d)) = Visible(Registers')
  BY RoundSends, SyncCoversState DEF Registers

\* A part of either leaves a device alone that looks like the entity already.
LEMMA RoundKeeps ==
  ASSUME IInv', Setup \/ SyncToDevice,
         NEW d, d = [m \in Message |-> d[m]],
         Visible(d) = Visible(Registers'),
         NEW part, DOMAIN part \subseteq DOMAIN sent',
         \A m \in DOMAIN part : part[m] = sent'[m]
  PROVE  Visible(Apply(part, d)) = Visible(Registers')
<1> DEFINE after == Apply(part, d)
           registers == Registers'
<1>1. \A m \in DOMAIN sent' : m \in Message /\ sent'[m] = registers[m]
  <2>1. \A m \in DOMAIN sent' :
          m \in Message /\ sent'[m] = Content(m, target_temperature', power_on_',
                                             active_mode_', fan_mode'[1])
    BY RoundSends, SyncSends
  <2>2. QED
    BY <2>1, RegistersOf
<1>2. registers = [m \in Message |-> registers[m]]
  BY DEF Registers
<1>3. after = [m \in Message |-> IF m \in DOMAIN part THEN part[m] ELSE d[m]]
  BY DEF Apply
<1>4. Visible(d) = Visible(registers)
  OBVIOUS
<1> HIDE DEF after, registers
<1>5. after = [m \in Message |-> after[m]]
  BY <1>3
<1>6. /\ \A m \in Message \ {"Mode"} : d[m] = registers[m]
      /\ registers.Power => d.Mode = registers.Mode
  <2>1. \A m \in Message \ {"Mode"} : Visible(d)[m] = d[m]
    BY DEF Visible, Message
  <2>2. \A m \in Message \ {"Mode"} : Visible(registers)[m] = registers[m]
    BY <1>2 DEF Visible, Message
  <2>3. \A m \in Message \ {"Mode"} : d[m] = registers[m]
    BY <1>4, <2>1, <2>2
  <2>4. d.Power = registers.Power
    BY <2>3 DEF Message
  <2>5. registers.Power => d.Mode = registers.Mode
    <3> SUFFICES ASSUME registers.Power
                 PROVE  d.Mode = registers.Mode
      OBVIOUS
    <3>1. Visible(d)["Mode"] = d.Mode
      BY <2>4 DEF Visible, Message
    <3>2. Visible(registers)["Mode"] = registers.Mode
      BY <1>2 DEF Visible, Message
    <3>3. QED
      BY <1>4, <3>1, <3>2
  <2>6. QED
    BY <2>3, <2>5
<1>7. /\ \A m \in Message \ {"Mode"} : after[m] = registers[m]
      /\ registers.Power => after.Mode = registers.Mode
  <2>1. \A m \in Message : after[m] = d[m] \/ after[m] = registers[m]
    BY <1>1, <1>3
  <2>2. after["Mode"] = d["Mode"] \/ after["Mode"] = registers["Mode"]
    BY <2>1 DEF Message
  <2>3. QED
    BY <1>6, <2>1, <2>2
<1>8. QED
  BY <1>2, <1>5, <1>7, LookTheSame DEF after, registers

\* Once set up, the entity has a value for every register.
LEMMA RegisterValue ==
  ASSUME IInv', ready', NEW m \in Message
  PROVE  Registers'[m] \in Value(m)
<1>1. CASE m = "TargetTemperature"
  <2>1. target_temperature' \in Nat
    BY DEF IInv, TypeOK, Temperature, Controllable
  <2>2. ToTenths(target_temperature') \in Nat
    BY <2>1, TenthsNatural
  <2>3. QED
    BY <1>1, <2>2, RegistersOf DEF Value, Content
<1>2. CASE m = "Power"
  BY <1>2, RegistersOf DEF Value, Content, IInv, TypeOK
<1>3. CASE m = "Mode"
  BY <1>3, RegistersOf DEF Value, Content, climate_mode_to_device, DeviceMode
<1>4. CASE m = "FanSpeed"
  BY <1>4, RegistersOf DEF Value, Content, climate_fan_to_device, DeviceFan
<1>5. QED
  BY <1>1, <1>2, <1>3, <1>4 DEF Message

\* Whatever is transmitted is the register's value from then on.
LEMMA SentRegister ==
  ASSUME IInv, IInv', Setup \/ SyncToDevice \/ \E call \in Call : Control(call),
         NEW m \in DOMAIN sent'
  PROVE  m \in Message /\ sent'[m] = Registers'[m]
<1>1. CASE Setup \/ SyncToDevice
  BY <1>1, RoundSends, SyncSends, RegistersOf
<1>2. CASE \E call \in Call : Control(call)
  BY <1>2, ControlSends
<1>3. QED
  BY <1>1, <1>2

\* So it is a value of its message.
LEMMA SentValue ==
  ASSUME IInv, IInv', Setup \/ SyncToDevice \/ \E call \in Call : Control(call),
         NEW m \in DOMAIN sent'
  PROVE  m \in Message /\ sent'[m] \in Value(m)
<1>1. m \in Message /\ sent'[m] = Registers'[m]
  BY SentRegister
<1>2. ready'
  BY DEF Setup, SyncToDevice, Control
<1>3. QED
  BY <1>1, <1>2, RegisterValue

\* What is taken in is the register's value from then on or, if it stands for
\* nothing, is ignored; no other register changes.
LEMMA ReflectRegisters ==
  ASSUME NEW m \in Message, NEW v \in Value(m), Reflect(m, v)
  PROVE  Registers' = Registers \/ Registers' = [Registers EXCEPT ![m] = v]
<1> SUFFICES ASSUME NEW r \in Message
             PROVE  /\ Registers'[r] # Registers[r] => r = m /\ Registers'[r] = v
                    /\ Registers' # Registers => Registers'[m] = v
  BY DEF Registers
<1>1. /\ m = "TargetTemperature" => PublishTargetTemperature(v)
      /\ m = "Power" => PublishPower(v)
      /\ m = "Mode" => PublishMode(v)
      /\ m = "FanSpeed" => PublishFanSpeed(v)
  BY DEF Reflect, Message
<1>2. CASE m = "TargetTemperature"
  <2>1. target_temperature' = FromTenths(v)
        /\ UNCHANGED <<power_on_, active_mode_, fan_mode>>
    BY <1>1, <1>2 DEF PublishTargetTemperature
  <2>2. ToTenths(target_temperature') = v
    BY <1>2, <2>1, TenthsStable DEF Value
  <2>3. QED
    BY <1>2, <2>1, <2>2, RegistersOf DEF Content, Message
<1>3. CASE m = "Power"
  <2>1. power_on_' = v /\ UNCHANGED <<target_temperature, active_mode_, fan_mode>>
    BY <1>1, <1>3 DEF PublishPower
  <2>2. QED
    BY <1>3, <2>1, RegistersOf DEF Content, Message
<1>4. CASE m = "Mode"
  <2>1. CASE v \in DeviceMode
    <3>1. active_mode_' = device_mode_to_climate[v]
          /\ UNCHANGED <<target_temperature, power_on_, fan_mode>>
      BY <1>1, <1>4, <2>1 DEF PublishMode
    <3>2. climate_mode_to_device(active_mode_') = v
      BY <2>1, <3>1 DEF DeviceMode, device_mode_to_climate, climate_mode_to_device
    <3>3. QED
      BY <1>4, <3>1, <3>2, RegistersOf DEF Content, Message
  <2>2. CASE v \notin DeviceMode
    <3>1. UNCHANGED <<target_temperature, power_on_, active_mode_, fan_mode>>
      BY <1>1, <1>4, <2>2 DEF PublishMode
    <3>2. QED
      BY <3>1 DEF Registers
  <2>3. QED
    BY <2>1, <2>2
<1>5. CASE m = "FanSpeed"
  <2>1. CASE v \in DeviceFan
    <3>1. fan_mode' = <<device_fan_to_climate[v]>>
          /\ UNCHANGED <<target_temperature, power_on_, active_mode_>>
      BY <1>1, <1>5, <2>1 DEF PublishFanSpeed
    <3>2. climate_fan_to_device(fan_mode'[1]) = v
      BY <2>1, <3>1 DEF DeviceFan, device_fan_to_climate, climate_fan_to_device
    <3>3. QED
      BY <1>5, <3>1, <3>2, RegistersOf DEF Content, Message
  <2>2. CASE v \notin DeviceFan
    <3>1. UNCHANGED <<target_temperature, power_on_, active_mode_, fan_mode>>
      BY <1>1, <1>5, <2>2 DEF PublishFanSpeed
    <3>2. QED
      BY <3>1 DEF Registers
  <2>3. QED
    BY <2>1, <2>2
<1>6. QED
  BY <1>2, <1>3, <1>4, <1>5 DEF Message

\* The registers that a state to restore stands for.
LEMMA SetupRegisters ==
  ASSUME Setup
  PROVE  /\ Registers'["TargetTemperature"]
              = ToTenths(IF Restored.target = NaN THEN DEFAULT_TARGET_TEMPERATURE
                         ELSE Restored.target)
         /\ Registers'["Power"] = (Restored.mode # "OFF")
         /\ Registers'["Mode"]
              = climate_mode_to_device(
                  CASE Restored.mode \in ActiveMode -> Restored.mode
                    [] Restored.mode = "OFF"        -> active_mode_
                    [] OTHER                        -> "HEAT")
         /\ Registers'["FanSpeed"]
              = climate_fan_to_device(IF Restored.fan = <<>> THEN "AUTO"
                                      ELSE Restored.fan[1])
<1>1. \A m \in Message :
        Registers'[m] = Content(m, target_temperature', power_on_', active_mode_',
                                fan_mode'[1])
  BY RegistersOf
<1>2. fan_mode'[1] = IF Restored.fan = <<>> THEN "AUTO" ELSE Restored.fan[1]
  BY DEF Setup
<1>3. QED
  BY <1>1, <1>2 DEF Setup, Content, Message

\* A state that this entity published is restored as it was, and told to the
\* device, whatever the device holds.
THEOREM RestoresExactly == Spec => RestoreExact
<1>1. IInv /\ IInv' /\ [Next]_vars
        => [(Setup /\ saved # <<>> /\ saved[1].mode \in SupportedMode
               /\ saved[1].target # NaN /\ saved[1].fan # <<>>)
              => published' = saved /\ \A d \in Device :
                   Visible(Apply(sent', d)) = Visible(Registers')]_vars
  <2> SUFFICES ASSUME IInv, IInv', Setup, saved # <<>>,
                      saved[1].mode \in SupportedMode,
                      saved[1].target # NaN, saved[1].fan # <<>>
               PROVE  published' = saved /\ \A d \in Device :
                        Visible(Apply(sent', d)) = Visible(Registers')
    OBVIOUS
  <2>1. saved[1] \in State /\ saved = <<saved[1]>>
    BY DEF IInv, TypeOK, IsOptional
  <2>2. Restored = saved[1]
    BY DEF Restored
  <2>3. target_temperature' = saved[1].target /\ fan_mode' = saved[1].fan
    BY <2>2 DEF Setup
  <2>4. mode' = saved[1].mode
    <3>1. CASE saved[1].mode = "OFF"
      BY <2>2, <3>1 DEF Setup, FoldedMode
    <3>2. CASE saved[1].mode \in ActiveMode
      <4>1. power_on_'
        BY <2>2, <3>2 DEF Setup, ActiveMode
      <4>2. active_mode_' = saved[1].mode
        BY <2>2, <3>2 DEF Setup, ActiveMode
      <4>3. QED
        BY <4>1, <4>2 DEF Setup, FoldedMode
    <3>3. QED
      BY <3>1, <3>2 DEF SupportedMode
  <2>5. published' = saved
    <3>1. saved[1] = [target |-> saved[1].target, mode |-> saved[1].mode,
                      fan |-> saved[1].fan]
      BY <2>1 DEF State
    <3>2. QED
      BY <2>1, <2>3, <2>4, <3>1 DEF Setup, publish_state
  <2>6. ASSUME NEW d \in Device
        PROVE  Visible(Apply(sent', d)) = Visible(Registers')
    <3>1. sent' = SyncMessages(target_temperature', power_on_', active_mode_',
                               fan_mode')
      BY DEF Setup
    <3>2. /\ power_on_' \in BOOLEAN
          /\ target_temperature' # NaN
          /\ fan_mode' # <<>>
      BY <2>3 DEF Setup
    <3>3. QED
      BY <3>1, <3>2, SyncCoversState DEF Registers
  <2>7. QED
    BY <2>5, <2>6
<1>2. Spec => []IInv
  BY Invariance
<1>3. QED
  BY <1>1, <1>2, PTL DEF Spec, RestoreExact

(***************************************************************************)
(* A device that echoes what it was sent tells the entity nothing new.     *)
(***************************************************************************)

\* Nothing but registers of the entity's own state is ever transmitted.
OwnRegisters ==
  /\ \A m \in DOMAIN sent : sent[m] = Registers[m]
  /\ ~ ready => DOMAIN sent = {}

LEMMA NothingOwn == DOMAIN Nothing = {}
  BY DEF Nothing

LEMMA OwnInductive ==
  IInv /\ IInv' /\ OwnRegisters /\ [Next]_vars => OwnRegisters'
<1> SUFFICES ASSUME IInv, IInv', OwnRegisters, [Next]_vars
             PROVE  OwnRegisters'
  OBVIOUS
<1>1. CASE sent' = Nothing
  BY <1>1, NothingOwn DEF OwnRegisters
<1>2. CASE Setup \/ SyncToDevice
  <2>1. sent' = SyncMessages(target_temperature', power_on_', active_mode_',
                             fan_mode')
    BY <1>2 DEF Setup, SyncToDevice, shown
  <2>2. ready'
    BY <1>2 DEF Setup, SyncToDevice
  <2>3. /\ power_on_' \in BOOLEAN
        /\ target_temperature' # NaN
        /\ fan_mode' # <<>>
    BY <2>2 DEF IInv, TypeOK, Controllable
  <2>4. \A m \in DOMAIN sent' :
          m \in Message /\ sent'[m] = Content(m, target_temperature', power_on_',
                                             active_mode_', fan_mode'[1])
    BY <2>1, <2>3, SyncSends
  <2>5. QED
    BY <2>2, <2>4, RegistersOf DEF OwnRegisters
<1>3. ASSUME NEW call \in Call, Control(call)
      PROVE  OwnRegisters'
  <2>1. ready'
    BY <1>3 DEF Control
  <2>2. QED
    BY <1>3, <2>1, ControlSends DEF OwnRegisters
<1>4. CASE UNCHANGED vars
  BY <1>4 DEF vars, shown, OwnRegisters, Registers
<1>5. CASE Flush \/ Reboot
  BY <1>1, <1>5 DEF Flush, Reboot
<1>6. ASSUME NEW b \in Broadcastable, Reflect(b[1], b[2])
      PROVE  OwnRegisters'
  BY <1>1, <1>6
     DEF Reflect, PublishCurrentTemperature, PublishTargetTemperature,
         PublishPower, PublishMode, PublishFanSpeed
<1>7. QED
  BY <1>2, <1>3, <1>4, <1>5, <1>6 DEF Next

\* The tables to and from the device are inverse to each other.
LEMMA TablesInverse ==
  /\ \A a \in ActiveMode : device_mode_to_climate[climate_mode_to_device(a)] = a
  /\ \A f \in FanMode : device_fan_to_climate[climate_fan_to_device(f)] = f
<1>1. ASSUME NEW a \in ActiveMode
      PROVE  device_mode_to_climate[climate_mode_to_device(a)] = a
  BY DEF ActiveMode, device_mode_to_climate, climate_mode_to_device
<1>2. ASSUME NEW f \in FanMode
      PROVE  device_fan_to_climate[climate_fan_to_device(f)] = f
  BY DEF FanMode, device_fan_to_climate, climate_fan_to_device
<1>3. QED
  BY <1>1, <1>2

LEMMA OwnEchoes == IInv /\ OwnRegisters => EchoSettles
<1> SUFFICES ASSUME IInv, OwnRegisters, NEW m \in DOMAIN sent
             PROVE  /\ m = "TargetTemperature" =>
                         ToTenths(FromTenths(sent[m])) = ToTenths(target_temperature)
                    /\ m = "Power" => sent[m] = power_on_
                    /\ m = "Mode" => device_mode_to_climate[sent[m]] = active_mode_
                    /\ m = "FanSpeed" =>
                         <<device_fan_to_climate[sent[m]]>> = fan_mode
  BY DEF EchoSettles
<1>1. m \in Message
  BY DEF IInv, TypeOK
<1>2. sent[m] = Content(m, target_temperature, power_on_, active_mode_, fan_mode[1])
  BY <1>1, RegistersOf DEF OwnRegisters
<1>3. target_temperature # NaN /\ fan_mode # <<>>
  BY DEF OwnRegisters, IInv, Controllable
<1>4. fan_mode[1] \in FanMode /\ fan_mode = <<fan_mode[1]>>
  BY <1>3, OptionalValue DEF IInv, TypeOK
<1>5. ASSUME m = "TargetTemperature"
      PROVE  ToTenths(FromTenths(sent[m])) = ToTenths(target_temperature)
  <2>1. target_temperature \in Nat
    BY <1>3, KnownIsNatural DEF IInv, TypeOK
  <2>2. ToTenths(target_temperature) \in Nat
    BY <2>1, TenthsNatural
  <2>3. sent[m] = ToTenths(target_temperature)
    BY <1>2, <1>5 DEF Content
  <2>4. QED
    BY <2>2, <2>3, TenthsStable
<1>6. ASSUME m = "Power"
      PROVE  sent[m] = power_on_
  BY <1>2, <1>6 DEF Content
<1>7. ASSUME m = "Mode"
      PROVE  device_mode_to_climate[sent[m]] = active_mode_
  <2>1. sent[m] = climate_mode_to_device(active_mode_)
    BY <1>2, <1>7 DEF Content
  <2>2. QED
    BY <2>1, TablesInverse DEF IInv, TypeOK
<1>8. ASSUME m = "FanSpeed"
      PROVE  <<device_fan_to_climate[sent[m]]>> = fan_mode
  <2>1. sent[m] = climate_fan_to_device(fan_mode[1])
    BY <1>2, <1>8 DEF Content
  <2>2. QED
    BY <1>4, <2>1, TablesInverse
<1>9. QED
  BY <1>5, <1>6, <1>7, <1>8

\* The entity and a device that echoes it never chase each other through the
\* rebroadcast window, for any resolution of the setpoint.
THEOREM EchoesSettle == Spec => []EchoSettles
<1>1. Init => OwnRegisters
  BY NothingOwn DEF Init, OwnRegisters
<1>2. Spec => []IInv
  BY Invariance
<1>3. QED
  BY <1>1, <1>2, OwnInductive, OwnEchoes, PTL DEF Spec
=============================================================================
