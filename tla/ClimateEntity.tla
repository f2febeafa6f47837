---------------------------- MODULE ClimateEntity ----------------------------
(***************************************************************************)
(* UniluxUartClimate (esphome/components/unilux_uart): the Home Assistant  *)
(* climate entity that mirrors the thermostat.                             *)
(*                                                                         *)
(* The device keeps a setpoint, a power switch, an HVAC mode and a fan     *)
(* speed in four separate messages; Home Assistant shows power and mode    *)
(* folded into one.  The entity caches all four, transmits what a command  *)
(* changes and takes over whatever the device broadcasts.                  *)
(*                                                                         *)
(* `sent` holds the messages the last handler gave to send_message, as a   *)
(* function from message type to value.  Every handler sends a type at     *)
(* most once and in the order setpoint, power, mode, fan, so the function  *)
(* stands for the sequence.                                                *)
(*                                                                         *)
(* Temperatures are multiples of 1/Fine of a tenth of a degree: a message  *)
(* carries whole tenths only.  An optional value is <<>> or <<value>>.     *)
(***************************************************************************)
EXTENDS Integers, Sequences

CONSTANTS
  Fine,         \* how many steps of a float temperature make one tenth
  NaN,          \* a temperature not known yet
  Setpoints,    \* bound: the setpoints Home Assistant asks for
  Readings,     \* bound: the temperatures the device broadcasts, in tenths
  Modes,        \* bound: the modes asked for and broadcast
  Fans,         \* bound: the fan speeds asked for and broadcast
  DEFAULT_TARGET_TEMPERATURE

ASSUME TemperatureAssumption ==
  /\ Fine \in Nat \ {0}
  /\ NaN \notin Nat
  /\ Setpoints \subseteq Nat
  /\ Readings \subseteq Nat
  /\ DEFAULT_TARGET_TEMPERATURE \in Nat

VARIABLES
  ready,                \* setup() has run since the last reboot
  target_temperature,
  current_temperature,
  mode,                 \* the folded mode Home Assistant shows
  fan_mode,             \* optional
  power_on_,
  active_mode_,
  published,            \* optional: what the last publish_state() showed
  saved,                \* optional: what a reboot restores
  sent                  \* what the last handler transmitted

shown == <<target_temperature, current_temperature, mode, fan_mode>>
vars == <<ready, shown, power_on_, active_mode_, published, saved, sent>>

Optional(S) == {<<>>} \cup {<<x>> : x \in S}

-----------------------------------------------------------------------------
(* Modes and fan speeds of Home Assistant and of the device.               *)

ActiveMode == {"HEAT", "COOL", "HEAT_COOL"}
SupportedMode == ActiveMode \cup {"OFF"}
FanMode == {"AUTO", "LOW", "MEDIUM", "HIGH", "OFF"}

ASSUME ModesAssumption == Modes \subseteq SupportedMode
ASSUME FansAssumption == Fans \subseteq FanMode

\* Byte values of the Mode and FanSpeed messages; "?" is any other byte.
DeviceMode == {"Heat", "Cool", "Auto"}
DeviceFan == {"Auto", "Low", "Medium", "High", "Off"}
Unknown == "?"

\* A fault: Cool and Auto are mixed up on the way in only.
device_mode_mixed_up ==
  [Heat |-> "HEAT", Cool |-> "HEAT_COOL", Auto |-> "COOL"]

device_mode_to_climate ==
  [Heat |-> "HEAT", Cool |-> "COOL", Auto |-> "HEAT_COOL"]

climate_mode_to_device(m) ==
  CASE m = "COOL"      -> "Cool"
    [] m = "HEAT_COOL" -> "Auto"
    [] OTHER           -> "Heat"

device_fan_to_climate ==
  [Auto |-> "AUTO", Low |-> "LOW", Medium |-> "MEDIUM", High |-> "HIGH",
   Off |-> "OFF"]

climate_fan_to_device(m) ==
  CASE m = "LOW"    -> "Low"
    [] m = "MEDIUM" -> "Medium"
    [] m = "HIGH"   -> "High"
    [] m = "OFF"    -> "Off"
    [] OTHER        -> "Auto"

\* A setpoint as the TargetTemperature message carries it, and back.
ToTenths(t) == t \div Fine
FromTenths(n) == n * Fine

FoldedMode(power, active) == IF power THEN active ELSE "OFF"

-----------------------------------------------------------------------------
(* What a handler transmits.                                               *)

Message == {"TargetTemperature", "Power", "Mode", "FanSpeed"}

Nothing == [m \in {} |-> FALSE]

\* What a message of the entity carries.
Content(m, target, power, active, fan) ==
  CASE m = "TargetTemperature" -> ToTenths(target)
    [] m = "Power"             -> power
    [] m = "Mode"              -> climate_mode_to_device(active)
    [] m = "FanSpeed"          -> climate_fan_to_device(fan)

\* A fault: an entity that is off has nothing to say.
SyncMessagesWhileOn(target, power, active, fan) ==
  [m \in {x \in Message : target # NaN /\ power /\ (x = "FanSpeed" => fan # <<>>)}
     |-> Content(m, target, power, active, fan[1])]

\* sync_to_device(): everything, but the mode only while powered on, and
\* nothing at all before a setpoint is known.
SyncMessages(target, power, active, fan) ==
  [m \in {x \in Message : /\ target # NaN
                          /\ x = "Mode" => power
                          /\ x = "FanSpeed" => fan # <<>>}
     |-> Content(m, target, power, active, fan[1])]

ToOff(call) == call.mode = <<"OFF">>
ToActive(call) == call.mode # <<>> /\ call.mode[1] \in ActiveMode

\* Whether a command transmits a message: the setpoint and the fan speed
\* whenever asked for, power and mode only where they differ from the cache.
Transmits(call, m) ==
  \/ m = "TargetTemperature" /\ call.target # <<>>
  \/ m = "Power" /\ ToOff(call) /\ power_on_
  \/ m = "Power" /\ ToActive(call) /\ ~ power_on_
  \/ m = "Mode" /\ ToActive(call) /\ call.mode # <<active_mode_>>
  \/ m = "FanSpeed" /\ call.fan # <<>>

\* A fault: a mode is set without powering the device on.
ControlMessagesWithoutPowerOn(call) ==
  [m \in {x \in Message : Transmits(call, x) /\ (x = "Power" => power_on_)}
     |-> Content(m, call.target[1], ToActive(call), call.mode[1], call.fan[1])]

\* A fault: the setpoint is transmitted before it is taken over.
ControlMessagesOldTarget(call) ==
  [m \in {x \in Message : Transmits(call, x)}
     |-> Content(m, target_temperature, ToActive(call), call.mode[1], call.fan[1])]

\* control()
ControlMessages(call) ==
  [m \in {x \in Message : Transmits(call, x)}
     |-> Content(m, call.target[1], ToActive(call), call.mode[1], call.fan[1])]

-----------------------------------------------------------------------------
(* Persistence, which ESPHome owns: publish_state() shows the entity's     *)
(* state to Home Assistant and queues it for flash.                        *)

publish_state ==
  published' = <<[target |-> target_temperature', mode |-> mode',
                  fan |-> fan_mode']>>

\* The queued state reaches flash some time later, or never.
Flush ==
  /\ published # <<>>
  /\ saved' = published
  /\ sent' = Nothing
  /\ UNCHANGED <<ready, shown, power_on_, active_mode_, published>>

-----------------------------------------------------------------------------
(* The entity's handlers.                                                  *)

\* What flash may hold: nothing, or a state published by this firmware or by
\* another one whose modes this entity does not support.
Saveable == [target : Setpoints \cup {DEFAULT_TARGET_TEMPERATURE, NaN},
             mode   : Modes \cup {"HEAT_COOL", "DRY"},
             fan    : Optional(Fans \cup {"AUTO"})]

\* A freshly constructed entity.
Init ==
  /\ ready = FALSE
  /\ target_temperature = NaN
  /\ current_temperature = NaN
  /\ mode = "OFF"
  /\ fan_mode = <<>>
  /\ power_on_ = TRUE
  /\ active_mode_ = "HEAT"
  /\ published = <<>>
  /\ saved \in Optional(Saveable)
  /\ sent = Nothing

\* Any reboot: a new entity is constructed, only flash survives.
Reboot ==
  /\ ready
  /\ ready' = FALSE
  /\ target_temperature' = NaN
  /\ current_temperature' = NaN
  /\ mode' = "OFF"
  /\ fan_mode' = <<>>
  /\ power_on_' = TRUE
  /\ active_mode_' = "HEAT"
  /\ published' = <<>>
  /\ sent' = Nothing
  /\ UNCHANGED saved

FactoryState == [target |-> DEFAULT_TARGET_TEMPERATURE, mode |-> "HEAT_COOL",
                 fan |-> <<"AUTO">>]

\* A fault: the fan speed is not restored.
RestoredWithoutFan ==
  IF saved = <<>> THEN FactoryState ELSE [saved[1] EXCEPT !.fan = <<>>]

\* What flash restores, or else the factory state.
Restored == IF saved = <<>> THEN FactoryState ELSE saved[1]

Setup ==
  /\ ~ ready
  /\ ready' = TRUE
  /\ power_on_' = (Restored.mode # "OFF")
  /\ active_mode_' = CASE Restored.mode \in ActiveMode -> Restored.mode
                       [] Restored.mode = "OFF"        -> active_mode_
                       [] OTHER                        -> "HEAT"
  /\ mode' = FoldedMode(power_on_', active_mode_')
  /\ target_temperature' = IF Restored.target = NaN
                           THEN DEFAULT_TARGET_TEMPERATURE
                           ELSE Restored.target
  /\ fan_mode' = IF Restored.fan = <<>> THEN <<"AUTO">> ELSE Restored.fan
  /\ sent' = SyncMessages(target_temperature', power_on_', active_mode_',
                          fan_mode')
  /\ publish_state
  /\ UNCHANGED <<current_temperature, saved>>

\* A fault: the guard against an unknown setpoint is inverted.
SyncToDeviceGuardInverted ==
  /\ ready
  /\ sent' = IF target_temperature = NaN
             THEN SyncMessages(target_temperature, power_on_, active_mode_,
                               fan_mode)
             ELSE Nothing
  /\ UNCHANGED <<ready, shown, power_on_, active_mode_, published, saved>>

SyncToDevice ==
  /\ ready
  /\ sent' = SyncMessages(target_temperature, power_on_, active_mode_,
                          fan_mode)
  /\ UNCHANGED <<ready, shown, power_on_, active_mode_, published, saved>>

\* ESPHome validates a call against traits(): modes and fans are supported
\* ones, and a setpoint is a number.
Call == [target : Optional(Setpoints), mode : Optional(Modes),
         fan : Optional(Fans)]

Control(call) ==
  /\ ready
  /\ sent' = ControlMessages(call)
  /\ target_temperature' = IF call.target = <<>> THEN target_temperature
                           ELSE call.target[1]
  /\ power_on_' = (ToActive(call) \/ (power_on_ /\ ~ ToOff(call)))
  /\ active_mode_' = IF ToActive(call) THEN call.mode[1] ELSE active_mode_
  /\ mode' = IF call.mode = <<>> THEN mode
             ELSE FoldedMode(power_on_', active_mode_')
  /\ fan_mode' = IF call.fan = <<>> THEN fan_mode ELSE call.fan
  /\ publish_state
  /\ UNCHANGED <<ready, current_temperature, saved>>

PublishCurrentTemperature(tenths) ==
  /\ ready
  /\ current_temperature' = FromTenths(tenths)
  /\ sent' = Nothing
  /\ UNCHANGED <<ready, target_temperature, mode, fan_mode, power_on_,
                 active_mode_, saved>>
  /\ publish_state

PublishTargetTemperature(tenths) ==
  /\ ready
  /\ target_temperature' = FromTenths(tenths)
  /\ sent' = Nothing
  /\ UNCHANGED <<ready, current_temperature, mode, fan_mode, power_on_,
                 active_mode_, saved>>
  /\ publish_state

\* publish_combined_mode_()
PublishCombinedMode ==
  /\ mode' = FoldedMode(power_on_', active_mode_')
  /\ publish_state

\* An unknown mode byte is logged and otherwise ignored.
PublishMode(value) ==
  /\ ready
  /\ sent' = Nothing
  /\ UNCHANGED <<ready, target_temperature, current_temperature, fan_mode,
                 power_on_, saved>>
  /\ \/ /\ value \in DeviceMode
        /\ active_mode_' = device_mode_to_climate[value]
        /\ PublishCombinedMode
     \/ /\ value \notin DeviceMode
        /\ UNCHANGED <<active_mode_, mode, published>>

\* A fault: the folded mode is left as it was.
PublishPowerUnfolded(on) ==
  /\ ready
  /\ power_on_' = on
  /\ sent' = Nothing
  /\ UNCHANGED <<ready, target_temperature, current_temperature, fan_mode,
                 active_mode_, saved, mode>>
  /\ publish_state

PublishPower(on) ==
  /\ ready
  /\ power_on_' = on
  /\ sent' = Nothing
  /\ UNCHANGED <<ready, target_temperature, current_temperature, fan_mode,
                 active_mode_, saved>>
  /\ PublishCombinedMode

PublishFanSpeed(value) ==
  /\ ready
  /\ sent' = Nothing
  /\ UNCHANGED <<ready, target_temperature, current_temperature, mode,
                 power_on_, active_mode_, saved>>
  /\ \/ /\ value \in DeviceFan
        /\ fan_mode' = <<device_fan_to_climate[value]>>
        /\ publish_state
     \/ /\ value \notin DeviceFan
        /\ UNCHANGED <<fan_mode, published>>

\* A message of the device reaches the entity (the hub's dispatch).
Reflect(message, value) ==
  \/ message = "Temperature" /\ PublishCurrentTemperature(value)
  \/ message = "TargetTemperature" /\ PublishTargetTemperature(value)
  \/ message = "Power" /\ PublishPower(value)
  \/ message = "Mode" /\ PublishMode(value)
  \/ message = "FanSpeed" /\ PublishFanSpeed(value)

\* What the device can send.
Broadcastable ==
  ({"Temperature", "TargetTemperature"} \X Readings)
  \cup ({"Power"} \X BOOLEAN)
  \cup ({"Mode"} \X ({climate_mode_to_device(m) : m \in Modes \ {"OFF"}}
                       \cup {Unknown}))
  \cup ({"FanSpeed"} \X ({climate_fan_to_device(f) : f \in Fans}
                           \cup {Unknown}))

Next ==
  \/ Setup
  \/ SyncToDevice
  \/ \E call \in Call : Control(call)
  \/ \E b \in Broadcastable : Reflect(b[1], b[2])
  \/ Flush
  \/ Reboot

Spec == Init /\ [][Next]_vars

-----------------------------------------------------------------------------
(***************************************************************************)
(* Correctness.                                                            *)
(***************************************************************************)

\* The entity's state as the device's registers would hold it.
Registers ==
  [m \in Message |-> Content(m, target_temperature, power_on_, active_mode_,
                             fan_mode[1])]

\* The registers of a device after it took over the messages.
Apply(messages, registers) ==
  [m \in Message |-> IF m \in DOMAIN messages THEN messages[m]
                     ELSE registers[m]]

\* What can be seen of a device: its mode only while it is on.
Visible(registers) ==
  [registers EXCEPT !.Mode = IF registers.Power THEN @ ELSE Unknown]

Device == [TargetTemperature : {ToTenths(t) : t \in Setpoints} \cup Readings,
           Power : BOOLEAN, Mode : DeviceMode, FanSpeed : DeviceFan]

Temperature == Nat \cup {NaN}

\* The values that a message of the device may carry.
Value(message) ==
  CASE message \in {"Temperature", "TargetTemperature"} -> Nat
    [] message = "Power"    -> BOOLEAN
    [] message = "Mode"     -> DeviceMode \cup {Unknown}
    [] message = "FanSpeed" -> DeviceFan \cup {Unknown}

State == [target : Temperature, mode : SupportedMode \cup {"DRY"},
          fan : Optional(FanMode)]

\* An optional value, said without listing the optional values.
IsOptional(v, S) == v = <<>> \/ (v = <<v[1]>> /\ v[1] \in S)

\* The type of the entity's state.
TypeOK ==
  /\ ready \in BOOLEAN
  /\ target_temperature \in Temperature
  /\ current_temperature \in Temperature
  /\ mode \in SupportedMode
  /\ fan_mode \in Optional(FanMode)
  /\ power_on_ \in BOOLEAN
  /\ active_mode_ \in ActiveMode
  /\ IsOptional(published, State)
  /\ IsOptional(saved, State)
  /\ DOMAIN sent \subseteq Message

\* The two caches and the folded mode never disagree, although four handlers
\* maintain them (unilux_uart.h: "OFF when powered off, else the active mode").
ModeFolded == ready => mode = FoldedMode(power_on_, active_mode_)

\* Once set up, a setpoint and a fan speed are always known, whatever flash
\* held: the rebroadcast of sync_to_device is never silently disabled.
Controllable == ready => target_temperature # NaN /\ fan_mode # <<>>

\* Home Assistant (and the flash queue) always shows the present state: no
\* handler changes a field and forgets to publish it.
NothingHidden ==
  ready => published = <<[target |-> target_temperature, mode |-> mode,
                          fan |-> fan_mode]>>

\* The invariant of the proofs.
IInv == TypeOK /\ ModeFolded /\ Controllable /\ NothingHidden

\* A device that echoes what it was just sent tells the entity nothing new: the
\* tables to and from the device are inverse to each other, and a setpoint is
\* stable once rounded to a tenth.  Otherwise entity and device would chase
\* each other through the rebroadcast window.
EchoSettles ==
  \A m \in DOMAIN sent :
    /\ m = "TargetTemperature" =>
         ToTenths(FromTenths(sent[m])) = ToTenths(target_temperature)
    /\ m = "Power" => sent[m] = power_on_
    /\ m = "Mode" => device_mode_to_climate[sent[m]] = active_mode_
    /\ m = "FanSpeed" => <<device_fan_to_climate[sent[m]]>> = fan_mode

\* The messages a command leaves out are redundant: a device that agrees with
\* the entity before any command agrees with it afterwards.
CommandCovers ==
  [][(\E call \in Call : Control(call)) => Apply(sent', Registers) = Registers']_vars

\* A rebroadcast brings any device, whatever it holds, into agreement with the
\* entity in everything that can be seen.
SyncCovers ==
  [][SyncToDevice => \A d \in Device :
       Visible(Apply(sent', d)) = Visible(Registers)]_vars

\* A state this entity published is restored as it was: across a reboot Home
\* Assistant sees the same setpoint, mode and fan, and the device is told them.
RestoreExact ==
  [][(Setup /\ saved # <<>> /\ saved[1].mode \in SupportedMode
        /\ saved[1].target # NaN /\ saved[1].fan # <<>>)
     => published' = saved /\ \A d \in Device :
          Visible(Apply(sent', d)) = Visible(Registers')]_vars
=============================================================================
