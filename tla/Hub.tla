--------------------------------- MODULE Hub ---------------------------------
(***************************************************************************)
(* UniluxUartComponent with all its entities and the thermostat: what the  *)
(* code generation makes of a configuration, the dispatch of received      *)
(* frames (loop, log_frame_) to sensors, climate, numbers and selects, and *)
(* one rebroadcast window for all of them.                                 *)
(*                                                                         *)
(* The device broadcasts its registers, the temperatures it measures and   *)
(* blocks the hub only logs, also those whose entity is disabled.  Nothing *)
(* checks a frame, so the line may turn it into any other one.             *)
(***************************************************************************)
EXTENDS CodeGeneration

CONSTANTS
  NaN, Setpoints, Readings, Modes, Fans, DEFAULT_TARGET_TEMPERATURE,
  Values,             \* bound: of every number, what commands ask for
  SYNC_REPEAT_COUNT,  \* rounds of the rebroadcast window
  Possible,           \* bound: of every register, what the device may hold
  Announced,          \* bound: what the device broadcasts
  Measured,           \* bound: what it measures, on every channel
  Noise,              \* bound: the frames that damage can produce
  MaxRx,              \* bound: broadcasts in flight
  MaxCommands,        \* bound: Home Assistant commands
  MaxTroubles         \* bound: changes at the device, lost messages, damaged
                      \* frames and reboots, together

VARIABLES
  climate_ready, target_temperature, current_temperature, mode, fan_mode,
  power_on_, active_mode_, published, saved, climate_sent,   \* climate_
  unset, calls, state, queued, flash, setting_sent,   \* numbers_, selects_
  sensors,       \* of t1_sensor_ and t2_sensor_, optional: what they show
  sync_count_,   \* rounds of the window done since the last boot
  armed,         \* the "sync" interval timer is running
  device,        \* the registers of the thermostat
  rx,            \* frames on their way to the hub
  spent,         \* how often each bounded event has happened
  quiet,         \* history: the registers nobody has touched since the boot
  origins        \* history: of every register, the values that came from outside

climateVars == <<climate_ready, target_temperature, current_temperature, mode,
                 fan_mode, power_on_, active_mode_, published, saved>>
settingVars == <<unset, calls, state, queued, flash>>
vars == <<climateVars, climate_sent, settingVars, setting_sent, sensors,
          sync_count_, armed, device, rx, spent, quiet, origins>>

Climate == INSTANCE ClimateEntity WITH ready <- climate_ready, sent <- climate_sent
Entities == INSTANCE SettingEntities WITH sent <- setting_sent

\* Commands stay in the range that the code generation gives to a number.
ValuesInRange == \A n \in Numbers : Values[n] \subseteq Range_(n)

Setting == Numbers \cup Selects
Register == Climate!Message \cup DOMAIN MessageId

\* What a message of the device carries, and what it says of temperatures.
Carried(r) == IF r \in Climate!Message THEN Climate!Value(r) ELSE Int
Channels == [CHANNELS -> Nat]

ASSUME WindowAssumption == SYNC_REPEAT_COUNT \in Nat \ {0}
ASSUME ValuesAssumption == ValuesInRange
ASSUME ClimateAssumption ==
  /\ Climate!TemperatureAssumption
  /\ Climate!ModesAssumption
  /\ Climate!FansAssumption
ASSUME BoundsAssumption == MaxRx \in Nat /\ MaxCommands \in Nat /\ MaxTroubles \in Nat
ASSUME WorldAssumption ==
  /\ \A r \in Register : \A x \in Possible[r] : x \in Carried(r)
  /\ Measured \subseteq Channels
  /\ \A f \in Noise : /\ f = <<f[1], f[2]>>
                      /\ f[1] \in Register => f[2] \in Carried(f[1])
                      /\ f[1] = "Temperature" => f[2] \in Channels

\* Between two handlers of the main loop.
ready == Entities!ready /\ (HasClimate => climate_ready)

ClimateIdle == climate_sent' = Climate!Nothing /\ UNCHANGED climateVars
SettingsIdle == setting_sent' = Entities!Nothing /\ UNCHANGED settingVars

Events == {"command", "panel", "loss", "damage", "reboot"}

Spend(events) ==
  /\ spent' = [e \in Events |-> IF e \in events THEN spent[e] + 1 ELSE spent[e]]
  /\ spent'.command <= MaxCommands
  /\ spent'.panel + spent'.loss + spent'.damage + spent'.reboot <= MaxTroubles

-----------------------------------------------------------------------------
\* What the entities show of the device's registers, each an optional value.
Shown ==
  [r \in Register |->
     CASE r \in Climate!Message ->
            IF HasClimate /\ climate_ready THEN <<Climate!Registers[r]>> ELSE <<>>
       [] r \in Setting ->
            LET message == Entities!Message(r, state[r])
            IN  IF message = Entities!Nothing THEN <<>> ELSE <<message[r]>>
       [] OTHER -> <<>>]

\* The values a factory-new program starts from.
Factory ==
  [r \in Register |->
     CASE r = "TargetTemperature" -> {Climate!ToTenths(DEFAULT_TARGET_TEMPERATURE)}
       [] r = "Power"    -> {TRUE}
       [] r = "Mode"     -> {"Auto", "Heat"}
       [] r = "FanSpeed" -> {"Auto"}
       [] r \in Numbers  -> {Entities!ToTenths(initial_value_[r])}
       [] r \in Restored -> {option_bytes_[r][initial_index_[r]]}
       [] OTHER          -> {}]

\* The registers a thermostat may be found with.
DeviceState ==
  LET settings == {d \in [DOMAIN MessageId -> UNION {Possible[m] : m \in DOMAIN MessageId}] :
                     \A m \in DOMAIN MessageId : d[m] \in Possible[m]}
      climate == [TargetTemperature : Possible["TargetTemperature"],
                  Power : Possible["Power"], Mode : Possible["Mode"],
                  FanSpeed : Possible["FanSpeed"]]
  IN  {[r \in Register |-> IF r \in DOMAIN c THEN c[r] ELSE d[r]] :
         c \in climate, d \in settings}

\* A factory-new program; what flash may hold else is left to the components.
Init ==
  /\ Climate!Init /\ saved = <<>>
  /\ Entities!Init /\ flash = [e \in Entities!Persistent |-> <<>>]
  /\ sensors = [c \in Sensors |-> <<>>]
  /\ sync_count_ = 0
  /\ armed = FALSE
  /\ device \in DeviceState
  /\ rx = <<>>
  /\ spent = [e \in Events |-> 0]
  /\ quiet = Register
  /\ origins = [r \in Register |-> {device[r]} \cup Factory[r]]

\* send_message() for what the handlers transmit: the device takes over all but
\* the lost messages.
SentMessages == DOMAIN climate_sent \cup DOMAIN setting_sent

Transmit(lost, events) ==
  /\ Spend(events \cup (IF lost = {} THEN {} ELSE {"loss"}))
  /\ device' = [r \in Register |->
       CASE r \in DOMAIN climate_sent' \ lost -> climate_sent'[r]
         [] r \in DOMAIN setting_sent' \ lost -> setting_sent'[r]
         [] OTHER -> device[r]]

\* At most one message of a handler is lost.
TransmitTo(events) ==
  \/ Transmit({}, events)
  \/ \E m \in SentMessages' : Transmit({m}, events)

-----------------------------------------------------------------------------
(* The hub's handlers.                                                     *)

\* The hub is set up first and starts the timer, then one entity after another.
Booting(R) ==
  /\ armed' = TRUE
  /\ quiet' = quiet \cup R
  /\ TransmitTo({})
  /\ UNCHANGED <<sensors, sync_count_, rx, origins>>

BootClimate ==
  /\ HasClimate
  /\ calls = <<>>
  /\ Climate!Setup
  /\ SettingsIdle
  /\ Booting(Climate!Message)

BootSetting(e) ==
  /\ Entities!Setup(e)
  /\ ClimateIdle
  /\ Booting({e})

\* setup() or control() of a setting goes on after publish_state().
Return ==
  /\ Entities!Return
  /\ ClimateIdle
  /\ TransmitTo({})
  /\ UNCHANGED <<sensors, sync_count_, armed, rx, quiet, origins>>

\* A fault: the climate entity is left out.
sync_iteration_without_climate ==
  /\ ready /\ armed
  /\ Entities!SyncToDevice
  /\ ClimateIdle
  /\ TransmitTo({})
  /\ sync_count_' = sync_count_ + 1
  /\ armed' = (sync_count_' < SYNC_REPEAT_COUNT)
  /\ UNCHANGED <<sensors, rx, quiet, origins>>

\* A fault: the timer is cancelled one round too late.
sync_iteration_one_more ==
  /\ ready /\ armed
  /\ Entities!SyncToDevice
  /\ IF HasClimate THEN Climate!SyncToDevice ELSE ClimateIdle
  /\ TransmitTo({})
  /\ sync_count_' = sync_count_ + 1
  /\ armed' = (sync_count_' <= SYNC_REPEAT_COUNT)
  /\ UNCHANGED <<sensors, rx, quiet, origins>>

\* A fault: rounds are not counted, so the timer is never cancelled.
sync_iteration_for_ever ==
  /\ ready /\ armed
  /\ Entities!SyncToDevice
  /\ IF HasClimate THEN Climate!SyncToDevice ELSE ClimateIdle
  /\ TransmitTo({})
  /\ UNCHANGED <<sensors, sync_count_, armed, rx, quiet, origins>>

sync_iteration_ ==
  /\ ready /\ armed
  /\ Entities!SyncToDevice
  /\ IF HasClimate THEN Climate!SyncToDevice ELSE ClimateIdle
  /\ TransmitTo({})
  /\ sync_count_' = sync_count_ + 1
  /\ armed' = (sync_count_' < SYNC_REPEAT_COUNT)
  /\ UNCHANGED <<sensors, rx, quiet, origins>>

\* A fault: the last channel drives the climate entity.
publish_temperature_last_channel(value) ==
  /\ sensors' = [c \in DOMAIN sensors |-> <<value[c]>>]
  /\ IF HasClimate THEN Climate!PublishCurrentTemperature(value.t2) ELSE ClimateIdle

\* A Temperature message carries both channels; the first one is also the
\* climate entity's current temperature.
publish_temperature(value) ==
  /\ sensors' = [c \in DOMAIN sensors |-> <<value[c]>>]
  /\ IF HasClimate THEN Climate!PublishCurrentTemperature(value.t1) ELSE ClimateIdle

\* The dispatch of a frame to the entity its message is bound to, if any.
log_frame_(frame) ==
  LET id == frame[1]
      value == frame[2]
  IN
    \/ /\ id = "Temperature"
       /\ publish_temperature(value)
       /\ SettingsIdle
    \/ /\ id \in Climate!Message /\ HasClimate
       /\ Climate!Reflect(id, value)
       /\ SettingsIdle
       /\ UNCHANGED sensors
    \/ /\ id \in Setting
       /\ Entities!Reflect(id, value)
       /\ ClimateIdle
       /\ UNCHANGED sensors
    \* Logged only: AllConfig, Schedule, unknown and undecodable messages, and
    \* those whose entity is disabled.
    \/ /\ id \notin {"Temperature"} \cup Setting
       /\ ~ (id \in Climate!Message /\ HasClimate)
       /\ ClimateIdle /\ SettingsIdle
       /\ UNCHANGED sensors

\* loop() takes the oldest frame in.
loop ==
  /\ ready
  /\ rx # <<>>
  /\ log_frame_(Head(rx))
  /\ rx' = Tail(rx)
  /\ TransmitTo({})
  /\ quiet' = quiet \ {Head(rx)[1]}
  /\ UNCHANGED <<sync_count_, armed, origins>>

-----------------------------------------------------------------------------
(* The world around the hub.                                               *)

\* The registers S are asked to be what the entities show from now on.
Commanded(S) ==
  /\ TransmitTo({"command"})
  /\ quiet' = quiet \ S
  /\ origins' = [r \in Register |-> IF r \in S THEN origins[r] \cup {Shown'[r][1]}
                                    ELSE origins[r]]
  /\ UNCHANGED <<sensors, sync_count_, armed, rx>>

\* The registers a call to the climate entity is about.
Asked(call) ==
  {r \in Climate!Message :
     \/ r = "TargetTemperature" /\ call.target # <<>>
     \/ r = "Power" /\ call.mode # <<>>
     \/ r = "Mode" /\ Climate!ToActive(call)
     \/ r = "FanSpeed" /\ call.fan # <<>>}

CommandClimate(call) ==
  /\ ready /\ HasClimate
  /\ Climate!Control(call)
  /\ SettingsIdle
  /\ Commanded(Asked(call))

CommandSetting(e, value) ==
  /\ ready
  /\ Entities!Control(e, value)
  /\ ClimateIdle
  /\ Commanded({e})

Idle == ClimateIdle /\ SettingsIdle /\ UNCHANGED <<sensors, sync_count_, armed>>

\* The device broadcasts a register, what it measures, or a block of both.
Content(id) ==
  CASE id \in Register      -> {device[id]}
    [] id = "Temperature"   -> Measured
    [] OTHER                -> {<<>>}

Broadcast(id) ==
  /\ Len(rx) < MaxRx
  /\ \E value \in Content(id) : rx' = Append(rx, <<id, value>>)
  /\ Idle
  /\ UNCHANGED <<device, spent, quiet, origins>>

\* A damaged frame is taken for another; the values it may bring count as
\* coming from outside.
Damage(i) ==
  /\ Spend({"damage"})
  /\ \E f \in Noise \ {rx[i]} :
       /\ rx' = [rx EXCEPT ![i] = f]
       /\ origins' = [r \in Register |-> IF r = f[1] THEN origins[r] \cup {f[2]}
                                         ELSE origins[r]]
  /\ Idle
  /\ UNCHANGED <<device, quiet>>

Panel(r) ==
  /\ Spend({"panel"})
  /\ \E x \in Possible[r] \ {device[r]} :
       /\ device' = [device EXCEPT ![r] = x]
       /\ origins' = [origins EXCEPT ![r] = @ \cup {x}]
  /\ quiet' = quiet \ {r}
  /\ Idle
  /\ UNCHANGED rx

\* ESPHome writes all that was saved to flash, at once.
Flush ==
  /\ ready
  /\ \/ HasClimate /\ Climate!Flush
     \/ ~ HasClimate /\ ClimateIdle
  /\ Entities!Flush
  /\ UNCHANGED <<sensors, sync_count_, armed, device, rx, spent, quiet, origins>>

\* Whatever was set up is gone, and so are timer and frames.
Reboot ==
  /\ Spend({"reboot"})
  /\ Climate!Reboot \/ (~ climate_ready /\ ClimateIdle)
  /\ Entities!Reboot \/ (unset = Setting /\ SettingsIdle)
  /\ sensors' = [c \in DOMAIN sensors |-> <<>>]
  /\ sync_count_' = 0
  /\ armed' = FALSE
  /\ rx' = <<>>
  /\ UNCHANGED <<device, quiet, origins>>

Next ==
  \/ BootClimate
  \/ Return
  \/ \E e \in Setting :
       \/ BootSetting(e)
       \/ \E value \in Entities!Callable(e) : CommandSetting(e, value)
  \/ sync_iteration_
  \/ loop
  \/ \E call \in Climate!Call : CommandClimate(call)
  \/ \E id \in Announced : Broadcast(id)
  \/ \E i \in DOMAIN rx : Damage(i)
  \/ \E r \in Register : Panel(r)
  \/ Flush
  \/ Reboot

Spec == Init /\ [][Next]_vars

\* As in ClimateSync: ESPHome's scheduler is fair, and the device broadcasts
\* everything again and again.
LiveSpec ==
  /\ Spec
  /\ WF_vars(BootClimate \/ \E e \in Setting : BootSetting(e))
  /\ WF_vars(Return)
  /\ WF_vars(sync_iteration_)
  /\ WF_vars(loop)
  /\ \A id \in Announced : SF_vars(Broadcast(id))

-----------------------------------------------------------------------------
(***************************************************************************)
(* Correctness.                                                            *)
(***************************************************************************)

\* The frames that concern a register.
Flight == {f \in {rx[i] : i \in DOMAIN rx} : f[1] \in Register}

\* What an entity may come to show of a register by a command.
Askable(r) ==
  CASE r = "TargetTemperature" -> {Climate!ToTenths(t) : t \in Setpoints}
    [] r = "Power"    -> BOOLEAN
    [] r = "Mode"     -> Climate!DeviceMode
    [] r = "FanSpeed" -> Climate!DeviceFan
    [] r \in Numbers  -> {Entities!ToTenths(v) : v \in Values[r]}
    [] r \in Selects  -> {option_bytes_[r][i] : i \in Entities!Indices(r)}
    [] OTHER          -> {}

\* The values that registers may hold, be asked for or be broadcast.
RegisterValue ==
  [r \in Register |-> Possible[r] \cup Factory[r] \cup Askable(r)
                      \cup {f[2] : f \in {x \in Noise : x[1] = r}}]

\* What is on its way to the hub.
Frame ==
  (UNION {{r} \X RegisterValue[r] : r \in Register})
  \cup ({"Temperature"} \X Measured)
  \cup ((Announced \ (Register \cup {"Temperature"})) \X {<<>>})
  \cup Noise

\* The type of the state; as many rounds as the window has, and no more.
TypeOK ==
  /\ HasClimate => Climate!TypeOK
  /\ Entities!TypeOK
  /\ DOMAIN sensors = Sensors
  /\ \A c \in Sensors : sensors[c] = <<>> \/ sensors[c][1] \in Nat
  /\ sync_count_ \in 0 .. SYNC_REPEAT_COUNT
  /\ armed \in BOOLEAN
  /\ device = [r \in Register |-> device[r]] /\ DOMAIN origins = Register
  /\ \A r \in Register : origins[r] \subseteq RegisterValue[r]
  /\ rx \in Seq(Frame) /\ Len(rx) <= MaxRx
  /\ spent \in [Events -> Nat]
  /\ spent.panel + spent.loss + spent.damage + spent.reboot <= MaxTroubles
  /\ quiet \subseteq Register

Mirror == INSTANCE Mirror WITH
  Together <- {{e} : e \in Setting} \cup SUBSET Climate!Message,
  Value <- RegisterValue, shown <- Shown, held <- device, flight <- Flight,
  open <- armed, acts <- spent.command + spent.panel

\* The component implements the mirror: a frame shows at its own entity and
\* nowhere else, and is never answered; after the window the device changes by
\* commands and by its own hand only (unilux_uart.h: "does not transmit; this
\* reflects device state"); nothing is sent but what is shown.
IsMirror == Mirror!Spec

\* The climate entity and the first channel's sensor always show the same reading
\* (example.yaml: "Its current temperature mirrors the t1 channel"), also while
\* entities are set up and after a reboot.  (Filters that a user may put on the
\* sensor are not modelled.)
ChannelsAgree ==
  HasClimate /\ "t1" \in Sensors =>
    current_temperature = IF sensors["t1"] = <<>> THEN NaN
                          ELSE Climate!FromTenths(sensors["t1"][1])

\* The HVAC mode of an entity that is off is not sent, nor when it is switched on
\* at the device.
Withheld(r) == r = "Mode" /\ ~ (power_on_ /\ "Power" \in quiet)

\* One window serves all entities: a register nobody has touched since the boot
\* is the same on both sides when it closes, whichever message got lost.
WindowRepairsLoss ==
  ready /\ ~ armed =>
    \A r \in quiet : Shown[r] \in {<<>>, <<device[r]>>} \/ Withheld(r)

-----------------------------------------------------------------------------
(* The inductive invariant.                                                *)

\* Before they are set up the entities are as constructed, and no temperature has
\* arrived; setup() of a setting publishes within the boot.
Booted ==
  /\ climate_ready => HasClimate
  /\ HasClimate /\ ~ climate_ready =>
       /\ active_mode_ = "HEAT" /\ current_temperature = NaN
       /\ \A c \in Sensors : sensors[c] = <<>>
  /\ \A e \in unset : state[e] = <<>>
  /\ Len(calls) <= 1
  /\ calls # <<>> => calls[1].entity \notin unset
  /\ calls # <<>> /\ calls[1].kind = "setup" => armed /\ sync_count_ = 0

\* The registers that a saved state of the climate entity stands for came from
\* outside; a mode that is off or not supported stands for no mode.
SavedSourced ==
  \A i \in DOMAIN saved :
    /\ saved[i].target # NaN =>
         Climate!ToTenths(saved[i].target) \in origins["TargetTemperature"]
    /\ (saved[i].mode # "OFF") \in origins["Power"]
    /\ saved[i].mode \in Climate!ActiveMode =>
         Climate!climate_mode_to_device(saved[i].mode) \in origins["Mode"]
    /\ \A j \in DOMAIN saved[i].fan :
         Climate!climate_fan_to_device(saved[i].fan[j]) \in origins["FanSpeed"]

\* So did what waits in flash or in a call of a setting.
SettingsSourced ==
  /\ \A e \in Entities!Persistent :
       Entities!Wire(e, queued[e]) \cup Entities!Wire(e, flash[e]) \subseteq origins[e]
  /\ \A i \in DOMAIN calls :
       Entities!Wire(calls[i].entity, calls[i].value) \subseteq origins[calls[i].entity]

\* Whatever is held, shown, on its way or waits to be came from outside for its
\* register; so did what a factory-new program starts from.
Sourced ==
  /\ Mirror!NothingStrays
  /\ \A r \in Register : Factory[r] \subseteq origins[r]
  /\ SavedSourced
  /\ SettingsSourced

\* Until every entity is set up the window has had no round; every round that
\* leaves an untouched register different has cost a loss.
Repairing ==
  /\ unset # {} \/ (HasClimate /\ ~ climate_ready) => sync_count_ = 0
  /\ armed => sync_count_ < SYNC_REPEAT_COUNT
  /\ unset # Setting \/ climate_ready => armed \/ sync_count_ = SYNC_REPEAT_COUNT
  /\ \A r \in quiet :
       \/ Shown[r] \in {<<>>, <<device[r]>>}
       \/ Withheld(r)
       \/ spent.loss >= sync_count_

IInv ==
  /\ HasClimate => Climate!IInv
  /\ TypeOK
  /\ Booted
  /\ ChannelsAgree
  /\ Sourced
  /\ Repairing

\* What the device broadcasts of a register with an enabled entity.
Mirrored ==
  Announced \cap (Setting \cup (IF HasClimate THEN Climate!Message ELSE {}))

\* Entities and device come to agree once commands, changes, losses, damage and
\* reboots stop, unless a register holds a byte that stands for nothing.
Agreement ==
  /\ ready
  /\ \A r \in Mirrored :
       \/ Shown[r] = <<device[r]>>
       \/ r \in Selects /\ ~ Entities!IsMapped(r, device[r])

Converges == <>[]Agreement
=============================================================================
