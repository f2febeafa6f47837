----------------------------- MODULE ClimateSync -----------------------------
(***************************************************************************)
(* The climate entity, the hub's post-boot rebroadcast window and the      *)
(* thermostat at the other end of the UART.                                *)
(*                                                                         *)
(* Entity and device hold a copy of the same four values and either side   *)
(* may change them: Home Assistant through the entity, a person at the     *)
(* device's panel.  The entity learns of a change by the device's          *)
(* broadcast, which may be in flight for a while; the device learns of     *)
(* one by the message a handler transmits, which may be lost.  During the  *)
(* window after a boot the hub transmits the entity's copy again and again *)
(* (UniluxUartComponent::setup, sync_iteration_).                          *)
(*                                                                         *)
(* A transmitted message takes effect at once: delaying it is the same as  *)
(* having the broadcasts and panel changes it would have overtaken happen  *)
(* before it, and a broadcast may wait in `rx` as long as it likes.        *)
(***************************************************************************)
EXTENDS Integers, Sequences

CONSTANTS
  Fine, NaN, Setpoints, Readings, Modes, Fans, DEFAULT_TARGET_TEMPERATURE,
  SYNC_REPEAT_COUNT,  \* rounds of the rebroadcast window
  Broadcasts,         \* bound: the registers that change and are broadcast
  MaxRx,              \* bound: broadcasts in flight
  MaxCommands,        \* bound: Home Assistant commands
  MaxPanel,           \* bound: changes at the panel
  MaxLosses,          \* bound: transmissions with a lost message
  MaxReboots          \* bound: reboots

ASSUME WindowAssumption == SYNC_REPEAT_COUNT \in Nat \ {0}
ASSUME BoundsAssumption ==
  {MaxRx, MaxCommands, MaxPanel, MaxLosses, MaxReboots} \subseteq Nat

VARIABLES
  ready, target_temperature, current_temperature, mode, fan_mode, power_on_,
  active_mode_, published, saved, sent,   \* the entity
  sync_count_,   \* rounds of the window done since the last boot
  armed,         \* the "sync" interval timer is running
  device,        \* the registers of the thermostat
  rx,            \* broadcasts on their way to the entity
  spent,         \* how often each bounded event has happened
  since,         \* history: what happened to the values since the last boot
  chosen,        \* history: the HVAC modes somebody chose
  wish           \* history: what Home Assistant last asked for and may expect

entityVars == <<ready, target_temperature, current_temperature, mode, fan_mode,
                power_on_, active_mode_, published, saved, sent>>
vars == <<entityVars, sync_count_, armed, device, rx, spent, since, chosen,
          wish>>

Entity == INSTANCE ClimateEntity

Message == Entity!Message

ASSUME EntityAssumption ==
  /\ Entity!TemperatureAssumption
  /\ Entity!ModesAssumption
  /\ Entity!FansAssumption
  /\ Broadcasts \subseteq Message

Without(f, S) == [m \in DOMAIN f \ S |-> f[m]]

\* f, and g where f is not defined.
Over(f, g) ==
  [m \in DOMAIN f \cup DOMAIN g |-> IF m \in DOMAIN f THEN f[m] ELSE g[m]]

Bound == [command |-> MaxCommands, panel |-> MaxPanel, loss |-> MaxLosses,
          reboot |-> MaxReboots]

Spend(events) ==
  /\ \A e \in events : spent[e] < Bound[e]
  /\ spent' = [e \in DOMAIN spent |->
                 IF e \in events THEN spent[e] + 1 ELSE spent[e]]

-----------------------------------------------------------------------------
\* What the factory state asks of the device.
DefaultRegisters ==
  [TargetTemperature |-> Entity!ToTenths(DEFAULT_TARGET_TEMPERATURE),
   Power |-> TRUE, Mode |-> "Auto", FanSpeed |-> "Auto"]

\* The registers a thermostat may be found with.
DeviceState ==
  [TargetTemperature : Readings \cup {DefaultRegisters.TargetTemperature},
   Power             : BOOLEAN,
   Mode : {Entity!climate_mode_to_device(m) : m \in Modes \ {"OFF"}} \cup {"Auto"},
   FanSpeed : {Entity!climate_fan_to_device(f) : f \in Fans} \cup {"Auto"}]

\* The states this firmware may have left in flash.
SavedState ==
  {s \in Entity!Saveable :
     s.target # NaN /\ s.mode \in Entity!SupportedMode /\ s.fan # <<>>}

ModeChosenBy(state) ==
  {Entity!climate_mode_to_device(m) : m \in {state.mode} \ {"OFF"}}

Init ==
  /\ Entity!Init
  /\ saved \in Entity!Optional(SavedState)
  /\ sync_count_ = 0
  /\ armed = FALSE
  /\ device \in {d \in DeviceState : \A m \in Message \ Broadcasts :
                   d[m] = DefaultRegisters[m]}
  /\ rx = <<>>
  /\ spent = [e \in DOMAIN Bound |-> 0]
  /\ since = {}
  /\ chosen = {device.Mode} \cup
              ModeChosenBy(IF saved = <<>> THEN Entity!FactoryState ELSE saved[1])
  /\ wish = Entity!Nothing

\* The device takes over the messages just sent, but for the lost ones.
Transmit(lost, events) ==
  /\ device' = Entity!Apply(Without(sent', lost), device)
  /\ Spend(events \cup (IF lost = {} THEN {} ELSE {"loss"}))

\* Every setup(): the entity's and the hub's, which starts the timer.
Boot ==
  /\ Entity!Setup
  /\ \E lost \in SUBSET DOMAIN sent' : Transmit(lost, {})
  /\ sync_count_' = 0
  /\ armed' = TRUE
  /\ since' = {}
  /\ UNCHANGED <<rx, chosen, wish>>

\* A fault: one round too many (> where the code has >=).
SyncIterationOneMore ==
  /\ armed
  /\ Entity!SyncToDevice
  /\ \E lost \in SUBSET DOMAIN sent' : Transmit(lost, {})
  /\ sync_count_' = sync_count_ + 1
  /\ armed' = (sync_count_' <= SYNC_REPEAT_COUNT)
  /\ UNCHANGED <<rx, since, chosen, wish>>

\* A fault: rounds are not counted, so the timer is never cancelled.
SyncIterationForEver ==
  /\ armed
  /\ Entity!SyncToDevice
  /\ \E lost \in SUBSET DOMAIN sent' : Transmit(lost, {})
  /\ UNCHANGED <<sync_count_, armed, rx, since, chosen, wish>>

\* sync_iteration_(): the timer fires.
SyncIteration ==
  /\ armed
  /\ Entity!SyncToDevice
  /\ \E lost \in SUBSET DOMAIN sent' : Transmit(lost, {})
  /\ sync_count_' = sync_count_ + 1
  /\ armed' = (sync_count_' < SYNC_REPEAT_COUNT)
  /\ UNCHANGED <<rx, since, chosen, wish>>

\* What a user who gives this command expects of the device.
Wanted(call) ==
  [m \in {x \in Message : CASE x = "TargetTemperature" -> call.target # <<>>
                           [] x = "Power"    -> call.mode # <<>>
                           [] x = "Mode"     -> Entity!ToActive(call)
                           [] x = "FanSpeed" -> call.fan # <<>>}
     |-> Entity!Content(m, call.target[1], call.mode # <<"OFF">>, call.mode[1],
                        call.fan[1])]

\* A user may expect the command to be obeyed when it is given after the window
\* to an entity that is up to date, and none of it is lost.
Command(call) ==
  /\ Entity!Control(call)
  /\ \E lost \in SUBSET DOMAIN sent' :
       /\ Transmit(lost, {"command"})
       /\ wish' = IF ~ armed /\ Entity!Registers = device /\ lost = {}
                  THEN Over(Wanted(call), wish)
                  ELSE Without(wish, DOMAIN Wanted(call))
  /\ since' = since \cup {"command"}
  /\ chosen' = chosen \cup IF Entity!ToActive(call)
                           THEN {Entity!climate_mode_to_device(call.mode[1])}
                           ELSE {}
  /\ UNCHANGED <<sync_count_, armed, rx>>

\* The device broadcasts one of its registers.
Broadcast(m) ==
  /\ Len(rx) < MaxRx
  /\ rx' = Append(rx, <<m, device[m]>>)
  /\ UNCHANGED <<entityVars, sync_count_, armed, device, spent, since,
                 chosen, wish>>

\* loop() takes the oldest broadcast in.
Receive ==
  /\ rx # <<>>
  /\ Entity!Reflect(Head(rx)[1], Head(rx)[2])
  /\ rx' = Tail(rx)
  /\ since' = since \cup {"broadcast"}
  /\ UNCHANGED <<sync_count_, armed, device, spent, chosen, wish>>

\* Somebody changes a register at the device.
Panel(m) ==
  /\ Spend({"panel"})
  /\ \E d \in DeviceState : device' = [device EXCEPT ![m] = d[m]]
  /\ device' # device
  /\ since' = since \cup {"panel"}
  /\ chosen' = chosen \cup {device'.Mode}
  /\ wish' = Without(wish, {m})
  /\ UNCHANGED <<entityVars, sync_count_, armed, rx>>

Flush ==
  /\ Entity!Flush
  /\ UNCHANGED <<sync_count_, armed, device, rx, spent, since, chosen,
                 wish>>

\* Timer, queue and caches are gone.
Reboot ==
  /\ Spend({"reboot"})
  /\ Entity!Reboot
  /\ sync_count_' = 0
  /\ armed' = FALSE
  /\ rx' = <<>>
  /\ wish' = Entity!Nothing
  /\ UNCHANGED <<device, since, chosen>>

Next ==
  \/ Boot
  \/ SyncIteration
  \/ \E call \in Entity!Call : Command(call)
  \/ \E m \in Broadcasts : Broadcast(m) \/ Panel(m)
  \/ Receive
  \/ Flush
  \/ Reboot

Spec == Init /\ [][Next]_vars

\* setup() runs, the timer fires and loop() reads as long as there is reason to.
\* The device broadcasts every register again and again, which nothing in this
\* repository guarantees but the whole integration relies on.
LiveSpec ==
  /\ Spec
  /\ WF_vars(Boot)
  /\ WF_vars(SyncIteration)
  /\ WF_vars(Receive)
  /\ \A m \in Broadcasts : SF_vars(Broadcast(m))

-----------------------------------------------------------------------------
(***************************************************************************)
(* Correctness.                                                            *)
(***************************************************************************)

FrameOf(m) == {m} \X Entity!Value(m)
Frame == FrameOf("TargetTemperature") \cup FrameOf("Power") \cup FrameOf("Mode")
           \cup FrameOf("FanSpeed")

\* The type of the state that is not the entity's.
TypeOK ==
  /\ sync_count_ \in 0 .. SYNC_REPEAT_COUNT
  /\ armed \in BOOLEAN
  /\ device = [m \in Message |-> device[m]]
  /\ \A m \in Message : device[m] \in Entity!Value(m)
  /\ rx \in Seq(Frame)
  /\ Len(rx) <= MaxRx
  /\ spent \in [DOMAIN Bound -> Nat]
  /\ \A e \in DOMAIN Bound : spent[e] <= Bound[e]
  /\ since \subseteq {"command", "panel", "broadcast"}
  /\ DOMAIN wish \subseteq Message

\* Entity and device look the same.
InAgreement == Entity!Visible(device) = Entity!Visible(Entity!Registers)

\* The timer runs until the last round; and while neither side is touched, a
\* device that differs has missed something of the boot transmission and of
\* every round since.
Repairing ==
  ready =>
    /\ armed <=> sync_count_ < SYNC_REPEAT_COUNT
    /\ since = {} => InAgreement \/ spent.loss > sync_count_

\* The rebroadcast makes up for a lost boot transmission, and for lost rounds
\* (unilux_uart.cpp: "so the MCU reliably picks them up"), as long as the device
\* says nothing and nobody touches it meanwhile.
WindowRepairsLoss ==
  (ready /\ ~ armed /\ since = {}) => InAgreement

\* The invariant of the proofs.
IInv == Entity!IInv /\ TypeOK /\ Repairing

\* Home Assistant shows what the device does once commands, panel changes,
\* losses and reboots stop.
Agreement == ready /\ Entity!Registers = device

Converges == <>[]Agreement

\* A command given after the window to an up-to-date entity is obeyed for good:
\* broadcasts still in flight may make Home Assistant show the old value for a
\* while, but neither they nor a later command undo it at the device.
CommandSticks ==
  <>[](\A m \in DOMAIN wish : device[m] = wish[m] /\ Entity!Registers[m] = wish[m])

-----------------------------------------------------------------------------
(* What a comment of the code says and the code does not do.               *)

\* "the active mode is remembered for when it powers back on"
\* (unilux_uart.cpp): the device never runs in a mode that neither Home
\* Assistant, the panel nor the restored state chose.
ModeWasChosen == device.Mode \in chosen
=============================================================================
