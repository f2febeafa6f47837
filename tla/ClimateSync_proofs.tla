-------------------------- MODULE ClimateSync_proofs --------------------------
(***************************************************************************)
(* Proofs about ClimateSync, for every set of temperatures, modes and fan  *)
(* speeds, every length of the window and every bound on what happens: the *)
(* rebroadcast window makes up for as many losses as it has rounds.        *)
(*                                                                         *)
(* What a handler does to the entity is taken from ClimateEntity_proofs.   *)
(***************************************************************************)
EXTENDS ClimateSync, SequenceTheorems, TLAPS

Proofs == INSTANCE ClimateEntity_proofs

(***************************************************************************)
(* Entity and Proofs are two instances of the same definitions.            *)
(***************************************************************************)

LEMMA SameTables ==
  /\ Entity!Message = Proofs!Message
  /\ Entity!Nothing = Proofs!Nothing
  /\ Entity!ActiveMode = Proofs!ActiveMode
  /\ Entity!SupportedMode = Proofs!SupportedMode
  /\ Entity!FanMode = Proofs!FanMode
  /\ Entity!DeviceMode = Proofs!DeviceMode
  /\ Entity!DeviceFan = Proofs!DeviceFan
  /\ Entity!Unknown = Proofs!Unknown
  /\ Entity!device_mode_to_climate = Proofs!device_mode_to_climate
  /\ Entity!device_fan_to_climate = Proofs!device_fan_to_climate
  /\ Entity!FactoryState = Proofs!FactoryState
  /\ Entity!Temperature = Proofs!Temperature
  BY Zenon DEF Entity!Message, Proofs!Message, Entity!Nothing, Proofs!Nothing,
       Entity!ActiveMode, Proofs!ActiveMode, Entity!SupportedMode,
       Proofs!SupportedMode, Entity!FanMode, Proofs!FanMode,
       Entity!DeviceMode, Proofs!DeviceMode, Entity!DeviceFan,
       Proofs!DeviceFan, Entity!Unknown, Proofs!Unknown,
       Entity!device_mode_to_climate, Proofs!device_mode_to_climate,
       Entity!device_fan_to_climate, Proofs!device_fan_to_climate,
       Entity!FactoryState, Proofs!FactoryState,
       Entity!Temperature, Proofs!Temperature

LEMMA SameConversions ==
  /\ \A t : Entity!ToTenths(t) = Proofs!ToTenths(t)
  /\ \A n : Entity!FromTenths(n) = Proofs!FromTenths(n)
  /\ \A m : Entity!climate_mode_to_device(m) = Proofs!climate_mode_to_device(m)
  /\ \A f : Entity!climate_fan_to_device(f) = Proofs!climate_fan_to_device(f)
  /\ \A p, a : Entity!FoldedMode(p, a) = Proofs!FoldedMode(p, a)
  /\ \A S : Entity!Optional(S) = Proofs!Optional(S)
  /\ \A v, S : Entity!IsOptional(v, S) <=> Proofs!IsOptional(v, S)
  BY Zenon DEF Entity!ToTenths, Proofs!ToTenths, Entity!FromTenths,
       Proofs!FromTenths, Entity!climate_mode_to_device,
       Proofs!climate_mode_to_device, Entity!climate_fan_to_device,
       Proofs!climate_fan_to_device, Entity!FoldedMode, Proofs!FoldedMode,
       Entity!Optional, Proofs!Optional, Entity!IsOptional, Proofs!IsOptional

LEMMA SameContent ==
  /\ \A m, t, p, a, f : Entity!Content(m, t, p, a, f) = Proofs!Content(m, t, p, a, f)
  /\ \A t, p, a, f : Entity!SyncMessages(t, p, a, f) = Proofs!SyncMessages(t, p, a, f)
  /\ \A c : Entity!ControlMessages(c) = Proofs!ControlMessages(c)
  /\ \A c : Entity!ToActive(c) <=> Proofs!ToActive(c)
  /\ \A c : Entity!ToOff(c) <=> Proofs!ToOff(c)
  BY Zenon DEF Entity!Content, Proofs!Content, Entity!SyncMessages,
       Proofs!SyncMessages, Entity!ControlMessages, Proofs!ControlMessages,
       Entity!Transmits, Proofs!Transmits, Entity!ToActive, Proofs!ToActive,
       Entity!ToOff, Proofs!ToOff, Entity!ActiveMode, Proofs!ActiveMode,
       Entity!Message, Proofs!Message, Entity!ToTenths, Proofs!ToTenths,
       Entity!climate_mode_to_device, Proofs!climate_mode_to_device,
       Entity!climate_fan_to_device, Proofs!climate_fan_to_device

LEMMA SameDevice ==
  /\ Entity!Registers = Proofs!Registers
  /\ \A p, d : Entity!Apply(p, d) = Proofs!Apply(p, d)
  /\ \A d : Entity!Visible(d) = Proofs!Visible(d)
  /\ \A m : Entity!Value(m) = Proofs!Value(m)
  BY SameContent, SameTables, Zenon DEF Entity!Registers, Proofs!Registers,
       Entity!Apply, Proofs!Apply, Entity!Visible, Proofs!Visible,
       Entity!Value, Proofs!Value, Entity!Message, Proofs!Message,
       Entity!Unknown, Proofs!Unknown, Entity!DeviceMode, Proofs!DeviceMode,
       Entity!DeviceFan, Proofs!DeviceFan

LEMMA SameIInv == Entity!IInv <=> Proofs!IInv
<1>1. Entity!State = Proofs!State
  BY SameTables, SameConversions, Zenon DEF Entity!State, Proofs!State
<1>2. Entity!TypeOK <=> Proofs!TypeOK
  BY <1>1, SameTables, SameConversions, Zenon DEF Entity!TypeOK,
       Proofs!TypeOK
<1>3. Entity!ModeFolded <=> Proofs!ModeFolded
  BY SameConversions, Zenon DEF Entity!ModeFolded, Proofs!ModeFolded
<1>4. /\ Entity!Controllable <=> Proofs!Controllable
      /\ Entity!NothingHidden <=> Proofs!NothingHidden
  BY Zenon DEF Entity!Controllable, Proofs!Controllable,
       Entity!NothingHidden, Proofs!NothingHidden
<1>5. QED
  BY <1>2, <1>3, <1>4, Zenon DEF Entity!IInv, Proofs!IInv

LEMMA SameIInvNext == Entity!IInv' <=> Proofs!IInv'
  BY SameIInv, PTL

LEMMA SameInit == Entity!Init <=> Proofs!Init
  BY Zenon DEF Entity!Init, Proofs!Init, Entity!Saveable, Proofs!Saveable,
       Entity!Optional, Proofs!Optional, Entity!Nothing, Proofs!Nothing

LEMMA SameSteps ==
  /\ Entity!Setup <=> Proofs!Setup
  /\ Entity!SyncToDevice <=> Proofs!SyncToDevice
  /\ \A c : Entity!Control(c) <=> Proofs!Control(c)
  /\ \A m, v : Entity!Reflect(m, v) <=> Proofs!Reflect(m, v)
  /\ Entity!Flush <=> Proofs!Flush
  /\ Entity!Reboot <=> Proofs!Reboot
<1>1. Entity!Restored = Proofs!Restored
  BY SameTables, Zenon DEF Entity!Restored, Proofs!Restored
<1>2. Entity!Setup <=> Proofs!Setup
  BY <1>1, SameTables, SameConversions, SameContent, Zenon DEF Entity!Setup,
       Proofs!Setup, Entity!publish_state, Proofs!publish_state
<1>3. Entity!SyncToDevice <=> Proofs!SyncToDevice
  BY SameContent, Zenon DEF Entity!SyncToDevice, Proofs!SyncToDevice,
       Entity!shown, Proofs!shown
<1>4. \A c : Entity!Control(c) <=> Proofs!Control(c)
  BY SameConversions, SameContent, Zenon DEF Entity!Control, Proofs!Control,
       Entity!publish_state, Proofs!publish_state
<1>5. \A m, v : Entity!Reflect(m, v) <=> Proofs!Reflect(m, v)
  BY Zenon DEF Entity!Reflect, Proofs!Reflect,
       Entity!PublishCurrentTemperature, Proofs!PublishCurrentTemperature,
       Entity!PublishTargetTemperature, Proofs!PublishTargetTemperature,
       Entity!PublishPower, Proofs!PublishPower, Entity!PublishMode,
       Proofs!PublishMode, Entity!PublishFanSpeed, Proofs!PublishFanSpeed,
       Entity!PublishCombinedMode, Proofs!PublishCombinedMode,
       Entity!publish_state, Proofs!publish_state, Entity!FromTenths,
       Proofs!FromTenths, Entity!FoldedMode, Proofs!FoldedMode,
       Entity!Nothing, Proofs!Nothing, Entity!DeviceMode, Proofs!DeviceMode,
       Entity!DeviceFan, Proofs!DeviceFan, Entity!device_mode_to_climate,
       Proofs!device_mode_to_climate, Entity!device_fan_to_climate,
       Proofs!device_fan_to_climate
<1>6. /\ Entity!Flush <=> Proofs!Flush
      /\ Entity!Reboot <=> Proofs!Reboot
  BY SameTables, Zenon DEF Entity!Flush, Proofs!Flush, Entity!Reboot,
       Proofs!Reboot, Entity!shown, Proofs!shown
<1>7. QED
  BY <1>2, <1>3, <1>4, <1>5, <1>6

LEMMA SameCall == Entity!Call = Proofs!Call
  BY SameConversions, Zenon DEF Entity!Call, Proofs!Call

\* The assumptions under which the entity's lemmas hold.
LEMMA EntityAssumptions ==
  /\ Proofs!TemperatureAssumption
  /\ Proofs!ModesAssumption
  /\ Proofs!FansAssumption
  BY EntityAssumption, SameTables, Zenon
  DEF Entity!TemperatureAssumption, Proofs!TemperatureAssumption,
      Entity!ModesAssumption, Proofs!ModesAssumption,
      Entity!FansAssumption, Proofs!FansAssumption

(***************************************************************************)
(* What the system needs to know of the entity.                            *)
(***************************************************************************)

\* Every handler maintains the entity's invariant.
LEMMA EntityStep ==
  ASSUME Entity!IInv,
         \/ Entity!Setup
         \/ Entity!SyncToDevice
         \/ \E call \in Entity!Call : Entity!Control(call)
         \/ \E m \in Message : \E v \in Entity!Value(m) : Entity!Reflect(m, v)
         \/ Entity!Flush
         \/ Entity!Reboot
         \/ UNCHANGED entityVars
  PROVE  Entity!IInv'
<1> SUFFICES Proofs!IInv'
  BY SameIInvNext
<1>0. Proofs!IInv
  BY SameIInv
<1>1. CASE Entity!Setup
  BY <1>0, <1>1, SameSteps, EntityAssumptions, Proofs!SetupStep
<1>2. CASE Entity!SyncToDevice \/ Entity!Flush \/ Entity!Reboot
  BY <1>0, <1>2, SameSteps, EntityAssumptions, Proofs!OtherSteps
<1>3. ASSUME NEW call \in Entity!Call, Entity!Control(call)
      PROVE  Proofs!IInv'
  BY <1>0, <1>3, SameSteps, SameCall, EntityAssumptions, Proofs!ControlStep
<1>4. ASSUME NEW m \in Message, NEW v \in Entity!Value(m), Entity!Reflect(m, v)
      PROVE  Proofs!IInv'
  BY <1>0, <1>4, SameSteps, SameDevice, EntityAssumptions, Proofs!ReflectStep
<1>5. CASE UNCHANGED entityVars
  BY <1>0, <1>5
  DEF entityVars, Proofs!IInv, Proofs!TypeOK, Proofs!ModeFolded,
      Proofs!Controllable, Proofs!NothingHidden
<1>6. QED
  BY <1>1, <1>2, <1>3, <1>4, <1>5

LEMMA SameRegisters ==
  /\ Entity!Registers = Proofs!Registers
  /\ Entity!Registers' = Proofs!Registers'
  BY SameContent, SameTables, Zenon DEF Entity!Registers, Proofs!Registers

\* A message that a handler transmits carries a value for its register.
LEMMA SentValue ==
  ASSUME Entity!IInv, Entity!IInv',
         \/ Entity!Setup
         \/ Entity!SyncToDevice
         \/ \E call \in Entity!Call : Entity!Control(call)
  PROVE  \A m \in DOMAIN sent' : m \in Message /\ sent'[m] \in Entity!Value(m)
<1>1. Proofs!IInv /\ Proofs!IInv'
  BY SameIInv, SameIInvNext
<1>2. \/ Proofs!Setup \/ Proofs!SyncToDevice
      \/ \E call \in Proofs!Call : Proofs!Control(call)
  BY SameSteps, SameCall
<1>3. \A m \in DOMAIN sent' : m \in Proofs!Message /\ sent'[m] \in Proofs!Value(m)
  BY <1>1, <1>2, EntityAssumptions, Proofs!SentValue
<1>4. QED
  BY <1>3, SameDevice, SameTables DEF Message

\* A boot or a round of which nothing is lost brings the device into agreement.
LEMMA RoundCovers ==
  ASSUME Entity!IInv', Entity!Setup \/ Entity!SyncToDevice,
         device' = Entity!Apply(sent', device)
  PROVE  InAgreement'
<1>1. Proofs!IInv' /\ (Proofs!Setup \/ Proofs!SyncToDevice)
  BY SameIInvNext, SameSteps
<1>2. Proofs!Visible(Proofs!Apply(sent', device)) = Proofs!Visible(Proofs!Registers')
  BY <1>1, EntityAssumptions, Proofs!RoundCovers
<1>3. QED
  BY <1>2, SameDevice, SameRegisters DEF InAgreement

\* Whatever is lost of it, a device in agreement remains so.
LEMMA RoundKeeps ==
  ASSUME Entity!IInv', Entity!Setup \/ Entity!SyncToDevice,
         device = [m \in Message |-> device[m]],
         Entity!Visible(device) = Entity!Visible(Entity!Registers'),
         NEW lost, device' = Entity!Apply(Without(sent', lost), device)
  PROVE  InAgreement'
<1>1. Proofs!IInv' /\ (Proofs!Setup \/ Proofs!SyncToDevice)
  BY SameIInvNext, SameSteps
<1> DEFINE part == Without(sent', lost)
<1>2. /\ DOMAIN part \subseteq DOMAIN sent'
      /\ \A m \in DOMAIN part : part[m] = sent'[m]
  BY DEF Without
<1>3. device = [m \in Proofs!Message |-> device[m]]
  BY SameTables DEF Message
<1>4. Proofs!Visible(device) = Proofs!Visible(Proofs!Registers')
  BY SameDevice, SameRegisters
<1> HIDE DEF part
<1>5. Proofs!Visible(Proofs!Apply(part, device)) = Proofs!Visible(Proofs!Registers')
  BY <1>1, <1>2, <1>3, <1>4, EntityAssumptions, Proofs!RoundKeeps
<1>6. QED
  BY <1>5, SameDevice, SameRegisters DEF InAgreement, part

(***************************************************************************)
(* Bounded events and transmissions.                                       *)
(***************************************************************************)

Event == {"command", "panel", "loss", "reboot"}

LEMMA EventBounds ==
  /\ DOMAIN Bound = Event
  /\ \A e \in Event : Bound[e] \in Nat
  /\ Bound["loss"] = MaxLosses
  BY BoundsAssumption DEF Bound, Event

\* What a step spends stays within its bound.
LEMMA Spending ==
  ASSUME TypeOK, NEW events \in SUBSET Event, Spend(events)
  PROVE  /\ spent' \in [DOMAIN Bound -> Nat]
         /\ \A e \in DOMAIN Bound : spent'[e] <= Bound[e]
         /\ \A e \in Event : spent'[e] >= spent[e]
         /\ \A e \in events : spent'[e] = spent[e] + 1
<1>1. spent \in [Event -> Nat] /\ \A e \in Event : spent[e] <= Bound[e]
  BY EventBounds DEF TypeOK
<1>2. spent' = [e \in Event |-> IF e \in events THEN spent[e] + 1 ELSE spent[e]]
  BY <1>1 DEF Spend
<1>3. \A e \in events : spent[e] < Bound[e]
  BY DEF Spend
<1>4. \A e \in Event : /\ spent'[e] \in Nat
                       /\ spent'[e] >= spent[e]
                       /\ spent'[e] <= Bound[e]
                       /\ e \in events => spent'[e] = spent[e] + 1
  <2> TAKE e \in Event
  <2>1. spent[e] \in Nat /\ Bound[e] \in Nat /\ spent[e] <= Bound[e]
    BY <1>1, EventBounds
  <2>2. CASE e \in events
    <3>1. spent'[e] = spent[e] + 1 /\ spent[e] < Bound[e]
      BY <1>2, <1>3, <2>2
    <3>2. QED
      BY <2>1, <3>1
  <2>3. CASE e \notin events
    <3>1. spent'[e] = spent[e]
      BY <1>2, <2>3
    <3>2. QED
      BY <2>1, <2>3, <3>1
  <2>4. QED
    BY <2>2, <2>3
<1>5. QED
  BY <1>2, <1>4, EventBounds

\* A transmission leaves the device with values of its registers, and counts its
\* losses.
LEMMA Transmission ==
  ASSUME TypeOK, NEW lost, NEW events \in SUBSET Event, Transmit(lost, events),
         \A m \in DOMAIN sent' : m \in Message /\ sent'[m] \in Entity!Value(m)
  PROVE  /\ device' = [m \in Message |-> device'[m]]
         /\ \A m \in Message : device'[m] \in Entity!Value(m)
         /\ spent' \in [DOMAIN Bound -> Nat]
         /\ \A e \in DOMAIN Bound : spent'[e] <= Bound[e]
         /\ spent'.loss >= spent.loss
         /\ lost # {} => spent'.loss = spent.loss + 1
<1> DEFINE part == Without(sent', lost)
           all == events \cup (IF lost = {} THEN {} ELSE {"loss"})
<1>1. device' = [m \in Message |-> IF m \in DOMAIN part THEN part[m] ELSE device[m]]
  BY DEF Transmit, Entity!Apply, Message
<1>2. \A m \in DOMAIN part : m \in DOMAIN sent' /\ part[m] = sent'[m]
  BY DEF Without
<1>3. all \in SUBSET Event /\ (lost # {} => "loss" \in all) /\ Spend(all)
  BY DEF Transmit, Event
<1>4. \A m \in Message : device[m] \in Entity!Value(m)
  BY DEF TypeOK
<1> HIDE DEF part, all
<1>5. /\ device' = [m \in Message |-> device'[m]]
      /\ \A m \in Message : device'[m] \in Entity!Value(m)
  BY <1>1, <1>2, <1>4
<1>6. "loss" \in Event
  BY DEF Event
<1>7. QED
  BY <1>3, <1>5, <1>6, Spending

(***************************************************************************)
(* The invariant.                                                          *)
(***************************************************************************)

\* Without a loss the device takes over all of a transmission.
LEMMA NothingLost ==
  ASSUME NEW d, NEW f
  PROVE  Entity!Apply(Without(f, {}), d) = Entity!Apply(f, d)
  BY DEF Entity!Apply, Without

\* A boot opens the window, and only a loss leaves the device different.
LEMMA BootStep ==
  ASSUME IInv, Boot
  PROVE  IInv'
<1>1. Entity!IInv'
  BY EntityStep DEF IInv, Boot
<1>2. PICK lost : Transmit(lost, {})
  BY DEF Boot
<1>3. TypeOK /\ {} \in SUBSET Event
  BY DEF IInv
<1>4. \A m \in DOMAIN sent' : m \in Message /\ sent'[m] \in Entity!Value(m)
  BY <1>1, SentValue DEF IInv, Boot
<1>5. /\ device' = [m \in Message |-> device'[m]]
      /\ \A m \in Message : device'[m] \in Entity!Value(m)
      /\ spent' \in [DOMAIN Bound -> Nat]
      /\ \A e \in DOMAIN Bound : spent'[e] <= Bound[e]
      /\ spent'.loss >= spent.loss
      /\ lost # {} => spent'.loss = spent.loss + 1
  BY <1>2, <1>3, <1>4, Transmission
<1>6. /\ sync_count_' = 0 /\ armed' = TRUE /\ since' = {}
      /\ rx' = rx /\ wish' = wish
  BY DEF Boot
<1>7. TypeOK'
  <2>1. 0 \in 0 .. SYNC_REPEAT_COUNT
    BY WindowAssumption
  <2>2. QED
    BY <1>3, <1>5, <1>6, <2>1 DEF TypeOK, Bound
<1>8. InAgreement' \/ spent'.loss > 0
  <2>1. CASE lost = {}
    <3>1. device' = Entity!Apply(sent', device)
      BY <1>2, <2>1, NothingLost DEF Transmit
    <3>2. QED
      BY <1>1, <3>1, RoundCovers DEF Boot
  <2>2. CASE lost # {}
    BY <1>3, <1>5, <2>2, EventBounds DEF TypeOK, Event
  <2>3. QED
    BY <2>1, <2>2
<1>9. Repairing'
  BY <1>6, <1>8, WindowAssumption DEF Repairing
<1>10. QED
  BY <1>1, <1>7, <1>9 DEF IInv

\* A round brings the device into agreement, leaves it there, or is one more of
\* which something was lost.
LEMMA RoundStep ==
  ASSUME IInv, SyncIteration
  PROVE  IInv'
<1>1. Entity!IInv'
  BY EntityStep DEF IInv, SyncIteration
<1>2. PICK lost : Transmit(lost, {})
  BY DEF SyncIteration
<1>3. TypeOK /\ {} \in SUBSET Event
  BY DEF IInv
<1>4. \A m \in DOMAIN sent' : m \in Message /\ sent'[m] \in Entity!Value(m)
  BY <1>1, SentValue DEF IInv, SyncIteration
<1>5. /\ device' = [m \in Message |-> device'[m]]
      /\ \A m \in Message : device'[m] \in Entity!Value(m)
      /\ spent' \in [DOMAIN Bound -> Nat]
      /\ \A e \in DOMAIN Bound : spent'[e] <= Bound[e]
      /\ spent'.loss >= spent.loss
      /\ lost # {} => spent'.loss = spent.loss + 1
  BY <1>2, <1>3, <1>4, Transmission
<1>6. /\ armed /\ sync_count_' = sync_count_ + 1
      /\ armed' = (sync_count_' < SYNC_REPEAT_COUNT)
      /\ UNCHANGED <<rx, since, chosen, wish>>
      /\ ready
  BY DEF SyncIteration, Entity!SyncToDevice
<1>7. /\ sync_count_ \in Nat /\ SYNC_REPEAT_COUNT \in Nat
      /\ sync_count_ < SYNC_REPEAT_COUNT
      /\ since = {} => InAgreement \/ spent.loss > sync_count_
      /\ spent.loss \in Nat
  BY <1>3, <1>6, WindowAssumption, EventBounds
     DEF IInv, TypeOK, Repairing, Event
<1>8. TypeOK'
  <2>1. sync_count_ + 1 \in 0 .. SYNC_REPEAT_COUNT
    BY <1>7
  <2>2. sync_count_' \in 0 .. SYNC_REPEAT_COUNT /\ armed' \in BOOLEAN
    BY <1>6, <2>1
  <2>3. QED
    BY <1>3, <1>5, <1>6, <2>2 DEF TypeOK, Bound
<1>9. ASSUME since' = {}
      PROVE  InAgreement' \/ spent'.loss > sync_count_'
  <2>1. CASE lost = {}
    <3>1. device' = Entity!Apply(sent', device)
      BY <1>2, <2>1, NothingLost DEF Transmit
    <3>2. QED
      BY <1>1, <3>1, RoundCovers DEF SyncIteration
  <2>2. CASE lost # {} /\ InAgreement
    <3>1. Entity!Registers' = Entity!Registers
      BY DEF SyncIteration, Entity!SyncToDevice, Entity!shown, Entity!Registers
    <3>2. Entity!Visible(device) = Entity!Visible(Entity!Registers')
      BY <2>2, <3>1 DEF InAgreement
    <3>3. device' = Entity!Apply(Without(sent', lost), device)
      BY <1>2 DEF Transmit
    <3>4. QED
      BY <1>1, <1>3, <3>2, <3>3, RoundKeeps DEF SyncIteration, TypeOK
  <2>3. CASE lost # {} /\ ~ InAgreement
    <3>1. spent.loss > sync_count_
      BY <1>6, <1>7, <1>9, <2>3
    <3>2. spent'.loss = spent.loss + 1
      BY <1>5, <2>3
    <3>3. QED
      BY <1>6, <1>7, <3>1, <3>2
  <2>4. QED
    BY <2>1, <2>2, <2>3
<1>10. Repairing'
  BY <1>6, <1>9 DEF Repairing
<1>11. QED
  BY <1>1, <1>8, <1>10 DEF IInv

\* A command touches the values.
LEMMA CommandStep ==
  ASSUME IInv, NEW call \in Entity!Call, Command(call)
  PROVE  IInv'
<1>1. Entity!IInv'
  BY EntityStep DEF IInv, Command
<1>2. PICK lost : /\ Transmit(lost, {"command"})
                  /\ wish' \in {Over(Wanted(call), wish),
                               Without(wish, DOMAIN Wanted(call))}
  BY DEF Command
<1>3. TypeOK /\ {"command"} \in SUBSET Event
  BY DEF IInv, Event
<1>4. \A m \in DOMAIN sent' : m \in Message /\ sent'[m] \in Entity!Value(m)
  BY <1>1, SentValue DEF IInv, Command
<1>5. /\ device' = [m \in Message |-> device'[m]]
      /\ \A m \in Message : device'[m] \in Entity!Value(m)
      /\ spent' \in [DOMAIN Bound -> Nat]
      /\ \A e \in DOMAIN Bound : spent'[e] <= Bound[e]
  BY <1>2, <1>3, <1>4, Transmission
<1>6. /\ since' = since \cup {"command"}
      /\ UNCHANGED <<sync_count_, armed, rx>>
      /\ ready /\ ready' = ready
  BY DEF Command, Entity!Control
<1>7. DOMAIN wish' \subseteq Message
  <2>1. DOMAIN Wanted(call) \subseteq Message /\ DOMAIN wish \subseteq Message
    BY <1>3 DEF Wanted, TypeOK
  <2>2. QED
    BY <1>2, <2>1 DEF Without, Over
<1>8. TypeOK'
  BY <1>3, <1>5, <1>6, <1>7 DEF TypeOK, Bound
<1>9. Repairing'
  BY <1>6 DEF Repairing, IInv
<1>10. QED
  BY <1>1, <1>8, <1>9 DEF IInv

\* What a register holds makes a frame.
LEMMA FrameOfRegister ==
  ASSUME NEW m \in Message, NEW v \in Entity!Value(m)
  PROVE  <<m, v>> \in Frame
  BY DEF Frame, FrameOf, Message, Entity!Message

\* A frame carries the value of a register.
LEMMA RegisterOfFrame ==
  ASSUME NEW f \in Frame
  PROVE  f[1] \in Message /\ f[2] \in Entity!Value(f[1])
  BY DEF Frame, FrameOf, Message, Entity!Message

\* A broadcast touches nothing but the line.
LEMMA BroadcastStep ==
  ASSUME IInv, NEW m \in Broadcasts, Broadcast(m)
  PROVE  IInv'
<1>1. Entity!IInv'
  BY EntityStep DEF IInv, Broadcast
<1>2. TypeOK'
  <2>1. rx \in Seq(Frame) /\ <<m, device[m]>> \in Frame
    BY FrameOfRegister, EntityAssumption DEF IInv, TypeOK
  <2>2. /\ rx' \in Seq(Frame)
        /\ Len(rx') = Len(rx) + 1
    BY <2>1, AppendProperties DEF Broadcast
  <2>3. Len(rx') <= MaxRx
    BY <2>1, <2>2, LenProperties, BoundsAssumption DEF Broadcast
  <2>4. QED
    BY <2>2, <2>3 DEF Broadcast, IInv, TypeOK, Bound
<1>3. Repairing'
  BY DEF Broadcast, entityVars, IInv, Repairing, InAgreement, Entity!Registers
<1>4. QED
  BY <1>1, <1>2, <1>3 DEF IInv

\* A thermostat is found with values of its registers, and changed to such.
LEMMA DeviceStateValues ==
  ASSUME NEW d \in DeviceState
  PROVE  /\ d = [m \in Message |-> d[m]]
         /\ \A m \in Message : d[m] \in Entity!Value(m)
<1>1. /\ \A m : Entity!climate_mode_to_device(m) \in Entity!DeviceMode
      /\ \A f : Entity!climate_fan_to_device(f) \in Entity!DeviceFan
      /\ "Auto" \in Entity!DeviceMode /\ "Auto" \in Entity!DeviceFan
  BY DEF Entity!climate_mode_to_device, Entity!DeviceMode,
         Entity!climate_fan_to_device, Entity!DeviceFan
<1>2. DefaultRegisters.TargetTemperature \in Nat /\ Readings \subseteq Nat
  <2>1. /\ Proofs!TemperatureAssumption
        /\ Readings \subseteq Nat /\ DEFAULT_TARGET_TEMPERATURE \in Nat
    BY EntityAssumptions DEF Proofs!TemperatureAssumption
  <2>2. Proofs!ToTenths(DEFAULT_TARGET_TEMPERATURE) \in Nat
    BY <2>1, EntityAssumptions, Proofs!TenthsNatural
  <2>3. QED
    BY <2>1, <2>2, SameConversions DEF DefaultRegisters
<1>3. /\ d.TargetTemperature \in Nat
      /\ d.Power \in BOOLEAN
      /\ d.Mode \in Entity!DeviceMode
      /\ d.FanSpeed \in Entity!DeviceFan
  BY <1>1, <1>2 DEF DeviceState
<1>4. d = [m \in Message |-> d[m]]
  BY DEF DeviceState, Message, Entity!Message
<1>5. QED
  BY <1>3, <1>4 DEF Entity!Value, Message, Entity!Message

\* A change at the panel touches the device.
LEMMA PanelStep ==
  ASSUME IInv, NEW m \in Broadcasts, Panel(m)
  PROVE  IInv'
<1>1. Entity!IInv'
  BY EntityStep DEF IInv, Panel
<1>2. TypeOK /\ m \in Message
  BY EntityAssumption DEF IInv
<1>3. PICK d \in DeviceState : device' = [device EXCEPT ![m] = d[m]]
  BY DEF Panel
<1>4. d[m] \in Entity!Value(m)
  BY <1>2, DeviceStateValues
<1>5. /\ device' = [x \in Message |-> device'[x]]
      /\ \A x \in Message : device'[x] \in Entity!Value(x)
  BY <1>2, <1>3, <1>4 DEF TypeOK
<1>6. /\ spent' \in [DOMAIN Bound -> Nat]
      /\ \A e \in DOMAIN Bound : spent'[e] <= Bound[e]
  <2>1. {"panel"} \in SUBSET Event /\ Spend({"panel"})
    BY DEF Panel, Event
  <2>2. QED
    BY <1>2, <2>1, Spending
<1>7. TypeOK'
  BY <1>2, <1>5, <1>6 DEF Panel, TypeOK, Bound, Without
<1>8. Repairing'
  BY DEF Panel, entityVars, IInv, Repairing
<1>9. QED
  BY <1>1, <1>7, <1>8 DEF IInv

\* A broadcast that is taken in touches the entity.
LEMMA ReceiveStep ==
  ASSUME IInv, Receive
  PROVE  IInv'
<1>1. rx \in Seq(Frame) /\ rx # <<>>
  BY DEF IInv, TypeOK, Receive
<1>2. Head(rx) \in Frame /\ rx' \in Seq(Frame) /\ Len(rx') = Len(rx) - 1
  BY <1>1, HeadTailProperties DEF Receive
<1>3. Entity!IInv'
  BY <1>2, RegisterOfFrame, EntityStep DEF IInv, Receive
<1>4. TypeOK'
  <2>1. Len(rx') <= MaxRx
    BY <1>1, <1>2, LenProperties, BoundsAssumption DEF IInv, TypeOK
  <2>2. QED
    BY <1>2, <2>1 DEF Receive, IInv, TypeOK, Bound
<1>5. ready' = ready
  BY DEF Receive, Entity!Reflect, Entity!PublishCurrentTemperature,
         Entity!PublishTargetTemperature, Entity!PublishPower,
         Entity!PublishMode, Entity!PublishFanSpeed
<1>6. Repairing'
  BY <1>5 DEF Receive, IInv, Repairing
<1>7. QED
  BY <1>3, <1>4, <1>6 DEF IInv

LEMMA FlushStep ==
  ASSUME IInv, Flush
  PROVE  IInv'
<1>1. Entity!IInv'
  BY EntityStep DEF IInv, Flush
<1>2. TypeOK'
  BY DEF Flush, IInv, TypeOK, Bound
<1>3. Repairing'
  BY DEF Flush, Entity!Flush, Entity!shown, IInv, Repairing, InAgreement,
         Entity!Registers
<1>4. QED
  BY <1>1, <1>2, <1>3 DEF IInv

LEMMA RebootStep ==
  ASSUME IInv, Reboot
  PROVE  IInv'
<1>1. Entity!IInv'
  BY EntityStep DEF IInv, Reboot
<1>2. TypeOK'
  <2>1. TypeOK /\ {"reboot"} \in SUBSET Event /\ Spend({"reboot"})
    BY DEF IInv, Reboot, Event
  <2>2. /\ spent' \in [DOMAIN Bound -> Nat]
        /\ \A e \in DOMAIN Bound : spent'[e] <= Bound[e]
    BY <2>1, Spending
  <2>3. rx' \in Seq(Frame) /\ Len(rx') <= MaxRx
    BY BoundsAssumption, EmptySeq DEF Reboot
  <2>4. 0 \in 0 .. SYNC_REPEAT_COUNT /\ DOMAIN Entity!Nothing \subseteq Message
    BY WindowAssumption DEF Entity!Nothing
  <2>5. QED
    BY <2>1, <2>2, <2>3, <2>4 DEF Reboot, TypeOK, Bound
<1>3. Repairing'
  BY DEF Reboot, Entity!Reboot, Repairing
<1>4. QED
  BY <1>1, <1>2, <1>3 DEF IInv

LEMMA Initially == Init => IInv
<1> SUFFICES ASSUME Init
             PROVE  IInv
  OBVIOUS
<1>1. Entity!IInv
  BY SameInit, SameIInv, EntityAssumptions, Proofs!Initially DEF Init
<1>2. TypeOK
  <2>1. device \in DeviceState
    BY DEF Init
  <2>2. /\ device = [m \in Message |-> device[m]]
        /\ \A m \in Message : device[m] \in Entity!Value(m)
    BY <2>1, DeviceStateValues
  <2>3. rx \in Seq(Frame) /\ Len(rx) <= MaxRx
    BY BoundsAssumption, EmptySeq DEF Init
  <2>4. /\ spent \in [DOMAIN Bound -> Nat]
        /\ \A e \in DOMAIN Bound : spent[e] <= Bound[e]
    BY EventBounds DEF Init
  <2>5. /\ 0 \in 0 .. SYNC_REPEAT_COUNT
        /\ DOMAIN Entity!Nothing \subseteq Message
    BY WindowAssumption DEF Entity!Nothing
  <2>6. QED
    BY <2>2, <2>3, <2>4, <2>5 DEF Init, TypeOK
<1>3. Repairing
  BY DEF Init, Entity!Init, Repairing
<1>4. QED
  BY <1>1, <1>2, <1>3 DEF IInv

LEMMA Inductive == IInv /\ [Next]_vars => IInv'
<1> SUFFICES ASSUME IInv, [Next]_vars
             PROVE  IInv'
  OBVIOUS
<1>1. CASE UNCHANGED vars
  <2>1. Entity!IInv'
    BY <1>1, EntityStep DEF vars, IInv
  <2>2. TypeOK'
    BY <1>1 DEF vars, IInv, TypeOK, Bound
  <2>3. Repairing'
    BY <1>1 DEF vars, entityVars, IInv, Repairing, InAgreement, Entity!Registers
  <2>4. QED
    BY <2>1, <2>2, <2>3 DEF IInv
<1>2. CASE Boot
  BY <1>2, BootStep
<1>3. CASE SyncIteration
  BY <1>3, RoundStep
<1>4. CASE \E call \in Entity!Call : Command(call)
  BY <1>4, CommandStep
<1>5. CASE \E m \in Broadcasts : Broadcast(m) \/ Panel(m)
  BY <1>5, BroadcastStep, PanelStep
<1>6. CASE Receive
  BY <1>6, ReceiveStep
<1>7. CASE Flush
  BY <1>7, FlushStep
<1>8. CASE Reboot
  BY <1>8, RebootStep
<1>9. QED
  BY <1>1, <1>2, <1>3, <1>4, <1>5, <1>6, <1>7, <1>8 DEF Next

\* In every reachable state the entity's parts agree, the timer runs until the
\* last round, and a device that nobody touched since the boot differs from the
\* entity only if more transmissions had losses than there were rounds.
THEOREM IInvariance == Spec => []IInv
  BY Initially, Inductive, PTL DEF Spec

(***************************************************************************)
(* The window.                                                             *)
(***************************************************************************)

\* The boot transmission and the rounds are one more than the losses they make
\* up for: when the window closes, device and entity look the same unless one of
\* them was touched, whatever was lost and whenever.
THEOREM WindowRepairs ==
  ASSUME MaxLosses <= SYNC_REPEAT_COUNT
  PROVE  Spec => []WindowRepairsLoss
<1>1. IInv => WindowRepairsLoss
  <2> SUFFICES ASSUME IInv, ready, ~ armed, since = {}
               PROVE  InAgreement
    BY DEF WindowRepairsLoss
  <2>1. /\ spent.loss \in Nat /\ spent.loss <= MaxLosses
        /\ sync_count_ \in 0 .. SYNC_REPEAT_COUNT
    BY EventBounds DEF IInv, TypeOK, Event
  <2>2. /\ ~ (sync_count_ < SYNC_REPEAT_COUNT)
        /\ InAgreement \/ spent.loss > sync_count_
    BY DEF IInv, Repairing
  <2>3. ~ (spent.loss > sync_count_)
    BY <2>1, <2>2, BoundsAssumption, WindowAssumption
  <2>4. QED
    BY <2>2, <2>3
<1>2. QED
  BY <1>1, IInvariance, PTL
=============================================================================
