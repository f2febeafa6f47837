----------------------------- MODULE SettingSync -----------------------------
(***************************************************************************)
(* The setting entities, the hub's post-boot rebroadcast window and the    *)
(* thermostat that owns the settings.                                      *)
(*                                                                         *)
(* As in ClimateSync either side may change a setting and the other learns *)
(* of it by a message.  What differs: only commands reach flash, so the    *)
(* values the window re-sends after a boot are those of the last command,  *)
(* or the configured initial ones; a select without restore sends nothing  *)
(* before the device has spoken; and the device may hold a byte that no    *)
(* option stands for.                                                      *)
(*                                                                         *)
(* Automations may command an entity while another call still publishes:   *)
(* within another command, or at boot while only some entities are set up. *)
(***************************************************************************)
EXTENDS Integers, Sequences

CONSTANTS
  Fine, Numbers, Selects, Restored, Values, initial_value_, option_bytes_,
  initial_index_,
  SYNC_REPEAT_COUNT,  \* rounds of the rebroadcast window
  Registers,          \* bound: what the device may hold, for every setting
  MaxRx,              \* bound: broadcasts in flight
  MaxCommands,        \* bound: Home Assistant commands
  MaxAutomations,     \* bound: commands of automations within other calls
  MaxPanel,           \* bound: changes at the device
  MaxLosses,          \* bound: transmissions with a lost message
  MaxReboots          \* bound: reboots

VARIABLES
  unset, calls, state, queued, flash, sent,   \* the entities
  sync_count_,   \* rounds of the window done since the last boot
  armed,         \* the "sync" interval timer is running
  device,        \* the settings of the thermostat
  rx,            \* broadcasts on their way to the entities
  spent,         \* how often each bounded event has happened
  quiet,         \* history: the settings nobody has touched since the boot
  sources,       \* history: the wire values somebody chose, for every setting
  asked,         \* history: the last command to each entity since it was set
                 \* up or, before any, the one that had reached flash; optional
  kept,          \* history: the same, as of the last write to flash
  overlapped     \* history: the entities ever commanded within a command to them

entityVars == <<unset, calls, state, queued, flash, sent>>
vars == <<entityVars, sync_count_, armed, device, rx, spent, quiet, sources,
          asked, kept, overlapped>>

Entities == INSTANCE SettingEntities

Setting == Entities!Setting

ASSUME WindowAssumption == SYNC_REPEAT_COUNT \in Nat \ {0}
ASSUME SettingAssumption == Entities!ConfigurationOK
ASSUME RegistersAssumption == \A e \in Setting : Registers[e] \subseteq Int
ASSUME BoundsAssumption ==
  /\ MaxCommands \in Nat /\ MaxAutomations \in Nat /\ MaxPanel \in Nat
  /\ MaxLosses \in Nat /\ MaxReboots \in Nat /\ MaxRx \in Nat

ready == Entities!ready

Bound == [command |-> MaxCommands, automation |-> MaxAutomations,
          panel |-> MaxPanel, loss |-> MaxLosses, reboot |-> MaxReboots]

Spend(events) ==
  /\ \A e \in events : spent[e] < Bound[e]
  /\ spent' = [e \in DOMAIN spent |->
                 IF e \in events THEN spent[e] + 1 ELSE spent[e]]

\* What an entity in state s would transmit, as a set of at most one value.
Wire(e, s) == Entities!Wire(e, s)

\* The value an entity is configured with: a restored select or a number sends
\* it on its own account.
Configured(e) ==
  CASE e \in Numbers  -> {Entities!ToTenths(initial_value_[e])}
    [] e \in Restored -> {option_bytes_[e][initial_index_[e]]}
    [] OTHER          -> {}

Init ==
  /\ Entities!Init
  /\ sync_count_ = 0
  /\ armed = FALSE
  /\ device \in [Setting -> UNION {Registers[e] : e \in Setting}]
  /\ \A e \in Setting : device[e] \in Registers[e]
  /\ rx = <<>>
  /\ spent = [e \in DOMAIN Bound |-> 0]
  /\ quiet = Setting
  /\ sources = [e \in Setting |->
                  {device[e]} \cup Configured(e)
                  \cup IF e \in Entities!Persistent THEN Wire(e, flash[e]) ELSE {}]
  /\ asked = [e \in Setting |-> <<>>]
  /\ kept = asked
  /\ overlapped = {}

\* The device takes over the messages just sent, but for the lost ones.
Transmit(lost, events) ==
  /\ device' = [e \in Setting |-> IF e \in DOMAIN sent' \ lost THEN sent'[e]
                                  ELSE device[e]]
  /\ Spend(events \cup (IF lost = {} THEN {} ELSE {"loss"}))

\* The entities are set up one after the other, in an order that ESPHome
\* chooses, after the hub, whose setup() starts the timer.
Boot(e) ==
  /\ Entities!Setup(e)
  /\ armed' = TRUE
  /\ quiet' = quiet \cup {e}
  /\ UNCHANGED <<sync_count_, device, rx, spent, sources, asked, kept, overlapped>>

\* A fault: rounds are not counted, so the timer is never cancelled.
SyncIterationForEver ==
  /\ armed
  /\ Entities!SyncToDevice
  /\ \E lost \in SUBSET DOMAIN sent' : Transmit(lost, {})
  /\ UNCHANGED <<sync_count_, armed, rx, quiet, sources, asked, kept, overlapped>>

\* A fault: the window leaves out the selects.
SyncIterationNumbersOnly ==
  /\ armed
  /\ ready
  /\ sent' = Entities!Messages([n \in Numbers |-> state[n]])
  /\ UNCHANGED <<unset, calls, state, queued, flash>>
  /\ \E lost \in SUBSET DOMAIN sent' : Transmit(lost, {})
  /\ sync_count_' = sync_count_ + 1
  /\ armed' = (sync_count_' < SYNC_REPEAT_COUNT)
  /\ UNCHANGED <<rx, quiet, sources, asked, kept, overlapped>>

\* sync_iteration_(): the timer fires.
SyncIteration ==
  /\ armed
  /\ Entities!SyncToDevice
  /\ \E lost \in SUBSET DOMAIN sent' : Transmit(lost, {})
  /\ sync_count_' = sync_count_ + 1
  /\ armed' = (sync_count_' < SYNC_REPEAT_COUNT)
  /\ UNCHANGED <<rx, quiet, sources, asked, kept, overlapped>>

\* The commands to e that are being carried out.
Commands(e) == {i \in DOMAIN calls : calls[i].kind = "control" /\ calls[i].entity = e}

\* Before setup() there is nothing that could keep a command.
Command(e, value) ==
  /\ Entities!Control(e, value)
  /\ \E lost \in SUBSET DOMAIN sent' :
       Transmit(lost, {IF calls = <<>> THEN "command" ELSE "automation"})
  /\ quiet' = quiet \ {e}
  /\ sources' = [sources EXCEPT ![e] = @ \cup Wire(e, <<value>>)]
  /\ asked' = IF e \in unset THEN asked ELSE [asked EXCEPT ![e] = <<value>>]
  /\ overlapped' = overlapped \cup IF e \in unset \/ Commands(e) = {} THEN {} ELSE {e}
  /\ UNCHANGED <<sync_count_, armed, rx, kept>>

\* A setup() or control() call goes on after its publish_state().
Return ==
  /\ Entities!Return
  /\ \E lost \in SUBSET DOMAIN sent' : Transmit(lost, {})
  /\ UNCHANGED <<sync_count_, armed, rx, quiet, sources, asked, kept, overlapped>>

\* The device broadcasts one of its settings.
Broadcast(e) ==
  /\ Len(rx) < MaxRx
  /\ rx' = Append(rx, <<e, device[e]>>)
  /\ UNCHANGED <<entityVars, sync_count_, armed, device, spent, quiet, sources,
                 asked, kept, overlapped>>

\* loop() takes the oldest broadcast in.
Receive ==
  /\ rx # <<>>
  /\ Entities!Reflect(Head(rx)[1], Head(rx)[2])
  /\ rx' = Tail(rx)
  /\ quiet' = quiet \ {Head(rx)[1]}
  /\ UNCHANGED <<sync_count_, armed, device, spent, sources, asked, kept, overlapped>>

\* Somebody changes a setting at the device.
Panel(e) ==
  /\ Spend({"panel"})
  /\ \E x \in Registers[e] \ {device[e]} :
       /\ device' = [device EXCEPT ![e] = x]
       /\ sources' = [sources EXCEPT ![e] = @ \cup {x}]
  /\ quiet' = quiet \ {e}
  /\ UNCHANGED <<entityVars, sync_count_, armed, rx, asked, kept, overlapped>>

Flush ==
  /\ Entities!Flush
  /\ kept' = asked
  /\ UNCHANGED <<sync_count_, armed, device, rx, spent, quiet, sources, asked,
                 overlapped>>

\* Timer, queue and states are gone; so is what was not in flash yet.
Reboot ==
  /\ Spend({"reboot"})
  /\ Entities!Reboot
  /\ sync_count_' = 0
  /\ armed' = FALSE
  /\ rx' = <<>>
  /\ asked' = kept
  /\ UNCHANGED <<device, quiet, sources, kept, overlapped>>

Next ==
  \/ Return
  \/ SyncIteration
  \/ \E e \in Setting :
       \/ Boot(e)
       \/ \E value \in Entities!Callable(e) : Command(e, value)
       \/ Broadcast(e)
       \/ Panel(e)
  \/ Receive
  \/ Flush
  \/ Reboot

Spec == Init /\ [][Next]_vars

\* As in ClimateSync: ESPHome's scheduler is fair, and the device broadcasts
\* every setting again and again.
LiveSpec ==
  /\ Spec
  /\ WF_vars(\E e \in Setting : Boot(e))
  /\ WF_vars(Return)
  /\ WF_vars(SyncIteration)
  /\ WF_vars(Receive)
  /\ \A e \in Setting : SF_vars(Broadcast(e))

-----------------------------------------------------------------------------
(***************************************************************************)
(* Correctness.                                                            *)
(***************************************************************************)

\* The type of the state; a select shows one of its own options, whatever flash
\* held.
TypeOK ==
  /\ Entities!TypeOK
  /\ sync_count_ \in 0 .. SYNC_REPEAT_COUNT
  /\ armed \in BOOLEAN
  /\ device \in [Setting -> Int]
  /\ rx \in Seq(Setting \X Int) /\ Len(rx) <= MaxRx
  /\ DOMAIN spent = DOMAIN Bound
  /\ \A e \in DOMAIN Bound : spent[e] \in 0 .. Bound[e]
  /\ quiet \subseteq Setting
  /\ DOMAIN sources = Setting
  /\ \A e \in Setting : sources[e] \subseteq Int
  /\ DOMAIN asked = Setting /\ DOMAIN kept = Setting
  /\ \A e \in Setting : Entities!Shows(e, asked[e]) /\ Entities!Shows(e, kept[e])
  /\ overlapped \subseteq Setting

\* Wherever a value of a setting waits to be shown or sent, it was chosen for it.
Sourced ==
  /\ \A e \in Setting :
       /\ device[e] \in sources[e]
       /\ Configured(e) \cup Wire(e, state[e]) \subseteq sources[e]
  /\ \A e \in Entities!Persistent :
       Wire(e, queued[e]) \cup Wire(e, flash[e]) \subseteq sources[e]
  /\ \A i \in DOMAIN calls :
       Wire(calls[i].entity, calls[i].value) \subseteq sources[calls[i].entity]
  /\ \A i \in DOMAIN rx : rx[i][2] \in sources[rx[i][1]]

\* Until every entity is set up the window has had no round; every round that
\* fails to repair an untouched setting has cost a loss.
Repairing ==
  /\ unset # {} => sync_count_ = 0
  /\ armed => sync_count_ < SYNC_REPEAT_COUNT
  /\ unset # Setting => armed \/ sync_count_ = SYNC_REPEAT_COUNT
  /\ \A e \in quiet \ unset :
       Wire(e, state[e]) \subseteq {device[e]} \/ spent.loss >= sync_count_

\* What flash holds once all that was saved has been written.
Stored(e) == IF queued[e] # <<>> THEN queued[e] ELSE flash[e]

\* Where no command overlapped another, what was asked for last is in flash, on its
\* way there, or the argument of the command that is being carried out.
Remembered ==
  \A e \in Entities!Persistent \ overlapped :
    /\ kept[e] # <<>> => flash[e] = kept[e]
    /\ e \in unset => queued[e] = <<>> /\ asked[e] = kept[e]
    /\ (e \in unset \/ Commands(e) = {}) /\ asked[e] # <<>> =>
         asked[e] = Stored(e)
    /\ e \notin unset /\ Commands(e) # {} =>
         \E i \in DOMAIN calls : Commands(e) = {i} /\ asked[e] = calls[i].value
    /\ e \in quiet \ unset /\ asked[e] # <<>> => state[e] = asked[e]

\* The inductive invariant.
IInv == TypeOK /\ Sourced /\ Repairing /\ Remembered

\* The window makes up for lost transmissions (unilux_uart.cpp: "in case the MCU
\* missed the per-entity boot transmit"): a setting that nobody has touched since
\* the boot is the same on both sides when the window closes.
WindowRepairsLoss ==
  ready /\ ~ armed => \A e \in quiet : Wire(e, state[e]) \subseteq {device[e]}

\* Every value the device ever holds was chosen for that very setting: at the
\* device, by a command, by an earlier one in flash, or by the configuration.
\* No handler, in whatever order, turns one option or one setting into another.
NothingInvented == \A e \in Setting : device[e] \in sources[e]

ReturnsCommand(e) == asked[e] # <<>> => Wire(e, asked[e]) = {device[e]}

\* After a reboot the device returns to the value of the last command that had
\* reached flash, whatever was broadcast or changed at the device after it and
\* whatever automations commanded meanwhile, except where they commanded an entity
\* within a command to that very entity.
RebootReturnsCommand ==
  ready /\ ~ armed =>
    \A e \in (quiet \cap Entities!Persistent) \ overlapped : ReturnsCommand(e)

\* Entity and device come to agree once commands, changes, losses and reboots
\* stop, unless the device holds a byte that is no option.
Agreement ==
  /\ ready
  /\ \A e \in Setting :
       \/ Wire(e, state[e]) = {device[e]}
       \/ e \in Selects /\ ~ Entities!IsMapped(e, device[e])

Converges == <>[]Agreement

-----------------------------------------------------------------------------
(* What a comment of the code says and the code does not do.               *)

\* "Restore the last setpoint/mode/fan across reboots if one was saved"
\* (unilux_uart.cpp, of the climate entity): the numbers and selects, too, return
\* to what was commanded last, also if an automation did it within a command.
RebootReturnsLastCommand ==
  ready /\ ~ armed =>
    \A e \in quiet \cap Entities!Persistent : ReturnsCommand(e)
=============================================================================
