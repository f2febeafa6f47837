--------------------------- MODULE SettingEntities ---------------------------
(***************************************************************************)
(* UniluxNumber and UniluxSelect (esphome/components/unilux_uart): the     *)
(* installer settings of the thermostat as Home Assistant entities, with   *)
(* the part of the hub that routes their messages.                         *)
(*                                                                         *)
(* A number is a temperature and is transmitted in whole tenths.  A select *)
(* is a choice among options; option_bytes_ pairs every option with the    *)
(* byte that stands for it on the wire.  Both keep the value of the last   *)
(* command in flash, the select only if it is one of `Restored`.           *)
(*                                                                         *)
(* publish_state() runs the user's automations before it returns; these    *)
(* may command any entity, the publishing one included.  What setup() and  *)
(* control() still have to do then waits in `calls`, a stack.              *)
(*                                                                         *)
(* An entity and the message it is bound to carry the same name (msg_id_). *)
(* `sent` holds what the last handler transmitted, as a function from      *)
(* message to value on the wire: no handler sends a message twice.  An     *)
(* option is its index, counted from 1.  An optional value is <<>> or      *)
(* <<value>>; a number's missing state is NaN in the code.                 *)
(***************************************************************************)
EXTENDS Integers, Sequences

CONSTANTS
  Fine,           \* how many steps of a float temperature make one tenth
  Numbers,        \* the number entities configured
  Selects,        \* the select entities configured
  Restored,       \* the selects with restore_ set
  Values,         \* bound: of every number, what commands ask for
  initial_value_, \* of every number
  option_bytes_,  \* of every select, a sequence of bytes
  initial_index_  \* of every restored select

\* The messages that send_temperature_setting and send_byte_setting know.
TemperatureSetting == {"TemperatureOffset", "SwitchingDiffHeat",
                       "SwitchingDiffCool", "ChangeoverHeat", "ChangeoverCool"}
ByteSetting == {"SystemMode", "DisplayUnit"}

\* What the code generation (__init__.py) guarantees; SettingSync assumes it.
ConfigurationOK ==
  /\ Fine \in Nat \ {0}
  /\ Numbers \subseteq TemperatureSetting
  /\ Selects \subseteq ByteSetting
  /\ Restored \subseteq Selects
  /\ \A n \in Numbers : Values[n] \subseteq Int /\ initial_value_[n] \in Int
  /\ \A s \in Selects :
       /\ option_bytes_[s] \in Seq(0 .. 255)
       /\ \A i, j \in 1 .. Len(option_bytes_[s]) :
            option_bytes_[s][i] = option_bytes_[s][j] => i = j
  /\ \A s \in Restored : initial_index_[s] \in 1 .. Len(option_bytes_[s])

VARIABLES
  unset,    \* the entities whose setup() has not run since the last reboot
  calls,    \* the setup() and control() calls now publishing, innermost last
  state,    \* of each entity, optional
  queued,   \* of each entity, optional: saved but not yet in flash
  flash,    \* of each entity, optional: what a reboot finds
  sent      \* what the last handler transmitted

vars == <<unset, calls, state, queued, flash, sent>>

Setting == Numbers \cup Selects
Persistent == Numbers \cup Restored

\* Between two handlers of the main loop.
ready == unset = {} /\ calls = <<>>

Optional(S) == {<<>>} \cup {<<x>> : x \in S}
Nothing == [m \in {} |-> <<>>]
When(condition, messages) == IF condition THEN messages ELSE Nothing

-----------------------------------------------------------------------------
(* Values and their form on the wire.                                      *)

\* static_cast<int16_t>(value * SCALE) drops the fraction, towards zero.
ToTenths(v) == IF v >= 0 THEN v \div Fine ELSE - ((- v) \div Fine)
FromTenths(tenths) == tenths * Fine

Indices(s) == 1 .. Len(option_bytes_[s])
IsMapped(s, byte) == \E i \in Indices(s) : option_bytes_[s][i] = byte

\* A fault: a byte stands for the option behind its own.
IndexOfOffByOne(s, byte) ==
  LET n == CHOOSE i \in Indices(s) : option_bytes_[s][i] = byte
  IN  (n % Len(option_bytes_[s])) + 1

\* The option that publish_byte finds for a byte.
IndexOf(s, byte) == CHOOSE i \in Indices(s) : option_bytes_[s][i] = byte

\* A fault: one case of the switch constructs its neighbour's message.
send_temperature_setting_mixed_up(m, v) ==
  When(m \in TemperatureSetting,
       [x \in {IF m = "SwitchingDiffHeat" THEN "TemperatureOffset" ELSE m}
          |-> ToTenths(v)])

\* The hub constructs and sends the message for a setting; it knows no other.
send_temperature_setting(m, v) ==
  When(m \in TemperatureSetting, [x \in {m} |-> ToTenths(v)])
send_byte_setting(m, byte) ==
  When(m \in ByteSetting, [x \in {m} |-> byte])

\* What sync_to_device() transmits for an entity in state s.
NumberMessage(n, s) ==
  IF s = <<>> THEN Nothing ELSE send_temperature_setting(n, s[1])
SelectMessage(e, s) ==
  IF s # <<>> /\ s[1] \in Indices(e)
  THEN send_byte_setting(e, option_bytes_[e][s[1]])
  ELSE Nothing

Message(e, s) == IF e \in Numbers THEN NumberMessage(e, s) ELSE SelectMessage(e, s)

\* The same as a set of at most one value, whatever s may be.
Wire(e, s) ==
  IF e \in Numbers THEN {ToTenths(x) : x \in {s[i] : i \in DOMAIN s}}
  ELSE {option_bytes_[e][i] : i \in {s[j] : j \in DOMAIN s} \cap Indices(e)}

\* The messages of all entities whose states s holds, each with its own name.
Messages(s) ==
  LET sending == {e \in DOMAIN s : Message(e, s[e]) # Nothing}
      carried == UNION {DOMAIN Message(e, s[e]) : e \in sending}
  IN  [m \in carried |->
         LET e == CHOOSE f \in sending : m \in DOMAIN Message(f, s[f])
         IN  Message(e, s[e])[m]]

-----------------------------------------------------------------------------
(* The handlers.                                                           *)

\* What flash may hold: nothing, or what this or another firmware has saved,
\* whose options may have been more.
Saveable(e) ==
  IF e \in Numbers THEN Optional(Values[e])
  ELSE Optional(1 .. Len(option_bytes_[e]) + 1)

Init ==
  /\ unset = Setting
  /\ calls = <<>>
  /\ state = [e \in Setting |-> <<>>]
  /\ queued = [e \in Persistent |-> <<>>]
  /\ \E f \in [Persistent -> UNION {Saveable(e) : e \in Persistent}] :
       /\ \A e \in Persistent : f[e] \in Saveable(e)
       /\ flash = f
  /\ sent = Nothing

NumberSetup(n) == IF flash[n] = <<>> THEN <<initial_value_[n]>> ELSE flash[n]

\* A fault: an index that other firmware saved is taken as it is.
SelectSetupUnchecked(s) ==
  CASE s \notin Restored -> state[s]
    [] s \in Restored /\ flash[s] = <<>> -> <<initial_index_[s]>>
    [] OTHER -> flash[s]

\* A select that is not restored waits for the device; an index saved by a
\* firmware with more options is replaced.
SelectSetup(s) ==
  CASE s \notin Restored -> state[s]
    [] s \in Restored /\ (flash[s] = <<>> \/ flash[s][1] \notin Indices(s)) ->
         <<initial_index_[s]>>
    [] OTHER -> flash[s]

Call(kind, e, value) == [kind |-> kind, entity |-> e, value |-> value]

\* setup() of one entity as far as publish_state(); a select that is not
\* restored returns at once.
Setup(e) ==
  /\ calls = <<>>
  /\ e \in unset
  /\ unset' = unset \ {e}
  /\ sent' = Nothing
  /\ UNCHANGED <<queued, flash>>
  /\ \/ /\ e \in Persistent
        /\ state' = [state EXCEPT ![e] = IF e \in Numbers THEN NumberSetup(e)
                                         ELSE SelectSetup(e)]
        /\ calls' = <<Call("setup", e, state'[e])>>
     \/ /\ e \notin Persistent
        /\ UNCHANGED <<calls, state>>

SyncToDevice ==
  /\ ready
  /\ sent' = Messages(state)
  /\ UNCHANGED <<unset, calls, state, queued, flash>>

\* ESPHome hands control() a value in range, or an existing option.
Callable(e) == IF e \in Numbers THEN Values[e] ELSE Indices(e)

\* A fault: what is saved is the value before the command.
ControlSavesOld(e, value) ==
  /\ ready \/ calls # <<>>
  /\ sent' = Message(e, <<value>>)
  /\ state' = [state EXCEPT ![e] = <<value>>]
  /\ calls' = Append(calls, Call("control", e, state[e]))
  /\ UNCHANGED <<unset, queued, flash>>

\* control() as far as publish_state(), called by Home Assistant between two
\* handlers or by an automation within one.
Control(e, value) ==
  /\ ready \/ calls # <<>>
  /\ sent' = Message(e, <<value>>)
  /\ state' = [state EXCEPT ![e] = <<value>>]
  /\ calls' = Append(calls, Call("control", e, <<value>>))
  /\ UNCHANGED <<unset, queued, flash>>

\* A fault: a call within another one saves nothing.
ReturnSavesOutermostOnly ==
  /\ calls # <<>>
  /\ calls' = SubSeq(calls, 1, Len(calls) - 1)
  /\ UNCHANGED <<unset, state, flash>>
  /\ LET call == calls[Len(calls)] IN
       \/ /\ call.kind = "setup"
          /\ sent' = Message(call.entity, state[call.entity])
          /\ UNCHANGED queued
       \/ /\ call.kind = "control"
          /\ sent' = Nothing
          /\ queued' = IF call.entity \in Persistent \ unset /\ Len(calls) = 1
                       THEN [queued EXCEPT ![call.entity] = call.value]
                       ELSE queued

\* publish_state() returns: setup() goes on with sync_to_device(), control() saves
\* its own argument.  Before setup() has made it, pref_ saves nothing.
Return ==
  /\ calls # <<>>
  /\ calls' = SubSeq(calls, 1, Len(calls) - 1)
  /\ UNCHANGED <<unset, state, flash>>
  /\ LET call == calls[Len(calls)] IN
       \/ /\ call.kind = "setup"
          /\ sent' = Message(call.entity, state[call.entity])
          /\ UNCHANGED queued
       \/ /\ call.kind = "control"
          /\ sent' = Nothing
          /\ queued' = IF call.entity \in Persistent \ unset
                       THEN [queued EXCEPT ![call.entity] = call.value]
                       ELSE queued

\* A fault: what is received is transmitted in return.
ReflectEchoes(e, wire) ==
  /\ ready
  /\ \/ /\ e \in Numbers
        /\ state' = [state EXCEPT ![e] = <<FromTenths(wire)>>]
     \/ /\ e \in Selects
        /\ IsMapped(e, wire)
        /\ state' = [state EXCEPT ![e] = <<IndexOf(e, wire)>>]
     \/ /\ e \in Selects
        /\ ~ IsMapped(e, wire)
        /\ UNCHANGED state
  /\ sent' = Message(e, state'[e])
  /\ UNCHANGED <<unset, calls, queued, flash>>

\* publish_number_, publish_select_: a message reaches the entity bound to it.
\* A byte no option stands for is logged and otherwise ignored.
Reflect(e, wire) ==
  /\ ready
  /\ \/ /\ e \in Numbers
        /\ state' = [state EXCEPT ![e] = <<FromTenths(wire)>>]
     \/ /\ e \in Selects
        /\ IsMapped(e, wire)
        /\ state' = [state EXCEPT ![e] = <<IndexOf(e, wire)>>]
     \/ /\ e \in Selects
        /\ ~ IsMapped(e, wire)
        /\ UNCHANGED state
  /\ sent' = Nothing
  /\ UNCHANGED <<unset, calls, queued, flash>>

\* From time to time ESPHome writes what was saved, if anything was, to flash.
Flush ==
  /\ ready
  /\ flash' = [e \in Persistent |-> IF queued[e] = <<>> THEN flash[e]
                                    ELSE queued[e]]
  /\ queued' = [e \in Persistent |-> <<>>]
  /\ sent' = Nothing
  /\ UNCHANGED <<unset, calls, state>>

\* At any time, within a handler too.
Reboot ==
  /\ unset # Setting
  /\ unset' = Setting
  /\ calls' = <<>>
  /\ state' = [e \in Setting |-> <<>>]
  /\ queued' = [e \in Persistent |-> <<>>]
  /\ sent' = Nothing
  /\ UNCHANGED flash

-----------------------------------------------------------------------------
\* v is an optional element of S, a set that TLC need not enumerate.
IsOptional(v, S) == v = <<>> \/ (v = <<v[1]>> /\ v[1] \in S)

\* What an entity may show: a number any float, a select one of its options.
Shows(e, v) == IsOptional(v, IF e \in Numbers THEN Int ELSE Indices(e))

\* The type of the entities' state.
TypeOK ==
  /\ unset \subseteq Setting
  /\ calls \in Seq([kind : {"setup", "control"}, entity : Setting,
                    value : Seq(Int)])
  /\ \A i \in DOMAIN calls : Shows(calls[i].entity, calls[i].value)
  /\ DOMAIN state = Setting
  /\ \A e \in Setting : Shows(e, state[e])
  /\ DOMAIN queued = Persistent /\ DOMAIN flash = Persistent
  /\ \A e \in Persistent :
       /\ Shows(e, queued[e])
       /\ IsOptional(flash[e], Int)
  /\ DOMAIN sent \subseteq Setting
=============================================================================
