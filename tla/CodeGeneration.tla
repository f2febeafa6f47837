---------------------------- MODULE CodeGeneration ----------------------------
(***************************************************************************)
(* __init__.py: what ESPHome's code generation makes of a configuration.   *)
(*                                                                         *)
(* A configuration says of every channel, of the climate entity and of     *)
(* every setting whether it is disabled; the rest is fixed in two tables.  *)
(* The generated program constructs the enabled entities, tells them their *)
(* message id and values, and registers them with the hub.                 *)
(*                                                                         *)
(* Python knows a message by its id, the models by its name: MessageId is  *)
(* the C++ side of the pairing.  Temperatures are in tenths of a degree.   *)
(***************************************************************************)
EXTENDS Integers, Sequences

CONSTANTS
  Fine,      \* how many steps of a float temperature make one tenth
  Disabled   \* the keys configured with disabled: true

CHANNELS == {"t1", "t2"}

NUMBER_SETTINGS ==
  [temperature_offset |->
     [msg_id |-> 86, lo |-> -50, hi |-> 50, step |-> 5, initial_value |-> 0],
   switching_diff_heat |->
     [msg_id |-> 88, lo |-> 20, hi |-> 40, step |-> 5, initial_value |-> 20],
   switching_diff_cool |->
     [msg_id |-> 89, lo |-> 20, hi |-> 40, step |-> 5, initial_value |-> 20],
   changeover_heat |->
     [msg_id |-> 93, lo |-> 100, hi |-> 250, step |-> 5, initial_value |-> 180],
   changeover_cool |->
     [msg_id |-> 94, lo |-> 200, hi |-> 400, step |-> 5, initial_value |-> 230]]

\* Of every option the byte on the wire; indices count from 0 as in the code.
SELECT_SETTINGS ==
  [system_mode |->
     [msg_id |-> 35, options |-> <<0, 1, 2, 3>>, restore |-> TRUE,
      initial_index |-> 0],
   display_unit |->
     [msg_id |-> 44, options |-> <<2, 3>>, restore |-> FALSE,
      initial_index |-> 0]]

CONFIG_SCHEMA ==
  CHANNELS \cup {"climate"} \cup DOMAIN NUMBER_SETTINGS \cup DOMAIN SELECT_SETTINGS

ASSUME DisabledAssumption == Disabled \subseteq CONFIG_SCHEMA
ASSUME FineAssumption == Fine \in Nat \ {0}

-----------------------------------------------------------------------------
\* The ids of the settings' message types.
MessageId ==
  [TemperatureOffset |-> 86, SwitchingDiffHeat |-> 88, SwitchingDiffCool |-> 89,
   ChangeoverHeat |-> 93, ChangeoverCool |-> 94,
   SystemMode |-> 35, DisplayUnit |-> 44]

MessageOf(id) == CHOOSE m \in DOMAIN MessageId : MessageId[m] = id

-----------------------------------------------------------------------------
(* to_code().                                                              *)

Sensors == CHANNELS \ Disabled
HasClimate == "climate" \notin Disabled

\* The enabled rows of a table, each under the message its entity is bound to.
Generated(table) ==
  [m \in {MessageOf(table[k].msg_id) : k \in DOMAIN table \ Disabled} |->
     table[CHOOSE k \in DOMAIN table : table[k].msg_id = MessageId[m]]]

NumberEntities == Generated(NUMBER_SETTINGS)
SelectEntities == Generated(SELECT_SETTINGS)

Numbers == DOMAIN NumberEntities
Selects == DOMAIN SelectEntities
Restored == {s \in Selects : SelectEntities[s].restore}

initial_value_ == [n \in Numbers |-> NumberEntities[n].initial_value * Fine]
option_bytes_ == [s \in Selects |-> SelectEntities[s].options]
initial_index_ == [s \in Restored |-> SelectEntities[s].initial_index + 1]

\* The values a number may be commanded: ESPHome checks the limits, not the step.
Range_(n) == NumberEntities[n].lo * Fine .. NumberEntities[n].hi * Fine
=============================================================================
