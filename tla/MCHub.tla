-------------------------------- MODULE MCHub --------------------------------
(* A configuration of Hub and the values of its registers.                 *)
EXTENDS Hub

\* The configuration of example.yaml but for most of the settings.
MCDisabled == {"t2", "switching_diff_heat", "switching_diff_cool",
               "changeover_heat", "changeover_cool", "system_mode"}

MCValues == [n \in Numbers |-> {-15}]

\* Setpoint and display unit may be found changed; unit 9 is no option.
MCPossible ==
  [r \in Register |->
     CASE r = "TargetTemperature" -> {200}
       [] r = "Power"       -> {TRUE}
       [] r = "Mode"        -> {"Auto"}
       [] r = "FanSpeed"    -> {"Auto"}
       [] r = "DisplayUnit" -> {2, 9}
       [] r \in DOMAIN MessageId \ Selects -> {0}]

\* A register's frame becomes another's, or a message without an entity.
MCNoise == {<<"DisplayUnit", 3>>, <<"SystemMode", 1>>}

MCMeasured == {[t1 |-> 190, t2 |-> 200]}

MCAnnounced == {"Temperature", "TargetTemperature", "DisplayUnit"}
=============================================================================
