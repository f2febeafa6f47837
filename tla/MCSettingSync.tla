---------------------------- MODULE MCSettingSync ----------------------------
(* The configured settings of SettingSync, on small value sets.            *)
EXTENDS SettingSync

\* Two options for each select; the device knows a byte beyond them.
MCOptionBytes == [SystemMode |-> <<0, 1>>, DisplayUnit |-> <<2, 3>>]
MCInitialIndex == [SystemMode |-> 1, DisplayUnit |-> 1]

\* In half tenths of a degree, like Values; Registers are in tenths.
MCInitialValue == [TemperatureOffset |-> 0, SwitchingDiffHeat |-> 40]

\* Within the range of the number, and between two tenths: below and above zero.
MCValues == [TemperatureOffset |-> {-3, 5}, SwitchingDiffHeat |-> {}]

MCRegisters ==
  [SystemMode |-> {0, 1, 9}, DisplayUnit |-> {3},
   TemperatureOffset |-> {1}, SwitchingDiffHeat |-> {30}]
=============================================================================
