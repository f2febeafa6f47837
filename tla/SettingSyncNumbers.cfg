CONSTANTS
  Numbers = {"TemperatureOffset", "SwitchingDiffHeat"}
  Selects = {}
  Restored = {}
  MaxRx = 1
  MaxCommands = 1
  MaxAutomations = 1
  MaxPanel = 1
  MaxLosses = 0
  MaxReboots = 1
  Fine = 2
  initial_value_ <- MCInitialValue
  option_bytes_ <- MCOptionBytes
  initial_index_ <- MCInitialIndex
  Values <- MCValues
  Registers <- MCRegisters
  SYNC_REPEAT_COUNT = 2

SPECIFICATION LiveSpec

INVARIANT NothingInvented
INVARIANT RebootReturnsCommand
PROPERTY Converges
