CONSTANTS
  Numbers = {}
  Selects = {"SystemMode", "DisplayUnit"}
  Restored = {"SystemMode"}
  MaxRx = 1
  MaxCommands = 1
  MaxAutomations = 0
  MaxPanel = 1
  MaxLosses = 1
  MaxReboots = 1
  Fine = 2
  initial_value_ <- MCInitialValue
  option_bytes_ <- MCOptionBytes
  initial_index_ <- MCInitialIndex
  Values <- MCValues
  Registers <- MCRegisters
  SYNC_REPEAT_COUNT = 2

SPECIFICATION LiveSpec

INVARIANT IInv
INVARIANT WindowRepairsLoss
INVARIANT NothingInvented
INVARIANT RebootReturnsCommand
PROPERTY Converges
