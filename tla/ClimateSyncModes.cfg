CONSTANTS
  Fine = 2
  NaN = NaN
  Setpoints = {}
  Readings = {}
  Modes = {"OFF", "HEAT"}
  Fans = {}
  DEFAULT_TARGET_TEMPERATURE = 4
  SYNC_REPEAT_COUNT = 2
  Broadcasts = {"Power", "Mode"}
  MaxRx = 2
  MaxCommands = 2
  MaxPanel = 1
  MaxLosses = 1
  MaxReboots = 0

SPECIFICATION LiveSpec

INVARIANT WindowRepairsLoss
PROPERTY Converges
PROPERTY CommandSticks
