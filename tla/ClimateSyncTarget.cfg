CONSTANTS
  Fine = 2
  NaN = NaN
  Setpoints = {1}
  Readings = {0}
  Modes = {}
  Fans = {}
  DEFAULT_TARGET_TEMPERATURE = 4
  SYNC_REPEAT_COUNT = 2
  Broadcasts = {"TargetTemperature"}
  MaxRx = 2
  MaxCommands = 2
  MaxPanel = 1
  MaxLosses = 1
  MaxReboots = 1

SPECIFICATION LiveSpec

INVARIANT IInv
INVARIANT WindowRepairsLoss
PROPERTY Converges
PROPERTY CommandSticks
