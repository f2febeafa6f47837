CONSTANTS
  Fine = 2
  NaN = NaN
  Setpoints = {}
  Readings = {}
  Modes = {"OFF", "COOL"}
  Fans = {}
  DEFAULT_TARGET_TEMPERATURE = 4
  SYNC_REPEAT_COUNT = 2
  Broadcasts = {"Power", "Mode"}
  MaxRx = 1
  MaxCommands = 0
  MaxPanel = 1
  MaxLosses = 0
  MaxReboots = 0

SPECIFICATION Spec

INVARIANT ModeWasChosen
