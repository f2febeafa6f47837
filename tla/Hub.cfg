CONSTANTS
  Disabled <- MCDisabled
  Values <- MCValues
  Possible <- MCPossible
  Noise <- MCNoise
  Announced <- MCAnnounced
  Measured <- MCMeasured
  Fine = 1
  NaN = NaN
  Setpoints = {215}
  Readings = {190, 200}
  Modes = {}
  Fans = {}
  DEFAULT_TARGET_TEMPERATURE = 210
  SYNC_REPEAT_COUNT = 2
  MaxRx = 1
  MaxCommands = 1
  MaxTroubles = 1

SPECIFICATION LiveSpec

INVARIANT IInv
INVARIANT ChannelsAgree
INVARIANT WindowRepairsLoss
PROPERTY IsMirror
PROPERTY Converges
