CONSTANTS
  Fine = 2
  NaN = NaN
  Setpoints = {1}
  Readings = {0}
  Modes = {"OFF", "HEAT", "COOL", "HEAT_COOL"}
  Fans = {"LOW", "HIGH"}
  DEFAULT_TARGET_TEMPERATURE = 4

SPECIFICATION Spec

INVARIANT IInv
INVARIANT EchoSettles
PROPERTY CommandCovers
PROPERTY SyncCovers
PROPERTY RestoreExact
