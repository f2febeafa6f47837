CONSTANTS
  Base = 3
  AUP_MAGIC1 = 1
  AUP_MAGIC2 = 2
  Frames <- MCFrames
  MaxFaults = 2

SPECIFICATION LiveSpec

INVARIANT IInv
INVARIANT CleanDelivers
INVARIANT CleanKeepsSync
PROPERTY Resync
