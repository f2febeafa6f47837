CONSTANTS
  Base = 3
  AUP_MAGIC1 = 1
  AUP_MAGIC2 = 2
  MaxLength = 4

SPECIFICATION LiveSpec

INVARIANT IInv
PROPERTY ConsumeFeeds
PROPERTY ImplementsFraming
PROPERTY AcceptedMarkerDelivers
