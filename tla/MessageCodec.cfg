CONSTANTS
  Base = 4
  Fine = 2
  Received <- MCReceived
  Composed <- MCComposed

SPECIFICATION Spec

INVARIANT IInv
INVARIANT EchoExact
PROPERTY Settles
PROPERTY CarriedVerbatim
