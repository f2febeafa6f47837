CONSTANTS
  Base = 4
  Fine = 2
  Received <- MCReceived
  Composed <- MCComposed

SPECIFICATION Spec

PROPERTY AllConfigExactInverse
