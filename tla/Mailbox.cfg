SPECIFICATION Spec
CONSTANTS
  Order = 7
  EvenY <- MCEvenY
  TapTweak <- MCTapTweak
  Bech32m <- MCBech32m
  Char <- MCChar
  NUL = 0
  Bar = 20
  Canonical <- MCCanonical
  Decimal <- MCDecimal
  Version <- MCVersion
  Unsigned <- MCUnsigned
  Card <- MCCard
  hello = hello
  bye = bye
  Relay = {y1, y2}
  Alice = 2
  Bob = 1
  Network = "mainnet"
  Overlap = 1
  Delay = 1
  MaxClock = 2
  MaxCalls = 3
SYMMETRY Relays
CHECK_DEADLOCK FALSE
INVARIANTS NothingLost FreshCardIsFound SignedIsAccepted AcceptedIsSigned
PROPERTIES StopSilences
