CONSTANTS
  Flight = 3
  MaxTimeouts = 2
  MtuTimeouts = 1
  Mtu = 2
  FallbackMtu = 1
  MaxBlock = 2

SPECIFICATION FairSpec
INVARIANTS NoSpuriousFailure LastFlightKept
PROPERTY BothEnd
CHECK_DEADLOCK FALSE
