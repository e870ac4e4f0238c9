SPECIFICATION BridgeSpec
CONSTANTS
  Addresses = {0, 1, 5, 6}
  Octet = {b0, b1, b2}
  ZeroOctet = b0
INVARIANTS BridgeTypeOK OneStrobePerRequest DataHeldForPush StrobesApart ReadReturns
PROPERTY EveryRequestAnswered
