SPECIFICATION FairSpec
CONSTANTS
  Conns = {c1}
  MaxChunks = 2
  RecCap = 1
PROPERTIES
  OneEndsBothEnd
  SilentRelayEnds
  RegistrySpec
CHECK_DEADLOCK FALSE
