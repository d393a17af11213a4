SPECIFICATION FairSpec
CONSTANTS
  Sessions <- MCSessions
  Cap = 48
  MaxCuts = 2
  PassLen = 3
  MinLen = 2
  TargetLen = 48
  Urls <- MCUrls
  Paths <- MCPaths
  Authorities <- MCAuthorities
  Selectors <- MCSelectors
  NoOut = NoOut
INVARIANTS
  AuthBeforeTarget
  TargetExact
  PayloadWhole
  FallbackWhole
  WholeMessagesServed
  ReservedRoute
  DatagramsIntact
PROPERTY HandshakeEnds
CHECK_DEADLOCK FALSE
