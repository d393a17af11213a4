SPECIFICATION Spec
CONSTANTS
  Sessions <- MCSessions
  Cap = 48
  MaxCuts = 0
  PassLen = 3
  MinLen = 2
  TargetLen = 48
  Urls <- MCUrls
  Paths <- MCPaths
  Authorities <- MCAuthorities
  Selectors <- MCSelectors
  NoOut = NoOut
INVARIANT EarlyDataWasSent
CHECK_DEADLOCK FALSE
