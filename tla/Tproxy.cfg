SPECIFICATION TproxyFairSpec
CONSTANTS
  Srcs = {k1}
  AddrConns = {a1, a2}
  MaxSent = 4
  RxCap = 1
  AcceptCap = 1
  None = None
  Lens = {1, 2}
  BufLen = 3
  MsgCap = 3
  MaxSentAfter = 1
  Opts <- TwoOptions
  MaxFaults = 1
  MaxCrashes = 1
INVARIANTS
  TproxyTypeOK
  DatagramsInOrder
  QueuedIntact
  OwnTrafficNeverLoops
  ListRestores
PROPERTY EndTogether
CHECK_DEADLOCK FALSE
