SPECIFICATION FairSpec
CONSTANTS
  Srcs = {s1, s2}
  AddrConns = {a1, a2}
  MaxSent = 3
  RxCap = 1
  AcceptCap = 1
  None = None
INVARIANTS
  EntryIsUnclosed
  StreamUnbroken
PROPERTY ListenerReturns
CHECK_DEADLOCK FALSE
