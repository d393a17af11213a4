SPECIFICATION FairSpec
CONSTANTS
  Srcs = {s1}
  AddrConns = {a1}
  MaxSent = 3
  RxCap = 1
  AcceptCap = 1
  None = None
PROPERTY ListenerServes
CHECK_DEADLOCK FALSE
