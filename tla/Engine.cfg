SPECIFICATION FairSpec
CONSTANTS
  Inbounds = {"udp"}
  Kind <- AllKinds
  Routes = {"tag_routes"}
  MaxRuns = 2
  Conns = {c1, c2}
INVARIANTS
  TypeOK
  RecordersCountTheirRuns
  CleanRunServes
PROPERTY ListenersStop
CHECK_DEADLOCK FALSE
