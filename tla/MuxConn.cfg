SPECIFICATION Spec
CONSTANTS
  Kinds = {"h2", "grpc", "quic"}
  Dials = {d1, d2, d3}
  Watched = {d1}
  MaxConns = 2
  Wrongs = {{d1}, {d2}}
  MaxCancels = 1
  Credit = 2
  None = None
INVARIANT SubCidsDistinct
PROPERTIES
  ConnectionKept
  DialsEnd
  GoodStreamsServed
CHECK_DEADLOCK FALSE
