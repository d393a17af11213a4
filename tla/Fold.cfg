SPECIFICATION FairSpec
CONSTANTS
  Inbounds = {1}
  Streams = {11, 12, 13}
  Chain <- MCChain
  Kinds = {"static", "finite", "infinite"}
  Script <- MCScript
  MaxStreams <- MCMaxStreams
  DealCap = 1
  GenCap = 1
INVARIANTS
  CidsDistinct
  MapsInOrder
  NoResultLost
PROPERTY LoopEnds
CHECK_DEADLOCK FALSE
