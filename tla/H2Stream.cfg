SPECIFICATION FairSpec
CONSTANTS
  Kinds <- MCAllKinds
  Total = 8
  MaxWrite = 3
  MaxRead = 2
  HeadLen = 2
  MaxFrame = 3
  Window = 6
PROPERTIES
  PipeSpec
  AllArrives
CHECK_DEADLOCK FALSE
