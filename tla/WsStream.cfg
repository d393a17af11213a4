SPECIFICATION Spec
CONSTANTS
  Total = 7
  MaxFirst = 5
  MaxWrite = 3
  MaxRead = 2
  WireCap = 2
  MaxEarly = 3
  MaxHeader = 4
PROPERTIES
  PipeSpec
  WrittenArrives
CHECK_DEADLOCK FALSE
