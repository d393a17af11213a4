SPECIFICATION Spec
CONSTANTS
  Conns = {c1, c2}
  MaxChunks = 1
  RecCap = 1
SYMMETRY Symm
INVARIANTS
  TypeOK
  AliveExact
  TrafficConserved
  UbIsUploadUntraced
CHECK_DEADLOCK FALSE
