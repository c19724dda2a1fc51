SPECIFICATION Spec
CONSTANTS
  MinBuffer = 3
  ThresholdBound = 8
  StreamSize = 9
  InitialSizes = {0, 7}
  ChunkSizes = {3, 5}
  Requests = {1, 3, 8}
  WriteSizes = {1, 2, 5}
INVARIANTS
  TypeOK
  Faithful
  SyncDurable
  EosMeansFull
  GrantedOrAtEnd
PROPERTIES
  ImplementsByteSink
  EveryCallReturns
CHECK_DEADLOCK FALSE
