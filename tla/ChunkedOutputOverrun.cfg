SPECIFICATION Spec
CONSTANTS
  MinBuffer = 3
  ThresholdBound = 8
  StreamSize = 5
  InitialSizes = {4}
  ChunkSizes = {1}
  Requests = {1, 2}
  WriteSizes = {1, 2}
INVARIANTS
  StaysInChunk
CHECK_DEADLOCK FALSE
