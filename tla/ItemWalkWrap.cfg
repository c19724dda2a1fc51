SPECIFICATION Spec
CONSTANTS
  Heads <- WrappingHeads
  Word = 64
  MaxUnits = 4
  MaxDepth = 4
PROPERTIES
  WalkEnds
CHECK_DEADLOCK FALSE
