SPECIFICATION Spec
CONSTANTS
  Heads <- MCHeads
  Word = 64
  MaxUnits = 5
  MaxDepth = 4
INVARIANTS
  TypeOK
  CopyIsExact
  EndsAtItemEnd
  RefusesOnlyMalformed
PROPERTIES
  WalkEnds
CHECK_DEADLOCK FALSE
