SPECIFICATION Spec
CONSTANTS
  MinBuffer = 3
  Word = 64
  StreamSize = 9
  SupplySize = 9
  ChunkSizes = {1, 3, 5}
  Requests = {1, 2, 4, 5}
  Discards = {1, 3, 6}
  Reads = {1, 2, 6}
  RetryTorn = FALSE
  DiscardPast = FALSE
INVARIANTS
  TypeOK
  InOrder
  EosHonest
  RequireDelivers
  ReadAreaUnread
PROPERTIES
  ImplementsByteSource
  EveryCallReturns
CHECK_DEADLOCK FALSE
