SPECIFICATION Spec
CONSTANTS
  PageSize = 4
  VoidSize = 10
  Junk = Junk
  Setups <- MCSetups
  Values <- MCValues
  Foreign <- MCForeign
  MaxCalls = 2
  Nesting <- MCNesting
  Level <- MCLevel
  Destinations <- MCDestinations
  Leftovers = {0, 255}
INVARIANTS
  TypeOK
  SizeExact
  RoomSuffices
  WrittenFaithful
  LegacyAtomic
  RoundTrip
  Backed
  NothingStale
  FailureContained
  LegacyInputAtomic
  ExactlyOneItem
CHECK_DEADLOCK FALSE
