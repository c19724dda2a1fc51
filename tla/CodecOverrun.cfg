SPECIFICATION Spec
CONSTANTS
  PageSize = 4
  VoidSize = 10
  Junk = Junk
  Setups <- MCSetups
  Values <- MCValues
  Foreign <- MCForeign
  MaxCalls = 2
  Nesting <- MCNesting
  Level <- MCLevel
  Destinations <- MCDestinations
  Leftovers = {0, 255}
INVARIANTS
  StaysInArray
CHECK_DEADLOCK FALSE
