SPECIFICATION Spec
CONSTANTS
  PageSize = 4
  VoidSize = 10
  Junk = Junk
  Setups = {}
  Values <- MCValues
  Foreign <- MCNested
  MaxCalls = 2
  Nesting <- MCNesting
  Level <- MCLevel
  Destinations <- MCDestinations
  Leftovers = {0, 255}
INVARIANT ExactlyOneItem
CHECK_DEADLOCK FALSE
