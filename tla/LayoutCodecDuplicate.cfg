SPECIFICATION Spec
CONSTANTS
  Layouts <- MCLayouts
  Inputs <- MCInputs
  NoVersion = 9
  Digits = 2
  SmallLimit = 4
  MaxCount = 5
  Unset = Unset
INVARIANT NothingMissing
CHECK_DEADLOCK FALSE
