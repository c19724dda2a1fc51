SPECIFICATION Spec
CONSTANTS
  Layouts <- MCLayouts
  Inputs <- MCInputs
  NoVersion = 9
  Digits = 2
  SmallLimit = 4
  MaxCount = 5
  Unset = Unset
INVARIANTS
  TypeOK
  DecodedFromEntries
  RequiredDecoded
  VersionGuard
PROPERTIES
  RoundTrip
CHECK_DEADLOCK FALSE
