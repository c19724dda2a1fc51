SPECIFICATION Spec
CONSTANTS
  a = a
  b = b
  o1 = o1
  o2 = o2
  o3 = o3
  v1 = v1
  v2 = v2
  Default = Default
  Null = Null
  Keys <- MCKeys
  Objects <- MCObjects
  Values <- MCValues
  MaxOpen = 3
INVARIANTS
  TypeOK
  OneOwner
  PointersStay
  Canonical
PROPERTIES
  ImplementsBindings
CHECK_DEADLOCK FALSE
