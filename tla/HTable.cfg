SPECIFICATION Spec
CONSTANTS
  Keys = 5
  FirstPlane = 4
  NULL = NULL
  Node <- MCNode
  KeyOf <- MCKeyOf
  HashOf <- MCHashOf
INVARIANTS
  PlacedByHash
  CountIsRight
PROPERTIES
  ImplementsKeyedSet
  FiniEmpties
