SPECIFICATION CSpec
CONSTANTS
  Keys = 6
  Capacity = 6
  NULL = NULL
  Node <- MCNode
  KeyOf <- MCKeyOf
INVARIANTS
  CursorIsPath
PROPERTIES
  ImplementsOrderedSet
