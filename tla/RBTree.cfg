SPECIFICATION MCSpec
CONSTANTS
  Keys = 7
  Capacity = 6
  NULL = NULL
  Node <- MCNode
  KeyOf <- MCKeyOf
INVARIANTS
  Balanced
  Ordered
  PathDescends
  NeighboursExist
  OneFlaw
PROPERTIES
  RebalancingKeepsOrder
  CallsReturn
