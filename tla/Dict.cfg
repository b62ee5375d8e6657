SPECIFICATION Spec
CONSTANTS
  Keys = 6
  MaxOrdered = 4
  MaxHeight = 4
  MaxLate = 2
  NULL = NULL
  Key <- MCKey
  Rank <- MCRank
CONSTRAINT ListBounded
INVARIANTS
  Verified
  OwnsItsNodes
  OrderListComplete
  StackAlive
PROPERTIES
  ImplementsOrderedMap
