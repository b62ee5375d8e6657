SPECIFICATION Spec
CONSTANTS
  NULL = NULL
  k1 = k1
  k2 = k2
  Root = Root
  c2 = c2
  c3 = c3
  c4 = c4
  Cell <- MCCell
  Key <- MCKey
  Paths <- MCPaths
INVARIANTS
  OwnsItsMemory
PROPERTIES
  BuildKeepsPromise
