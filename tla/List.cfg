SPECIFICATION Spec
CONSTANTS
  Node = {a, b, c, d, e}
  Handle = {L, M}
  NULL = NULL
INVARIANTS
  ForwardLinks
  BackwardLinks
  TailIsLast
