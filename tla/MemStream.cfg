SPECIFICATION Spec
CONSTANTS
  Stream = {s1, s2}
  Ref = {r1, r2, r3}
  NULL = NULL
  Ulong = 4
  Quad = 16
  Sizes = {0, 3}
  Counts <- MCCounts
INVARIANTS
  RefsCounted
  AccessInside
  SeeksExactly
PROPERTIES
  LastReleaseFrees
