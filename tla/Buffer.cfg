SPECIFICATION Spec
CONSTANTS
  Buf = {b}
  Byte = {x, y}
  Junk = y
  Chunk <- MCChunk
  MinAlloc = 1
  SmallLimit = 2
  Slack = 1
  MaxSize = 5
INVARIANTS
  RoomAsReserved
PROPERTIES
  ImplementsByteString
