SPECIFICATION Spec
CONSTANTS
  RequestedBlockSize = 0
  DefaultBlockSize = 8
  HeaderSize = 1
  SizeModulus = 64
  Sizes <- AllSizes
  MaxMallocs = 3
  MaxHanded = 3
INVARIANT
  BigGetsOwnBlock
