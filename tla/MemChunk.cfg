SPECIFICATION Spec
CONSTANTS
  RequestedBlockSize = 0
  DefaultBlockSize = 8
  HeaderSize = 1
  SizeModulus = 64
  Sizes <- MCSizes
  MaxMallocs = 5
  MaxHanded = 6
INVARIANTS
  HandedInside
  HandedDisjoint
  BlocksAccounted
  WasteBounded
PROPERTIES
  FiniEmpties
