SPECIFICATION Spec
CONSTANTS
  Datas <- MCDatas
  Texts <- MCTexts
  Outside = {0, 63, 176, 255}
  FloatBits = 3
  SmallBits = 4
  DoubleBits = 5
  LargeBits = 6
  FracBits = 3
  RangeBits = 8
  Conversions = {"wrap", "lowest"}
  Lengths <- MCLengths
\* The program ends with its answer.
CHECK_DEADLOCK FALSE
INVARIANTS
  RoundTrips
  AcceptsOnlyEncodings
  ReadsBack
