SPECIFICATION Spec
CONSTANTS
  Byte = 1
  Half = 2
  Word = 4
  Long = 8
  FloatMax = 6
  DoubleMax = 10
  Values <- MCValues
INVARIANTS
  Exact
  Accepts
