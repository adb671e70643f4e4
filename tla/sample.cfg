SPECIFICATION Spec
CONSTANTS
  Byte = 4
  Half = 8
  Word = 16
  Long = 32
  FloatMax = 6
  DoubleMax = 10
  MaxOptions = 3
  Numerals <- MCNumerals
  Files = {"a", "b", "bad"}
  Unusable = {"bad"}
  Ages = {0, 7}
  MaxNow = 16
INVARIANTS
  TypeOK
  OutputIsLast
  DiesAsTold
  LivesLongEnough
PROPERTIES
  ChildEnds
CHECK_DEADLOCK FALSE
