SPECIFICATION Spec
CONSTANTS
  BufSize = 14
  ShowSize = 4
  MaxTokens = 5
  Texts <- MCTexts
INVARIANTS
  TypeOK
  SafeLength
  SameText
\* What is said is said once.
CHECK_DEADLOCK FALSE
