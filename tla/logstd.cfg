SPECIFICATION Spec
CONSTANTS
  BufEnd = 4
  PipeSize = 5
  OwnSize = 3
  Chunks <- MCChunks
INVARIANTS
  TypeOK
  Steady
PROPERTIES
  LinesKept
  Advances
\* A process that waits for its own pipe really stops.
CHECK_DEADLOCK FALSE
