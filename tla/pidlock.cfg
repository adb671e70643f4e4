SPECIFICATION RaceSpec
CONSTANTS
  Procs = {p1, p2}
  LeftBehind = {p1, p2, s1, d1}
  Strangers = {s1}
  Inodes = {i1, i2}
  NoInode = NoInode
  NoPid = NoPid
  MaxFailures = 2
  MaxRecurse = 1
  MaxHeirs = 1
  Crashes = TRUE
  Unlinks = TRUE
  OpenErrors = TRUE
INVARIANTS TypeOK FileNamesHolder SomeoneWins
PROPERTIES LockSpec LockReturns
