SPECIFICATION Spec
CONSTANTS
  Commands = {"start", "stop", "restart", "check", "other"}
  Procs = {p1, p2}
  LeftBehind = {}
  Inodes = {i1, i2}
  NoInode = NoInode
  NoPid = NoPid
  MaxFailures = 1
  MaxRecurse = 0
  MaxHeirs = 1
  Crashes = TRUE
  Unlinks = TRUE
  OpenErrors = FALSE
INVARIANTS TypeOK OneMaster
PROPERTIES CommandEnds RestartReplaces
