SPECIFICATION Spec
CONSTANTS
  Commands = {"start", "stop", "check"}
  Procs = {p1, p2}
  LeftBehind = {d1}
  Inodes = {i1}
  NoInode = NoInode
  NoPid = NoPid
  MaxFailures = 2
  MaxRecurse = 1
  MaxHeirs = 0
  Crashes = FALSE
  Unlinks = FALSE
  OpenErrors = FALSE
PROPERTY SaidGone
