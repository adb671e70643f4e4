SPECIFICATION Spec
CONSTANTS
  Pids = {p1, p2, p3}
  Recycled = {}
  ForkMayFail = FALSE
  MaxPolls = 2
  SentSignals = {}
  children_count = 2
  max_die = 2
  min_restart_interval = 1
  max_restart_interval = 1
PROPERTY ChildReplaced
CHECK_DEADLOCK FALSE
