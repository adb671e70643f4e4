SPECIFICATION Spec
CONSTANTS
  Pids = {p1, p2, p3, p4}
  Recycled = {}
  ForkMayFail = TRUE
  MaxPolls = 2
  SentSignals = {"TERM", "CHLD"}
  children_count = 2
  max_die = 1
  min_restart_interval = 1
  max_restart_interval = 1
SYMMETRY Symmetry
INVARIANTS TypeOK Accounting CleanShutdown
PROPERTY FirstSlotKept
CHECK_DEADLOCK FALSE
