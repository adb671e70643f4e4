SPECIFICATION Spec
CONSTANTS
  Pids = {p1, p2}
  Recycled = {p1}
  ForkMayFail = TRUE
  MaxPolls = 3
  SentSignals = {"INT", "TERM", "CHLD"}
  children_count = 1
  max_die = 2
  min_restart_interval = 1
  max_restart_interval = 3
INVARIANTS SoleChild IntervalBounded StreakBounded
PROPERTIES
  KeeperSpec NeverRelents SlotRecovers RequestSeen RequestHonoured
CHECK_DEADLOCK FALSE
