SPECIFICATION Spec
CONSTANTS
  Launcher = Launcher
  Daemon = Daemon
  NoTarget = NoTarget
INVARIANTS TypeOK FileNamesDaemon
PROPERTIES ReadFailsLate OkIsTrue LauncherEnds
CHECK_DEADLOCK FALSE
