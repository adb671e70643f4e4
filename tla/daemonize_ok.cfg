SPECIFICATION Spec
CONSTANTS
  Launcher = Launcher
  Daemon = Daemon
  NoTarget = NoTarget
PROPERTY LooksOk
CHECK_DEADLOCK FALSE
