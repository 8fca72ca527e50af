SPECIFICATION FairSpec
CONSTANTS
  Pollers = {p1}
  ReconnectAt = 1
  SuspendAt = 2
  CriticalAt = 1
  HasControl = TRUE
  Callers = {"command", "wake", "on", "off", "unload"}
PROPERTIES UserOffWins LinkSettles
CHECK_DEADLOCK FALSE
