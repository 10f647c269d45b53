SPECIFICATION Spec
CONSTANTS
  PingCheck = FALSE
  MayDeinit = TRUE
  MayReinit = FALSE
  SleepOutlastsTeardown = TRUE
  ConnectOutlastsTeardown = TRUE
INVARIANTS InputPacketAlive
CHECK_DEADLOCK FALSE
