SPECIFICATION Spec
CONSTANTS
  PingCheck = FALSE
  MayDeinit = TRUE
  MayReinit = FALSE
  SleepOutlastsTeardown = TRUE
  ConnectOutlastsTeardown = TRUE
INVARIANTS RecvThreadReleased
CHECK_DEADLOCK FALSE
