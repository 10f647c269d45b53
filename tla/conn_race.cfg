SPECIFICATION FairSpec
CONSTANTS
  PingCheck = TRUE
  MayDeinit = FALSE
  MayReinit = FALSE
  SleepOutlastsTeardown = TRUE
  ConnectOutlastsTeardown = FALSE
PROPERTIES DeadSocketNoticed
