SPECIFICATION FairSpec
CONSTANTS
  PingCheck = TRUE
  MayDeinit = TRUE
  MayReinit = TRUE
  SleepOutlastsTeardown = TRUE
  ConnectOutlastsTeardown = TRUE
PROPERTIES FlagGoesStaleInSetup SilentPeerNoticed
CHECK_DEADLOCK FALSE
