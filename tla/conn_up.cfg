SPECIFICATION FairSpec
CONSTANTS
  PingCheck = FALSE
  MayDeinit = TRUE
  MayReinit = TRUE
  SleepOutlastsTeardown = TRUE
  ConnectOutlastsTeardown = TRUE
INVARIANTS TypeOK NoDeafConnection ConnectionReported NoBusyLoop
PROPERTIES SocketStaysClosed DeadSocketNoticed Reconnects
CHECK_DEADLOCK FALSE
