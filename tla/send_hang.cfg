SPECIFICATION FairSpec
CONSTANTS
  Callers = {c1, c2}
  MaxMessages = 2
  MessageLength = 2
  PartialSends = TRUE
  ConnectOutlastsTeardown = TRUE
PROPERTIES DeinitReturns
CHECK_DEADLOCK FALSE
