SPECIFICATION FairSpec
CONSTANTS
  Callers = {c1, c2}
  MaxMessages = 3
  MessageLength = 3
  PartialSends = TRUE
  ConnectOutlastsTeardown = TRUE
INVARIANTS TypeOK NoLostWakeup RemainderIsOurs WireIsFramed
PROPERTIES ChannelImplemented AllSent IdleDeinitReturns
CHECK_DEADLOCK FALSE
