SPECIFICATION Spec
CONSTANTS
  Callers = {"sig", "recv", "app"}
  MaxMessages = 4
  MayDeinit = TRUE
  MayReinit = TRUE
  SleepOutlastsTeardown = TRUE
  ConnectOutlastsTeardown = TRUE
  PartialSends = FALSE
  ExitOutlastsSend = TRUE
INVARIANTS SetupSurvives
PROPERTIES IsSendActivity ExitSent
CHECK_DEADLOCK FALSE
