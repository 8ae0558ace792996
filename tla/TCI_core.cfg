SPECIFICATION Spec
CONSTANTS
  Phase = {1, 2}
  Schedule <- MCSchedules
  PlanOid <- MCPlanOid
  ntcipBackupTime = 3
  RefreshPeriod = 2
  MaxMessages = 2
  MaxUpdates = 1
  MaxTime = 5
INVARIANTS
  NoReplyLeftOver
  ClearIsFinal
  NoForeignBits
  CommandInForce
  NothingElseInForce
PROPERTIES
  EmptiedForCause
CHECK_DEADLOCK FALSE
