SPECIFICATION Spec
CONSTANTS
  Phase = {1, 2, 3}
  Schedule <- MCNestedSchedules
  PlanOid <- MCPlanOid
  ntcipBackupTime = 4
  RefreshPeriod = 3
  MaxMessages = 1
  MaxUpdates = 0
  MaxTime = 5
INVARIANT
  EndedCommandsAreLifted
CHECK_DEADLOCK FALSE
