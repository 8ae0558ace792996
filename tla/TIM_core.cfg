SPECIFICATION Spec
CONSTANTS
  Plans <- MCPlans
  Reports <- MCReports
  CallSettings <- MCCallSettings
  PriorityLists <- MCPriorityLists
  EmergencyLists <- MCEmergencyLists
  CoordinationLists <- MCCoordinationLists
  Cycles <- MCCycles
  Extension = 1
INVARIANTS
  BarrierIsRespected
  GreenTimesAreKept
  EveryCallerGetsAGreen
