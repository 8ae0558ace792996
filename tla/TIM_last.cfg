SPECIFICATION Spec
CONSTANTS
  Plans <- MCWidePlans
  Reports <- MCReports
  CallSettings <- MCCallSettings
  PriorityLists <- MCPriorityLists
  EmergencyLists <- MCEmergencyLists
  CoordinationLists <- MCCoordinationLists
  Cycles <- MCCycles
  Extension = 1
INVARIANT
  LastPhasesCanEndTogether
