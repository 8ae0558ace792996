SPECIFICATION Spec
CONSTANTS
  Vehicle = {601, 602, 610}
  RoleOf <- MCRoleOf
  Phase = {2, 5}
  CoordinationList <- MCCoordination
  onSchedule = TRUE
  Maximum_Number_Of_Priority_Request = 3
  requestTimedOutValue = 4
  SRM_TIME_GAP_VALUE = 3
  ART_UPDATE_FREQUENCY = 1
  TIME_GAP_BETWEEN_ETA_Update = 2
  SocketTimeOut = 2
INVARIANTS TypeOK EmergencyPairs EmergencyExclusive ClearIsOnTheWire SolverInStep EmergencyIsPlanned TableBounded
