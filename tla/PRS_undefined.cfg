SPECIFICATION FairSpec
CONSTANTS
  Vehicle = {601, 602, 610}
  RoleOf <- MCRoleOf
  Phase = {2}
  CoordinationList <- MCOddCoordination
  onSchedule = TRUE
  Maximum_Number_Of_Priority_Request = 3
  requestTimedOutValue = 2
  SRM_TIME_GAP_VALUE = 1
  ART_UPDATE_FREQUENCY = 1
  TIME_GAP_BETWEEN_ETA_Update = 1
  SocketTimeOut = 1
PROPERTIES SilenceDrains LeavesForCause ImplementsService
