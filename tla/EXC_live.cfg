SPECIFICATION ExchangeSpec
CONSTANTS
  Generator = {g1}
  IDs <- MCTruckIDs
  RoleOf <- MCRoles
  Phase = {2}
  Intersection = {here}
  Here = here
  SRM_TIME_GAP_VALUE = 1
  requestTimedOutValue = 2
  MapCheckPeriod = 0
  maxMsgCount = 2
  CoordinationList <- MCCoordination
  onSchedule = TRUE
  Maximum_Number_Of_Priority_Request = 3
  ART_UPDATE_FREQUENCY = 1
  TIME_GAP_BETWEEN_ETA_Update = 1
  SocketTimeOut = 1
  ForwardGap = 2
  MaxLosses = 1
  MaxRestarts = 0
PROPERTIES RequestIsKept NobodyIsForgottenInTheTable
