SPECIFICATION GenFairSpec
CONSTANTS
  ActionPlan <- MCActionPlan
  DayLength = 72
  MaxIterationTime = 2
  timeGapBetweenActivePlanChecking = 10
  SRMTimedOutTime = 5
  SRM_GAPOUT_TIME = 2
INVARIANTS GenTypeOK ServerHasTheList NoRequestWithoutPlan
PROPERTIES FreshForServer PairsRejoin EveryCycleIsServed CoordinationEnds
