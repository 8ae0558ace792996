SPECIFICATION Spec
CONSTANTS
  RequestLists <- MCRequestLists
  WeightSettings <- MCWeightSettings
  MaxMessages = 2
  MaxPlans = 2
  MaxChanges = 1
  MaxFaults = 1
INVARIANTS
  TciFollowsServer
  DiesOnlyAfterMiss
  PlanIsCurrent
  AnswersMatchQuestions
PROPERTY
  LoopReturns
CHECK_DEADLOCK FALSE
