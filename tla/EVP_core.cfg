SPECIFICATION Spec
CONSTANTS
  ActiveSets <- MCActiveSets
  OtherRequests <- MCOtherRequests
  WeightSettings <- MCWeightSettings
INVARIANTS
  EveryGroupHasAPhase
  EveryEmergencyIsServed
  NoCallIsOmitted
  TwoCycles
CHECK_DEADLOCK FALSE
