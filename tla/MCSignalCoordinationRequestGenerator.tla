---------------- MODULE MCSignalCoordinationRequestGenerator ----------------
(* A short day of two plans for TLC. *)
EXTENDS SignalCoordinationRequestGenerator, TLC

MorningPlan ==
  [start |-> 12, end |-> 23, cycleLength |-> 7, offset |-> 2, coordinationSplit |-> 3]

EveningPlan ==
  [start |-> 46, end |-> 51, cycleLength |-> 5, offset |-> 4, coordinationSplit |-> 3]

MCActionPlan == << MorningPlan, EveningPlan >>

\* The day meets the conditions under which the theorems hold.
ASSUME DayMeetsConditions == IterationsAreShort /\ WindowIsMet /\ PlansEndInTime
=============================================================================
