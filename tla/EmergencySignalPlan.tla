------------------------- MODULE EmergencySignalPlan -------------------------
(***************************************************************************)
(* How the Priority Request Solver turns a list with an emergency vehicle  *)
(* into a signal plan: which requests it keeps, which phases the plan has, *)
(* in which order the rings go through them, and which are called and      *)
(* omitted.  One action per function that setOptimizationInput and         *)
(* getScheduleforTCI call, for one list after another.                     *)
(*                                                                         *)
(* Phases 1 to 4 make up ring 1 and 5 to 8 ring 2; the barrier separates   *)
(* 1, 2, 5, 6 from 3, 4, 7, 8; left turns are odd.  Of the timing plan     *)
(* only whether a phase has a green time is kept, of the optimal solution  *)
(* nothing: it gives the durations, not the order.                         *)
(***************************************************************************)
EXTENDS Integers, Sequences, FiniteSets

CONSTANTS
  ActiveSets,       \* the sets of phases an intersection may have
  OtherRequests,    \* what may be requested beside the emergency vehicles
  WeightSettings    \* the types whose weight the configuration may set to 0

Phase == 1 .. 8
Ring(r) == IF r = 1 THEN 1 .. 4 ELSE 5 .. 8
Barrier(b) == IF b = 1 THEN {1, 2, 5, 6} ELSE {3, 4, 7, 8}

EmergencyVehicle == "emergencyVehicle"
Transit == "transit"
Truck == "truck"
CoordinationVehicleType == "coordination"
VehicleType == {EmergencyVehicle, Transit, Truck, CoordinationVehicleType}

Request == [vehicleType : VehicleType, requestedPhase : Phase, dilemmaZoneStatus : BOOLEAN]

\* The server requests for an emergency vehicle the phase of its approach and the
\* split phase, the left turn of the same approach or the through phase.
Approaches == { {1, 6}, {2, 5}, {3, 8}, {4, 7} }

\* A through phase whose ring has none takes over the times of the one opposite.
HasGreen(phases) ==
  phases \cup {p \in Phase : p % 2 = 0 /\ (p + 4 \in phases \/ p - 4 \in phases)}

\* Greens that can be on together; a ring that has no phase on a side of the barrier
\* is taken to be in the phase opposite the other ring's.
Starts(phases) ==
  {s \in Ring(1) \X Ring(2) : \E b \in {1, 2} :
     LET has(r) == phases \cap Ring(r) \cap Barrier(b)
     IN  /\ s[1] \in Barrier(b) /\ s[2] \in Barrier(b)
         /\ s[1] \in has(1) \/ (has(1) = {} /\ s[2] \in has(2) /\ s[1] = s[2] - 4)
         /\ s[2] \in has(2) \/ (has(2) = {} /\ s[1] \in has(1) /\ s[2] = s[1] + 4)}

ASSUME PlanAssumption ==
  /\ \A phases \in ActiveSets :
       /\ phases \subseteq Phase
       /\ {2, 4, 6, 8} \subseteq HasGreen(phases)
       /\ \A s \in Starts(phases) : s[1] \in HasGreen(phases) /\ s[2] \in HasGreen(phases)
  /\ \A other \in OtherRequests :
       other \subseteq {r \in Request : r.vehicleType # EmergencyVehicle /\ ~r.dilemmaZoneStatus}
  /\ WeightSettings \subseteq SUBSET VehicleType

VARIABLES
  stage,                 \* the function that comes next
  active,                \* the phases of the intersection
  weightless,            \* the types without weight
  emergencies,           \* the approaches with an emergency vehicle on them
  priorityRequestList,
  start,                 \* the starting phases of the two rings
  noOfEVInList,          \* whether a request of an emergency plan was ever counted
  requestedSignalGroup,
  plannedEVPhases,       \* the phases of trafficSignalPlan_EV
  plannedSignalGroup,    \* plannedSignalGroupInRing1 and plannedSignalGroupInRing2
  callPhases, omitPhases

vars == <<stage, active, weightless, emergencies, priorityRequestList, start, noOfEVInList,
          requestedSignalGroup, plannedEVPhases, plannedSignalGroup, callPhases, omitPhases>>

inputs == <<active, emergencies, start>>
outputs == <<plannedSignalGroup, callPhases, omitPhases>>

startingPhases == {start[1], start[2]}

\* A list of an emergency vehicle's requests and others.
ListOf(approaches, other) ==
  [vehicleType : {EmergencyVehicle}, requestedPhase : UNION approaches,
   dilemmaZoneStatus : {FALSE}] \cup other

Init ==
  /\ stage = "receive"
  /\ active \in ActiveSets /\ weightless \in WeightSettings
  /\ start \in Starts(active)
  /\ emergencies = {} /\ priorityRequestList = {} /\ noOfEVInList = FALSE
  /\ requestedSignalGroup = {} /\ plannedEVPhases = {}
  /\ plannedSignalGroup = << <<>>, <<>> >> /\ callPhases = {} /\ omitPhases = {}

-----------------------------------------------------------------------------
(* The requests that are kept *)

\* A new list and the signal status of the moment; the weights may have been changed.
ReceiveList ==
  /\ stage = "receive"
  /\ stage' = "dilemmaZone"
  /\ weightless' \in WeightSettings
  /\ start' \in Starts(active)
  /\ \E approaches \in (SUBSET {a \in Approaches : a \cap active # {}}) \ {{}}, other \in OtherRequests :
       /\ emergencies' = approaches
       /\ priorityRequestList' = ListOf(approaches, other)
  /\ requestedSignalGroup' = {} /\ plannedEVPhases' = {}
  /\ plannedSignalGroup' = << <<>>, <<>> >> /\ callPhases' = {} /\ omitPhases' = {}
  /\ UNCHANGED <<active, noOfEVInList>>

\* A truck that has the green, or is about to get it, may be too near to stop.
MayBeInDilemmaZone(r) == r.vehicleType = Truck /\ r.requestedPhase \in startingPhases

setDilemmaZoneRequesStatus ==
  /\ stage = "dilemmaZone"
  /\ stage' = "modify"
  /\ \E near \in SUBSET {r \in priorityRequestList : MayBeInDilemmaZone(r)} :
       priorityRequestList' =
         (priorityRequestList \ near) \cup {[r EXCEPT !.dilemmaZoneStatus = TRUE] : r \in near}
  /\ UNCHANGED <<inputs, weightless, noOfEVInList, requestedSignalGroup, plannedEVPhases, outputs>>

\* A request stays when it has weight and is an emergency vehicle's or in the dilemma zone.
Stays(r) == r.vehicleType = EmergencyVehicle \/ r.dilemmaZoneStatus

modifyPriorityRequestList ==
  /\ stage = "modify"
  /\ stage' = "manage"
  /\ priorityRequestList' = {r \in priorityRequestList : r.vehicleType \notin weightless /\ Stays(r)}
  /\ noOfEVInList' = (noOfEVInList \/ priorityRequestList' # {})
  /\ UNCHANGED <<inputs, weightless, requestedSignalGroup, plannedEVPhases, outputs>>

getRequestedSignalGroup(list) ==
  {r.requestedPhase : r \in {q \in list : q.vehicleType # CoordinationVehicleType}}

AtMostTwo(P) == \E p, q \in Phase : P \subseteq {p, q}

\* The left turns that may be spared: those that are not on yet, when the starting
\* phases were counted among the groups, and all of them otherwise.
Spared(few, left) == IF few THEN left \ startingPhases ELSE left

\* What managePriorityRequestListForEV removes from the list and adds as dummies.
Nothing == [remove |-> {}, dummy |-> {}]

\* Mutant: the barrier without a phase gets none.
WithoutDummies(requested) ==
  LET few == AtMostTwo(requested)
      groups == requested \cup (IF few THEN startingPhases ELSE {})
  IN  CASE ~noOfEVInList -> Nothing
        [] noOfEVInList /\ groups \cap Barrier(1) = {} ->
             [remove |-> Spared(few, {3, 7}), dummy |-> {}]
        [] OTHER -> Nothing

\* Mutant: through phases are removed instead of left turns.
RemoveThroughs(requested) ==
  LET few == AtMostTwo(requested)
      groups == requested \cup (IF few THEN startingPhases ELSE {})
  IN  CASE ~noOfEVInList -> Nothing
        [] noOfEVInList /\ groups \cap Barrier(1) = {} ->
             [remove |-> Spared(few, {4, 8}), dummy |-> {2, 6}]
        [] OTHER -> Nothing

Management(requested) ==
  LET few == AtMostTwo(requested)
      groups == requested \cup (IF few THEN startingPhases ELSE {})
  IN  CASE ~noOfEVInList -> Nothing
        [] noOfEVInList /\ groups \cap Barrier(1) = {} ->
             [remove |-> Spared(few, {3, 7}), dummy |-> {2, 6}]
        [] /\ noOfEVInList /\ groups \cap Barrier(1) # {} /\ groups \cap Barrier(2) = {} ->
             [remove |-> Spared(few, {1, 5}), dummy |-> {4, 8}]
        [] /\ noOfEVInList /\ groups \cap Barrier(1) # {} /\ groups \cap Barrier(2) # {} ->
             [ remove |-> IF few THEN {}
                          ELSE IF startingPhases = {4, 8} THEN {3, 7}
                          ELSE IF startingPhases = {2, 6} THEN {1, 5} ELSE {},
               dummy |-> {} ]

\* Mutant: the groups are thinned out, and not the list.
ManageGroupsOnly ==
  /\ stage = "manage"
  /\ stage' = "plan"
  /\ LET m == Management(getRequestedSignalGroup(priorityRequestList))
     IN  requestedSignalGroup' =
           (getRequestedSignalGroup(priorityRequestList) \ m.remove) \cup m.dummy
  /\ UNCHANGED <<inputs, weightless, priorityRequestList, noOfEVInList, plannedEVPhases, outputs>>

managePriorityRequestListForEV ==
  /\ stage = "manage"
  /\ stage' = "plan"
  /\ LET m == Management(getRequestedSignalGroup(priorityRequestList))
     IN  /\ priorityRequestList' = {r \in priorityRequestList : r.requestedPhase \notin m.remove}
         /\ requestedSignalGroup' = getRequestedSignalGroup(priorityRequestList') \cup m.dummy
  /\ UNCHANGED <<inputs, weightless, noOfEVInList, plannedEVPhases, outputs>>

-----------------------------------------------------------------------------
(* The plan *)

\* getEVPhases, and getEVTrafficSignalPlan, which keeps these phases only.
getEVPhases ==
  /\ stage = "plan"
  /\ stage' = "model"
  /\ plannedEVPhases' = requestedSignalGroup \cup startingPhases
  /\ UNCHANGED <<inputs, weightless, priorityRequestList, noOfEVInList, requestedSignalGroup,
                 outputs>>

\* generateEVModFile writes no set for a ring-barrier group without phases, and
\* validateGmaxForEVSignalTimingPlan takes the greatest element of an empty vector
\* when a barrier has none.
WithoutBarrier == \E b \in {1, 2} : plannedEVPhases \cap Barrier(b) = {}

SolverDataUndefined ==
  /\ stage = "model" /\ WithoutBarrier
  /\ stage' = "undefined"
  /\ UNCHANGED <<inputs, weightless, priorityRequestList, noOfEVInList, requestedSignalGroup,
                 plannedEVPhases, outputs>>

\* Nothing is scheduled for a list that became empty.
ScheduleNothing ==
  /\ stage = "model" /\ ~WithoutBarrier /\ priorityRequestList = {}
  /\ stage' = "receive"
  /\ UNCHANGED <<inputs, weightless, priorityRequestList, noOfEVInList, requestedSignalGroup,
                 plannedEVPhases, outputs>>

\* validateEVTrafficSignalPlan: a phase without times takes those of the phase that
\* goes with it, if the plan has that one.
Associated(p) == IF p % 2 = 0 THEN IF p < 5 THEN p + 4 ELSE p - 4
                 ELSE IF p < 5 THEN p + 5 ELSE p - 3

minGreenIsPositive ==
  {p \in plannedEVPhases :
     \/ p \in HasGreen(active)
     \/ Associated(p) \in plannedEVPhases \cap HasGreen(active)}

\* The phases of a set in ascending order.
Ascending(P) ==
  [i \in 1 .. Cardinality(P) |-> CHOOSE p \in P : Cardinality({q \in P : q < p}) = i - 1]

\* Mutant: the second cycle begins with the starting phase again.
RestartCycle(ring, first) ==
  LET P == minGreenIsPositive \cap Ring(ring)
  IN  <<first>> \o Ascending({p \in P : p > first}) \o Ascending({p \in P : p >= first})
        \o Ascending({p \in P : p < first})

\* From the starting phase to the end of the cycle, a whole cycle, and the rest of one.
obtainRequiredSignalGroup(ring, first) ==
  LET P == minGreenIsPositive \cap Ring(ring)
  IN  <<first>> \o Ascending({p \in P : p > first}) \o Ascending(P)
        \o Ascending({p \in P : p < first})

getOmitPhases == Phase \ plannedEVPhases

createEventList ==
  /\ stage = "model" /\ ~WithoutBarrier /\ priorityRequestList # {}
  /\ stage' = "scheduled"
  /\ plannedSignalGroup' = <<obtainRequiredSignalGroup(1, start[1]),
                             obtainRequiredSignalGroup(2, start[2])>>
  /\ callPhases' = {r.requestedPhase : r \in priorityRequestList}
  /\ omitPhases' = getOmitPhases
  /\ UNCHANGED <<inputs, weightless, priorityRequestList, noOfEVInList, requestedSignalGroup,
                 plannedEVPhases>>

\* The list is forgotten when its schedule is written.
FinishList ==
  /\ stage = "scheduled"
  /\ stage' = "receive"
  /\ priorityRequestList' = {} /\ emergencies' = {}
  /\ UNCHANGED <<active, weightless, start, noOfEVInList, requestedSignalGroup,
                 plannedEVPhases, outputs>>

Next ==
  \/ ReceiveList
  \/ setDilemmaZoneRequesStatus
  \/ modifyPriorityRequestList
  \/ managePriorityRequestListForEV
  \/ getEVPhases
  \/ SolverDataUndefined
  \/ ScheduleNothing
  \/ createEventList
  \/ FinishList

Spec == Init /\ [][Next]_vars

-----------------------------------------------------------------------------
(* Properties *)

TypeOK ==
  /\ stage \in {"receive", "dilemmaZone", "modify", "manage", "plan", "model",
                "scheduled", "undefined"}
  /\ active \in ActiveSets /\ weightless \in WeightSettings
  /\ emergencies \subseteq Approaches /\ priorityRequestList \subseteq Request
  /\ start \in Starts(active) /\ noOfEVInList \in BOOLEAN
  /\ requestedSignalGroup \subseteq Phase /\ plannedEVPhases \subseteq Phase
  /\ plannedSignalGroup \in Seq(Phase) \X Seq(Phase)
  /\ callPhases \subseteq Phase /\ omitPhases \subseteq Phase

\* Once a request was counted, a plan has a phase in each ring on each side of the
\* barrier, also the plan for a list that became empty: no set of the model is missing,
\* and no greatest element is taken of nothing (generateEVModFile,
\* validateGmaxForEVSignalTimingPlan).
EveryGroupHasAPhase ==
  stage \in {"model", "scheduled"} /\ noOfEVInList =>
    \A r, b \in {1, 2} : plannedEVPhases \cap Ring(r) \cap Barrier(b) # {}

\* Every emergency vehicle of the list keeps the through phase of its approach in the
\* plan, called and not omitted, whatever left turns were spared for the others
\* (managePriorityRequestListForEV).
EveryEmergencyIsServed ==
  stage = "scheduled" /\ EmergencyVehicle \notin weightless =>
    \A approach \in emergencies : \E p \in approach :
      p % 2 = 0 /\ p \in callPhases /\ p \in plannedEVPhases \ omitPhases

\* No call is for a phase that the same schedule omits, and every phase that is on
\* when the schedule starts belongs to it (createEventList).
NoCallIsOmitted ==
  stage = "scheduled" =>
    /\ callPhases \cap omitPhases = {} /\ startingPhases \cap omitPhases = {}
    /\ \A r \in {1, 2} : \A i \in DOMAIN plannedSignalGroup[r] :
         plannedSignalGroup[r][i] \notin omitPhases

\* The phases of a ring follow one another as in the cycle, skipping those that are
\* not planned, and each planned one comes up exactly twice (obtainRequiredSignalGroup).
Follows(p, q, P) ==
  \/ p < q /\ ~\E x \in P : p < x /\ x < q
  \/ q <= p /\ ~\E x \in P : x > p \/ x < q

TwoCycles ==
  stage = "scheduled" =>
    \A r \in {1, 2} :
      LET s == plannedSignalGroup[r]
          P == plannedEVPhases \cap Ring(r)
      IN  /\ \A p \in P : Cardinality({i \in DOMAIN s : s[i] = p}) = 2
          /\ \A i \in 1 .. Len(s) - 1 : Follows(s[i], s[i + 1], P)
==============================================================================
