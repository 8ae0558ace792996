----------------------- MODULE EmergencySignalPlanProofs -----------------------
(***************************************************************************)
(* Theorems about the signal plans for emergency vehicles: for every       *)
(* intersection whose phases satisfy the assumptions, all requests beside  *)
(* the emergency vehicles', and all weights, over any sequence of lists.   *)
(***************************************************************************)
EXTENDS EmergencySignalPlan, VectorOpsProofs, SequenceTheorems, TLAPS

HasList == stage \in {"dilemmaZone", "modify", "manage", "plan", "model", "scheduled"}

\* The starting phases, one in each ring, are on one side of the barrier.
StartInv ==
  /\ active \in ActiveSets
  /\ start[1] \in Ring(1) /\ start[2] \in Ring(2)
  /\ \E b \in {1, 2} : start[1] \in Barrier(b) /\ start[2] \in Barrier(b)

\* The request for a phase of an emergency vehicle's approach.
Emergency(p) == [vehicleType |-> EmergencyVehicle, requestedPhase |-> p, dilemmaZoneStatus |-> FALSE]

\* An even phase is through: it is never among those that are spared.
Through(p) == p % 2 = 0

\* What the list holds of the emergency vehicles: all their requests as it comes, and
\* their through phases as long as they have weight.
EmergencyInv ==
  /\ HasList => emergencies \in (SUBSET Approaches) \ {{}}
  /\ HasList /\ (EmergencyVehicle \notin weightless \/ stage \in {"dilemmaZone", "modify"}) =>
       \A p \in UNION emergencies :
         Through(p) \/ stage \in {"dilemmaZone", "modify", "manage"} =>
           Emergency(p) \in priorityRequestList

\* What else it holds: first anything that may be in the dilemma zone only when it is at a
\* starting phase, then only that.
OtherInv ==
  /\ stage = "dilemmaZone" =>
       \A r \in priorityRequestList :
         /\ r \in Request /\ r.dilemmaZoneStatus = FALSE
         /\ r.vehicleType = EmergencyVehicle => r.requestedPhase \in UNION emergencies
  /\ stage = "modify" =>
       \A r \in priorityRequestList :
         /\ r.vehicleType = EmergencyVehicle => r.requestedPhase \in UNION emergencies
         /\ r.dilemmaZoneStatus = TRUE => r.requestedPhase \in startingPhases
  /\ stage = "manage" =>
       \A r \in priorityRequestList :
         \/ r.requestedPhase \in startingPhases
         \/ r.requestedPhase \in UNION emergencies /\ EmergencyVehicle \notin weightless

\* The phases that were planned, and those that are omitted.
PlannedInv ==
  /\ stage \in {"plan", "model", "scheduled"} /\ EmergencyVehicle \notin weightless =>
       \A p \in UNION emergencies : Through(p) => p \in requestedSignalGroup
  /\ stage \in {"model", "scheduled"} => plannedEVPhases = requestedSignalGroup \cup startingPhases
  /\ stage = "scheduled" =>
       /\ callPhases = {r.requestedPhase : r \in priorityRequestList}
       /\ omitPhases = Phase \ plannedEVPhases

\* Both rings have a phase on side b.
Covers(P, b) == \A r \in {1, 2} : P \cap Ring(r) \cap Barrier(b) # {}

GroupInv ==
  stage \in {"plan", "model", "scheduled"} /\ noOfEVInList =>
    \A b \in {1, 2} : Covers(requestedSignalGroup \cup startingPhases, b)

-----------------------------------------------------------------------------
(* Phases, rings and the barrier *)

LEMMA Geometry ==
  /\ Ring(1) = {1, 2, 3, 4} /\ Ring(2) = {5, 6, 7, 8}
  /\ Barrier(1) = {1, 2, 5, 6} /\ Barrier(2) = {3, 4, 7, 8}
  /\ Phase = {1, 2, 3, 4, 5, 6, 7, 8}
BY DEF Ring, Barrier, Phase

\* An approach has a phase in each ring on its side of the barrier.
LEMMA ApproachCovers ==
  ASSUME NEW a \in Approaches, NEW b \in {1, 2}, a \cap Barrier(b) # {}
  PROVE  Covers(a, b) /\ a \subseteq Barrier(b) /\ a \subseteq Phase /\ \E p \in a : Through(p)
<1>1. CASE a = {1, 6}
  BY <1>1, Geometry DEF Covers, Through
<1>2. CASE a = {2, 5}
  BY <1>2, Geometry DEF Covers, Through
<1>3. CASE a = {3, 8}
  BY <1>3, Geometry DEF Covers, Through
<1>4. CASE a = {4, 7}
  BY <1>4, Geometry DEF Covers, Through
<1>5. QED
  BY <1>1, <1>2, <1>3, <1>4 DEF Approaches

LEMMA ApproachHasThrough ==
  ASSUME NEW a \in Approaches
  PROVE  /\ a \subseteq Phase /\ \E p \in a : Through(p)
         /\ \E b \in {1, 2} : a \cap Barrier(b) # {}
<1>1. CASE a = {1, 6}
  BY <1>1, Geometry DEF Through
<1>2. CASE a = {2, 5}
  BY <1>2, Geometry DEF Through
<1>3. CASE a = {3, 8}
  BY <1>3, Geometry DEF Through
<1>4. CASE a = {4, 7}
  BY <1>4, Geometry DEF Through
<1>5. QED
  BY <1>1, <1>2, <1>3, <1>4 DEF Approaches

\* Only left turns are ever removed from the list.
LEMMA LeftTurnsOnly ==
  ASSUME NEW R
  PROVE  Management(R).remove \subseteq {1, 3, 5, 7} /\ Management(R).dummy \subseteq Phase
BY Geometry DEF Management, Nothing, Spared

\* More phases of one side than two are those of both its approaches.
LEMMA BothApproaches ==
  ASSUME NEW em \in SUBSET Approaches, NEW b \in {1, 2}, UNION em \subseteq Barrier(b),
         ~AtMostTwo(UNION em)
  PROVE  UNION em = Barrier(b)
<1>1. \A a \in Approaches : AtMostTwo(a)
  BY Geometry DEF Approaches, AtMostTwo
<1>2. em \subseteq {{1, 6}, {2, 5}, {3, 8}, {4, 7}}
  BY DEF Approaches
<1>3. CASE b = 1
  <2>1. em \subseteq {{1, 6}, {2, 5}}
    <3>1. {3, 8} \notin em /\ {4, 7} \notin em
      BY <1>3, Geometry
    <3>2. QED
      BY <1>2, <3>1
  <2>2. {1, 6} \in em
    <3>1. SUFFICES ASSUME {1, 6} \notin em
                   PROVE  FALSE
      OBVIOUS
    <3>2. UNION em \subseteq {2, 5}
      BY <2>1, <3>1
    <3>3. QED
      BY <3>2, Geometry DEF AtMostTwo
  <2>3. {2, 5} \in em
    <3>1. SUFFICES ASSUME {2, 5} \notin em
                   PROVE  FALSE
      OBVIOUS
    <3>2. UNION em \subseteq {1, 6}
      BY <2>1, <3>1
    <3>3. QED
      BY <3>2, Geometry DEF AtMostTwo
  <2>4. QED
    BY <1>3, <2>2, <2>3, Geometry
<1>4. CASE b = 2
  <2>1. em \subseteq {{3, 8}, {4, 7}}
    <3>1. {1, 6} \notin em /\ {2, 5} \notin em
      BY <1>4, Geometry
    <3>2. QED
      BY <1>2, <3>1
  <2>2. {3, 8} \in em
    <3>1. SUFFICES ASSUME {3, 8} \notin em
                   PROVE  FALSE
      OBVIOUS
    <3>2. UNION em \subseteq {4, 7}
      BY <2>1, <3>1
    <3>3. QED
      BY <3>2, Geometry DEF AtMostTwo
  <2>3. {4, 7} \in em
    <3>1. SUFFICES ASSUME {4, 7} \notin em
                   PROVE  FALSE
      OBVIOUS
    <3>2. UNION em \subseteq {3, 8}
      BY <2>1, <3>1
    <3>3. QED
      BY <3>2, Geometry DEF AtMostTwo
  <2>4. QED
    BY <1>4, <2>2, <2>3, Geometry
<1>5. QED
  BY <1>3, <1>4

LEMMA StartCovers ==
  ASSUME StartInv
  PROVE  \E b \in {1, 2} : startingPhases \subseteq Barrier(b) /\ Covers(startingPhases, b)
<1>1. PICK b \in {1, 2} : start[1] \in Barrier(b) /\ start[2] \in Barrier(b)
  BY DEF StartInv
<1>2. startingPhases \subseteq Barrier(b)
  BY <1>1 DEF startingPhases
<1>3. \A r \in {1, 2} : start[r] \in startingPhases \cap Ring(r) \cap Barrier(b)
  BY <1>1 DEF startingPhases, StartInv
<1>4. QED
  BY <1>2, <1>3 DEF Covers

\* Starting phases and those of whole approaches, without what was removed and with the
\* dummies, are in each ring on each side of the barrier.
LEMMA ManagementCovers ==
  ASSUME noOfEVInList, StartInv, NEW em \in SUBSET Approaches, NEW E \in {{}, UNION em},
         NEW T \in SUBSET startingPhases, NEW R, R = E \cup T,
         NEW kept, kept = (R \ Management(R).remove) \cup Management(R).dummy
  PROVE  \A b \in {1, 2} : Covers(kept \cup startingPhases, b)
<1> DEFINE few == AtMostTwo(R)
           groups == R \cup (IF few THEN startingPhases ELSE {})
<1>1. PICK b0 \in {1, 2} : startingPhases \subseteq Barrier(b0) /\ Covers(startingPhases, b0)
  BY StartCovers
<1>2. PICK b1 \in {1, 2} : b1 # b0 /\ {b0, b1} = {1, 2}
  OBVIOUS
<1>3. Barrier(b0) \cap Barrier(b1) = {} /\ Phase \subseteq Barrier(b0) \cup Barrier(b1)
  BY <1>2, Geometry
<1>4. SUFFICES Covers(kept, b1)
  BY <1>1, <1>2 DEF Covers
\* A phase of the other side belongs to an approach that is there as a whole.
<1>5. ASSUME R \cap Barrier(b1) # {}
      PROVE  \E a \in em : a \subseteq R /\ a \cap Barrier(b1) # {}
  BY <1>1, <1>3, <1>5
<1>6. ASSUME R \cap Barrier(b1) # {}
      PROVE  Covers(R, b1)
  <2>1. PICK a \in em : a \subseteq R /\ a \cap Barrier(b1) # {}
    BY <1>5, <1>6
  <2>2. Covers(a, b1)
    BY <2>1, ApproachCovers
  <2>3. QED
    BY <2>1, <2>2 DEF Covers
<1>7. ASSUME NEW b \in {1, 2}, groups \cap Barrier(b) = {}, NEW c \in {1, 2}, c # b
      PROVE  ~few => (b = b0 => R = Barrier(c))
  <2>1. SUFFICES ASSUME ~few, b = b0
                 PROVE  R = Barrier(c)
    OBVIOUS
  <2>2. R \cap Barrier(b0) = {} /\ T = {}
    BY <1>1, <1>7, <2>1
  <2>3. R = E
    BY <2>2
  <2>4. E = UNION em
    <3>1. ~AtMostTwo({})
          => FALSE
      BY Geometry DEF AtMostTwo
    <3>2. QED
      BY <2>1, <2>3, <3>1
  <2>5. UNION em \subseteq Phase
    BY ApproachHasThrough
  <2>6. UNION em \subseteq Barrier(c)
    BY <1>3, <1>7, <1>2, <2>1, <2>2, <2>3, <2>4, <2>5
  <2>7. QED
    BY <2>1, <2>3, <2>4, <2>6, BothApproaches
<1>8. few => groups = R \cup startingPhases
  OBVIOUS
<1>9. few => groups \cap Barrier(b0) # {}
  BY <1>1, <1>8 DEF Covers
<1>m. Management(R) =
        CASE ~noOfEVInList -> Nothing
          [] noOfEVInList /\ groups \cap Barrier(1) = {} ->
               [remove |-> Spared(few, {3, 7}), dummy |-> {2, 6}]
          [] /\ noOfEVInList /\ groups \cap Barrier(1) # {} /\ groups \cap Barrier(2) = {} ->
               [remove |-> Spared(few, {1, 5}), dummy |-> {4, 8}]
          [] /\ noOfEVInList /\ groups \cap Barrier(1) # {} /\ groups \cap Barrier(2) # {} ->
               [ remove |-> IF few THEN {}
                            ELSE IF startingPhases = {4, 8} THEN {3, 7}
                            ELSE IF startingPhases = {2, 6} THEN {1, 5} ELSE {},
                 dummy |-> {} ]
  BY DEF Management
<1> HIDE DEF groups, few
<1>10. CASE groups \cap Barrier(1) = {}
  <2>1. Management(R) = [remove |-> Spared(few, {3, 7}), dummy |-> {2, 6}]
    BY <1>m, <1>10
  <2>2. CASE b1 = 1
    <3>1. {2, 6} \subseteq kept
      BY <2>1
    <3>2. QED
      BY <2>2, <3>1, Geometry DEF Covers
  <2>3. CASE b1 = 2
    <3>1. b0 = 1 /\ ~few
      BY <1>2, <1>9, <1>10, <2>3
    <3>2. R = Barrier(2)
      BY <1>7, <1>10, <3>1 DEF groups
    <3>3. Spared(few, {3, 7}) = {3, 7}
      BY <3>1 DEF Spared
    <3>4. {4, 8} \subseteq kept
      BY <2>1, <3>2, <3>3, Geometry
    <3>5. QED
      BY <2>3, <3>4, Geometry DEF Covers
  <2>4. QED
    BY <2>2, <2>3
<1>11. CASE groups \cap Barrier(1) # {} /\ groups \cap Barrier(2) = {}
  <2>1. Management(R) = [remove |-> Spared(few, {1, 5}), dummy |-> {4, 8}]
    BY <1>m, <1>11
  <2>2. CASE b1 = 2
    <3>1. {4, 8} \subseteq kept
      BY <2>1
    <3>2. QED
      BY <2>2, <3>1, Geometry DEF Covers
  <2>3. CASE b1 = 1
    <3>1. b0 = 2 /\ ~few
      BY <1>2, <1>9, <1>11, <2>3
    <3>2. R = Barrier(1)
      BY <1>7, <1>11, <3>1 DEF groups
    <3>3. Spared(few, {1, 5}) = {1, 5}
      BY <3>1 DEF Spared
    <3>4. {2, 6} \subseteq kept
      BY <2>1, <3>2, <3>3, Geometry
    <3>5. QED
      BY <2>3, <3>4, Geometry DEF Covers
  <2>4. QED
    BY <2>2, <2>3
<1>12. CASE groups \cap Barrier(1) # {} /\ groups \cap Barrier(2) # {}
  <2>1. Management(R) =
          [ remove |-> IF few THEN {}
                       ELSE IF startingPhases = {4, 8} THEN {3, 7}
                       ELSE IF startingPhases = {2, 6} THEN {1, 5} ELSE {},
            dummy |-> {} ]
    BY <1>m, <1>12
  <2>2. groups \cap Barrier(b1) # {}
    BY <1>12
  <2>3. R \cap Barrier(b1) # {}
    BY <1>1, <1>3, <2>2 DEF groups
  <2>4. Management(R).remove \cap Barrier(b1) = {}
    <3>1. startingPhases = {4, 8} => b0 = 2
      BY <1>1, Geometry
    <3>2. startingPhases = {2, 6} => b0 = 1
      BY <1>1, Geometry
    <3>3. CASE b0 = 2
      <4>1. Barrier(b1) = {1, 2, 5, 6} /\ startingPhases # {2, 6}
        BY <1>2, <3>2, <3>3, Geometry
      <4>2. QED
        BY <2>1, <4>1
    <3>4. CASE b0 = 1
      <4>1. Barrier(b1) = {3, 4, 7, 8} /\ startingPhases # {4, 8}
        BY <1>2, <3>1, <3>4, Geometry
      <4>2. QED
        BY <2>1, <4>1
    <3>5. QED
      BY <3>3, <3>4
  <2>5. Covers(R, b1)
    BY <1>6, <2>3
  <2>6. R \cap Barrier(b1) \subseteq kept
    BY <2>4
  <2>7. QED
    BY <2>5, <2>6 DEF Covers
<1>13. QED
  BY <1>10, <1>11, <1>12

-----------------------------------------------------------------------------
(* The inductive invariant *)

PlanInv == StartInv /\ EmergencyInv /\ OtherInv /\ PlannedInv /\ GroupInv

LEMMA StartsOnOneSide ==
  ASSUME NEW A \in ActiveSets, NEW s \in Starts(A)
  PROVE  /\ s[1] \in Ring(1) /\ s[2] \in Ring(2)
         /\ \E b \in {1, 2} : s[1] \in Barrier(b) /\ s[2] \in Barrier(b)
BY DEF Starts

LEMMA PlanInit == Init => PlanInv
<1>1. SUFFICES ASSUME Init
               PROVE  PlanInv
  OBVIOUS
<1>2. StartInv
  BY <1>1, StartsOnOneSide DEF Init, StartInv
<1>3. stage = "receive"
  BY <1>1 DEF Init
<1>4. EmergencyInv /\ OtherInv /\ PlannedInv /\ GroupInv
  BY <1>3 DEF EmergencyInv, OtherInv, PlannedInv, GroupInv, HasList
<1>5. QED
  BY <1>2, <1>4 DEF PlanInv

LEMMA ReceiveStep ==
  ASSUME PlanInv, ReceiveList
  PROVE  PlanInv'
<1>1. StartInv'
  <2>1. active' = active /\ active \in ActiveSets /\ start' \in Starts(active)
    BY DEF ReceiveList, PlanInv, StartInv
  <2>2. QED
    BY <2>1, StartsOnOneSide DEF StartInv
<1>2. stage' = "dilemmaZone"
  BY DEF ReceiveList
<1>3. PICK approaches \in (SUBSET {a \in Approaches : a \cap active # {}}) \ {{}},
           other \in OtherRequests :
             emergencies' = approaches /\ priorityRequestList' = ListOf(approaches, other)
  BY DEF ReceiveList
<1>4. \A p \in UNION approaches : Emergency(p) \in ListOf(approaches, other)
  BY DEF Emergency, ListOf
<1>5. EmergencyInv'
  <2>1. approaches \in (SUBSET Approaches) \ {{}}
    OBVIOUS
  <2>2. QED
    BY <1>2, <1>3, <1>4, <2>1 DEF EmergencyInv
<1>6. ASSUME NEW r \in ListOf(approaches, other)
      PROVE  /\ r \in Request /\ r.dilemmaZoneStatus = FALSE
             /\ r.vehicleType = EmergencyVehicle => r.requestedPhase \in UNION approaches
  <2>1. CASE r \in other
    <3>1. r \in Request /\ r.vehicleType # EmergencyVehicle /\ ~r.dilemmaZoneStatus
      BY <2>1, PlanAssumption
    <3>2. r.dilemmaZoneStatus \in BOOLEAN
      BY <3>1 DEF Request
    <3>3. QED
      BY <3>1, <3>2
  <2>2. CASE r \in [vehicleType : {EmergencyVehicle}, requestedPhase : UNION approaches,
                    dilemmaZoneStatus : {FALSE}]
    <3>1. UNION approaches \subseteq Phase
      BY ApproachHasThrough
    <3>2. r \in Request
      BY <2>2, <3>1 DEF Request, VehicleType
    <3>3. QED
      BY <2>2, <3>2
  <2>3. QED
    BY <1>6, <2>1, <2>2 DEF ListOf
<1>7. OtherInv'
  BY <1>2, <1>3, <1>6 DEF OtherInv
<1>8. PlannedInv' /\ GroupInv'
  BY <1>2 DEF PlannedInv, GroupInv
<1>9. QED
  BY <1>1, <1>5, <1>7, <1>8 DEF PlanInv

LEMMA DilemmaZoneStep ==
  ASSUME PlanInv, setDilemmaZoneRequesStatus
  PROVE  PlanInv'
<1>1. /\ stage = "dilemmaZone" /\ stage' = "modify"
      /\ active' = active /\ emergencies' = emergencies /\ start' = start
  BY DEF setDilemmaZoneRequesStatus, inputs
<1>2. PICK near \in SUBSET {r \in priorityRequestList : MayBeInDilemmaZone(r)} :
        priorityRequestList' =
          (priorityRequestList \ near) \cup {[r EXCEPT !.dilemmaZoneStatus = TRUE] : r \in near}
  BY DEF setDilemmaZoneRequesStatus
<1>3. StartInv'
  BY <1>1 DEF PlanInv, StartInv
<1>4. \A p : Emergency(p) \notin near
  BY DEF Emergency, MayBeInDilemmaZone, EmergencyVehicle, Truck
<1>5. EmergencyInv'
  BY <1>1, <1>2, <1>4 DEF EmergencyInv, PlanInv, HasList
<1>6. ASSUME NEW r \in priorityRequestList'
      PROVE  /\ r.vehicleType = EmergencyVehicle => r.requestedPhase \in UNION emergencies
             /\ r.dilemmaZoneStatus = TRUE => r.requestedPhase \in startingPhases
  <2>1. CASE r \in priorityRequestList \ near
    BY <1>1, <2>1 DEF PlanInv, OtherInv
  <2>2. CASE r \in {[q EXCEPT !.dilemmaZoneStatus = TRUE] : q \in near}
    <3>1. PICK q \in near : r = [q EXCEPT !.dilemmaZoneStatus = TRUE]
      BY <2>2
    <3>2. q \in Request /\ q.vehicleType = Truck /\ q.requestedPhase \in startingPhases
      BY <1>1 DEF PlanInv, OtherInv, MayBeInDilemmaZone
    <3>3. r.vehicleType = Truck /\ r.requestedPhase = q.requestedPhase
      BY <3>1, <3>2 DEF Request
    <3>4. QED
      BY <3>2, <3>3 DEF Truck, EmergencyVehicle
  <2>3. QED
    BY <1>2, <1>6, <2>1, <2>2
<1>7. OtherInv'
  BY <1>1, <1>6 DEF OtherInv, startingPhases
<1>8. PlannedInv' /\ GroupInv'
  BY <1>1 DEF PlannedInv, GroupInv
<1>9. QED
  BY <1>3, <1>5, <1>7, <1>8 DEF PlanInv

LEMMA ModifyStep ==
  ASSUME PlanInv, modifyPriorityRequestList
  PROVE  PlanInv'
<1>1. /\ stage = "modify" /\ stage' = "manage" /\ weightless' = weightless
      /\ active' = active /\ emergencies' = emergencies /\ start' = start
      /\ priorityRequestList' =
           {r \in priorityRequestList : r.vehicleType \notin weightless /\ Stays(r)}
  BY DEF modifyPriorityRequestList, inputs
<1>2. StartInv'
  BY <1>1 DEF PlanInv, StartInv
<1>3. EmergencyInv'
  <2>1. \A p : Emergency(p).vehicleType = EmergencyVehicle
    BY DEF Emergency
  <2>2. QED
    BY <1>1, <2>1 DEF EmergencyInv, PlanInv, HasList, Stays
<1>4. OtherInv'
  <2>1. ASSUME NEW r \in priorityRequestList'
        PROVE  \/ r.requestedPhase \in startingPhases
               \/ r.requestedPhase \in UNION emergencies /\ EmergencyVehicle \notin weightless
    <3>1. r \in priorityRequestList /\ r.vehicleType \notin weightless
      BY <1>1, <2>1
    <3>2. CASE r.vehicleType = EmergencyVehicle
      BY <1>1, <3>1, <3>2 DEF PlanInv, OtherInv
    <3>3. CASE r.vehicleType # EmergencyVehicle
      <4>1. r.dilemmaZoneStatus
        BY <1>1, <2>1, <3>3 DEF Stays
      <4>2. r.dilemmaZoneStatus = TRUE => r.requestedPhase \in startingPhases
        BY <1>1, <3>1 DEF PlanInv, OtherInv
      <4>3. QED
        BY <4>1, <4>2
    <3>4. QED
      BY <3>2, <3>3
  <2>2. QED
    BY <1>1, <2>1 DEF OtherInv, startingPhases
<1>5. PlannedInv' /\ GroupInv'
  BY <1>1 DEF PlannedInv, GroupInv
<1>6. QED
  BY <1>2, <1>3, <1>4, <1>5 DEF PlanInv

LEMMA ManageStep ==
  ASSUME PlanInv, managePriorityRequestListForEV
  PROVE  PlanInv'
<1> DEFINE R == getRequestedSignalGroup(priorityRequestList)
           m == Management(R)
<1>1. /\ stage = "manage" /\ stage' = "plan" /\ weightless' = weightless
      /\ noOfEVInList' = noOfEVInList
      /\ active' = active /\ emergencies' = emergencies /\ start' = start
      /\ priorityRequestList' = {r \in priorityRequestList : r.requestedPhase \notin m.remove}
      /\ requestedSignalGroup' = getRequestedSignalGroup(priorityRequestList') \cup m.dummy
  BY DEF managePriorityRequestListForEV, inputs
<1>2. StartInv'
  BY <1>1 DEF PlanInv, StartInv
<1>3. m.remove \subseteq {1, 3, 5, 7}
  BY LeftTurnsOnly
<1>4. \A p \in UNION emergencies : Through(p) => p \notin m.remove
  BY <1>3 DEF Through
<1>5. \A p : /\ Emergency(p).requestedPhase = p
             /\ Emergency(p).vehicleType # CoordinationVehicleType
  BY DEF Emergency, EmergencyVehicle, CoordinationVehicleType
<1>6. EmergencyInv'
  BY <1>1, <1>4, <1>5 DEF EmergencyInv, PlanInv, HasList
<1>7. OtherInv'
  BY <1>1 DEF OtherInv
<1>8. PlannedInv'
  <2>1. ASSUME EmergencyVehicle \notin weightless, NEW p \in UNION emergencies, Through(p)
        PROVE  p \in requestedSignalGroup'
    <3>1. Emergency(p) \in priorityRequestList
      BY <1>1, <2>1 DEF PlanInv, EmergencyInv, HasList
    <3>2. Emergency(p) \in priorityRequestList'
      BY <1>1, <1>4, <1>5, <2>1, <3>1
    <3>3. p \in getRequestedSignalGroup(priorityRequestList')
      BY <1>5, <3>2 DEF getRequestedSignalGroup
    <3>4. QED
      BY <1>1, <3>3
  <2>2. QED
    BY <1>1, <2>1 DEF PlannedInv
<1>9. GroupInv'
  <2>1. SUFFICES ASSUME noOfEVInList
                 PROVE  \A b \in {1, 2} : Covers(requestedSignalGroup' \cup startingPhases, b)
    BY <1>1 DEF GroupInv, startingPhases, Covers
  <2>2. emergencies \in SUBSET Approaches
    BY <1>1 DEF PlanInv, EmergencyInv, HasList
  <2> DEFINE E == IF EmergencyVehicle \in weightless THEN {} ELSE UNION emergencies
             T == R \cap startingPhases
  <2>3. E \subseteq R
    <3>1. SUFFICES ASSUME EmergencyVehicle \notin weightless, NEW p \in UNION emergencies
                   PROVE  p \in R
      OBVIOUS
    <3>2. Emergency(p) \in priorityRequestList
      BY <1>1, <3>1 DEF PlanInv, EmergencyInv, HasList
    <3>3. QED
      BY <1>5, <3>2 DEF getRequestedSignalGroup
  <2>4. R \subseteq E \cup T
    <3>1. SUFFICES ASSUME NEW r \in priorityRequestList, r.requestedPhase \in R
                   PROVE  r.requestedPhase \in E \cup T
      BY DEF getRequestedSignalGroup
    <3>2. \/ r.requestedPhase \in startingPhases
          \/ r.requestedPhase \in UNION emergencies /\ EmergencyVehicle \notin weightless
      BY <1>1 DEF PlanInv, OtherInv
    <3>3. QED
      BY <3>1, <3>2
  <2>5. R = E \cup T /\ E \in {{}, UNION emergencies} /\ T \in SUBSET startingPhases
    BY <2>3, <2>4
  <2>6. requestedSignalGroup' = (R \ m.remove) \cup m.dummy
    BY <1>1 DEF getRequestedSignalGroup
  <2>7. StartInv
    BY DEF PlanInv
  <2> HIDE DEF E, T, R
  <2>8. QED
    BY <2>1, <2>2, <2>5, <2>6, <2>7, ManagementCovers
<1>10. QED
  BY <1>2, <1>6, <1>7, <1>8, <1>9 DEF PlanInv

LEMMA PhasesStep ==
  ASSUME PlanInv, getEVPhases
  PROVE  PlanInv'
<1>1. /\ stage = "plan" /\ stage' = "model" /\ weightless' = weightless
      /\ noOfEVInList' = noOfEVInList /\ priorityRequestList' = priorityRequestList
      /\ active' = active /\ emergencies' = emergencies /\ start' = start
      /\ requestedSignalGroup' = requestedSignalGroup
      /\ plannedEVPhases' = requestedSignalGroup \cup startingPhases
  BY DEF getEVPhases, inputs
<1>2. StartInv' /\ EmergencyInv' /\ OtherInv'
  BY <1>1 DEF PlanInv, StartInv, EmergencyInv, HasList, OtherInv
<1>3. PlannedInv' /\ GroupInv'
  BY <1>1 DEF PlanInv, PlannedInv, GroupInv, startingPhases, Covers
<1>4. QED
  BY <1>2, <1>3 DEF PlanInv

LEMMA EventListStep ==
  ASSUME PlanInv, createEventList
  PROVE  PlanInv'
<1>1. /\ stage = "model" /\ stage' = "scheduled" /\ weightless' = weightless
      /\ noOfEVInList' = noOfEVInList /\ priorityRequestList' = priorityRequestList
      /\ active' = active /\ emergencies' = emergencies /\ start' = start
      /\ requestedSignalGroup' = requestedSignalGroup
      /\ plannedEVPhases' = plannedEVPhases
      /\ callPhases' = {r.requestedPhase : r \in priorityRequestList}
      /\ omitPhases' = Phase \ plannedEVPhases
  BY DEF createEventList, inputs, getOmitPhases
<1>2. StartInv' /\ EmergencyInv' /\ OtherInv'
  BY <1>1 DEF PlanInv, StartInv, EmergencyInv, HasList, OtherInv
<1>3. PlannedInv' /\ GroupInv'
  BY <1>1 DEF PlanInv, PlannedInv, GroupInv, startingPhases, Covers
<1>4. QED
  BY <1>2, <1>3 DEF PlanInv

\* The steps that end the work on a list.
LEMMA EndStep ==
  ASSUME PlanInv, SolverDataUndefined \/ ScheduleNothing \/ FinishList
  PROVE  PlanInv'
<1>1. /\ stage' \in {"undefined", "receive"} /\ active' = active /\ start' = start
  BY DEF SolverDataUndefined, ScheduleNothing, FinishList, inputs
<1>2. StartInv'
  BY <1>1 DEF PlanInv, StartInv
<1>3. EmergencyInv' /\ OtherInv' /\ PlannedInv' /\ GroupInv'
  BY <1>1 DEF EmergencyInv, HasList, OtherInv, PlannedInv, GroupInv
<1>4. QED
  BY <1>2, <1>3 DEF PlanInv

LEMMA PlanStep == PlanInv /\ [Next]_vars => PlanInv'
<1>1. SUFFICES ASSUME PlanInv, [Next]_vars
               PROVE  PlanInv'
  OBVIOUS
<1>2. CASE ReceiveList
  BY <1>1, <1>2, ReceiveStep
<1>3. CASE setDilemmaZoneRequesStatus
  BY <1>1, <1>3, DilemmaZoneStep
<1>4. CASE modifyPriorityRequestList
  BY <1>1, <1>4, ModifyStep
<1>5. CASE managePriorityRequestListForEV
  BY <1>1, <1>5, ManageStep
<1>6. CASE getEVPhases
  BY <1>1, <1>6, PhasesStep
<1>7. CASE createEventList
  BY <1>1, <1>7, EventListStep
<1>8. CASE SolverDataUndefined \/ ScheduleNothing \/ FinishList
  BY <1>1, <1>8, EndStep
<1>9. CASE UNCHANGED vars
  BY <1>1, <1>9 DEF vars, PlanInv, StartInv, EmergencyInv, HasList, OtherInv, PlannedInv,
                    GroupInv, startingPhases, Covers
<1>10. QED
  BY <1>1, <1>2, <1>3, <1>4, <1>5, <1>6, <1>7, <1>8, <1>9 DEF Next

LEMMA PlanInvariant == Spec => []PlanInv
BY PlanInit, PlanStep, PTL DEF Spec

-----------------------------------------------------------------------------
(* Phases in ascending order *)

\* The sequence goes through the set in ascending order.
Lists(s, P) ==
  /\ s \in Seq(P)
  /\ \A p \in P : \E i \in DOMAIN s : s[i] = p
  /\ \A i, j \in DOMAIN s : i < j => s[i] < s[j]

LEMMA AscendingLists ==
  ASSUME NEW P \in SUBSET Phase
  PROVE  Lists(Ascending(P), P)
<1> DEFINE n == Cardinality(P)
<1>1. P \in SUBSET (1 .. 8) /\ IsFiniteSet(P) /\ n \in Nat
  <2>1. P \in SUBSET (1 .. 8)
    BY DEF Phase
  <2>2. QED
    BY <2>1, PositionsFinite
<1>i. \A p \in P : p \in Int
  BY DEF Phase
<1>2. ASSUME NEW p \in P
      PROVE  /\ Cardinality({q \in P : q < p}) \in Nat
             /\ Rank(P, p) = Cardinality({q \in P : q < p}) + 1
  <2> DEFINE below == {q \in P : q < p}
  <2>1. IsFiniteSet(below) /\ below \in SUBSET P
    BY <1>1, FS_Subset
  <2>2. {j \in P : j <= p} = below \cup {p}
    <3>1. \A j \in P : j <= p <=> j < p \/ j = p
      BY <1>i
    <3>2. QED
      BY <3>1
  <2>3. p \notin below
    BY <1>i
  <2> HIDE DEF below
  <2>4. Cardinality(below) \in Nat /\ Cardinality(below \cup {p}) = Cardinality(below) + 1
    BY <2>1, <2>3, FS_CardinalityType, FS_AddElement
  <2>5. QED
    BY <2>2, <2>4 DEF Rank, below
<1>3. ASSUME NEW i \in 1 .. n
      PROVE  Ascending(P)[i] \in P /\ Rank(P, Ascending(P)[i]) = i
  <2>1. PICK p \in P : Rank(P, p) = i
    BY <1>1, RankOnto
  <2>2. Cardinality({q \in P : q < p}) = i - 1
    BY <1>2, <2>1
  <2>3. Ascending(P)[i] = CHOOSE x \in P : Cardinality({q \in P : q < x}) = i - 1
    BY DEF Ascending
  <2> DEFINE a == Ascending(P)[i]
  <2>4. a \in P /\ Cardinality({q \in P : q < a}) = i - 1
    BY <2>2, <2>3
  <2> HIDE DEF a
  <2>5. Rank(P, a) = i
    BY <1>2, <2>4
  <2>6. QED
    BY <2>4, <2>5 DEF a
<1>4. DOMAIN Ascending(P) = 1 .. n /\ Ascending(P) = [i \in 1 .. n |-> Ascending(P)[i]]
  BY DEF Ascending
<1> DEFINE s == Ascending(P)
<1> HIDE DEF s, n
<1>5. s \in Seq(P) /\ DOMAIN s = 1 .. n
  <2>1. s \in [1 .. n -> P]
    BY <1>3, <1>4 DEF s
  <2>2. QED
    BY <1>1, <1>4, <2>1, SeqDef DEF s
<1>6. ASSUME NEW p \in P
      PROVE  \E i \in DOMAIN s : s[i] = p
  <2> DEFINE i == Rank(P, p)
  <2>1. i \in 1 .. n
    BY <1>1, RankRange DEF n
  <2>2. s[i] \in P /\ Rank(P, s[i]) = Rank(P, p)
    BY <1>3, <2>1 DEF s
  <2>3. s[i] = p
    <3> DEFINE a == s[i]
    <3>1. a \in P /\ Rank(P, a) = i /\ i \in Int
      BY <2>1, <2>2
    <3> HIDE DEF a
    <3>2. a \in Int /\ p \in Int
      BY <1>i, <3>1
    <3>3. ~(a < p) /\ ~(p < a)
      <4>1. a < p => Rank(P, a) < Rank(P, p)
        BY <1>1, <3>1, RankMonotone
      <4>2. p < a => Rank(P, p) < Rank(P, a)
        BY <1>1, <3>1, RankMonotone
      <4>3. QED
        BY <3>1, <4>1, <4>2
    <3>4. QED
      BY <3>2, <3>3 DEF a
  <2>4. QED
    BY <1>5, <2>1, <2>3
<1>7. ASSUME NEW i \in DOMAIN s, NEW j \in DOMAIN s, i < j
      PROVE  s[i] < s[j]
  <2>1. /\ s[i] \in P /\ Rank(P, s[i]) = i
        /\ s[j] \in P /\ Rank(P, s[j]) = j
    BY <1>3, <1>5 DEF s
  <2>2. s[i] \in Int /\ s[j] \in Int /\ i \in Int /\ j \in Int
    BY <1>i, <1>5, <2>1
  <2>3. s[j] < s[i] => Rank(P, s[j]) < Rank(P, s[i])
    BY <1>1, <2>1, RankMonotone
  <2>4. QED
    BY <1>7, <2>1, <2>2, <2>3
<1>8. QED
  BY <1>5, <1>6, <1>7 DEF Lists, s

\* How often an element occurs in a sequence.
Never(s, p) == \A i \in DOMAIN s : s[i] # p
Once(s, p) == \E i \in DOMAIN s : \A k \in DOMAIN s : s[k] = p <=> k = i
Twice(s, p) ==
  \E i, j \in DOMAIN s : i # j /\ \A k \in DOMAIN s : s[k] = p <=> k \in {i, j}

LEMMA ListedOnce ==
  ASSUME NEW P \in SUBSET Phase, NEW s, Lists(s, P), NEW p
  PROVE  /\ p \in P => Once(s, p)
         /\ p \notin P => Never(s, p)
<1>1. p \notin P => Never(s, p)
  BY DEF Lists, Never
<1>2. ASSUME p \in P
      PROVE  Once(s, p)
  <2>1. PICK i \in DOMAIN s : s[i] = p
    BY <1>2 DEF Lists
  <2>2. ASSUME NEW k \in DOMAIN s, s[k] = p
        PROVE  k = i
    <3>1. /\ i < k => s[i] < s[k]
          /\ k < i => s[k] < s[i]
      BY DEF Lists
    <3>2. i \in Nat /\ k \in Nat /\ p \in Nat
      BY <1>2 DEF Lists, Phase
    <3>3. QED
      BY <2>1, <2>2, <3>1, <3>2
  <2>3. QED
    BY <2>1, <2>2 DEF Once
<1>3. QED
  BY <1>1, <1>2

\* Where the elements of two joined sequences stand.
LEMMA Joined ==
  ASSUME NEW S, NEW s \in Seq(S), NEW t \in Seq(S)
  PROVE  /\ s \o t \in Seq(S)
         /\ Len(s) \in Nat /\ DOMAIN s = 1 .. Len(s)
         /\ Len(t) \in Nat /\ DOMAIN t = 1 .. Len(t)
         /\ Len(s \o t) = Len(s) + Len(t) /\ DOMAIN (s \o t) = 1 .. (Len(s) + Len(t))
         /\ \A i \in DOMAIN s : (s \o t)[i] = s[i] /\ i \in DOMAIN (s \o t)
         /\ \A i \in DOMAIN t :
              (s \o t)[Len(s) + i] = t[i] /\ Len(s) + i \in DOMAIN (s \o t)
         /\ \A k \in DOMAIN (s \o t) :
              k \in DOMAIN s \/ \E i \in DOMAIN t : k = Len(s) + i
<1>1. /\ Len(s) \in Nat /\ DOMAIN s = 1 .. Len(s)
      /\ Len(t) \in Nat /\ DOMAIN t = 1 .. Len(t)
      /\ s \o t \in Seq(S)
      /\ Len(s \o t) = Len(s) + Len(t) /\ DOMAIN (s \o t) = 1 .. (Len(s) + Len(t))
  OBVIOUS
<1>2. \A i \in DOMAIN s : (s \o t)[i] = s[i] /\ i \in DOMAIN (s \o t)
  BY <1>1
<1>3. \A i \in DOMAIN t : (s \o t)[Len(s) + i] = t[i] /\ Len(s) + i \in DOMAIN (s \o t)
  BY <1>1
<1>4. ASSUME NEW k \in DOMAIN (s \o t), k \notin DOMAIN s
      PROVE  \E i \in DOMAIN t : k = Len(s) + i
  <2>1. k - Len(s) \in DOMAIN t /\ k = Len(s) + (k - Len(s))
    BY <1>1, <1>4
  <2>2. QED
    BY <2>1
<1>5. QED
  BY <1>1, <1>2, <1>3, <1>4

LEMMA OccurrencesAdd ==
  ASSUME NEW S, NEW s \in Seq(S), NEW t \in Seq(S), NEW p
  PROVE  /\ Never(s, p) /\ Never(t, p) => Never(s \o t, p)
         /\ Never(s, p) /\ Once(t, p) => Once(s \o t, p)
         /\ Once(s, p) /\ Never(t, p) => Once(s \o t, p)
         /\ Once(s, p) /\ Once(t, p) => Twice(s \o t, p)
         /\ Twice(s, p) /\ Never(t, p) => Twice(s \o t, p)
<1> DEFINE u == s \o t
<1>1. /\ Len(s) \in Nat /\ DOMAIN s = 1 .. Len(s)
      /\ Len(t) \in Nat /\ DOMAIN t = 1 .. Len(t)
      /\ \A i \in DOMAIN s : u[i] = s[i] /\ i \in DOMAIN u
      /\ \A i \in DOMAIN t : u[Len(s) + i] = t[i] /\ Len(s) + i \in DOMAIN u
      /\ \A k \in DOMAIN u : k \in DOMAIN s \/ \E i \in DOMAIN t : k = Len(s) + i
  BY Joined
<1>2. \A i \in DOMAIN s, j \in DOMAIN t : i # Len(s) + j
  BY <1>1
<1>3. \A i, j \in DOMAIN t : Len(s) + i = Len(s) + j => i = j
  BY <1>1
<1> HIDE DEF u
<1>4. Never(s, p) /\ Never(t, p) => Never(u, p)
  BY <1>1 DEF Never
<1>5. ASSUME Never(s, p), Once(t, p)
      PROVE  Once(u, p)
  <2>1. PICK j \in DOMAIN t : \A k \in DOMAIN t : t[k] = p <=> k = j
    BY <1>5 DEF Once
  <2>2. \A k \in DOMAIN u : u[k] = p <=> k = Len(s) + j
    BY <1>1, <1>2, <1>3, <1>5, <2>1 DEF Never
  <2>3. QED
    BY <1>1, <2>2 DEF Once
<1>6. ASSUME Once(s, p), Never(t, p)
      PROVE  Once(u, p)
  <2>1. PICK i \in DOMAIN s : \A k \in DOMAIN s : s[k] = p <=> k = i
    BY <1>6 DEF Once
  <2>2. \A k \in DOMAIN u : u[k] = p <=> k = i
    BY <1>1, <1>2, <1>6, <2>1 DEF Never
  <2>3. QED
    BY <1>1, <2>2 DEF Once
<1>7. ASSUME Once(s, p), Once(t, p)
      PROVE  Twice(u, p)
  <2>1. PICK i \in DOMAIN s : \A k \in DOMAIN s : s[k] = p <=> k = i
    BY <1>7 DEF Once
  <2>2. PICK j \in DOMAIN t : \A k \in DOMAIN t : t[k] = p <=> k = j
    BY <1>7 DEF Once
  <2>3. \A k \in DOMAIN u : u[k] = p <=> k \in {i, Len(s) + j}
    BY <1>1, <1>2, <1>3, <2>1, <2>2
  <2>4. i \in DOMAIN u /\ Len(s) + j \in DOMAIN u /\ i # Len(s) + j
    BY <1>1, <1>2
  <2>5. QED
    BY <2>3, <2>4 DEF Twice
<1>8. ASSUME Twice(s, p), Never(t, p)
      PROVE  Twice(u, p)
  <2>1. PICK i, j \in DOMAIN s : i # j /\ \A k \in DOMAIN s : s[k] = p <=> k \in {i, j}
    BY <1>8 DEF Twice
  <2>2. \A k \in DOMAIN u : u[k] = p <=> k \in {i, j}
    BY <1>1, <1>2, <1>8, <2>1 DEF Never
  <2>3. QED
    BY <1>1, <2>1, <2>2 DEF Twice
<1>9. QED
  BY <1>4, <1>5, <1>6, <1>7, <1>8 DEF u

LEMMA TwiceIsTwo ==
  ASSUME NEW s, NEW p, Twice(s, p)
  PROVE  Cardinality({i \in DOMAIN s : s[i] = p}) = 2
<1>1. PICK i, j \in DOMAIN s : i # j /\ \A k \in DOMAIN s : s[k] = p <=> k \in {i, j}
  BY DEF Twice
<1>2. {k \in DOMAIN s : s[k] = p} = {i} \cup {j}
  BY <1>1
<1>3. IsFiniteSet({i}) /\ Cardinality({i}) = 1
  BY FS_Singleton
<1>4. Cardinality({i} \cup {j}) = 2
  BY <1>1, <1>3, FS_AddElement
<1>5. QED
  BY <1>2, <1>4

\* Each phase follows the one before it, among those of P.
Chain(s, P) == \A i \in 1 .. Len(s) - 1 : Follows(s[i], s[i + 1], P)

\* The greatest and the least of a sequence in ascending order are its ends.
LEMMA ListEnds ==
  ASSUME NEW P \in SUBSET Phase, NEW s, Lists(s, P), P # {}
  PROVE  /\ Len(s) \in Nat \ {0} /\ 1 \in DOMAIN s /\ Len(s) \in DOMAIN s
         /\ s[1] \in P /\ s[Len(s)] \in P
         /\ \A x \in P : s[1] <= x /\ x <= s[Len(s)]
<1>1. s \in Seq(P) /\ P \subseteq Nat
  BY DEF Lists, Phase
<1>2. PICK p \in P : TRUE
  OBVIOUS
<1>3. PICK k \in DOMAIN s : s[k] = p
  BY DEF Lists
<1>4. /\ Len(s) \in Nat /\ DOMAIN s = 1 .. Len(s)
      /\ Len(s) \in Nat \ {0} /\ 1 \in DOMAIN s /\ Len(s) \in DOMAIN s
  BY <1>1, <1>3
<1>5. s[1] \in P /\ s[Len(s)] \in P
  BY <1>1, <1>4
<1>6. ASSUME NEW x \in P
      PROVE  s[1] <= x /\ x <= s[Len(s)]
  <2>1. PICK i \in DOMAIN s : s[i] = x
    BY DEF Lists
  <2>2. /\ 1 < i => s[1] < s[i]
        /\ i < Len(s) => s[i] < s[Len(s)]
    BY <1>4 DEF Lists
  <2>3. x \in Nat /\ s[1] \in Nat /\ s[Len(s)] \in Nat
    BY <1>1, <1>5
  <2>4. QED
    BY <1>4, <2>1, <2>2, <2>3
<1>7. QED
  BY <1>4, <1>5, <1>6

\* A sequence in ascending order is a chain when what it leaves out of P is not between.
LEMMA ListChains ==
  ASSUME NEW P \in SUBSET Phase, NEW Q \in SUBSET P, NEW s, Lists(s, Q),
         \A p, q \in Q : \A x \in P : p < x /\ x < q => x \in Q
  PROVE  Chain(s, P)
<1>1. SUFFICES ASSUME NEW i \in 1 .. Len(s) - 1
               PROVE  Follows(s[i], s[i + 1], P)
  BY DEF Chain
<1>2. s \in Seq(Q) /\ Q \subseteq Nat /\ P \subseteq Nat
  BY DEF Lists, Phase
<1>3. i \in DOMAIN s /\ i + 1 \in DOMAIN s /\ i < i + 1
  BY <1>2
<1>4. s[i] < s[i + 1] /\ s[i] \in Q /\ s[i + 1] \in Q
  BY <1>2, <1>3 DEF Lists
<1>5. ASSUME NEW x \in P, s[i] < x, x < s[i + 1]
      PROVE  FALSE
  <2>1. x \in Q
    BY <1>4, <1>5
  <2>2. PICK k \in DOMAIN s : s[k] = x
    BY <2>1 DEF Lists
  <2>3. k \in Nat /\ i \in Nat /\ (k < i \/ k = i \/ k = i + 1 \/ i + 1 < k)
    BY <1>2, <1>3
  <2>4. /\ k < i => s[k] < s[i]
        /\ i + 1 < k => s[i + 1] < s[k]
    BY <1>3 DEF Lists
  <2>5. x \in Nat /\ s[i] \in Nat /\ s[i + 1] \in Nat
    BY <1>2, <1>4
  <2>6. QED
    BY <1>5, <2>2, <2>3, <2>4, <2>5
<1>6. QED
  BY <1>4, <1>5 DEF Follows

LEMMA ChainsJoin ==
  ASSUME NEW P, NEW s \in Seq(Phase), NEW t \in Seq(Phase), Chain(s, P), Chain(t, P),
         Len(s) > 0, Len(t) > 0 => Follows(s[Len(s)], t[1], P)
  PROVE  Chain(s \o t, P)
<1> DEFINE u == s \o t
<1>1. /\ Len(s) \in Nat /\ DOMAIN s = 1 .. Len(s)
      /\ Len(t) \in Nat /\ DOMAIN t = 1 .. Len(t)
      /\ Len(u) = Len(s) + Len(t)
      /\ \A i \in DOMAIN s : u[i] = s[i]
      /\ \A i \in DOMAIN t : u[Len(s) + i] = t[i]
  BY Joined
<1> HIDE DEF u
<1>2. SUFFICES ASSUME NEW i \in 1 .. Len(u) - 1
               PROVE  Follows(u[i], u[i + 1], P)
  BY DEF Chain, u
<1>3. CASE i < Len(s)
  <2>1. i \in DOMAIN s /\ i + 1 \in DOMAIN s /\ i \in 1 .. Len(s) - 1
    BY <1>1, <1>3
  <2>2. u[i] = s[i] /\ u[i + 1] = s[i + 1]
    BY <1>1, <2>1
  <2>3. QED
    BY <2>1, <2>2 DEF Chain
<1>4. CASE i = Len(s)
  <2>1. Len(t) > 0 /\ 1 \in DOMAIN t /\ Len(s) \in DOMAIN s
    BY <1>1, <1>4
  <2>2. u[i] = s[Len(s)] /\ u[i + 1] = t[1]
    BY <1>1, <1>4, <2>1
  <2>3. QED
    BY <2>1, <2>2
<1>5. CASE i > Len(s)
  <2> DEFINE j == i - Len(s)
  <2>1. j \in 1 .. Len(t) - 1 /\ j \in DOMAIN t /\ j + 1 \in DOMAIN t
    BY <1>1, <1>5
  <2>2. i = Len(s) + j /\ i + 1 = Len(s) + (j + 1)
    BY <1>1
  <2> HIDE DEF j
  <2>3. u[i] = t[j] /\ u[i + 1] = t[j + 1]
    BY <1>1, <2>1, <2>2
  <2>4. QED
    BY <2>1, <2>3 DEF Chain
<1>6. i \in Int /\ Len(s) \in Int
  BY <1>1
<1>7. QED
  BY <1>3, <1>4, <1>5, <1>6

\* The starting phase and the rest of its cycle list the phases from there on.
LEMMA FirstCycle ==
  ASSUME NEW P \in SUBSET Phase, NEW first \in P
  PROVE  Lists(<<first>> \o Ascending({p \in P : p > first}), {p \in P : p >= first})
<1> DEFINE A == Ascending({p \in P : p > first})
           Q == {p \in P : p >= first}
           h == <<first>>
           u == h \o A
<1>1. Lists(A, {p \in P : p > first})
  BY AscendingLists
<1>i. P \subseteq Int /\ first \in Int
  BY DEF Phase
<1>2. h \in Seq(Q) /\ A \in Seq(Q) /\ Len(h) = 1 /\ DOMAIN h = {1} /\ h[1] = first
  <2>1. first \in Q
    BY <1>i
  <2>2. {p \in P : p > first} \subseteq Q
    <3>1. \A p \in P : p > first => p >= first
      BY <1>i
    <3>2. QED
      BY <3>1
  <2>3. A \in Seq({p \in P : p > first})
    BY <1>1 DEF Lists
  <2> HIDE DEF A
  <2>4. A \in Seq(Q)
    BY <2>2, <2>3, SeqMonotonic
  <2>5. QED
    BY <2>1, <2>4
<1> HIDE DEF A, h
<1>3. /\ u \in Seq(Q)
      /\ Len(A) \in Nat /\ DOMAIN A = 1 .. Len(A)
      /\ u[1] = first /\ 1 \in DOMAIN u
      /\ \A i \in DOMAIN A : u[1 + i] = A[i] /\ 1 + i \in DOMAIN u
      /\ \A k \in DOMAIN u : k = 1 \/ \E i \in DOMAIN A : k = 1 + i
  BY <1>2, Joined
<1> HIDE DEF u
<1>4. ASSUME NEW p \in Q
      PROVE  \E i \in DOMAIN u : u[i] = p
  <2>1. CASE p = first
    BY <1>3, <2>1
  <2>2. CASE p # first
    <3>1. p \in P /\ p > first
      BY <1>i, <2>2
    <3>2. PICK i \in DOMAIN A : A[i] = p
      BY <1>1, <3>1 DEF Lists
    <3>3. QED
      BY <1>3, <3>2
  <2>3. QED
    BY <2>1, <2>2
<1>5. ASSUME NEW i \in DOMAIN u, NEW j \in DOMAIN u, i < j
      PROVE  u[i] < u[j]
  <2>1. PICK n \in DOMAIN A : j = 1 + n
    <3>1. j # 1
      BY <1>3, <1>5
    <3>2. QED
      BY <1>3, <3>1
  <2>2. u[j] = A[n] /\ A[n] > first
    BY <1>1, <1>3, <2>1 DEF Lists
  <2>3. CASE i = 1
    BY <1>3, <2>2, <2>3
  <2>4. CASE i # 1
    <3>1. PICK m \in DOMAIN A : i = 1 + m
      BY <1>3, <2>4
    <3>2. m < n
      BY <1>3, <1>5, <2>1, <3>1
    <3>3. QED
      BY <1>1, <1>3, <2>2, <3>1, <3>2 DEF Lists
  <2>5. QED
    BY <2>3, <2>4
<1>6. Lists(u, Q)
  BY <1>3, <1>4, <1>5 DEF Lists
<1>7. QED
  BY <1>6 DEF u, h, A

\* To the end of the cycle, a whole cycle and the rest of one: each phase comes up twice,
\* and each is followed by the next one of the cycle.
LEMMA CyclesOfRing ==
  ASSUME NEW P \in SUBSET Phase, NEW first \in P
  PROVE  LET s == <<first>> \o Ascending({p \in P : p > first}) \o Ascending(P)
                    \o Ascending({p \in P : p < first})
         IN  /\ s \in Seq(P)
             /\ \A p \in P : Twice(s, p)
             /\ Chain(s, P)
<1> DEFINE F == <<first>> \o Ascending({p \in P : p > first})
           M == Ascending(P)
           L == Ascending({p \in P : p < first})
           from == {p \in P : p >= first}
           to == {p \in P : p < first}
<1>1. Lists(F, from)
  BY FirstCycle
<1>2. Lists(M, P) /\ Lists(L, to)
  BY AscendingLists
<1>i. P \subseteq Int /\ first \in Int
  BY DEF Phase
<1>3. /\ from \subseteq P /\ to \subseteq P /\ from \in SUBSET Phase /\ to \in SUBSET Phase
      /\ first \in from
      /\ \A p \in P : p \in from <=> p \notin to
  <2>1. \A p \in P : p >= first <=> ~(p < first)
    BY <1>i
  <2>2. first >= first
    BY <1>i
  <2>3. from \in SUBSET P /\ to \in SUBSET P
    OBVIOUS
  <2>4. QED
    BY <2>1, <2>2, <2>3
<1>4. \A x \in P : /\ x \in from <=> x >= first
                   /\ x \in to <=> x < first
  OBVIOUS
<1> HIDE DEF F, M, L, from, to
<1>5. F \in Seq(P) /\ M \in Seq(P) /\ L \in Seq(P)
  <2>1. F \in Seq(from) /\ L \in Seq(to) /\ M \in Seq(P)
    BY <1>1, <1>2 DEF Lists
  <2>2. QED
    BY <1>3, <2>1, SeqMonotonic
<1>6. F \o M \in Seq(P) /\ (F \o M) \o L \in Seq(P)
  BY <1>5, Joined
<1>7. ASSUME NEW p \in P
      PROVE  Twice((F \o M) \o L, p)
  <2>1. Once(M, p)
    BY <1>2, ListedOnce
  <2>2. CASE p \in from
    <3>1. Once(F, p) /\ Never(L, p)
      BY <1>1, <1>2, <1>3, <2>2, ListedOnce
    <3>2. Twice(F \o M, p)
      BY <1>5, <2>1, <3>1, OccurrencesAdd
    <3>3. QED
      BY <1>5, <1>6, <3>1, <3>2, OccurrencesAdd
  <2>3. CASE p \in to
    <3>1. Never(F, p) /\ Once(L, p)
      BY <1>1, <1>2, <1>3, <2>3, ListedOnce
    <3>2. Once(F \o M, p)
      BY <1>5, <2>1, <3>1, OccurrencesAdd
    <3>3. QED
      BY <1>5, <1>6, <3>1, <3>2, OccurrencesAdd
  <2>4. QED
    BY <1>3, <2>2, <2>3
<1>8. Chain(F, P) /\ Chain(M, P) /\ Chain(L, P)
  <2>1. \A p, q \in from : \A x \in P : p < x /\ x < q => x \in from
    BY <1>i, <1>3, <1>4
  <2>2. \A p, q \in to : \A x \in P : p < x /\ x < q => x \in to
    BY <1>i, <1>3, <1>4
  <2>3. Chain(F, P)
    BY <1>1, <1>3, <2>1, ListChains
  <2>4. Chain(L, P)
    BY <1>2, <1>3, <2>2, ListChains
  <2>5. Chain(M, P)
    BY <1>2, ListChains
  <2>6. QED
    BY <2>3, <2>4, <2>5
\* The last phase of a ring is followed by its first one.
<1>9. /\ Len(F) \in Nat \ {0} /\ F[Len(F)] \in from
      /\ \A x \in from : x <= F[Len(F)]
  BY <1>1, <1>3, ListEnds
<1>10. /\ Len(M) \in Nat \ {0} /\ M[1] \in P /\ M[Len(M)] \in P
       /\ \A x \in P : M[1] <= x /\ x <= M[Len(M)]
  <2>1. P # {}
    OBVIOUS
  <2>2. QED
    BY <1>2, <2>1, ListEnds
<1>11. Follows(F[Len(F)], M[1], P)
  <2> DEFINE p == F[Len(F)]
             q == M[1]
  <2>1. p \in P /\ p \in Int /\ q \in Int /\ p >= first
    BY <1>i, <1>3, <1>4, <1>9, <1>10
  <2>2. \A x \in P : x \in Int /\ x <= p /\ q <= x
    BY <1>i, <1>3, <1>4, <1>9, <1>10, <2>1
  <2> HIDE DEF p, q
  <2>3. Follows(p, q, P)
    BY <2>1, <2>2 DEF Follows
  <2>4. QED
    BY <2>3 DEF p, q
<1>12. Chain(F \o M, P)
  <2>1. F \in Seq(Phase) /\ M \in Seq(Phase)
    BY <1>5, SeqMonotonic
  <2>2. QED
    BY <1>8, <1>9, <1>11, <2>1, ChainsJoin
<1>13. /\ Len(F \o M) > 0
       /\ (F \o M)[Len(F \o M)] = M[Len(M)]
  <2>1. /\ Len(F \o M) = Len(F) + Len(M) /\ DOMAIN M = 1 .. Len(M)
        /\ \A i \in DOMAIN M : (F \o M)[Len(F) + i] = M[i]
    BY <1>5, Joined
  <2>2. QED
    BY <1>9, <1>10, <2>1
<1>14. Len(L) > 0 => Follows(M[Len(M)], L[1], P)
  <2>1. SUFFICES ASSUME Len(L) > 0
                 PROVE  Follows(M[Len(M)], L[1], P)
    OBVIOUS
  <2> DEFINE p == M[Len(M)]
             q == L[1]
  <2>2. to # {}
    <3>1. L \in Seq(to) /\ 1 \in DOMAIN L
      BY <1>2, <1>5, <2>1 DEF Lists
    <3>2. QED
      BY <3>1
  <2>3. q \in to /\ \A x \in to : q <= x
    BY <1>2, <1>3, <2>2, ListEnds
  <2>4. q \in P /\ q < first /\ p \in P
    BY <1>3, <1>4, <1>10, <2>3
  <2> HIDE DEF p
  <2>5. ASSUME NEW x \in P
        PROVE  x \in Int /\ x <= p /\ q <= x
    <3>1. x \in Int /\ q \in Int /\ x <= p
      BY <1>i, <1>10, <2>4 DEF p
    <3>2. CASE x \in to
      BY <2>3, <3>1, <3>2
    <3>3. CASE x >= first
      BY <1>i, <2>4, <3>1, <3>3
    <3>4. QED
      BY <1>3, <1>4, <3>1, <3>2, <3>3
  <2> HIDE DEF q
  <2>6. p \in Int /\ q \in Int /\ q <= p
    BY <1>i, <2>4, <2>5
  <2>7. Follows(p, q, P)
    BY <2>5, <2>6 DEF Follows
  <2>8. QED
    BY <2>7 DEF p, q
<1>15. Chain((F \o M) \o L, P)
  <2>1. F \o M \in Seq(Phase) /\ L \in Seq(Phase)
    BY <1>5, <1>6, SeqMonotonic
  <2>2. QED
    BY <1>8, <1>12, <1>13, <1>14, <2>1, ChainsJoin
<1>16. QED
  BY <1>6, <1>7, <1>15 DEF F, M, L, to

-----------------------------------------------------------------------------
(* What is scheduled *)

\* Every request that is kept is for a phase of the plan: one at which a ring starts, a
\* through phase, or one of an approach all of whose through phases are planned.
ScheduleInv ==
  /\ start \in Starts(active)
  /\ stage \in {"plan", "model", "scheduled"} =>
       /\ \A r \in priorityRequestList :
            r.requestedPhase \in requestedSignalGroup \cup startingPhases
       /\ requestedSignalGroup \subseteq Phase
       /\ \A p \in requestedSignalGroup :
            \/ p \in startingPhases \/ Through(p)
            \/ p \in UNION emergencies /\ EmergencyVehicle \notin weightless
  /\ stage = "scheduled" =>
       plannedSignalGroup = <<obtainRequiredSignalGroup(1, start[1]),
                              obtainRequiredSignalGroup(2, start[2])>>

LEMMA DummiesAreThrough ==
  ASSUME NEW R
  PROVE  \A p \in Management(R).dummy : p \in Phase /\ Through(p)
<1>1. Management(R).dummy \subseteq {2, 4, 6, 8}
  BY DEF Management, Nothing
<1>2. \A p \in {2, 4, 6, 8} : p \in Phase /\ Through(p)
  BY Geometry DEF Through
<1>3. QED
  BY <1>1, <1>2

\* With the left turn of an approach goes its through phase.
LEMMA AssociatedOfApproach ==
  ASSUME NEW a \in Approaches, NEW p \in a, ~Through(p)
  PROVE  Associated(p) \in a /\ Through(Associated(p))
BY DEF Approaches, Associated, Through

LEMMA ManageSchedule ==
  ASSUME PlanInv, ScheduleInv, managePriorityRequestListForEV
  PROVE  ScheduleInv'
<1> DEFINE R == getRequestedSignalGroup(priorityRequestList)
           m == Management(R)
<1>1. /\ stage = "manage" /\ stage' = "plan" /\ weightless' = weightless
      /\ active' = active /\ emergencies' = emergencies /\ start' = start
      /\ priorityRequestList' = {r \in priorityRequestList : r.requestedPhase \notin m.remove}
      /\ requestedSignalGroup' = getRequestedSignalGroup(priorityRequestList') \cup m.dummy
  BY DEF managePriorityRequestListForEV, inputs
<1> HIDE DEF m
<1>2. ASSUME NEW r \in priorityRequestList
      PROVE  /\ \/ r.requestedPhase \in startingPhases
                \/ r.requestedPhase \in UNION emergencies /\ EmergencyVehicle \notin weightless
             /\ r.requestedPhase \in Phase
  <2>1. \/ r.requestedPhase \in startingPhases
        \/ r.requestedPhase \in UNION emergencies /\ EmergencyVehicle \notin weightless
    BY <1>1 DEF PlanInv, OtherInv
  <2>2. startingPhases \subseteq Phase
    BY Geometry DEF PlanInv, StartInv, startingPhases
  <2>3. UNION emergencies \subseteq Phase
    BY <1>1, ApproachHasThrough DEF PlanInv, EmergencyInv, HasList
  <2>4. QED
    BY <2>1, <2>2, <2>3
<1>3. ASSUME NEW r \in priorityRequestList'
      PROVE  r.requestedPhase \in requestedSignalGroup' \cup startingPhases
  <2>1. SUFFICES ASSUME r.requestedPhase \in UNION emergencies,
                        EmergencyVehicle \notin weightless
                 PROVE  r.requestedPhase \in requestedSignalGroup'
    BY <1>1, <1>2, <1>3
  <2> DEFINE e == Emergency(r.requestedPhase)
  <2>2. /\ e.requestedPhase = r.requestedPhase
        /\ e.vehicleType # CoordinationVehicleType
    BY DEF Emergency, EmergencyVehicle, CoordinationVehicleType
  <2>3. e \in priorityRequestList
    BY <1>1, <2>1 DEF PlanInv, EmergencyInv, HasList
  <2> HIDE DEF e
  <2>4. e \in priorityRequestList'
    BY <1>1, <1>3, <2>2, <2>3
  <2>5. QED
    BY <1>1, <2>2, <2>4 DEF getRequestedSignalGroup
<1>4. ASSUME NEW p \in requestedSignalGroup'
      PROVE  /\ p \in Phase
             /\ \/ p \in startingPhases \/ Through(p)
                \/ p \in UNION emergencies /\ EmergencyVehicle \notin weightless
  <2>1. CASE p \in m.dummy
    BY <2>1, DummiesAreThrough DEF m
  <2>2. CASE p \in getRequestedSignalGroup(priorityRequestList')
    <3>1. PICK r \in priorityRequestList' : p = r.requestedPhase
      BY <2>2 DEF getRequestedSignalGroup
    <3>2. QED
      BY <1>1, <1>2, <3>1
  <2>3. QED
    BY <1>1, <1>4, <2>1, <2>2
<1>5. startingPhases' = startingPhases
  BY <1>1 DEF startingPhases
<1>6. QED
  BY <1>1, <1>3, <1>4, <1>5 DEF ScheduleInv

LEMMA ScheduleStep == PlanInv /\ ScheduleInv /\ [Next]_vars => ScheduleInv'
<1>1. SUFFICES ASSUME PlanInv, ScheduleInv, [Next]_vars
               PROVE  ScheduleInv'
  OBVIOUS
<1>2. CASE ReceiveList
  BY <1>1, <1>2 DEF ReceiveList, ScheduleInv
<1>3. CASE setDilemmaZoneRequesStatus \/ modifyPriorityRequestList
  BY <1>1, <1>3 DEF setDilemmaZoneRequesStatus, modifyPriorityRequestList, inputs, ScheduleInv
<1>4. CASE managePriorityRequestListForEV
  BY <1>1, <1>4, ManageSchedule
<1>5. CASE getEVPhases
  BY <1>1, <1>5 DEF getEVPhases, inputs, ScheduleInv, startingPhases
<1>6. CASE createEventList
  <2>1. /\ stage = "model" /\ stage' = "scheduled" /\ weightless' = weightless
        /\ priorityRequestList' = priorityRequestList
        /\ active' = active /\ emergencies' = emergencies /\ start' = start
        /\ requestedSignalGroup' = requestedSignalGroup
        /\ plannedEVPhases' = plannedEVPhases
        /\ plannedSignalGroup' = <<obtainRequiredSignalGroup(1, start[1]),
                                   obtainRequiredSignalGroup(2, start[2])>>
    BY <1>6 DEF createEventList, inputs
  <2>2. startingPhases' = startingPhases /\ minGreenIsPositive' = minGreenIsPositive
    BY <2>1 DEF startingPhases, minGreenIsPositive
  <2>3. /\ obtainRequiredSignalGroup(1, start[1])' = obtainRequiredSignalGroup(1, start[1])
        /\ obtainRequiredSignalGroup(2, start[2])' = obtainRequiredSignalGroup(2, start[2])
    BY <2>1, <2>2 DEF obtainRequiredSignalGroup
  <2>4. QED
    BY <1>1, <2>1, <2>2, <2>3 DEF ScheduleInv
<1>7. CASE SolverDataUndefined \/ ScheduleNothing \/ FinishList
  BY <1>1, <1>7 DEF SolverDataUndefined, ScheduleNothing, FinishList, inputs, ScheduleInv
<1>8. CASE UNCHANGED vars
  <2>1. /\ stage' = stage /\ weightless' = weightless
        /\ priorityRequestList' = priorityRequestList
        /\ active' = active /\ emergencies' = emergencies /\ start' = start
        /\ requestedSignalGroup' = requestedSignalGroup
        /\ plannedEVPhases' = plannedEVPhases
        /\ plannedSignalGroup' = plannedSignalGroup
    BY <1>8 DEF vars
  <2>2. startingPhases' = startingPhases /\ minGreenIsPositive' = minGreenIsPositive
    BY <2>1 DEF startingPhases, minGreenIsPositive
  <2>3. /\ obtainRequiredSignalGroup(1, start[1])' = obtainRequiredSignalGroup(1, start[1])
        /\ obtainRequiredSignalGroup(2, start[2])' = obtainRequiredSignalGroup(2, start[2])
    BY <2>1, <2>2 DEF obtainRequiredSignalGroup
  <2>4. QED
    BY <1>1, <2>1, <2>2, <2>3 DEF ScheduleInv
<1>9. QED
  BY <1>1, <1>2, <1>3, <1>4, <1>5, <1>6, <1>7, <1>8 DEF Next

LEMMA ScheduleInvariant == Spec => []ScheduleInv
<1>1. Init => ScheduleInv
  BY DEF Init, ScheduleInv
<1>2. QED
  BY <1>1, PlanInvariant, ScheduleStep, PTL DEF Spec

\* Every planned phase has a green time, its own or its approach's (validateEVTrafficSignalPlan).
LEMMA EveryPhaseHasGreen ==
  ASSUME PlanInv, ScheduleInv, stage = "scheduled"
  PROVE  /\ minGreenIsPositive = plannedEVPhases /\ plannedEVPhases \subseteq Phase
         /\ start[1] \in plannedEVPhases \cap Ring(1)
         /\ start[2] \in plannedEVPhases \cap Ring(2)
<1>1. plannedEVPhases = requestedSignalGroup \cup startingPhases
  BY DEF PlanInv, PlannedInv
<1>2. /\ {2, 4, 6, 8} \subseteq HasGreen(active)
      /\ start[1] \in HasGreen(active) /\ start[2] \in HasGreen(active)
  BY PlanAssumption DEF PlanInv, StartInv, ScheduleInv
<1>3. /\ start[1] \in Ring(1) /\ start[2] \in Ring(2)
      /\ startingPhases = {start[1], start[2]} /\ startingPhases \subseteq Phase
  BY Geometry DEF PlanInv, StartInv, startingPhases
<1>4. plannedEVPhases \subseteq Phase
  BY <1>1, <1>3 DEF ScheduleInv
<1>5. ASSUME NEW p \in plannedEVPhases
      PROVE  \/ p \in HasGreen(active)
             \/ Associated(p) \in plannedEVPhases \cap HasGreen(active)
  <2>1. \A q \in Phase : Through(q) => q \in {2, 4, 6, 8}
    BY Geometry DEF Through
  <2>2. CASE p \in startingPhases \/ Through(p)
    BY <1>2, <1>3, <1>4, <2>1, <2>2
  <2>3. CASE p \in UNION emergencies /\ EmergencyVehicle \notin weightless /\ ~Through(p)
    <3>1. PICK a \in emergencies : p \in a
      BY <2>3
    <3>2. a \in Approaches
      BY <3>1 DEF PlanInv, EmergencyInv, HasList
    <3>3. Associated(p) \in a /\ Through(Associated(p))
      BY <2>3, <3>1, <3>2, AssociatedOfApproach
    <3>4. Associated(p) \in requestedSignalGroup
      BY <2>3, <3>1, <3>3 DEF PlanInv, PlannedInv
    <3>5. QED
      BY <1>1, <1>2, <1>4, <2>1, <3>3, <3>4
  <2>4. QED
    BY <1>1, <2>2, <2>3 DEF ScheduleInv
<1>6. minGreenIsPositive = plannedEVPhases
  BY <1>5 DEF minGreenIsPositive
<1>7. QED
  BY <1>1, <1>3, <1>4, <1>6

\* The order in which a ring goes through its phases.
LEMMA SequenceOfRing ==
  ASSUME PlanInv, ScheduleInv, stage = "scheduled", NEW r \in {1, 2}
  PROVE  LET P == plannedEVPhases \cap Ring(r)
             s == plannedSignalGroup[r]
         IN  s \in Seq(P) /\ (\A p \in P : Twice(s, p)) /\ Chain(s, P)
<1> DEFINE P == plannedEVPhases \cap Ring(r)
           s == plannedSignalGroup[r]
<1>1. /\ minGreenIsPositive = plannedEVPhases /\ plannedEVPhases \subseteq Phase
      /\ start[r] \in P
  <2>1. r = 1 \/ r = 2
    OBVIOUS
  <2>2. QED
    BY <2>1, EveryPhaseHasGreen
<1>2. PICK first \in P : first = start[r]
  BY <1>1
<1>3. s = <<first>> \o Ascending({p \in P : p > first}) \o Ascending(P)
            \o Ascending({p \in P : p < first})
  <2>1. s = obtainRequiredSignalGroup(r, first)
    BY <1>2 DEF ScheduleInv
  <2>2. QED
    BY <1>1, <2>1 DEF obtainRequiredSignalGroup
<1>4. P \in SUBSET Phase
  BY <1>1
<1> HIDE DEF P, s
<1>5. s \in Seq(P) /\ (\A p \in P : Twice(s, p)) /\ Chain(s, P)
  <2> DEFINE u == <<first>> \o Ascending({p \in P : p > first}) \o Ascending(P)
                    \o Ascending({p \in P : p < first})
  <2>1. u \in Seq(P) /\ (\A p \in P : Twice(u, p)) /\ Chain(u, P)
    BY <1>4, CyclesOfRing
  <2>2. s = u
    BY <1>3
  <2> HIDE DEF u
  <2>3. QED
    BY <2>1, <2>2
<1>6. QED
  BY <1>5 DEF P, s

-----------------------------------------------------------------------------
(* The theorems *)

\* Once a request was counted, both rings have a phase on each side of the barrier, so the
\* model that is written for the solver lacks no set and no greatest element is taken of
\* an empty vector, for all phases, requests and weights.
THEOREM PlansHaveNoGap == Spec => []EveryGroupHasAPhase
<1>1. PlanInv => EveryGroupHasAPhase
  <2>1. SUFFICES ASSUME PlanInv, stage \in {"model", "scheduled"}, noOfEVInList,
                        NEW r \in {1, 2}, NEW b \in {1, 2}
                 PROVE  plannedEVPhases \cap Ring(r) \cap Barrier(b) # {}
    BY DEF EveryGroupHasAPhase
  <2>2. plannedEVPhases = requestedSignalGroup \cup startingPhases
    BY <2>1 DEF PlanInv, PlannedInv
  <2>3. Covers(requestedSignalGroup \cup startingPhases, b)
    BY <2>1 DEF PlanInv, GroupInv
  <2>4. QED
    BY <2>1, <2>2, <2>3 DEF Covers
<1>2. QED
  BY <1>1, PlanInvariant, PTL

\* Every emergency vehicle of the list keeps the through phase of its approach in the
\* plan, called and not omitted, as long as its type has weight.
THEOREM EmergenciesAreServed == Spec => []EveryEmergencyIsServed
<1>1. PlanInv => EveryEmergencyIsServed
  <2>1. SUFFICES ASSUME PlanInv, stage = "scheduled", EmergencyVehicle \notin weightless,
                        NEW approach \in emergencies
                 PROVE  \E p \in approach :
                          p % 2 = 0 /\ p \in callPhases /\ p \in plannedEVPhases \ omitPhases
    BY DEF EveryEmergencyIsServed
  <2>2. approach \in Approaches
    BY <2>1 DEF PlanInv, EmergencyInv, HasList
  <2>3. PICK p \in approach : Through(p)
    BY <2>2, ApproachHasThrough
  <2>4. p \in UNION emergencies
    BY <2>1
  <2>5. Emergency(p) \in priorityRequestList
    BY <2>1, <2>3, <2>4 DEF PlanInv, EmergencyInv, HasList
  <2>6. p \in callPhases
    <3>1. Emergency(p).requestedPhase = p
      BY DEF Emergency
    <3>2. callPhases = {r.requestedPhase : r \in priorityRequestList}
      BY <2>1 DEF PlanInv, PlannedInv
    <3>3. QED
      BY <2>5, <3>1, <3>2
  <2>7. p \in plannedEVPhases \ omitPhases
    BY <2>1, <2>3, <2>4 DEF PlanInv, PlannedInv
  <2>8. QED
    BY <2>3, <2>6, <2>7 DEF Through
<1>2. QED
  BY <1>1, PlanInvariant, PTL

\* No call is for a phase that the same schedule omits, no ring starts with one, and none
\* comes up in its order, for all intersections, requests and weights.
THEOREM CallsAreKept == Spec => []NoCallIsOmitted
<1>1. PlanInv /\ ScheduleInv => NoCallIsOmitted
  <2>1. SUFFICES ASSUME PlanInv, ScheduleInv, stage = "scheduled"
                 PROVE  /\ callPhases \cap omitPhases = {} /\ startingPhases \cap omitPhases = {}
                        /\ \A r \in {1, 2} : \A i \in DOMAIN plannedSignalGroup[r] :
                             plannedSignalGroup[r][i] \notin omitPhases
    BY DEF NoCallIsOmitted
  <2>2. /\ plannedEVPhases = requestedSignalGroup \cup startingPhases
        /\ callPhases = {r.requestedPhase : r \in priorityRequestList}
        /\ omitPhases = Phase \ plannedEVPhases
    BY <2>1 DEF PlanInv, PlannedInv
  <2>3. callPhases \cap omitPhases = {} /\ startingPhases \cap omitPhases = {}
    BY <2>1, <2>2 DEF ScheduleInv
  <2>4. ASSUME NEW r \in {1, 2}, NEW i \in DOMAIN plannedSignalGroup[r]
        PROVE  plannedSignalGroup[r][i] \notin omitPhases
    <3>1. plannedSignalGroup[r] \in Seq(plannedEVPhases \cap Ring(r))
      BY <2>1, SequenceOfRing
    <3>2. plannedSignalGroup[r][i] \in plannedEVPhases
      BY <3>1, ElementOfSeq
    <3>3. QED
      BY <2>2, <3>2
  <2>5. QED
    BY <2>3, <2>4
<1>2. QED
  BY <1>1, PlanInvariant, ScheduleInvariant, PTL

\* Each planned phase of a ring comes up exactly twice, and each is followed by the next
\* planned one of the cycle, wherever the ring starts.
THEOREM RingsGoRoundTwice == Spec => []TwoCycles
<1>1. PlanInv /\ ScheduleInv => TwoCycles
  <2>1. SUFFICES ASSUME PlanInv, ScheduleInv, stage = "scheduled", NEW r \in {1, 2}
                 PROVE  LET s == plannedSignalGroup[r]
                            P == plannedEVPhases \cap Ring(r)
                        IN  /\ \A p \in P : Cardinality({i \in DOMAIN s : s[i] = p}) = 2
                            /\ \A i \in 1 .. Len(s) - 1 : Follows(s[i], s[i + 1], P)
    BY DEF TwoCycles
  <2> DEFINE s == plannedSignalGroup[r]
             P == plannedEVPhases \cap Ring(r)
  <2>2. (\A p \in P : Twice(s, p)) /\ Chain(s, P)
    BY <2>1, SequenceOfRing
  <2> HIDE DEF s, P
  <2>3. /\ \A p \in P : Cardinality({i \in DOMAIN s : s[i] = p}) = 2
        /\ \A i \in 1 .. Len(s) - 1 : Follows(s[i], s[i + 1], P)
    BY <2>2, TwiceIsTwo DEF Chain
  <2>4. QED
    BY <2>3 DEF s, P
<1>2. QED
  BY <1>1, PlanInvariant, ScheduleInvariant, PTL
==============================================================================
