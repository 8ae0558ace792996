----------------------- MODULE PriorityRequestGenerator -----------------------
(***************************************************************************)
(* The Priority Request Generators (PRG) of the vehicles.  Each locates  *)
(* its vehicle on a received map ten times a second, decides whether a     *)
(* Signal Request Message (SRM) is due, and keeps the Active Request Table  *)
(* (ART) of the last Signal Status Message (SSM) of the intersection.      *)
(*                                                                         *)
(* One action is one datagram of the main loop.  The MAP engine is outside: *)
(* where it places the vehicle, on which signal group, is an input, and so *)
(* is whether speed or ETA have moved by their thresholds since the last   *)
(* SRM.  Time stamps are ages that stop growing at the largest threshold   *)
(* they are compared with.  The main loop hands its MapManager over by     *)
(* value, so nothing but a MAP message ever changes it.                    *)
(***************************************************************************)
EXTENDS Integers, FiniteSets

CONSTANTS
  Generator,          \* the vehicles
  IDs,                \* the temporary IDs that a vehicle goes by, over time
  RoleOf,             \* the basicVehicleRole of each temporary ID
  Phase,              \* signal groups of the inbound lanes
  Intersection,       \* the intersections whose maps are broadcast
  SRM_TIME_GAP_VALUE, requestTimedOutValue,
  MapCheckPeriod,     \* counter_VehicleInMap is compared with it
  maxMsgCount

minMsgCount == 1
NoMap == "noMap"
NoGroup == 0

Vehicle == UNION {IDs[g] : g \in Generator}

ASSUME GeneratorAssumption ==
  /\ IDs \in [Generator -> SUBSET Nat] /\ \A g \in Generator : IDs[g] # {}
  /\ Phase \subseteq Nat \ {NoGroup}
  /\ NoMap \notin Intersection
  /\ SRM_TIME_GAP_VALUE \in Nat
  /\ requestTimedOutValue \in Nat /\ requestTimedOutValue >= SRM_TIME_GAP_VALUE
  /\ MapCheckPeriod \in Nat /\ maxMsgCount \in Nat \ {0}

\* mapLocType, of which the code tells three apart.
Place == {"onInbound", "insideIntersectionBox", "elsewhere"}

VARIABLES
  prg,     \* the generators' attributes
  air      \* the SRMs on their way to a roadside

prgVars == <<prg, air>>

SRM ==
  [ vehicleID : Vehicle, intersectionID : Intersection, signalGroup : Phase \cup {NoGroup},
    priorityRequestType : {"priorityRequest", "requestUpdate", "priorityCancellation"},
    msgCount : 0 .. maxMsgCount ]

\* ART and msgCount: 0 stands for a vehicle that is not in the table.  "heard"
\* marks a generator that has had a BSM in the current unit of time.
GeneratorState ==
  [ available : SUBSET Intersection,            \* availableMapList
    activeMap : Intersection \cup {NoMap},      \* the front of activeMapList
    intersectionID : Intersection \cup {NoMap},
    ART : [Vehicle -> 0 .. maxMsgCount],
    temporaryVehicleID : Vehicle,
    msgCount : 0 .. maxMsgCount,
    signalGroup : Phase \cup {NoGroup},
    tempVehicleSignalGroup : Phase \cup {NoGroup},
    counter_VehicleInMap : 0 .. MapCheckPeriod + 1,
    lightSirenStatus : BOOLEAN, busStopPassedStatus : BOOLEAN,
    requestSendStatus : BOOLEAN,
    srmAge : 0 .. requestTimedOutValue,         \* time since srmSendingTime
    heard : BOOLEAN ]

EmptyART == [id \in Vehicle |-> 0]

Started(id) ==
  [ available |-> {}, activeMap |-> NoMap, intersectionID |-> NoMap,
    ART |-> EmptyART, temporaryVehicleID |-> id, msgCount |-> 0,
    signalGroup |-> NoGroup, tempVehicleSignalGroup |-> NoGroup,
    counter_VehicleInMap |-> 0, lightSirenStatus |-> FALSE,
    busStopPassedStatus |-> FALSE, requestSendStatus |-> FALSE,
    srmAge |-> requestTimedOutValue, heard |-> FALSE ]

PrgInit ==
  /\ prg \in {[g \in Generator |-> Started(first[g])] :
                first \in {f \in [Generator -> Vehicle] : \A g \in Generator : f[g] \in IDs[g]}}
  /\ air = {}

-----------------------------------------------------------------------------
(* Where the vehicle is: getVehicleInformationFromMAP *)

\* What a BSM and the MAP engine say: the ID, the intersection the vehicle is
\* near, its place and signal group there; whether it is past the bus stop of
\* its approach; whether speed or ETA have moved by their thresholds.
BSM(g) == [ id : IDs[g], near : Intersection, place : Place, group : Phase,
            pastBusStop : BOOLEAN, moved : BOOLEAN ]

\* createActiveMapList: the first available map that has the vehicle inbound.
createActiveMapList(p, bsm) ==
  IF p.activeMap # NoMap THEN p.activeMap
  ELSE IF bsm.near \in p.available /\ bsm.place = "onInbound" THEN bsm.near
  ELSE NoMap

OffTheMap(p) ==
  [p EXCEPT !.activeMap = NoMap, !.ART = EmptyART, !.intersectionID = NoMap,
            !.signalGroup = NoGroup, !.requestSendStatus = FALSE]

\* Off the inbound lanes the signal group means nothing.
OnTheMap(p, bsm) ==
  [p EXCEPT !.intersectionID = p.activeMap, !.temporaryVehicleID = bsm.id,
            !.signalGroup = IF bsm.place = "onInbound" THEN bsm.group ELSE NoGroup]

\* Whether the vehicle is still inbound is looked at once in a while only.
Located(p, bsm) ==
  IF p.activeMap = NoMap THEN p
  ELSE IF p.counter_VehicleInMap > MapCheckPeriod
    THEN LET q == [p EXCEPT !.counter_VehicleInMap = 0]
         IN  IF bsm.place = "onInbound" THEN OnTheMap(q, bsm) ELSE OffTheMap(q)
    ELSE [OnTheMap(p, bsm) EXCEPT !.counter_VehicleInMap = @ + 1]

\* On an approach without a bus stop, and off the map, every stop is passed.
checkPassedNearestBusStop(p, bsm) ==
  [p EXCEPT !.busStopPassedStatus =
     IF RoleOf[p.temporaryVehicleID] = "transit"
       THEN p.intersectionID = NoMap \/ bsm.pastBusStop ELSE @]

getVehicleInformationFromMAP(p, bsm) ==
  checkPassedNearestBusStop(
    Located([p EXCEPT !.activeMap = createActiveMapList(p, bsm)], bsm), bsm)

-----------------------------------------------------------------------------
(* Whether an SRM is due: checkRequestSendingRequirement *)

ActiveMapStatus(p) == p.activeMap # NoMap
Listed(p) == p.ART[p.temporaryVehicleID] # 0

Eligible(p) ==
  CASE RoleOf[p.temporaryVehicleID] = "fire"    -> p.lightSirenStatus
    [] RoleOf[p.temporaryVehicleID] = "transit" -> p.busStopPassedStatus
    [] RoleOf[p.temporaryVehicleID] = "truck"   -> TRUE
    [] OTHER                                    -> FALSE

\* Comparing with the disjunction of three enumerators compares with 1, which
\* is insideIntersectionBox: the other two places do not count as leaving.
Cancels(p, bsm) ==
  \/ ~ActiveMapStatus(p) /\ Listed(p)
  \/ ActiveMapStatus(p) /\ bsm.place = "insideIntersectionBox"
  \/ ~Eligible(p) /\ Listed(p)

Asks(p, bsm) == ActiveMapStatus(p) /\ Eligible(p) /\ bsm.place = "onInbound"

\* Mutant: the time-out of the server is not thought of.
SomethingNewOnly(p, bsm) ==
  \/ p.tempVehicleSignalGroup # p.signalGroup \/ bsm.moved
  \/ p.ART[p.temporaryVehicleID] # p.msgCount

SomethingNew(p, bsm) ==
  \/ p.tempVehicleSignalGroup # p.signalGroup \/ bsm.moved
  \/ p.ART[p.temporaryVehicleID] # p.msgCount
  \/ p.srmAge >= requestTimedOutValue

Requests(p, bsm) ==
  IF p.srmAge < SRM_TIME_GAP_VALUE THEN {}
  ELSE IF ~Listed(p) THEN {"priorityRequest"}
  ELSE IF SomethingNew(p, bsm) THEN {"requestUpdate"} ELSE {}

\* The type of the SRM that is due, or none.  Other kinds of vehicle never ask.
checkRequestSendingRequirement(p, bsm) ==
  IF RoleOf[p.temporaryVehicleID] \notin {"fire", "transit", "truck"} THEN {}
  ELSE IF Cancels(p, bsm) THEN {"priorityCancellation"}
  ELSE IF Asks(p, bsm) THEN Requests(p, bsm)
  ELSE {}

-----------------------------------------------------------------------------
(* The SRM: createSRMJsonString *)

\* Mutant: the count is never advanced.
FirstCount(count) == minMsgCount

NextCount(count) == IF count < maxMsgCount THEN count + 1 ELSE minMsgCount

\* clearActiveMapInformation
Cancelled(p) ==
  [p EXCEPT !.activeMap = NoMap, !.ART = EmptyART, !.intersectionID = NoMap,
            !.requestSendStatus = FALSE, !.busStopPassedStatus = FALSE]

Sent(p, type) ==
  LET q == [p EXCEPT !.msgCount = NextCount(@), !.srmAge = 0,
                     !.tempVehicleSignalGroup = p.signalGroup,
                     !.requestSendStatus = TRUE]
  IN  IF type = "priorityCancellation" THEN Cancelled(q) ELSE q

createSRMJsonString(p, type) ==
  [ vehicleID |-> p.temporaryVehicleID, intersectionID |-> p.intersectionID,
    signalGroup |-> p.signalGroup, priorityRequestType |-> type,
    msgCount |-> NextCount(p.msgCount) ]

-----------------------------------------------------------------------------
(* The datagrams of the main loop *)

ReceiveBSM(g, bsm) ==
  LET p   == getVehicleInformationFromMAP(prg[g], bsm)
      due == checkRequestSendingRequirement(p, bsm)
  IN  \/ /\ due = {}
         /\ prg' = [prg EXCEPT ![g] = [p EXCEPT !.heard = TRUE]]
         /\ UNCHANGED air
      \/ \E type \in due :
           /\ prg' = [prg EXCEPT ![g] = [Sent(p, type) EXCEPT !.heard = TRUE]]
           /\ air' = air \cup {createSRMJsonString(p, type)}

\* Mutant: an SSM of the intersection that was left is still taken.
ReceiveAnySSM(g, intersection, listed) ==
  /\ prg' = [prg EXCEPT ![g].ART = listed]
  /\ UNCHANGED air

\* creatingSignalRequestTable: the table is made anew from the SSM.
ReceiveSSM(g, intersection, listed) ==
  /\ prg' = IF prg[g].intersectionID = intersection
            THEN [prg EXCEPT ![g].ART = listed] ELSE prg
  /\ UNCHANGED air

\* maintainAvailableMapList
ReceiveMAP(g, intersection) ==
  /\ prg' = [prg EXCEPT ![g].available = @ \cup {intersection}]
  /\ UNCHANGED air

\* setLightSirenStatus does nothing in a vehicle of another type.
ReceiveLightSirenStatus(g, on) ==
  /\ RoleOf[prg[g].temporaryVehicleID] = "fire"
  /\ prg' = [prg EXCEPT ![g].lightSirenStatus = on]
  /\ UNCHANGED air

\* The process is started again.
RestartGenerator(g) ==
  /\ prg' = [prg EXCEPT ![g] = Started(prg[g].temporaryVehicleID)]
  /\ UNCHANGED air

\* An SRM arrives at the roadside, or is lost.
Depart(srm) == srm \in air /\ air' = air \ {srm} /\ UNCHANGED prg

Older(age) == IF age < requestTimedOutValue THEN age + 1 ELSE age

\* A unit of time passes: every vehicle has sent a BSM, and no SRM is under way.
PrgTick ==
  /\ \A g \in Generator : prg[g].heard
  /\ air = {}
  /\ prg' = [g \in Generator |->
               [prg[g] EXCEPT !.srmAge = Older(@), !.heard = FALSE]]
  /\ UNCHANGED air

PrgNext ==
  \/ \E g \in Generator :
       \/ \E bsm \in BSM(g) : ReceiveBSM(g, bsm)
       \/ \E intersection \in Intersection, listed \in [Vehicle -> 0 .. maxMsgCount] :
            ReceiveSSM(g, intersection, listed)
       \/ \E intersection \in Intersection : ReceiveMAP(g, intersection)
       \/ \E on \in BOOLEAN : ReceiveLightSirenStatus(g, on)
       \/ RestartGenerator(g)
  \/ \E srm \in air : Depart(srm)
  \/ PrgTick

PrgSpec == PrgInit /\ [][PrgNext]_prgVars

-----------------------------------------------------------------------------
(* Properties *)

PrgTypeOK == prg \in [Generator -> GeneratorState] /\ air \subseteq SRM

\* A vehicle that is off the map knows of no request of its own and shows none
\* to its driver: whatever SSMs arrive late, it starts the next approach with an
\* empty table (the out-of-the-map branch of checkRequestSendingRequirement).
OffMapForgets ==
  \A g \in Generator :
    ~ActiveMapStatus(prg[g]) =>
      prg[g].ART = EmptyART /\ ~prg[g].requestSendStatus /\ prg[g].intersectionID = NoMap
==============================================================================
