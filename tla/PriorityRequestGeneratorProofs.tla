-------------------- MODULE PriorityRequestGeneratorProofs --------------------
(***************************************************************************)
(* Theorems about the Priority Request Generators of the vehicles, and     *)
(* about the exchange of SRMs and SSMs between them and a server: for      *)
(* every number of vehicles, temporary IDs, roles, maps, signal groups and *)
(* thresholds, and for every number of losses and restarts.                *)
(***************************************************************************)
EXTENDS PriorityRequestExchange, TLAPS

\* What OffMapForgets says of one generator.
Forgets(p) ==
  ~ActiveMapStatus(p) => p.ART = EmptyART /\ ~p.requestSendStatus /\ p.intersectionID = NoMap

GeneratorInv == PrgTypeOK /\ \A g \in Generator : Forgets(prg[g])

-----------------------------------------------------------------------------
(* Types *)

LEMMA Constants ==
  /\ EmptyART \in [Vehicle -> 0 .. maxMsgCount]
  /\ \A g \in Generator : IDs[g] \subseteq Vehicle
  /\ MapCheckPeriod \in Nat /\ maxMsgCount \in Nat \ {0} /\ requestTimedOutValue \in Nat
BY GeneratorAssumption DEF EmptyART, Vehicle

LEMMA StartedType ==
  ASSUME NEW id \in Vehicle
  PROVE  Started(id) \in GeneratorState /\ Forgets(Started(id))
<1>1. Started(id) \in GeneratorState
  BY Constants DEF Started, GeneratorState
<1>2. Forgets(Started(id))
  BY DEF Started, Forgets, ActiveMapStatus
<1>3. QED
  BY <1>1, <1>2

LEMMA OnTheMapType ==
  ASSUME NEW p \in GeneratorState, NEW g \in Generator, NEW bsm \in BSM(g), p.activeMap # NoMap
  PROVE  /\ OnTheMap(p, bsm) \in GeneratorState
         /\ OnTheMap(p, bsm).activeMap # NoMap /\ OnTheMap(p, bsm).intersectionID # NoMap
         /\ OnTheMap(p, bsm).counter_VehicleInMap = p.counter_VehicleInMap
<1>1. bsm.id \in Vehicle /\ bsm.group \in Phase
  BY Constants DEF BSM
<1>2. QED
  BY <1>1 DEF OnTheMap, GeneratorState

LEMMA OffTheMapType ==
  ASSUME NEW p \in GeneratorState
  PROVE  OffTheMap(p) \in GeneratorState /\ Forgets(OffTheMap(p))
<1>1. OffTheMap(p) \in GeneratorState
  BY Constants DEF OffTheMap, GeneratorState
<1>2. Forgets(OffTheMap(p))
  BY DEF OffTheMap, GeneratorState, Forgets, ActiveMapStatus
<1>3. QED
  BY <1>1, <1>2

\* Where the vehicle is: it is off the map only with an empty table.
LEMMA LocatedIsForgetful ==
  ASSUME NEW p \in GeneratorState, NEW g \in Generator, NEW bsm \in BSM(g), Forgets(p)
  PROVE  /\ Located(p, bsm) \in GeneratorState /\ Forgets(Located(p, bsm))
         /\ ActiveMapStatus(Located(p, bsm)) => Located(p, bsm).intersectionID # NoMap
<1>1. CASE p.activeMap = NoMap
  BY <1>1 DEF Located, ActiveMapStatus
<1>2. CASE p.activeMap # NoMap /\ p.counter_VehicleInMap > MapCheckPeriod
  <2> DEFINE q == [p EXCEPT !.counter_VehicleInMap = 0]
  <2>1. q \in GeneratorState /\ q.activeMap # NoMap
    BY <1>2, Constants DEF GeneratorState
  <2>2. Located(p, bsm) = IF bsm.place = "onInbound" THEN OnTheMap(q, bsm) ELSE OffTheMap(q)
    BY <1>2 DEF Located
  <2> HIDE DEF q
  <2>3. QED
    <3>1. ~ActiveMapStatus(OffTheMap(q))
      BY <2>1 DEF OffTheMap, ActiveMapStatus, GeneratorState
    <3>2. QED
      BY <2>1, <2>2, <3>1, OnTheMapType, OffTheMapType DEF Forgets, ActiveMapStatus
<1>3. CASE p.activeMap # NoMap /\ ~(p.counter_VehicleInMap > MapCheckPeriod)
  <2> DEFINE q == OnTheMap(p, bsm)
  <2>1. /\ q \in GeneratorState /\ q.activeMap # NoMap /\ q.intersectionID # NoMap
        /\ q.counter_VehicleInMap = p.counter_VehicleInMap
    BY <1>3, OnTheMapType
  <2>2. Located(p, bsm) = [q EXCEPT !.counter_VehicleInMap = @ + 1]
    BY <1>3 DEF Located
  <2> HIDE DEF q
  <2>3. q.counter_VehicleInMap + 1 \in 0 .. MapCheckPeriod + 1
    BY <1>3, <2>1, Constants DEF GeneratorState
  <2>4. QED
    BY <2>1, <2>2, <2>3 DEF GeneratorState, Forgets, ActiveMapStatus
<1>4. QED
  BY <1>1, <1>2, <1>3

LEMMA InformationIsForgetful ==
  ASSUME NEW p \in GeneratorState, NEW g \in Generator, NEW bsm \in BSM(g), Forgets(p)
  PROVE  /\ getVehicleInformationFromMAP(p, bsm) \in GeneratorState
         /\ Forgets(getVehicleInformationFromMAP(p, bsm))
         /\ ActiveMapStatus(getVehicleInformationFromMAP(p, bsm)) =>
              getVehicleInformationFromMAP(p, bsm).intersectionID # NoMap
<1> DEFINE q == [p EXCEPT !.activeMap = createActiveMapList(p, bsm)]
           r == Located(q, bsm)
           passed == r.intersectionID = NoMap \/ bsm.pastBusStop
<1>1. q \in GeneratorState
  <2>1. createActiveMapList(p, bsm) \in Intersection \cup {NoMap}
    BY DEF createActiveMapList, GeneratorState, BSM
  <2>2. QED
    BY <2>1 DEF GeneratorState
<1>2. Forgets(q)
  <2>1. q.activeMap = createActiveMapList(p, bsm) /\ q.ART = p.ART
        /\ q.requestSendStatus = p.requestSendStatus /\ q.intersectionID = p.intersectionID
    BY DEF GeneratorState
  <2>2. createActiveMapList(p, bsm) = NoMap => p.activeMap = NoMap
    BY GeneratorAssumption DEF createActiveMapList, BSM
  <2>3. QED
    BY <2>1, <2>2 DEF Forgets, ActiveMapStatus
<1> HIDE DEF q
<1>3. r \in GeneratorState /\ Forgets(r) /\ (ActiveMapStatus(r) => r.intersectionID # NoMap)
  BY <1>1, <1>2, LocatedIsForgetful
<1>4. \/ getVehicleInformationFromMAP(p, bsm) = [r EXCEPT !.busStopPassedStatus = passed]
      \/ getVehicleInformationFromMAP(p, bsm) = [r EXCEPT !.busStopPassedStatus = @]
  BY DEF getVehicleInformationFromMAP, checkPassedNearestBusStop, q
<1>5. passed \in BOOLEAN
  BY DEF BSM
<1> HIDE DEF r, passed
<1>6. [r EXCEPT !.busStopPassedStatus = @] = r
  BY <1>3 DEF GeneratorState
<1>7. [r EXCEPT !.busStopPassedStatus = passed] \in GeneratorState
  BY <1>3, <1>5 DEF GeneratorState
<1>8. /\ Forgets([r EXCEPT !.busStopPassedStatus = passed])
      /\ ActiveMapStatus([r EXCEPT !.busStopPassedStatus = passed]) =>
           [r EXCEPT !.busStopPassedStatus = passed].intersectionID # NoMap
  <2>1. /\ [r EXCEPT !.busStopPassedStatus = passed].activeMap = r.activeMap
        /\ [r EXCEPT !.busStopPassedStatus = passed].ART = r.ART
        /\ [r EXCEPT !.busStopPassedStatus = passed].requestSendStatus = r.requestSendStatus
        /\ [r EXCEPT !.busStopPassedStatus = passed].intersectionID = r.intersectionID
    BY <1>3 DEF GeneratorState
  <2>2. QED
    BY <1>3, <2>1 DEF Forgets, ActiveMapStatus
<1>9. QED
  BY <1>3, <1>4, <1>6, <1>7, <1>8

-----------------------------------------------------------------------------
(* Requests *)

LEMMA DueTypes ==
  ASSUME NEW p, NEW bsm, NEW type \in checkRequestSendingRequirement(p, bsm)
  PROVE  /\ type \in {"priorityRequest", "requestUpdate", "priorityCancellation"}
         /\ type # "priorityCancellation" => ActiveMapStatus(p)
<1>1. \/ type = "priorityCancellation"
      \/ Asks(p, bsm) /\ type \in Requests(p, bsm)
  BY DEF checkRequestSendingRequirement
<1>2. type \in Requests(p, bsm) => type \in {"priorityRequest", "requestUpdate"}
  BY DEF Requests
<1>3. QED
  BY <1>1, <1>2 DEF Asks

\* What is sent leaves the state well formed, and a cancellation an empty table.
LEMMA SentIsForgetful ==
  ASSUME NEW p \in GeneratorState, NEW type, type # "priorityCancellation" => ActiveMapStatus(p)
  PROVE  Sent(p, type) \in GeneratorState /\ Forgets(Sent(p, type))
<1> DEFINE q == [p EXCEPT !.msgCount = NextCount(@), !.srmAge = 0,
                          !.tempVehicleSignalGroup = p.signalGroup,
                          !.requestSendStatus = TRUE]
<1>1. NextCount(p.msgCount) \in 0 .. maxMsgCount /\ 0 \in 0 .. requestTimedOutValue
  BY Constants DEF NextCount, minMsgCount, GeneratorState
<1>2. q \in GeneratorState /\ q.activeMap = p.activeMap
  BY <1>1 DEF GeneratorState
<1>3. Sent(p, type) = IF type = "priorityCancellation" THEN Cancelled(q) ELSE q
  BY DEF Sent
<1> HIDE DEF q
<1>4. CASE type = "priorityCancellation"
  <2>1. Cancelled(q) \in GeneratorState
    BY <1>2, Constants DEF Cancelled, GeneratorState
  <2>2. Forgets(Cancelled(q))
    BY <1>2 DEF Cancelled, GeneratorState, Forgets, ActiveMapStatus
  <2>3. QED
    BY <1>3, <1>4, <2>1, <2>2
<1>5. CASE type # "priorityCancellation"
  BY <1>2, <1>3, <1>5 DEF Forgets, ActiveMapStatus
<1>6. QED
  BY <1>4, <1>5

LEMMA HeardIsForgetful ==
  ASSUME NEW p \in GeneratorState, Forgets(p)
  PROVE  [p EXCEPT !.heard = TRUE] \in GeneratorState /\ Forgets([p EXCEPT !.heard = TRUE])
<1>1. [p EXCEPT !.heard = TRUE] \in GeneratorState
  BY DEF GeneratorState
<1>2. Forgets([p EXCEPT !.heard = TRUE])
  BY DEF GeneratorState, Forgets, ActiveMapStatus
<1>3. QED
  BY <1>1, <1>2

LEMMA SRMType ==
  ASSUME NEW p \in GeneratorState, p.intersectionID # NoMap,
         NEW type \in {"priorityRequest", "requestUpdate", "priorityCancellation"}
  PROVE  createSRMJsonString(p, type) \in SRM
<1>1. NextCount(p.msgCount) \in 0 .. maxMsgCount
  BY Constants DEF NextCount, minMsgCount, GeneratorState
<1>2. QED
  BY <1>1 DEF createSRMJsonString, SRM, GeneratorState

-----------------------------------------------------------------------------
(* The datagrams *)

LEMMA OneGenerator ==
  ASSUME GeneratorInv, NEW g \in Generator, NEW p \in GeneratorState, Forgets(p),
         prg' = [prg EXCEPT ![g] = p], air' \subseteq SRM
  PROVE  GeneratorInv'
BY DEF GeneratorInv, PrgTypeOK

LEMMA BSMStep ==
  ASSUME GeneratorInv, NEW g \in Generator, NEW bsm \in BSM(g), ReceiveBSM(g, bsm)
  PROVE  GeneratorInv'
<1> DEFINE p == getVehicleInformationFromMAP(prg[g], bsm)
<1>1. /\ p \in GeneratorState /\ Forgets(p)
      /\ ActiveMapStatus(p) => p.intersectionID # NoMap
  BY InformationIsForgetful DEF GeneratorInv, PrgTypeOK
<1>2. \/ prg' = [prg EXCEPT ![g] = [p EXCEPT !.heard = TRUE]] /\ air' = air
      \/ \E type \in checkRequestSendingRequirement(p, bsm) :
           /\ prg' = [prg EXCEPT ![g] = [Sent(p, type) EXCEPT !.heard = TRUE]]
           /\ air' = air \cup {createSRMJsonString(p, type)}
  BY DEF ReceiveBSM
<1>3. air \subseteq SRM
  BY DEF GeneratorInv, PrgTypeOK
<1> HIDE DEF p
<1>4. CASE prg' = [prg EXCEPT ![g] = [p EXCEPT !.heard = TRUE]] /\ air' = air
  BY <1>1, <1>3, <1>4, HeardIsForgetful, OneGenerator
<1>5. ASSUME NEW type \in checkRequestSendingRequirement(p, bsm),
             prg' = [prg EXCEPT ![g] = [Sent(p, type) EXCEPT !.heard = TRUE]],
             air' = air \cup {createSRMJsonString(p, type)}
      PROVE  GeneratorInv'
  <2>1. Sent(p, type) \in GeneratorState /\ Forgets(Sent(p, type))
    BY <1>1, <1>5, DueTypes, SentIsForgetful
  <2>2. ActiveMapStatus(p)
    <3>1. ActiveMapStatus(p) \/ Listed(p)
      BY <1>5 DEF checkRequestSendingRequirement, Cancels, Asks
    <3>2. Listed(p) => p.ART # EmptyART
      BY <1>1 DEF Listed, EmptyART, GeneratorState
    <3>3. QED
      BY <1>1, <3>1, <3>2 DEF Forgets
  <2>3. createSRMJsonString(p, type) \in SRM
    BY <1>1, <1>5, <2>2, DueTypes, SRMType
  <2>4. QED
    BY <1>3, <1>5, <2>1, <2>3, HeardIsForgetful, OneGenerator
<1>6. QED
  BY <1>2, <1>4, <1>5

LEMMA SSMStep ==
  ASSUME GeneratorInv, NEW g \in Generator, NEW intersection \in Intersection,
         NEW listed \in [Vehicle -> 0 .. maxMsgCount], ReceiveSSM(g, intersection, listed)
  PROVE  GeneratorInv'
<1> DEFINE p == prg[g]
           q == [p EXCEPT !.ART = listed]
<1>1. p \in GeneratorState /\ Forgets(p) /\ air' \subseteq SRM
  BY DEF GeneratorInv, PrgTypeOK, ReceiveSSM
<1>2. CASE p.intersectionID # intersection
  BY <1>2 DEF ReceiveSSM, GeneratorInv, PrgTypeOK
<1>3. CASE p.intersectionID = intersection
  <2>1. prg' = [prg EXCEPT ![g] = q]
    BY <1>3 DEF ReceiveSSM
  <2>2. q \in GeneratorState /\ q.activeMap = p.activeMap
    BY <1>1 DEF GeneratorState
  <2>3. ActiveMapStatus(p)
    BY <1>1, <1>3, GeneratorAssumption DEF Forgets
  <2> HIDE DEF q
  <2>4. Forgets(q)
    BY <2>2, <2>3 DEF Forgets, ActiveMapStatus
  <2>5. QED
    BY <1>1, <2>1, <2>2, <2>4, OneGenerator
<1>4. QED
  BY <1>2, <1>3

LEMMA MapAndLightStep ==
  ASSUME GeneratorInv, NEW g \in Generator,
         \/ \E intersection \in Intersection : ReceiveMAP(g, intersection)
         \/ \E on \in BOOLEAN : ReceiveLightSirenStatus(g, on)
  PROVE  GeneratorInv'
<1>1. prg[g] \in GeneratorState /\ Forgets(prg[g]) /\ air' \subseteq SRM
  BY DEF GeneratorInv, PrgTypeOK, ReceiveMAP, ReceiveLightSirenStatus
<1>2. ASSUME NEW intersection \in Intersection, ReceiveMAP(g, intersection)
      PROVE  GeneratorInv'
  <2> DEFINE q == [prg[g] EXCEPT !.available = @ \cup {intersection}]
  <2>1. prg' = [prg EXCEPT ![g] = q]
    BY <1>2 DEF ReceiveMAP
  <2>2. q \in GeneratorState
    BY <1>1 DEF GeneratorState
  <2>3. Forgets(q)
    BY <1>1 DEF GeneratorState, Forgets, ActiveMapStatus
  <2> HIDE DEF q
  <2>4. QED
    BY <1>1, <2>1, <2>2, <2>3, OneGenerator
<1>3. ASSUME NEW on \in BOOLEAN, ReceiveLightSirenStatus(g, on)
      PROVE  GeneratorInv'
  <2> DEFINE q == [prg[g] EXCEPT !.lightSirenStatus = on]
  <2>1. prg' = [prg EXCEPT ![g] = q]
    BY <1>3 DEF ReceiveLightSirenStatus
  <2>2. q \in GeneratorState
    BY <1>1 DEF GeneratorState
  <2>3. Forgets(q)
    BY <1>1 DEF GeneratorState, Forgets, ActiveMapStatus
  <2> HIDE DEF q
  <2>4. QED
    BY <1>1, <2>1, <2>2, <2>3, OneGenerator
<1>4. QED
  BY <1>2, <1>3

LEMMA TickStep ==
  ASSUME GeneratorInv, PrgTick
  PROVE  GeneratorInv'
<1>1. ASSUME NEW g \in Generator
      PROVE  prg'[g] \in GeneratorState /\ Forgets(prg'[g])
  <2>1. prg[g] \in GeneratorState /\ Forgets(prg[g])
    BY DEF GeneratorInv, PrgTypeOK
  <2>2. prg'[g] = [prg[g] EXCEPT !.srmAge = Older(@), !.heard = FALSE]
    BY DEF PrgTick
  <2>3. Older(prg[g].srmAge) \in 0 .. requestTimedOutValue
    BY <2>1, Constants DEF Older, GeneratorState
  <2>4. prg'[g] \in GeneratorState
    BY <2>1, <2>2, <2>3 DEF GeneratorState
  <2>5. Forgets(prg'[g])
    BY <2>1, <2>2 DEF GeneratorState, Forgets, ActiveMapStatus
  <2>6. QED
    BY <2>4, <2>5
<1>2. prg' = [g \in Generator |-> prg'[g]] /\ air' \subseteq SRM
  BY DEF PrgTick, GeneratorInv, PrgTypeOK
<1>3. QED
  BY <1>1, <1>2 DEF GeneratorInv, PrgTypeOK

LEMMA GeneratorStep ==
  ASSUME GeneratorInv, [PrgNext]_prgVars
  PROVE  GeneratorInv'
<1>1. ASSUME NEW g \in Generator, RestartGenerator(g)
      PROVE  GeneratorInv'
  <2>1. prg[g].temporaryVehicleID \in Vehicle /\ air' \subseteq SRM
    BY <1>1 DEF GeneratorInv, PrgTypeOK, GeneratorState, RestartGenerator
  <2>2. QED
    BY <1>1, <2>1, StartedType, OneGenerator DEF RestartGenerator
<1>2. ASSUME NEW srm \in air, Depart(srm)
      PROVE  GeneratorInv'
  BY <1>2 DEF Depart, GeneratorInv, PrgTypeOK
<1>3. CASE UNCHANGED prgVars
  BY <1>3 DEF prgVars, GeneratorInv, PrgTypeOK
<1>4. QED
  BY <1>1, <1>2, <1>3, BSMStep, SSMStep, MapAndLightStep, TickStep DEF PrgNext

LEMMA GeneratorInitially == PrgInit => GeneratorInv
<1>1. SUFFICES ASSUME PrgInit
               PROVE  GeneratorInv
  OBVIOUS
<1>2. PICK first \in [Generator -> Vehicle] : prg = [g \in Generator |-> Started(first[g])]
  BY <1>1 DEF PrgInit
<1>3. QED
  BY <1>1, <1>2, StartedType DEF PrgInit, GeneratorInv, PrgTypeOK

LEMMA GeneratorInvariant == PrgSpec => []GeneratorInv
<1>1. GeneratorInv /\ [PrgNext]_prgVars => GeneratorInv'
  BY GeneratorStep
<1>2. QED
  BY <1>1, GeneratorInitially, PTL DEF PrgSpec

\* The generators and their messages keep their types: no SRM is sent without an
\* intersection to send it to.
THEOREM GeneratorTypes == PrgSpec => []PrgTypeOK
<1>1. GeneratorInv => PrgTypeOK
  BY DEF GeneratorInv
<1>2. QED
  BY <1>1, GeneratorInvariant, PTL

\* A vehicle off the map knows of no request of its own, whatever SSMs come late.
THEOREM OffTheMapForgets == PrgSpec => []OffMapForgets
<1>1. GeneratorInv => OffMapForgets
  BY DEF GeneratorInv, OffMapForgets, Forgets
<1>2. QED
  BY <1>1, GeneratorInvariant, PTL

-----------------------------------------------------------------------------
(* The exchange is made of the vehicles and of the server *)

LEMMA OwnerIs ==
  /\ \A id \in Vehicle : Owner(id) \in Generator /\ id \in IDs[Owner(id)]
  /\ \A g \in Generator : \A id \in IDs[g] : id \in Vehicle /\ Owner(id) = g
<1>1. \A id \in Vehicle : \E g \in Generator : id \in IDs[g]
  BY DEF Vehicle
<1>2. \A id \in Vehicle : Owner(id) \in Generator /\ id \in IDs[Owner(id)]
  BY <1>1 DEF Owner
<1>3. \A g \in Generator : \A id \in IDs[g] : id \in Vehicle
  BY DEF Vehicle
<1>4. QED
  BY <1>2, <1>3, ExchangeAssumption

LEMMA TimeOuts ==
  /\ requestTimedOutValue \in Nat /\ requestTimedOutValue > 0
  /\ SRM_TIME_GAP_VALUE \in Nat /\ SRM_TIME_GAP_VALUE <= requestTimedOutValue
  /\ SRMTimedOutTime \in Nat /\ requestTimedOutValue < SRMTimedOutTime
BY GeneratorAssumption, ExchangeAssumption DEF SRMTimedOutTime

\* What the link and the history look like.
LinkTypeOK ==
  /\ msgCount \in [Vehicle -> 0 .. maxMsgCount] /\ ssmCount \in [Vehicle -> 0 .. maxMsgCount]
  /\ pending \subseteq Generator /\ asking \subseteq Generator /\ undelivered \subseteq Generator
  /\ counted \in [Generator -> 0 .. maxMsgCount + 1]
  /\ silence \in [Vehicle -> 0 .. SRMTimedOutTime]

\* A generator goes by an ID of its own.
OwnIDs == \A g \in Generator : prg[g].temporaryVehicleID \in IDs[g]

\* Every step of the exchange is a step of the vehicles, and of the server.
LEMMA VehiclesStep ==
  ASSUME LinkTypeOK, [ExchangeNext]_exchangeVars
  PROVE  [PrgNext]_prgVars
<1>1. ASSUME NEW srm \in air, Depart(srm)
      PROVE  PrgNext
  BY <1>1 DEF PrgNext
<1>2. ASSUME NEW srm \in air, ServeSRM(srm) \/ LoseSRM(srm)
      PROVE  PrgNext
  BY <1>1, <1>2 DEF ServeSRM, LoseSRM
<1>3. ASSUME NEW g \in Generator, NEW bsm \in BSM(g), VehicleBSM(g, bsm)
      PROVE  PrgNext
  BY <1>3 DEF VehicleBSM, PrgNext
<1>4. ASSUME NEW g \in Generator, VehicleSSM(g)
      PROVE  PrgNext
  <2> DEFINE listed == [id \in Vehicle |-> IF InSSM(id) THEN ssmCount[id] ELSE 0]
  <2>1. listed \in [Vehicle -> 0 .. maxMsgCount]
    BY Constants DEF LinkTypeOK
  <2>2. ReceiveSSM(g, Here, listed)
    BY <1>4 DEF VehicleSSM
  <2> HIDE DEF listed
  <2>3. QED
    BY <2>1, <2>2, ExchangeAssumption DEF PrgNext
<1>5. ASSUME NEW g \in Generator, VehicleOther(g)
      PROVE  PrgNext
  BY <1>5 DEF VehicleOther, PrgNext
<1>6. ASSUME NEW g \in Generator, RestartVehicle(g)
      PROVE  PrgNext
  BY <1>6 DEF RestartVehicle, PrgNext
<1>7. CASE Tick
  BY <1>7 DEF Tick, PrgNext
<1>8. CASE ServeCoordination \/ ServeTimeout \/ RestartServer \/ \E g \in Generator : LoseSSM(g)
  BY <1>8 DEF ServeCoordination, ServeTimeout, RestartServer, LoseSSM
<1>9. CASE UNCHANGED exchangeVars
  BY <1>9 DEF exchangeVars
<1>10. QED
  BY <1>2, <1>3, <1>4, <1>5, <1>6, <1>7, <1>8, <1>9 DEF ExchangeNext

LEMMA ServerStep ==
  ASSUME GeneratorInv, [ExchangeNext]_exchangeVars
  PROVE  [Server!Next]_serverVars
<1>1. ASSUME NEW srm \in air, ServeSRM(srm)
      PROVE  Server!Next
  <2>1. srm \in SRM
    BY DEF GeneratorInv, PrgTypeOK
  <2>2. CASE /\ srm.intersectionID = Here /\ onSchedule
             /\ \E group \in Phase, deviates \in BOOLEAN :
                  Server!ManageAccepted(SignalRequestOf(srm, group, deviates))
    <3>1. PICK group \in Phase, deviates \in BOOLEAN :
            Server!ManageAccepted(SignalRequestOf(srm, group, deviates))
      BY <2>2
    <3>2. SignalRequestOf(srm, group, deviates) \in Server!SignalRequest
      BY <2>1 DEF SignalRequestOf, SRM, Server!SignalRequest, Server!RequestType
    <3>3. QED
      BY <2>2, <3>1, <3>2
         DEF Server!Next, Server!Datagram, Server!manageSignalRequestTable,
             Server!acceptSignalRequest
  <2>3. CASE (srm.intersectionID # Here \/ ~onSchedule) /\ Server!RejectRequest
    <3>1. ~Server!acceptSignalRequest(FALSE)
      BY DEF Server!acceptSignalRequest
    <3>2. QED
      BY <2>3, <3>1 DEF Server!Next, Server!Datagram, Server!manageSignalRequestTable
  <2>4. QED
    BY <1>1, <2>2, <2>3 DEF ServeSRM
<1>2. CASE ServeCoordination
  BY <1>2 DEF ServeCoordination, Server!Next, Server!Datagram, Server!manageCoordinationRequest
<1>3. CASE ServeTimeout \/ RestartServer \/ Tick
  BY <1>3 DEF ServeTimeout, RestartServer, Tick, Server!Next
<1>4. CASE \/ \E srm \in air : LoseSRM(srm)
           \/ \E g \in Generator : \/ \E bsm \in BSM(g) : VehicleBSM(g, bsm)
                                   \/ VehicleSSM(g) \/ LoseSSM(g)
                                   \/ VehicleOther(g) \/ RestartVehicle(g)
  BY <1>4 DEF LoseSRM, VehicleBSM, VehicleSSM, LoseSSM, VehicleOther, RestartVehicle
<1>5. CASE UNCHANGED exchangeVars
  BY <1>5 DEF exchangeVars
<1>6. QED
  BY <1>1, <1>2, <1>3, <1>4, <1>5 DEF ExchangeNext

-----------------------------------------------------------------------------
(* What a BSM changes *)

\* Where the vehicle is does not change what it has sent.
LEMMA LocatedKeeps ==
  ASSUME NEW p \in GeneratorState, NEW g \in Generator, NEW bsm \in BSM(g)
  PROVE  LET q == Located(p, bsm)
         IN  /\ q.msgCount = p.msgCount /\ q.srmAge = p.srmAge
             /\ q.ART \in {p.ART, EmptyART}
             /\ q.temporaryVehicleID \in {p.temporaryVehicleID, bsm.id}
             /\ DOMAIN q = DOMAIN p
BY DEF Located, OnTheMap, OffTheMap, GeneratorState

LEMMA InformationKeeps ==
  ASSUME NEW p \in GeneratorState, NEW g \in Generator, NEW bsm \in BSM(g), Forgets(p)
  PROVE  LET q == getVehicleInformationFromMAP(p, bsm)
         IN  /\ q.msgCount = p.msgCount /\ q.srmAge = p.srmAge
             /\ q.ART \in {p.ART, EmptyART}
             /\ q.temporaryVehicleID \in {p.temporaryVehicleID, bsm.id}
<1> DEFINE q == [p EXCEPT !.activeMap = createActiveMapList(p, bsm)]
           r == Located(q, bsm)
           passed == r.intersectionID = NoMap \/ bsm.pastBusStop
<1>1. q \in GeneratorState
  <2>1. createActiveMapList(p, bsm) \in Intersection \cup {NoMap}
    BY DEF createActiveMapList, GeneratorState, BSM
  <2>2. QED
    BY <2>1 DEF GeneratorState
<1>2. /\ q.msgCount = p.msgCount /\ q.srmAge = p.srmAge /\ q.ART = p.ART
      /\ q.temporaryVehicleID = p.temporaryVehicleID
  BY DEF GeneratorState
<1> HIDE DEF q
<1>3. /\ r.msgCount = p.msgCount /\ r.srmAge = p.srmAge
      /\ r.ART \in {p.ART, EmptyART}
      /\ r.temporaryVehicleID \in {p.temporaryVehicleID, bsm.id}
      /\ {"msgCount", "srmAge", "ART", "temporaryVehicleID"} \subseteq DOMAIN r
  <2>1. {"msgCount", "srmAge", "ART", "temporaryVehicleID"} \subseteq DOMAIN q
    BY <1>1 DEF GeneratorState
  <2>2. QED
    BY <1>1, <1>2, <2>1, LocatedKeeps
<1>4. \/ getVehicleInformationFromMAP(p, bsm) = [r EXCEPT !.busStopPassedStatus = passed]
      \/ getVehicleInformationFromMAP(p, bsm) = [r EXCEPT !.busStopPassedStatus = @]
  BY DEF getVehicleInformationFromMAP, checkPassedNearestBusStop, q
<1> HIDE DEF r, passed
<1>5. QED
  BY <1>3, <1>4

LEMMA SentKeeps ==
  ASSUME NEW p \in GeneratorState, NEW type
  PROVE  LET q == [Sent(p, type) EXCEPT !.heard = TRUE]
         IN  /\ q.msgCount = NextCount(p.msgCount) /\ q.srmAge = 0
             /\ q.ART \in {p.ART, EmptyART} /\ q.heard
             /\ q.temporaryVehicleID = p.temporaryVehicleID
BY DEF Sent, Cancelled, GeneratorState

\* The SRMs that are due to be sent, and the one that is sent.
LEMMA BSMOutcome ==
  ASSUME GeneratorInv, OwnIDs, NEW g \in Generator, NEW bsm \in BSM(g), ReceiveBSM(g, bsm)
  PROVE  LET p   == getVehicleInformationFromMAP(prg[g], bsm)
             due == checkRequestSendingRequirement(p, bsm)
             r   == prg'[g]
         IN  /\ DOMAIN prg' = Generator /\ \A h \in Generator \ {g} : prg'[h] = prg[h]
             /\ p.srmAge = prg[g].srmAge /\ p \in GeneratorState
             /\ r.temporaryVehicleID = p.temporaryVehicleID /\ p.temporaryVehicleID \in IDs[g]
             /\ r.ART \in {prg[g].ART, EmptyART} /\ r.heard
             /\ due = {} => /\ r.msgCount = prg[g].msgCount /\ r.srmAge = prg[g].srmAge
                            /\ air' = air
             /\ due # {} =>
                  /\ r.msgCount = NextCount(prg[g].msgCount) /\ r.srmAge = 0
                  /\ \E type \in due : air' = air \cup {createSRMJsonString(p, type)}
                  /\ \A type : createSRMJsonString(p, type).msgCount = r.msgCount
<1> DEFINE p   == getVehicleInformationFromMAP(prg[g], bsm)
           due == checkRequestSendingRequirement(p, bsm)
<1>1. prg[g] \in GeneratorState /\ Forgets(prg[g]) /\ DOMAIN prg = Generator
  BY DEF GeneratorInv, PrgTypeOK
<1>2. /\ p.msgCount = prg[g].msgCount /\ p.srmAge = prg[g].srmAge
      /\ p.ART \in {prg[g].ART, EmptyART}
      /\ p.temporaryVehicleID \in {prg[g].temporaryVehicleID, bsm.id}
      /\ p \in GeneratorState
  BY <1>1, InformationKeeps, InformationIsForgetful
<1>3. p.temporaryVehicleID \in IDs[g]
  BY <1>2 DEF OwnIDs, BSM
<1>4. \/ due = {} /\ prg' = [prg EXCEPT ![g] = [p EXCEPT !.heard = TRUE]] /\ air' = air
      \/ \E type \in due :
           /\ prg' = [prg EXCEPT ![g] = [Sent(p, type) EXCEPT !.heard = TRUE]]
           /\ air' = air \cup {createSRMJsonString(p, type)}
  BY DEF ReceiveBSM
<1>5. \A type : createSRMJsonString(p, type).msgCount = NextCount(p.msgCount)
  BY DEF createSRMJsonString
<1> HIDE DEF p, due
<1>6. CASE due = {} /\ prg' = [prg EXCEPT ![g] = [p EXCEPT !.heard = TRUE]] /\ air' = air
  <2> DEFINE q == [p EXCEPT !.heard = TRUE]
  <2>1. /\ q.msgCount = p.msgCount /\ q.srmAge = p.srmAge /\ q.ART = p.ART /\ q.heard
        /\ q.temporaryVehicleID = p.temporaryVehicleID
    BY <1>2 DEF GeneratorState
  <2>2. DOMAIN prg' = Generator /\ prg'[g] = q /\ \A h \in Generator \ {g} : prg'[h] = prg[h]
    BY <1>1, <1>6
  <2>3. QED
    BY <1>2, <1>3, <1>6, <2>1, <2>2 DEF p, due
<1>7. ASSUME NEW type \in due,
             prg' = [prg EXCEPT ![g] = [Sent(p, type) EXCEPT !.heard = TRUE]],
             air' = air \cup {createSRMJsonString(p, type)}
      PROVE  /\ DOMAIN prg' = Generator /\ \A h \in Generator \ {g} : prg'[h] = prg[h]
             /\ prg'[g].temporaryVehicleID = p.temporaryVehicleID
             /\ prg'[g].ART \in {prg[g].ART, EmptyART} /\ prg'[g].heard
             /\ prg'[g].msgCount = NextCount(prg[g].msgCount) /\ prg'[g].srmAge = 0
  <2> DEFINE q == [Sent(p, type) EXCEPT !.heard = TRUE]
  <2>1. /\ q.msgCount = NextCount(p.msgCount) /\ q.srmAge = 0
        /\ q.ART \in {p.ART, EmptyART} /\ q.heard
        /\ q.temporaryVehicleID = p.temporaryVehicleID
    BY <1>2, SentKeeps
  <2>2. DOMAIN prg' = Generator /\ prg'[g] = q /\ \A h \in Generator \ {g} : prg'[h] = prg[h]
    BY <1>1, <1>7
  <2>3. QED
    BY <1>2, <2>1, <2>2
<1>8. QED
  BY <1>2, <1>3, <1>4, <1>5, <1>6, <1>7 DEF p, due

\* Whoever asks sends an SRM before the server's time-out is near.
LEMMA AsksInTime ==
  ASSUME NEW p \in GeneratorState, NEW bsm, Asks(p, bsm), ~Cancels(p, bsm),
         checkRequestSendingRequirement(p, bsm) = {}
  PROVE  p.srmAge < requestTimedOutValue
<1>1. RoleOf[p.temporaryVehicleID] \in {"fire", "transit", "truck"}
  BY DEF Asks, Eligible
<1>2. Requests(p, bsm) = {}
  BY <1>1 DEF checkRequestSendingRequirement
<1>3. p.srmAge < SRM_TIME_GAP_VALUE \/ ~SomethingNew(p, bsm)
  BY <1>2 DEF Requests
<1>4. p.srmAge \in 0 .. requestTimedOutValue
  BY DEF GeneratorState
<1>5. QED
  BY <1>3, <1>4, TimeOuts DEF SomethingNew

-----------------------------------------------------------------------------
(* Types and IDs *)

\* A column holds what it held, nothing, or what a request brings.
LEMMA ColumnValues ==
  ASSUME LinkTypeOK, NEW brings, NEW count \in 0 .. maxMsgCount
  PROVE  /\ Column(brings, count) \in [Vehicle -> 0 .. maxMsgCount]
         /\ \A id \in Vehicle : \/ Column(brings, count)[id] \in {0, msgCount[id]}
                                \/ id = brings /\ Column(brings, count)[id] = count
<1> DEFINE present(id) == Server!PositionsOf(ART', id) = {}
<1>1. Column(brings, count) =
        [id \in Vehicle |-> IF present(id) THEN 0
                            ELSE IF id = brings THEN count ELSE msgCount[id]]
  BY DEF Column
<1>2. msgCount \in [Vehicle -> 0 .. maxMsgCount] /\ 0 \in 0 .. maxMsgCount
  BY Constants DEF LinkTypeOK
<1> HIDE DEF present
<1>3. QED
  BY <1>1, <1>2

LEMMA CountsOfSRMs ==
  ASSUME GeneratorInv, NEW srm \in air
  PROVE  srm.vehicleID \in Vehicle /\ srm.msgCount \in 0 .. maxMsgCount
BY DEF GeneratorInv, PrgTypeOK, SRM

LEMMA NoCount == 0 \in 0 .. maxMsgCount
BY Constants

\* The server's time goes on for every vehicle.
LEMMA TickSilence ==
  ASSUME LinkTypeOK, Tick, NEW id \in Vehicle
  PROVE  /\ silence[id] \in 0 .. SRMTimedOutTime /\ silence'[id] \in 0 .. SRMTimedOutTime
         /\ silence'[id] <= silence[id] + 1
<1> DEFINE limit == SRMTimedOutTime
<1>1. limit \in Nat
  BY TimeOuts
<1>2. silence \in [Vehicle -> 0 .. limit]
  BY DEF LinkTypeOK
<1>3. silence'[id] = IF silence[id] < limit THEN silence[id] + 1 ELSE silence[id]
  BY DEF Tick
<1> HIDE DEF limit
<1>4. silence[id] \in 0 .. limit
  BY <1>2
<1>5. silence'[id] \in 0 .. limit /\ silence'[id] <= silence[id] + 1
  BY <1>1, <1>3, <1>4
<1>6. QED
  BY <1>4, <1>5 DEF limit

LEMMA LinkStep ==
  ASSUME GeneratorInv, LinkTypeOK, OwnIDs, [ExchangeNext]_exchangeVars
  PROVE  LinkTypeOK' /\ OwnIDs'
<1>1. DOMAIN prg = Generator /\ \A g \in Generator : prg[g] \in GeneratorState
  BY DEF GeneratorInv, PrgTypeOK
<1>2. ASSUME NEW srm \in air, ServeSRM(srm)
      PROVE  LinkTypeOK' /\ OwnIDs'
  <2>1. srm.vehicleID \in Vehicle /\ srm.msgCount \in 0 .. maxMsgCount
    BY CountsOfSRMs
  <2>2. msgCount' \in {msgCount, Column(srm.vehicleID, srm.msgCount), Column(0, 0)}
    BY <1>2 DEF ServeSRM
  <2>3. msgCount' \in [Vehicle -> 0 .. maxMsgCount]
    BY <2>1, <2>2, ColumnValues, NoCount DEF LinkTypeOK
  <2>4. \/ ssmCount' = msgCount' /\ pending' = Generator
        \/ ssmCount' = ssmCount /\ pending' = pending
    BY <1>2 DEF ServeSRM, Broadcast, NoBroadcast
  <2>5. silence' \in [Vehicle -> 0 .. SRMTimedOutTime]
    <3>1. silence' = silence \/ silence' = [silence EXCEPT ![srm.vehicleID] = 0]
      BY <1>2 DEF ServeSRM
    <3>2. QED
      BY <2>1, <3>1, TimeOuts DEF LinkTypeOK
  <2>6. /\ undelivered' \subseteq undelivered /\ counted' = counted /\ prg' = prg
        /\ asking' = asking
    BY <1>2 DEF ServeSRM, Depart
  <2>7. QED
    BY <2>3, <2>4, <2>5, <2>6 DEF LinkTypeOK, OwnIDs
<1>3. CASE ServeCoordination \/ ServeTimeout \/ RestartServer
  <2>1. msgCount' = Column(0, 0) /\ UNCHANGED <<prg, asking, undelivered, counted, silence>>
    BY <1>3 DEF ServeCoordination, ServeTimeout, RestartServer, prgVars
  <2>2. msgCount' \in [Vehicle -> 0 .. maxMsgCount]
    BY <2>1, ColumnValues, NoCount
  <2>3. \/ ssmCount' = msgCount' /\ pending' = Generator
        \/ ssmCount' = ssmCount /\ pending' = pending
    BY <1>3 DEF ServeCoordination, ServeTimeout, RestartServer, Broadcast, NoBroadcast
  <2>4. QED
    BY <2>1, <2>2, <2>3 DEF LinkTypeOK, OwnIDs
<1>4. ASSUME NEW g \in Generator, NEW bsm \in BSM(g), VehicleBSM(g, bsm)
      PROVE  LinkTypeOK' /\ OwnIDs'
  <2>1. /\ UNCHANGED <<msgCount, ssmCount, pending, silence>>
        /\ undelivered' \subseteq undelivered \cup {g} /\ asking' \subseteq asking \cup {g}
        /\ counted' \in {counted, [counted EXCEPT ![g] = Counting(g)]}
        /\ ReceiveBSM(g, bsm)
    BY <1>4 DEF VehicleBSM
  <2>2. Counting(g) \in 0 .. maxMsgCount + 1
    BY Constants DEF Counting, LinkTypeOK
  <2>3. LinkTypeOK'
    BY <2>1, <2>2 DEF LinkTypeOK
  <2>4. /\ \A h \in Generator \ {g} : prg'[h] = prg[h]
        /\ prg'[g].temporaryVehicleID \in IDs[g]
    BY <2>1, BSMOutcome
  <2>5. OwnIDs'
    BY <2>4 DEF OwnIDs
  <2>6. QED
    BY <2>3, <2>5
<1>5. ASSUME NEW g \in Generator, VehicleSSM(g) \/ VehicleOther(g)
      PROVE  LinkTypeOK' /\ OwnIDs'
  <2>1. /\ UNCHANGED <<msgCount, ssmCount, silence, asking, undelivered, counted>>
        /\ pending' \subseteq pending
    BY <1>5 DEF VehicleSSM, VehicleOther, linkVars
  <2>2. \A h \in Generator : prg'[h].temporaryVehicleID = prg[h].temporaryVehicleID
    BY <1>1, <1>5
       DEF VehicleSSM, VehicleOther, ReceiveSSM, ReceiveMAP, ReceiveLightSirenStatus, GeneratorState
  <2>3. QED
    BY <2>1, <2>2 DEF LinkTypeOK, OwnIDs
<1>6. ASSUME NEW g \in Generator, RestartVehicle(g)
      PROVE  LinkTypeOK' /\ OwnIDs'
  <2>1. /\ UNCHANGED <<msgCount, ssmCount, pending, silence, undelivered>>
        /\ asking' \subseteq asking
        /\ counted' = [counted EXCEPT ![g] = maxMsgCount + 1]
        /\ prg' = [prg EXCEPT ![g] = Started(prg[g].temporaryVehicleID)]
    BY <1>6 DEF RestartVehicle, RestartGenerator
  <2>2. \A h \in Generator : prg'[h].temporaryVehicleID = prg[h].temporaryVehicleID
    BY <1>1, <2>1 DEF Started
  <2>3. QED
    BY <2>1, <2>2, Constants DEF LinkTypeOK, OwnIDs
<1>7. CASE \/ \E srm \in air : LoseSRM(srm)
           \/ \E g \in Generator : LoseSSM(g)
           \/ UNCHANGED exchangeVars
  <2>1. /\ UNCHANGED <<prg, msgCount, ssmCount, silence, asking, undelivered, counted>>
        /\ pending' \subseteq pending
    BY <1>7 DEF LoseSRM, LoseSSM, Depart, exchangeVars, linkVars, prgVars
  <2>2. QED
    BY <2>1 DEF LinkTypeOK, OwnIDs
<1>8. CASE Tick
  <2>1. /\ UNCHANGED <<msgCount, ssmCount, pending, asking, undelivered, counted>>
        /\ silence' = [id \in Vehicle |-> IF silence[id] < SRMTimedOutTime
                                            THEN silence[id] + 1 ELSE silence[id]]
        /\ prg' = [g \in Generator |-> [prg[g] EXCEPT !.srmAge = Older(@), !.heard = FALSE]]
    BY <1>8 DEF Tick, PrgTick
  <2>2. silence' \in [Vehicle -> 0 .. SRMTimedOutTime]
    <3>1. \A id \in Vehicle : silence'[id] \in 0 .. SRMTimedOutTime
      BY <1>8, TickSilence
    <3>2. QED
      BY <2>1, <3>1
  <2>3. \A h \in Generator : prg'[h].temporaryVehicleID = prg[h].temporaryVehicleID
    BY <1>1, <2>1 DEF GeneratorState
  <2>4. QED
    BY <2>1, <2>2, <2>3 DEF LinkTypeOK, OwnIDs
<1>9. QED
  BY <1>2, <1>3, <1>4, <1>5, <1>6, <1>7, <1>8 DEF ExchangeNext

-----------------------------------------------------------------------------
(* The server hears of those who want priority *)

\* While a generator is not excused its last SRM to here has arrived not longer ago than
\* it was sent, or is under way; and when it has had its BSM it is in good time.
InTouch(g) ==
  LET id == prg[g].temporaryVehicleID
  IN  \/ silence[id] = 0
      \/ /\ silence[id] <= prg[g].srmAge
         /\ prg[g].heard => prg[g].srmAge < requestTimedOutValue
      \/ /\ silence[id] <= requestTimedOutValue
         /\ \E srm \in air : srm.vehicleID = id /\ srm.intersectionID = Here

HeardInv ==
  /\ ~onSchedule => excused = Generator
  /\ \A g \in Generator \ excused : InTouch(g)

LEMMA TouchedInTime ==
  ASSUME GeneratorInv, LinkTypeOK, OwnIDs, NEW g \in Generator, InTouch(g)
  PROVE  silence[prg[g].temporaryVehicleID] <= requestTimedOutValue
<1>1. /\ prg[g].srmAge \in 0 .. requestTimedOutValue
      /\ silence[prg[g].temporaryVehicleID] \in 0 .. SRMTimedOutTime
  BY DEF GeneratorInv, PrgTypeOK, GeneratorState, LinkTypeOK
<1>2. QED
  BY <1>1, TimeOuts DEF InTouch

\* Steps that leave a generator and its time alone.
LEMMA StaysInTouch ==
  ASSUME NEW g \in Generator, InTouch(g),
         prg'[g].temporaryVehicleID = prg[g].temporaryVehicleID,
         prg'[g].srmAge = prg[g].srmAge, prg'[g].heard = prg[g].heard,
         silence'[prg[g].temporaryVehicleID] = silence[prg[g].temporaryVehicleID],
         \A srm \in air \ air' : ~ /\ srm.vehicleID = prg[g].temporaryVehicleID
                                   /\ srm.intersectionID = Here
  PROVE  InTouch(g)'
BY DEF InTouch

LEMMA BSMTouch ==
  ASSUME GeneratorInv, LinkTypeOK, OwnIDs, HeardInv,
         NEW g \in Generator, NEW bsm \in BSM(g), VehicleBSM(g, bsm)
  PROVE  HeardInv'
<1> DEFINE p    == getVehicleInformationFromMAP(prg[g], bsm)
           due  == checkRequestSendingRequirement(p, bsm)
           asks == Asks(p, bsm) /\ ~Cancels(p, bsm)
<1>1. /\ ReceiveBSM(g, bsm) /\ ~prg[g].heard /\ silence' = silence
      /\ excused' = IF asks /\ p.intersectionID = Here
                         /\ p.temporaryVehicleID = prg[g].temporaryVehicleID
                    THEN excused ELSE excused \cup {g}
  BY DEF VehicleBSM
<1>2. /\ \A h \in Generator \ {g} : prg'[h] = prg[h]
      /\ p.srmAge = prg[g].srmAge /\ p \in GeneratorState
      /\ prg'[g].temporaryVehicleID = p.temporaryVehicleID /\ prg'[g].heard
      /\ due = {} => prg'[g].srmAge = prg[g].srmAge /\ air' = air
      /\ due # {} => \E type \in due : air' = air \cup {createSRMJsonString(p, type)}
  BY <1>1, BSMOutcome
<1>3. asks /\ due = {} => p.srmAge < requestTimedOutValue
  BY <1>2, AsksInTime
<1>4. \A type : /\ createSRMJsonString(p, type).vehicleID = p.temporaryVehicleID
                /\ createSRMJsonString(p, type).intersectionID = p.intersectionID
  BY DEF createSRMJsonString
<1> HIDE DEF p, due, asks
<1>5. air \subseteq air'
  BY <1>2
<1>6. ASSUME NEW h \in Generator \ excused', h # g
      PROVE  InTouch(h)'
  <2>1. h \in Generator \ excused /\ prg'[h] = prg[h]
    BY <1>1, <1>2, <1>6
  <2>2. InTouch(h)
    BY <2>1 DEF HeardInv
  <2>3. QED
    BY <1>1, <1>5, <2>1, <2>2, StaysInTouch
<1>7. ASSUME g \notin excused'
      PROVE  InTouch(g)'
  <2>1. /\ g \notin excused /\ asks /\ p.intersectionID = Here
        /\ p.temporaryVehicleID = prg[g].temporaryVehicleID
    BY <1>1, <1>7
  <2>2. InTouch(g) /\ silence[prg[g].temporaryVehicleID] <= requestTimedOutValue
    BY <2>1, TouchedInTime DEF HeardInv
  <2>3. CASE due = {}
    BY <1>1, <1>2, <1>3, <2>1, <2>2, <2>3 DEF InTouch
  <2>4. CASE due # {}
    BY <1>1, <1>2, <1>4, <2>1, <2>2, <2>4 DEF InTouch
  <2>5. QED
    BY <2>3, <2>4
<1>8. ~onSchedule => excused' = Generator
  BY <1>1 DEF HeardInv
<1>9. QED
  BY <1>6, <1>7, <1>8 DEF HeardInv

LEMMA TickTouch ==
  ASSUME GeneratorInv, LinkTypeOK, OwnIDs, HeardInv, Tick
  PROVE  HeardInv'
<1>1. /\ excused' = excused /\ air = {}
      /\ silence' = [id \in Vehicle |-> IF silence[id] < SRMTimedOutTime
                                          THEN silence[id] + 1 ELSE silence[id]]
      /\ prg' = [g \in Generator |-> [prg[g] EXCEPT !.srmAge = Older(@), !.heard = FALSE]]
      /\ \A g \in Generator : prg[g].heard
  BY DEF Tick, PrgTick
<1>2. ASSUME NEW g \in Generator \ excused
      PROVE  InTouch(g)'
  <2> DEFINE id == prg[g].temporaryVehicleID
  <2>1. /\ prg[g].srmAge \in 0 .. requestTimedOutValue
        /\ prg'[g].temporaryVehicleID = id /\ ~prg'[g].heard
        /\ prg'[g].srmAge = Older(prg[g].srmAge)
    BY <1>1 DEF GeneratorInv, PrgTypeOK, GeneratorState
  <2>2. id \in Vehicle
    BY OwnerIs DEF OwnIDs
  <2>3. /\ silence[id] \in 0 .. SRMTimedOutTime /\ silence'[id] \in 0 .. SRMTimedOutTime
        /\ silence'[id] <= silence[id] + 1
    BY <2>2, TickSilence
  <2>4. silence[id] = 0 \/ (silence[id] <= prg[g].srmAge /\ prg[g].srmAge < requestTimedOutValue)
    BY <1>1, <1>2 DEF HeardInv, InTouch
  <2>5. silence'[id] <= prg'[g].srmAge
    <3>1. silence[id] \in Int /\ silence'[id] \in Int /\ silence'[id] <= silence[id] + 1
      BY <2>3, TimeOuts
    <3> HIDE DEF id
    <3>2. QED
      BY <2>1, <2>4, <3>1, TimeOuts DEF Older
  <2>6. QED
    BY <2>1, <2>5 DEF InTouch
<1>3. QED
  BY <1>1, <1>2 DEF HeardInv

LEMMA HeardStep ==
  ASSUME GeneratorInv, LinkTypeOK, OwnIDs, HeardInv, [ExchangeNext]_exchangeVars
  PROVE  HeardInv'
<1>1. DOMAIN prg = Generator /\ \A g \in Generator : prg[g] \in GeneratorState
  BY DEF GeneratorInv, PrgTypeOK
<1>2. ASSUME NEW srm \in air, ServeSRM(srm)
      PROVE  HeardInv'
  <2> DEFINE o == Owner(srm.vehicleID)
  <2>1. srm.vehicleID \in Vehicle /\ o \in Generator /\ srm.vehicleID \in IDs[o]
    BY CountsOfSRMs, OwnerIs
  <2>2. prg' = prg /\ air' = air \ {srm}
    BY <1>2 DEF ServeSRM, Depart
  <2>3. CASE /\ srm.intersectionID = Here /\ onSchedule
             /\ silence' = [silence EXCEPT ![srm.vehicleID] = 0]
             /\ excused' = IF srm.vehicleID = prg[o].temporaryVehicleID
                           THEN excused \ {o} ELSE excused
    <3>1. ASSUME NEW g \in Generator \ excused'
          PROVE  InTouch(g)'
      <4>1. CASE srm.vehicleID = prg[g].temporaryVehicleID
        BY <2>1, <2>2, <2>3, <4>1 DEF InTouch, LinkTypeOK
      <4>2. CASE srm.vehicleID # prg[g].temporaryVehicleID
        <5>1. g \notin excused
          BY <2>3, <3>1, <4>2
        <5>2. silence'[prg[g].temporaryVehicleID] = silence[prg[g].temporaryVehicleID]
          BY <2>3, <4>2 DEF LinkTypeOK
        <5>3. QED
          BY <2>2, <4>2, <5>1, <5>2, StaysInTouch DEF HeardInv
      <4>3. QED
        BY <4>1, <4>2
    <3>2. QED
      BY <2>3, <3>1 DEF HeardInv
  <2>4. CASE (srm.intersectionID # Here \/ ~onSchedule) /\ UNCHANGED <<silence, excused>>
    <3>1. ASSUME NEW g \in Generator \ excused'
          PROVE  InTouch(g)'
      <4>1. g \notin excused /\ InTouch(g) /\ onSchedule
        BY <2>4, <3>1 DEF HeardInv
      <4>2. QED
        BY <2>2, <2>4, <4>1, StaysInTouch
    <3>2. QED
      BY <2>4, <3>1 DEF HeardInv
  <2>5. QED
    BY <1>2, <2>3, <2>4 DEF ServeSRM
<1>3. ASSUME NEW srm \in air, LoseSRM(srm)
      PROVE  HeardInv'
  <2>1. prg' = prg /\ air' = air \ {srm} /\ silence' = silence
        /\ excused' = excused \cup {Owner(srm.vehicleID)}
    BY <1>3 DEF LoseSRM, Depart
  <2>2. ASSUME NEW g \in Generator \ excused'
        PROVE  InTouch(g)'
    <3>1. g \notin excused /\ g # Owner(srm.vehicleID)
      BY <2>1, <2>2
    <3>2. srm.vehicleID # prg[g].temporaryVehicleID
      BY <3>1, OwnerIs DEF OwnIDs
    <3>3. QED
      BY <2>1, <3>1, <3>2, StaysInTouch DEF HeardInv
  <2>3. Owner(srm.vehicleID) \in Generator
    BY CountsOfSRMs, OwnerIs
  <2>4. QED
    BY <2>1, <2>2, <2>3 DEF HeardInv
<1>4. ASSUME NEW g \in Generator, VehicleSSM(g) \/ VehicleOther(g)
      PROVE  HeardInv'
  <2>1. UNCHANGED <<silence, excused, air>>
    BY <1>4
       DEF VehicleSSM, VehicleOther, linkVars, ReceiveSSM, ReceiveMAP, ReceiveLightSirenStatus
  <2>2. \A h \in Generator : /\ prg'[h].temporaryVehicleID = prg[h].temporaryVehicleID
                             /\ prg'[h].srmAge = prg[h].srmAge /\ prg'[h].heard = prg[h].heard
    BY <1>1, <1>4
       DEF VehicleSSM, VehicleOther, ReceiveSSM, ReceiveMAP, ReceiveLightSirenStatus, GeneratorState
  <2>3. QED
    BY <2>1, <2>2, StaysInTouch DEF HeardInv
<1>5. ASSUME NEW g \in Generator, RestartVehicle(g)
      PROVE  HeardInv'
  <2>1. /\ UNCHANGED <<silence, air>> /\ excused' = excused \cup {g}
        /\ prg' = [prg EXCEPT ![g] = Started(prg[g].temporaryVehicleID)]
    BY <1>5 DEF RestartVehicle, RestartGenerator
  <2>2. \A h \in Generator \ {g} : prg'[h] = prg[h]
    BY <1>1, <2>1
  <2>3. ASSUME NEW h \in Generator \ excused'
        PROVE  InTouch(h)'
    BY <2>1, <2>2, <2>3, StaysInTouch DEF HeardInv
  <2>4. QED
    BY <2>1, <2>3 DEF HeardInv
<1>6. CASE \/ ServeCoordination \/ ServeTimeout \/ RestartServer
           \/ \E g \in Generator : LoseSSM(g)
           \/ UNCHANGED exchangeVars
  <2>1. UNCHANGED <<prg, air, silence, excused>>
    BY <1>6 DEF ServeCoordination, ServeTimeout, RestartServer, LoseSSM, exchangeVars, linkVars,
                prgVars
  <2>2. QED
    BY <2>1, StaysInTouch DEF HeardInv
<1>7. QED
  BY <1>2, <1>3, <1>4, <1>5, <1>6, BSMTouch, TickTouch DEF ExchangeNext

-----------------------------------------------------------------------------
(* What shows a generator's message count *)

\* How many SRMs ago count v was, now that the last one is c.
Since(v, c) == IF v <= c THEN c - v ELSE c - v + maxMsgCount

\* What shows is one of the SRMs that are counted; the count of an SRM that has not
\* arrived shows nowhere.
CountsOf(g) ==
  LET c == prg[g].msgCount
  IN  /\ \A v \in (Shown(g) \cup OnAir(g)) \ {0} : c # 0 /\ Since(v, c) < counted[g]
      /\ g \in undelivered => c # 0 /\ c \notin Shown(g)

CountInv == \A g \in Generator : counted[g] <= maxMsgCount => CountsOf(g)

\* Since then one more SRM was sent, until the count comes round.
LEMMA OneMoreSince ==
  ASSUME NEW v \in 1 .. maxMsgCount, NEW c \in 1 .. maxMsgCount,
         NEW n \in 0 .. maxMsgCount - 1, Since(v, c) < n
  PROVE  Since(v, NextCount(c)) < n + 1 /\ v # NextCount(c)
BY Constants DEF Since, NextCount, minMsgCount

LEMMA NextCounts ==
  ASSUME NEW c \in 0 .. maxMsgCount
  PROVE  NextCount(c) \in 1 .. maxMsgCount /\ Since(NextCount(c), NextCount(c)) = 0
BY Constants DEF Since, NextCount, minMsgCount

LEMMA ShownIn ==
  ASSUME NEW g, NEW S,
         \A id \in IDs[g] : /\ msgCount'[id] \in S /\ prg'[g].ART[id] \in S
                            /\ g \in pending' => ssmCount'[id] \in S
  PROVE  Shown(g)' \subseteq S
BY DEF Shown

LEMMA Shows ==
  ASSUME NEW g, NEW id \in IDs[g]
  PROVE  /\ msgCount[id] \in Shown(g) /\ prg[g].ART[id] \in Shown(g)
         /\ g \in pending => ssmCount[id] \in Shown(g)
BY DEF Shown

LEMMA ShownTypes ==
  ASSUME GeneratorInv, LinkTypeOK, NEW g \in Generator
  PROVE  /\ Shown(g) \subseteq 0 .. maxMsgCount /\ OnAir(g) \subseteq 0 .. maxMsgCount
         /\ prg[g].msgCount \in 0 .. maxMsgCount
<1>1. /\ prg[g].ART \in [Vehicle -> 0 .. maxMsgCount]
      /\ prg[g].msgCount \in 0 .. maxMsgCount
  BY DEF GeneratorInv, PrgTypeOK, GeneratorState
<1>2. OnAir(g) \subseteq 0 .. maxMsgCount
  BY CountsOfSRMs DEF OnAir
<1>3. \A id \in IDs[g] : id \in Vehicle
  BY DEF Vehicle
<1>4. Shown(g) \subseteq 0 .. maxMsgCount
  BY <1>1, <1>3 DEF Shown, LinkTypeOK
<1>5. QED
  BY <1>1, <1>2, <1>4

\* Whoever sends nothing, and is shown nothing but what was shown, or was under way.
LEMMA NothingSent ==
  ASSUME CountInv, NEW g \in Generator,
         prg'[g].msgCount = prg[g].msgCount, counted'[g] = counted[g],
         OnAir(g)' \subseteq OnAir(g),
         Shown(g)' \subseteq Shown(g) \cup OnAir(g) \cup {0},
         g \in undelivered' =>
           /\ g \in undelivered
           /\ \A v \in Shown(g)' : v \in Shown(g) \cup {0} \/ v # prg[g].msgCount
  PROVE  counted'[g] <= maxMsgCount => CountsOf(g)'
BY DEF CountInv, CountsOf

\* The roadside: tables and SSMs show what they did, or what an SRM brings.
LEMMA RoadsideShows ==
  ASSUME LinkTypeOK, NEW g \in Generator, NEW brings, NEW count \in 0 .. maxMsgCount,
         msgCount' \in {msgCount, Column(brings, count)}, prg'[g] = prg[g],
         \/ ssmCount' = msgCount' /\ pending' = Generator
         \/ ssmCount' = ssmCount /\ pending' \subseteq pending
  PROVE  Shown(g)' \subseteq
           Shown(g) \cup {0} \cup (IF brings \in IDs[g] THEN {count} ELSE {})
<1> DEFINE S == Shown(g) \cup {0} \cup (IF brings \in IDs[g] THEN {count} ELSE {})
<1>1. ASSUME NEW id \in IDs[g]
      PROVE  /\ msgCount'[id] \in S /\ prg'[g].ART[id] \in S
             /\ g \in pending' => ssmCount'[id] \in S
  <2>1. /\ msgCount[id] \in S /\ prg[g].ART[id] \in S
        /\ g \in pending => ssmCount[id] \in S
    BY Shows
  <2>2. id \in Vehicle
    BY OwnerIs
  <2>3. \/ Column(brings, count)[id] \in {0, msgCount[id]}
        \/ id = brings /\ Column(brings, count)[id] = count
    BY <2>2, ColumnValues
  <2>4. Column(brings, count)[id] \in S
    BY <2>1, <2>3
  <2> HIDE DEF S
  <2>5. QED
    BY <2>1, <2>4
<1> HIDE DEF S
<1>2. Shown(g)' \subseteq S
  BY <1>1, ShownIn
<1>3. QED
  BY <1>2 DEF S

LEMMA SRMOnAir ==
  ASSUME NEW srm \in air, NEW g \in Generator, srm.vehicleID \in IDs[g]
  PROVE  srm.msgCount \in OnAir(g)
BY DEF OnAir

LEMMA FewerOnAir ==
  ASSUME NEW g, air' \subseteq air
  PROVE  OnAir(g)' \subseteq OnAir(g)
BY DEF OnAir

\* An SRM that arrives takes its count from the air to the table.
LEMMA ServeSRMCounts ==
  ASSUME GeneratorInv, LinkTypeOK, CountInv, NEW srm \in air, ServeSRM(srm)
  PROVE  CountInv'
<1>1. /\ prg' = prg /\ counted' = counted /\ air' \subseteq air
      /\ \/ ssmCount' = msgCount' /\ pending' = Generator
         \/ ssmCount' = ssmCount /\ pending' = pending
      /\ undelivered' \in
           {undelivered, undelivered \ {Owner(srm.vehicleID)}}
  BY DEF ServeSRM, Depart, Broadcast, NoBroadcast
<1>2. srm.vehicleID \in Vehicle /\ srm.msgCount \in 0 .. maxMsgCount
  BY CountsOfSRMs
<1>3. ASSUME NEW g \in Generator
      PROVE  counted'[g] <= maxMsgCount => CountsOf(g)'
  <2>1. CASE msgCount' \in {msgCount, Column(0, 0)}
    <3>1. Shown(g)' \subseteq Shown(g) \cup {0} \cup (IF 0 \in IDs[g] THEN {0} ELSE {})
      BY <1>1, <2>1, NoCount, RoadsideShows
    <3>2. Shown(g)' \subseteq Shown(g) \cup {0}
      BY <3>1
    <3>3. QED
      BY <1>1, <3>2, FewerOnAir, NothingSent
  <2>2. CASE /\ msgCount' = Column(srm.vehicleID, srm.msgCount)
             /\ undelivered' = IF srm.msgCount = prg[Owner(srm.vehicleID)].msgCount
                               THEN undelivered \ {Owner(srm.vehicleID)} ELSE undelivered
    <3>1. Shown(g)' \subseteq Shown(g) \cup {0}
                      \cup (IF srm.vehicleID \in IDs[g] THEN {srm.msgCount} ELSE {})
      BY <1>1, <1>2, <2>2, RoadsideShows
    <3>2. srm.vehicleID \in IDs[g] => srm.msgCount \in OnAir(g) /\ Owner(srm.vehicleID) = g
      BY SRMOnAir, OwnerIs
    <3>3. Shown(g)' \subseteq Shown(g) \cup OnAir(g) \cup {0}
      BY <3>1, <3>2
    <3>4. g \in undelivered' =>
            /\ g \in undelivered
            /\ \A v \in Shown(g)' : v \in Shown(g) \cup {0} \/ v # prg[g].msgCount
      BY <2>2, <3>1, <3>2
    <3>5. QED
      BY <1>1, <3>3, <3>4, FewerOnAir, NothingSent
  <2>3. QED
    BY <2>1, <2>2 DEF ServeSRM
<1>4. QED
  BY <1>3 DEF CountInv

\* The other steps of the roadside and of the link bring nothing.
LEMMA RoadsideCounts ==
  ASSUME LinkTypeOK, CountInv, msgCount' \in {msgCount, Column(0, 0)},
         prg' = prg, counted' = counted, undelivered' = undelivered, air' \subseteq air,
         \/ ssmCount' = msgCount' /\ pending' = Generator
         \/ ssmCount' = ssmCount /\ pending' \subseteq pending
  PROVE  CountInv'
<1>1. ASSUME NEW g \in Generator
      PROVE  counted'[g] <= maxMsgCount => CountsOf(g)'
  <2>1. Shown(g)' \subseteq Shown(g) \cup {0} \cup (IF 0 \in IDs[g] THEN {0} ELSE {})
    BY NoCount, RoadsideShows
  <2>2. Shown(g)' \subseteq Shown(g) \cup {0}
    BY <2>1
  <2>3. QED
    BY <2>2, FewerOnAir, NothingSent
<1>2. QED
  BY <1>1 DEF CountInv

\* The other datagrams of a vehicle, and the passing of time.
LEMMA VehicleCounts ==
  ASSUME LinkTypeOK, CountInv, msgCount' = msgCount, ssmCount' = ssmCount,
         pending' \subseteq pending, undelivered' = undelivered, air' \subseteq air,
         \A g \in Generator :
           \/ ~(counted'[g] <= maxMsgCount)
           \/ /\ counted'[g] = counted[g] /\ prg'[g].msgCount = prg[g].msgCount
              /\ \A id \in IDs[g] : prg'[g].ART[id] \in Shown(g) \cup {0}
  PROVE  CountInv'
<1>1. ASSUME NEW g \in Generator,
             counted'[g] = counted[g], prg'[g].msgCount = prg[g].msgCount,
             \A id \in IDs[g] : prg'[g].ART[id] \in Shown(g) \cup {0}
      PROVE  counted'[g] <= maxMsgCount => CountsOf(g)'
  <2> DEFINE S == Shown(g) \cup {0}
  <2>1. \A id \in IDs[g] : /\ msgCount'[id] \in S /\ prg'[g].ART[id] \in S
                           /\ g \in pending' => ssmCount'[id] \in S
    BY <1>1, Shows
  <2>2. Shown(g)' \subseteq S
    BY <2>1, ShownIn
  <2>3. QED
    BY <1>1, <2>2, FewerOnAir, NothingSent
<1>2. ASSUME NEW g \in Generator, ~(counted'[g] <= maxMsgCount)
      PROVE  counted'[g] <= maxMsgCount => CountsOf(g)'
  <2>1. QED
    BY <1>2
<1>3. QED
  BY <1>1, <1>2 DEF CountInv

\* Whoever sends an SRM counts it, and is shown no other of that count.
LEMMA SendsOne ==
  ASSUME GeneratorInv, LinkTypeOK, CountInv, NEW g \in Generator,
         prg'[g].msgCount = NextCount(prg[g].msgCount), counted'[g] = Counting(g),
         OnAir(g)' \subseteq OnAir(g) \cup {NextCount(prg[g].msgCount)},
         Shown(g)' \subseteq Shown(g) \cup {0}
  PROVE  counted'[g] <= maxMsgCount => CountsOf(g)'
<1> DEFINE c == prg[g].msgCount
           n == counted[g]
<1>1. /\ Shown(g) \subseteq 0 .. maxMsgCount /\ OnAir(g) \subseteq 0 .. maxMsgCount
      /\ c \in 0 .. maxMsgCount
  BY ShownTypes
<1>2. n \in 0 .. maxMsgCount + 1 /\ maxMsgCount \in Nat
  BY Constants DEF LinkTypeOK
<1>3. NextCount(c) \in 1 .. maxMsgCount /\ Since(NextCount(c), NextCount(c)) = 0
  BY <1>1, NextCounts
<1>4. CASE Traceless(g)
  <2>1. counted'[g] = 1 /\ Shown(g) \subseteq {0} /\ OnAir(g) = {}
    BY <1>4 DEF Counting, Traceless
  <2>2. \A v \in (Shown(g)' \cup OnAir(g)') \ {0} : v = NextCount(c)
    BY <2>1
  <2>3. NextCount(c) \notin Shown(g)'
    BY <1>3, <2>1
  <2> HIDE DEF c
  <2>4. QED
    BY <1>3, <2>1, <2>2, <2>3 DEF CountsOf, c
<1>5. ASSUME ~Traceless(g), counted'[g] <= maxMsgCount
      PROVE  CountsOf(g)'
  <2>1. n \in 0 .. maxMsgCount - 1 /\ counted'[g] = n + 1
    BY <1>2, <1>5 DEF Counting
  <2>2. CountsOf(g)
    BY <1>2, <2>1 DEF CountInv
  <2>3. ASSUME NEW v \in (Shown(g) \cup OnAir(g)) \ {0}
        PROVE  Since(v, NextCount(c)) < n + 1 /\ v # NextCount(c)
    <3>1. c # 0 /\ Since(v, c) < n
      BY <2>2, <2>3 DEF CountsOf
    <3>2. v \in 1 .. maxMsgCount /\ c \in 1 .. maxMsgCount
      BY <1>1, <1>2, <2>3, <3>1
    <3> HIDE DEF c, n
    <3>3. QED
      BY <2>1, <3>1, <3>2, OneMoreSince
  <2>4. 0 < n + 1
    BY <2>1
  <2> HIDE DEF c, n
  <2>5. \A v \in (Shown(g)' \cup OnAir(g)') \ {0} :
          Since(v, NextCount(c)) < n + 1
    BY <1>3, <2>3, <2>4 DEF c
  <2>6. NextCount(c) # 0 /\ NextCount(c) \notin Shown(g)'
    BY <1>3, <2>3
  <2>7. QED
    BY <2>1, <2>5, <2>6 DEF CountsOf, c
<1>6. QED
  BY <1>4, <1>5

LEMMA BSMCounts ==
  ASSUME GeneratorInv, LinkTypeOK, OwnIDs, CountInv,
         NEW g \in Generator, NEW bsm \in BSM(g), VehicleBSM(g, bsm)
  PROVE  CountInv'
<1> DEFINE p   == getVehicleInformationFromMAP(prg[g], bsm)
           due == checkRequestSendingRequirement(p, bsm)
<1>1. /\ ReceiveBSM(g, bsm) /\ UNCHANGED <<msgCount, ssmCount, pending>>
      /\ undelivered' = IF due # {} THEN undelivered \cup {g} ELSE undelivered
      /\ counted' = IF due # {} THEN [counted EXCEPT ![g] = Counting(g)] ELSE counted
  BY DEF VehicleBSM
<1>2. /\ \A h \in Generator \ {g} : prg'[h] = prg[h]
      /\ p.temporaryVehicleID \in IDs[g]
      /\ prg'[g].ART \in {prg[g].ART, EmptyART}
      /\ due = {} => prg'[g].msgCount = prg[g].msgCount /\ air' = air
      /\ due # {} =>
           /\ prg'[g].msgCount = NextCount(prg[g].msgCount)
           /\ \E type \in due : air' = air \cup {createSRMJsonString(p, type)}
           /\ \A type : createSRMJsonString(p, type).msgCount = prg'[g].msgCount
  BY <1>1, BSMOutcome
<1>3. \A type : createSRMJsonString(p, type).vehicleID = p.temporaryVehicleID
  BY DEF createSRMJsonString
<1> HIDE DEF p, due
<1>4. DOMAIN counted = Generator
  BY DEF LinkTypeOK
<1>5. ASSUME NEW h \in Generator
      PROVE  Shown(h)' \subseteq Shown(h) \cup {0}
  <2> DEFINE S == Shown(h) \cup {0}
  <2>1. ASSUME NEW id \in IDs[h]
        PROVE  /\ msgCount'[id] \in S /\ prg'[h].ART[id] \in S
               /\ h \in pending' => ssmCount'[id] \in S
    <3>1. id \in Vehicle
      BY OwnerIs
    <3>2. prg'[h].ART[id] \in {prg[h].ART[id], 0}
      BY <1>2, <3>1 DEF EmptyART
    <3>3. QED
      BY <1>1, <3>2, Shows
  <2> HIDE DEF S
  <2>2. Shown(h)' \subseteq S
    BY <2>1, ShownIn
  <2>3. QED
    BY <2>2 DEF S
<1>6. ASSUME NEW h \in Generator, h # g
      PROVE  counted'[h] <= maxMsgCount => CountsOf(h)'
  <2>1. prg'[h] = prg[h] /\ counted'[h] = counted[h] /\ (h \in undelivered' => h \in undelivered)
    BY <1>1, <1>2, <1>4, <1>6
  <2>2. p.temporaryVehicleID \notin IDs[h]
    BY <1>2, <1>6, OwnerIs
  <2>3. \A srm \in air' : srm \in air \/ srm.vehicleID \notin IDs[h]
    BY <1>2, <1>3, <2>2
  <2>4. OnAir(h)' \subseteq OnAir(h)
    BY <2>3 DEF OnAir
  <2>5. QED
    BY <1>5, <2>1, <2>4, NothingSent
<1>7. CASE due = {}
  <2>1. counted'[g] = counted[g] /\ undelivered' = undelivered /\ air' = air
        /\ prg'[g].msgCount = prg[g].msgCount
    BY <1>1, <1>2, <1>7
  <2>2. counted'[g] <= maxMsgCount => CountsOf(g)'
    BY <1>5, <2>1, FewerOnAir, NothingSent
  <2>3. QED
    BY <1>6, <2>2 DEF CountInv
<1>8. CASE due # {}
  <2>1. counted'[g] = Counting(g) /\ prg'[g].msgCount = NextCount(prg[g].msgCount)
    BY <1>1, <1>2, <1>4, <1>8
  <2>2. \A srm \in air' : srm \in air \/ srm.msgCount = NextCount(prg[g].msgCount)
    BY <1>2, <1>8
  <2>3. OnAir(g)' \subseteq OnAir(g) \cup {NextCount(prg[g].msgCount)}
    BY <2>2 DEF OnAir
  <2>4. counted'[g] <= maxMsgCount => CountsOf(g)'
    BY <1>5, <2>1, <2>3, SendsOne
  <2>5. QED
    BY <1>6, <2>4 DEF CountInv
<1>9. QED
  BY <1>7, <1>8

LEMMA CountStep ==
  ASSUME GeneratorInv, LinkTypeOK, OwnIDs, CountInv, [ExchangeNext]_exchangeVars
  PROVE  CountInv'
<1>1. DOMAIN prg = Generator /\ \A g \in Generator : prg[g] \in GeneratorState
  BY DEF GeneratorInv, PrgTypeOK
<1>2. CASE ServeCoordination \/ ServeTimeout \/ RestartServer
  <2>1. /\ msgCount' = Column(0, 0) /\ UNCHANGED <<prg, air, undelivered, counted>>
        /\ \/ ssmCount' = msgCount' /\ pending' = Generator
           \/ ssmCount' = ssmCount /\ pending' = pending
    BY <1>2
       DEF ServeCoordination, ServeTimeout, RestartServer, prgVars, Broadcast, NoBroadcast
  <2>2. QED
    BY <2>1, RoadsideCounts
<1>3. CASE \/ \E srm \in air : LoseSRM(srm)
           \/ \E g \in Generator : LoseSSM(g)
           \/ UNCHANGED exchangeVars
  <2>1. /\ UNCHANGED <<prg, msgCount, ssmCount, undelivered, counted>>
        /\ pending' \subseteq pending /\ air' \subseteq air
    BY <1>3 DEF LoseSRM, LoseSSM, Depart, exchangeVars, linkVars, prgVars
  <2>2. QED
    BY <2>1, RoadsideCounts
<1>4. ASSUME NEW g \in Generator, VehicleSSM(g)
      PROVE  CountInv'
  <2> DEFINE listed == [id \in Vehicle |-> IF InSSM(id) THEN ssmCount[id] ELSE 0]
  <2>1. /\ UNCHANGED <<msgCount, ssmCount, undelivered, counted, air>>
        /\ pending' \subseteq pending /\ g \in pending
        /\ prg' = prg \/ prg' = [prg EXCEPT ![g].ART = listed]
    BY <1>4 DEF VehicleSSM, ReceiveSSM
  <2>2. \A id \in IDs[g] : listed[id] \in Shown(g) \cup {0}
    BY <2>1, OwnerIs, Shows
  <2> HIDE DEF listed
  <2>3. ASSUME NEW h \in Generator
        PROVE  /\ counted'[h] = counted[h] /\ prg'[h].msgCount = prg[h].msgCount
               /\ \A id \in IDs[h] : prg'[h].ART[id] \in Shown(h) \cup {0}
    <3>1. CASE prg' = prg \/ h # g
      BY <1>1, <2>1, <3>1, Shows
    <3>2. CASE prg' = [prg EXCEPT ![g].ART = listed] /\ h = g
      <4>1. prg'[h].ART = listed /\ prg'[h].msgCount = prg[h].msgCount
        BY <1>1, <3>2 DEF GeneratorState
      <4>2. QED
        BY <2>1, <2>2, <3>2, <4>1
    <3>3. QED
      BY <2>1, <3>1, <3>2
  <2>4. QED
    BY <2>1, <2>3, VehicleCounts
<1>5. ASSUME NEW g \in Generator, VehicleOther(g)
      PROVE  CountInv'
  <2>1. UNCHANGED <<msgCount, ssmCount, pending, undelivered, counted, air>>
    BY <1>5 DEF VehicleOther, linkVars, ReceiveMAP, ReceiveLightSirenStatus
  <2>2. \A h \in Generator : /\ prg'[h].msgCount = prg[h].msgCount
                             /\ prg'[h].ART = prg[h].ART
    <3>1. ASSUME NEW intersection, ReceiveMAP(g, intersection)
          PROVE  \A h \in Generator : /\ prg'[h].msgCount = prg[h].msgCount
                                     /\ prg'[h].ART = prg[h].ART
      BY <1>1, <3>1 DEF ReceiveMAP, GeneratorState
    <3>2. ASSUME NEW on, ReceiveLightSirenStatus(g, on)
          PROVE  \A h \in Generator : /\ prg'[h].msgCount = prg[h].msgCount
                                     /\ prg'[h].ART = prg[h].ART
      BY <1>1, <3>2 DEF ReceiveLightSirenStatus, GeneratorState
    <3>3. QED
      BY <1>5, <3>1, <3>2 DEF VehicleOther
  <2>3. QED
    BY <2>1, <2>2, Shows, VehicleCounts
<1>6. ASSUME NEW g \in Generator, RestartVehicle(g)
      PROVE  CountInv'
  <2>1. /\ UNCHANGED <<msgCount, ssmCount, pending, undelivered, air>>
        /\ counted' = [counted EXCEPT ![g] = maxMsgCount + 1]
        /\ prg' = [prg EXCEPT ![g] = Started(prg[g].temporaryVehicleID)]
    BY <1>6 DEF RestartVehicle, RestartGenerator
  <2>2. ~(counted'[g] <= maxMsgCount)
    BY <2>1, Constants DEF LinkTypeOK
  <2>3. \A h \in Generator \ {g} : counted'[h] = counted[h] /\ prg'[h] = prg[h]
    BY <1>1, <2>1 DEF LinkTypeOK
  <2>4. QED
    BY <2>1, <2>2, <2>3, Shows, VehicleCounts
<1>7. CASE Tick
  <2>1. /\ UNCHANGED <<msgCount, ssmCount, pending, undelivered, counted, air>>
        /\ prg' = [g \in Generator |-> [prg[g] EXCEPT !.srmAge = Older(@), !.heard = FALSE]]
    BY <1>7 DEF Tick, PrgTick
  <2>2. \A h \in Generator : /\ prg'[h].msgCount = prg[h].msgCount
                             /\ prg'[h].ART = prg[h].ART
    BY <1>1, <2>1 DEF GeneratorState
  <2>3. QED
    BY <2>1, <2>2, Shows, VehicleCounts
<1>8. QED
  BY <1>2, <1>3, <1>4, <1>5, <1>6, <1>7, ServeSRMCounts, BSMCounts DEF ExchangeNext

-----------------------------------------------------------------------------
(* What the exchange keeps *)

ExchangeInv == GeneratorInv /\ LinkTypeOK /\ OwnIDs /\ HeardInv /\ CountInv

LEMMA ExchangeInitially == ExchangeInit => ExchangeInv
<1> SUFFICES ASSUME ExchangeInit PROVE ExchangeInv
  OBVIOUS
<1>1. GeneratorInv
  BY GeneratorInitially DEF ExchangeInit
<1>2. LinkTypeOK
  <2>1. EmptyART \in [Vehicle -> 0 .. maxMsgCount]
    BY NoCount DEF EmptyART
  <2>2. silence \in [Vehicle -> 0 .. SRMTimedOutTime]
    BY TimeOuts DEF ExchangeInit
  <2>3. counted \in [Generator -> 0 .. maxMsgCount + 1]
    BY Constants DEF ExchangeInit
  <2>4. QED
    BY <2>1, <2>2, <2>3 DEF ExchangeInit, LinkTypeOK
<1>3. PICK first \in [Generator -> Vehicle] :
        /\ \A g \in Generator : first[g] \in IDs[g]
        /\ prg = [g \in Generator |-> Started(first[g])]
  BY DEF ExchangeInit, PrgInit
<1>4. OwnIDs
  BY <1>3 DEF OwnIDs, Started
<1>5. HeardInv
  BY DEF ExchangeInit, HeardInv
<1>6. CountInv
  <2>1. ASSUME NEW g \in Generator
        PROVE  CountsOf(g)
    <3>1. prg[g].ART = EmptyART
      BY <1>3 DEF Started
    <3>2. \A id \in IDs[g] : msgCount[id] = 0 /\ prg[g].ART[id] = 0
      BY <3>1, OwnerIs DEF ExchangeInit, EmptyART
    <3>3. Shown(g) \subseteq {0}
      BY <3>2 DEF Shown, ExchangeInit
    <3>4. OnAir(g) = {}
      BY DEF OnAir, ExchangeInit, PrgInit
    <3>5. QED
      BY <3>3, <3>4 DEF CountsOf, ExchangeInit
  <2>2. QED
    BY <2>1 DEF CountInv
<1>7. QED
  BY <1>1, <1>2, <1>4, <1>5, <1>6 DEF ExchangeInv

LEMMA ExchangeKept == ExchangeInv /\ [ExchangeNext]_exchangeVars => ExchangeInv'
<1>1. LinkTypeOK /\ GeneratorInv /\ [ExchangeNext]_exchangeVars => GeneratorInv'
  BY VehiclesStep, GeneratorStep
<1>2. QED
  BY <1>1, LinkStep, HeardStep, CountStep DEF ExchangeInv

LEMMA ExchangeInvariant == ExchangeSpec => []ExchangeInv
BY ExchangeInitially, ExchangeKept, PTL DEF ExchangeSpec

\* A vehicle that wants priority, none of whose SRMs was lost, is heard by the server
\* before the server's time-out, for every number of vehicles and of IDs, every loss and
\* restart, and every pair of time-outs that the assumptions allow.
THEOREM WhoAsksIsHeardInTime == ExchangeSpec => []HeardInTime
<1>1. ExchangeInv => HeardInTime
  <2>1. ASSUME ExchangeInv, NEW g \in asking \ excused
        PROVE  silence[prg[g].temporaryVehicleID] < SRMTimedOutTime
    <3>1. g \in Generator \ excused
      BY <2>1 DEF ExchangeInv, LinkTypeOK
    <3>2. silence[prg[g].temporaryVehicleID] <= requestTimedOutValue
      BY <2>1, <3>1, TouchedInTime DEF ExchangeInv, HeardInv
    <3>3. silence[prg[g].temporaryVehicleID] \in 0 .. SRMTimedOutTime
      BY <2>1, <3>1, OwnerIs DEF ExchangeInv, OwnIDs, LinkTypeOK
    <3>4. QED
      BY <3>2, <3>3, TimeOuts
  <2>2. QED
    BY <2>1 DEF HeardInTime
<1>2. QED
  BY <1>1, ExchangeInvariant, PTL

\* A request that its sender takes for acknowledged has arrived, while the counts of the
\* SRMs of which there is a trace have not come round.
THEOREM AcknowledgedRequestsHaveArrived == ExchangeSpec => []AcknowledgedHasArrived
<1>1. ExchangeInv => AcknowledgedHasArrived
  <2>1. ASSUME ExchangeInv, NEW g \in undelivered, counted[g] <= maxMsgCount
        PROVE  prg[g].ART[prg[g].temporaryVehicleID] # prg[g].msgCount
    <3>1. g \in Generator
      BY <2>1 DEF ExchangeInv, LinkTypeOK
    <3>2. prg[g].msgCount \notin Shown(g)
      BY <2>1, <3>1 DEF ExchangeInv, CountInv, CountsOf
    <3>3. prg[g].temporaryVehicleID \in IDs[g]
      BY <2>1, <3>1 DEF ExchangeInv, OwnIDs
    <3>4. QED
      BY <3>2, <3>3, Shows
  <2>2. QED
    BY <2>1 DEF AcknowledgedHasArrived
<1>2. QED
  BY <1>1, ExchangeInvariant, PTL

\* The exchange runs the server and the generators as they are: what is proved of either
\* alone holds in the exchange too.
THEOREM ExchangeRunsBoth ==
  ExchangeSpec => PrgSpec /\ Server!Init /\ [][Server!Next]_serverVars
<1>1. ExchangeInv /\ [ExchangeNext]_exchangeVars => [PrgNext]_prgVars
  BY VehiclesStep DEF ExchangeInv
<1>2. ExchangeInv /\ [ExchangeNext]_exchangeVars => [Server!Next]_serverVars
  BY ServerStep DEF ExchangeInv
<1>3. ExchangeInit => PrgInit /\ Server!Init
  BY DEF ExchangeInit
<1>4. QED
  BY <1>1, <1>2, <1>3, ExchangeInvariant, PTL DEF ExchangeSpec, PrgSpec
==============================================================================
