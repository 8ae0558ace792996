------------------------ MODULE PriorityRequestServer ------------------------
(***************************************************************************)
(* The Priority Request Server (PRS) of one intersection: its Active       *)
(* Request Table (ART), the Signal Status Messages (SSM) it answers        *)
(* vehicles with and the request lists it hands to the priority solver.    *)
(*                                                                         *)
(* One action is one iteration of the main loop, which serves one datagram *)
(* or one expiry of the one-second socket timeout.  Time is discrete: Tick *)
(* lets one unit of time pass while the loop is blocked in recvfrom, and   *)
(* the time stamps of the code are kept as ages that stop growing at the   *)
(* largest threshold they are compared with.                               *)
(*                                                                         *)
(* sendPriorityRequestList, sentClearRequestForEV, vehicleETA and the like *)
(* never survive the iteration that sets them; they are parameters here.   *)
(***************************************************************************)
EXTENDS VectorOps

CONSTANTS
  Vehicle,           \* temporary IDs of the vehicles that send SRMs
  RoleOf,            \* the basicVehicleRole each of them is configured with
  Phase,             \* signal groups of the inbound lanes
  CoordinationList,  \* request lists the coordination generator may send
  onSchedule,        \* BusScheduleParameter.OnScheduleFlag of the config file
  Maximum_Number_Of_Priority_Request,
  requestTimedOutValue, SRM_TIME_GAP_VALUE, ART_UPDATE_FREQUENCY,
  TIME_GAP_BETWEEN_ETA_Update, SocketTimeOut

Role == {"fire", "transit", "truck", "otherRole"}
RequestType == {"priorityRequest", "requestUpdate", "priorityCancellation"}
Status == {"unavailable", "granted", "rejected"}
CoordinationID == 1 .. 4
SignalGroup == 0 .. 8

ASSUME VehicleAssumption ==
  /\ Vehicle \subseteq Nat \ CoordinationID
  /\ RoleOf \in [Vehicle -> Role]
  /\ Phase \subseteq SignalGroup

ASSUME CoordinationAssumption ==
  CoordinationList \subseteq
    Seq([vehicleID : CoordinationID, requestedPhase : SignalGroup])

ASSUME TimingAssumption ==
  /\ requestTimedOutValue \in Nat \ {0}
  /\ SRM_TIME_GAP_VALUE \in Nat
  /\ ART_UPDATE_FREQUENCY \in Nat
  /\ TIME_GAP_BETWEEN_ETA_Update \in Nat
  /\ SocketTimeOut \in Nat \ {0}
  /\ Maximum_Number_Of_Priority_Request \in Nat
  /\ onSchedule \in BOOLEAN

VARIABLES
  ART,               \* ActiveRequestTable
  sendSSM,           \* the flag of that name
  sentClearRequest,  \* the flag of that name
  etaAge,            \* time since etaUpdateTime
  idle,              \* time the loop has been waiting in recvfrom
  ssm,               \* the last SSM on the air (requestorInfo)
  solver             \* the last message the priority solver was sent

vars == <<ART, sendSSM, sentClearRequest, etaAge, idle, ssm, solver>>

Entry == [ vehicleID        : Vehicle \cup CoordinationID,
           basicVehicleRole : Role \cup {"roadsideSource"},
           signalGroup      : SignalGroup,
           prsStatus        : Status,
           receivedAge      : 0 .. requestTimedOutValue,   \* msgReceivedTime
           forwardAge       : 0 .. SRM_TIME_GAP_VALUE ]    \* artForwardTime

\* The requestorInfo of an SSM and of a priority request list.
StatusInfo == [ vehicleID             : Vehicle \cup CoordinationID,
                basicVehicleRole      : Role \cup {"roadsideSource"},
                priorityRequestStatus : Status ]

RequestInfo == [ vehicleID            : Vehicle \cup CoordinationID,
                 basicVehicleRole     : Role \cup {"roadsideSource"},
                 requestedSignalGroup : SignalGroup ]

SolverMessage == [ MsgType : {"None", "ClearRequest", "PriorityRequest"},
                   requestorInfo : Seq(RequestInfo) ]

\* What an SRM carries.  "deviates": its speed or ETA is at least
\* ALLOWED_SPEED_DEVIATION or ALLOWED_ETA_DIFFERENCE off the stored one.
SignalRequest ==
  [ vehicleID : Vehicle, priorityRequestType : RequestType,
    signalGroup : Phase, deviates : BOOLEAN ]

NoMessage == [MsgType |-> "None", requestorInfo |-> <<>>]
ClearRequest == [MsgType |-> "ClearRequest", requestorInfo |-> <<>>]

Capped(age, limit) == IF age < limit THEN age + 1 ELSE limit

Init ==
  /\ ART = <<>>
  /\ sendSSM = FALSE
  /\ sentClearRequest = FALSE
  /\ etaAge = TIME_GAP_BETWEEN_ETA_Update
  /\ idle = 0
  /\ ssm = <<>>
  /\ solver = NoMessage

-----------------------------------------------------------------------------
(* The table *)

PositionsOf(table, id) == {i \in DOMAIN table : table[i].vehicleID = id}
PositionsWithRole(table, role) ==
  {i \in DOMAIN table : table[i].basicVehicleRole = role}

findEVInList(table) == PositionsWithRole(table, "fire") # {}

\* Mutant: the opposite ring's partner for every phase.
SplitPhaseInOtherRing(group) == group + 4

getSplitPhase(group) ==
  CASE group \in {1, 3}    -> group + 5
    [] group \in {2, 4}    -> group + 3
    [] group \in {5, 7}    -> group - 3
    [] group \in {6, 8}    -> group - 5
    [] OTHER               -> 0

\* A request that has just been received and never forwarded to the solver.
NewEntry(id, role, group) ==
  [ vehicleID |-> id, basicVehicleRole |-> role, signalGroup |-> group,
    prsStatus |-> "unavailable", receivedAge |-> 0,
    forwardAge |-> SRM_TIME_GAP_VALUE ]

\* The entries pushed for an SRM: an emergency vehicle also gets its split phase.
EntriesFor(sr) ==
  LET entry(group) == NewEntry(sr.vehicleID, RoleOf[sr.vehicleID], group)
  IN  IF RoleOf[sr.vehicleID] = "fire"
        THEN <<entry(sr.signalGroup), entry(getSplitPhase(sr.signalGroup))>>
        ELSE <<entry(sr.signalGroup)>>

\* Mutant: only transit vehicles and trucks are refused, not coordination.
StatusWithoutRoadside(role, evPresent) ==
  IF role = "otherRole" THEN "unavailable"
  ELSE IF evPresent /\ role \in {"transit", "truck"} THEN "rejected"
  ELSE "granted"

StatusFor(role, evPresent) ==
  IF role = "otherRole" THEN "unavailable"
  ELSE IF evPresent /\ role # "fire" THEN "rejected"
  ELSE "granted"

setPriorityRequestStatus(table) ==
  [i \in DOMAIN table |->
     [table[i] EXCEPT !.prsStatus =
        StatusFor(table[i].basicVehicleRole, findEVInList(table))]]

\* Mutant: another emergency vehicle may still be in the table.
ClearForAnyEV(table) == table # <<>>

\* The omit commands of a departed emergency vehicle have to be cancelled.
ClearForEV(table) == table # <<>> /\ ~findEVInList(table)

-----------------------------------------------------------------------------
(* What goes out at the end of an iteration *)

createSSMJsonString(table) ==
  [i \in DOMAIN table |->
     [ vehicleID |-> table[i].vehicleID,
       basicVehicleRole |-> table[i].basicVehicleRole,
       priorityRequestStatus |-> table[i].prsStatus ]]

PriorityRequestList(table) ==
  [ MsgType |-> "PriorityRequest",
    requestorInfo |->
      [i \in DOMAIN table |->
         [ vehicleID |-> table[i].vehicleID,
           basicVehicleRole |-> table[i].basicVehicleRole,
           requestedSignalGroup |-> table[i].signalGroup ]] ]

Forwarded(table) == [i \in DOMAIN table |-> [table[i] EXCEPT !.forwardAge = 0]]

\* Mutant: sentClearRequest is not reset by a request list.
ForwardWithoutReset(table, clearForEV) ==
  /\ IF clearForEV \/ table = <<>>
       THEN /\ solver' = ClearRequest
            /\ sentClearRequest' = TRUE
            /\ ART' = table
       ELSE /\ solver' = PriorityRequestList(table)
            /\ UNCHANGED sentClearRequest
            /\ ART' = Forwarded(table)
  /\ sendSSM' = FALSE

createJsonStringForPrioritySolver(table, clearForEV) ==
  /\ IF clearForEV \/ table = <<>>
       THEN /\ solver' = ClearRequest
            /\ sentClearRequest' = TRUE
            /\ ART' = table
       ELSE /\ solver' = PriorityRequestList(table)
            /\ sentClearRequest' = FALSE
            /\ ART' = Forwarded(table)
  /\ sendSSM' = FALSE

\* The main loop after a handler that leaves "table" and the send flags.
AnswerDatagram(table, needSSM, needList, clearForEV) ==
  /\ idle' = 0
  /\ ssm' = IF needSSM THEN createSSMJsonString(table) ELSE ssm
  /\ IF needList
       THEN createJsonStringForPrioritySolver(table, clearForEV)
       ELSE /\ ART' = table
            /\ sendSSM' = needSSM
            /\ UNCHANGED <<sentClearRequest, solver>>

-----------------------------------------------------------------------------
(* Signal requests: manageSignalRequestTable *)

acceptSignalRequest(matchIntersection) == matchIntersection /\ onSchedule

\* Mutant: the capacity check is off by one.
AddBeyondCapacity(sr) ==
  /\ Len(ART) <= Maximum_Number_Of_Priority_Request
  /\ PositionsOf(ART, sr.vehicleID) = {}
  /\ sr.priorityRequestType = "priorityRequest"

addToActiveRequestTable(sr) ==
  /\ Len(ART) < Maximum_Number_Of_Priority_Request
  /\ PositionsOf(ART, sr.vehicleID) = {}
  /\ sr.priorityRequestType = "priorityRequest"

updateActiveRequestTable(sr) ==
  LET found == PositionsOf(ART, sr.vehicleID)
      entry == ART[Nth(found, 1)]
  IN  /\ found # {}
      /\ \/ sr.priorityRequestType = "requestUpdate"
         \/ /\ sr.priorityRequestType = "priorityRequest"
            /\ entry.receivedAge >= ART_UPDATE_FREQUENCY
            /\ \/ entry.signalGroup # sr.signalGroup
               \/ sr.deviates
               \/ entry.forwardAge >= SRM_TIME_GAP_VALUE

deleteRequestfromActiveRequestTable(sr) ==
  /\ PositionsOf(ART, sr.vehicleID) # {}
  /\ sr.priorityRequestType = "priorityCancellation"

\* Mutant: setPriorityRequestStatus is not called.
FinishWithoutStatus(table, needList, clearForEV) ==
  /\ etaAge' = IF table = <<>> THEN etaAge ELSE 0
  /\ AnswerDatagram(table, TRUE, needList, clearForEV)

\* The tail every accepted SRM shares: refreshed ETAs, new statuses, an SSM.
FinishSRM(table, needList, clearForEV) ==
  /\ etaAge' = IF table = <<>> THEN etaAge ELSE 0
  /\ AnswerDatagram(setPriorityRequestStatus(table), TRUE, needList, clearForEV)

AddRequest(sr) ==
  /\ addToActiveRequestTable(sr)
  /\ FinishSRM(ART \o EntriesFor(sr), TRUE, FALSE)

\* A transit vehicle or truck is overwritten in place.
UpdateRequest(sr) ==
  LET i == Nth(PositionsOf(ART, sr.vehicleID), 1)
  IN  /\ updateActiveRequestTable(sr)
      /\ RoleOf[sr.vehicleID] # "fire"
      /\ FinishSRM([ART EXCEPT ![i].basicVehicleRole = RoleOf[sr.vehicleID],
                               ![i].signalGroup = sr.signalGroup,
                               ![i].receivedAge = 0],
                   TRUE, FALSE)

\* Mutant: the split phase is forgotten.
EraseOnce(table, i, others) == {Erase(table, {i})}

(***************************************************************************)
(* Two erasures, neither of which checks what find_if returned: the entry  *)
(* at position i, then the first of the positions in "others".  When there *)
(* is none, the second one erases end().                                   *)
(***************************************************************************)
EraseTwice(table, i, others) ==
  IF others # {}
    THEN {Erase(table, {i, Nth(others, 1)})}
    ELSE LET rest == Erase(table, {i})
         IN  IF rest = <<>> THEN {} ELSE {DropLast(rest)}

UndefinedErase(others) == others = {}

\* Mutant: the flag starts as if the solver had been cleared already.
RestartAsCleared ==
  /\ ART' = <<>>
  /\ sendSSM' = FALSE
  /\ sentClearRequest' = TRUE
  /\ etaAge' = TIME_GAP_BETWEEN_ETA_Update
  /\ idle' = 0
  /\ UNCHANGED <<ssm, solver>>

\* The process dies and supervisord starts it again with an empty table.
Restart ==
  /\ ART' = <<>>
  /\ sendSSM' = FALSE
  /\ sentClearRequest' = FALSE
  /\ etaAge' = TIME_GAP_BETWEEN_ETA_Update
  /\ idle' = 0
  /\ UNCHANGED <<ssm, solver>>

\* An emergency vehicle's two entries are erased and pushed anew.
UpdateEmergencyRequest(sr) ==
  LET found == PositionsOf(ART, sr.vehicleID)
      first == Nth(found, 1)
  IN  /\ updateActiveRequestTable(sr)
      /\ RoleOf[sr.vehicleID] = "fire"
      /\ \/ \E table \in EraseTwice(ART, first, found \ {first}) :
              FinishSRM(table \o EntriesFor(sr), TRUE, FALSE)
         \/ UndefinedErase(found \ {first}) /\ Restart

\* A cancellation takes out one entry, or up to two of an emergency vehicle.
DeleteRequest(sr) ==
  LET found == PositionsOf(ART, sr.vehicleID)
      isEV  == RoleOf[sr.vehicleID] = "fire"
      gone  == {i \in found : Rank(found, i) <= IF isEV THEN 2 ELSE 1}
      table == Erase(ART, gone)
  IN  /\ deleteRequestfromActiveRequestTable(sr)
      /\ FinishSRM(table, TRUE, isEV /\ ClearForEV(table))

\* Accepted, but neither new, nor a significant update, nor a cancellation.
KeepRequest(sr) ==
  /\ ~addToActiveRequestTable(sr)
  /\ ~updateActiveRequestTable(sr)
  /\ ~deleteRequestfromActiveRequestTable(sr)
  /\ FinishSRM(ART, FALSE, FALSE)

RejectRequest ==
  /\ UNCHANGED etaAge
  /\ AnswerDatagram(ART, FALSE, FALSE, FALSE)

ManageAccepted(sr) ==
  \/ AddRequest(sr)
  \/ UpdateRequest(sr)
  \/ UpdateEmergencyRequest(sr)
  \/ DeleteRequest(sr)
  \/ KeepRequest(sr)

manageSignalRequestTable ==
  \/ /\ acceptSignalRequest(TRUE)
     /\ \E sr \in SignalRequest : ManageAccepted(sr)
  \/ /\ \E matchIntersection \in BOOLEAN : ~acceptSignalRequest(matchIntersection)
     /\ RejectRequest

-----------------------------------------------------------------------------
(* Coordination requests and other datagrams *)

VehicleRequests(table) ==
  Erase(table, PositionsWithRole(table, "roadsideSource"))

CoordinationEntries(list) ==
  [i \in DOMAIN list |->
     NewEntry(list[i].vehicleID, "roadsideSource", list[i].requestedPhase)]

\* Mutant: the solver is not sent the new list.
ReplaceWithoutForwarding(list) ==
  /\ list # <<>>
  /\ etaAge' = 0
  /\ AnswerDatagram(
       setPriorityRequestStatus(VehicleRequests(ART) \o CoordinationEntries(list)),
       TRUE, FALSE, FALSE)

\* A list replaces the coordination entries of the table.
ReplaceCoordination(list) ==
  /\ list # <<>>
  /\ etaAge' = 0
  /\ AnswerDatagram(
       setPriorityRequestStatus(VehicleRequests(ART) \o CoordinationEntries(list)),
       TRUE, TRUE, FALSE)

\* An empty list drops them, and nobody is told.
ClearCoordination(list) ==
  /\ list = <<>>
  /\ etaAge' = IF ART = <<>> THEN 0 ELSE etaAge
  /\ AnswerDatagram(VehicleRequests(ART), FALSE, FALSE, FALSE)

manageCoordinationRequest ==
  \E list \in CoordinationList :
    ReplaceCoordination(list) \/ ClearCoordination(list)

\* A datagram of another type still lets a left-over sendSSM out.
ReceiveUnknown ==
  /\ UNCHANGED etaAge
  /\ AnswerDatagram(ART, sendSSM, FALSE, FALSE)

Datagram == manageSignalRequestTable \/ manageCoordinationRequest \/ ReceiveUnknown

-----------------------------------------------------------------------------
(* The socket timeout: nothing has arrived for a second *)

\* Mutant: the time since forwarding is tested, not that since reception.
TimedOutSinceForwarding ==
  {i \in DOMAIN ART : ART[i].forwardAge >= SRM_TIME_GAP_VALUE}

\* Mutant: only the coordination requests time out.
TimedOutCoordination ==
  {i \in PositionsWithRole(ART, "roadsideSource") :
     ART[i].receivedAge >= requestTimedOutValue}

TimedOut == {i \in DOMAIN ART : ART[i].receivedAge >= requestTimedOutValue}

Associate(id) == CASE id = 1 -> 2 [] id = 2 -> 1 [] id = 3 -> 4 [] id = 4 -> 3

\* The entries that leave the table together with a timed-out one.
HasPartner(entry) == entry.basicVehicleRole \in {"fire", "roadsideSource"}

PartnersOf(i) ==
  IF ART[i].basicVehicleRole = "fire"
    THEN PositionsOf(ART, ART[i].vehicleID) \ {i}
    ELSE PositionsOf(ART, Associate(ART[i].vehicleID)) \ {i}

etaUpdateRequirement(table) ==
  table # <<>> /\ etaAge >= TIME_GAP_BETWEEN_ETA_Update

\* One timed-out vehicle per timeout is deleted, without new statuses.
DeleteTimedOut ==
  LET timedOutID == ART[Nth(TimedOut, 1)].vehicleID
      i == Nth(PositionsOf(ART, timedOutID), 1)
      isEV == ART[i].basicVehicleRole = "fire"
      outcomes == IF HasPartner(ART[i]) THEN EraseTwice(ART, i, PartnersOf(i))
                                        ELSE {Erase(ART, {i})}
  IN  /\ TimedOut # {}
      /\ \/ \E table \in outcomes :
              /\ ssm' = createSSMJsonString(table)
              /\ createJsonStringForPrioritySolver(table, isEV /\ ClearForEV(table))
              /\ etaAge' = IF etaUpdateRequirement(table) THEN 0 ELSE etaAge
              /\ idle' = 0
         \/ HasPartner(ART[i]) /\ UndefinedErase(PartnersOf(i)) /\ Restart

\* Nothing timed out: a pending clear, an ETA refresh with its SSM, or neither.
NoTimedOut ==
  /\ TimedOut = {}
  /\ idle' = 0
  /\ IF ART = <<>> /\ ~sentClearRequest
       THEN createJsonStringForPrioritySolver(<<>>, FALSE)
       ELSE UNCHANGED <<ART, sendSSM, sentClearRequest, solver>>
  /\ IF etaUpdateRequirement(ART)
       THEN etaAge' = 0 /\ ssm' = createSSMJsonString(ART)
       ELSE UNCHANGED <<etaAge, ssm>>

SocketTimeout == idle = SocketTimeOut /\ (DeleteTimedOut \/ NoTimedOut)

-----------------------------------------------------------------------------
(* Time and the process *)

Aged(entry) ==
  [entry EXCEPT !.receivedAge = Capped(@, requestTimedOutValue),
                !.forwardAge  = Capped(@, SRM_TIME_GAP_VALUE)]

\* The loop waits in recvfrom, for at most the socket timeout.
Tick ==
  /\ idle < SocketTimeOut
  /\ idle' = idle + 1
  /\ ART' = [i \in DOMAIN ART |-> Aged(ART[i])]
  /\ etaAge' = Capped(etaAge, TIME_GAP_BETWEEN_ETA_Update)
  /\ UNCHANGED <<sendSSM, sentClearRequest, ssm, solver>>

Next == Datagram \/ SocketTimeout \/ Tick \/ Restart

Spec == Init /\ [][Next]_vars

(***************************************************************************)
(* Time passes and an expired socket timeout is served.  Nothing obliges   *)
(* anybody to send a datagram, and nothing keeps them from being frequent. *)
(***************************************************************************)
Fairness == WF_vars(Tick) /\ WF_vars(SocketTimeout)

FairSpec == Spec /\ Fairness

-----------------------------------------------------------------------------
(* Properties *)

TypeOK ==
  /\ ART \in Seq(Entry)
  /\ sendSSM \in BOOLEAN
  /\ sentClearRequest \in BOOLEAN
  /\ etaAge \in 0 .. TIME_GAP_BETWEEN_ETA_Update
  /\ idle \in 0 .. SocketTimeOut
  /\ ssm \in Seq(StatusInfo)
  /\ solver \in SolverMessage

\* Two entries of one requester stand in the table only as the two phases of
\* an emergency vehicle, and an emergency vehicle never has just one: what the
\* unchecked erasures of an update and of a time-out rely on, and what they keep
\* as long as coordination requests come in pairs (see LeavesForCause).
EmergencyPairs ==
  /\ \A i \in PositionsWithRole(ART, "fire") :
       \E j \in DOMAIN ART \ {i} :
         PositionsOf(ART, ART[i].vehicleID) = {i, j}
  /\ \A i, j \in DOMAIN ART :
       i # j /\ ART[i].vehicleID = ART[j].vehicleID =>
         /\ ART[i].basicVehicleRole = "fire"
         /\ ART[j].signalGroup = getSplitPhase(ART[i].signalGroup)

\* While an emergency vehicle is in the table it is granted priority and
\* nobody else is, whichever of the handlers touched the table last.
EmergencyExclusive ==
  findEVInList(ART) =>
    \A i \in DOMAIN ART :
      ART[i].prsStatus = "granted" <=> ART[i].basicVehicleRole = "fire"

\* A table that reports itself cleared to the solver really is: the flag that
\* suppresses a second ClearRequest is only up when that was the last message.
ClearIsOnTheWire == sentClearRequest => solver = ClearRequest

\* What the solver plans for, vehicle by vehicle.
Requests(infos) ==
  {<<infos[i].vehicleID, infos[i].basicVehicleRole,
     infos[i].requestedSignalGroup>> : i \in DOMAIN infos}

OfVehicles(requests) == {r \in requests : r[2] # "roadsideSource"}

\* The solver's list is the table, or was until the coordination generator
\* withdrew its requests (which is not passed on); an empty table is on its
\* way to a ClearRequest.
SolverInStep ==
  LET wanted  == Requests(PriorityRequestList(ART).requestorInfo)
      planned == Requests(solver.requestorInfo)
  IN  /\ solver.MsgType = "PriorityRequest" =>
           wanted = {} \/ wanted = planned \/ wanted = OfVehicles(planned)
      /\ solver.MsgType = "None" => ART = <<>>
      /\ ART = <<>> /\ solver.MsgType = "PriorityRequest" => ~sentClearRequest

\* An emergency vehicle in the table is in the solver's current list with both
\* of its phases: the ClearRequest a departing emergency vehicle triggers never
\* takes another one's request away from the solver.
EmergencyIsPlanned ==
  \A i \in PositionsWithRole(ART, "fire") :
    <<ART[i].vehicleID, "fire", ART[i].signalGroup>> \in
      Requests(solver.requestorInfo)

\* The capacity check lets the table overflow by one split-phase entry and by
\* the coordination requests, and never by more, as long as those come in pairs.
TableBounded ==
  /\ Cardinality(DOMAIN ART \ PositionsWithRole(ART, "roadsideSource"))
       <= Maximum_Number_Of_Priority_Request + 1
  /\ \A i, j \in PositionsWithRole(ART, "roadsideSource") :
       ART[i].vehicleID = ART[j].vehicleID => i = j

\* Entry k has no partner, and entry i is the last of the others: the one that
\* the second erasure of EraseTwice takes instead.
TakenInstead(i, k) ==
  /\ HasPartner(ART[k]) /\ PartnersOf(k) = {}
  /\ i # k /\ \A j \in DOMAIN ART : j > i => j = k

\* Entry k is erased as one of a pair: timed out, or renewed by its vehicle.
ErasedInPair(k) ==
  \/ SocketTimeout /\ ART[k].receivedAge >= requestTimedOutValue
  \/ \E sr \in SignalRequest :
       UpdateEmergencyRequest(sr) /\ sr.vehicleID = ART[k].vehicleID

\* Whoever entry i stands for is still in the table after the step, or has
\* cancelled, timed out, been lost with the whole table, or been evicted.
StaysOrLeavesForCause(i) ==
  LET id == ART[i].vehicleID
  IN  id \in Vehicle /\ PositionsOf(ART', id) = {} =>
        \/ \E sr \in SignalRequest : DeleteRequest(sr) /\ sr.vehicleID = id
        \/ SocketTimeout /\ ART[i].receivedAge >= requestTimedOutValue
        \/ \E k \in DOMAIN ART : TakenInstead(i, k) /\ ErasedInPair(k)
        \/ Restart

\* A vehicle disappears from the table only when it cancels, when nothing was
\* heard of it for the time-out, with the whole process, or when it stands last
\* and the unchecked second erasure for somebody else finds no entry: that of a
\* timed-out coordination request whose partner is missing, or of an emergency
\* vehicle that lost one of its entries in the same way.
LeavesForCause == [][\A i \in DOMAIN ART : StaysOrLeavesForCause(i)]_vars

\* Once the roads fall silent, every request is timed out one after the other
\* and the solver is told to clear, also after a restart lost the table.
SilenceDrains ==
  <>[][SocketTimeout \/ Tick]_vars => <>[](ART = <<>> /\ solver = ClearRequest)

==============================================================================
