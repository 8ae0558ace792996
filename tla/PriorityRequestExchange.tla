----------------------- MODULE PriorityRequestExchange -----------------------
(***************************************************************************)
(* Vehicles and the Priority Request Server of one intersection, with the  *)
(* radio link between them: SRMs may be lost, or overtake one another      *)
(* within a unit of time, and an SSM may miss some of the vehicles.  Both  *)
(* sides may be started again.  The server's and the generators' steps are *)
(* those of their own modules.                                             *)
(*                                                                         *)
(* The unit of time is the period of the BSMs: every vehicle has one in    *)
(* each, and what is on the air then arrives or is lost, in any order, for *)
(* the link is much faster than the time-outs.                             *)
(***************************************************************************)
EXTENDS PriorityRequestGenerator, Sequences

CONSTANTS
  Here,              \* the server's intersection
  CoordinationList, onSchedule, Maximum_Number_Of_Priority_Request,
  ART_UPDATE_FREQUENCY, TIME_GAP_BETWEEN_ETA_Update, SocketTimeOut,
  ForwardGap,        \* SRM_TIME_GAP_VALUE of the server
  MaxLosses, MaxRestarts      \* bounds of the explored behaviours

\* An ID is one vehicle's, and SRMs are repeated after a gap.
ASSUME ExchangeAssumption ==
  /\ Here \in Intersection
  /\ \A g, h \in Generator : g # h => IDs[g] \cap IDs[h] = {}
  /\ SRM_TIME_GAP_VALUE > 0

\* SRMTimedOutTime, from which both sides take their time-outs.
SRMTimedOutTime == requestTimedOutValue + SRM_TIME_GAP_VALUE

VARIABLES
  ART, sendSSM, sentClearRequest, etaAge, idle, ssm, solver,   \* the server
  msgCount,    \* the msgCount column of the server's table, by vehicle
  ssmCount,    \* the same column in the last SSM
  pending,     \* the generators that have yet to get, or to miss, that SSM
  losses, restarts,
  asking,      \* generators that wanted priority at their last BSM
  excused,     \* generators whose latest request may have failed to arrive
  undelivered, \* generators whose last SRM has not arrived
  counted,     \* by generator, how many SRMs it has sent since there was last
               \* no trace of one, up to one more than there are counts
  silence      \* by vehicle, the time since an SRM of its arrived

serverVars == <<ART, sendSSM, sentClearRequest, etaAge, idle, ssm, solver>>
linkVars == <<msgCount, ssmCount, pending, losses, restarts, asking, excused, undelivered,
              counted, silence>>
exchangeVars == <<serverVars, prgVars, linkVars>>

Server == INSTANCE PriorityRequestServer WITH
  SRM_TIME_GAP_VALUE <- ForwardGap, requestTimedOutValue <- SRMTimedOutTime

ExchangeInit ==
  /\ Server!Init /\ PrgInit
  /\ msgCount = EmptyART /\ ssmCount = EmptyART /\ pending = {}
  /\ losses = 0 /\ restarts = 0
  /\ asking = {} /\ excused = Generator /\ undelivered = {}
  /\ counted = [g \in Generator |-> 0]
  /\ silence = [id \in Vehicle |-> SRMTimedOutTime]

-----------------------------------------------------------------------------
(* The roadside *)

\* The generator that goes by an ID.
Owner(id) == CHOOSE g \in Generator : id \in IDs[g]

InTable(id) == Server!PositionsOf(ART, id) # {}
InSSM(id) == \E i \in DOMAIN ssm : ssm[i].vehicleID = id

\* The column follows the table: a request that is entered or updated brings
\* its count, a vehicle that is no longer in the table has none.
Column(brings, count) ==
  [id \in Vehicle |-> IF Server!PositionsOf(ART', id) = {} THEN 0
                      ELSE IF id = brings THEN count ELSE msgCount[id]]

Broadcast == ssmCount' = msgCount' /\ pending' = Generator
NoBroadcast == UNCHANGED <<ssmCount, pending>>

SignalRequestOf(srm, group, deviates) ==
  [ vehicleID |-> srm.vehicleID, priorityRequestType |-> srm.priorityRequestType,
    signalGroup |-> group, deviates |-> deviates ]

\* The server serves an SRM.  Another intersection's is rejected.
ServeSRM(srm) ==
  /\ Depart(srm)
  /\ \/ /\ srm.intersectionID = Here /\ onSchedule
        /\ \E group \in Phase, deviates \in BOOLEAN :
             LET sr == SignalRequestOf(srm, group, deviates)
                 written == Server!addToActiveRequestTable(sr)
                              \/ Server!updateActiveRequestTable(sr)
             IN  /\ srm.signalGroup \in {group, NoGroup}
                 /\ Server!ManageAccepted(sr)
                 /\ msgCount' = IF written THEN Column(srm.vehicleID, srm.msgCount)
                                ELSE Column(0, 0)
        /\ Broadcast
        /\ silence' = [silence EXCEPT ![srm.vehicleID] = 0]
        /\ excused' = IF srm.vehicleID = prg[Owner(srm.vehicleID)].temporaryVehicleID
                      THEN excused \ {Owner(srm.vehicleID)} ELSE excused
        /\ undelivered' = IF srm.msgCount = prg[Owner(srm.vehicleID)].msgCount
                          THEN undelivered \ {Owner(srm.vehicleID)} ELSE undelivered
     \/ /\ srm.intersectionID # Here \/ ~onSchedule
        /\ Server!RejectRequest
        /\ NoBroadcast
        /\ UNCHANGED <<msgCount, silence, excused, undelivered>>
  /\ UNCHANGED <<losses, restarts, asking, counted>>

ServeCoordination ==
  /\ \E list \in CoordinationList :
       \/ /\ Server!ReplaceCoordination(list)
          /\ msgCount' = Column(0, 0)
          /\ Broadcast
       \/ /\ Server!ClearCoordination(list)
          /\ msgCount' = Column(0, 0)
          /\ NoBroadcast
  /\ UNCHANGED <<prgVars, losses, restarts, asking, excused, undelivered, counted, silence>>

ServeTimeout ==
  /\ Server!SocketTimeout
  /\ msgCount' = Column(0, 0)
  /\ IF Server!TimedOut # {} \/ Server!etaUpdateRequirement(ART)
       THEN Broadcast ELSE NoBroadcast
  /\ UNCHANGED <<prgVars, losses, restarts, asking, excused, undelivered, counted, silence>>

RestartServer ==
  /\ restarts < MaxRestarts /\ restarts' = restarts + 1
  /\ Server!Restart
  /\ msgCount' = Column(0, 0)
  /\ NoBroadcast
  /\ UNCHANGED <<prgVars, losses, asking, excused, undelivered, counted, silence>>

-----------------------------------------------------------------------------
(* The vehicles *)

\* The message counts of this generator that the server's table, an SSM that is
\* still to come, or its own table show; and those of its SRMs under way.
Shown(g) ==
  {msgCount[id] : id \in IDs[g]} \cup {prg[g].ART[id] : id \in IDs[g]}
    \cup (IF g \in pending THEN {ssmCount[id] : id \in IDs[g]} ELSE {})
OnAir(g) == {srm.msgCount : srm \in {s \in air : s.vehicleID \in IDs[g]}}

Traceless(g) == Shown(g) \subseteq {0} /\ OnAir(g) = {}

Counting(g) ==
  IF Traceless(g) THEN 1
  ELSE IF counted[g] <= maxMsgCount THEN counted[g] + 1 ELSE counted[g]

VehicleBSM(g, bsm) ==
  /\ ~prg[g].heard
  /\ ReceiveBSM(g, bsm)
  /\ LET p == getVehicleInformationFromMAP(prg[g], bsm)
         asks == Asks(p, bsm) /\ ~Cancels(p, bsm)
         sends == checkRequestSendingRequirement(p, bsm) # {}
     IN  /\ asking' = IF asks THEN asking \cup {g} ELSE asking \ {g}
         /\ excused' = IF asks /\ p.intersectionID = Here
                            /\ p.temporaryVehicleID = prg[g].temporaryVehicleID
                       THEN excused ELSE excused \cup {g}
         /\ undelivered' = IF sends THEN undelivered \cup {g} ELSE undelivered
         /\ counted' = IF sends THEN [counted EXCEPT ![g] = Counting(g)] ELSE counted
  /\ UNCHANGED <<serverVars, msgCount, ssmCount, pending, losses, restarts, silence>>

VehicleSSM(g) ==
  /\ g \in pending
  /\ pending' = pending \ {g}
  /\ ReceiveSSM(g, Here, [id \in Vehicle |-> IF InSSM(id) THEN ssmCount[id] ELSE 0])
  /\ UNCHANGED <<serverVars, msgCount, ssmCount, losses, restarts, asking, excused, undelivered, counted, silence>>

VehicleOther(g) ==
  /\ \/ \E intersection \in Intersection :
          intersection \notin prg[g].available /\ ReceiveMAP(g, intersection)
     \/ \E on \in BOOLEAN : ReceiveLightSirenStatus(g, on)
  /\ UNCHANGED <<serverVars, linkVars>>

RestartVehicle(g) ==
  /\ restarts < MaxRestarts /\ restarts' = restarts + 1
  /\ RestartGenerator(g)
  /\ excused' = excused \cup {g}
  /\ asking' = asking \ {g}
  /\ counted' = [counted EXCEPT ![g] = maxMsgCount + 1]
  /\ UNCHANGED <<serverVars, msgCount, ssmCount, pending, losses, undelivered, silence>>

-----------------------------------------------------------------------------
(* The link and the time *)

LoseSRM(srm) ==
  /\ losses < MaxLosses /\ losses' = losses + 1
  /\ Depart(srm)
  /\ excused' = excused \cup {Owner(srm.vehicleID)}
  /\ UNCHANGED <<serverVars, msgCount, ssmCount, pending, restarts, asking, undelivered, counted, silence>>

LoseSSM(g) ==
  /\ g \in pending
  /\ losses < MaxLosses /\ losses' = losses + 1
  /\ pending' = pending \ {g}
  /\ UNCHANGED <<serverVars, prgVars, msgCount, ssmCount, restarts, asking, excused, undelivered, counted, silence>>

Tick ==
  /\ pending = {}
  /\ Server!Tick /\ PrgTick
  /\ silence' = [id \in Vehicle |-> IF silence[id] < SRMTimedOutTime
                                      THEN silence[id] + 1 ELSE silence[id]]
  /\ UNCHANGED <<msgCount, ssmCount, pending, losses, restarts, asking, excused, undelivered, counted>>

ExchangeNext ==
  \/ \E srm \in air : ServeSRM(srm) \/ LoseSRM(srm)
  \/ ServeCoordination \/ ServeTimeout \/ RestartServer
  \/ \E g \in Generator :
       \/ \E bsm \in BSM(g) : VehicleBSM(g, bsm)
       \/ VehicleSSM(g) \/ LoseSSM(g) \/ VehicleOther(g) \/ RestartVehicle(g)
  \/ Tick

(***************************************************************************)
(* Time passes: BSMs come, what is on the air arrives or is lost, and an   *)
(* expired socket timeout is served.                                       *)
(***************************************************************************)
SomeBSM(g) == \E bsm \in BSM(g) : VehicleBSM(g, bsm)

ExchangeFairness ==
  /\ SF_exchangeVars(Tick) /\ WF_exchangeVars(ServeTimeout)
  /\ WF_exchangeVars(\E srm \in air : ServeSRM(srm))
  /\ \A g \in Generator : WF_exchangeVars(SomeBSM(g)) /\ WF_exchangeVars(VehicleSSM(g))

ExchangeSpec == ExchangeInit /\ [][ExchangeNext]_exchangeVars /\ ExchangeFairness

-----------------------------------------------------------------------------
(* Properties *)

\* While a vehicle wants priority and nothing it sent is lost, the server hears
\* of it before its time-out: the generator's own time-out, the gap between two
\* SRMs and the repetition on a wrong message count fit together, whatever SSMs
\* are lost and whichever side is restarted ("Vehicle needs to send SRM to avoid
\* request Timedout scenario in the PRS").
HeardInTime ==
  \A g \in asking \ excused :
    silence[prg[g].temporaryVehicleID] < SRMTimedOutTime

\* An SRM that its sender takes for acknowledged, because an SSM shows its
\* message count, has arrived: no earlier entry that the server still holds and
\* no late SSM passes for it, until the count has come round, or the generator
\* counts anew, before every trace of the SRM with that count is gone.
AcknowledgedHasArrived ==
  \A g \in undelivered :
    counted[g] <= maxMsgCount => prg[g].ART[prg[g].temporaryVehicleID] # prg[g].msgCount

\* A vehicle that goes on wanting priority gets into the table and stays there,
\* however many SRMs and SSMs were lost before.
RequestIsKept ==
  \A g \in Generator :
    (<>[](g \in asking /\ prg[g].intersectionID = Here)) =>
      <>[](InTable(prg[g].temporaryVehicleID))

\* Vehicles that want nothing any more are forgotten, whether they cancelled or
\* only fell silent, and whether the cancellation arrived; but the server serves
\* its time-outs only when the coordination generator leaves it a second.
NobodyIsForgottenInTheTable ==
  <>[](asking = {}) /\ <>[][~ServeCoordination]_exchangeVars =>
    <>[](\A id \in Vehicle : ~InTable(id))

\* Readme: an SRM is sent as "Vehicle is either leaving or not in inBoundlane of
\* the Intersection (requestType :CanellationRequest)".
LeavingCancels ==
  [][ \A g \in Generator :
        ActiveMapStatus(prg[g]) /\ Listed(prg[g]) /\ ~ActiveMapStatus(prg'[g])
          /\ restarts' = restarts =>
            \E srm \in air' : /\ srm.vehicleID \in IDs[g]
                              /\ srm.priorityRequestType = "priorityCancellation" ]_exchangeVars
==============================================================================
