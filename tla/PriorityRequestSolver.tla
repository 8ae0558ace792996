------------------------ MODULE PriorityRequestSolver ------------------------
(***************************************************************************)
(* The main loop of the Priority Request Solver, with the processes it     *)
(* talks to: the Priority Request Server, whose lists and clear requests   *)
(* it serves; the Traffic Controller Interface (TCI), which it asks for    *)
(* the timing plan and for the current phases and to which it sends        *)
(* schedules; and the Signal Coordination Request Generator, which it asks *)
(* for the split data of the coordination plan.                            *)
(*                                                                         *)
(* The loop blocks on its main socket ("receive"), again on that socket    *)
(* while it waits for split data, and on a second socket while it waits    *)
(* for the current phases.  Of a request only the type of its vehicle is   *)
(* kept; whether the optimal solution is valid is left open.               *)
(***************************************************************************)
EXTENDS Integers, Sequences, FiniteSets

CONSTANTS
  RequestLists,     \* the lists, by their types, that the server may send
  WeightSettings,   \* the sets of types whose weight the configuration may set to 0
  MaxMessages, MaxPlans, MaxChanges, MaxFaults  \* bounds of the explored behaviours

EmergencyVehicle == "emergencyVehicle"
Transit == "transit"
Truck == "truck"
CoordinationVehicleType == "coordination"
VehicleType == {EmergencyVehicle, Transit, Truck, CoordinationVehicleType}

ASSUME SolverAssumption ==
  /\ RequestLists \subseteq (SUBSET VehicleType) \ {{}}
  /\ WeightSettings \subseteq SUBSET VehicleType /\ {} \in WeightSettings
  /\ MaxMessages \in Nat /\ MaxPlans \in Nat /\ MaxChanges \in Nat /\ MaxFaults \in Nat

PriorityRequest == "priorityRequest"
ClearRequest == "clearRequest"
SignalPlan == "signalPlan"
SplitData == "splitData"

VARIABLES
  pc,                    \* where the loop is
  priorityRequestList,   \* the types of the requests in the list it works on
  number,                \* the number of the list it works on
  trafficSignalPlan,     \* the version of the timing plan, 0 when there is none
  trafficSignalPlan_SignalCoordination,  \* the version the split data were applied to, or 0
  weightless,            \* the types whose weight is 0, as last read
  noOfEVInList,          \* whether a request of an emergency list was ever counted
  inbox,                 \* what waits at the main socket
  answers,               \* the current phases that wait at the second socket
  asked,                 \* questions to the other processes not answered yet
  tci,                   \* the command the TCI works on, and the message it serves
  currentTimingPlan,     \* the version the TCI has
  coordinated,           \* the generator has a coordination plan
  fate,                  \* what became of each message of the server
  planLost,              \* the last timing plan was thrown away unread
  mistaken,              \* another message than split data ended the wait for them
  restarted, unanswered, \* the solver was restarted; a question was lost
  changes, faults        \* how often the coordination plan changed; restarts

tciVars == <<tci, currentTimingPlan>>
countVars == <<changes, faults>>
planVars == <<trafficSignalPlan, trafficSignalPlan_SignalCoordination, planLost>>
listVars == <<priorityRequestList, number, noOfEVInList>>
historyVars == <<mistaken, restarted, unanswered>>

vars == <<pc, listVars, planVars, weightless, inbox, answers, asked, tciVars,
          coordinated, fate, historyVars, countVars>>

\* A datagram at the main socket: number and list matter for the server's only.
Message == [ kind : {PriorityRequest, ClearRequest, SignalPlan, SplitData},
             number : Nat, list : SUBSET VehicleType ]

FromServer(m) == m.kind \in {PriorityRequest, ClearRequest}

Init ==
  /\ pc = "receive"
  /\ priorityRequestList = {} /\ number = 0 /\ noOfEVInList = FALSE
  /\ trafficSignalPlan = 0 /\ trafficSignalPlan_SignalCoordination = 0
  /\ weightless \in WeightSettings
  /\ inbox = <<>> /\ answers = 0
  /\ asked = [plan |-> 1, split |-> 0, phases |-> 0]
  /\ tci = [number |-> 0, command |-> "none"]
  /\ currentTimingPlan = 1 /\ coordinated \in BOOLEAN
  /\ fate = <<>>
  /\ planLost = FALSE /\ mistaken = FALSE /\ restarted = FALSE /\ unanswered = FALSE
  /\ changes = 0 /\ faults = 0

\* What became of message n: fate[n] is "served" unless the TCI never heard of it.
Becomes(n, what) == fate' = [fate EXCEPT ![n] = what]

-----------------------------------------------------------------------------
(* The loop at its main socket *)

Receives(kind) ==
  /\ pc = "receive" /\ inbox # <<>> /\ Head(inbox).kind = kind
  /\ inbox' = Tail(inbox)

\* Mutant: a timing plan is only stored when there is none yet.
KeepSignalTimingPlan ==
  /\ Receives(SignalPlan)
  /\ trafficSignalPlan' = IF trafficSignalPlan = 0 THEN Head(inbox).number ELSE trafficSignalPlan
  /\ planLost' = FALSE
  /\ UNCHANGED <<pc, listVars, trafficSignalPlan_SignalCoordination, weightless, answers,
                 asked, tciVars, coordinated, fate, historyVars, countVars>>

setCurrentSignalTimingPlan ==
  /\ Receives(SignalPlan)
  /\ trafficSignalPlan' = Head(inbox).number
  /\ planLost' = FALSE
  /\ UNCHANGED <<pc, listVars, trafficSignalPlan_SignalCoordination, weightless, answers,
                 asked, tciVars, coordinated, fate, historyVars, countVars>>

\* The old coordination plan goes even when there is no timing plan to apply the
\* split data to, and then none takes its place.
setSignalCoordinationTimingPlan ==
  /\ Receives(SplitData)
  /\ trafficSignalPlan_SignalCoordination' = trafficSignalPlan
  /\ UNCHANGED <<pc, listVars, trafficSignalPlan, planLost, weightless, answers, asked,
                 tciVars, coordinated, fate, historyVars, countVars>>

\* Without a timing plan the list is dropped and the plan asked for.
DropList ==
  /\ Receives(PriorityRequest) /\ trafficSignalPlan = 0
  /\ Becomes(Head(inbox).number, "noPlan")
  /\ asked' = [asked EXCEPT !.plan = @ + 1]
  /\ UNCHANGED <<pc, listVars, planVars, weightless, answers, tciVars, coordinated,
                 historyVars, countVars>>

\* Mutant: the other plan is looked for.
LookForTimingPlan(list) == CoordinationVehicleType \in list /\ trafficSignalPlan = 0

checkSignalCoordinationTimingPlanStatus(list) ==
  CoordinationVehicleType \in list /\ trafficSignalPlan_SignalCoordination = 0

\* Mutant: the current phases are asked for as well before the split data are there.
AskBoth ==
  /\ Receives(PriorityRequest) /\ trafficSignalPlan # 0
  /\ priorityRequestList' = Head(inbox).list /\ number' = Head(inbox).number
  /\ UNCHANGED noOfEVInList
  /\ mistaken' = FALSE /\ unanswered' = FALSE
  /\ IF checkSignalCoordinationTimingPlanStatus(Head(inbox).list)
     THEN pc' = "awaitSplitData"
          /\ asked' = [asked EXCEPT !.split = @ + 1, !.phases = @ + 1]
     ELSE pc' = "awaitCurrentPhases" /\ asked' = [asked EXCEPT !.phases = @ + 1]
  /\ UNCHANGED <<planVars, weightless, answers, tciVars, coordinated, fate,
                 restarted, countVars>>

createPriorityRequestList ==
  /\ Receives(PriorityRequest) /\ trafficSignalPlan # 0
  /\ priorityRequestList' = Head(inbox).list /\ number' = Head(inbox).number
  /\ UNCHANGED noOfEVInList
  /\ mistaken' = FALSE /\ unanswered' = FALSE
  /\ IF checkSignalCoordinationTimingPlanStatus(Head(inbox).list)
     THEN pc' = "awaitSplitData" /\ asked' = [asked EXCEPT !.split = @ + 1]
     ELSE pc' = "awaitCurrentPhases" /\ asked' = [asked EXCEPT !.phases = @ + 1]
  /\ UNCHANGED <<planVars, weightless, answers, tciVars, coordinated, fate,
                 restarted, countVars>>

SendClearSchedule ==
  /\ Receives(ClearRequest)
  /\ tci' = [number |-> Head(inbox).number, command |-> "clear"]
  /\ UNCHANGED <<pc, listVars, planVars, weightless, answers, asked, currentTimingPlan,
                 coordinated, fate, historyVars, countVars>>

-----------------------------------------------------------------------------
(* The two waits in the handling of a list *)

\* Mutant: after the wait the current phases are not asked for.
ForgetCurrentPhases ==
  /\ pc = "awaitSplitData" /\ inbox # <<>>
  /\ inbox' = Tail(inbox)
  /\ LET m == Head(inbox)
     IN  /\ trafficSignalPlan_SignalCoordination' =
              IF m.kind = SplitData THEN trafficSignalPlan
              ELSE trafficSignalPlan_SignalCoordination
         /\ mistaken' = (m.kind # SplitData)
         /\ planLost' = (planLost \/ m.kind = SignalPlan)
         /\ IF FromServer(m) THEN Becomes(m.number, "missed") ELSE fate' = fate
  /\ pc' = "awaitCurrentPhases"
  /\ UNCHANGED <<listVars, trafficSignalPlan, weightless, asked, answers, tciVars,
                 coordinated, restarted, unanswered, countVars>>

\* The next datagram ends the wait for the split data, whatever it is; one that is
\* not split data is gone.
TakeSplitData ==
  /\ pc = "awaitSplitData" /\ inbox # <<>>
  /\ inbox' = Tail(inbox)
  /\ LET m == Head(inbox)
     IN  /\ trafficSignalPlan_SignalCoordination' =
              IF m.kind = SplitData THEN trafficSignalPlan
              ELSE trafficSignalPlan_SignalCoordination
         /\ mistaken' = (m.kind # SplitData)
         /\ planLost' = (planLost \/ m.kind = SignalPlan)
         /\ IF FromServer(m) THEN Becomes(m.number, "missed") ELSE fate' = fate
  /\ pc' = "awaitCurrentPhases"
  /\ asked' = [asked EXCEPT !.phases = @ + 1]
  /\ UNCHANGED <<listVars, trafficSignalPlan, weightless, answers, tciVars, coordinated,
                 restarted, unanswered, countVars>>

emergencyVehicleStatus == EmergencyVehicle \in priorityRequestList
transitOrTruckRequestStatus == priorityRequestList \cap {Transit, Truck} # {}

\* A request without weight goes, and beside an emergency vehicle every other request
\* but that of a truck in the dilemma zone.
modifyPriorityRequestList(inDilemmaZone) ==
  LET weighty == priorityRequestList \ weightless
  IN  IF emergencyVehicleStatus
      THEN weighty \cap ({EmergencyVehicle} \cup (IF inDilemmaZone THEN {Truck} ELSE {}))
      ELSE weighty

\* A list with nothing but coordination is looked at in the light of the coordination
\* plan, of which the coordinated phases are taken without a look whether they are there.
CoordinatedPhasesMissing ==
  /\ ~emergencyVehicleStatus /\ ~transitOrTruckRequestStatus
  /\ trafficSignalPlan_SignalCoordination = 0

\* A list with an emergency vehicle that became empty, before any request of such a list
\* was counted, gets a plan with one side of the barrier only (EmergencySignalPlan).
EmergencyPlanUndefined(remaining) ==
  emergencyVehicleStatus /\ remaining = {} /\ ~noOfEVInList

TakeCurrentPhases ==
  /\ pc = "awaitCurrentPhases" /\ answers > 0
  /\ answers' = answers - 1

Dies ==
  /\ pc' = "dead"
  /\ Becomes(number, "died")
  /\ UNCHANGED <<listVars, planVars, weightless, inbox, asked, tciVars, coordinated,
                 historyVars, countVars>>

getCurrentSignalStatusFails ==
  /\ TakeCurrentPhases /\ CoordinatedPhasesMissing
  /\ Dies

setOptimizationInputFails ==
  /\ TakeCurrentPhases
  /\ \E inDilemmaZone \in BOOLEAN :
       EmergencyPlanUndefined(modifyPriorityRequestList(inDilemmaZone))
  /\ Dies

\* Mutant: for a list that became empty the validation status stays as it was.
SendEmptySchedule ==
  /\ TakeCurrentPhases /\ ~CoordinatedPhasesMissing
  /\ \E inDilemmaZone, valid \in BOOLEAN :
       LET remaining == modifyPriorityRequestList(inDilemmaZone)
       IN  /\ ~EmergencyPlanUndefined(remaining)
           /\ noOfEVInList' = (noOfEVInList \/ (emergencyVehicleStatus /\ remaining # {}))
           /\ IF remaining # {} /\ valid
              THEN tci' = [number |-> number, command |-> "schedule"] /\ fate' = fate
              ELSE /\ Becomes(number, "unsolved")
                   /\ tci' = IF valid THEN [number |-> number, command |-> "none"] ELSE tci
  /\ \E w \in WeightSettings \cup {weightless} : weightless' = w
  /\ pc' = "receive" /\ priorityRequestList' = {} /\ mistaken' = FALSE
  /\ UNCHANGED <<number, planVars, inbox, asked, currentTimingPlan, coordinated,
                 restarted, unanswered, countVars>>

\* getScheduleforTCI: nothing is sent for a list that became empty, or for a solution
\* that is not valid.  The weights may then be read again.
getScheduleforTCI ==
  /\ TakeCurrentPhases /\ ~CoordinatedPhasesMissing
  /\ \E inDilemmaZone, valid \in BOOLEAN :
       LET remaining == modifyPriorityRequestList(inDilemmaZone)
       IN  /\ ~EmergencyPlanUndefined(remaining)
           /\ noOfEVInList' = (noOfEVInList \/ (emergencyVehicleStatus /\ remaining # {}))
           /\ IF remaining # {} /\ valid
              THEN tci' = [number |-> number, command |-> "schedule"] /\ fate' = fate
              ELSE Becomes(number, "unsolved") /\ tci' = tci
  /\ \E w \in WeightSettings \cup {weightless} : weightless' = w
  /\ pc' = "receive" /\ priorityRequestList' = {} /\ mistaken' = FALSE
  /\ UNCHANGED <<number, planVars, inbox, asked, currentTimingPlan, coordinated,
                 restarted, unanswered, countVars>>

-----------------------------------------------------------------------------
(* The other processes *)

\* A datagram reaches the socket of a process that runs.
Arrives(m) == inbox' = IF pc = "dead" THEN inbox ELSE Append(inbox, m)

\* The server sends a list whenever its table changed, or a clear request.
ServerSends(kind, list) ==
  /\ Len(fate) < MaxMessages
  /\ Arrives([kind |-> kind, number |-> Len(fate) + 1, list |-> list])
  /\ fate' = Append(fate, IF pc = "dead" THEN "died" ELSE "served")
  /\ UNCHANGED <<pc, listVars, planVars, weightless, answers, asked, tciVars, coordinated,
                 historyVars, countVars>>

SendsPlan(version) ==
  /\ Arrives([kind |-> SignalPlan, number |-> version, list |-> {}])
  /\ UNCHANGED <<pc, listVars, planVars, weightless, answers, tci, coordinated, fate,
                 historyVars>>

\* updateAndSendActiveTimingPlan, and the answer to a TimingPlanRequest.
TimingPlanChanges ==
  /\ currentTimingPlan < MaxPlans
  /\ currentTimingPlan' = currentTimingPlan + 1
  /\ SendsPlan(currentTimingPlan + 1)
  /\ UNCHANGED <<asked, countVars>>

TciAnswersPlan ==
  /\ asked.plan > 0
  /\ asked' = [asked EXCEPT !.plan = @ - 1]
  /\ SendsPlan(currentTimingPlan)
  /\ UNCHANGED <<currentTimingPlan, countVars>>

TciAnswersPhases ==
  /\ asked.phases > 0
  /\ asked' = [asked EXCEPT !.phases = @ - 1]
  /\ answers' = IF pc = "dead" THEN answers ELSE answers + 1
  /\ UNCHANGED <<pc, listVars, planVars, weightless, inbox, tciVars, coordinated, fate,
                 historyVars, countVars>>

SendsSplitData ==
  /\ Arrives([kind |-> SplitData, number |-> 0, list |-> {}])
  /\ UNCHANGED <<pc, listVars, planVars, weightless, answers, tciVars, fate>>

\* The generator answers a request when it has a coordination plan, and sends the
\* split data on its own when a plan becomes active.
GeneratorAnswers ==
  /\ asked.split > 0 /\ coordinated
  /\ asked' = [asked EXCEPT !.split = @ - 1]
  /\ SendsSplitData
  /\ UNCHANGED <<coordinated, historyVars, countVars>>

GeneratorIgnores ==
  /\ asked.split > 0 /\ ~coordinated
  /\ asked' = [asked EXCEPT !.split = @ - 1]
  /\ unanswered' = TRUE
  /\ UNCHANGED <<pc, listVars, planVars, weightless, inbox, answers, tciVars, coordinated,
                 fate, mistaken, restarted, countVars>>

CoordinationBegins ==
  /\ ~coordinated /\ changes < MaxChanges
  /\ coordinated' = TRUE /\ changes' = changes + 1
  /\ SendsSplitData
  /\ UNCHANGED <<asked, historyVars, faults>>

CoordinationEnds ==
  /\ coordinated /\ changes < MaxChanges
  /\ coordinated' = FALSE /\ changes' = changes + 1
  /\ UNCHANGED <<pc, listVars, planVars, weightless, inbox, answers, asked, tciVars, fate,
                 historyVars, faults>>

\* A new process asks for the timing plan first.  Its predecessor's question is
\* still answered, at the same port.
StartSolver ==
  /\ pc' = "receive" /\ priorityRequestList' = {} /\ number' = 0 /\ noOfEVInList' = FALSE
  /\ trafficSignalPlan' = 0 /\ trafficSignalPlan_SignalCoordination' = 0
  /\ planLost' = FALSE
  /\ weightless' \in WeightSettings
  /\ inbox' = <<>> /\ answers' = 0
  /\ asked' = [asked EXCEPT !.plan = @ + 1]
  /\ mistaken' = FALSE /\ restarted' = TRUE /\ unanswered' = FALSE
  /\ UNCHANGED <<tciVars, coordinated, changes>>

\* The messages of the server that the loop has not dealt with.
Pending == {inbox[i].number : i \in {j \in DOMAIN inbox : FromServer(inbox[j])}}
             \cup (IF pc \in {"receive", "dead"} THEN {} ELSE {number})

SolverKilled ==
  /\ pc # "dead" /\ faults < MaxFaults
  /\ faults' = faults + 1
  /\ fate' = [n \in DOMAIN fate |-> IF n \in Pending THEN "died" ELSE fate[n]]
  /\ StartSolver

\* supervisord starts the process again when it died of its own accord.
SolverStartsAgain ==
  /\ pc = "dead"
  /\ fate' = [n \in DOMAIN fate |-> IF n \in Pending THEN "died" ELSE fate[n]]
  /\ StartSolver
  /\ UNCHANGED faults

\* The questions asked of the old TCI, and its jobs, are gone; the new one sends
\* the timing plan.
TciRestarts ==
  /\ faults < MaxFaults
  /\ faults' = faults + 1
  /\ asked' = [asked EXCEPT !.plan = 0, !.phases = 0]
  /\ unanswered' = (unanswered \/ asked.phases > 0)
  /\ tci' = [number |-> 0, command |-> "none"]
  /\ fate' = [n \in DOMAIN fate |-> IF n <= tci.number THEN "forgotten" ELSE fate[n]]
  /\ Arrives([kind |-> SignalPlan, number |-> currentTimingPlan, list |-> {}])
  /\ UNCHANGED <<pc, listVars, planVars, weightless, answers, currentTimingPlan,
                 coordinated, mistaken, restarted, changes>>

SolverNext ==
  \/ setCurrentSignalTimingPlan
  \/ setSignalCoordinationTimingPlan
  \/ DropList
  \/ createPriorityRequestList
  \/ SendClearSchedule
  \/ TakeSplitData
  \/ getCurrentSignalStatusFails
  \/ setOptimizationInputFails
  \/ getScheduleforTCI

Answering == TciAnswersPlan \/ TciAnswersPhases \/ GeneratorAnswers \/ GeneratorIgnores

Next ==
  \/ SolverNext
  \/ Answering
  \/ \E list \in RequestLists : ServerSends(PriorityRequest, list)
  \/ ServerSends(ClearRequest, {})
  \/ TimingPlanChanges
  \/ CoordinationBegins \/ CoordinationEnds
  \/ SolverKilled \/ SolverStartsAgain \/ TciRestarts

(***************************************************************************)
(* The loop goes on when it has something to read, supervisord starts the  *)
(* process again, and the others answer as long as they run.               *)
(***************************************************************************)
Fairness ==
  /\ WF_vars(SolverNext) /\ WF_vars(SolverStartsAgain)
  /\ WF_vars(TciAnswersPlan) /\ WF_vars(TciAnswersPhases)
  /\ WF_vars(GeneratorAnswers) /\ WF_vars(GeneratorIgnores)

Spec == Init /\ [][Next]_vars /\ Fairness

-----------------------------------------------------------------------------
(* Properties *)

TypeOK ==
  /\ pc \in {"receive", "awaitSplitData", "awaitCurrentPhases", "dead"}
  /\ priorityRequestList \subseteq VehicleType /\ number \in Nat
  /\ trafficSignalPlan \in Nat /\ trafficSignalPlan_SignalCoordination \in Nat
  /\ weightless \in WeightSettings /\ noOfEVInList \in BOOLEAN
  /\ inbox \in Seq(Message) /\ answers \in Nat
  /\ asked \in [plan : Nat, split : Nat, phases : Nat]
  /\ tci \in [number : Nat, command : {"none", "clear", "schedule"}]
  /\ currentTimingPlan \in Nat \ {0} /\ coordinated \in BOOLEAN
  /\ fate \in Seq({"served", "noPlan", "missed", "unsolved", "died", "forgotten"})
  /\ planLost \in BOOLEAN /\ mistaken \in BOOLEAN
  /\ restarted \in BOOLEAN /\ unanswered \in BOOLEAN
  /\ changes \in Nat /\ faults \in Nat

\* The messages that have changed something in the TCI.
Served == {n \in DOMAIN fate \ Pending : fate[n] = "served"}

\* The TCI works on the newest message that has reached it through the solver: one
\* that was missed, dropped or not solved leaves the command of an older one in
\* force, and nothing else does (the main loop, line 109).
TciFollowsServer ==
  /\ \A n \in Served : n <= tci.number
  /\ tci.number # 0 => tci.number \in Served /\ tci.command # "none"

\* The solver only dies when something other than the split data it had asked for ended
\* its wait, or for an emergency vehicle without weight (getCurrentSignalStatus with an
\* empty coordination plan, setOptimizationInput with an empty list).
DiesOnlyAfterMiss ==
  pc = "dead" =>
    \/ mistaken /\ priorityRequestList = {CoordinationVehicleType}
    \/ EmergencyVehicle \in priorityRequestList \cap weightless

\* The newest timing plan of those that came is the one in use, unless the wait for
\* the split data swallowed it.
PlanIsCurrent ==
  LET plans == {i \in DOMAIN inbox : inbox[i].kind = SignalPlan}
  IN  trafficSignalPlan # 0 /\ plans = {} /\ ~planLost /\ pc # "dead" =>
        trafficSignalPlan = currentTimingPlan

\* One question for the current phases is open while the loop waits for them and none
\* otherwise, so that the answer it reads is that to its own question; only a restart
\* in between shifts the answers (the second socket).
AnswersMatchQuestions ==
  ~restarted /\ ~unanswered /\ pc # "dead" =>
    asked.phases + answers = IF pc = "awaitCurrentPhases" THEN 1 ELSE 0

\* The loop comes back to its main socket unless the question it waits on was lost.
LoopReturns == pc # "receive" ~> pc = "receive" \/ unanswered
==============================================================================
