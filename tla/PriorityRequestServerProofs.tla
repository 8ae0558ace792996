--------------------- MODULE PriorityRequestServerProofs ---------------------
(***************************************************************************)
(* Theorems about the Priority Request Server, for every set of vehicles,  *)
(* every coordination plan, every table size and every time-out value:     *)
(* first the statuses and the solver, then who stands in the table, who    *)
(* may leave it, and the priority service it implements.                   *)
(***************************************************************************)
EXTENDS PriorityServerRefinement, VectorOpsProofs, SequenceTheorems

-----------------------------------------------------------------------------
(* The helpers keep the table well typed *)

\* Every signal group has a split phase, 0 for those outside 1..8.
LEMMA SplitPhaseType ==
  ASSUME NEW g \in SignalGroup
  PROVE  getSplitPhase(g) \in SignalGroup
BY DEF getSplitPhase, SignalGroup

LEMMA NewEntryType ==
  ASSUME NEW id \in Vehicle \cup CoordinationID,
         NEW role \in Role \cup {"roadsideSource"},
         NEW g \in SignalGroup
  PROVE  NewEntry(id, role, g) \in Entry
BY TimingAssumption DEF NewEntry, Entry, Status

\* What an SRM pushes is one or two entries.
LEMMA EntriesForType ==
  ASSUME NEW sr \in SignalRequest
  PROVE  EntriesFor(sr) \in Seq(Entry)
<1>1. /\ sr.vehicleID \in Vehicle /\ sr.signalGroup \in SignalGroup
      /\ RoleOf[sr.vehicleID] \in Role
  BY VehicleAssumption DEF SignalRequest
<1>2. getSplitPhase(sr.signalGroup) \in SignalGroup
  BY <1>1, SplitPhaseType
<1>3. /\ NewEntry(sr.vehicleID, RoleOf[sr.vehicleID], sr.signalGroup) \in Entry
      /\ NewEntry(sr.vehicleID, RoleOf[sr.vehicleID],
                  getSplitPhase(sr.signalGroup)) \in Entry
  BY <1>1, <1>2, NewEntryType
<1>4. QED
  BY <1>3 DEF EntriesFor

\* The entries pushed for a coordination list.
LEMMA CoordinationEntriesType ==
  ASSUME NEW list \in CoordinationList
  PROVE  CoordinationEntries(list) \in Seq(Entry)
<1> DEFINE C == [vehicleID : CoordinationID, requestedPhase : SignalGroup]
           f == CoordinationEntries(list)
<1>1. list \in Seq(C)
  BY CoordinationAssumption
<1>2. \A i \in DOMAIN list : list[i] \in C
  <2> HIDE DEF C
  <2>1. QED
    BY <1>1
<1>3. ASSUME NEW i \in DOMAIN list
      PROVE  f[i] \in Entry
  <2>1. /\ list[i].vehicleID \in CoordinationID
        /\ list[i].requestedPhase \in SignalGroup
    BY <1>2
  <2>2. NewEntry(list[i].vehicleID, "roadsideSource", list[i].requestedPhase)
          \in Entry
    BY <2>1, NewEntryType
  <2>3. QED
    BY <2>2 DEF CoordinationEntries
<1>4. f = [i \in DOMAIN list |-> f[i]]
  BY DEF CoordinationEntries
<1> HIDE DEF f, C
<1>5. f \in Seq(Entry)
  BY <1>1, <1>3, <1>4, MapType
<1>6. QED
  BY <1>5 DEF f

\* Status assignment changes nothing but the status.
LEMMA SetStatusType ==
  ASSUME NEW table \in Seq(Entry)
  PROVE  LET new == setPriorityRequestStatus(table)
         IN  /\ new \in Seq(Entry)
             /\ DOMAIN new = DOMAIN table
             /\ \A i \in DOMAIN table :
                  /\ new[i].vehicleID = table[i].vehicleID
                  /\ new[i].basicVehicleRole = table[i].basicVehicleRole
                  /\ new[i].signalGroup = table[i].signalGroup
                  /\ new[i].prsStatus = StatusFor(table[i].basicVehicleRole,
                                                  findEVInList(table))
<1> DEFINE f == setPriorityRequestStatus(table)
<1>1. \A i \in DOMAIN table : table[i] \in Entry
  OBVIOUS
<1>2. \A role, ev : StatusFor(role, ev) \in Status
  BY DEF StatusFor, Status
<1>3. \A i \in DOMAIN table :
        /\ f[i] \in Entry
        /\ f[i].vehicleID = table[i].vehicleID
        /\ f[i].basicVehicleRole = table[i].basicVehicleRole
        /\ f[i].signalGroup = table[i].signalGroup
        /\ f[i].prsStatus = StatusFor(table[i].basicVehicleRole,
                                      findEVInList(table))
  BY <1>1, <1>2 DEF setPriorityRequestStatus, Entry
<1>4. f = [i \in DOMAIN table |-> f[i]]
  BY DEF setPriorityRequestStatus
<1>5. f \in Seq(Entry) /\ DOMAIN f = DOMAIN table
  <2> HIDE DEF f
  <2>1. QED
    BY <1>3, <1>4, MapType
<1>6. QED
  BY <1>3, <1>5

\* Stamping artForwardTime changes nothing but the age since forwarding.
LEMMA ForwardedType ==
  ASSUME NEW table \in Seq(Entry)
  PROVE  /\ Forwarded(table) \in Seq(Entry)
         /\ DOMAIN Forwarded(table) = DOMAIN table
         /\ \A i \in DOMAIN table :
              /\ Forwarded(table)[i].vehicleID = table[i].vehicleID
              /\ Forwarded(table)[i].basicVehicleRole = table[i].basicVehicleRole
              /\ Forwarded(table)[i].signalGroup = table[i].signalGroup
              /\ Forwarded(table)[i].prsStatus = table[i].prsStatus
<1> DEFINE f == Forwarded(table)
<1>1. \A i \in DOMAIN table : table[i] \in Entry
  OBVIOUS
<1>2. \A i \in DOMAIN table :
        /\ f[i] \in Entry
        /\ f[i].vehicleID = table[i].vehicleID
        /\ f[i].basicVehicleRole = table[i].basicVehicleRole
        /\ f[i].signalGroup = table[i].signalGroup
        /\ f[i].prsStatus = table[i].prsStatus
  <2>1. 0 \in 0 .. SRM_TIME_GAP_VALUE
    BY TimingAssumption
  <2>2. QED
    BY <1>1, <2>1 DEF Forwarded, Entry
<1>3. f = [i \in DOMAIN table |-> f[i]]
  BY DEF Forwarded
<1>4. f \in Seq(Entry) /\ DOMAIN f = DOMAIN table
  <2> HIDE DEF f
  <2>1. QED
    BY <1>2, <1>3, MapType
<1>5. QED
  BY <1>2, <1>4

\* Waiting changes nothing but the ages.
LEMMA AgedType ==
  ASSUME NEW table \in Seq(Entry)
  PROVE  LET new == [i \in DOMAIN table |-> Aged(table[i])]
         IN  /\ new \in Seq(Entry)
             /\ DOMAIN new = DOMAIN table
             /\ \A i \in DOMAIN table :
                  /\ new[i].vehicleID = table[i].vehicleID
                  /\ new[i].basicVehicleRole = table[i].basicVehicleRole
                  /\ new[i].signalGroup = table[i].signalGroup
                  /\ new[i].prsStatus = table[i].prsStatus
<1> DEFINE f == [i \in DOMAIN table |-> Aged(table[i])]
<1>1. \A i \in DOMAIN table : table[i] \in Entry
  OBVIOUS
<1>2. \A limit \in Nat, age \in 0 .. requestTimedOutValue :
        Capped(age, requestTimedOutValue) \in 0 .. requestTimedOutValue
  BY TimingAssumption DEF Capped
<1>3. \A age \in 0 .. SRM_TIME_GAP_VALUE :
        Capped(age, SRM_TIME_GAP_VALUE) \in 0 .. SRM_TIME_GAP_VALUE
  BY TimingAssumption DEF Capped
<1>4. \A i \in DOMAIN table :
        /\ f[i] \in Entry
        /\ f[i].vehicleID = table[i].vehicleID
        /\ f[i].basicVehicleRole = table[i].basicVehicleRole
        /\ f[i].signalGroup = table[i].signalGroup
        /\ f[i].prsStatus = table[i].prsStatus
  BY <1>1, <1>2, <1>3 DEF Aged, Entry
<1>5. f = [i \in DOMAIN table |-> f[i]]
  OBVIOUS
<1>6. f \in Seq(Entry) /\ DOMAIN f = DOMAIN table
  <2> HIDE DEF f
  <2>1. QED
    BY <1>4, <1>5, MapType
<1>7. QED
  BY <1>4, <1>6

\* Erasing entries invents none: the survivors are entries of the old table.
LEMMA EraseType ==
  ASSUME NEW table \in Seq(Entry), NEW K
  PROVE  /\ Erase(table, K) \in Seq(Entry)
         /\ \A n \in DOMAIN Erase(table, K) :
              \E i \in DOMAIN table : Erase(table, K)[n] = table[i]
<1> DEFINE R == DOMAIN table \ K
<1>1. R \in SUBSET DOMAIN table
  OBVIOUS
<1>2. /\ Keep(table, R) \in Seq(Entry)
      /\ \A n \in DOMAIN Keep(table, R) :
           Nth(R, n) \in R /\ Keep(table, R)[n] = table[Nth(R, n)]
  BY <1>1, KeepType
<1>3. QED
  BY <1>1, <1>2 DEF Erase

\* The same, when the second of two erasures may hit end().
LEMMA EraseTwiceType ==
  ASSUME NEW table \in Seq(Entry), NEW i, NEW others,
         NEW new \in EraseTwice(table, i, others)
  PROVE  /\ new \in Seq(Entry)
         /\ \A n \in DOMAIN new : \E k \in DOMAIN table : new[n] = table[k]
<1>0. \A K : /\ Erase(table, K) \in Seq(Entry)
            /\ \A n \in DOMAIN Erase(table, K) :
                 \E k \in DOMAIN table : Erase(table, K)[n] = table[k]
  BY EraseType
<1>1. CASE others # {}
  <2>1. new = Erase(table, {i, Nth(others, 1)})
    BY <1>1 DEF EraseTwice
  <2>2. QED
    BY <1>0, <2>1
<1>2. CASE others = {}
  <2> DEFINE rest == Erase(table, {i})
  <2>1. new = DropLast(rest) /\ rest # <<>>
    BY <1>2 DEF EraseTwice
  <2>2. /\ rest \in Seq(Entry)
        /\ \A n \in DOMAIN rest : \E k \in DOMAIN table : rest[n] = table[k]
    BY <1>0
  <2>3. /\ DropLast(rest) \in Seq(Entry)
        /\ \A n \in DOMAIN DropLast(rest) :
             n \in DOMAIN rest /\ DropLast(rest)[n] = rest[n]
    <3> HIDE DEF rest
    <3>1. QED
      BY <2>1, <2>2, DropLastType
  <2>4. QED
    BY <2>1, <2>2, <2>3
<1>3. QED
  BY <1>1, <1>2

-----------------------------------------------------------------------------
(* What an iteration of the main loop leaves behind *)

\* The entries of t are those of u but for their ages.
Retouched(t, u) ==
  /\ DOMAIN t = DOMAIN u
  /\ \A i \in DOMAIN u :
       /\ t[i].vehicleID = u[i].vehicleID
       /\ t[i].basicVehicleRole = u[i].basicVehicleRole
       /\ t[i].signalGroup = u[i].signalGroup
       /\ t[i].prsStatus = u[i].prsStatus

\* The message lists exactly the requests of table t.
Listed(msg, t) ==
  /\ DOMAIN msg.requestorInfo = DOMAIN t
  /\ \A i \in DOMAIN t :
       /\ msg.requestorInfo[i].vehicleID = t[i].vehicleID
       /\ msg.requestorInfo[i].basicVehicleRole = t[i].basicVehicleRole
       /\ msg.requestorInfo[i].requestedSignalGroup = t[i].signalGroup

\* Every request of t is one of u.
Carried(t, u) ==
  \A n \in DOMAIN t : \E i \in DOMAIN u :
    /\ t[n].vehicleID = u[i].vehicleID
    /\ t[n].basicVehicleRole = u[i].basicVehicleRole
    /\ t[n].signalGroup = u[i].signalGroup

\* ... with the status it had there.
CarriedStatus(t, u) ==
  \A n \in DOMAIN t : \E i \in DOMAIN u :
    /\ t[n].basicVehicleRole = u[i].basicVehicleRole
    /\ t[n].prsStatus = u[i].prsStatus

\* setPriorityRequestStatus has just seen this table.
Assigned(t) ==
  \A i \in DOMAIN t :
    t[i].prsStatus = StatusFor(t[i].basicVehicleRole, findEVInList(t))

\* Whether an emergency vehicle is present depends on the roles alone.
LEMMA RetouchedEV ==
  ASSUME NEW t, NEW u, DOMAIN t = DOMAIN u,
         \A i \in DOMAIN u : t[i].basicVehicleRole = u[i].basicVehicleRole
  PROVE  findEVInList(t) = findEVInList(u)
<1>1. PositionsWithRole(t, "fire") = PositionsWithRole(u, "fire")
  BY DEF PositionsWithRole
<1>2. QED
  BY <1>1 DEF findEVInList

\* An SSM reports every entry.
LEMMA SSMType ==
  ASSUME NEW table \in Seq(Entry)
  PROVE  createSSMJsonString(table) \in Seq(StatusInfo)
<1> DEFINE f == createSSMJsonString(table)
<1>1. \A i \in DOMAIN table : table[i] \in Entry
  OBVIOUS
<1>2. \A i \in DOMAIN table : f[i] \in StatusInfo
  BY <1>1 DEF createSSMJsonString, Entry, StatusInfo
<1>3. f = [i \in DOMAIN table |-> f[i]]
  BY DEF createSSMJsonString
<1> HIDE DEF f
<1>4. f \in Seq(StatusInfo)
  BY <1>2, <1>3, MapType
<1>5. QED
  BY <1>4 DEF f

\* A request list names every entry.
LEMMA RequestListType ==
  ASSUME NEW table \in Seq(Entry)
  PROVE  /\ PriorityRequestList(table) \in SolverMessage
         /\ Listed(PriorityRequestList(table), table)
<1> DEFINE f == [i \in DOMAIN table |->
                  [ vehicleID |-> table[i].vehicleID,
                    basicVehicleRole |-> table[i].basicVehicleRole,
                    requestedSignalGroup |-> table[i].signalGroup ]]
<1>1. \A i \in DOMAIN table : table[i] \in Entry
  OBVIOUS
<1>2. \A i \in DOMAIN table :
        /\ f[i] \in RequestInfo
        /\ f[i].vehicleID = table[i].vehicleID
        /\ f[i].basicVehicleRole = table[i].basicVehicleRole
        /\ f[i].requestedSignalGroup = table[i].signalGroup
  BY <1>1 DEF Entry, RequestInfo
<1>3. f = [i \in DOMAIN table |-> f[i]]
  OBVIOUS
<1>4. f \in Seq(RequestInfo) /\ DOMAIN f = DOMAIN table
  <2> HIDE DEF f
  <2>1. QED
    BY <1>2, <1>3, MapType
<1>5. PriorityRequestList(table) = [MsgType |-> "PriorityRequest", requestorInfo |-> f]
  BY DEF PriorityRequestList
<1> HIDE DEF f
<1>6. QED
  BY <1>2, <1>4, <1>5 DEF Listed, SolverMessage

\* The message to the solver is a ClearRequest only when no emergency vehicle is
\* left, and otherwise lists the table as it stands afterwards.
LEMMA SolverStep ==
  ASSUME NEW table \in Seq(Entry), NEW clearForEV \in BOOLEAN,
         clearForEV => ~findEVInList(table),
         createJsonStringForPrioritySolver(table, clearForEV)
  PROVE  /\ ART' \in Seq(Entry) /\ Retouched(ART', table)
         /\ sendSSM' = FALSE
         /\ sentClearRequest' \in BOOLEAN
         /\ solver' \in SolverMessage
         /\ sentClearRequest' => solver' = ClearRequest
         /\ \/ solver' = ClearRequest /\ ~findEVInList(ART')
            \/ Listed(solver', ART')
<1>1. CASE clearForEV \/ table = <<>>
  <2>1. /\ ART' = table /\ solver' = ClearRequest
        /\ sentClearRequest' = TRUE /\ sendSSM' = FALSE
    BY <1>1 DEF createJsonStringForPrioritySolver
  <2>2. ~findEVInList(table)
    BY <1>1 DEF findEVInList, PositionsWithRole
  <2>3. ClearRequest \in SolverMessage
    BY DEF ClearRequest, SolverMessage
  <2>4. Retouched(table, table)
    BY DEF Retouched
  <2>5. QED
    BY <2>1, <2>2, <2>3, <2>4
<1>2. CASE ~(clearForEV \/ table = <<>>)
  <2>1. /\ ART' = Forwarded(table) /\ solver' = PriorityRequestList(table)
        /\ sentClearRequest' = FALSE /\ sendSSM' = FALSE
    BY <1>2 DEF createJsonStringForPrioritySolver
  <2>2. ART' \in Seq(Entry) /\ Retouched(ART', table)
    BY <2>1, ForwardedType DEF Retouched
  <2>3. solver' \in SolverMessage /\ Listed(solver', table)
    BY <2>1, RequestListType
  <2>4. Listed(solver', ART')
    BY <2>2, <2>3 DEF Listed, Retouched
  <2>5. QED
    BY <2>1, <2>2, <2>3, <2>4
<1>3. QED
  BY <1>1, <1>2

(***************************************************************************)
(* What every step guarantees about the next state: the table is well      *)
(* typed; either its statuses were just assigned or no entry's status has  *)
(* changed; and the solver was either told to clear because no emergency   *)
(* vehicle is left, or given the whole table, or not told anything, and    *)
(* then no request has been added or changed.                              *)
(***************************************************************************)
StepOutcome ==
  /\ TypeOK'
  /\ Assigned(ART') \/ CarriedStatus(ART', ART)
  /\ \/ solver' = ClearRequest /\ ~findEVInList(ART')
     \/ Listed(solver', ART')
     \/ solver' = solver /\ Carried(ART', ART)
  /\ \/ sentClearRequest' => solver' = ClearRequest
     \/ UNCHANGED <<sentClearRequest, solver>>

\* Ages apart, a table carries what the table it was made from carried.
LEMMA RetouchedKeeps ==
  ASSUME NEW t, NEW u, NEW old, Retouched(t, u)
  PROVE  /\ Assigned(u) => Assigned(t)
         /\ CarriedStatus(u, old) => CarriedStatus(t, old)
         /\ Carried(u, old) => Carried(t, old)
<1>1. findEVInList(t) = findEVInList(u)
  BY RetouchedEV DEF Retouched
<1>2. Assigned(u) => Assigned(t)
  BY <1>1 DEF Assigned, Retouched
<1>3. CarriedStatus(u, old) => CarriedStatus(t, old)
  BY DEF CarriedStatus, Retouched
<1>4. Carried(u, old) => Carried(t, old)
  BY DEF Carried, Retouched
<1>5. QED
  BY <1>2, <1>3, <1>4

LEMMA CarriedReflexive ==
  ASSUME NEW t
  PROVE  Carried(t, t) /\ CarriedStatus(t, t) /\ Retouched(t, t)
BY DEF Carried, CarriedStatus, Retouched

\* The end of an iteration that served a datagram.
LEMMA AnswerStep ==
  ASSUME TypeOK, NEW table \in Seq(Entry),
         NEW needSSM \in BOOLEAN, NEW needList \in BOOLEAN,
         NEW clearForEV \in BOOLEAN, clearForEV => ~findEVInList(table),
         etaAge' \in 0 .. TIME_GAP_BETWEEN_ETA_Update,
         Assigned(table) \/ CarriedStatus(table, ART),
         needList \/ Carried(table, ART),
         AnswerDatagram(table, needSSM, needList, clearForEV)
  PROVE  StepOutcome
<1>1. idle' \in 0 .. SocketTimeOut
  BY TimingAssumption DEF AnswerDatagram
<1>2. ssm' \in Seq(StatusInfo)
  BY SSMType DEF AnswerDatagram, TypeOK
<1>3. CASE needList
  <2>1. createJsonStringForPrioritySolver(table, clearForEV)
    BY <1>3 DEF AnswerDatagram
  <2>2. /\ ART' \in Seq(Entry) /\ Retouched(ART', table)
        /\ sendSSM' = FALSE /\ sentClearRequest' \in BOOLEAN
        /\ solver' \in SolverMessage
        /\ sentClearRequest' => solver' = ClearRequest
        /\ \/ solver' = ClearRequest /\ ~findEVInList(ART')
           \/ Listed(solver', ART')
    BY <2>1, SolverStep
  <2>3. Assigned(ART') \/ CarriedStatus(ART', ART)
    BY <2>2, RetouchedKeeps
  <2>4. TypeOK'
    BY <1>1, <1>2, <2>2 DEF TypeOK
  <2>5. QED
    BY <2>2, <2>3, <2>4 DEF StepOutcome
<1>4. CASE ~needList
  <2>1. /\ ART' = table /\ sendSSM' = needSSM
        /\ UNCHANGED <<sentClearRequest, solver>>
    BY <1>4 DEF AnswerDatagram
  <2>2. TypeOK'
    BY <1>1, <1>2, <2>1 DEF TypeOK
  <2>3. QED
    BY <1>4, <2>1, <2>2 DEF StepOutcome
<1>5. QED
  BY <1>3, <1>4

\* The tail of every accepted SRM.
LEMMA FinishStep ==
  ASSUME TypeOK, NEW table \in Seq(Entry), NEW needList \in BOOLEAN,
         NEW clearForEV \in BOOLEAN, clearForEV => ~findEVInList(table),
         needList \/ Carried(table, ART),
         FinishSRM(table, needList, clearForEV)
  PROVE  StepOutcome
<1> DEFINE new == setPriorityRequestStatus(table)
<1>1. /\ new \in Seq(Entry)
      /\ DOMAIN new = DOMAIN table
      /\ \A i \in DOMAIN table :
           /\ new[i].vehicleID = table[i].vehicleID
           /\ new[i].basicVehicleRole = table[i].basicVehicleRole
           /\ new[i].signalGroup = table[i].signalGroup
           /\ new[i].prsStatus = StatusFor(table[i].basicVehicleRole,
                                           findEVInList(table))
  BY SetStatusType
<1>2. /\ etaAge' \in 0 .. TIME_GAP_BETWEEN_ETA_Update
      /\ AnswerDatagram(new, TRUE, needList, clearForEV)
  <2>1. 0 \in 0 .. TIME_GAP_BETWEEN_ETA_Update
    BY TimingAssumption
  <2>2. etaAge' = IF table = <<>> THEN etaAge ELSE 0
    BY DEF FinishSRM
  <2>3. AnswerDatagram(new, TRUE, needList, clearForEV)
    BY DEF FinishSRM
  <2>4. QED
    BY <2>1, <2>2, <2>3 DEF TypeOK
<1> HIDE DEF new
<1>3. findEVInList(new) = findEVInList(table)
  BY <1>1, RetouchedEV
<1>4. Assigned(new)
  BY <1>1, <1>3 DEF Assigned
<1>5. Carried(table, ART) => Carried(new, ART)
  BY <1>1 DEF Carried
<1>6. QED
  BY <1>1, <1>2, <1>3, <1>4, <1>5, AnswerStep

-----------------------------------------------------------------------------
(* One lemma per action *)

\* The entry an SRM finds is an entry of the table.
LEMMA FoundEntry ==
  ASSUME TypeOK, NEW id, PositionsOf(ART, id) # {}
  PROVE  Nth(PositionsOf(ART, id), 1) \in PositionsOf(ART, id)
<1>1. Len(ART) \in Nat /\ DOMAIN ART = 1 .. Len(ART)
  BY DEF TypeOK
<1>2. PositionsOf(ART, id) \in SUBSET (1 .. Len(ART))
  BY <1>1 DEF PositionsOf
<1>3. QED
  BY <1>1, <1>2, NthFirst

\* Erasing from the table leaves only requests it had.
LEMMA ErasedCarries ==
  ASSUME TypeOK, NEW K
  PROVE  /\ Erase(ART, K) \in Seq(Entry)
         /\ Carried(Erase(ART, K), ART)
         /\ CarriedStatus(Erase(ART, K), ART)
<1>1. /\ Erase(ART, K) \in Seq(Entry)
      /\ \A n \in DOMAIN Erase(ART, K) :
           \E i \in DOMAIN ART : Erase(ART, K)[n] = ART[i]
  BY EraseType DEF TypeOK
<1>2. QED
  BY <1>1 DEF Carried, CarriedStatus

\* The same for the two erasures of an emergency vehicle or a coordination pair.
LEMMA ErasedTwiceCarries ==
  ASSUME TypeOK, NEW i, NEW others, NEW new \in EraseTwice(ART, i, others)
  PROVE  /\ new \in Seq(Entry)
         /\ Carried(new, ART)
         /\ CarriedStatus(new, ART)
<1>1. /\ new \in Seq(Entry)
      /\ \A n \in DOMAIN new : \E k \in DOMAIN ART : new[n] = ART[k]
  BY EraseTwiceType DEF TypeOK
<1>2. QED
  BY <1>1 DEF Carried, CarriedStatus

\* A clear that leaves requests behind is sent only without emergency vehicles.
LEMMA ClearForEVType ==
  ASSUME NEW table
  PROVE  ClearForEV(table) \in BOOLEAN /\ (ClearForEV(table) => ~findEVInList(table))
BY DEF ClearForEV

\* A restarted server knows no request and has told the solver nothing.
LEMMA RestartStep ==
  ASSUME TypeOK, Restart
  PROVE  StepOutcome
<1>1. 0 \in 0 .. SocketTimeOut
      /\ TIME_GAP_BETWEEN_ETA_Update \in 0 .. TIME_GAP_BETWEEN_ETA_Update
  BY TimingAssumption
<1>2. /\ ART' = <<>> /\ solver' = solver /\ ssm' = ssm
      /\ sendSSM' = FALSE /\ sentClearRequest' = FALSE
      /\ etaAge' = TIME_GAP_BETWEEN_ETA_Update /\ idle' = 0
  BY DEF Restart
<1>3. <<>> \in Seq(Entry)
  OBVIOUS
<1>4. TypeOK'
  BY <1>1, <1>2, <1>3 DEF TypeOK
<1>5. Assigned(ART') /\ Carried(ART', ART)
  BY <1>2 DEF Assigned, Carried
<1>6. QED
  BY <1>2, <1>4, <1>5 DEF StepOutcome

\* A new vehicle is appended, an emergency vehicle with its split phase.
LEMMA AddRequestStep ==
  ASSUME TypeOK, NEW sr \in SignalRequest, AddRequest(sr)
  PROVE  StepOutcome
<1>1. ART \o EntriesFor(sr) \in Seq(Entry)
  BY EntriesForType, ConcatProperties DEF TypeOK
<1>2. FinishSRM(ART \o EntriesFor(sr), TRUE, FALSE)
  BY DEF AddRequest
<1>3. QED
  BY <1>1, <1>2, FinishStep

\* An update in place writes a role and a signal group of the right kind.
LEMMA UpdateRequestStep ==
  ASSUME TypeOK, NEW sr \in SignalRequest, UpdateRequest(sr)
  PROVE  StepOutcome
<1> DEFINE i == Nth(PositionsOf(ART, sr.vehicleID), 1)
           new == [ART EXCEPT ![i].basicVehicleRole = RoleOf[sr.vehicleID],
                              ![i].signalGroup = sr.signalGroup,
                              ![i].receivedAge = 0]
<1>1. i \in DOMAIN ART
  <2>1. PositionsOf(ART, sr.vehicleID) # {}
    BY DEF UpdateRequest, updateActiveRequestTable
  <2>2. QED
    BY <2>1, FoundEntry DEF PositionsOf
<1>2. /\ RoleOf[sr.vehicleID] \in Role
      /\ sr.signalGroup \in SignalGroup
      /\ 0 \in 0 .. requestTimedOutValue
  <2>1. sr.vehicleID \in Vehicle /\ sr.signalGroup \in Phase
    BY DEF SignalRequest
  <2>2. RoleOf[sr.vehicleID] \in Role /\ sr.signalGroup \in SignalGroup
    BY <2>1, VehicleAssumption
  <2>3. 0 \in 0 .. requestTimedOutValue
    BY TimingAssumption
  <2>4. QED
    BY <2>2, <2>3
<1>3. ART \in Seq(Entry)
  BY DEF TypeOK
<1>4. FinishSRM(new, TRUE, FALSE)
  BY DEF UpdateRequest
<1>5. new \in Seq(Entry)
  <2> DEFINE e == [ART[i] EXCEPT !.basicVehicleRole = RoleOf[sr.vehicleID],
                                 !.signalGroup = sr.signalGroup,
                                 !.receivedAge = 0]
  <2>1. e \in Entry
    <3>1. ART[i] \in Entry
      BY <1>1, <1>3
    <3> HIDE DEF i
    <3>2. QED
      BY <1>2, <3>1 DEF Entry
  <2>2. new = [ART EXCEPT ![i] = e]
    BY <1>1, <1>3
  <2> HIDE DEF i, e, new
  <2>3. QED
    BY <1>1, <1>3, <2>1, <2>2
<1> HIDE DEF new
<1>6. QED
  BY <1>4, <1>5, FinishStep

\* Two erasures and a push, or a crash on the second erasure.
LEMMA UpdateEmergencyRequestStep ==
  ASSUME TypeOK, NEW sr \in SignalRequest, UpdateEmergencyRequest(sr)
  PROVE  StepOutcome
<1> DEFINE found == PositionsOf(ART, sr.vehicleID)
           first == Nth(found, 1)
<1>1. CASE \E table \in EraseTwice(ART, first, found \ {first}) :
             FinishSRM(table \o EntriesFor(sr), TRUE, FALSE)
  <2>1. PICK table \in EraseTwice(ART, first, found \ {first}) :
          FinishSRM(table \o EntriesFor(sr), TRUE, FALSE)
    BY <1>1
  <2> HIDE DEF found, first
  <2>2. table \o EntriesFor(sr) \in Seq(Entry)
    BY ErasedTwiceCarries, EntriesForType, ConcatProperties
  <2>3. QED
    BY <2>1, <2>2, FinishStep
<1>2. CASE Restart
  BY <1>2, RestartStep
<1>3. QED
  BY <1>1, <1>2 DEF UpdateEmergencyRequest

\* A cancellation only takes entries away.
LEMMA DeleteRequestStep ==
  ASSUME TypeOK, NEW sr \in SignalRequest, DeleteRequest(sr)
  PROVE  StepOutcome
<1>1. PICK gone :
        FinishSRM(Erase(ART, gone), TRUE,
                  RoleOf[sr.vehicleID] = "fire" /\ ClearForEV(Erase(ART, gone)))
  BY DEF DeleteRequest
<1> DEFINE table == Erase(ART, gone)
           clear == RoleOf[sr.vehicleID] = "fire" /\ ClearForEV(table)
<1>2. table \in Seq(Entry)
  BY ErasedCarries
<1>3. clear \in BOOLEAN /\ (clear => ~findEVInList(table))
  BY ClearForEVType
<1>4. FinishSRM(table, TRUE, clear)
  BY <1>1
<1> HIDE DEF table, clear
<1>5. QED
  BY <1>2, <1>3, <1>4, FinishStep

\* A repeated request leaves the table alone.
LEMMA KeepRequestStep ==
  ASSUME TypeOK, NEW sr \in SignalRequest, KeepRequest(sr)
  PROVE  StepOutcome
<1>1. ART \in Seq(Entry) /\ Carried(ART, ART)
  BY CarriedReflexive DEF TypeOK
<1>2. FinishSRM(ART, FALSE, FALSE)
  BY DEF KeepRequest
<1>3. QED
  BY <1>1, <1>2, FinishStep

\* A datagram that changes no request: rejected, or of an unknown type.
LEMMA UnchangedTableStep ==
  ASSUME TypeOK, NEW needSSM \in BOOLEAN, UNCHANGED etaAge,
         AnswerDatagram(ART, needSSM, FALSE, FALSE)
  PROVE  StepOutcome
<1>1. ART \in Seq(Entry) /\ Carried(ART, ART) /\ CarriedStatus(ART, ART)
  BY CarriedReflexive DEF TypeOK
<1>2. etaAge' \in 0 .. TIME_GAP_BETWEEN_ETA_Update
  BY DEF TypeOK
<1>3. QED
  BY <1>1, <1>2, AnswerStep

\* Coordination requests get their statuses together with the vehicles.
LEMMA ReplaceCoordinationStep ==
  ASSUME TypeOK, NEW list \in CoordinationList, ReplaceCoordination(list)
  PROVE  StepOutcome
<1> DEFINE table == VehicleRequests(ART) \o CoordinationEntries(list)
           new == setPriorityRequestStatus(table)
<1>1. table \in Seq(Entry)
  <2>1. VehicleRequests(ART) \in Seq(Entry)
    BY ErasedCarries DEF VehicleRequests
  <2>2. QED
    BY <2>1, CoordinationEntriesType, ConcatProperties
<1>2. /\ etaAge' = 0
      /\ AnswerDatagram(new, TRUE, TRUE, FALSE)
  BY DEF ReplaceCoordination
<1> HIDE DEF table
<1>3. /\ new \in Seq(Entry)
      /\ DOMAIN new = DOMAIN table
      /\ \A i \in DOMAIN table :
           /\ new[i].basicVehicleRole = table[i].basicVehicleRole
           /\ new[i].prsStatus = StatusFor(table[i].basicVehicleRole,
                                           findEVInList(table))
  BY <1>1, SetStatusType
<1> HIDE DEF new
<1>4. Assigned(new)
  BY <1>3, RetouchedEV DEF Assigned
<1>5. etaAge' \in 0 .. TIME_GAP_BETWEEN_ETA_Update
  BY <1>2, TimingAssumption
<1>6. QED
  BY <1>2, <1>3, <1>4, <1>5, AnswerStep

\* Dropping the coordination requests changes no status.
LEMMA ClearCoordinationStep ==
  ASSUME TypeOK, NEW list, ClearCoordination(list)
  PROVE  StepOutcome
<1> DEFINE table == VehicleRequests(ART)
<1>1. /\ table \in Seq(Entry)
      /\ Carried(table, ART) /\ CarriedStatus(table, ART)
  BY ErasedCarries DEF VehicleRequests
<1>2. AnswerDatagram(table, FALSE, FALSE, FALSE)
  BY DEF ClearCoordination
<1>3. etaAge' \in 0 .. TIME_GAP_BETWEEN_ETA_Update
  <2>1. 0 \in 0 .. TIME_GAP_BETWEEN_ETA_Update
    BY TimingAssumption
  <2>2. etaAge' = IF ART = <<>> THEN 0 ELSE etaAge
    BY DEF ClearCoordination
  <2>3. QED
    BY <2>1, <2>2 DEF TypeOK
<1> HIDE DEF table
<1>4. QED
  BY <1>1, <1>2, <1>3, AnswerStep

\* What a time-out deletes changes no other entry's status.
LEMMA DeleteTimedOutStep ==
  ASSUME TypeOK, DeleteTimedOut
  PROVE  StepOutcome
<1> DEFINE timedOutID == ART[Nth(TimedOut, 1)].vehicleID
           i == Nth(PositionsOf(ART, timedOutID), 1)
           isEV == ART[i].basicVehicleRole = "fire"
           outcomes == IF HasPartner(ART[i]) THEN EraseTwice(ART, i, PartnersOf(i))
                                             ELSE {Erase(ART, {i})}
           Deleted(table) ==
             /\ ssm' = createSSMJsonString(table)
             /\ createJsonStringForPrioritySolver(table, isEV /\ ClearForEV(table))
             /\ etaAge' = IF etaUpdateRequirement(table) THEN 0 ELSE etaAge
             /\ idle' = 0
<1>1. (\E table \in outcomes : Deleted(table)) \/ Restart
  BY DEF DeleteTimedOut
<1>2. ASSUME NEW table \in outcomes
      PROVE  table \in Seq(Entry) /\ CarriedStatus(table, ART)
  <2>1. CASE HasPartner(ART[i])
    <3>1. table \in EraseTwice(ART, i, PartnersOf(i))
      BY <2>1
    <3> HIDE DEF i
    <3>2. QED
      BY <3>1, ErasedTwiceCarries
  <2>2. CASE ~HasPartner(ART[i])
    <3>1. table = Erase(ART, {i})
      BY <2>2
    <3> HIDE DEF i
    <3>2. QED
      BY <3>1, ErasedCarries
  <2>3. QED
    BY <2>1, <2>2
<1>3. ASSUME NEW table \in outcomes, Deleted(table)
      PROVE  StepOutcome
  <2> DEFINE clear == isEV /\ ClearForEV(table)
  <2>1. clear \in BOOLEAN /\ (clear => ~findEVInList(table))
    BY ClearForEVType
  <2>2. createJsonStringForPrioritySolver(table, clear)
    BY <1>3
  <2>3. table \in Seq(Entry) /\ CarriedStatus(table, ART)
    BY <1>2
  <2>4. etaAge' \in 0 .. TIME_GAP_BETWEEN_ETA_Update
    <3>1. 0 \in 0 .. TIME_GAP_BETWEEN_ETA_Update
      BY TimingAssumption
    <3>2. etaAge' = 0 \/ etaAge' = etaAge
      BY <1>3
    <3>3. QED
      BY <3>1, <3>2 DEF TypeOK
  <2>5. ssm' \in Seq(StatusInfo)
    BY <1>3, <2>3, SSMType
  <2>6. idle' \in 0 .. SocketTimeOut
    BY <1>3, TimingAssumption
  <2> HIDE DEF clear, outcomes, Deleted
  <2>7. /\ ART' \in Seq(Entry) /\ Retouched(ART', table)
        /\ sendSSM' = FALSE /\ sentClearRequest' \in BOOLEAN
        /\ solver' \in SolverMessage
        /\ sentClearRequest' => solver' = ClearRequest
        /\ \/ solver' = ClearRequest /\ ~findEVInList(ART')
           \/ Listed(solver', ART')
    BY <2>1, <2>2, <2>3, SolverStep
  <2>8. CarriedStatus(ART', ART)
    BY <2>3, <2>7, RetouchedKeeps
  <2>9. TypeOK'
    BY <2>4, <2>5, <2>6, <2>7 DEF TypeOK
  <2>10. QED
    BY <2>7, <2>8, <2>9 DEF StepOutcome
<1>4. QED
  BY <1>1, <1>3, RestartStep

\* An expiry with nothing to delete touches no entry.
LEMMA NoTimedOutStep ==
  ASSUME TypeOK, NoTimedOut
  PROVE  StepOutcome
<1>1. etaAge' \in 0 .. TIME_GAP_BETWEEN_ETA_Update /\ ssm' \in Seq(StatusInfo)
  <2>1. 0 \in 0 .. TIME_GAP_BETWEEN_ETA_Update
    BY TimingAssumption
  <2>2. \/ etaAge' = 0 /\ ssm' = createSSMJsonString(ART)
        \/ UNCHANGED <<etaAge, ssm>>
    BY DEF NoTimedOut
  <2>3. createSSMJsonString(ART) \in Seq(StatusInfo)
    BY SSMType DEF TypeOK
  <2>4. QED
    BY <2>1, <2>2, <2>3 DEF TypeOK
<1>2. idle' \in 0 .. SocketTimeOut
  BY TimingAssumption DEF NoTimedOut
<1>3. CASE /\ ART = <<>> /\ ~sentClearRequest
           /\ createJsonStringForPrioritySolver(<<>>, FALSE)
  <2>1. /\ ART' = <<>> /\ solver' = ClearRequest
        /\ sentClearRequest' = TRUE /\ sendSSM' = FALSE
    BY <1>3 DEF createJsonStringForPrioritySolver
  <2>2. solver' \in SolverMessage
    BY <2>1 DEF ClearRequest, SolverMessage
  <2>3. TypeOK'
    <3>1. ART' \in Seq(Entry)
      BY <2>1
    <3>2. sendSSM' \in BOOLEAN /\ sentClearRequest' \in BOOLEAN
      BY <2>1
    <3>3. QED
      BY <1>1, <1>2, <2>2, <3>1, <3>2 DEF TypeOK
  <2>4. Assigned(ART') /\ ~findEVInList(ART')
    BY <2>1 DEF Assigned, findEVInList, PositionsWithRole
  <2>5. QED
    BY <2>1, <2>3, <2>4 DEF StepOutcome
<1>4. CASE UNCHANGED <<ART, sendSSM, sentClearRequest, solver>>
  <2>1. TypeOK'
    BY <1>1, <1>2, <1>4 DEF TypeOK
  <2>2. CarriedStatus(ART', ART) /\ Carried(ART', ART)
    BY <1>4, CarriedReflexive
  <2>3. QED
    BY <1>4, <2>1, <2>2 DEF StepOutcome
<1>5. QED
  BY <1>3, <1>4 DEF NoTimedOut

\* Waiting only ages the entries.
LEMMA TickStep ==
  ASSUME TypeOK, Tick
  PROVE  StepOutcome
<1> DEFINE new == [i \in DOMAIN ART |-> Aged(ART[i])]
<1>1. new \in Seq(Entry) /\ Retouched(new, ART)
  BY AgedType DEF TypeOK, Retouched
<1>2. etaAge' \in 0 .. TIME_GAP_BETWEEN_ETA_Update /\ idle' \in 0 .. SocketTimeOut
  BY TimingAssumption DEF Tick, TypeOK, Capped
<1>3. ART' = new /\ UNCHANGED <<sendSSM, sentClearRequest, ssm, solver>>
  BY DEF Tick
<1> HIDE DEF new
<1>4. TypeOK'
  BY <1>1, <1>2, <1>3 DEF TypeOK
<1>5. CarriedStatus(new, ART) /\ Carried(new, ART)
  BY <1>1, CarriedReflexive, RetouchedKeeps
<1>6. QED
  BY <1>3, <1>4, <1>5 DEF StepOutcome

\* Every step of the server, stuttering included.
LEMMA NextStep ==
  ASSUME TypeOK, [Next]_vars
  PROVE  StepOutcome
<1>1. ASSUME NEW sr \in SignalRequest, ManageAccepted(sr)
      PROVE  StepOutcome
  BY <1>1, AddRequestStep, UpdateRequestStep, UpdateEmergencyRequestStep,
     DeleteRequestStep, KeepRequestStep DEF ManageAccepted
<1>2. CASE RejectRequest
  BY <1>2, UnchangedTableStep DEF RejectRequest
<1>3. CASE manageCoordinationRequest
  BY <1>3, ReplaceCoordinationStep, ClearCoordinationStep
     DEF manageCoordinationRequest
<1>4. CASE ReceiveUnknown
  <2>1. sendSSM \in BOOLEAN
    BY DEF TypeOK
  <2>2. QED
    BY <1>4, <2>1, UnchangedTableStep DEF ReceiveUnknown
<1>5. CASE SocketTimeout
  BY <1>5, DeleteTimedOutStep, NoTimedOutStep DEF SocketTimeout
<1>6. CASE Tick
  BY <1>6, TickStep
<1>7. CASE Restart
  BY <1>7, RestartStep
<1>8. CASE UNCHANGED vars
  <2>1. UNCHANGED <<ART, sendSSM, sentClearRequest, etaAge, idle, ssm, solver>>
    BY <1>8 DEF vars
  <2>2. TypeOK'
    BY <2>1 DEF TypeOK
  <2>3. CarriedStatus(ART', ART) /\ Carried(ART', ART)
    BY <2>1, CarriedReflexive
  <2>4. QED
    BY <2>1, <2>2, <2>3 DEF StepOutcome
<1>9. QED
  BY <1>1, <1>2, <1>3, <1>4, <1>5, <1>6, <1>7, <1>8
     DEF Next, Datagram, manageSignalRequestTable

-----------------------------------------------------------------------------
(* The theorems *)

LEMMA InitType ==
  ASSUME Init
  PROVE  TypeOK
<1>1. <<>> \in Seq(Entry) /\ <<>> \in Seq(StatusInfo) /\ <<>> \in Seq(RequestInfo)
  OBVIOUS
<1>2. QED
  <2>1. /\ TIME_GAP_BETWEEN_ETA_Update \in 0 .. TIME_GAP_BETWEEN_ETA_Update
        /\ 0 \in 0 .. SocketTimeOut
    BY TimingAssumption
  <2>2. NoMessage \in SolverMessage
    BY <1>1 DEF NoMessage, SolverMessage
  <2>3. QED
    BY <1>1, <2>1, <2>2 DEF Init, TypeOK

\* Whatever vehicles, coordination generator and restarts do, the table, the
\* SSM and the message to the solver stay well formed and the clocks in range.
THEOREM TypeCorrect == Spec => []TypeOK
<1>1. Init => TypeOK
  BY InitType
<1>2. TypeOK /\ [Next]_vars => TypeOK'
  BY NextStep DEF StepOutcome
<1>3. QED
  BY <1>1, <1>2, PTL DEF Spec

\* A table whose statuses were just assigned grants an emergency vehicle alone.
LEMMA AssignedExclusive ==
  ASSUME NEW t \in Seq(Entry), Assigned(t), findEVInList(t)
  PROVE  \A i \in DOMAIN t :
           t[i].prsStatus = "granted" <=> t[i].basicVehicleRole = "fire"
<1>1. \A role \in Role \cup {"roadsideSource"} :
        StatusFor(role, TRUE) = "granted" <=> role = "fire"
  BY DEF StatusFor, Role
<1>2. findEVInList(t) = TRUE
  BY DEF findEVInList
<1>3. ASSUME NEW i \in DOMAIN t
      PROVE  t[i].prsStatus = "granted" <=> t[i].basicVehicleRole = "fire"
  <2>1. t[i] \in Entry
    OBVIOUS
  <2>2. t[i].basicVehicleRole \in Role \cup {"roadsideSource"}
    BY <2>1 DEF Entry
  <2>3. t[i].prsStatus = StatusFor(t[i].basicVehicleRole, TRUE)
    BY <1>2 DEF Assigned
  <2>4. QED
    BY <1>1, <2>2, <2>3
<1>4. QED
  BY <1>3

\* In no reachable state is a transit vehicle, a truck or a coordination request
\* granted priority next to an emergency vehicle, nor the latter refused it.
THEOREM EmergencyVehicleAlone == Spec => []EmergencyExclusive
<1>1. Init => EmergencyExclusive
  BY DEF Init, EmergencyExclusive
<1>2. TypeOK /\ EmergencyExclusive /\ [Next]_vars => EmergencyExclusive'
  <2> SUFFICES ASSUME TypeOK, EmergencyExclusive, [Next]_vars
               PROVE  EmergencyExclusive'
    OBVIOUS
  <2>1. StepOutcome
    BY NextStep
  <2>2. CASE Assigned(ART')
    <3>1. ART' \in Seq(Entry)
      BY <2>1 DEF StepOutcome, TypeOK
    <3>2. QED
      BY <2>2, <3>1, AssignedExclusive DEF EmergencyExclusive
  <2>3. CASE CarriedStatus(ART', ART)
    <3>1. findEVInList(ART') => findEVInList(ART)
      BY <2>3 DEF CarriedStatus, findEVInList, PositionsWithRole
    <3>2. QED
      BY <2>3, <3>1 DEF CarriedStatus, EmergencyExclusive
  <2>4. QED
    BY <2>1, <2>2, <2>3 DEF StepOutcome
<1>3. QED
  BY <1>1, <1>2, TypeCorrect, PTL DEF Spec

\* An emergency vehicle's phases are in the solver's list from the moment it is
\* served until it leaves: no other party's request, cancellation, time-out or
\* ClearRequest drops them.
THEOREM EmergencyVehiclePlanned == Spec => []EmergencyIsPlanned
<1>1. Init => EmergencyIsPlanned
  BY DEF Init, EmergencyIsPlanned, PositionsWithRole
<1>2. TypeOK /\ EmergencyIsPlanned /\ [Next]_vars => EmergencyIsPlanned'
  <2> SUFFICES ASSUME TypeOK, EmergencyIsPlanned, [Next]_vars,
                      NEW i \in DOMAIN ART', ART'[i].basicVehicleRole = "fire"
               PROVE  <<ART'[i].vehicleID, "fire", ART'[i].signalGroup>> \in
                        Requests(solver'.requestorInfo)
    BY DEF EmergencyIsPlanned, PositionsWithRole
  <2>1. \/ ~findEVInList(ART')
        \/ Listed(solver', ART')
        \/ solver' = solver /\ Carried(ART', ART)
    BY NextStep DEF StepOutcome
  <2>2. CASE ~findEVInList(ART')
    BY <2>2 DEF findEVInList, PositionsWithRole
  <2>3. CASE Listed(solver', ART')
    BY <2>3 DEF Listed, Requests
  <2>4. CASE solver' = solver /\ Carried(ART', ART)
    <3>1. PICK k \in DOMAIN ART :
            /\ ART'[i].vehicleID = ART[k].vehicleID
            /\ ART'[i].basicVehicleRole = ART[k].basicVehicleRole
            /\ ART'[i].signalGroup = ART[k].signalGroup
      BY <2>4 DEF Carried
    <3>2. <<ART[k].vehicleID, "fire", ART[k].signalGroup>> \in
            Requests(solver.requestorInfo)
      BY <3>1 DEF EmergencyIsPlanned, PositionsWithRole
    <3>3. QED
      BY <2>4, <3>1, <3>2
  <2>5. QED
    BY <2>1, <2>2, <2>3, <2>4
<1>3. QED
  BY <1>1, <1>2, TypeCorrect, PTL DEF Spec

\* The flag that suppresses a second ClearRequest is never up while the solver
\* still holds a request list, in whichever order requests, withdrawals,
\* time-outs and restarts come.
THEOREM ClearRequestOnTheWire == Spec => []ClearIsOnTheWire
<1>1. Init => ClearIsOnTheWire
  BY DEF Init, ClearIsOnTheWire
<1>2. TypeOK /\ ClearIsOnTheWire /\ [Next]_vars => ClearIsOnTheWire'
  <2> SUFFICES ASSUME TypeOK, ClearIsOnTheWire, [Next]_vars
               PROVE  ClearIsOnTheWire'
    OBVIOUS
  <2>1. \/ sentClearRequest' => solver' = ClearRequest
        \/ UNCHANGED <<sentClearRequest, solver>>
    BY NextStep DEF StepOutcome
  <2>2. QED
    BY <2>1 DEF ClearIsOnTheWire, ClearRequest
<1>3. QED
  BY <1>1, <1>2, TypeCorrect, PTL DEF Spec

-----------------------------------------------------------------------------
(* The order of the Active Request Table *)

\* The coordination generator's lists name each virtual requester at most once.
CoordinationOnce ==
  \A list \in CoordinationList :
    \A m, n \in DOMAIN list : list[m].vehicleID = list[n].vehicleID => m = n

(***************************************************************************)
(* They also name its partner of the other ring with it: what an           *)
(* intersection is sent when its two coordinated phases are due at the     *)
(* same moment, which the generator does not always see to.                *)
(***************************************************************************)
CoordinationInPairs ==
  /\ CoordinationOnce
  /\ \A list \in CoordinationList : \A m \in DOMAIN list : \E n \in DOMAIN list :
       list[n].vehicleID = Associate(list[m].vehicleID)

\* Who a requester is, by its ID.
RoleOfID(id) == IF id \in Vehicle THEN RoleOf[id] ELSE "roadsideSource"

RolesFit(t) == \A i \in DOMAIN t : t[i].basicVehicleRole = RoleOfID(t[i].vehicleID)

\* Only an emergency vehicle has two entries, the two phases of its approach,
\* which were received together, and nobody has three.
TwoPhases(t) ==
  \A i, j \in DOMAIN t : i # j /\ t[i].vehicleID = t[j].vehicleID =>
    /\ t[i].basicVehicleRole = "fire"
    /\ t[j].signalGroup = getSplitPhase(t[i].signalGroup)
    /\ t[j].receivedAge = t[i].receivedAge
    /\ \A k \in DOMAIN t : t[k].vehicleID = t[i].vehicleID => k \in {i, j}

NoSinglePhase(t) ==
  \A i \in DOMAIN t : t[i].basicVehicleRole = "fire" =>
    \E j \in DOMAIN t \ {i} : t[j].vehicleID = t[i].vehicleID

NoSingleCoordination(t) ==
  \A i \in DOMAIN t : t[i].basicVehicleRole = "roadsideSource" =>
    \E j \in DOMAIN t : t[j].vehicleID = Associate(t[i].vehicleID)

\* The inductive invariant for any lists that name nobody twice: EmergencyPairs
\* alone says nothing of the ages, by which the entries time out.
Orderly(t) == RolesFit(t) /\ TwoPhases(t)

\* The one for lists that come in pairs, where time-outs would erase other
\* requesters' entries if one of a pair were missing.
Paired(t) == Orderly(t) /\ NoSinglePhase(t) /\ NoSingleCoordination(t)

-----------------------------------------------------------------------------
(* Erasing is selecting *)

\* What Erase leaves is the surviving entries, each of them once.
LEMMA EraseSelects ==
  ASSUME NEW S, NEW u \in Seq(S), NEW K
  PROVE  \E f \in [DOMAIN Erase(u, K) -> DOMAIN u \ K] :
           /\ \A n \in DOMAIN Erase(u, K) : Erase(u, K)[n] = u[f[n]]
           /\ \A m, n \in DOMAIN Erase(u, K) : f[m] = f[n] => m = n
           /\ \A i \in DOMAIN u \ K : \E n \in DOMAIN Erase(u, K) : f[n] = i
<1> DEFINE R == DOMAIN u \ K
           E == Erase(u, K)
           f == [n \in DOMAIN E |-> Nth(R, n)]
<1>1. R \in SUBSET DOMAIN u /\ E = Keep(u, R)
  BY DEF Erase
<1>2. /\ DOMAIN E = 1 .. Cardinality(R)
      /\ \A n \in DOMAIN E : Nth(R, n) \in R /\ E[n] = u[Nth(R, n)]
  <2>1. DOMAIN E = 1 .. Cardinality(R)
    BY <1>1 DEF Keep
  <2>2. QED
    BY <1>1, <2>1, KeepType
<1>3. f \in [DOMAIN E -> R] /\ \A n \in DOMAIN E : E[n] = u[f[n]]
  BY <1>2
<1>4. ASSUME NEW m \in DOMAIN E, NEW n \in DOMAIN E, f[m] = f[n]
      PROVE  m = n
  <2>1. Len(u) \in Nat /\ R \in SUBSET (1 .. Len(u))
    OBVIOUS
  <2>2. \A k \in DOMAIN E : Rank(R, Nth(R, k)) = k
    BY <1>2, <2>1, NthType
  <2>3. Nth(R, m) = Nth(R, n)
    BY <1>4
  <2>4. QED
    BY <2>2, <2>3
<1>5. ASSUME NEW i \in R
      PROVE  \E n \in DOMAIN E : f[n] = i
  BY <1>1, KeepOnto
<1>6. QED
  BY <1>3, <1>4, <1>5

\* Entries that leave take everybody with them they belong to.
Closed(t, gone) ==
  \A i \in gone, j \in DOMAIN t :
    \/ t[j].vehicleID = t[i].vehicleID
    \/ /\ t[i].basicVehicleRole = "roadsideSource"
       /\ t[j].vehicleID = Associate(t[i].vehicleID)
    => j \in gone

\* The partner's partner is the requester itself, and a virtual requester too.
LEMMA AssociateInvolution ==
  ASSUME NEW c \in CoordinationID
  PROVE  /\ Associate(c) \in CoordinationID
         /\ Associate(c) # c
         /\ Associate(Associate(c)) = c
BY DEF Associate, CoordinationID

LEMMA SplitPhaseInvolution ==
  ASSUME NEW g \in SignalGroup
  PROVE  getSplitPhase(getSplitPhase(g)) = g
BY DEF getSplitPhase, SignalGroup

\* Vehicles and virtual requesters have different IDs and different roles.
LEMMA RoleOfRequester ==
  ASSUME NEW id \in Vehicle \cup CoordinationID
  PROVE  /\ id \in Vehicle => RoleOfID(id) \in Role
         /\ RoleOfID(id) = "roadsideSource" <=> id \in CoordinationID
         /\ id \in CoordinationID => id \notin Vehicle
BY VehicleAssumption DEF RoleOfID, Role

\* An erasure brings nobody a second entry.
LEMMA OrderlyErase ==
  ASSUME NEW t \in Seq(Entry), Orderly(t), NEW gone
  PROVE  Orderly(Erase(t, gone))
<1> DEFINE E == Erase(t, gone)
<1>1. PICK f \in [DOMAIN E -> DOMAIN t \ gone] :
        /\ \A n \in DOMAIN E : E[n] = t[f[n]]
        /\ \A m, n \in DOMAIN E : f[m] = f[n] => m = n
        /\ \A i \in DOMAIN t \ gone : \E n \in DOMAIN E : f[n] = i
  BY EraseSelects
<1> HIDE DEF E
<1>2. \A n \in DOMAIN E : f[n] \in DOMAIN t /\ f[n] \notin gone
  BY <1>1
<1>4. RolesFit(E)
  BY <1>1, <1>2 DEF Orderly, RolesFit
<1>5. TwoPhases(E)
  <2> SUFFICES ASSUME NEW m \in DOMAIN E, NEW n \in DOMAIN E, m # n,
                      E[m].vehicleID = E[n].vehicleID
               PROVE  /\ E[m].basicVehicleRole = "fire"
                      /\ E[n].signalGroup = getSplitPhase(E[m].signalGroup)
                      /\ E[n].receivedAge = E[m].receivedAge
                      /\ \A k \in DOMAIN E :
                           E[k].vehicleID = E[m].vehicleID => k \in {m, n}
    BY DEF TwoPhases
  <2>1. /\ f[m] \in DOMAIN t /\ f[n] \in DOMAIN t /\ f[m] # f[n]
        /\ E[m] = t[f[m]] /\ E[n] = t[f[n]]
    BY <1>1, <1>2
  <2>2. /\ t[f[m]].basicVehicleRole = "fire"
        /\ t[f[n]].signalGroup = getSplitPhase(t[f[m]].signalGroup)
        /\ t[f[n]].receivedAge = t[f[m]].receivedAge
        /\ \A k \in DOMAIN t :
             t[k].vehicleID = t[f[m]].vehicleID => k \in {f[m], f[n]}
    BY <2>1 DEF Orderly, TwoPhases
  <2>3. ASSUME NEW k \in DOMAIN E, E[k].vehicleID = E[m].vehicleID
        PROVE  k \in {m, n}
    <3>1. f[k] \in {f[m], f[n]}
      BY <1>1, <1>2, <2>1, <2>2, <2>3
    <3>2. QED
      BY <1>1, <3>1
  <2>4. QED
    BY <2>1, <2>2, <2>3
<1>6. QED
  BY <1>4, <1>5 DEF Orderly, E

\* Nobody is separated from the entries that belong to it by an erasure that is
\* closed.
LEMMA PairedErase ==
  ASSUME NEW t \in Seq(Entry), Paired(t), NEW gone, Closed(t, gone),
         gone \in SUBSET DOMAIN t
  PROVE  Paired(Erase(t, gone))
<1> DEFINE E == Erase(t, gone)
<1>1. PICK f \in [DOMAIN E -> DOMAIN t \ gone] :
        /\ \A n \in DOMAIN E : E[n] = t[f[n]]
        /\ \A m, n \in DOMAIN E : f[m] = f[n] => m = n
        /\ \A i \in DOMAIN t \ gone : \E n \in DOMAIN E : f[n] = i
  BY EraseSelects
<1> HIDE DEF E
<1>2. \A n \in DOMAIN E : f[n] \in DOMAIN t /\ f[n] \notin gone
  BY <1>1
<1>3. \A i \in DOMAIN t : i \in gone \/ \E n \in DOMAIN E : f[n] = i /\ E[n] = t[i]
  BY <1>1
<1>5. Orderly(E)
  BY OrderlyErase DEF Paired, E
<1>6. NoSinglePhase(E)
  <2> SUFFICES ASSUME NEW m \in DOMAIN E, E[m].basicVehicleRole = "fire"
               PROVE  \E n \in DOMAIN E \ {m} : E[n].vehicleID = E[m].vehicleID
    BY DEF NoSinglePhase
  <2>1. f[m] \in DOMAIN t /\ f[m] \notin gone /\ E[m] = t[f[m]]
    BY <1>1, <1>2
  <2>2. PICK j \in DOMAIN t \ {f[m]} : t[j].vehicleID = t[f[m]].vehicleID
    BY <2>1 DEF Paired, NoSinglePhase
  <2>3. j \notin gone
    BY <2>1, <2>2 DEF Closed
  <2>4. PICK n \in DOMAIN E : f[n] = j /\ E[n] = t[j]
    BY <1>3, <2>3
  <2>5. QED
    BY <2>1, <2>2, <2>4
<1>7. NoSingleCoordination(E)
  <2> SUFFICES ASSUME NEW m \in DOMAIN E,
                      E[m].basicVehicleRole = "roadsideSource"
               PROVE  \E n \in DOMAIN E : E[n].vehicleID = Associate(E[m].vehicleID)
    BY DEF NoSingleCoordination
  <2>1. f[m] \in DOMAIN t /\ f[m] \notin gone /\ E[m] = t[f[m]]
    BY <1>1, <1>2
  <2>2. PICK j \in DOMAIN t : t[j].vehicleID = Associate(t[f[m]].vehicleID)
    BY <2>1 DEF Paired, NoSingleCoordination
  <2>3. t[f[m]] \in Entry /\ t[j] \in Entry
    BY <2>1
  <2>4. t[f[m]].vehicleID \in CoordinationID
    BY <2>1, <2>3, RoleOfRequester DEF Paired, Orderly, RolesFit, Entry
  <2>5. /\ t[j].basicVehicleRole = "roadsideSource"
        /\ Associate(t[j].vehicleID) = t[f[m]].vehicleID
    BY <2>2, <2>3, <2>4, AssociateInvolution, RoleOfRequester
       DEF Paired, Orderly, RolesFit, Entry
  <2>6. j \notin gone
    BY <2>1, <2>5 DEF Closed
  <2>7. PICK n \in DOMAIN E : f[n] = j /\ E[n] = t[j]
    BY <1>3, <2>6
  <2>8. QED
    BY <2>1, <2>2, <2>7
<1>8. QED
  BY <1>5, <1>6, <1>7 DEF Paired, E

\* Tables without a common requester can be joined.
LEMMA OrderlyConcat ==
  ASSUME NEW t \in Seq(Entry), NEW e \in Seq(Entry), Orderly(t), Orderly(e),
         \A i \in DOMAIN t, j \in DOMAIN e : t[i].vehicleID # e[j].vehicleID
  PROVE  Orderly(t \o e)
<1> DEFINE new == t \o e
           InT(k) == k \in DOMAIN t /\ new[k] = t[k]
           InE(k) == \E j \in DOMAIN e : k = Len(t) + j /\ new[k] = e[j]
<1>1. /\ Len(t) \in Nat /\ DOMAIN t = 1 .. Len(t)
      /\ Len(e) \in Nat /\ DOMAIN e = 1 .. Len(e)
      /\ DOMAIN new = 1 .. (Len(t) + Len(e))
  OBVIOUS
<1>2. /\ \A k \in DOMAIN t : k \in DOMAIN new /\ new[k] = t[k]
      /\ \A j \in DOMAIN e : Len(t) + j \in DOMAIN new /\ new[Len(t) + j] = e[j]
  BY <1>1
<1>3. ASSUME NEW k \in DOMAIN new
      PROVE  InT(k) \/ InE(k)
  <2>1. CASE k <= Len(t)
    BY <1>1, <1>2, <2>1
  <2>2. CASE k > Len(t)
    <3>1. k - Len(t) \in DOMAIN e /\ k = Len(t) + (k - Len(t))
      BY <1>1, <2>2
    <3>2. QED
      BY <1>2, <3>1
  <2>3. QED
    BY <1>1, <2>1, <2>2
<1>4. \A k \in DOMAIN new : k \in Nat
  BY <1>1
<1> HIDE DEF new
<1>5. RolesFit(new)
  BY <1>3 DEF Orderly, RolesFit
<1>6. TwoPhases(new)
  <2> SUFFICES ASSUME NEW m \in DOMAIN new, NEW n \in DOMAIN new, m # n,
                      new[m].vehicleID = new[n].vehicleID
               PROVE  /\ new[m].basicVehicleRole = "fire"
                      /\ new[n].signalGroup = getSplitPhase(new[m].signalGroup)
                      /\ new[n].receivedAge = new[m].receivedAge
                      /\ \A k \in DOMAIN new :
                           new[k].vehicleID = new[m].vehicleID => k \in {m, n}
    BY DEF TwoPhases
  <2>1. CASE InT(m) /\ InT(n)
    <3>1. /\ t[m].basicVehicleRole = "fire"
          /\ t[n].signalGroup = getSplitPhase(t[m].signalGroup)
          /\ t[n].receivedAge = t[m].receivedAge
          /\ \A k \in DOMAIN t : t[k].vehicleID = t[m].vehicleID => k \in {m, n}
      BY <2>1 DEF Orderly, TwoPhases
    <3>2. ASSUME NEW k \in DOMAIN new, new[k].vehicleID = new[m].vehicleID
          PROVE  k \in {m, n}
      <4>1. ~InE(k)
        BY <2>1, <3>2
      <4>2. QED
        BY <1>3, <2>1, <3>1, <3>2, <4>1
    <3>3. QED
      BY <2>1, <3>1, <3>2
  <2>2. CASE InE(m) /\ InE(n)
    <3>1. PICK p \in DOMAIN e : m = Len(t) + p /\ new[m] = e[p]
      BY <2>2
    <3>2. PICK q \in DOMAIN e : n = Len(t) + q /\ new[n] = e[q]
      BY <2>2
    <3>3. /\ e[p].basicVehicleRole = "fire"
          /\ e[q].signalGroup = getSplitPhase(e[p].signalGroup)
          /\ e[q].receivedAge = e[p].receivedAge
          /\ \A k \in DOMAIN e : e[k].vehicleID = e[p].vehicleID => k \in {p, q}
      BY <3>1, <3>2 DEF Orderly, TwoPhases
    <3>4. ASSUME NEW k \in DOMAIN new, new[k].vehicleID = new[m].vehicleID
          PROVE  k \in {m, n}
      <4>1. ~InT(k)
        BY <3>1, <3>4
      <4>2. PICK r \in DOMAIN e : k = Len(t) + r /\ new[k] = e[r]
        BY <1>3, <4>1
      <4>3. r \in {p, q}
        BY <3>1, <3>3, <3>4, <4>2
      <4>4. QED
        BY <3>1, <3>2, <4>2, <4>3
    <3>5. QED
      BY <3>1, <3>2, <3>3, <3>4
  <2>3. CASE (InT(m) /\ InE(n)) \/ (InE(m) /\ InT(n))
    BY <2>3
  <2>4. QED
    BY <1>3, <2>1, <2>2, <2>3
<1>7. QED
  BY <1>5, <1>6 DEF Orderly, new

LEMMA PairedConcat ==
  ASSUME NEW t \in Seq(Entry), NEW e \in Seq(Entry), Paired(t), Paired(e),
         \A i \in DOMAIN t, j \in DOMAIN e : t[i].vehicleID # e[j].vehicleID
  PROVE  Paired(t \o e)
<1> DEFINE new == t \o e
           InT(k) == k \in DOMAIN t /\ new[k] = t[k]
           InE(k) == \E j \in DOMAIN e : k = Len(t) + j /\ new[k] = e[j]
<1>1. /\ Len(t) \in Nat /\ DOMAIN t = 1 .. Len(t)
      /\ Len(e) \in Nat /\ DOMAIN e = 1 .. Len(e)
      /\ DOMAIN new = 1 .. (Len(t) + Len(e))
  OBVIOUS
<1>2. /\ \A k \in DOMAIN t : k \in DOMAIN new /\ new[k] = t[k]
      /\ \A j \in DOMAIN e : Len(t) + j \in DOMAIN new /\ new[Len(t) + j] = e[j]
  BY <1>1
<1>3. ASSUME NEW k \in DOMAIN new
      PROVE  InT(k) \/ InE(k)
  <2>1. CASE k <= Len(t)
    BY <1>1, <1>2, <2>1
  <2>2. CASE k > Len(t)
    <3>1. k - Len(t) \in DOMAIN e /\ k = Len(t) + (k - Len(t))
      BY <1>1, <2>2
    <3>2. QED
      BY <1>2, <3>1
  <2>3. QED
    BY <1>1, <2>1, <2>2
<1> HIDE DEF new
<1>6. Orderly(new)
  BY OrderlyConcat DEF Paired, new
<1>7. NoSinglePhase(new)
  <2> SUFFICES ASSUME NEW m \in DOMAIN new, new[m].basicVehicleRole = "fire"
               PROVE  \E n \in DOMAIN new \ {m} : new[n].vehicleID = new[m].vehicleID
    BY DEF NoSinglePhase
  <2>1. CASE InT(m)
    <3>1. PICK n \in DOMAIN t \ {m} : t[n].vehicleID = t[m].vehicleID
      BY <2>1 DEF Paired, NoSinglePhase
    <3>2. QED
      BY <1>2, <2>1, <3>1
  <2>2. CASE InE(m)
    <3>1. PICK p \in DOMAIN e : m = Len(t) + p /\ new[m] = e[p]
      BY <2>2
    <3>2. PICK q \in DOMAIN e \ {p} : e[q].vehicleID = e[p].vehicleID
      BY <3>1 DEF Paired, NoSinglePhase
    <3>3. Len(t) + q # m
      BY <1>1, <3>1, <3>2
    <3>4. QED
      BY <1>2, <3>1, <3>2, <3>3
  <2>3. QED
    BY <1>3, <2>1, <2>2
<1>8. NoSingleCoordination(new)
  <2> SUFFICES ASSUME NEW m \in DOMAIN new,
                      new[m].basicVehicleRole = "roadsideSource"
               PROVE  \E n \in DOMAIN new :
                        new[n].vehicleID = Associate(new[m].vehicleID)
    BY DEF NoSingleCoordination
  <2>1. CASE InT(m)
    <3>1. PICK n \in DOMAIN t : t[n].vehicleID = Associate(t[m].vehicleID)
      BY <2>1 DEF Paired, NoSingleCoordination
    <3>2. QED
      BY <1>2, <2>1, <3>1
  <2>2. CASE InE(m)
    <3>1. PICK p \in DOMAIN e : m = Len(t) + p /\ new[m] = e[p]
      BY <2>2
    <3>2. PICK q \in DOMAIN e : e[q].vehicleID = Associate(e[p].vehicleID)
      BY <3>1 DEF Paired, NoSingleCoordination
    <3>3. QED
      BY <1>2, <3>1, <3>2
  <2>3. QED
    BY <1>3, <2>1, <2>2
<1>9. QED
  BY <1>6, <1>7, <1>8 DEF Paired, new

\* What an SRM pushes is one vehicle's entries, an emergency vehicle's both.
LEMMA PairedEntriesFor ==
  ASSUME NEW sr \in SignalRequest
  PROVE  /\ Paired(EntriesFor(sr))
         /\ EntriesFor(sr) # <<>>
         /\ \A i \in DOMAIN EntriesFor(sr) :
              EntriesFor(sr)[i].vehicleID = sr.vehicleID
<1> DEFINE e == EntriesFor(sr)
           first == NewEntry(sr.vehicleID, RoleOf[sr.vehicleID], sr.signalGroup)
           split == NewEntry(sr.vehicleID, RoleOf[sr.vehicleID],
                             getSplitPhase(sr.signalGroup))
<1>1. /\ sr.vehicleID \in Vehicle /\ sr.signalGroup \in SignalGroup
      /\ RoleOf[sr.vehicleID] \in Role
  BY VehicleAssumption DEF SignalRequest
<1>2. /\ getSplitPhase(getSplitPhase(sr.signalGroup)) = sr.signalGroup
      /\ RoleOfID(sr.vehicleID) = RoleOf[sr.vehicleID]
      /\ RoleOf[sr.vehicleID] # "roadsideSource"
  BY <1>1, SplitPhaseInvolution DEF RoleOfID, Role
<1>3. \A x \in {first, split} :
        /\ x.vehicleID = sr.vehicleID
        /\ x.basicVehicleRole = RoleOf[sr.vehicleID]
        /\ x.receivedAge = 0
  BY DEF NewEntry
<1>4. /\ first.signalGroup = sr.signalGroup
      /\ split.signalGroup = getSplitPhase(sr.signalGroup)
  BY DEF NewEntry
<1> HIDE DEF first, split
<1>5. CASE RoleOf[sr.vehicleID] = "fire"
  <2>1. e = <<first, split>>
    BY <1>5 DEF EntriesFor, first, split
  <2> HIDE DEF e
  <2>2. DOMAIN e = {1, 2} /\ e[1] = first /\ e[2] = split
    BY <2>1
  <2>3. RolesFit(e) /\ NoSingleCoordination(e)
    BY <1>2, <1>3, <2>2 DEF RolesFit, NoSingleCoordination
  <2>4. TwoPhases(e)
    BY <1>2, <1>3, <1>4, <1>5, <2>2 DEF TwoPhases
  <2>5. NoSinglePhase(e)
    BY <1>3, <2>2 DEF NoSinglePhase
  <2>6. QED
    BY <1>3, <2>1, <2>2, <2>3, <2>4, <2>5 DEF Paired, Orderly, e
<1>6. CASE RoleOf[sr.vehicleID] # "fire"
  <2>1. e = <<first>>
    BY <1>6 DEF EntriesFor, first
  <2> HIDE DEF e
  <2>2. DOMAIN e = {1} /\ e[1] = first
    BY <2>1
  <2>3. RolesFit(e) /\ NoSingleCoordination(e)
    BY <1>2, <1>3, <2>2 DEF RolesFit, NoSingleCoordination
  <2>4. TwoPhases(e) /\ NoSinglePhase(e)
    BY <1>3, <1>6, <2>2 DEF TwoPhases, NoSinglePhase
  <2>5. QED
    BY <1>3, <2>1, <2>2, <2>3, <2>4 DEF Paired, Orderly, e
<1>7. QED
  BY <1>5, <1>6

\* What a coordination list puts into the table is orderly.
LEMMA OrderlyCoordinationEntries ==
  ASSUME CoordinationOnce, NEW list \in CoordinationList
  PROVE  /\ Orderly(CoordinationEntries(list))
         /\ DOMAIN CoordinationEntries(list) = DOMAIN list
         /\ \A i \in DOMAIN list :
              CoordinationEntries(list)[i].vehicleID \in CoordinationID
<1> DEFINE e == CoordinationEntries(list)
           C == [vehicleID : CoordinationID, requestedPhase : SignalGroup]
<1>1. /\ DOMAIN e = DOMAIN list
      /\ \A i \in DOMAIN list : /\ e[i].vehicleID = list[i].vehicleID
                                /\ e[i].basicVehicleRole = "roadsideSource"
  BY DEF CoordinationEntries, NewEntry
<1>2. \A i \in DOMAIN list : list[i].vehicleID \in CoordinationID
  <2>1. list \in Seq(C)
    BY CoordinationAssumption
  <2>2. \A i \in DOMAIN list : list[i] \in C
    <3> HIDE DEF C
    <3>1. QED
      BY <2>1
  <2>3. QED
    BY <2>2
<1>3. \A m, n \in DOMAIN list : list[m].vehicleID = list[n].vehicleID => m = n
  BY DEF CoordinationOnce
<1> HIDE DEF e
<1>4. RolesFit(e)
  BY <1>1, <1>2, RoleOfRequester DEF RolesFit
<1>5. TwoPhases(e)
  BY <1>1, <1>3 DEF TwoPhases
<1>6. QED
  BY <1>1, <1>2, <1>4, <1>5 DEF Orderly, e

\* Of lists that come in pairs it is pairs again.
LEMMA PairedCoordinationEntries ==
  ASSUME CoordinationInPairs, NEW list \in CoordinationList
  PROVE  Paired(CoordinationEntries(list))
<1> DEFINE e == CoordinationEntries(list)
<1>1. /\ DOMAIN e = DOMAIN list
      /\ \A i \in DOMAIN list : /\ e[i].vehicleID = list[i].vehicleID
                                /\ e[i].basicVehicleRole = "roadsideSource"
  BY DEF CoordinationEntries, NewEntry
<1>2. Orderly(e)
  BY OrderlyCoordinationEntries DEF CoordinationInPairs
<1>3. \A m \in DOMAIN list : \E n \in DOMAIN list :
        list[n].vehicleID = Associate(list[m].vehicleID)
  BY DEF CoordinationInPairs
<1> HIDE DEF e
<1>4. NoSinglePhase(e) /\ NoSingleCoordination(e)
  BY <1>1, <1>3 DEF NoSinglePhase, NoSingleCoordination
<1>5. QED
  BY <1>2, <1>4 DEF Paired, e

\* The same requests, with whatever statuses and time stamps.  The time since
\* reception may have changed, but for both phases alike.
Rewritten(t, u) ==
  /\ DOMAIN t = DOMAIN u
  /\ \A i \in DOMAIN u : /\ t[i].vehicleID = u[i].vehicleID
                         /\ t[i].basicVehicleRole = u[i].basicVehicleRole
                         /\ t[i].signalGroup = u[i].signalGroup
  /\ \A i, j \in DOMAIN u :
       u[i].receivedAge = u[j].receivedAge => t[i].receivedAge = t[j].receivedAge

LEMMA OrderlyRewritten ==
  ASSUME NEW t, NEW u, Rewritten(t, u), Orderly(u)
  PROVE  Orderly(t)
<1>1. RolesFit(t)
  BY DEF Orderly, Rewritten, RolesFit
<1>2. TwoPhases(t)
  BY DEF Orderly, Rewritten, TwoPhases
<1>3. QED
  BY <1>1, <1>2 DEF Orderly

LEMMA PairedRewritten ==
  ASSUME NEW t, NEW u, Rewritten(t, u), Paired(u)
  PROVE  Paired(t)
<1>1. Orderly(t)
  BY OrderlyRewritten DEF Paired
<1>2. NoSingleCoordination(t) /\ NoSinglePhase(t)
  BY DEF Paired, Rewritten, NoSingleCoordination, NoSinglePhase
<1>3. QED
  BY <1>1, <1>2 DEF Paired

LEMMA RewrittenTransitive ==
  ASSUME NEW t, NEW u, NEW v, Rewritten(t, u), Rewritten(u, v)
  PROVE  Rewritten(t, v)
BY DEF Rewritten

\* Assigning statuses, stamping the forwarding time and waiting rewrite a table.
LEMMA StatusRewrites ==
  ASSUME NEW t \in Seq(Entry)
  PROVE  Rewritten(setPriorityRequestStatus(t), t)
<1> DEFINE new == setPriorityRequestStatus(t)
<1>1. \A i \in DOMAIN t : t[i] \in Entry
  OBVIOUS
<1>2. \A i \in DOMAIN t : new[i].receivedAge = t[i].receivedAge
  BY <1>1 DEF setPriorityRequestStatus, Entry
<1>3. QED
  BY <1>2, SetStatusType DEF Rewritten

LEMMA ForwardRewrites ==
  ASSUME NEW t \in Seq(Entry)
  PROVE  Rewritten(Forwarded(t), t)
<1>1. \A i \in DOMAIN t : t[i] \in Entry
  OBVIOUS
<1>2. \A i \in DOMAIN t : Forwarded(t)[i].receivedAge = t[i].receivedAge
  BY <1>1 DEF Forwarded, Entry
<1>3. QED
  BY <1>2, ForwardedType DEF Rewritten

LEMMA WaitRewrites ==
  ASSUME NEW t \in Seq(Entry)
  PROVE  Rewritten([i \in DOMAIN t |-> Aged(t[i])], t)
<1> DEFINE new == [i \in DOMAIN t |-> Aged(t[i])]
<1>1. \A i \in DOMAIN t : t[i] \in Entry
  OBVIOUS
<1>2. \A i \in DOMAIN t :
        new[i].receivedAge = Capped(t[i].receivedAge, requestTimedOutValue)
  BY <1>1 DEF Aged, Entry
<1>3. /\ DOMAIN new = DOMAIN t
      /\ \A i \in DOMAIN t :
           /\ new[i].vehicleID = t[i].vehicleID
           /\ new[i].basicVehicleRole = t[i].basicVehicleRole
           /\ new[i].signalGroup = t[i].signalGroup
  BY AgedType
<1> HIDE DEF new
<1>4. Rewritten(new, t)
  BY <1>2, <1>3 DEF Rewritten
<1>5. QED
  BY <1>4 DEF new

-----------------------------------------------------------------------------
(* Who is found, and who leaves with whom *)

\* The entries of some requesters.
Those(t, ids) == {i \in DOMAIN t : t[i].vehicleID \in ids}

\* A vehicle's entries, or those of both requesters of a coordination pair, or
\* all of coordination's, leave no partner behind.
LEMMA ThoseClosed ==
  ASSUME NEW t \in Seq(Entry), RolesFit(t), NEW ids,
         \A c \in ids \cap CoordinationID : Associate(c) \in ids
  PROVE  Closed(t, Those(t, ids)) /\ Those(t, ids) \in SUBSET DOMAIN t
<1>1. ASSUME NEW i \in Those(t, ids), t[i].basicVehicleRole = "roadsideSource"
      PROVE  Associate(t[i].vehicleID) \in ids
  <2>1. i \in DOMAIN t /\ t[i].vehicleID \in ids /\ t[i] \in Entry
    BY DEF Those
  <2>2. t[i].vehicleID \in CoordinationID
    BY <1>1, <2>1, RoleOfRequester DEF RolesFit, Entry
  <2>3. QED
    BY <2>1, <2>2
<1>2. QED
  BY <1>1 DEF Closed, Those

\* What is left after some requesters have gone: the entries of all others.
LEMMA ThoseErased ==
  ASSUME NEW t \in Seq(Entry), NEW ids
  PROVE  LET new == Erase(t, Those(t, ids))
         IN  /\ new \in Seq(Entry)
             /\ \A n \in DOMAIN new : new[n].vehicleID \notin ids
             /\ \A n \in DOMAIN new : \E i \in DOMAIN t : new[n] = t[i]
             /\ \A i \in DOMAIN t : t[i].vehicleID \notin ids =>
                  \E n \in DOMAIN new : new[n] = t[i]
<1> DEFINE gone == Those(t, ids)
           new == Erase(t, gone)
<1>1. new \in Seq(Entry)
  BY EraseType
<1>2. PICK f \in [DOMAIN new -> DOMAIN t \ gone] :
        /\ \A n \in DOMAIN new : new[n] = t[f[n]]
        /\ \A m, n \in DOMAIN new : f[m] = f[n] => m = n
        /\ \A i \in DOMAIN t \ gone : \E n \in DOMAIN new : f[n] = i
  BY EraseSelects
<1>3. \A i \in DOMAIN t : i \in gone <=> t[i].vehicleID \in ids
  BY DEF Those
<1> HIDE DEF new, gone
<1>4. \A n \in DOMAIN new : f[n] \in DOMAIN t /\ t[f[n]].vehicleID \notin ids
  BY <1>2, <1>3
<1>5. \A i \in DOMAIN t : t[i].vehicleID \notin ids =>
        \E n \in DOMAIN new : new[n] = t[i]
  BY <1>2, <1>3
<1>6. QED
  BY <1>1, <1>2, <1>4, <1>5 DEF new, gone

\* An emergency vehicle is found with one entry or two and anybody else with one,
\* the first of which find_if returns.
LEMMA FoundPositions ==
  ASSUME NEW t \in Seq(Entry), Orderly(t), NEW id, PositionsOf(t, id) # {}
  PROVE  LET found == PositionsOf(t, id)
             first == Nth(found, 1)
         IN  /\ first \in found
             /\ id \in Vehicle \cup CoordinationID
             /\ \A i \in found : t[i].basicVehicleRole = RoleOfID(id)
             /\ \/ found = {first}
                \/ /\ RoleOfID(id) = "fire"
                   /\ \E j \in DOMAIN t : j # first /\ found = {first, j}
<1> DEFINE found == PositionsOf(t, id)
           first == Nth(found, 1)
<1>1. found \in SUBSET (1 .. Len(t)) /\ Len(t) \in Nat
  BY DEF PositionsOf
<1>2. first \in found
  BY <1>1, NthFirst
<1>3. \A i \in found : i \in DOMAIN t /\ t[i].vehicleID = id
  BY DEF PositionsOf
<1>4. \A i \in DOMAIN t : t[i].vehicleID = id => i \in found
  BY DEF PositionsOf
<1>5. id \in Vehicle \cup CoordinationID
  <2>1. t[first] \in Entry
    BY <1>2, <1>3
  <2>2. QED
    BY <1>2, <1>3, <2>1 DEF Entry
<1>6. \A i \in found : t[i].basicVehicleRole = RoleOfID(id)
  BY <1>3 DEF Orderly, RolesFit
<1> HIDE DEF found, first
<1>7. ASSUME NEW j \in found, j # first
      PROVE  /\ RoleOfID(id) = "fire"
             /\ j \in DOMAIN t /\ found = {first, j}
  <2>1. /\ RoleOfID(id) = "fire"
        /\ \A k \in found : k \in {first, j}
    BY <1>2, <1>3, <1>6, <1>7 DEF Orderly, TwoPhases
  <2>2. QED
    BY <1>2, <1>3, <1>7, <2>1
<1>8. \/ found = {first}
      \/ /\ RoleOfID(id) = "fire"
         /\ \E j \in DOMAIN t : j # first /\ found = {first, j}
  BY <1>2, <1>7
<1>9. QED
  BY <1>2, <1>5, <1>6, <1>8 DEF found, first

\* The second of two erasures finds the one entry there is to find.
LEMMA EraseTwiceOfPair ==
  ASSUME NEW t \in Seq(Entry), NEW i, NEW j \in DOMAIN t
  PROVE  EraseTwice(t, i, {j}) = {Erase(t, {i, j})}
<1>1. {j} \in SUBSET (1 .. Len(t)) /\ Len(t) \in Nat
  OBVIOUS
<1>2. Nth({j}, 1) = j
  BY <1>1, NthFirst
<1>3. QED
  BY <1>2 DEF EraseTwice

\* Where there is none to find, it takes the last of the others.
LEMMA EraseTwiceOfOne ==
  ASSUME NEW t \in Seq(Entry), NEW i \in DOMAIN t, EraseTwice(t, i, {}) # {}
  PROVE  \E l \in DOMAIN t \ {i} :
           LastBut(t, i, l) /\ EraseTwice(t, i, {}) = {Erase(t, {i, l})}
<1>1. /\ Erase(t, {i}) # <<>>
      /\ EraseTwice(t, i, {}) = {DropLast(Erase(t, {i}))}
  BY DEF EraseTwice
<1>2. PICK l \in DOMAIN t \ {i} :
        LastBut(t, i, l) /\ DropLast(Erase(t, {i})) = Erase(t, {i, l})
  BY <1>1, DropLastErased
<1>3. QED
  BY <1>1, <1>2

-----------------------------------------------------------------------------
(* What an iteration makes of the table its handler leaves *)

SameStatus(t, u) == \A i \in DOMAIN u : t[i].prsStatus = u[i].prsStatus

\* What the solver is told of table t.
Told(t, clearForEV) ==
  IF clearForEV \/ t = <<>>
    THEN solver' = ClearRequest
    ELSE solver'.MsgType = "PriorityRequest" /\ Listed(solver', t)

LEMMA EmptyTable ==
  ASSUME NEW S, NEW T, NEW t \in Seq(S), NEW u \in Seq(T), DOMAIN t = DOMAIN u
  PROVE  /\ t = <<>> <=> u = <<>>
         /\ t = <<>> <=> DOMAIN t = {}
<1>1. /\ Len(t) \in Nat /\ DOMAIN t = 1 .. Len(t)
      /\ Len(u) \in Nat /\ DOMAIN u = 1 .. Len(u)
  OBVIOUS
<1>2. (t = <<>> <=> Len(t) = 0) /\ (u = <<>> <=> Len(u) = 0)
  BY EmptySeq
<1>3. \A n \in Nat : 1 .. n = {} <=> n = 0
  <2>1. \A n \in Nat : n # 0 => 1 \in 1 .. n
    OBVIOUS
  <2>2. 1 .. 0 = {}
    OBVIOUS
  <2>3. QED
    BY <2>1, <2>2
<1>4. (DOMAIN t = {} <=> Len(t) = 0) /\ (DOMAIN u = {} <=> Len(u) = 0)
  BY <1>1, <1>3
<1>5. QED
  BY <1>2, <1>4

LEMMA ToldRewritten ==
  ASSUME NEW t \in Seq(Entry), NEW u \in Seq(Entry), Rewritten(t, u), NEW c,
         Told(t, c)
  PROVE  Told(u, c)
<1>1. t = <<>> <=> u = <<>>
  BY EmptyTable DEF Rewritten
<1>2. Listed(solver', t) => Listed(solver', u)
  BY DEF Listed, Rewritten
<1>3. QED
  BY <1>1, <1>2 DEF Told

LEMMA SolverTold ==
  ASSUME NEW t \in Seq(Entry), NEW c \in BOOLEAN,
         createJsonStringForPrioritySolver(t, c)
  PROVE  /\ ART' \in Seq(Entry) /\ Rewritten(ART', t) /\ SameStatus(ART', t)
         /\ Told(t, c)
<1>1. CASE c \/ t = <<>>
  <2>1. ART' = t /\ solver' = ClearRequest
    BY <1>1 DEF createJsonStringForPrioritySolver
  <2>2. QED
    BY <1>1, <2>1 DEF Rewritten, SameStatus, Told
<1>2. CASE ~(c \/ t = <<>>)
  <2>1. ART' = Forwarded(t) /\ solver' = PriorityRequestList(t)
    BY <1>2 DEF createJsonStringForPrioritySolver
  <2>2. PriorityRequestList(t).MsgType = "PriorityRequest"
    BY DEF PriorityRequestList
  <2>3. Told(t, c)
    BY <1>2, <2>1, <2>2, RequestListType DEF Told
  <2>4. SameStatus(Forwarded(t), t)
    BY ForwardedType DEF SameStatus
  <2>5. QED
    BY <2>1, <2>3, <2>4, ForwardedType, ForwardRewrites
<1>3. QED
  BY <1>1, <1>2

LEMMA DatagramAnswered ==
  ASSUME NEW t \in Seq(Entry), NEW needSSM, NEW needList \in BOOLEAN,
         NEW c \in BOOLEAN, AnswerDatagram(t, needSSM, needList, c)
  PROVE  /\ ART' \in Seq(Entry) /\ Rewritten(ART', t) /\ SameStatus(ART', t)
         /\ needList => Told(t, c)
         /\ ~needList => solver' = solver /\ sentClearRequest' = sentClearRequest
<1>1. CASE needList
  BY <1>1, SolverTold DEF AnswerDatagram
<1>2. CASE ~needList
  BY <1>2 DEF AnswerDatagram, Rewritten, SameStatus
<1>3. QED
  BY <1>1, <1>2

\* The tail of every accepted SRM.
LEMMA SRMFinished ==
  ASSUME NEW t \in Seq(Entry), NEW needList \in BOOLEAN, NEW c \in BOOLEAN,
         FinishSRM(t, needList, c)
  PROVE  /\ ART' \in Seq(Entry) /\ Rewritten(ART', t) /\ Assigned(ART')
         /\ needList => Told(t, c)
         /\ ~needList => solver' = solver /\ sentClearRequest' = sentClearRequest
<1> DEFINE new == setPriorityRequestStatus(t)
<1>1. /\ new \in Seq(Entry) /\ DOMAIN new = DOMAIN t
      /\ \A i \in DOMAIN t :
           /\ new[i].basicVehicleRole = t[i].basicVehicleRole
           /\ new[i].prsStatus = StatusFor(t[i].basicVehicleRole, findEVInList(t))
  BY SetStatusType
<1>2. Rewritten(new, t)
  BY StatusRewrites
<1>3. AnswerDatagram(new, TRUE, needList, c)
  BY DEF FinishSRM
<1> HIDE DEF new
<1>4. Assigned(new)
  BY <1>1, RetouchedEV DEF Assigned
<1>5. /\ ART' \in Seq(Entry) /\ Rewritten(ART', new) /\ SameStatus(ART', new)
      /\ needList => Told(new, c)
      /\ ~needList => solver' = solver /\ sentClearRequest' = sentClearRequest
  BY <1>1, <1>3, DatagramAnswered
<1>6. Assigned(ART')
  BY <1>4, <1>5, RetouchedEV DEF Assigned, Rewritten, SameStatus
<1>7. QED
  BY <1>1, <1>2, <1>5, <1>6, ToldRewritten, RewrittenTransitive

(***************************************************************************)
(* What every kind of step does to the table.  "ids" are the requesters    *)
(* whose entries leave it.                                                 *)
(***************************************************************************)
Rest(ids) == Erase(ART, Those(ART, ids))

Added(sr) ==
  LET t == ART \o EntriesFor(sr)
  IN  /\ PositionsOf(ART, sr.vehicleID) = {}
      /\ Len(ART) < Maximum_Number_Of_Priority_Request
      /\ t \in Seq(Entry) /\ Rewritten(ART', t) /\ Assigned(ART') /\ Told(t, FALSE)

\* The entry i of a vehicle that is no emergency vehicle asks for something else.
Moved(t, i) ==
  /\ t \in Seq(Entry) /\ DOMAIN t = DOMAIN ART
  /\ i \in DOMAIN ART /\ ART[i].basicVehicleRole \notin {"fire", "roadsideSource"}
  /\ t[i].vehicleID = ART[i].vehicleID
  /\ t[i].basicVehicleRole = ART[i].basicVehicleRole
  /\ \A k \in DOMAIN ART \ {i} : t[k] = ART[k]

Updated(sr) ==
  \E t, i : /\ Moved(t, i) /\ ART[i].vehicleID = sr.vehicleID
            /\ Rewritten(ART', t) /\ Assigned(ART') /\ Told(t, FALSE)

Renewed(sr) ==
  LET t == Rest({sr.vehicleID}) \o EntriesFor(sr)
  IN  /\ RoleOf[sr.vehicleID] = "fire"
      /\ \E i, j \in DOMAIN ART : i # j /\ Those(ART, {sr.vehicleID}) = {i, j}
      /\ t \in Seq(Entry) /\ Rewritten(ART', t) /\ Assigned(ART') /\ Told(t, FALSE)

\* The vehicle had but entry k left, and entry l goes in place of the other.
RenewedInstead(sr, k, l) ==
  LET t == Erase(ART, {k, l}) \o EntriesFor(sr)
  IN  /\ RoleOf[sr.vehicleID] = "fire"
      /\ ART[k].vehicleID = sr.vehicleID
      /\ TakenInstead(l, k)
      /\ t \in Seq(Entry) /\ Rewritten(ART', t) /\ Assigned(ART') /\ Told(t, FALSE)

Cancelled(sr) ==
  LET t == Rest({sr.vehicleID})
  IN  /\ PositionsOf(ART, sr.vehicleID) # {}
      /\ Rewritten(ART', t) /\ Assigned(ART')
      /\ Told(t, RoleOf[sr.vehicleID] = "fire" /\ ClearForEV(t))

\* Who leaves the table together with a requester.
Company(id) == IF id \in CoordinationID THEN {id, Associate(id)} ELSE {id}

Expired(i) ==
  LET id == ART[i].vehicleID
      t  == Rest(Company(id))
  IN  /\ i \in TimedOut
      /\ HasPartner(ART[i]) => PartnersOf(i) # {}
      /\ Rewritten(ART', t) /\ SameStatus(ART', t)
      /\ Told(t, ART[i].basicVehicleRole = "fire" /\ ClearForEV(t))

ExpiredInstead(k, l) ==
  LET t == Erase(ART, {k, l})
  IN  /\ k \in TimedOut
      /\ TakenInstead(l, k)
      /\ Rewritten(ART', t) /\ SameStatus(ART', t)
      /\ Told(t, ART[k].basicVehicleRole = "fire" /\ ClearForEV(t))

Coordinated(list) ==
  LET t == Rest(CoordinationID) \o CoordinationEntries(list)
  IN  /\ list # <<>>
      /\ t \in Seq(Entry) /\ Rewritten(ART', t) /\ Assigned(ART') /\ Told(t, FALSE)

Withdrawn ==
  /\ ART' = Rest(CoordinationID)
  /\ UNCHANGED <<sentClearRequest, solver>>

Kept ==
  /\ Rewritten(ART', ART)
  /\ SameStatus(ART', ART) \/ Assigned(ART')
  /\ UNCHANGED <<sentClearRequest, solver>>

-----------------------------------------------------------------------------
(* One lemma per action *)

LEMMA AddRequestTable ==
  ASSUME TypeOK, NEW sr \in SignalRequest, AddRequest(sr)
  PROVE  Added(sr)
<1> DEFINE t == ART \o EntriesFor(sr)
<1>1. t \in Seq(Entry)
  BY EntriesForType, ConcatProperties DEF TypeOK
<1>2. FinishSRM(t, TRUE, FALSE) /\ addToActiveRequestTable(sr)
  BY DEF AddRequest
<1> HIDE DEF t
<1>3. Rewritten(ART', t) /\ Assigned(ART') /\ Told(t, FALSE)
  BY <1>1, <1>2, SRMFinished
<1>4. QED
  BY <1>1, <1>2, <1>3 DEF Added, addToActiveRequestTable, t

LEMMA UpdateRequestTable ==
  ASSUME TypeOK, Orderly(ART), NEW sr \in SignalRequest, UpdateRequest(sr)
  PROVE  Updated(sr)
<1> DEFINE found == PositionsOf(ART, sr.vehicleID)
           i == Nth(found, 1)
           t == [ART EXCEPT ![i].basicVehicleRole = RoleOf[sr.vehicleID],
                            ![i].signalGroup = sr.signalGroup,
                            ![i].receivedAge = 0]
           e == [ART[i] EXCEPT !.basicVehicleRole = RoleOf[sr.vehicleID],
                               !.signalGroup = sr.signalGroup,
                               !.receivedAge = 0]
<1>1. FinishSRM(t, TRUE, FALSE) /\ RoleOf[sr.vehicleID] # "fire" /\ found # {}
  BY DEF UpdateRequest, updateActiveRequestTable
<1>2. /\ sr.vehicleID \in Vehicle /\ sr.signalGroup \in SignalGroup
      /\ RoleOf[sr.vehicleID] \in Role /\ 0 \in 0 .. requestTimedOutValue
  <2>1. sr.vehicleID \in Vehicle /\ sr.signalGroup \in Phase
    BY DEF SignalRequest
  <2>2. RoleOf[sr.vehicleID] \in Role /\ sr.signalGroup \in SignalGroup
    BY <2>1, VehicleAssumption
  <2>3. 0 \in 0 .. requestTimedOutValue
    BY TimingAssumption
  <2>4. QED
    BY <2>1, <2>2, <2>3
<1>3. /\ i \in found
      /\ ART[i].basicVehicleRole = RoleOf[sr.vehicleID]
  BY <1>1, <1>2, FoundPositions DEF TypeOK, RoleOfID
<1>4. /\ ART \in Seq(Entry) /\ i \in DOMAIN ART /\ ART[i] \in Entry
      /\ ART[i].vehicleID = sr.vehicleID
  BY <1>3 DEF TypeOK, PositionsOf
<1> HIDE DEF found, i
<1>5. /\ e \in Entry /\ e.vehicleID = ART[i].vehicleID
      /\ e.basicVehicleRole = ART[i].basicVehicleRole
  BY <1>2, <1>3, <1>4 DEF Entry
<1>6. t = [ART EXCEPT ![i] = e]
  BY <1>4
<1> HIDE DEF e, t
<1>7. /\ t \in Seq(Entry) /\ DOMAIN t = DOMAIN ART /\ t[i] = e
      /\ \A k \in DOMAIN ART \ {i} : t[k] = ART[k]
  BY <1>4, <1>5, <1>6
<1>8. Moved(t, i)
  BY <1>1, <1>2, <1>3, <1>4, <1>5, <1>7 DEF Moved, Role
<1>9. Rewritten(ART', t) /\ Assigned(ART') /\ Told(t, FALSE)
  BY <1>1, <1>7, SRMFinished
<1>10. QED
  BY <1>4, <1>8, <1>9 DEF Updated

\* The second erasure finds the split phase; where an earlier eviction has left
\* none, it takes the last of the others, or the process dies.
LEMMA UpdateEmergencyRequestTable ==
  ASSUME TypeOK, Orderly(ART), NEW sr \in SignalRequest, UpdateEmergencyRequest(sr)
  PROVE  \/ Renewed(sr)
         \/ \E k, l \in DOMAIN ART : RenewedInstead(sr, k, l)
         \/ Restart
<1> DEFINE found == PositionsOf(ART, sr.vehicleID)
           first == Nth(found, 1)
<1>1. found # {} /\ RoleOf[sr.vehicleID] = "fire"
  BY DEF UpdateEmergencyRequest, updateActiveRequestTable
<1>2. /\ first \in found /\ ART[first].basicVehicleRole = "fire"
      /\ found = {first} \/ \E j \in DOMAIN ART : j # first /\ found = {first, j}
  <2>1. RoleOfID(sr.vehicleID) = "fire"
    BY <1>1 DEF SignalRequest, RoleOfID
  <2>2. QED
    BY <1>1, <2>1, FoundPositions DEF TypeOK
<1>3. /\ ART \in Seq(Entry) /\ Those(ART, {sr.vehicleID}) = found
      /\ first \in DOMAIN ART /\ ART[first].vehicleID = sr.vehicleID
  BY <1>2 DEF TypeOK, Those, PositionsOf
<1>4. \/ \E table \in EraseTwice(ART, first, found \ {first}) :
            FinishSRM(table \o EntriesFor(sr), TRUE, FALSE)
      \/ Restart
  BY DEF UpdateEmergencyRequest
<1>5. PartnersOf(first) = found \ {first}
  BY <1>2, <1>3 DEF PartnersOf
<1> HIDE DEF found, first
<1>6. ASSUME NEW table \in Seq(Entry), FinishSRM(table \o EntriesFor(sr), TRUE, FALSE)
      PROVE  LET t == table \o EntriesFor(sr)
             IN  /\ t \in Seq(Entry)
                 /\ Rewritten(ART', t) /\ Assigned(ART') /\ Told(t, FALSE)
  <2> DEFINE t == table \o EntriesFor(sr)
  <2>1. t \in Seq(Entry)
    BY EntriesForType, ConcatProperties
  <2>2. FinishSRM(t, TRUE, FALSE)
    BY <1>6
  <2> HIDE DEF t
  <2>3. Rewritten(ART', t) /\ Assigned(ART') /\ Told(t, FALSE)
    BY <2>1, <2>2, SRMFinished
  <2>4. QED
    BY <2>1, <2>3 DEF t
<1>7. ASSUME NEW j \in DOMAIN ART, j # first, found = {first, j}
      PROVE  Renewed(sr) \/ Restart
  <2>1. Rest({sr.vehicleID}) = Erase(ART, {first, j})
    BY <1>3, <1>7 DEF Rest
  <2>2. EraseTwice(ART, first, found \ {first}) = {Rest({sr.vehicleID})}
    <3>1. found \ {first} = {j}
      BY <1>7
    <3>2. QED
      BY <1>3, <2>1, <3>1, EraseTwiceOfPair
  <2>3. Rest({sr.vehicleID}) \in Seq(Entry)
    BY <1>3, EraseType DEF Rest
  <2>4. \E k, l \in DOMAIN ART : k # l /\ Those(ART, {sr.vehicleID}) = {k, l}
    BY <1>3, <1>7
  <2>5. QED
    BY <1>1, <1>4, <1>6, <2>2, <2>3, <2>4 DEF Renewed
<1>8. ASSUME found = {first}
      PROVE  (\E l \in DOMAIN ART : RenewedInstead(sr, first, l)) \/ Restart
  <2> SUFFICES ASSUME NEW table \in EraseTwice(ART, first, {}),
                      FinishSRM(table \o EntriesFor(sr), TRUE, FALSE)
               PROVE  \E l \in DOMAIN ART : RenewedInstead(sr, first, l)
    BY <1>4, <1>8
  <2>0. EraseTwice(ART, first, {}) # {}
    OBVIOUS
  <2>1. PICK l \in DOMAIN ART \ {first} :
          LastBut(ART, first, l) /\ EraseTwice(ART, first, {}) = {Erase(ART, {first, l})}
    BY <1>3, <2>0, EraseTwiceOfOne
  <2>2. TakenInstead(l, first)
    BY <1>2, <1>5, <1>8, <2>1 DEF TakenInstead, HasPartner, LastBut
  <2>3. table \in Seq(Entry)
    BY <1>3, <2>1, EraseType
  <2>4. QED
    BY <1>1, <1>3, <1>6, <2>1, <2>2, <2>3 DEF RenewedInstead
<1>9. QED
  BY <1>2, <1>3, <1>7, <1>8

\* A cancellation takes out all entries of its vehicle and no other.
LEMMA DeleteRequestTable ==
  ASSUME TypeOK, Orderly(ART), NEW sr \in SignalRequest, DeleteRequest(sr)
  PROVE  Cancelled(sr)
<1> DEFINE found == PositionsOf(ART, sr.vehicleID)
           first == Nth(found, 1)
           isEV == RoleOf[sr.vehicleID] = "fire"
           gone == {i \in found : Rank(found, i) <= IF isEV THEN 2 ELSE 1}
           t == Rest({sr.vehicleID})
           clear == isEV /\ ClearForEV(t)
<1>1. /\ FinishSRM(Erase(ART, gone), TRUE, isEV /\ ClearForEV(Erase(ART, gone)))
      /\ found # {}
  BY DEF DeleteRequest, deleteRequestfromActiveRequestTable
<1>2. RoleOfID(sr.vehicleID) = RoleOf[sr.vehicleID]
  BY DEF SignalRequest, RoleOfID
<1>3. /\ first \in found
      /\ \/ found = {first}
         \/ isEV /\ \E j \in DOMAIN ART : j # first /\ found = {first, j}
  BY <1>1, <1>2, FoundPositions DEF TypeOK
<1>4. /\ ART \in Seq(Entry) /\ Those(ART, {sr.vehicleID}) = found
      /\ found \in SUBSET (1 .. Len(ART)) /\ Len(ART) \in Nat
  BY DEF TypeOK, Those, PositionsOf
<1>5. gone = found
  <2>1. Cardinality(found) \in Nat /\ Cardinality(found) <= IF isEV THEN 2 ELSE 1
    <3> HIDE DEF found, first
    <3>1. CASE isEV /\ \E j \in DOMAIN ART : j # first /\ found = {first, j}
      <4>1. PICK j \in DOMAIN ART : j # first /\ found = {first, j}
        BY <3>1
      <4>2. IsFiniteSet({first}) /\ Cardinality({first}) = 1
        BY FS_Singleton
      <4>3. Cardinality({first} \cup {j}) = 2
        BY <4>1, <4>2, FS_AddElement
      <4>4. {first} \cup {j} = found
        BY <4>1
      <4>5. QED
        BY <3>1, <4>3, <4>4
    <3>2. CASE found = {first}
      <4>1. Cardinality(found) = 1
        BY <3>2, FS_Singleton
      <4>2. QED
        BY <4>1
    <3>3. QED
      BY <1>3, <3>1, <3>2
  <2>2. \A i \in found : Rank(found, i) \in 1 .. Cardinality(found)
    <3> HIDE DEF found
    <3>1. QED
      BY <1>4, RankRange
  <2>3. \A i \in found : Rank(found, i) <= IF isEV THEN 2 ELSE 1
    <3> HIDE DEF found
    <3>1. QED
      BY <2>1, <2>2
  <2>4. QED
    BY <2>3
<1>6. FinishSRM(t, TRUE, clear) /\ t \in Seq(Entry) /\ clear \in BOOLEAN
  <2> HIDE DEF found, gone
  <2>1. Erase(ART, gone) = t
    BY <1>4, <1>5 DEF Rest
  <2>2. t \in Seq(Entry)
    BY <1>4, EraseType DEF Rest
  <2>3. QED
    BY <1>1, <2>1, <2>2
<1> HIDE DEF found, gone, clear, t
<1>7. Rewritten(ART', t) /\ Assigned(ART') /\ Told(t, clear)
  BY <1>6, SRMFinished
<1>8. QED
  BY <1>1, <1>7 DEF Cancelled, t, clear, found

LEMMA RewrittenReflexive ==
  ASSUME NEW t
  PROVE  Rewritten(t, t) /\ SameStatus(t, t)
BY DEF Rewritten, SameStatus

\* A request that changes nothing, and a datagram that is not for the table.
LEMMA KeepRequestTable ==
  ASSUME TypeOK, NEW sr \in SignalRequest, KeepRequest(sr)
  PROVE  Kept /\ Assigned(ART')
<1>1. ART \in Seq(Entry) /\ FinishSRM(ART, FALSE, FALSE)
  BY DEF TypeOK, KeepRequest
<1>2. QED
  BY <1>1, SRMFinished DEF Kept

LEMMA UnchangedTable ==
  ASSUME NEW needSSM, AnswerDatagram(ART, needSSM, FALSE, FALSE)
  PROVE  Kept /\ ART' = ART
BY RewrittenReflexive DEF AnswerDatagram, Kept

\* The coordination entries are those of the virtual requesters.
LEMMA VehicleRequestsTable ==
  ASSUME TypeOK, Orderly(ART)
  PROVE  /\ VehicleRequests(ART) = Rest(CoordinationID)
         /\ Rest(CoordinationID) \in Seq(Entry)
<1>1. \A i \in DOMAIN ART : ART[i] \in Entry
  BY DEF TypeOK
<1>2. \A i \in DOMAIN ART :
        ART[i].basicVehicleRole = "roadsideSource" <=> ART[i].vehicleID \in CoordinationID
  BY <1>1, RoleOfRequester DEF Orderly, RolesFit, Entry
<1>3. PositionsWithRole(ART, "roadsideSource") = Those(ART, CoordinationID)
  BY <1>2 DEF PositionsWithRole, Those
<1>4. QED
  BY <1>3, EraseType DEF VehicleRequests, Rest, TypeOK

LEMMA ReplaceCoordinationTable ==
  ASSUME TypeOK, Orderly(ART), NEW list \in CoordinationList,
         ReplaceCoordination(list)
  PROVE  Coordinated(list)
<1> DEFINE t == Rest(CoordinationID) \o CoordinationEntries(list)
           new == setPriorityRequestStatus(t)
<1>1. t \in Seq(Entry)
  BY VehicleRequestsTable, CoordinationEntriesType, ConcatProperties
<1>2. list # <<>> /\ AnswerDatagram(new, TRUE, TRUE, FALSE)
  BY VehicleRequestsTable DEF ReplaceCoordination
<1> HIDE DEF t
<1>3. /\ new \in Seq(Entry) /\ DOMAIN new = DOMAIN t
      /\ \A i \in DOMAIN t :
           /\ new[i].basicVehicleRole = t[i].basicVehicleRole
           /\ new[i].prsStatus = StatusFor(t[i].basicVehicleRole, findEVInList(t))
  BY <1>1, SetStatusType
<1>4. Rewritten(new, t)
  BY <1>1, StatusRewrites
<1> HIDE DEF new
<1>5. Assigned(new)
  BY <1>3, RetouchedEV DEF Assigned
<1>6. /\ ART' \in Seq(Entry) /\ Rewritten(ART', new) /\ SameStatus(ART', new)
      /\ Told(new, FALSE)
  BY <1>2, <1>3, DatagramAnswered
<1>7. Assigned(ART')
  BY <1>5, <1>6, RetouchedEV DEF Assigned, Rewritten, SameStatus
<1>8. Rewritten(ART', t) /\ Told(t, FALSE)
  BY <1>1, <1>3, <1>4, <1>6, ToldRewritten, RewrittenTransitive
<1>9. QED
  BY <1>1, <1>2, <1>7, <1>8 DEF Coordinated, t

LEMMA ClearCoordinationTable ==
  ASSUME TypeOK, Orderly(ART), NEW list, ClearCoordination(list)
  PROVE  Withdrawn
BY VehicleRequestsTable DEF ClearCoordination, AnswerDatagram, Withdrawn

\* A virtual requester is found with one entry, and its partner with one or none.
LEMMA PartnerFound ==
  ASSUME TypeOK, Orderly(ART), NEW i \in DOMAIN ART,
         ART[i].vehicleID \in CoordinationID
  PROVE  \/ PartnersOf(i) = {}
         \/ \E j \in DOMAIN ART :
              /\ PartnersOf(i) = {j}
              /\ Those(ART, Company(ART[i].vehicleID)) = {i, j}
<1> DEFINE c == ART[i].vehicleID
<1>1. /\ Associate(c) \in CoordinationID /\ Associate(c) # c
      /\ RoleOfID(c) = "roadsideSource" /\ RoleOfID(Associate(c)) = "roadsideSource"
  BY AssociateInvolution, RoleOfRequester
<1>2. ART[i].basicVehicleRole = "roadsideSource"
  BY <1>1 DEF Orderly, RolesFit
<1>3. PartnersOf(i) = PositionsOf(ART, Associate(c))
  BY <1>1, <1>2 DEF PartnersOf, PositionsOf
<1>4. ASSUME NEW j \in PartnersOf(i)
      PROVE  /\ j \in DOMAIN ART /\ PartnersOf(i) = {j}
             /\ Those(ART, Company(c)) = {i, j}
  <2>1. j \in DOMAIN ART /\ ART[j].vehicleID = Associate(c)
    BY <1>3 DEF PositionsOf
  <2>2. ART[j].basicVehicleRole = "roadsideSource"
    BY <1>1, <2>1 DEF Orderly, RolesFit
  <2>3. \A k \in DOMAIN ART : /\ ART[k].vehicleID = c => k = i
                              /\ ART[k].vehicleID = Associate(c) => k = j
    BY <1>2, <2>1, <2>2 DEF Orderly, TwoPhases
  <2>4. PartnersOf(i) = {j}
    BY <1>3, <2>1, <2>3 DEF PositionsOf
  <2>5. Those(ART, Company(c)) = {i, j}
    BY <2>1, <2>3 DEF Those, Company
  <2>6. QED
    BY <2>1, <2>4, <2>5
<1>5. QED
  BY <1>4

\* A time-out takes out one vehicle or one coordination pair; where an entry is
\* missing, it takes the last of the others, or the process dies.
LEMMA DeleteTimedOutTable ==
  ASSUME TypeOK, Orderly(ART), DeleteTimedOut
  PROVE  \/ \E i \in TimedOut : Expired(i)
         \/ \E k, l \in DOMAIN ART : ExpiredInstead(k, l)
         \/ Restart
<1> DEFINE k == Nth(TimedOut, 1)
           id == ART[k].vehicleID
           i == Nth(PositionsOf(ART, id), 1)
           isEV == ART[i].basicVehicleRole = "fire"
           outcomes == IF HasPartner(ART[i]) THEN EraseTwice(ART, i, PartnersOf(i))
                                             ELSE {Erase(ART, {i})}
           Deleted(table) ==
             createJsonStringForPrioritySolver(table, isEV /\ ClearForEV(table))
           t == Rest(Company(id))
<1>1. /\ TimedOut # {}
      /\ Restart \/ \E table \in outcomes : Deleted(table)
  BY DEF DeleteTimedOut
<1>2. ART \in Seq(Entry) /\ Len(ART) \in Nat
  BY DEF TypeOK
<1>3. k \in TimedOut /\ k \in DOMAIN ART
  <2>1. TimedOut \in SUBSET (1 .. Len(ART))
    BY <1>2 DEF TimedOut
  <2>2. QED
    BY <1>1, <1>2, <2>1, NthFirst DEF TimedOut
<1>4. /\ i \in PositionsOf(ART, id)
      /\ id \in Vehicle \cup CoordinationID
      /\ ART[i].basicVehicleRole = RoleOfID(id)
      /\ \/ PositionsOf(ART, id) = {i}
         \/ /\ RoleOfID(id) = "fire"
            /\ \E j \in DOMAIN ART : j # i /\ PositionsOf(ART, id) = {i, j}
  <2>1. PositionsOf(ART, id) # {}
    BY <1>3 DEF PositionsOf
  <2> HIDE DEF k, id
  <2>2. QED
    BY <1>2, <2>1, FoundPositions
<1>5. i \in DOMAIN ART /\ ART[i].vehicleID = id /\ k \in PositionsOf(ART, id)
  BY <1>3, <1>4 DEF PositionsOf
<1>6. ART[k].basicVehicleRole = ART[i].basicVehicleRole
  BY <1>3, <1>4 DEF Orderly, RolesFit
<1> HIDE DEF k, i, id
<1>7. ASSUME outcomes = {t}, HasPartner(ART[k]) => PartnersOf(k) # {}
      PROVE  Expired(k) \/ Restart
  <2> SUFFICES ASSUME Deleted(t)
               PROVE  Expired(k)
    BY <1>1, <1>7
  <2>1. t \in Seq(Entry)
    BY <1>2, EraseType DEF Rest
  <2> DEFINE clear == isEV /\ ClearForEV(t)
  <2>2. createJsonStringForPrioritySolver(t, clear) /\ clear \in BOOLEAN
    OBVIOUS
  <2> HIDE DEF clear, t, isEV
  <2>3. Rewritten(ART', t) /\ SameStatus(ART', t) /\ Told(t, clear)
    BY <2>1, <2>2, SolverTold
  <2>4. QED
    BY <1>3, <1>6, <1>7, <2>3 DEF Expired, t, clear, isEV, id
<1>8. ASSUME outcomes = EraseTwice(ART, i, {}), k = i,
             HasPartner(ART[k]), PartnersOf(k) = {}
      PROVE  (\E l \in DOMAIN ART : ExpiredInstead(k, l)) \/ Restart
  <2> SUFFICES ASSUME NEW table \in EraseTwice(ART, k, {}), Deleted(table)
               PROVE  \E l \in DOMAIN ART : ExpiredInstead(k, l)
    BY <1>1, <1>8
  <2>0. EraseTwice(ART, k, {}) # {}
    OBVIOUS
  <2>1. PICK l \in DOMAIN ART \ {k} :
          LastBut(ART, k, l) /\ EraseTwice(ART, k, {}) = {Erase(ART, {k, l})}
    BY <1>2, <1>3, <2>0, EraseTwiceOfOne
  <2>2. TakenInstead(l, k) /\ table \in Seq(Entry)
    BY <1>2, <1>8, <2>1, EraseType DEF TakenInstead, LastBut
  <2> DEFINE clear == isEV /\ ClearForEV(table)
  <2>3. createJsonStringForPrioritySolver(table, clear) /\ clear \in BOOLEAN
    OBVIOUS
  <2> HIDE DEF clear, isEV
  <2>4. Rewritten(ART', table) /\ SameStatus(ART', table) /\ Told(table, clear)
    BY <2>2, <2>3, SolverTold
  <2>5. QED
    BY <1>3, <1>6, <2>1, <2>2, <2>4 DEF ExpiredInstead, clear, isEV
<1>9. CASE RoleOfID(id) = "fire"
  <2>1. /\ HasPartner(ART[i]) /\ HasPartner(ART[k])
        /\ PartnersOf(i) = PositionsOf(ART, id) \ {i}
        /\ PartnersOf(k) = PositionsOf(ART, id) \ {k}
    BY <1>4, <1>5, <1>6, <1>9 DEF HasPartner, PartnersOf, id
  <2>2. CASE PositionsOf(ART, id) = {i}
    <3>1. k = i /\ PartnersOf(i) = {}
      BY <1>5, <2>1, <2>2
    <3>2. QED
      BY <1>3, <1>8, <2>1, <3>1
  <2>3. ASSUME NEW j \in DOMAIN ART, j # i, PositionsOf(ART, id) = {i, j}
        PROVE  Expired(k) \/ Restart
    <3>1. Those(ART, Company(id)) = {i, j}
      <4>1. id \notin CoordinationID
        BY <1>4, <1>9, RoleOfRequester
      <4>2. QED
        BY <2>3, <4>1 DEF Those, Company, PositionsOf
    <3>2. PartnersOf(i) = {j} /\ PartnersOf(k) # {}
      BY <1>5, <2>1, <2>3
    <3>3. EraseTwice(ART, i, {j}) = {Erase(ART, {i, j})}
      BY <1>2, EraseTwiceOfPair
    <3>4. outcomes = {t}
      BY <2>1, <3>1, <3>2, <3>3 DEF Rest
    <3>5. QED
      BY <1>7, <3>2, <3>4
  <2>4. QED
    BY <1>3, <1>4, <2>2, <2>3
<1>10. CASE id \in CoordinationID
  <2>1. HasPartner(ART[i]) /\ k = i
    <3>1. RoleOfID(id) = "roadsideSource"
      BY <1>10, RoleOfRequester
    <3>2. QED
      BY <1>4, <1>5, <3>1 DEF HasPartner
  <2>2. CASE PartnersOf(i) = {}
    BY <1>3, <1>8, <2>1, <2>2
  <2>3. ASSUME NEW j \in DOMAIN ART, PartnersOf(i) = {j},
               Those(ART, Company(id)) = {i, j}
        PROVE  Expired(k) \/ Restart
    <3>1. EraseTwice(ART, i, {j}) = {Erase(ART, {i, j})}
      BY <1>2, EraseTwiceOfPair
    <3>2. outcomes = {t}
      BY <2>1, <2>3, <3>1 DEF Rest
    <3>3. QED
      BY <1>7, <2>1, <2>3, <3>2
  <2>4. QED
    BY <1>3, <1>5, <1>10, <2>2, <2>3, PartnerFound
<1>11. CASE id \notin CoordinationID /\ RoleOfID(id) # "fire"
  <2>1. ~HasPartner(ART[i]) /\ ~HasPartner(ART[k])
    BY <1>4, <1>6, <1>11, RoleOfRequester DEF HasPartner
  <2>2. Those(ART, Company(id)) = {i}
    BY <1>4, <1>11 DEF Those, Company, PositionsOf
  <2>3. outcomes = {t}
    BY <2>1, <2>2 DEF Rest
  <2>4. QED
    BY <1>3, <1>7, <2>1, <2>3
<1>12. QED
  BY <1>9, <1>10, <1>11

\* An expiry with nothing to delete, which may tell the solver of an empty table.
LEMMA NoTimedOutTable ==
  ASSUME TypeOK, NoTimedOut
  PROVE  /\ ART' = ART
         /\ \/ Kept
            \/ ART = <<>> /\ solver' = ClearRequest
<1>1. CASE /\ ART = <<>> /\ ~sentClearRequest
           /\ createJsonStringForPrioritySolver(<<>>, FALSE)
  BY <1>1 DEF createJsonStringForPrioritySolver
<1>2. CASE UNCHANGED <<ART, sendSSM, sentClearRequest, solver>>
  BY <1>2, RewrittenReflexive DEF Kept
<1>3. QED
  BY <1>1, <1>2 DEF NoTimedOut

LEMMA TickTable ==
  ASSUME TypeOK, Tick
  PROVE  Kept /\ SameStatus(ART', ART)
<1> DEFINE new == [i \in DOMAIN ART |-> Aged(ART[i])]
<1>1. Rewritten(new, ART) /\ SameStatus(new, ART)
  <2>1. ART \in Seq(Entry)
    BY DEF TypeOK
  <2>2. QED
    BY <2>1, WaitRewrites, AgedType DEF SameStatus
<1>2. ART' = new /\ UNCHANGED <<sentClearRequest, solver>>
  BY DEF Tick
<1> HIDE DEF new
<1>3. QED
  BY <1>1, <1>2 DEF Kept

-----------------------------------------------------------------------------
(* Every step, and the inductive invariant *)

Forgotten == ART' = <<>> /\ solver' = solver
ClearedNow == ART = <<>> /\ ART' = <<>> /\ solver' = ClearRequest

LEMMA StepKinds ==
  ASSUME TypeOK, Orderly(ART), [Next]_vars
  PROVE  \/ \E sr \in SignalRequest :
              \/ Added(sr) \/ Updated(sr) \/ Renewed(sr)
              \/ DeleteRequest(sr) /\ Cancelled(sr)
              \/ /\ UpdateEmergencyRequest(sr)
                 /\ \E k, l \in DOMAIN ART : RenewedInstead(sr, k, l)
         \/ \E list \in CoordinationList : Coordinated(list)
         \/ Withdrawn
         \/ SocketTimeout /\ \E i \in TimedOut : Expired(i)
         \/ SocketTimeout /\ \E k, l \in DOMAIN ART : ExpiredInstead(k, l)
         \/ Kept
         \/ ClearedNow
         \/ Restart /\ Forgotten
<1>0. Restart => Restart /\ Forgotten
  BY DEF Restart, Forgotten
<1>1. ASSUME NEW sr \in SignalRequest, ManageAccepted(sr)
      PROVE  \/ Added(sr) \/ Updated(sr) \/ Renewed(sr)
             \/ DeleteRequest(sr) /\ Cancelled(sr)
             \/ /\ UpdateEmergencyRequest(sr)
                /\ \E k, l \in DOMAIN ART : RenewedInstead(sr, k, l)
             \/ Kept
             \/ Restart
  BY <1>1, AddRequestTable, UpdateRequestTable, UpdateEmergencyRequestTable,
     DeleteRequestTable, KeepRequestTable DEF ManageAccepted
<1>2. CASE RejectRequest
  BY <1>2, UnchangedTable DEF RejectRequest
<1>3. CASE manageCoordinationRequest
  BY <1>3, ReplaceCoordinationTable, ClearCoordinationTable
     DEF manageCoordinationRequest
<1>4. CASE ReceiveUnknown
  BY <1>4, UnchangedTable DEF ReceiveUnknown
<1>5. CASE SocketTimeout
  <2>1. CASE DeleteTimedOut
    BY <1>0, <1>5, <2>1, DeleteTimedOutTable
  <2>2. CASE NoTimedOut
    BY <2>2, NoTimedOutTable DEF ClearedNow
  <2>3. QED
    BY <1>5, <2>1, <2>2 DEF SocketTimeout
<1>6. CASE Tick
  BY <1>6, TickTable
<1>7. CASE Restart
  BY <1>0, <1>7
<1>8. CASE UNCHANGED vars
  BY <1>8, RewrittenReflexive DEF vars, Kept
<1>9. QED
  BY <1>0, <1>1, <1>2, <1>3, <1>4, <1>5, <1>6, <1>7, <1>8
     DEF Next, Datagram, manageSignalRequestTable

LEMMA PairedEmpty == Paired(<<>>)
BY DEF Paired, Orderly, RolesFit, TwoPhases, NoSinglePhase, NoSingleCoordination

\* Changing what one vehicle asks for leaves everybody's partners alone.
LEMMA OrderlyMoved ==
  ASSUME TypeOK, Orderly(ART), NEW t, NEW i, Moved(t, i)
  PROVE  Orderly(t)
<1>1. \A k \in DOMAIN t : /\ k \in DOMAIN ART
                          /\ t[k].vehicleID = ART[k].vehicleID
                          /\ t[k].basicVehicleRole = ART[k].basicVehicleRole
                          /\ k # i => t[k] = ART[k]
  BY DEF Moved
<1>2. RolesFit(t)
  BY <1>1 DEF Orderly, RolesFit
<1>3. \A k \in DOMAIN ART : k # i => ART[k].vehicleID # ART[i].vehicleID
  BY DEF Moved, Orderly, TwoPhases
<1>4. TwoPhases(t)
  <2> SUFFICES ASSUME NEW m \in DOMAIN t, NEW n \in DOMAIN t, m # n,
                      t[m].vehicleID = t[n].vehicleID
               PROVE  /\ t[m].basicVehicleRole = "fire"
                      /\ t[n].signalGroup = getSplitPhase(t[m].signalGroup)
                      /\ t[n].receivedAge = t[m].receivedAge
                      /\ \A k \in DOMAIN t :
                           t[k].vehicleID = t[m].vehicleID => k \in {m, n}
    BY DEF TwoPhases
  <2>1. m # i /\ n # i
    BY <1>1, <1>3 DEF Moved
  <2>2. QED
    BY <1>1, <2>1 DEF Orderly, TwoPhases
<1>5. QED
  BY <1>2, <1>4 DEF Orderly

LEMMA PairedMoved ==
  ASSUME TypeOK, Paired(ART), NEW t, NEW i, Moved(t, i)
  PROVE  Paired(t)
<1>1. DOMAIN t = DOMAIN ART /\ Orderly(t)
  BY OrderlyMoved DEF Moved, Paired
<1>2. \A k \in DOMAIN t : /\ t[k].vehicleID = ART[k].vehicleID
                          /\ t[k].basicVehicleRole = ART[k].basicVehicleRole
  BY DEF Moved
<1>3. NoSinglePhase(t) /\ NoSingleCoordination(t)
  BY <1>1, <1>2 DEF Paired, NoSinglePhase, NoSingleCoordination
<1>4. QED
  BY <1>1, <1>3 DEF Paired

\* Those who are left when a requester has gone, and when its company has too.
LEMMA OrderlyRest ==
  ASSUME TypeOK, Orderly(ART), NEW ids
  PROVE  /\ Orderly(Rest(ids)) /\ Rest(ids) \in Seq(Entry)
         /\ \A n \in DOMAIN Rest(ids) : Rest(ids)[n].vehicleID \notin ids
<1>1. ART \in Seq(Entry)
  BY DEF TypeOK
<1>2. QED
  BY <1>1, OrderlyErase, ThoseErased DEF Rest

LEMMA PairedRest ==
  ASSUME TypeOK, Paired(ART), NEW ids,
         \A c \in ids \cap CoordinationID : Associate(c) \in ids
  PROVE  Paired(Rest(ids))
<1>1. ART \in Seq(Entry) /\ RolesFit(ART)
  BY DEF TypeOK, Paired, Orderly
<1>2. Closed(ART, Those(ART, ids)) /\ Those(ART, ids) \in SUBSET DOMAIN ART
  BY <1>1, ThoseClosed
<1>3. QED
  BY <1>1, <1>2, PairedErase DEF Rest

\* Entry k has no partner, and entry l is taken in its place: k was all there
\* was of its vehicle or virtual requester.
LEMMA TakenApart ==
  ASSUME TypeOK, Orderly(ART), NEW k \in DOMAIN ART, NEW l, TakenInstead(l, k)
  PROVE  /\ l # k
         /\ \A j \in DOMAIN ART : ART[j].vehicleID = ART[k].vehicleID => j = k
         /\ ART[k].basicVehicleRole = "roadsideSource" =>
              \A j \in DOMAIN ART : ART[j].vehicleID # Associate(ART[k].vehicleID)
         /\ ART[k].basicVehicleRole \in {"fire", "roadsideSource"}
<1>1. /\ l # k /\ PartnersOf(k) = {}
      /\ ART[k].basicVehicleRole \in {"fire", "roadsideSource"}
  BY DEF TakenInstead, HasPartner
<1>2. CASE ART[k].basicVehicleRole = "fire"
  BY <1>1, <1>2 DEF PartnersOf, PositionsOf
<1>3. CASE ART[k].basicVehicleRole = "roadsideSource"
  <2>1. ART[k] \in Entry
    BY DEF TypeOK
  <2>2. ART[k].vehicleID \in CoordinationID
    BY <1>3, <2>1, RoleOfRequester DEF Orderly, RolesFit, Entry
  <2>3. \A j \in DOMAIN ART : ART[j].vehicleID # Associate(ART[k].vehicleID)
    BY <1>1, <1>3, <2>2, AssociateInvolution DEF PartnersOf, PositionsOf
  <2>4. \A j \in DOMAIN ART : ART[j].vehicleID = ART[k].vehicleID => j = k
    BY <1>3 DEF Orderly, TwoPhases
  <2>5. QED
    BY <1>1, <1>3, <2>3, <2>4
<1>4. QED
  BY <1>1, <1>2, <1>3

\* What is left when entry l has been taken instead of the partner of k.
LEMMA OrderlyInstead ==
  ASSUME TypeOK, Orderly(ART), NEW k \in DOMAIN ART, NEW l, TakenInstead(l, k)
  PROVE  LET t == Erase(ART, {k, l})
         IN  /\ t \in Seq(Entry) /\ Orderly(t)
             /\ \A n \in DOMAIN t : t[n].vehicleID # ART[k].vehicleID
<1> DEFINE K == {k, l}
           t == Erase(ART, K)
<1>1. ART \in Seq(Entry)
  BY DEF TypeOK
<1>2. \A j \in DOMAIN ART : j \notin K => ART[j].vehicleID # ART[k].vehicleID
  BY TakenApart
<1> HIDE DEF K
<1>3. PICK f \in [DOMAIN t -> DOMAIN ART \ K] :
        /\ \A n \in DOMAIN t : t[n] = ART[f[n]]
        /\ \A m, n \in DOMAIN t : f[m] = f[n] => m = n
        /\ \A i \in DOMAIN ART \ K : \E n \in DOMAIN t : f[n] = i
  BY <1>1, EraseSelects
<1>4. t \in Seq(Entry) /\ Orderly(t)
  BY <1>1, EraseType, OrderlyErase
<1> HIDE DEF t
<1>5. \A n \in DOMAIN t : t[n].vehicleID # ART[k].vehicleID
  <2>1. \A n \in DOMAIN t : f[n] \in DOMAIN ART /\ f[n] \notin K
    BY <1>3
  <2>2. QED
    BY <1>2, <1>3, <2>1
<1>6. QED
  BY <1>4, <1>5 DEF t, K

\* A vehicle's entries added to a table that has none of it.
LEMMA OrderlyPushed ==
  ASSUME NEW t \in Seq(Entry), Orderly(t), NEW sr \in SignalRequest,
         \A n \in DOMAIN t : t[n].vehicleID # sr.vehicleID
  PROVE  Orderly(t \o EntriesFor(sr))
<1>1. /\ EntriesFor(sr) \in Seq(Entry) /\ Orderly(EntriesFor(sr))
      /\ \A j \in DOMAIN EntriesFor(sr) : EntriesFor(sr)[j].vehicleID = sr.vehicleID
  BY EntriesForType, PairedEntriesFor DEF Paired
<1>2. QED
  BY <1>1, OrderlyConcat

LEMMA OrderlyStep ==
  ASSUME CoordinationOnce, TypeOK, Orderly(ART), [Next]_vars
  PROVE  Orderly(ART')
<1>1. ART \in Seq(Entry)
  BY DEF TypeOK
<1>2. ASSUME NEW sr \in SignalRequest, Added(sr)
      PROVE  Orderly(ART')
  <2>1. Orderly(ART \o EntriesFor(sr))
    BY <1>1, <1>2, OrderlyPushed DEF Added, PositionsOf
  <2>2. QED
    BY <1>2, <2>1, OrderlyRewritten DEF Added
<1>3. ASSUME NEW sr \in SignalRequest, Updated(sr)
      PROVE  Orderly(ART')
  BY <1>3, OrderlyMoved, OrderlyRewritten DEF Updated
<1>4. ASSUME NEW sr \in SignalRequest, Renewed(sr)
      PROVE  Orderly(ART')
  <2>1. Orderly(Rest({sr.vehicleID}) \o EntriesFor(sr))
    BY OrderlyRest, OrderlyPushed
  <2>2. QED
    BY <1>4, <2>1, OrderlyRewritten DEF Renewed
<1>5. ASSUME NEW sr \in SignalRequest, NEW k \in DOMAIN ART, NEW l \in DOMAIN ART,
             RenewedInstead(sr, k, l)
      PROVE  Orderly(ART')
  <2>1. Orderly(Erase(ART, {k, l}) \o EntriesFor(sr))
    BY <1>5, OrderlyInstead, OrderlyPushed DEF RenewedInstead
  <2>2. QED
    BY <1>5, <2>1, OrderlyRewritten DEF RenewedInstead
<1>6. ASSUME NEW sr \in SignalRequest, Cancelled(sr)
      PROVE  Orderly(ART')
  BY <1>6, OrderlyRest, OrderlyRewritten DEF Cancelled
<1>7. ASSUME NEW list \in CoordinationList, Coordinated(list)
      PROVE  Orderly(ART')
  <2> DEFINE rest == Rest(CoordinationID)
             e == CoordinationEntries(list)
  <2>1. /\ rest \in Seq(Entry) /\ Orderly(rest) /\ e \in Seq(Entry) /\ Orderly(e)
        /\ \A i \in DOMAIN rest, j \in DOMAIN e : rest[i].vehicleID # e[j].vehicleID
    BY OrderlyRest, OrderlyCoordinationEntries, CoordinationEntriesType
  <2> HIDE DEF rest, e
  <2>2. Orderly(rest \o e)
    BY <2>1, OrderlyConcat
  <2>3. QED
    BY <1>7, <2>2, OrderlyRewritten DEF Coordinated, rest, e
<1>8. CASE Withdrawn
  BY <1>8, OrderlyRest DEF Withdrawn
<1>9. ASSUME NEW i \in TimedOut, Expired(i)
      PROVE  Orderly(ART')
  BY <1>9, OrderlyRest, OrderlyRewritten DEF Expired
<1>10. ASSUME NEW k \in DOMAIN ART, NEW l \in DOMAIN ART, ExpiredInstead(k, l)
       PROVE  Orderly(ART')
  BY <1>10, OrderlyInstead, OrderlyRewritten DEF ExpiredInstead
<1>11. CASE Kept
  BY <1>11, OrderlyRewritten DEF Kept
<1>12. CASE ClearedNow \/ Forgotten
  BY <1>12, PairedEmpty DEF ClearedNow, Forgotten, Paired
<1>13. QED
  BY <1>2, <1>3, <1>4, <1>5, <1>6, <1>7, <1>8, <1>9, <1>10, <1>11, <1>12, StepKinds

\* Nothing is taken instead of a partner where nobody is without one.
LEMMA PairedNotTaken ==
  ASSUME TypeOK, Paired(ART), NEW k \in DOMAIN ART, NEW l
  PROVE  ~TakenInstead(l, k)
<1> SUFFICES ASSUME TakenInstead(l, k)
             PROVE  FALSE
  OBVIOUS
<1>1. /\ \A j \in DOMAIN ART : ART[j].vehicleID = ART[k].vehicleID => j = k
      /\ ART[k].basicVehicleRole = "roadsideSource" =>
           \A j \in DOMAIN ART : ART[j].vehicleID # Associate(ART[k].vehicleID)
      /\ ART[k].basicVehicleRole \in {"fire", "roadsideSource"}
  BY TakenApart DEF Paired
<1>2. QED
  BY <1>1 DEF Paired, NoSinglePhase, NoSingleCoordination

LEMMA PairedStep ==
  ASSUME CoordinationInPairs, TypeOK, Paired(ART), [Next]_vars
  PROVE  Paired(ART')
<1>1. ART \in Seq(Entry) /\ Orderly(ART)
  BY DEF TypeOK, Paired
<1>2. ASSUME NEW sr \in SignalRequest, NEW t \in Seq(Entry), Paired(t),
             \A n \in DOMAIN t : t[n].vehicleID # sr.vehicleID
      PROVE  Paired(t \o EntriesFor(sr))
  BY <1>2, EntriesForType, PairedEntriesFor, PairedConcat
<1>3. ASSUME NEW sr \in SignalRequest, Added(sr)
      PROVE  Paired(ART')
  BY <1>1, <1>2, <1>3, PairedRewritten DEF Added, PositionsOf
<1>4. ASSUME NEW sr \in SignalRequest, Updated(sr)
      PROVE  Paired(ART')
  BY <1>4, PairedMoved, PairedRewritten DEF Updated
<1>5. ASSUME NEW sr \in SignalRequest
      PROVE  Paired(Rest({sr.vehicleID}))
  <2>1. {sr.vehicleID} \cap CoordinationID = {}
    BY VehicleAssumption DEF SignalRequest
  <2>2. QED
    BY <2>1, PairedRest
<1>6. ASSUME NEW sr \in SignalRequest, Renewed(sr)
      PROVE  Paired(ART')
  <2>1. /\ Rest({sr.vehicleID}) \in Seq(Entry)
        /\ \A n \in DOMAIN Rest({sr.vehicleID}) :
             Rest({sr.vehicleID})[n].vehicleID # sr.vehicleID
    BY <1>1, OrderlyRest
  <2>2. QED
    BY <1>2, <1>5, <1>6, <2>1, PairedRewritten DEF Renewed
<1>7. ASSUME NEW sr \in SignalRequest, Cancelled(sr)
      PROVE  Paired(ART')
  BY <1>5, <1>7, PairedRewritten DEF Cancelled
<1>8. /\ Paired(Rest(CoordinationID)) /\ Rest(CoordinationID) \in Seq(Entry)
      /\ \A n \in DOMAIN Rest(CoordinationID) :
           Rest(CoordinationID)[n].vehicleID \notin CoordinationID
  BY <1>1, AssociateInvolution, PairedRest, OrderlyRest
<1>9. ASSUME NEW list \in CoordinationList, Coordinated(list)
      PROVE  Paired(ART')
  <2>1. \A i \in DOMAIN Rest(CoordinationID), j \in DOMAIN CoordinationEntries(list) :
          Rest(CoordinationID)[i].vehicleID # CoordinationEntries(list)[j].vehicleID
    BY <1>8, OrderlyCoordinationEntries DEF CoordinationInPairs
  <2>2. Paired(Rest(CoordinationID) \o CoordinationEntries(list))
    BY <1>8, <2>1, CoordinationEntriesType, PairedCoordinationEntries, PairedConcat
  <2>3. QED
    BY <1>9, <2>2, PairedRewritten DEF Coordinated
<1>10. CASE Withdrawn
  BY <1>8, <1>10 DEF Withdrawn
<1>11. ASSUME NEW i \in TimedOut, Expired(i)
       PROVE  Paired(ART')
  <2> DEFINE ids == Company(ART[i].vehicleID)
  <2>1. \A c \in ids \cap CoordinationID : Associate(c) \in ids
    BY AssociateInvolution DEF Company
  <2> HIDE DEF ids
  <2>2. Paired(Rest(ids))
    BY <2>1, PairedRest
  <2>3. QED
    BY <1>11, <2>2, PairedRewritten DEF Expired, ids
<1>12. CASE Kept
  BY <1>12, PairedRewritten DEF Kept
<1>13. CASE ClearedNow \/ Forgotten
  BY <1>13, PairedEmpty DEF ClearedNow, Forgotten
<1>14. \A k, l \in DOMAIN ART : /\ \A sr \in SignalRequest : ~RenewedInstead(sr, k, l)
                                /\ ~ExpiredInstead(k, l)
  BY PairedNotTaken DEF RenewedInstead, ExpiredInstead
<1>15. QED
  BY <1>1, <1>3, <1>4, <1>6, <1>7, <1>9, <1>10, <1>11, <1>12, <1>13, <1>14, StepKinds

-----------------------------------------------------------------------------
(* The theorems *)

LEMMA OrderlyAlways ==
  ASSUME CoordinationOnce
  PROVE  Spec => []Orderly(ART)
<1>1. Init => Orderly(ART)
  BY PairedEmpty DEF Init, Paired
<1>2. TypeOK /\ Orderly(ART) /\ [Next]_vars => Orderly(ART)'
  BY OrderlyStep
<1>3. QED
  BY <1>1, <1>2, TypeCorrect, PTL DEF Spec

LEMMA PairedAlways ==
  ASSUME CoordinationInPairs
  PROVE  Spec => []Paired(ART)
<1>1. Init => Paired(ART)
  BY PairedEmpty DEF Init
<1>2. TypeOK /\ Paired(ART) /\ [Next]_vars => Paired(ART)'
  <2> SUFFICES ASSUME TypeOK, Paired(ART), [Next]_vars
               PROVE  Paired(ART')
    OBVIOUS
  <2>1. QED
    BY PairedStep
<1>3. QED
  BY <1>1, <1>2, TypeCorrect, PTL DEF Spec

\* The unchecked erasures of updates and time-outs always have a second entry to
\* find: an emergency vehicle is never in the table with one phase, and nobody
\* else twice, for lists that come in pairs.
THEOREM EmergencyVehiclesInPairs ==
  ASSUME CoordinationInPairs
  PROVE  Spec => []EmergencyPairs
<1>1. TypeOK /\ Paired(ART) => EmergencyPairs
  <2> SUFFICES ASSUME TypeOK, Paired(ART)
               PROVE  EmergencyPairs
    OBVIOUS
  <2>1. ASSUME NEW i \in PositionsWithRole(ART, "fire")
        PROVE  \E j \in DOMAIN ART \ {i} :
                 PositionsOf(ART, ART[i].vehicleID) = {i, j}
    <3>1. i \in DOMAIN ART /\ ART[i].basicVehicleRole = "fire"
      BY DEF PositionsWithRole
    <3>2. PICK j \in DOMAIN ART \ {i} : ART[j].vehicleID = ART[i].vehicleID
      BY <3>1 DEF Paired, NoSinglePhase
    <3>3. \A k \in DOMAIN ART : ART[k].vehicleID = ART[i].vehicleID => k \in {i, j}
      BY <3>1, <3>2 DEF Paired, Orderly, TwoPhases
    <3>4. PositionsOf(ART, ART[i].vehicleID) = {i, j}
      BY <3>1, <3>2, <3>3 DEF PositionsOf
    <3>5. QED
      BY <3>2, <3>4
  <2>2. QED
    BY <2>1 DEF EmergencyPairs, Paired, Orderly, TwoPhases
<1>2. QED
  BY <1>1, PairedAlways, TypeCorrect, PTL

-----------------------------------------------------------------------------
(* How many entries there are *)

Vehicles(t) == DOMAIN t \ PositionsWithRole(t, "roadsideSource")

LEMMA VehiclesFinite ==
  ASSUME NEW t \in Seq(Entry)
  PROVE  /\ Vehicles(t) \in SUBSET (1 .. Len(t)) /\ IsFiniteSet(Vehicles(t))
         /\ Cardinality(Vehicles(t)) \in Nat /\ Cardinality(Vehicles(t)) <= Len(t)
<1>1. Len(t) \in Nat /\ Vehicles(t) \in SUBSET (1 .. Len(t))
  BY DEF Vehicles
<1>2. QED
  BY <1>1, PositionsFinite

LEMMA VehiclesRewritten ==
  ASSUME NEW t, NEW u, Rewritten(t, u)
  PROVE  Vehicles(t) = Vehicles(u)
BY DEF Rewritten, Vehicles, PositionsWithRole

\* Who is erased is not counted any more.
LEMMA VehiclesErased ==
  ASSUME NEW t \in Seq(Entry), NEW K
  PROVE  Cardinality(Vehicles(Erase(t, K))) <= Cardinality(Vehicles(t) \ K)
<1> DEFINE E == Erase(t, K)
           V == Vehicles(E)
           W == Vehicles(t) \ K
<1>1. PICK f \in [DOMAIN E -> DOMAIN t \ K] :
        /\ \A n \in DOMAIN E : E[n] = t[f[n]]
        /\ \A m, n \in DOMAIN E : f[m] = f[n] => m = n
        /\ \A i \in DOMAIN t \ K : \E n \in DOMAIN E : f[n] = i
  BY EraseSelects
<1> HIDE DEF E
<1> DEFINE g == [n \in V |-> f[n]]
<1>2. \A n \in V : n \in DOMAIN E /\ f[n] \in W
  BY <1>1 DEF Vehicles, PositionsWithRole
<1>3. g \in [V -> W] /\ \A m, n \in V : g[m] = g[n] => m = n
  BY <1>1, <1>2
<1>4. g \in Injection(V, W)
  BY <1>3 DEF Injection, IsInjective
<1>5. IsFiniteSet(W)
  BY VehiclesFinite, FS_Difference
<1>6. Cardinality(V) <= Cardinality(W)
  BY <1>4, <1>5, FS_Injection
<1>7. QED
  BY <1>6 DEF E

LEMMA OneMore ==
  ASSUME NEW S, IsFiniteSet(S), NEW x
  PROVE  /\ IsFiniteSet(S \cup {x})
         /\ Cardinality(S \cup {x}) \in Nat
         /\ Cardinality(S \cup {x}) <= Cardinality(S) + 1
<1>1. Cardinality(S) \in Nat
  BY FS_CardinalityType
<1>2. /\ IsFiniteSet(S \cup {x})
      /\ Cardinality(S \cup {x}) =
           IF x \in S THEN Cardinality(S) ELSE Cardinality(S) + 1
  BY FS_AddElement
<1>3. QED
  BY <1>1, <1>2

\* An SRM brings at most two entries.
LEMMA VehiclesAppended ==
  ASSUME NEW t \in Seq(Entry), NEW sr \in SignalRequest
  PROVE  Cardinality(Vehicles(t \o EntriesFor(sr))) <= Cardinality(Vehicles(t)) + 2
<1> DEFINE e == EntriesFor(sr)
           a == Len(t) + 1
           b == Len(t) + 2
<1>1. e \in Seq(Entry) /\ Len(e) \in {1, 2}
  BY EntriesForType DEF EntriesFor
<1> HIDE DEF e
<1>2. Vehicles(t \o e) \subseteq (Vehicles(t) \cup {a}) \cup {b}
  <2> SUFFICES ASSUME NEW k \in Vehicles(t \o e)
               PROVE  k \in Vehicles(t) \/ k = a \/ k = b
    OBVIOUS
  <2>1. /\ Len(t) \in Nat /\ DOMAIN t = 1 .. Len(t)
        /\ k \in 1 .. (Len(t) + Len(e))
        /\ (t \o e)[k].basicVehicleRole # "roadsideSource"
    BY <1>1 DEF Vehicles, PositionsWithRole
  <2>2. CASE k <= Len(t)
    <3>1. k \in DOMAIN t /\ (t \o e)[k] = t[k]
      BY <1>1, <2>1, <2>2
    <3>2. QED
      BY <2>1, <3>1 DEF Vehicles, PositionsWithRole
  <2>3. CASE k > Len(t)
    BY <1>1, <2>1, <2>3
  <2>4. QED
    BY <2>1, <2>2, <2>3
<1>3. IsFiniteSet(Vehicles(t)) /\ Cardinality(Vehicles(t)) \in Nat
  BY VehiclesFinite
<1>4. /\ IsFiniteSet(Vehicles(t) \cup {a})
      /\ Cardinality(Vehicles(t) \cup {a}) <= Cardinality(Vehicles(t)) + 1
      /\ Cardinality(Vehicles(t) \cup {a}) \in Nat
  BY <1>3, OneMore
<1>5. /\ IsFiniteSet((Vehicles(t) \cup {a}) \cup {b})
      /\ Cardinality((Vehicles(t) \cup {a}) \cup {b})
           <= Cardinality(Vehicles(t) \cup {a}) + 1
      /\ Cardinality((Vehicles(t) \cup {a}) \cup {b}) \in Nat
  BY <1>4, OneMore
<1>6. /\ Cardinality(Vehicles(t \o e)) <= Cardinality((Vehicles(t) \cup {a}) \cup {b})
      /\ Cardinality(Vehicles(t \o e)) \in Nat
  BY <1>2, <1>5, FS_Subset, FS_CardinalityType
<1>7. Cardinality(Vehicles(t \o e)) <= Cardinality(Vehicles(t)) + 2
  BY <1>3, <1>4, <1>5, <1>6
<1>8. QED
  BY <1>7 DEF e

\* Coordination requests are no vehicles.
LEMMA VehiclesCoordinated ==
  ASSUME NEW t \in Seq(Entry), NEW list \in CoordinationList
  PROVE  Vehicles(t \o CoordinationEntries(list)) = Vehicles(t)
<1> DEFINE e == CoordinationEntries(list)
<1>1. \A i \in DOMAIN e : e[i].basicVehicleRole = "roadsideSource"
  BY DEF CoordinationEntries, NewEntry
<1>2. e \in Seq(Entry)
  BY CoordinationEntriesType
<1> HIDE DEF e
<1>3. /\ Len(t) \in Nat /\ Len(e) \in Nat /\ DOMAIN t = 1 .. Len(t)
      /\ DOMAIN (t \o e) = 1 .. (Len(t) + Len(e))
  BY <1>2
<1>4. \A k \in DOMAIN t : k \in DOMAIN (t \o e) /\ (t \o e)[k] = t[k]
  BY <1>2, <1>3
<1>5. ASSUME NEW k \in DOMAIN (t \o e), k \notin DOMAIN t
      PROVE  (t \o e)[k].basicVehicleRole = "roadsideSource"
  <2>1. k - Len(t) \in DOMAIN e /\ (t \o e)[k] = e[k - Len(t)]
    BY <1>2, <1>3, <1>5
  <2>2. QED
    BY <1>1, <2>1
<1>6. Vehicles(t \o e) = Vehicles(t)
  BY <1>4, <1>5 DEF Vehicles, PositionsWithRole
<1>7. QED
  BY <1>6 DEF e

Counted(t) ==
  Cardinality(Vehicles(t)) <= Maximum_Number_Of_Priority_Request + 1

LEMMA RestCounted ==
  ASSUME TypeOK, NEW ids
  PROVE  /\ Rest(ids) \in Seq(Entry)
         /\ Cardinality(Vehicles(Rest(ids))) <= Cardinality(Vehicles(ART))
         /\ Cardinality(Vehicles(Rest(ids)))
              <= Cardinality(Vehicles(ART) \ Those(ART, ids))
<1>1. ART \in Seq(Entry) /\ Rest(ids) \in Seq(Entry)
  BY EraseType DEF TypeOK, Rest
<1>2. Cardinality(Vehicles(Rest(ids))) <= Cardinality(Vehicles(ART) \ Those(ART, ids))
  BY <1>1, VehiclesErased DEF Rest
<1>3. Cardinality(Vehicles(ART) \ Those(ART, ids)) <= Cardinality(Vehicles(ART))
  BY <1>1, VehiclesFinite, FS_Subset
<1>4. /\ Cardinality(Vehicles(Rest(ids))) \in Nat
      /\ Cardinality(Vehicles(ART) \ Those(ART, ids)) \in Nat
      /\ Cardinality(Vehicles(ART)) \in Nat
  BY <1>1, VehiclesFinite, FS_Difference, FS_CardinalityType
<1>5. QED
  BY <1>1, <1>2, <1>3, <1>4

LEMMA CountedStep ==
  ASSUME TypeOK, Paired(ART), Counted(ART), [Next]_vars
  PROVE  Counted(ART')
<1> DEFINE Max == Maximum_Number_Of_Priority_Request
           Card(t) == Cardinality(Vehicles(t))
<1>1. ART \in Seq(Entry) /\ Max \in Nat
  BY TimingAssumption DEF TypeOK
<1>2. Card(ART) \in Nat /\ Card(ART) <= Len(ART) /\ Card(ART) <= Max + 1 /\ Len(ART) \in Nat
  BY <1>1, VehiclesFinite DEF Counted
<1>3. \A t \in Seq(Entry) : Card(t) \in Nat
  BY VehiclesFinite
<1>4. \A ids : Rest(ids) \in Seq(Entry) /\ Card(Rest(ids)) <= Max + 1
  <2>1. \A ids : Rest(ids) \in Seq(Entry) /\ Card(Rest(ids)) <= Card(ART)
    BY RestCounted
  <2>2. QED
    BY <1>1, <1>2, <1>3, <2>1
<1>5. \A t : Rewritten(ART', t) => Card(ART') = Card(t)
  BY VehiclesRewritten
<1>6. ASSUME NEW sr \in SignalRequest, Added(sr)
      PROVE  Card(ART') <= Max + 1
  <2>1. Card(ART \o EntriesFor(sr)) <= Card(ART) + 2
    BY <1>1, VehiclesAppended
  <2>2. Len(ART) < Max /\ Card(ART') = Card(ART \o EntriesFor(sr))
        /\ Card(ART \o EntriesFor(sr)) \in Nat
    BY <1>3, <1>5, <1>6 DEF Added
  <2>3. QED
    BY <1>1, <1>2, <2>1, <2>2
<1>7. ASSUME NEW sr \in SignalRequest, Updated(sr)
      PROVE  Card(ART') <= Max + 1
  <2>1. PICK t, i : Moved(t, i) /\ Rewritten(ART', t)
    BY <1>7 DEF Updated
  <2>2. \A k \in DOMAIN ART : t[k].basicVehicleRole = ART[k].basicVehicleRole
    BY <2>1 DEF Moved
  <2>3. DOMAIN t = DOMAIN ART
    BY <2>1 DEF Moved
  <2>4. Vehicles(t) = Vehicles(ART)
    BY <2>2, <2>3 DEF Vehicles, PositionsWithRole
  <2>5. QED
    BY <1>2, <1>5, <2>1, <2>4
<1>8. ASSUME NEW sr \in SignalRequest, Renewed(sr)
      PROVE  Card(ART') <= Max + 1
  <2> DEFINE rest == Rest({sr.vehicleID})
  <2>1. PICK i, j \in DOMAIN ART : i # j /\ Those(ART, {sr.vehicleID}) = {i, j}
    BY <1>8 DEF Renewed
  <2>2. Card(rest) <= Cardinality(Vehicles(ART) \ {i, j}) /\ rest \in Seq(Entry)
    BY <2>1, RestCounted
  <2>3. i \in Vehicles(ART) /\ j \in Vehicles(ART)
    <3>1. ART[i].vehicleID = sr.vehicleID /\ ART[j].vehicleID = sr.vehicleID
      BY <2>1 DEF Those
    <3>2. RoleOfID(sr.vehicleID) = "fire"
      BY <1>8 DEF Renewed, SignalRequest, RoleOfID
    <3>3. QED
      BY <2>1, <3>1, <3>2 DEF Paired, Orderly, RolesFit, Vehicles, PositionsWithRole
  <2>4. Cardinality(Vehicles(ART) \ {i, j}) = Card(ART) - 2
    <3>1. IsFiniteSet(Vehicles(ART))
      BY <1>1, VehiclesFinite
    <3>2. /\ IsFiniteSet(Vehicles(ART) \ {i})
          /\ Cardinality(Vehicles(ART) \ {i}) = Card(ART) - 1
      BY <2>3, <3>1, FS_RemoveElement
    <3>3. Cardinality((Vehicles(ART) \ {i}) \ {j}) = (Card(ART) - 1) - 1
      BY <2>1, <2>3, <3>2, FS_RemoveElement
    <3>4. (Vehicles(ART) \ {i}) \ {j} = Vehicles(ART) \ {i, j}
      OBVIOUS
    <3>5. Cardinality(Vehicles(ART) \ {i, j}) = (Card(ART) - 1) - 1
      BY <3>3, <3>4
    <3>6. (Card(ART) - 1) - 1 = Card(ART) - 2
      BY <1>2
    <3>7. QED
      BY <3>5, <3>6
  <2>5. Card(rest \o EntriesFor(sr)) <= Card(rest) + 2
    BY <2>2, VehiclesAppended
  <2>6. Card(ART') = Card(rest \o EntriesFor(sr)) /\ Card(ART') \in Nat
    BY <1>3, <1>5, <1>8 DEF Renewed
  <2>7. Card(rest) \in Nat
    BY <1>3, <2>2
  <2>8. QED
    BY <1>1, <1>2, <2>2, <2>4, <2>5, <2>6, <2>7
<1>9. ASSUME NEW sr \in SignalRequest, Cancelled(sr)
      PROVE  Card(ART') <= Max + 1
  BY <1>4, <1>5, <1>9 DEF Cancelled
<1>10. ASSUME NEW list \in CoordinationList, Coordinated(list)
       PROVE  Card(ART') <= Max + 1
  BY <1>4, <1>5, <1>10, VehiclesCoordinated DEF Coordinated
<1>11. CASE Withdrawn
  BY <1>4, <1>11 DEF Withdrawn, Counted
<1>12. ASSUME NEW i \in TimedOut, Expired(i)
       PROVE  Card(ART') <= Max + 1
  BY <1>4, <1>5, <1>12 DEF Expired
<1>13. CASE Kept
  BY <1>2, <1>5, <1>13 DEF Kept, Counted
<1>14. CASE ClearedNow \/ Forgotten
  <2>1. Vehicles(<<>>) = {}
    BY DEF Vehicles
  <2>2. Card(ART') = 0
    BY <1>14, <2>1, FS_EmptySet DEF ClearedNow, Forgotten
  <2>3. QED
    BY <1>1, <2>2 DEF Counted
<1>15. \A k, l \in DOMAIN ART : /\ \A sr \in SignalRequest : ~RenewedInstead(sr, k, l)
                                /\ ~ExpiredInstead(k, l)
  BY PairedNotTaken DEF RenewedInstead, ExpiredInstead
<1>16. Orderly(ART)
  BY DEF Paired
<1>17. QED
  BY <1>15, <1>16, <1>6, <1>7, <1>8, <1>9, <1>10, <1>11, <1>12, <1>13, <1>14, StepKinds DEF Counted

\* The table overflows its configured size by one split phase and by the
\* coordination requests at most, however updates, time-outs and lists follow one
\* another, and holds no coordination request twice.
THEOREM TheTableIsBounded ==
  ASSUME CoordinationInPairs
  PROVE  Spec => []TableBounded
<1>1. Init => Counted(ART)
  <2>1. Vehicles(<<>>) = {}
    BY DEF Vehicles
  <2>2. Cardinality(Vehicles(<<>>)) = 0
    BY <2>1, FS_EmptySet
  <2>3. 0 <= Maximum_Number_Of_Priority_Request + 1
    BY TimingAssumption
  <2>4. QED
    BY <2>2, <2>3 DEF Init, Counted
<1>2. TypeOK /\ Paired(ART) /\ Counted(ART) /\ [Next]_vars => Counted(ART)'
  BY CountedStep
<1>3. Paired(ART) /\ Counted(ART) => TableBounded
  <2> SUFFICES ASSUME Paired(ART), Counted(ART)
               PROVE  TableBounded
    OBVIOUS
  <2>1. \A i, j \in PositionsWithRole(ART, "roadsideSource") :
          ART[i].vehicleID = ART[j].vehicleID => i = j
    BY DEF Paired, Orderly, TwoPhases, PositionsWithRole
  <2>2. QED
    BY <2>1 DEF TableBounded, Counted, Vehicles
<1>4. QED
  BY <1>1, <1>2, <1>3, TypeCorrect, PairedAlways, PTL DEF Spec

-----------------------------------------------------------------------------
(* Who leaves, and why *)

Present(t, id) == \E i \in DOMAIN t : t[i].vehicleID = id

LEMMA PresentRewritten ==
  ASSUME NEW t, NEW id, Rewritten(ART', t), Present(t, id)
  PROVE  PositionsOf(ART', id) # {}
BY DEF Present, Rewritten, PositionsOf

LEMMA PresentRest ==
  ASSUME TypeOK, NEW ids, NEW i \in DOMAIN ART, ART[i].vehicleID \notin ids
  PROVE  Present(Rest(ids), ART[i].vehicleID) /\ Rest(ids) \in Seq(Entry)
<1>1. ART \in Seq(Entry)
  BY DEF TypeOK
<1>2. Rest(ids) \in Seq(Entry) /\ \E n \in DOMAIN Rest(ids) : Rest(ids)[n] = ART[i]
  BY <1>1, ThoseErased DEF Rest
<1>3. QED
  BY <1>2 DEF Present

LEMMA PresentErase ==
  ASSUME TypeOK, NEW K, NEW i \in DOMAIN ART, i \notin K
  PROVE  Present(Erase(ART, K), ART[i].vehicleID) /\ Erase(ART, K) \in Seq(Entry)
<1> DEFINE t == Erase(ART, K)
<1>1. ART \in Seq(Entry) /\ t \in Seq(Entry)
  BY EraseType DEF TypeOK
<1>2. PICK f \in [DOMAIN t -> DOMAIN ART \ K] :
        /\ \A n \in DOMAIN t : t[n] = ART[f[n]]
        /\ \A m, n \in DOMAIN t : f[m] = f[n] => m = n
        /\ \A j \in DOMAIN ART \ K : \E n \in DOMAIN t : f[n] = j
  BY <1>1, EraseSelects
<1> HIDE DEF t
<1>3. PICK n \in DOMAIN t : t[n] = ART[i]
  BY <1>2
<1>4. Present(t, ART[i].vehicleID)
  BY <1>3 DEF Present
<1>5. QED
  BY <1>1, <1>4 DEF t

LEMMA PresentConcat ==
  ASSUME NEW t \in Seq(Entry), NEW e \in Seq(Entry), NEW id,
         Present(t, id) \/ Present(e, id)
  PROVE  Present(t \o e, id)
<1>1. /\ Len(t) \in Nat /\ DOMAIN t = 1 .. Len(t)
      /\ Len(e) \in Nat /\ DOMAIN e = 1 .. Len(e)
      /\ DOMAIN (t \o e) = 1 .. (Len(t) + Len(e))
  OBVIOUS
<1>2. CASE Present(t, id)
  <2>1. PICK i \in DOMAIN t : t[i].vehicleID = id
    BY <1>2 DEF Present
  <2>2. i \in DOMAIN (t \o e) /\ (t \o e)[i] = t[i]
    BY <1>1
  <2>3. QED
    BY <2>1, <2>2 DEF Present
<1>3. CASE Present(e, id)
  <2>1. PICK j \in DOMAIN e : e[j].vehicleID = id
    BY <1>3 DEF Present
  <2>2. Len(t) + j \in DOMAIN (t \o e) /\ (t \o e)[Len(t) + j] = e[j]
    BY <1>1
  <2>3. QED
    BY <2>1, <2>2 DEF Present
<1>4. QED
  BY <1>2, <1>3

LEMMA LeavingStep ==
  ASSUME TypeOK, Orderly(ART), [Next]_vars, NEW i \in DOMAIN ART
  PROVE  StaysOrLeavesForCause(i)
<1> DEFINE id == ART[i].vehicleID
<1> SUFFICES ASSUME id \in Vehicle, PositionsOf(ART', id) = {}
             PROVE  \/ \E sr \in SignalRequest :
                         DeleteRequest(sr) /\ sr.vehicleID = id
                    \/ SocketTimeout /\ ART[i].receivedAge >= requestTimedOutValue
                    \/ \E k \in DOMAIN ART : TakenInstead(i, k) /\ ErasedInPair(k)
                    \/ Restart
  BY DEF StaysOrLeavesForCause
<1>1. ART \in Seq(Entry) /\ Present(ART, id) /\ id \notin CoordinationID
  BY VehicleAssumption DEF TypeOK, Present
<1>2. \A t : Rewritten(ART', t) => ~Present(t, id)
  BY PresentRewritten
<1>3. \A ids : id \notin ids => Present(Rest(ids), id) /\ Rest(ids) \in Seq(Entry)
  BY PresentRest
<1>4. \A sr \in SignalRequest : /\ EntriesFor(sr) \in Seq(Entry)
                                /\ Present(EntriesFor(sr), sr.vehicleID)
  <2> SUFFICES ASSUME NEW sr \in SignalRequest
               PROVE  /\ EntriesFor(sr) \in Seq(Entry)
                      /\ Present(EntriesFor(sr), sr.vehicleID)
    OBVIOUS
  <2>1. /\ EntriesFor(sr) \in Seq(Entry) /\ EntriesFor(sr) # <<>>
        /\ \A n \in DOMAIN EntriesFor(sr) : EntriesFor(sr)[n].vehicleID = sr.vehicleID
    BY EntriesForType, PairedEntriesFor
  <2>2. 1 \in DOMAIN EntriesFor(sr)
    <3>1. Len(EntriesFor(sr)) \in Nat \ {0}
      BY <2>1, EmptySeq
    <3>2. QED
      BY <2>1, <3>1
  <2>3. QED
    BY <2>1, <2>2 DEF Present
<1> HIDE DEF id
<1>5. ASSUME NEW sr \in SignalRequest, Added(sr)
      PROVE  FALSE
  BY <1>1, <1>2, <1>4, <1>5, PresentConcat DEF Added
<1>6. ASSUME NEW sr \in SignalRequest, Updated(sr)
      PROVE  FALSE
  <2>1. PICK t, k : Moved(t, k) /\ Rewritten(ART', t)
    BY <1>6 DEF Updated
  <2>2. \A n \in DOMAIN ART : n \in DOMAIN t /\ t[n].vehicleID = ART[n].vehicleID
    BY <2>1 DEF Moved
  <2>3. Present(t, id)
    BY <1>1, <2>2 DEF Present
  <2>4. QED
    BY <1>2, <2>1, <2>3
<1>7. ASSUME NEW sr \in SignalRequest, Renewed(sr)
      PROVE  FALSE
  <2> DEFINE rest == Rest({sr.vehicleID})
  <2>1. rest \in Seq(Entry)
    BY RestCounted
  <2>2. Present(rest, id) \/ Present(EntriesFor(sr), id)
    BY <1>3, <1>4
  <2>3. Present(rest \o EntriesFor(sr), id)
    BY <1>4, <2>1, <2>2, PresentConcat
  <2>4. QED
    BY <1>2, <1>7, <2>3 DEF Renewed
<1>8. ASSUME NEW sr \in SignalRequest, DeleteRequest(sr), Cancelled(sr)
      PROVE  DeleteRequest(sr) /\ sr.vehicleID = id
  BY <1>2, <1>3, <1>8 DEF Cancelled
<1>9. ASSUME NEW list \in CoordinationList, Coordinated(list)
      PROVE  FALSE
  <2>1. Present(Rest(CoordinationID), id) /\ Rest(CoordinationID) \in Seq(Entry)
    BY <1>1, <1>3
  <2>2. Present(Rest(CoordinationID) \o CoordinationEntries(list), id)
    BY <2>1, CoordinationEntriesType, PresentConcat
  <2>3. QED
    BY <1>2, <1>9, <2>2 DEF Coordinated
<1>10. ~Withdrawn
  BY <1>1, <1>2, <1>3, RewrittenReflexive DEF Withdrawn
<1>11. ASSUME NEW k \in TimedOut, Expired(k)
       PROVE  ART[i].receivedAge >= requestTimedOutValue
  <2>1. k \in DOMAIN ART /\ ART[k].receivedAge >= requestTimedOutValue
    BY DEF TimedOut
  <2>2. id \in Company(ART[k].vehicleID)
    BY <1>2, <1>3, <1>11 DEF Expired
  <2>3. ART[k].vehicleID = id
    BY <1>1, <2>2, AssociateInvolution DEF Company
  <2>4. ART[i].receivedAge = ART[k].receivedAge
    BY <2>1, <2>3 DEF Orderly, TwoPhases, id
  <2>5. QED
    BY <2>1, <2>4
<1>12. ASSUME NEW sr \in SignalRequest, UpdateEmergencyRequest(sr),
              NEW k \in DOMAIN ART, NEW l \in DOMAIN ART, RenewedInstead(sr, k, l)
       PROVE  TakenInstead(i, k) /\ ErasedInPair(k)
  <2>1. /\ TakenInstead(l, k) /\ ART[k].vehicleID = sr.vehicleID
        /\ Rewritten(ART', Erase(ART, {k, l}) \o EntriesFor(sr))
    BY <1>12 DEF RenewedInstead
  <2>2. ErasedInPair(k)
    BY <1>12, <2>1 DEF ErasedInPair
  <2>3. Erase(ART, {k, l}) \in Seq(Entry)
    BY <1>1, EraseType
  <2>4. ~Present(Erase(ART, {k, l}), id) /\ ~Present(EntriesFor(sr), id)
    BY <1>2, <1>4, <2>1, <2>3, PresentConcat
  <2>5. i # k
    BY <1>4, <2>1, <2>4 DEF id
  <2>6. i = l
    BY <2>4, <2>5, PresentErase DEF id
  <2>7. QED
    BY <2>1, <2>2, <2>6
<1>13. ASSUME SocketTimeout,
              NEW k \in DOMAIN ART, NEW l \in DOMAIN ART, ExpiredInstead(k, l)
       PROVE  \/ SocketTimeout /\ ART[i].receivedAge >= requestTimedOutValue
              \/ TakenInstead(i, k) /\ ErasedInPair(k)
  <2>1. /\ TakenInstead(l, k) /\ ART[k].receivedAge >= requestTimedOutValue
        /\ Rewritten(ART', Erase(ART, {k, l}))
    BY <1>13 DEF ExpiredInstead, TimedOut
  <2>2. ErasedInPair(k)
    BY <1>13, <2>1 DEF ErasedInPair
  <2>3. ~Present(Erase(ART, {k, l}), id)
    BY <1>2, <2>1
  <2>4. i \in {k, l}
    BY <2>3, PresentErase DEF id
  <2>5. QED
    BY <1>13, <2>1, <2>2, <2>4
<1>14. ~Kept
  BY <1>1, <1>2 DEF Kept
<1>15. ~ClearedNow
  BY DEF ClearedNow
<1>16. QED
  BY <1>5, <1>6, <1>7, <1>8, <1>9, <1>10, <1>11, <1>12, <1>13, <1>14, <1>15,
     StepKinds

\* A vehicle loses its place in the table when it cancelled or fell silent, or
\* when the process died; and on account of another only where that other one
\* is erased as one of a pair whose second half is missing, and itself stands
\* last: for whatever lists that name no virtual requester twice.
THEOREM VehiclesLeaveForCause ==
  ASSUME CoordinationOnce
  PROVE  Spec => LeavesForCause
<1>1. TypeOK /\ Orderly(ART) /\ [Next]_vars =>
        [\A i \in DOMAIN ART : StaysOrLeavesForCause(i)]_vars
  BY LeavingStep
<1>2. QED
  BY <1>1, TypeCorrect, OrderlyAlways, PTL DEF Spec, LeavesForCause

-----------------------------------------------------------------------------
(* What the solver knows, whatever lists the coordination generator sends *)

\* The solver is told of the table as it is.
News ==
  \E t \in Seq(Entry), c \in BOOLEAN : Rewritten(ART', t) /\ Told(t, c)

LEMMA SRMNews ==
  ASSUME NEW t \in Seq(Entry), NEW c \in BOOLEAN, FinishSRM(t, TRUE, c)
  PROVE  News
BY SRMFinished DEF News

LEMMA ManageNews ==
  ASSUME TypeOK, NEW sr \in SignalRequest, ManageAccepted(sr)
  PROVE  News \/ Kept \/ Forgotten
<1>1. ART \in Seq(Entry)
  BY DEF TypeOK
<1>2. CASE AddRequest(sr)
  <2>1. ART \o EntriesFor(sr) \in Seq(Entry)
    BY <1>1, EntriesForType, ConcatProperties
  <2>2. QED
    BY <1>2, <2>1, SRMNews DEF AddRequest
<1>3. CASE UpdateRequest(sr)
  <2> DEFINE i == Nth(PositionsOf(ART, sr.vehicleID), 1)
             e == [ART[i] EXCEPT !.basicVehicleRole = RoleOf[sr.vehicleID],
                                 !.signalGroup = sr.signalGroup,
                                 !.receivedAge = 0]
             t == [ART EXCEPT ![i].basicVehicleRole = RoleOf[sr.vehicleID],
                              ![i].signalGroup = sr.signalGroup,
                              ![i].receivedAge = 0]
  <2>1. FinishSRM(t, TRUE, FALSE) /\ PositionsOf(ART, sr.vehicleID) # {}
    BY <1>3 DEF UpdateRequest, updateActiveRequestTable
  <2>2. i \in DOMAIN ART
    BY <2>1, FoundEntry DEF PositionsOf
  <2>3. RoleOf[sr.vehicleID] \in Role /\ sr.signalGroup \in SignalGroup
    BY VehicleAssumption DEF SignalRequest
  <2>4. 0 \in 0 .. requestTimedOutValue
    BY TimingAssumption
  <2> HIDE DEF i
  <2>5. ART[i] \in Entry
    BY <1>1, <2>2
  <2>6. e \in Entry
    BY <2>3, <2>4, <2>5 DEF Entry
  <2>7. t = [ART EXCEPT ![i] = e]
    BY <1>1, <2>2
  <2> HIDE DEF e, t
  <2>8. t \in Seq(Entry)
    BY <1>1, <2>2, <2>6, <2>7
  <2>9. QED
    BY <2>1, <2>8, SRMNews
<1>4. CASE UpdateEmergencyRequest(sr)
  <2> DEFINE found == PositionsOf(ART, sr.vehicleID)
             first == Nth(found, 1)
  <2>1. \/ \E table \in EraseTwice(ART, first, found \ {first}) :
              FinishSRM(table \o EntriesFor(sr), TRUE, FALSE)
        \/ Restart
    BY <1>4 DEF UpdateEmergencyRequest
  <2> HIDE DEF found, first
  <2>2. ASSUME NEW table \in EraseTwice(ART, first, found \ {first}),
               FinishSRM(table \o EntriesFor(sr), TRUE, FALSE)
        PROVE  News
    <3>1. table \o EntriesFor(sr) \in Seq(Entry)
      BY <1>1, EraseTwiceType, EntriesForType, ConcatProperties
    <3>2. QED
      BY <2>2, <3>1, SRMNews
  <2>3. QED
    BY <2>1, <2>2 DEF Restart, Forgotten
<1>5. CASE DeleteRequest(sr)
  <2>1. PICK gone :
          FinishSRM(Erase(ART, gone), TRUE,
                    RoleOf[sr.vehicleID] = "fire" /\ ClearForEV(Erase(ART, gone)))
    BY <1>5 DEF DeleteRequest
  <2>2. Erase(ART, gone) \in Seq(Entry)
    BY <1>1, EraseType
  <2>3. (RoleOf[sr.vehicleID] = "fire" /\ ClearForEV(Erase(ART, gone))) \in BOOLEAN
    OBVIOUS
  <2>4. QED
    BY <2>1, <2>2, <2>3, SRMNews
<1>6. CASE KeepRequest(sr)
  BY <1>6, KeepRequestTable
<1>7. QED
  BY <1>2, <1>3, <1>4, <1>5, <1>6 DEF ManageAccepted

LEMMA TimeoutNews ==
  ASSUME TypeOK, DeleteTimedOut
  PROVE  News \/ Forgotten
<1> DEFINE timedOutID == ART[Nth(TimedOut, 1)].vehicleID
           i == Nth(PositionsOf(ART, timedOutID), 1)
           isEV == ART[i].basicVehicleRole = "fire"
           outcomes == IF HasPartner(ART[i]) THEN EraseTwice(ART, i, PartnersOf(i))
                                             ELSE {Erase(ART, {i})}
<1>1. \/ \E table \in outcomes :
            createJsonStringForPrioritySolver(table, isEV /\ ClearForEV(table))
      \/ Restart
  BY DEF DeleteTimedOut
<1>2. ART \in Seq(Entry)
  BY DEF TypeOK
<1>3. ASSUME NEW table \in outcomes
      PROVE  table \in Seq(Entry)
  <2> HIDE DEF i
  <2>1. QED
    BY <1>2, <1>3, EraseTwiceType, EraseType
<1>4. ASSUME NEW table \in outcomes, NEW c \in BOOLEAN,
             createJsonStringForPrioritySolver(table, c)
      PROVE  News
  <2> HIDE DEF outcomes
  <2>1. QED
    BY <1>3, <1>4, SolverTold DEF News
<1>5. ASSUME NEW table
      PROVE  (isEV /\ ClearForEV(table)) \in BOOLEAN
  OBVIOUS
<1> HIDE DEF outcomes, isEV
<1>6. QED
  BY <1>1, <1>4, <1>5 DEF Restart, Forgotten

LEMMA StepNews ==
  ASSUME TypeOK, [Next]_vars
  PROVE  \/ News \/ Kept \/ Forgotten
         \/ ART' = VehicleRequests(ART) /\ solver' = solver
<1>1. ART \in Seq(Entry)
  BY DEF TypeOK
<1>2. ASSUME NEW list \in CoordinationList, ReplaceCoordination(list)
      PROVE  News
  <2> DEFINE t == VehicleRequests(ART) \o CoordinationEntries(list)
             new == setPriorityRequestStatus(t)
  <2>1. t \in Seq(Entry)
    <3>1. VehicleRequests(ART) \in Seq(Entry)
      BY <1>1, EraseType DEF VehicleRequests
    <3>2. QED
      BY <3>1, CoordinationEntriesType, ConcatProperties
  <2>2. AnswerDatagram(new, TRUE, TRUE, FALSE)
    BY <1>2 DEF ReplaceCoordination
  <2> HIDE DEF t
  <2>3. new \in Seq(Entry)
    BY <2>1, SetStatusType
  <2> HIDE DEF new
  <2>4. QED
    BY <2>2, <2>3, DatagramAnswered DEF News
<1>3. CASE manageCoordinationRequest
  BY <1>2, <1>3 DEF manageCoordinationRequest, ClearCoordination, AnswerDatagram
<1>4. CASE manageSignalRequestTable
  BY <1>4, ManageNews, UnchangedTable DEF manageSignalRequestTable, RejectRequest
<1>5. CASE ReceiveUnknown
  BY <1>5, UnchangedTable DEF ReceiveUnknown
<1>6. CASE SocketTimeout
  <2>1. CASE DeleteTimedOut
    BY <2>1, TimeoutNews
  <2>2. CASE NoTimedOut
    <3>1. ASSUME ART = <<>>, ART' = ART, solver' = ClearRequest
          PROVE  News
      <4>1. Rewritten(ART', <<>>) /\ Told(<<>>, FALSE) /\ <<>> \in Seq(Entry)
        BY <3>1, RewrittenReflexive DEF Told
      <4>2. QED
        BY <4>1 DEF News
    <3>2. QED
      BY <2>2, <3>1, NoTimedOutTable
  <2>3. QED
    BY <1>6, <2>1, <2>2 DEF SocketTimeout
<1>7. CASE Tick
  BY <1>7, TickTable
<1>8. CASE Restart
  BY <1>8 DEF Restart, Forgotten
<1>9. CASE UNCHANGED vars
  BY <1>9, RewrittenReflexive DEF vars, Kept
<1>10. QED
  BY <1>3, <1>4, <1>5, <1>6, <1>7, <1>8, <1>9 DEF Next, Datagram

\* What the solver would be told of a table.
Wanted(t) ==
  {<<t[i].vehicleID, t[i].basicVehicleRole, t[i].signalGroup>> : i \in DOMAIN t}

LEMMA WantedIsListed ==
  ASSUME NEW t
  PROVE  /\ Requests(PriorityRequestList(t).requestorInfo) = Wanted(t)
         /\ \A msg : Listed(msg, t) => Requests(msg.requestorInfo) = Wanted(t)
<1>1. ASSUME NEW msg, Listed(msg, t)
      PROVE  Requests(msg.requestorInfo) = Wanted(t)
  BY <1>1 DEF Listed, Requests, Wanted
<1>2. Listed(PriorityRequestList(t), t)
  BY DEF Listed, PriorityRequestList
<1>3. QED
  BY <1>1, <1>2

LEMMA WantedRewritten ==
  ASSUME NEW t, NEW u, Rewritten(t, u)
  PROVE  Wanted(t) = Wanted(u)
BY DEF Rewritten, Wanted

\* Without the coordination entries, the requests of the vehicles are wanted.
LEMMA WantedOfVehicles ==
  ASSUME NEW t \in Seq(Entry)
  PROVE  Wanted(VehicleRequests(t)) = OfVehicles(Wanted(t))
<1> DEFINE K == PositionsWithRole(t, "roadsideSource")
           E == Erase(t, K)
<1>1. PICK f \in [DOMAIN E -> DOMAIN t \ K] :
        /\ \A n \in DOMAIN E : E[n] = t[f[n]]
        /\ \A m, n \in DOMAIN E : f[m] = f[n] => m = n
        /\ \A i \in DOMAIN t \ K : \E n \in DOMAIN E : f[n] = i
  BY EraseSelects
<1>2. \A i \in DOMAIN t : i \in K <=> t[i].basicVehicleRole = "roadsideSource"
  BY DEF PositionsWithRole
<1> HIDE DEF E, K
<1>3. ASSUME NEW x \in Wanted(E)
      PROVE  x \in OfVehicles(Wanted(t))
  <2>1. PICK n \in DOMAIN E :
          x = <<E[n].vehicleID, E[n].basicVehicleRole, E[n].signalGroup>>
    BY DEF Wanted
  <2>2. f[n] \in DOMAIN t /\ E[n] = t[f[n]] /\ t[f[n]].basicVehicleRole # "roadsideSource"
    BY <1>1, <1>2
  <2>3. QED
    BY <2>1, <2>2 DEF Wanted, OfVehicles
<1>4. ASSUME NEW x \in OfVehicles(Wanted(t))
      PROVE  x \in Wanted(E)
  <2>1. PICK i \in DOMAIN t :
          x = <<t[i].vehicleID, t[i].basicVehicleRole, t[i].signalGroup>>
    BY DEF Wanted, OfVehicles
  <2>2. i \in DOMAIN t \ K
    BY <1>2, <2>1 DEF OfVehicles
  <2>3. PICK n \in DOMAIN E : f[n] = i
    BY <1>1, <2>2
  <2>4. QED
    BY <1>1, <2>1, <2>3 DEF Wanted
<1>5. Wanted(E) = OfVehicles(Wanted(t))
  BY <1>3, <1>4
<1>6. QED
  BY <1>5 DEF VehicleRequests, E, K

InStep(t, msg) ==
  LET wanted  == Wanted(t)
      planned == Requests(msg.requestorInfo)
  IN  /\ msg.MsgType = "PriorityRequest" =>
           wanted = {} \/ wanted = planned \/ wanted = OfVehicles(planned)
      /\ msg.MsgType = "None" => t = <<>>

LEMMA InStepStep ==
  ASSUME TypeOK, InStep(ART, solver), [Next]_vars
  PROVE  InStep(ART', solver')
<1>1. ART \in Seq(Entry) /\ ART' \in Seq(Entry)
  BY NextStep DEF TypeOK, StepOutcome
<1>2. CASE News
  <2>1. PICK t \in Seq(Entry), c \in BOOLEAN : Rewritten(ART', t) /\ Told(t, c)
    BY <1>2 DEF News
  <2>2. CASE solver' = ClearRequest
    BY <2>2 DEF InStep, ClearRequest
  <2>3. CASE solver'.MsgType = "PriorityRequest" /\ Listed(solver', t)
    <3>1. Requests(solver'.requestorInfo) = Wanted(ART')
      BY <2>1, <2>3, WantedIsListed, WantedRewritten
    <3>2. QED
      BY <2>3, <3>1 DEF InStep
  <2>4. QED
    BY <2>1, <2>2, <2>3 DEF Told
<1>3. CASE Kept
  <2>1. Wanted(ART') = Wanted(ART) /\ solver' = solver
    BY <1>3, WantedRewritten DEF Kept
  <2>2. ART' = <<>> <=> ART = <<>>
    BY <1>1, <1>3, EmptyTable DEF Kept, Rewritten
  <2>3. QED
    BY <2>1, <2>2 DEF InStep
<1>4. CASE Forgotten
  BY <1>4 DEF Forgotten, InStep, Wanted
<1>5. CASE ART' = VehicleRequests(ART) /\ solver' = solver
  <2>1. Wanted(ART') = OfVehicles(Wanted(ART))
    BY <1>1, <1>5, WantedOfVehicles
  <2>2. OfVehicles({}) = {} /\ \A R : OfVehicles(OfVehicles(R)) = OfVehicles(R)
    BY DEF OfVehicles
  <2>3. ART = <<>> => ART' = <<>>
    <3>1. ASSUME ART = <<>>, ART' # <<>>
          PROVE  FALSE
      <4>1. 1 \in DOMAIN ART'
        <5>1. Len(ART') \in Nat \ {0}
          BY <1>1, <3>1, EmptySeq
        <5>2. QED
          BY <1>1, <5>1
      <4>2. Wanted(ART') # {}
        BY <4>1 DEF Wanted
      <4>3. Wanted(ART) = {}
        BY <3>1 DEF Wanted
      <4>4. QED
        BY <2>1, <2>2, <4>2, <4>3
    <3>2. QED
      BY <3>1
  <2>4. QED
    BY <1>5, <2>1, <2>2, <2>3 DEF InStep
<1>6. QED
  BY <1>2, <1>3, <1>4, <1>5, StepNews

\* The solver plans for the requests of the table, or for those and the
\* coordination requests withdrawn since, or will be told that there are none;
\* also after erasures of end(), whatever lists the coordination generator sends.
THEOREM TheSolverIsInStep == Spec => []SolverInStep
<1>1. Init => InStep(ART, solver)
  BY DEF Init, InStep, NoMessage
<1>2. TypeOK /\ InStep(ART, solver) /\ [Next]_vars => InStep(ART, solver)'
  BY InStepStep
<1>3. InStep(ART, solver) /\ ClearIsOnTheWire => SolverInStep
  <2>1. Requests(PriorityRequestList(ART).requestorInfo) = Wanted(ART)
    BY WantedIsListed
  <2>2. ClearIsOnTheWire /\ sentClearRequest => solver.MsgType = "ClearRequest"
    BY DEF ClearIsOnTheWire, ClearRequest
  <2>3. QED
    BY <2>1, <2>2 DEF InStep, SolverInStep
<1>4. QED
  BY <1>1, <1>2, <1>3, TypeCorrect, ClearRequestOnTheWire, PTL DEF Spec

-----------------------------------------------------------------------------
(* The server implements the priority service *)

LEMMA IDsRewritten ==
  ASSUME NEW t, NEW u, Rewritten(t, u)
  PROVE  /\ IDsOf(t) = IDsOf(u) /\ Halved(t) = Halved(u)
         /\ SameStatus(t, u) => GrantedIDs(t) = GrantedIDs(u)
<1>1. /\ IDsOf(t) = IDsOf(u)
      /\ SameStatus(t, u) => GrantedIDs(t) = GrantedIDs(u)
  BY DEF Rewritten, SameStatus, IDsOf, GrantedIDs
<1>2. \A v : PositionsOf(t, v) = PositionsOf(u, v)
  BY DEF Rewritten, PositionsOf
<1>3. DOMAIN t = DOMAIN u
  BY DEF Rewritten
<1>4. Halved(t) = Halved(u)
  BY <1>2, <1>3 DEF Halved
<1>5. QED
  BY <1>1, <1>4

\* What is left of a requester's entries, when those at the positions K are gone.
LEMMA PositionsErased ==
  ASSUME TypeOK, NEW K, NEW v
  PROVE  LET t == Erase(ART, K)
         IN  /\ t \in Seq(Entry)
             /\ v \in IDsOf(t) <=> PositionsOf(ART, v) \ K # {}
             /\ (\E n \in DOMAIN t : PositionsOf(t, v) = {n}) <=>
                  \E i \in DOMAIN ART : PositionsOf(ART, v) \ K = {i}
<1> DEFINE t == Erase(ART, K)
           left == PositionsOf(ART, v) \ K
<1>1. ART \in Seq(Entry) /\ t \in Seq(Entry)
  BY EraseType DEF TypeOK
<1>2. PICK f \in [DOMAIN t -> DOMAIN ART \ K] :
        /\ \A n \in DOMAIN t : t[n] = ART[f[n]]
        /\ \A m, n \in DOMAIN t : f[m] = f[n] => m = n
        /\ \A i \in DOMAIN ART \ K : \E n \in DOMAIN t : f[n] = i
  BY <1>1, EraseSelects
<1> HIDE DEF t
<1>3. \A n \in DOMAIN t : n \in PositionsOf(t, v) <=> f[n] \in left
  BY <1>2 DEF PositionsOf
<1>4. /\ \A i \in left : i \in DOMAIN ART \ K
      /\ \A n \in PositionsOf(t, v) : n \in DOMAIN t
  BY DEF PositionsOf
<1> HIDE DEF left
<1>5. v \in IDsOf(t) <=> left # {}
  <2>1. v \in IDsOf(t) <=> \E n \in DOMAIN t : n \in PositionsOf(t, v)
    BY DEF IDsOf, PositionsOf
  <2>2. QED
    BY <1>2, <1>3, <1>4, <2>1
<1>6. ASSUME NEW n \in DOMAIN t, PositionsOf(t, v) = {n}
      PROVE  left = {f[n]} /\ f[n] \in DOMAIN ART
  <2>1. f[n] \in left /\ f[n] \in DOMAIN ART
    BY <1>2, <1>3, <1>6
  <2>2. \A i \in left : i = f[n]
    <3> SUFFICES ASSUME NEW i \in left
                 PROVE  i = f[n]
      OBVIOUS
    <3>1. PICK m \in DOMAIN t : f[m] = i
      BY <1>2, <1>4
    <3>2. QED
      BY <1>3, <1>6, <3>1
  <2>3. QED
    BY <2>1, <2>2
<1>7. ASSUME NEW i \in DOMAIN ART, left = {i}
      PROVE  \E n \in DOMAIN t : PositionsOf(t, v) = {n}
  <2>1. PICK n \in DOMAIN t : f[n] = i
    BY <1>2, <1>4, <1>7
  <2>2. \A m \in PositionsOf(t, v) : m = n
    BY <1>2, <1>3, <1>4, <1>7, <2>1
  <2>3. n \in PositionsOf(t, v)
    BY <1>3, <1>7, <2>1
  <2>4. QED
    BY <2>2, <2>3
<1>8. QED
  BY <1>1, <1>5, <1>6, <1>7 DEF t, left

\* Who is halved among those who are left when some requesters have gone.
LEMMA HalvedRest ==
  ASSUME TypeOK, NEW ids
  PROVE  Halved(Rest(ids)) = Halved(ART) \ ids
<1> DEFINE t == Rest(ids)
           K == Those(ART, ids)
<1>1. \A v : (\E n \in DOMAIN t : PositionsOf(t, v) = {n}) <=>
              \E i \in DOMAIN ART : PositionsOf(ART, v) \ K = {i}
  BY PositionsErased DEF Rest
<1>2. ASSUME NEW v
      PROVE  PositionsOf(ART, v) \ K = IF v \in ids THEN {} ELSE PositionsOf(ART, v)
  BY DEF PositionsOf, Those
<1> HIDE DEF t, K
<1>3. \A v : (\E n \in DOMAIN t : PositionsOf(t, v) = {n}) <=>
              v \notin ids /\ \E i \in DOMAIN ART : PositionsOf(ART, v) = {i}
  BY <1>1, <1>2
<1>4. QED
  BY <1>3 DEF Halved, t

\* Who is halved in a table to which entries of other requesters are added.
LEMMA HalvedConcat ==
  ASSUME NEW t \in Seq(Entry), NEW e \in Seq(Entry),
         \A i \in DOMAIN t, j \in DOMAIN e : t[i].vehicleID # e[j].vehicleID,
         \A v \in Emergencies : \A j \in DOMAIN e : PositionsOf(e, v) # {j}
  PROVE  Halved(t \o e) = Halved(t)
<1> DEFINE u == t \o e
<1>1. /\ Len(t) \in Nat /\ DOMAIN t = 1 .. Len(t)
      /\ Len(e) \in Nat /\ DOMAIN e = 1 .. Len(e)
      /\ DOMAIN u = 1 .. (Len(t) + Len(e))
      /\ \A i \in 1 .. Len(t) : u[i] = t[i]
      /\ \A j \in 1 .. Len(e) : u[Len(t) + j] = e[j]
  OBVIOUS
<1>2. \A k \in DOMAIN u : k \in DOMAIN t \/ \E j \in DOMAIN e : k = Len(t) + j
  <2> SUFFICES ASSUME NEW k \in DOMAIN u, k \notin DOMAIN t
               PROVE  \E j \in DOMAIN e : k = Len(t) + j
    OBVIOUS
  <2>1. k - Len(t) \in DOMAIN e /\ k = Len(t) + (k - Len(t))
    BY <1>1
  <2>2. QED
    BY <2>1
<1>3. /\ \A i \in DOMAIN t : i \in DOMAIN u /\ u[i] = t[i]
      /\ \A j \in DOMAIN e : Len(t) + j \in DOMAIN u /\ u[Len(t) + j] = e[j]
      /\ \A j, m \in DOMAIN e : Len(t) + j = Len(t) + m => j = m
  BY <1>1
<1> HIDE DEF u
<1>4. ASSUME NEW v \in Emergencies
      PROVE  (\E k \in DOMAIN u : PositionsOf(u, v) = {k}) <=>
               \E i \in DOMAIN t : PositionsOf(t, v) = {i}
  <2>1. CASE \E j \in DOMAIN e : e[j].vehicleID = v
    <3>1. PICK j \in DOMAIN e : e[j].vehicleID = v
      BY <2>1
    <3>2. PICK m \in DOMAIN e : m # j /\ e[m].vehicleID = v
      BY <3>1 DEF PositionsOf
    <3>3. /\ Len(t) + j \in PositionsOf(u, v) /\ Len(t) + m \in PositionsOf(u, v)
          /\ Len(t) + j # Len(t) + m
      BY <1>3, <3>1, <3>2 DEF PositionsOf
    <3>4. PositionsOf(t, v) = {}
      BY <3>1 DEF PositionsOf
    <3>5. QED
      BY <3>3, <3>4
  <2>2. CASE \A j \in DOMAIN e : e[j].vehicleID # v
    <3>1. PositionsOf(u, v) = PositionsOf(t, v)
      BY <1>2, <1>3, <2>2 DEF PositionsOf
    <3>2. QED
      BY <1>3, <3>1 DEF PositionsOf
  <2>3. QED
    BY <2>1, <2>2
<1>5. QED
  BY <1>4 DEF Halved, u

LEMMA IDsOfRest ==
  ASSUME TypeOK, NEW ids
  PROVE  /\ IDsOf(Rest(ids)) = IDsOf(ART) \ ids
         /\ GrantedIDs(Rest(ids)) = GrantedIDs(ART) \ ids
<1> DEFINE t == Rest(ids)
<1>1. ART \in Seq(Entry)
  BY DEF TypeOK
<1>2. /\ \A n \in DOMAIN t : t[n].vehicleID \notin ids
      /\ \A n \in DOMAIN t : \E i \in DOMAIN ART : t[n] = ART[i]
      /\ \A i \in DOMAIN ART : ART[i].vehicleID \notin ids =>
           \E n \in DOMAIN t : t[n] = ART[i]
  BY <1>1, ThoseErased DEF Rest
<1> HIDE DEF t
<1>3. IDsOf(t) = IDsOf(ART) \ ids
  BY <1>2 DEF IDsOf
<1>4. GrantedIDs(t) = GrantedIDs(ART) \ ids
  <2>1. ASSUME NEW x \in GrantedIDs(t)
        PROVE  x \in GrantedIDs(ART) \ ids
    <3>1. PICK n \in DOMAIN t : x = t[n].vehicleID /\ t[n].prsStatus = "granted"
      BY DEF GrantedIDs
    <3>2. PICK i \in DOMAIN ART : t[n] = ART[i]
      BY <1>2
    <3>3. QED
      BY <1>2, <3>1, <3>2 DEF GrantedIDs
  <2>2. ASSUME NEW x \in GrantedIDs(ART) \ ids
        PROVE  x \in GrantedIDs(t)
    <3>1. PICK i \in DOMAIN ART : x = ART[i].vehicleID /\ ART[i].prsStatus = "granted"
      BY DEF GrantedIDs
    <3>2. PICK n \in DOMAIN t : t[n] = ART[i]
      BY <1>2, <3>1
    <3>3. QED
      BY <3>1, <3>2 DEF GrantedIDs
  <2>3. QED
    BY <2>1, <2>2
<1>5. QED
  BY <1>3, <1>4 DEF t

LEMMA IDsOfConcat ==
  ASSUME NEW t \in Seq(Entry), NEW e \in Seq(Entry)
  PROVE  IDsOf(t \o e) = IDsOf(t) \cup IDsOf(e)
<1>1. ASSUME NEW x \in IDsOf(t) \cup IDsOf(e)
      PROVE  x \in IDsOf(t \o e)
  <2>1. Present(t, x) \/ Present(e, x)
    BY DEF IDsOf, Present
  <2>2. Present(t \o e, x)
    BY <2>1, PresentConcat
  <2>3. QED
    BY <2>2 DEF IDsOf, Present
<1>2. ASSUME NEW x \in IDsOf(t \o e)
      PROVE  x \in IDsOf(t) \cup IDsOf(e)
  <2>1. PICK k \in DOMAIN (t \o e) : x = (t \o e)[k].vehicleID
    BY DEF IDsOf
  <2>2. /\ Len(t) \in Nat /\ DOMAIN t = 1 .. Len(t)
        /\ Len(e) \in Nat /\ DOMAIN e = 1 .. Len(e)
        /\ k \in 1 .. (Len(t) + Len(e))
    OBVIOUS
  <2>3. CASE k <= Len(t)
    <3>1. k \in DOMAIN t /\ (t \o e)[k] = t[k]
      BY <2>2, <2>3
    <3>2. QED
      BY <2>1, <3>1 DEF IDsOf
  <2>4. CASE k > Len(t)
    <3>1. k - Len(t) \in DOMAIN e /\ (t \o e)[k] = e[k - Len(t)]
      BY <2>2, <2>4
    <3>2. QED
      BY <2>1, <3>1 DEF IDsOf
  <2>5. QED
    BY <2>2, <2>3, <2>4
<1>3. QED
  BY <1>1, <1>2

LEMMA IDsEmpty ==
  /\ IDsOf(<<>>) = {} /\ GrantedIDs(<<>>) = {}
  /\ \A t \in Seq(Entry) : IDsOf(t) = {} => t = <<>>
<1>1. IDsOf(<<>>) = {} /\ GrantedIDs(<<>>) = {}
  BY DEF IDsOf, GrantedIDs
<1>2. ASSUME NEW t \in Seq(Entry), IDsOf(t) = {}
      PROVE  t = <<>>
  <2>1. DOMAIN t = {}
    BY <1>2 DEF IDsOf
  <2>2. QED
    BY <2>1, EmptyTable
<1>3. QED
  BY <1>1, <1>2

\* An emergency vehicle is in the table when its ID is.
LEMMA EmergencyInList ==
  ASSUME NEW t \in Seq(Entry), RolesFit(t)
  PROVE  findEVInList(t) <=> IDsOf(t) \cap Emergencies # {}
<1>1. \A i \in DOMAIN t :
        t[i].basicVehicleRole = "fire" <=> t[i].vehicleID \in Emergencies
  BY DEF RolesFit, RoleOfID, Emergencies
<1>2. QED
  BY <1>1 DEF findEVInList, PositionsWithRole, IDsOf

\* Freshly assigned statuses grant what the service lets be granted.
LEMMA AssignedGrants ==
  ASSUME NEW t \in Seq(Entry), RolesFit(t), Assigned(t)
  PROVE  GrantedIDs(t) = IF IDsOf(t) \cap Emergencies # {}
                           THEN IDsOf(t) \cap Emergencies
                           ELSE IDsOf(t) \cap Eligibles
<1>1. ASSUME NEW i \in DOMAIN t
      PROVE  /\ t[i].basicVehicleRole = "fire" <=> t[i].vehicleID \in Emergencies
             /\ t[i].basicVehicleRole # "otherRole" <=> t[i].vehicleID \in Eligibles
             /\ t[i].prsStatus = "granted" <=>
                  IF findEVInList(t) THEN t[i].basicVehicleRole = "fire"
                                     ELSE t[i].basicVehicleRole # "otherRole"
  <2>1. t[i] \in Entry
    OBVIOUS
  <2>2. /\ t[i].vehicleID \in Vehicle \cup CoordinationID
        /\ t[i].basicVehicleRole = RoleOfID(t[i].vehicleID)
        /\ t[i].prsStatus = StatusFor(t[i].basicVehicleRole, findEVInList(t))
    BY <2>1 DEF RolesFit, Assigned, Entry
  <2>3. t[i].basicVehicleRole = "fire" <=> t[i].vehicleID \in Emergencies
    BY <2>2 DEF RoleOfID, Emergencies
  <2>4. t[i].basicVehicleRole # "otherRole" <=> t[i].vehicleID \in Eligibles
    BY <2>2, RoleOfRequester DEF RoleOfID, Eligibles
  <2>5. t[i].prsStatus = "granted" <=>
          IF findEVInList(t) THEN t[i].basicVehicleRole = "fire"
                             ELSE t[i].basicVehicleRole # "otherRole"
    BY <2>2 DEF StatusFor
  <2>6. QED
    BY <2>3, <2>4, <2>5
<1>2. findEVInList(t) <=> IDsOf(t) \cap Emergencies # {}
  BY EmergencyInList
<1>3. CASE findEVInList(t)
  BY <1>1, <1>2, <1>3 DEF GrantedIDs, IDsOf
<1>4. CASE ~findEVInList(t)
  BY <1>1, <1>2, <1>4 DEF GrantedIDs, IDsOf
<1>5. QED
  BY <1>3, <1>4

\* The solver is told to plan for those who are in the table, or for nobody.
LEMMA ToldPlan ==
  ASSUME NEW t \in Seq(Entry), NEW c, Told(t, c)
  PROVE  IDsOf(solver'.requestorInfo) = IF c THEN {} ELSE IDsOf(t)
<1>1. CASE solver' = ClearRequest /\ (c \/ t = <<>>)
  BY <1>1, IDsEmpty DEF ClearRequest
<1>2. CASE Listed(solver', t) /\ ~c
  BY <1>2 DEF Listed, IDsOf
<1>3. QED
  BY <1>1, <1>2 DEF Told

LEMMA EntriesForIDs ==
  ASSUME NEW sr \in SignalRequest
  PROVE  /\ IDsOf(EntriesFor(sr)) = {sr.vehicleID} /\ EntriesFor(sr) \in Seq(Entry)
         /\ \A v \in Emergencies : \A j \in DOMAIN EntriesFor(sr) :
              PositionsOf(EntriesFor(sr), v) # {j}
<1> DEFINE e == EntriesFor(sr)
<1>1. /\ e \in Seq(Entry) /\ e # <<>>
      /\ \A i \in DOMAIN e : e[i].vehicleID = sr.vehicleID
  BY EntriesForType, PairedEntriesFor
<1> HIDE DEF e
<1>2. 1 \in DOMAIN e
  <2>1. Len(e) \in Nat \ {0}
    BY <1>1, EmptySeq
  <2>2. QED
    BY <1>1, <2>1
<1>3. IDsOf(e) = {sr.vehicleID}
  BY <1>1, <1>2 DEF IDsOf
<1>4. ASSUME NEW v \in Emergencies, NEW j \in DOMAIN e, PositionsOf(e, v) = {j}
      PROVE  FALSE
  <2>1. e[j].vehicleID = v /\ v = sr.vehicleID /\ RoleOf[v] = "fire"
    BY <1>1, <1>4 DEF PositionsOf, Emergencies
  <2>2. NoSinglePhase(e) /\ e[j].basicVehicleRole = "fire"
    <3>1. NoSinglePhase(e) /\ RolesFit(e)
      BY PairedEntriesFor DEF Paired, Orderly, e
    <3>2. QED
      BY <2>1, <3>1 DEF RolesFit, RoleOfID, Emergencies
  <2>3. PICK k \in DOMAIN e \ {j} : e[k].vehicleID = e[j].vehicleID
    BY <2>2 DEF NoSinglePhase
  <2>4. QED
    BY <1>4, <2>1, <2>3 DEF PositionsOf
<1>5. QED
  BY <1>1, <1>3, <1>4 DEF e

\* The service's state and grants, in the terms of the table.
LEMMA GrantableIDs ==
  ASSUME NEW t \in Seq(Entry), RolesFit(t), Assigned(t)
  PROVE  GrantedIDs(t) = Service!Grantable(IDsOf(t))
BY AssignedGrants DEF Service!Grantable, Emergencies, Eligibles

\* Whom the solver plans for when requesters leave the table.
LEMMA PlanWithoutIDs ==
  ASSUME NEW t \in Seq(Entry), RolesFit(t), NEW gone, NEW c \in BOOLEAN,
         c <=> gone \cap Emergencies # {}, Told(t, c /\ ClearForEV(t))
  PROVE  IDsOf(solver'.requestorInfo) = Service!PlanWithout(gone, IDsOf(t))
<1>1. IDsOf(solver'.requestorInfo) = IF c /\ ClearForEV(t) THEN {} ELSE IDsOf(t)
  BY ToldPlan
<1>2. findEVInList(t) <=> IDsOf(t) \cap Emergencies # {}
  BY EmergencyInList
<1>3. t = <<>> => IDsOf(t) = {}
  BY IDsEmpty
<1>4. QED
  BY <1>1, <1>2, <1>3 DEF Service!PlanWithout, ClearForEV

\* A vehicle's entries added to a table without it.
LEMMA PushedIDs ==
  ASSUME NEW t \in Seq(Entry), NEW sr \in SignalRequest, sr.vehicleID \notin IDsOf(t)
  PROVE  /\ IDsOf(t \o EntriesFor(sr)) = IDsOf(t) \cup {sr.vehicleID}
         /\ Halved(t \o EntriesFor(sr)) = Halved(t)
<1> DEFINE e == EntriesFor(sr)
<1>1. /\ e \in Seq(Entry) /\ IDsOf(e) = {sr.vehicleID}
      /\ \A v \in Emergencies : \A j \in DOMAIN e : PositionsOf(e, v) # {j}
  BY EntriesForIDs
<1> HIDE DEF e
<1>2. \A i \in DOMAIN t, j \in DOMAIN e : t[i].vehicleID # e[j].vehicleID
  BY <1>1 DEF IDsOf
<1>3. IDsOf(t \o e) = IDsOf(t) \cup {sr.vehicleID} /\ Halved(t \o e) = Halved(t)
  BY <1>1, <1>2, IDsOfConcat, HalvedConcat
<1>4. QED
  BY <1>3 DEF e

\* What the service sees when entry l goes instead of the partner of k: one of
\* the two requests of an emergency vehicle, or all there is of somebody else.
LEMMA InsteadIDs ==
  ASSUME TypeOK, Orderly(ART), EmergencyExclusive,
         NEW k \in DOMAIN ART, NEW l \in DOMAIN ART, TakenInstead(l, k)
  PROVE  LET v == ART[k].vehicleID
             w == ART[l].vehicleID
             t == Erase(ART, {k, l})
             A == IDsOf(ART)
         IN  /\ v \in A /\ w \in A /\ v # w
             /\ v \in Vehicle \cup CoordinationID /\ w \in Vehicle \cup CoordinationID
             /\ v \in Vehicle => v \in Halved(ART)
             /\ Service!Incomplete(v)
             /\ IF w \in Emergencies \ Halved(ART)
                  THEN /\ IDsOf(t) = A \ {v}
                       /\ Halved(t) = (Halved(ART) \ {v}) \cup {w}
                  ELSE /\ IDsOf(t) = A \ {v, w}
                       /\ Halved(t) = Halved(ART) \ {v, w}
             /\ GrantedIDs(t) = GrantedIDs(ART) \cap IDsOf(t)
<1> DEFINE v == ART[k].vehicleID
           w == ART[l].vehicleID
           K == {k, l}
           t == Erase(ART, K)
           A == IDsOf(ART)
<1>1. /\ l # k
      /\ \A j \in DOMAIN ART : ART[j].vehicleID = v => j = k
      /\ ART[k].basicVehicleRole = "roadsideSource" =>
           \A j \in DOMAIN ART : ART[j].vehicleID # Associate(v)
      /\ ART[k].basicVehicleRole \in {"fire", "roadsideSource"}
  BY TakenApart
<1>2. /\ ART \in Seq(Entry) /\ ART[k] \in Entry /\ ART[l] \in Entry
      /\ \A i \in DOMAIN ART : ART[i].basicVehicleRole = RoleOfID(ART[i].vehicleID)
  BY DEF TypeOK, Orderly, RolesFit
<1>3. /\ v \in A /\ w \in A /\ v # w
      /\ v \in Vehicle \cup CoordinationID /\ w \in Vehicle \cup CoordinationID
  BY <1>1, <1>2 DEF IDsOf, Entry
<1>4. PositionsOf(ART, v) = {k}
  BY <1>1 DEF PositionsOf
<1>5. v \in Vehicle => v \in Halved(ART)
  <2>1. v \in Vehicle => RoleOf[v] = "fire"
    <3>1. v \in Vehicle => RoleOf[v] \in Role
      BY VehicleAssumption
    <3>2. QED
      BY <1>1, <1>2, <3>1 DEF RoleOfID, Role
  <2>2. QED
    BY <1>4, <2>1 DEF Halved, Emergencies
<1>6. Service!Incomplete(v)
  <2>1. CASE v \in Vehicle
    BY <1>5, <2>1 DEF Service!Incomplete
  <2>2. CASE v \in CoordinationID
    <3>1. ART[k].basicVehicleRole = "roadsideSource"
      BY <1>2, <2>2, RoleOfRequester
    <3>2. Associate(v) \notin A
      BY <1>1, <3>1 DEF IDsOf
    <3>3. QED
      BY <2>2, <3>2 DEF Service!Incomplete
  <2>3. QED
    BY <1>3, <2>1, <2>2
<1>7. ASSUME NEW x
      PROVE  /\ x \in IDsOf(t) <=> PositionsOf(ART, x) \ K # {}
             /\ (\E n \in DOMAIN t : PositionsOf(t, x) = {n}) <=>
                  \E i \in DOMAIN ART : PositionsOf(ART, x) \ K = {i}
             /\ x \in A <=> PositionsOf(ART, x) # {}
             /\ \A i : i \in PositionsOf(ART, x) <=>
                        i \in DOMAIN ART /\ ART[i].vehicleID = x
  <2>1. \A i : i \in PositionsOf(ART, x) <=> i \in DOMAIN ART /\ ART[i].vehicleID = x
    BY DEF PositionsOf
  <2>2. x \in A <=> PositionsOf(ART, x) # {}
    BY DEF IDsOf, PositionsOf
  <2> HIDE DEF K
  <2>3. /\ x \in IDsOf(t) <=> PositionsOf(ART, x) \ K # {}
        /\ (\E n \in DOMAIN t : PositionsOf(t, x) = {n}) <=>
             \E i \in DOMAIN ART : PositionsOf(ART, x) \ K = {i}
    BY PositionsErased
  <2>4. QED
    BY <2>1, <2>2, <2>3
<1>8. ASSUME NEW x, x # v, x # w
      PROVE  PositionsOf(ART, x) \ K = PositionsOf(ART, x)
  BY <1>8 DEF PositionsOf
<1>9. PositionsOf(ART, v) \ K = {}
  BY <1>4
<1>10. ASSUME w \in Emergencies \ Halved(ART)
       PROVE  IDsOf(t) = A \ {v} /\ Halved(t) = (Halved(ART) \ {v}) \cup {w}
  <2>1. PICK m \in DOMAIN ART \ {l} : ART[m].vehicleID = w
    <3>1. PositionsOf(ART, w) # {l}
      BY <1>10 DEF Halved
    <3>2. l \in PositionsOf(ART, w)
      BY <1>7
    <3>3. QED
      BY <1>7, <3>1, <3>2
  <2>2. PositionsOf(ART, w) = {l, m}
    BY <2>1 DEF Orderly, TwoPhases, PositionsOf
  <2>3. PositionsOf(ART, w) \ K = {m}
    BY <1>3, <2>1, <2>2
  <2> HIDE DEF t, K, v, w, A
  <2>4. IDsOf(t) = A \ {v}
    BY <1>3, <1>7, <1>8, <1>9, <2>3
  <2>5. Halved(t) = (Halved(ART) \ {v}) \cup {w}
    BY <1>3, <1>7, <1>8, <1>9, <1>10, <2>1, <2>3 DEF Halved
  <2>6. QED
    BY <2>4, <2>5
<1>11. ASSUME w \notin Emergencies \ Halved(ART)
       PROVE  IDsOf(t) = A \ {v, w} /\ Halved(t) = Halved(ART) \ {v, w}
  <2>1. PositionsOf(ART, w) = {l}
    <3>1. CASE w \in Halved(ART)
      <4>1. PICK i : PositionsOf(ART, w) = {i}
        BY <3>1 DEF Halved
      <4>2. l \in PositionsOf(ART, w)
        BY <1>7
      <4>3. QED
        BY <4>1, <4>2
    <3>2. CASE w \notin Emergencies
      <4>1. ART[l].basicVehicleRole # "fire"
        BY <1>2, <3>2 DEF RoleOfID, Emergencies
      <4>2. QED
        BY <4>1 DEF Orderly, TwoPhases, PositionsOf
    <3>3. QED
      BY <1>11, <3>1, <3>2
  <2>2. PositionsOf(ART, w) \ K = {}
    BY <2>1
  <2> HIDE DEF t, K, v, w, A
  <2>3. IDsOf(t) = A \ {v, w}
    BY <1>7, <1>8, <1>9, <2>2
  <2>4. Halved(t) = Halved(ART) \ {v, w}
    BY <1>7, <1>8, <1>9, <2>2 DEF Halved
  <2>5. QED
    BY <2>3, <2>4
<1>12. GrantedIDs(t) = GrantedIDs(ART) \cap IDsOf(t)
  <2>1. ASSUME NEW i \in DOMAIN ART, NEW j \in DOMAIN ART,
               ART[i].vehicleID = ART[j].vehicleID, ART[i].prsStatus = "granted"
        PROVE  ART[j].prsStatus = "granted"
    <3>1. i # j => /\ ART[i].basicVehicleRole = "fire"
                   /\ ART[j].basicVehicleRole = "fire"
      BY <2>1 DEF Orderly, TwoPhases
    <3>2. i # j => findEVInList(ART)
      BY <3>1 DEF findEVInList, PositionsWithRole
    <3>3. QED
      BY <2>1, <3>1, <3>2 DEF EmergencyExclusive
  <2> HIDE DEF K
  <2>2. PICK f \in [DOMAIN t -> DOMAIN ART \ K] :
          /\ \A n \in DOMAIN t : t[n] = ART[f[n]]
          /\ \A m, n \in DOMAIN t : f[m] = f[n] => m = n
          /\ \A i \in DOMAIN ART \ K : \E n \in DOMAIN t : f[n] = i
    BY <1>2, EraseSelects
  <2> HIDE DEF t
  <2>3. \A n \in DOMAIN t : f[n] \in DOMAIN ART /\ t[n] = ART[f[n]]
    BY <2>2
  <2>4. GrantedIDs(t) \subseteq GrantedIDs(ART) \cap IDsOf(t)
    BY <2>3 DEF GrantedIDs, IDsOf
  <2>5. ASSUME NEW x \in GrantedIDs(ART) \cap IDsOf(t)
        PROVE  x \in GrantedIDs(t)
    <3>1. PICK n \in DOMAIN t : t[n].vehicleID = x
      BY DEF IDsOf
    <3>2. PICK i \in DOMAIN ART : ART[i].vehicleID = x /\ ART[i].prsStatus = "granted"
      BY DEF GrantedIDs
    <3>3. t[n].prsStatus = "granted"
      BY <2>1, <2>3, <3>1, <3>2
    <3>4. QED
      BY <3>1, <3>3 DEF GrantedIDs
  <2>6. QED
    BY <2>4, <2>5
<1>13. IF w \in Emergencies \ Halved(ART)
         THEN IDsOf(t) = A \ {v} /\ Halved(t) = (Halved(ART) \ {v}) \cup {w}
         ELSE IDsOf(t) = A \ {v, w} /\ Halved(t) = Halved(ART) \ {v, w}
  <2> HIDE DEF t, v, w, K, A
  <2>1. QED
    BY <1>10, <1>11
<1>14. QED
  BY <1>3, <1>5, <1>6, <1>12, <1>13

LEMMA CoordinationEntriesIDs ==
  ASSUME NEW list \in CoordinationList, list # <<>>
  PROVE  /\ CoordinationEntries(list) \in Seq(Entry)
         /\ IDsOf(CoordinationEntries(list)) \in (SUBSET CoordinationID) \ {{}}
<1> DEFINE e == CoordinationEntries(list)
<1>1. list \in Seq([vehicleID : CoordinationID, requestedPhase : SignalGroup])
  BY CoordinationAssumption
<1>2. DOMAIN e = DOMAIN list /\ \A i \in DOMAIN e : e[i].vehicleID \in CoordinationID
  <2>1. DOMAIN e = DOMAIN list
    BY DEF CoordinationEntries
  <2>2. ASSUME NEW i \in DOMAIN list
        PROVE  e[i].vehicleID \in CoordinationID
    <3> DEFINE request == [vehicleID : CoordinationID, requestedPhase : SignalGroup]
    <3>1. list[i].vehicleID \in CoordinationID
      <4>1. list \in Seq(request)
        BY <1>1
      <4> HIDE DEF request
      <4>2. list[i] \in request
        BY <4>1
      <4>3. QED
        BY <4>2 DEF request
    <3>2. e[i].vehicleID = list[i].vehicleID
      BY DEF CoordinationEntries, NewEntry
    <3>3. QED
      BY <3>1, <3>2
  <2>3. QED
    BY <2>1, <2>2
<1>3. 1 \in DOMAIN list
  BY <1>1, EmptySeq
<1>4. e \in Seq(Entry)
  BY CoordinationEntriesType
<1> HIDE DEF e
<1>5. IDsOf(e) \in (SUBSET CoordinationID) \ {{}}
  BY <1>2, <1>3 DEF IDsOf
<1>6. QED
  BY <1>4, <1>5 DEF e

\* Every kind of step is a step of the service or leaves the service's state.
LEMMA ServiceStep ==
  ASSUME CoordinationOnce, TypeOK, Orderly(ART), EmergencyExclusive, [Next]_vars
  PROVE  [Service!ServNext]_Service!servVars
<1> DEFINE G  == GrantedIDs(ART)
           G1 == GrantedIDs(ART')
           P  == IDsOf(solver.requestorInfo)
           P1 == IDsOf(solver'.requestorInfo)
           A  == IDsOf(ART)
           A1 == IDsOf(ART')
           H  == Halved(ART)
           H1 == Halved(ART')
<1>1. ART \in Seq(Entry) /\ ART' \in Seq(Entry)
  BY NextStep DEF TypeOK, StepOutcome
<1>2. RolesFit(ART')
  BY OrderlyStep DEF Orderly
<1>3. Assigned(ART') => G1 = Service!Grantable(A1)
  BY <1>1, <1>2, GrantableIDs
<1>4. \A t : Rewritten(ART', t) => A1 = IDsOf(t) /\ H1 = Halved(t)
  BY IDsRewritten
<1>5. ASSUME NEW v \in Vehicle, NEW t \in Seq(Entry), IDsOf(t) = A \cup {v},
             v \notin H, Halved(t) = H,
             Rewritten(ART', t), Assigned(ART'), Told(t, FALSE)
      PROVE  Service!ServNext
  <2>1. /\ A1 = A \cup {v} /\ G1 = Service!Grantable(A1) /\ P1 = A1
        /\ H1 = H
    <3>1. A1 = A \cup {v} /\ G1 = Service!Grantable(A1) /\ H1 = H
      BY <1>3, <1>4, <1>5
    <3>2. P1 = IDsOf(t)
      BY <1>5, ToldPlan
    <3>3. QED
      BY <1>5, <3>1, <3>2
  <2>2. Service!Serve(v)
    BY <1>5, <2>1 DEF Service!Serve
  <2>3. v \in (Vehicle \cup CoordinationID) \ CoordinationID
    BY VehicleAssumption
  <2>4. QED
    BY <2>2, <2>3 DEF Service!ServNext
<1>6. ASSUME NEW sr \in SignalRequest, Added(sr)
      PROVE  Service!ServNext
  <2>1. PositionsOf(ART, sr.vehicleID) = {}
    BY <1>6 DEF Added
  <2>2. sr.vehicleID \in Vehicle /\ sr.vehicleID \notin A /\ sr.vehicleID \notin H
    BY <2>1 DEF SignalRequest, PositionsOf, IDsOf, Halved
  <2>3. /\ IDsOf(ART \o EntriesFor(sr)) = A \cup {sr.vehicleID}
        /\ Halved(ART \o EntriesFor(sr)) = H
    BY <1>1, <2>2, PushedIDs
  <2>4. QED
    BY <1>5, <1>6, <2>2, <2>3 DEF Added
<1>7. ASSUME NEW sr \in SignalRequest, Updated(sr)
      PROVE  Service!ServNext
  <2>1. PICK t, i : /\ Moved(t, i) /\ ART[i].vehicleID = sr.vehicleID
                    /\ Rewritten(ART', t) /\ Assigned(ART') /\ Told(t, FALSE)
    BY <1>7 DEF Updated
  <2>2. IDsOf(t) = A \cup {sr.vehicleID}
    BY <2>1 DEF Moved, IDsOf
  <2>3. t \in Seq(Entry) /\ sr.vehicleID \in Vehicle
    BY <2>1 DEF Moved, SignalRequest
  <2>4. sr.vehicleID \notin H
    BY <2>1 DEF Moved, Orderly, RolesFit, RoleOfID, Halved, Emergencies
  <2>5. Halved(t) = H
    <3>1. DOMAIN t = DOMAIN ART /\ \A x : PositionsOf(t, x) = PositionsOf(ART, x)
      BY <2>1 DEF Moved, PositionsOf
    <3>2. QED
      BY <3>1 DEF Halved
  <2>6. QED
    BY <1>5, <2>1, <2>2, <2>3, <2>4, <2>5
<1>8. ASSUME NEW sr \in SignalRequest, Renewed(sr)
      PROVE  Service!ServNext
  <2> DEFINE v == sr.vehicleID
             t == Rest({v}) \o EntriesFor(sr)
  <2>1. Rest({v}) \in Seq(Entry)
    BY <1>1, ThoseErased DEF Rest
  <2>2. IDsOf(Rest({v})) = A \ {v} /\ Halved(Rest({v})) = H \ {v}
    BY IDsOfRest, HalvedRest
  <2>3. IDsOf(t) = (A \ {v}) \cup {v} /\ Halved(t) = H \ {v}
    BY <2>1, <2>2, PushedIDs
  <2>4. v \in Vehicle
    BY DEF SignalRequest
  <2>5. v \notin H
    BY <1>8 DEF Renewed, Those, PositionsOf, Halved
  <2>6. QED
    BY <1>5, <1>8, <2>3, <2>4, <2>5 DEF Renewed
<1>9. ASSUME NEW sr \in SignalRequest, Cancelled(sr)
      PROVE  Service!ServNext
  <2> DEFINE v == sr.vehicleID
             t == Rest({v})
  <2>1. v \in (Vehicle \cup CoordinationID) \ CoordinationID /\ v \in Vehicle
    BY VehicleAssumption DEF SignalRequest
  <2>2. v \in A
    BY <1>9 DEF Cancelled, PositionsOf, IDsOf
  <2>3. A1 = A \ {v} /\ H1 = H \ {v}
    BY <1>4, <1>9, IDsOfRest, HalvedRest DEF Cancelled
  <2>4. G1 = Service!Grantable(A1)
    BY <1>3, <1>9 DEF Cancelled
  <2>5. P1 = Service!PlanWithout({v}, IDsOf(t))
    <3>1. (RoleOf[v] = "fire") <=> {v} \cap Emergencies # {}
      BY <2>1 DEF Emergencies
    <3>2. (RoleOf[v] = "fire") \in BOOLEAN
      OBVIOUS
    <3>3. Told(t, RoleOf[v] = "fire" /\ ClearForEV(t))
      BY <1>9 DEF Cancelled
    <3>4. t \in Seq(Entry) /\ RolesFit(t)
      BY OrderlyRest DEF Orderly
    <3> HIDE DEF t
    <3>5. QED
      BY <3>1, <3>2, <3>3, <3>4, PlanWithoutIDs
  <2>6. IDsOf(t) = A \ {v}
    BY IDsOfRest
  <2>7. Service!Cancel(v)
    BY <2>2, <2>3, <2>4, <2>5, <2>6 DEF Service!Cancel
  <2>8. QED
    BY <2>1, <2>7 DEF Service!ServNext
<1>10. ASSUME NEW i \in TimedOut, Expired(i)
       PROVE  Service!ServNext
  <2>1. i \in DOMAIN ART
    BY DEF TimedOut
  <2>2. ART[i] \in Entry
    BY <1>1, <2>1
  <2>3. PICK id \in Vehicle \cup CoordinationID : id \in A /\ id = ART[i].vehicleID
    BY <2>1, <2>2 DEF IDsOf, Entry
  <2> DEFINE gone == Company(id)
             t == Rest(gone)
  <2>4. ART[i].basicVehicleRole = RoleOfID(id)
    BY <2>1, <2>3 DEF Orderly, RolesFit
  <2>5. gone # {} /\ gone \subseteq A /\ \A x \in gone : ~Service!Incomplete(x)
    <3>1. CASE id \in CoordinationID
      <4>1. ART[i].basicVehicleRole = "roadsideSource"
        BY <2>3, <2>4, <3>1, RoleOfRequester
      <4>2. PICK j \in DOMAIN ART : ART[j].vehicleID = Associate(id)
        BY <1>10, <2>3, <4>1 DEF Expired, HasPartner, PartnersOf, PositionsOf
      <4>3. gone = {id, Associate(id)} /\ Associate(id) \in A
        BY <3>1, <4>2 DEF Company, IDsOf
      <4>4. \A x \in gone : x \in CoordinationID /\ Associate(x) \in gone
        BY <3>1, <4>3, AssociateInvolution
      <4> HIDE DEF gone
      <4>5. \A x \in gone : x \notin H /\ Associate(x) \in A
        BY <2>3, <4>3, <4>4, VehicleAssumption DEF Halved, Emergencies
      <4>6. QED
        BY <2>3, <4>3, <4>4, <4>5 DEF Service!Incomplete
    <3>2. CASE id \notin CoordinationID
      <4>1. gone = {id}
        BY <3>2 DEF Company
      <4>2. id \notin H
        <5>1. ASSUME id \in Emergencies
              PROVE  \E j \in PositionsOf(ART, id) : j # i
          <6>1. ART[i].basicVehicleRole = "fire"
            BY <2>4, <5>1 DEF RoleOfID, Emergencies
          <6>2. QED
            BY <1>10, <2>3, <6>1 DEF Expired, HasPartner, PartnersOf
        <5>2. i \in PositionsOf(ART, id)
          BY <2>1, <2>3 DEF PositionsOf
        <5>3. QED
          BY <5>1, <5>2 DEF Halved
      <4>3. QED
        BY <2>3, <3>2, <4>1, <4>2 DEF Service!Incomplete
    <3>3. QED
      BY <3>1, <3>2
  <2>6. A1 = A \ gone /\ G1 = G \ gone /\ H1 = H
    <3>1. A1 = A \ gone /\ G1 = G \ gone /\ H1 = H \ gone
      BY <1>10, <2>3, IDsRewritten, IDsOfRest, HalvedRest DEF Expired
    <3>2. \A x \in gone : x \notin H
      BY <2>5 DEF Service!Incomplete
    <3>3. QED
      BY <3>1, <3>2
  <2>7. P1 = Service!PlanWithout(gone, IDsOf(t))
    <3>1. (ART[i].basicVehicleRole = "fire") <=> gone \cap Emergencies # {}
      <4>1. CASE id \in CoordinationID
        <5>1. /\ Associate(id) \in CoordinationID /\ gone = {id, Associate(id)}
              /\ id \notin Vehicle /\ Associate(id) \notin Vehicle
          BY <4>1, AssociateInvolution, VehicleAssumption DEF Company
        <5> HIDE DEF gone
        <5>2. QED
          BY <2>3, <2>4, <5>1 DEF Emergencies, RoleOfID
      <4>2. CASE id \notin CoordinationID
        BY <2>3, <2>4, <4>2 DEF Emergencies, RoleOfID, Company
      <4>3. QED
        BY <4>1, <4>2
    <3>2. (ART[i].basicVehicleRole = "fire") \in BOOLEAN
      OBVIOUS
    <3>3. Told(t, ART[i].basicVehicleRole = "fire" /\ ClearForEV(t))
      BY <1>10, <2>3 DEF Expired
    <3>4. t \in Seq(Entry) /\ RolesFit(t)
      BY OrderlyRest DEF Orderly
    <3> HIDE DEF gone, t
    <3>5. QED
      BY <3>1, <3>2, <3>3, <3>4, PlanWithoutIDs
  <2>8. IDsOf(t) = A \ gone
    BY IDsOfRest
  <2>9. Service!Expire(gone)
    <3> HIDE DEF gone
    <3>1. QED
      BY <2>5, <2>6, <2>7, <2>8 DEF Service!Expire
  <2>10. \/ gone = {id} /\ id \in (Vehicle \cup CoordinationID) \ CoordinationID
         \/ gone = {id, Associate(id)} /\ id \in CoordinationID
    BY <2>3 DEF Company
  <2> HIDE DEF gone
  <2>11. CASE gone = {id} /\ id \in (Vehicle \cup CoordinationID) \ CoordinationID
    <3>1. Service!Expire({id})
      BY <2>9, <2>11
    <3>2. QED
      BY <2>11, <3>1 DEF Service!ServNext
  <2>12. CASE gone = {id, Associate(id)} /\ id \in CoordinationID
    <3>1. Service!Expire({id, [c \in CoordinationID |-> Associate(c)][id]})
      BY <2>9, <2>12
    <3>2. QED
      BY <2>12, <3>1 DEF Service!ServNext
  <2>13. QED
    BY <2>10, <2>11, <2>12
<1>11. ASSUME NEW list \in CoordinationList, Coordinated(list)
       PROVE  Service!ServNext
  <2> DEFINE e == CoordinationEntries(list)
             t == Rest(CoordinationID) \o e
  <2>1. /\ list # <<>> /\ t \in Seq(Entry) /\ Rewritten(ART', t)
        /\ Assigned(ART') /\ Told(t, FALSE)
    BY <1>11 DEF Coordinated
  <2>2. e \in Seq(Entry) /\ IDsOf(e) \in (SUBSET CoordinationID) \ {{}}
    BY <2>1, CoordinationEntriesIDs
  <2>3. Rest(CoordinationID) \in Seq(Entry)
    BY <1>1, ThoseErased DEF Rest
  <2> HIDE DEF e
  <2>4. IDsOf(t) = (A \ CoordinationID) \cup IDsOf(e) /\ Halved(t) = H
    <3> DEFINE rest == Rest(CoordinationID)
    <3>1. IDsOf(rest) = A \ CoordinationID /\ Halved(rest) = H \ CoordinationID
      BY IDsOfRest, HalvedRest
    <3>2. H \ CoordinationID = H
      BY VehicleAssumption DEF Halved, Emergencies
    <3>3. \A j \in DOMAIN e : e[j].vehicleID \in CoordinationID
      BY <2>2 DEF IDsOf
    <3>4. \A i \in DOMAIN rest : rest[i].vehicleID \notin CoordinationID
      BY OrderlyRest
    <3> HIDE DEF rest
    <3>5. \A i \in DOMAIN rest, j \in DOMAIN e : rest[i].vehicleID # e[j].vehicleID
      BY <3>3, <3>4
    <3>6. \A v \in Emergencies : \A j \in DOMAIN e : PositionsOf(e, v) # {j}
      BY <3>3, VehicleAssumption DEF Emergencies, PositionsOf
    <3>7. IDsOf(rest \o e) = IDsOf(rest) \cup IDsOf(e) /\ Halved(rest \o e) = Halved(rest)
      BY <2>2, <2>3, <3>5, <3>6, IDsOfConcat, HalvedConcat DEF rest
    <3>8. QED
      BY <3>1, <3>2, <3>7 DEF rest
  <2> HIDE DEF t
  <2>5. A1 = IDsOf(t) /\ P1 = IDsOf(t) /\ G1 = Service!Grantable(A1) /\ H1 = H
    BY <1>3, <1>4, <2>1, <2>4, ToldPlan
  <2>6. Service!Coordinate(IDsOf(e))
    BY <2>4, <2>5 DEF Service!Coordinate
  <2>7. QED
    BY <2>2, <2>6 DEF Service!ServNext
<1>12. CASE Withdrawn
  <2>1. /\ A1 = A \ CoordinationID /\ G1 = G \ CoordinationID /\ P1 = P
        /\ H1 = H \ CoordinationID
    BY <1>12, IDsOfRest, HalvedRest DEF Withdrawn
  <2>2. H1 = H
    BY <2>1, VehicleAssumption DEF Halved, Emergencies
  <2>3. Service!Withdraw
    BY <2>1, <2>2 DEF Service!Withdraw
  <2>4. QED
    BY <2>3 DEF Service!ServNext
<1>13. CASE Kept
  <2>1. A1 = A /\ P1 = P /\ H1 = H
    BY <1>13, IDsRewritten DEF Kept
  <2>2. CASE Assigned(ART')
    <3>1. G1 = Service!Grantable(A)
      BY <1>3, <2>1, <2>2
    <3>2. Service!Review
      BY <2>1, <3>1 DEF Service!Review
    <3>3. QED
      BY <3>2 DEF Service!ServNext
  <2>3. CASE SameStatus(ART', ART)
    <3>1. G1 = G
      BY <1>13, <2>3, IDsRewritten DEF Kept
    <3>2. QED
      BY <2>1, <3>1 DEF Service!servVars
  <2>4. QED
    BY <1>13, <2>2, <2>3 DEF Kept
<1>14. CASE ClearedNow
  <2>1. A = {} /\ A1 = {} /\ G = {} /\ G1 = {} /\ P1 = {} /\ H1 = H
    BY <1>14, IDsEmpty DEF ClearedNow, ClearRequest
  <2>2. Service!Clear
    BY <2>1 DEF Service!Clear
  <2>3. QED
    BY <2>2 DEF Service!ServNext
<1>15. CASE Forgotten
  <2>1. A1 = {} /\ G1 = {} /\ P1 = P /\ H1 = {}
    <3>1. ART' = <<>> /\ P1 = P
      BY <1>15 DEF Forgotten
    <3>2. Halved(<<>>) = {}
      BY DEF Halved
    <3>3. QED
      BY <3>1, <3>2, IDsEmpty
  <2>2. Service!Forget
    BY <2>1 DEF Service!Forget
  <2>3. QED
    BY <2>2 DEF Service!ServNext
<1>16. ASSUME NEW sr \in SignalRequest, NEW k \in DOMAIN ART, NEW l \in DOMAIN ART,
              RenewedInstead(sr, k, l)
       PROVE  Service!ServNext
  <2> DEFINE v == ART[k].vehicleID
             w == ART[l].vehicleID
             rest == Erase(ART, {k, l})
             t == rest \o EntriesFor(sr)
  <2>1. /\ v = sr.vehicleID /\ TakenInstead(l, k) /\ t \in Seq(Entry)
        /\ Rewritten(ART', t) /\ Assigned(ART') /\ Told(t, FALSE)
    BY <1>16 DEF RenewedInstead
  <2>2. /\ v \in A /\ w \in A /\ v # w /\ v \in Vehicle /\ v \in H
        /\ w \in Vehicle \cup CoordinationID
    BY <2>1, InsteadIDs DEF SignalRequest
  <2>3. IF w \in Emergencies \ H
          THEN IDsOf(rest) = A \ {v} /\ Halved(rest) = (H \ {v}) \cup {w}
          ELSE IDsOf(rest) = A \ {v, w} /\ Halved(rest) = H \ {v, w}
    BY <2>1, InsteadIDs
  <2>4. rest \in Seq(Entry)
    BY <1>1, EraseType
  <2> HIDE DEF v, w, rest
  <2>5. IDsOf(t) = IDsOf(rest) \cup {v} /\ Halved(t) = Halved(rest)
    BY <2>1, <2>3, <2>4, PushedIDs
  <2> HIDE DEF t
  <2>6. A1 = IDsOf(t) /\ H1 = Halved(t) /\ P1 = A1 /\ G1 = Service!Grantable(A1)
    <3>1. A1 = IDsOf(t) /\ H1 = Halved(t) /\ G1 = Service!Grantable(A1)
      BY <1>3, <1>4, <2>1
    <3>2. P1 = IDsOf(t)
      BY <2>1, ToldPlan
    <3>3. QED
      BY <3>1, <3>2
  <2>7. IF w \in Emergencies \ H
          THEN A1 = A /\ H1 = (H \ {v}) \cup {w}
          ELSE A1 = A \ {w} /\ H1 = H \ {v, w}
    BY <2>2, <2>3, <2>5, <2>6
  <2>8. Service!ServeInstead(v, w)
    BY <2>2, <2>6, <2>7
       DEF Service!ServeInstead, Service!LoseInstead, Service!Incomplete
  <2>9. QED
    BY <2>2, <2>8 DEF Service!ServNext
<1>17. ASSUME NEW k \in DOMAIN ART, NEW l \in DOMAIN ART, ExpiredInstead(k, l)
       PROVE  Service!ServNext
  <2> DEFINE v == ART[k].vehicleID
             w == ART[l].vehicleID
             t == Erase(ART, {k, l})
             c == ART[k].basicVehicleRole = "fire"
  <2>1. /\ TakenInstead(l, k) /\ Rewritten(ART', t) /\ SameStatus(ART', t)
        /\ Told(t, c /\ ClearForEV(t))
    BY <1>17 DEF ExpiredInstead
  <2>2. /\ v \in A /\ w \in A /\ v # w /\ Service!Incomplete(v)
        /\ v \in Vehicle \cup CoordinationID /\ w \in Vehicle \cup CoordinationID
        /\ GrantedIDs(t) = G \cap IDsOf(t)
    BY <2>1, InsteadIDs
  <2>3. IF w \in Emergencies \ H
          THEN IDsOf(t) = A \ {v} /\ Halved(t) = (H \ {v}) \cup {w}
          ELSE IDsOf(t) = A \ {v, w} /\ Halved(t) = H \ {v, w}
    BY <2>1, InsteadIDs
  <2>4. t \in Seq(Entry) /\ RolesFit(t)
    BY <2>1, OrderlyInstead DEF Orderly
  <2>5. c <=> {v} \cap Emergencies # {}
    BY <1>1 DEF Orderly, RolesFit, RoleOfID, Emergencies
  <2>6. c \in BOOLEAN
    OBVIOUS
  <2> HIDE DEF v, w, t, c
  <2>7. A1 = IDsOf(t) /\ H1 = Halved(t) /\ G1 = G \cap A1
    BY <2>1, <2>2, IDsRewritten
  <2>8. P1 = Service!PlanWithout({v}, A1)
    BY <2>1, <2>4, <2>5, <2>6, <2>7, PlanWithoutIDs
  <2>9. Service!LoseInstead(v, w, A \ {v})
    BY <2>2, <2>3, <2>7 DEF Service!LoseInstead
  <2>10. Service!ExpireInstead(v, w)
    BY <2>7, <2>8, <2>9 DEF Service!ExpireInstead
  <2>11. QED
    BY <2>2, <2>10 DEF Service!ServNext
<1>18. QED
  BY <1>6, <1>7, <1>8, <1>9, <1>10, <1>11, <1>12, <1>13, <1>14, <1>15, <1>16, <1>17,
     StepKinds

\* The server implements the priority service, whatever lists it is sent that
\* name no virtual requester twice: whoever is admitted is planned for in the
\* same step, an emergency vehicle pre-empts the others, and a service ends by
\* cancellation, silence, withdrawal or a crash, or where half of somebody else's
\* pair is missing, and then at the cost of one request.
THEOREM ServerImplementsService ==
  ASSUME CoordinationOnce
  PROVE  Spec => ImplementsService
<1>1. Init => Service!ServInit
  <2>1. Init => /\ IDsOf(ART) = {} /\ GrantedIDs(ART) = {} /\ Halved(ART) = {}
                /\ IDsOf(solver.requestorInfo) = {}
    BY IDsEmpty DEF Init, NoMessage, Halved
  <2>2. QED
    BY <2>1 DEF Service!ServInit
<1>2. TypeOK /\ Orderly(ART) /\ EmergencyExclusive /\ [Next]_vars =>
        [Service!ServNext]_Service!servVars
  BY ServiceStep
<1>3. QED
  BY <1>1, <1>2, TypeCorrect, OrderlyAlways, EmergencyVehicleAlone, PTL
     DEF Spec, ImplementsService, Service!ServSpec
===============================================================================
