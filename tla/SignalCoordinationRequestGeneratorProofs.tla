-------------- MODULE SignalCoordinationRequestGeneratorProofs --------------
(***************************************************************************)
(* Theorems about the Signal Coordination Request Generator, for every day *)
(* of plans, every interval between plan checks and every time-out.        *)
(***************************************************************************)
EXTENDS SignalCoordinationRequestGenerator, VectorOpsProofs, SequenceTheorems

-----------------------------------------------------------------------------
(* The clock *)

\* The time of day stays one, and tells how long the iteration took.
LEMMA ClockType ==
  ASSUME NEW t \in Second, NEW elapsed \in 1 .. MaxIterationTime
  PROVE  Later(t, elapsed) \in Second /\ Elapsed(t, Later(t, elapsed)) = elapsed
BY PlanAssumption, GeneratorTimingAssumption DEF Later, Elapsed, Second

LEMMA AgingType ==
  ASSUME NEW limit \in Nat, NEW age \in 0 .. limit,
         NEW elapsed \in 1 .. MaxIterationTime
  PROVE  /\ Aging(age, elapsed, limit) \in 0 .. limit
         /\ Aging(age, elapsed, limit) < limit => age + elapsed < limit
BY GeneratorTimingAssumption DEF Aging

LEMMA PlanType ==
  ASSUME NEW i \in 1 .. Len(ActionPlan)
  PROVE  /\ ActionPlan[i].start \in Int /\ ActionPlan[i].end \in Int
         /\ ActionPlan[i].cycleLength \in Nat \ {0}
         /\ ActionPlan[i].offset \in Nat
         /\ ActionPlan[i].coordinationSplit \in Nat \ {0}
<1> DEFINE P == [ start : Second, end : Second, cycleLength : Nat \ {0},
                  offset : Nat, coordinationSplit : Nat \ {0} ]
<1>1. ActionPlan \in Seq(P)
  BY PlanAssumption
<1>2. ActionPlan[i] \in P
  <2> HIDE DEF P
  <2>1. QED
    BY <1>1
<1>3. /\ ActionPlan[i].start \in Second /\ ActionPlan[i].end \in Second
      /\ ActionPlan[i].cycleLength \in Nat \ {0}
      /\ ActionPlan[i].offset \in Nat
      /\ ActionPlan[i].coordinationSplit \in Nat \ {0}
  BY <1>2
<1>4. Second \subseteq Int
  BY PlanAssumption DEF Second
<1>5. QED
  BY <1>3, <1>4

\* The plan check finds a plan of the file or none.
LEMMA ActivePlanType ==
  ASSUME NEW t
  PROVE  getActiveCoordinationPlan(t) \in 0 .. Len(ActionPlan)
<1> DEFINE active == {i \in DOMAIN ActionPlan : IsActive(ActionPlan[i], t)}
<1>1. Len(ActionPlan) \in Nat /\ DOMAIN ActionPlan = 1 .. Len(ActionPlan)
  BY PlanAssumption
<1>2. ASSUME active # {}
      PROVE  Nth(active, 1) \in active
  BY <1>1, <1>2, NthFirst
<1>3. QED
  BY <1>1, <1>2 DEF getActiveCoordinationPlan

-----------------------------------------------------------------------------
(* The list *)

\* A list that is due has a first ETA that is not in the past.
LEMMA FirstETAType ==
  ASSUME NEW active \in 0 .. Len(ActionPlan), NEW t \in Second,
         checkCoordinationRequestSendingRequirement(active, t)
  PROVE  /\ active # 0
         /\ ETAOfFirstCycleCoordinatedPhase(ActionPlan[active], t) \in Nat
<1>1. active \in 1 .. Len(ActionPlan)
  BY DEF checkCoordinationRequestSendingRequirement
<1> DEFINE p == ActionPlan[active]
<1>2. /\ p.start \in Int /\ p.offset \in Nat /\ p.cycleLength \in Nat \ {0}
      /\ t \in Int
  BY <1>1, PlanType DEF Second
<1>3. (t - p.start) % p.cycleLength \in Int
  BY <1>2
<1>4. BeforeFirstCycle(p, t) \/ AtCycleStart(p, t)
  BY DEF checkCoordinationRequestSendingRequirement
<1>5. QED
  BY <1>1, <1>2, <1>3, <1>4
     DEF ETAOfFirstCycleCoordinatedPhase, BeforeFirstCycle, AtCycleStart, UntilOffset

LEMMA GeneratedListType ==
  ASSUME NEW active \in 0 .. Len(ActionPlan), NEW t \in Second,
         checkCoordinationRequestSendingRequirement(active, t)
  PROVE  LET list == generateVirtualCoordinationPriorityRequest(ActionPlan[active], t)
         IN  list \in Seq(CoordinatedPhase) /\ Len(list) = 4
<1> DEFINE p == ActionPlan[active]
           first == ETAOfFirstCycleCoordinatedPhase(p, t)
           request(i) == [ vehicleID |-> i,
                           ETA |-> IF i <= 2 THEN first ELSE first + p.cycleLength,
                           CoordinationSplit |-> p.coordinationSplit ]
           list == [i \in 1 .. 4 |-> request(i)]
<1>1. active \in 1 .. Len(ActionPlan) /\ first \in Nat
  BY FirstETAType
<1>2. p.cycleLength \in Nat /\ p.coordinationSplit \in Int
  BY <1>1, PlanType
<1>3. \A i \in 1 .. 4 : request(i) \in CoordinatedPhase
  BY <1>1, <1>2 DEF CoordinatedPhase
<1>4. list \in [1 .. 4 -> CoordinatedPhase]
  BY <1>3
<1>5. list \in Seq(CoordinatedPhase) /\ Len(list) = 4
  BY <1>4
<1>6. QED
  BY <1>5 DEF generateVirtualCoordinationPriorityRequest

LEMMA UpdatedListType ==
  ASSUME requests \in Seq(CoordinatedPhase), NEW elapsed \in 1 .. MaxIterationTime
  PROVE  /\ updateETAInCoordinationRequestTable(elapsed) \in Seq(CoordinatedPhase)
         /\ DOMAIN updateETAInCoordinationRequestTable(elapsed) = DOMAIN requests
         /\ \A i \in DOMAIN requests :
              updateETAInCoordinationRequestTable(elapsed)[i].vehicleID
                = requests[i].vehicleID
<1> DEFINE f == updateETAInCoordinationRequestTable(elapsed)
<1>1. \A i \in DOMAIN requests : requests[i] \in CoordinatedPhase
  OBVIOUS
<1>2. elapsed \in Nat
  BY GeneratorTimingAssumption
<1>3. f = [i \in DOMAIN requests |-> f[i]]
  BY DEF updateETAInCoordinationRequestTable
<1>4. ASSUME NEW i \in DOMAIN requests
      PROVE  f[i] \in CoordinatedPhase /\ f[i].vehicleID = requests[i].vehicleID
  <2> DEFINE r == requests[i]
  <2>1. /\ r = [vehicleID |-> r.vehicleID, ETA |-> r.ETA,
                CoordinationSplit |-> r.CoordinationSplit]
        /\ r.vehicleID \in 1 .. 4 /\ r.ETA \in Nat /\ r.CoordinationSplit \in Int
    BY <1>1 DEF CoordinatedPhase
  <2>2. CASE r.ETA > elapsed
    <3>1. f[i] = [vehicleID |-> r.vehicleID, ETA |-> r.ETA - elapsed,
                  CoordinationSplit |-> r.CoordinationSplit]
      BY <2>1, <2>2 DEF updateETAInCoordinationRequestTable
    <3>2. r.ETA - elapsed \in Nat
      BY <1>2, <2>1, <2>2
    <3>3. QED
      BY <2>1, <3>1, <3>2 DEF CoordinatedPhase
  <2>3. CASE ~(r.ETA > elapsed)
    <3>1. f[i] = [vehicleID |-> r.vehicleID, ETA |-> 0,
                  CoordinationSplit |-> r.CoordinationSplit - elapsed]
      BY <2>1, <2>3 DEF updateETAInCoordinationRequestTable
    <3>2. r.CoordinationSplit - elapsed \in Int
      BY <1>2, <2>1
    <3>3. QED
      BY <2>1, <3>1, <3>2 DEF CoordinatedPhase
  <2>4. QED
    BY <2>2, <2>3
<1>5. f \in Seq(CoordinatedPhase) /\ DOMAIN f = DOMAIN requests
  <2> HIDE DEF f
  <2>1. QED
    BY <1>3, <1>4, MapType
<1>6. QED
  BY <1>4, <1>5

\* The deletion keeps positions of the list.
LEMMA SplitLeftType ==
  ASSUME NEW list, NEW K \in SplitLeft(list)
  PROVE  K \in SUBSET (DOMAIN list)
BY DEF SplitLeft

\* The datagram names the identities of the list.
LEMMA RequestListType ==
  ASSUME NEW list \in Seq(CoordinatedPhase)
  PROVE  RequestList(list) \in Datagrams
<1>1. Len(list) \in Nat /\ DOMAIN list = 1 .. Len(list)
  OBVIOUS
<1>2. \A i \in DOMAIN list : list[i] \in CoordinatedPhase
  OBVIOUS
<1>3. IDs(list) \in [1 .. Len(list) -> 1 .. 4]
  BY <1>1, <1>2 DEF IDs, CoordinatedPhase
<1>4. IDs(list) \in Seq(1 .. 4)
  BY <1>1, <1>3
<1>5. QED
  BY <1>4 DEF RequestList, Datagrams

\* Deleting nothing leaves the list as it is.
LEMMA KeepAll ==
  ASSUME NEW S, NEW list \in Seq(S)
  PROVE  Keep(list, DOMAIN list) = list
<1> DEFINE N == Len(list)
<1>1. N \in Nat /\ DOMAIN list = 1 .. N /\ Cardinality(1 .. N) = N
  <2>1. N \in Nat /\ DOMAIN list = 1 .. N
    OBVIOUS
  <2>2. QED
    BY <2>1, FS_Interval
<1>2. ASSUME NEW n \in 1 .. N
      PROVE  Rank(1 .. N, n) = n
  <2>1. {j \in 1 .. N : j <= n} = 1 .. n
    BY <1>1
  <2>2. n \in Nat /\ Cardinality(1 .. n) = n
    BY <1>1, FS_Interval
  <2>3. QED
    BY <2>1, <2>2 DEF Rank
<1>3. ASSUME NEW n \in 1 .. N
      PROVE  Nth(1 .. N, n) = n
  <2>1. n \in 1 .. Cardinality(1 .. N)
    BY <1>1
  <2>2. Nth(1 .. N, n) \in 1 .. N /\ Rank(1 .. N, Nth(1 .. N, n)) = n
    BY <1>1, <2>1, NthType
  <2>3. QED
    BY <1>2, <2>2
<1>4. Keep(list, DOMAIN list) = [n \in 1 .. N |-> list[Nth(1 .. N, n)]]
  BY <1>1 DEF Keep
<1>5. Keep(list, DOMAIN list) = [n \in 1 .. N |-> list[n]]
  BY <1>3, <1>4
<1>6. list = [n \in 1 .. N |-> list[n]]
  BY <1>1
<1>7. QED
  BY <1>5, <1>6

-----------------------------------------------------------------------------
(* What an iteration leaves behind *)

\* A list is never left without the time for one more iteration.
SentInTime == requests # <<>> => sentAge < requestTimedOutValue

\* The part of the state an iteration's branches assign.
Outcome ==
  /\ plan' \in 0 .. Len(ActionPlan)
  /\ requests' \in Seq(CoordinatedPhase)
  /\ sentAge' \in 0 .. SRMTimedOutTime
  /\ assigned' \in BOOLEAN
  /\ toServer' \in Datagrams
  /\ SentInTime'
  /\ ServerHasTheList => ServerHasTheList'

LEMMA TimeOutType ==
  /\ SRMTimedOutTime \in Nat
  /\ requestTimedOutValue \in Nat \ {0} /\ requestTimedOutValue <= SRMTimedOutTime
  /\ requestTimedOutValue + MaxIterationTime <= SRMTimedOutTime
BY GeneratorTimingAssumption, IterationWithinGapOut, PlanAssumption
   DEF requestTimedOutValue

LEMMA ConstantDatagrams ==
  NoDatagram \in Datagrams /\ CoordinationClearRequest \in Datagrams
  /\ EmptyObject \in Datagrams
<1>1. <<>> \in Seq(1 .. 4)
  OBVIOUS
<1>2. QED
  BY <1>1 DEF NoDatagram, CoordinationClearRequest, EmptyObject, Datagrams

LEMMA GenerateOutcome ==
  ASSUME GenTypeOK, NEW active \in 0 .. Len(ActionPlan), NEW t \in Second,
         Generate(active, t)
  PROVE  Outcome
<1>1. requests' \in Seq(CoordinatedPhase)
  BY GeneratedListType DEF Generate
<1>2. toServer' = RequestList(requests') /\ toServer' \in Datagrams
  BY <1>1, RequestListType DEF Generate
<1>3. sentAge' = 0 /\ assigned' = TRUE /\ plan' = active
  BY DEF Generate
<1>4. QED
  BY <1>1, <1>2, <1>3, TimeOutType DEF Outcome, SentInTime, ServerHasTheList

LEMMA UpdateOutcome ==
  ASSUME GenTypeOK, NEW active \in 0 .. Len(ActionPlan), NEW t, NEW age,
         NEW elapsed \in 1 .. MaxIterationTime, Update(active, t, elapsed, age)
  PROVE  Outcome
<1>1. requests' \in Seq(CoordinatedPhase)
  BY UpdatedListType DEF Update, GenTypeOK
<1>2. toServer' = RequestList(requests') /\ toServer' \in Datagrams
  BY <1>1, RequestListType DEF Update
<1>3. sentAge' = 0 /\ assigned' = TRUE /\ plan' = active
  BY DEF Update
<1>4. QED
  BY <1>1, <1>2, <1>3, TimeOutType DEF Outcome, SentInTime, ServerHasTheList

LEMMA MaintainOutcome ==
  ASSUME GenTypeOK, NEW active \in 0 .. Len(ActionPlan), NEW t,
         NEW age \in 0 .. SRMTimedOutTime,
         NEW elapsed \in 1 .. MaxIterationTime, Maintain(active, t, elapsed, age)
  PROVE  Outcome
<1> DEFINE aged == updateETAInCoordinationRequestTable(elapsed)
<1>1. PICK K \in SplitLeft(aged) :
        /\ requests' = Keep(aged, K)
        /\ SendAfterDeletion(requests', K # DOMAIN aged, age)
  BY DEF Maintain
<1>2. /\ ~checkUpdateRequestSendingRequirement(age) /\ plan' = active
  BY DEF Maintain
<1>3. requests \in Seq(CoordinatedPhase) /\ assigned \in BOOLEAN /\ toServer \in Datagrams
  BY DEF GenTypeOK
<1>4. /\ aged \in Seq(CoordinatedPhase) /\ DOMAIN aged = DOMAIN requests
      /\ \A i \in DOMAIN requests : aged[i].vehicleID = requests[i].vehicleID
  BY <1>3, UpdatedListType
<1>5. K \in SUBSET (DOMAIN aged)
  BY SplitLeftType
<1> HIDE DEF aged
<1>6. requests' \in Seq(CoordinatedPhase)
  BY <1>1, <1>4, <1>5, KeepType
<1>7. CASE K = DOMAIN aged
  <2>1. requests' = aged
    BY <1>1, <1>4, <1>7, KeepAll
  <2>2. toServer' = toServer /\ assigned' = assigned /\ sentAge' = age
    BY <1>1, <1>7 DEF SendAfterDeletion
  <2>3. IDs(requests') = IDs(requests)
    BY <1>4, <2>1 DEF IDs
  <2>4. requests' # <<>> => requests # <<>>
    BY <1>3, <1>4, <2>1
  <2>5. SentInTime'
    BY <1>2, <2>2, <2>4, TimeOutType
       DEF SentInTime, checkUpdateRequestSendingRequirement
  <2>6. ServerHasTheList => ServerHasTheList'
    BY <2>2, <2>3, <2>4 DEF ServerHasTheList, RequestList
  <2>7. QED
    BY <1>2, <1>3, <1>6, <2>2, <2>5, <2>6 DEF Outcome
<1>8. CASE K # DOMAIN aged
  <2>1. assigned' = TRUE
    BY <1>1, <1>8 DEF SendAfterDeletion
  <2>2. CASE requests' = <<>>
    <3>1. toServer' = EmptyObject /\ sentAge' = age
      BY <1>1, <1>8, <2>2 DEF SendAfterDeletion
    <3>2. QED
      BY <1>2, <1>6, <2>1, <2>2, <3>1, ConstantDatagrams
         DEF Outcome, SentInTime, ServerHasTheList
  <2>3. CASE requests' # <<>>
    <3>1. toServer' = RequestList(requests') /\ sentAge' = 0
      BY <1>1, <1>8, <2>3 DEF SendAfterDeletion
    <3>2. toServer' \in Datagrams
      BY <1>6, <3>1, RequestListType
    <3>3. QED
      BY <1>2, <1>6, <2>1, <3>1, <3>2, TimeOutType
         DEF Outcome, SentInTime, ServerHasTheList
  <2>4. QED
    BY <2>2, <2>3
<1>9. QED
  BY <1>7, <1>8

LEMMA EndPlanOutcome ==
  ASSUME GenTypeOK, NEW active, NEW t, NEW age \in 0 .. SRMTimedOutTime,
         NEW elapsed, EndPlan(active, t, elapsed, age)
  PROVE  Outcome
<1>1. /\ requests' = <<>> /\ plan' = 0 /\ assigned' = assigned
      /\ toServer' = CoordinationClearRequest /\ sentAge' \in {0, age}
  BY DEF EndPlan
<1>2. assigned \in BOOLEAN /\ Len(ActionPlan) \in Nat
  BY PlanAssumption DEF GenTypeOK
<1>3. sentAge' \in 0 .. SRMTimedOutTime
  BY <1>1, TimeOutType
<1>4. QED
  BY <1>1, <1>2, <1>3, ConstantDatagrams DEF Outcome, SentInTime, ServerHasTheList

\* What the process knows after a start.
LEMMA ForgottenOutcome ==
  ASSUME Forgotten, toServer' \in Datagrams
  PROVE  Outcome /\ checkAge' = 0
<1>1. plan' = 0 /\ checkAge' = 0 /\ requests' = <<>> /\ sentAge' = 0 /\ assigned' = FALSE
  BY DEF Forgotten
<1>2. Len(ActionPlan) \in Nat
  BY PlanAssumption
<1>3. <<>> \in Seq(CoordinatedPhase) /\ 0 \in 0 .. SRMTimedOutTime
  BY TimeOutType
<1>4. requests' \in Seq(CoordinatedPhase) /\ sentAge' \in 0 .. SRMTimedOutTime
  BY <1>1, <1>3
<1>5. plan' \in 0 .. Len(ActionPlan)
  BY <1>1, <1>2
<1>6. assigned' \in BOOLEAN
  BY <1>1
<1>7. SentInTime' /\ ServerHasTheList'
  BY <1>1 DEF SentInTime, ServerHasTheList
<1>8. QED
  BY <1>1, <1>4, <1>5, <1>6, <1>7 DEF Outcome

-----------------------------------------------------------------------------
(* Steps *)

\* An iteration stands for the time it took and has one of the outcomes above.
LEMMA IterationStep ==
  ASSUME GenTypeOK, Iteration
  PROVE  /\ Outcome
         /\ now' \in Second
         /\ checkAge' \in 0 .. timeGapBetweenActivePlanChecking
         /\ Elapsed(now, now') \in 1 .. MaxIterationTime
<1> DEFINE checkedAgo(elapsed) ==
             Aging(checkAge, elapsed, timeGapBetweenActivePlanChecking)
           check(elapsed) == checkActiveCoordinationPlan(checkedAgo(elapsed))
           activeAt(elapsed) ==
             IF check(elapsed) THEN getActiveCoordinationPlan(Later(now, elapsed))
                               ELSE plan
           ageAt(elapsed) == Aging(sentAge, elapsed, SRMTimedOutTime)
<1>1. PICK elapsed \in 1 .. MaxIterationTime :
        /\ now' = Later(now, elapsed)
        /\ \/ FailAfterClear(activeAt(elapsed), now')
           \/ /\ checkAge' = IF check(elapsed) THEN 0 ELSE checkedAgo(elapsed)
              /\ \/ Generate(activeAt(elapsed), now')
                 \/ Update(activeAt(elapsed), now', elapsed, ageAt(elapsed))
                 \/ Maintain(activeAt(elapsed), now', elapsed, ageAt(elapsed))
                 \/ EndPlan(activeAt(elapsed), now', elapsed, ageAt(elapsed))
  BY DEF Iteration
<1> DEFINE active == activeAt(elapsed)
           age == ageAt(elapsed)
<1>2. now' \in Second /\ Elapsed(now, now') = elapsed
  BY <1>1, ClockType DEF GenTypeOK
<1>3. timeGapBetweenActivePlanChecking \in Nat
  BY GeneratorTimingAssumption
<1>4. checkedAgo(elapsed) \in 0 .. timeGapBetweenActivePlanChecking
  BY <1>3, AgingType DEF GenTypeOK
<1>5. active \in 0 .. Len(ActionPlan)
  BY ActivePlanType DEF GenTypeOK
<1>6. age \in 0 .. SRMTimedOutTime
  BY TimeOutType, AgingType DEF GenTypeOK
<1> HIDE DEF active, age
<1>7. CASE FailAfterClear(active, now')
  <2>1. Forgotten /\ toServer' = CoordinationClearRequest
    BY <1>7 DEF FailAfterClear
  <2>2. Outcome /\ checkAge' = 0
    BY <2>1, ConstantDatagrams, ForgottenOutcome
  <2>3. QED
    BY <1>2, <1>3, <2>2
<1>8. CASE /\ checkAge' = IF check(elapsed) THEN 0 ELSE checkedAgo(elapsed)
           /\ \/ Generate(active, now')
              \/ Update(active, now', elapsed, age)
              \/ Maintain(active, now', elapsed, age)
              \/ EndPlan(active, now', elapsed, age)
  <2>1. checkAge' \in 0 .. timeGapBetweenActivePlanChecking
    BY <1>3, <1>4, <1>8
  <2>2. Outcome
    BY <1>2, <1>5, <1>6, <1>8,
       GenerateOutcome, UpdateOutcome, MaintainOutcome, EndPlanOutcome
  <2>3. QED
    BY <1>2, <2>1, <2>2
<1>9. QED
  BY <1>1, <1>7, <1>8 DEF active, age

\* An iteration in one of its branches.
LEMMA IterationBranches ==
  ASSUME GenTypeOK, Iteration
  PROVE  \E elapsed \in 1 .. MaxIterationTime, active \in 0 .. Len(ActionPlan) :
           LET age == Aging(sentAge, elapsed, SRMTimedOutTime)
           IN  /\ now' = Later(now, elapsed) /\ now' \in Second
               /\ \/ active = getActiveCoordinationPlan(now')
                  \/ active = plan /\ plan # 0
               /\ \/ FailAfterClear(active, now')
                  \/ Generate(active, now')
                  \/ Update(active, now', elapsed, age)
                  \/ Maintain(active, now', elapsed, age)
                  \/ EndPlan(active, now', elapsed, age)
<1> DEFINE checkedAgo(elapsed) ==
             Aging(checkAge, elapsed, timeGapBetweenActivePlanChecking)
           check(elapsed) == checkActiveCoordinationPlan(checkedAgo(elapsed))
           activeAt(elapsed) ==
             IF check(elapsed) THEN getActiveCoordinationPlan(Later(now, elapsed))
                               ELSE plan
           ageAt(elapsed) == Aging(sentAge, elapsed, SRMTimedOutTime)
<1>1. PICK elapsed \in 1 .. MaxIterationTime :
        /\ now' = Later(now, elapsed)
        /\ \/ FailAfterClear(activeAt(elapsed), now')
           \/ Generate(activeAt(elapsed), now')
           \/ Update(activeAt(elapsed), now', elapsed, ageAt(elapsed))
           \/ Maintain(activeAt(elapsed), now', elapsed, ageAt(elapsed))
           \/ EndPlan(activeAt(elapsed), now', elapsed, ageAt(elapsed))
  BY DEF Iteration
<1>2. /\ now' \in Second /\ activeAt(elapsed) \in 0 .. Len(ActionPlan)
      /\ \/ activeAt(elapsed) = getActiveCoordinationPlan(now')
         \/ activeAt(elapsed) = plan /\ plan # 0
  BY <1>1, ClockType, ActivePlanType DEF GenTypeOK, checkActiveCoordinationPlan
<1> DEFINE active == activeAt(elapsed)
<1> HIDE DEF active
<1>3. QED
  BY <1>1, <1>2 DEF active

LEMMA RestartStep ==
  ASSUME GenTypeOK, GenRestart
  PROVE  Outcome /\ now' = now /\ checkAge' = 0
<1>1. Forgotten /\ now' = now /\ toServer' \in Datagrams
  BY DEF GenRestart, GenTypeOK
<1>2. QED
  BY <1>1, ForgottenOutcome

\* The inductive invariant.
GenInv == GenTypeOK /\ SentInTime

LEMMA GenInvInit ==
  ASSUME GenInit
  PROVE  GenInv /\ ServerHasTheList
<1>1. /\ now \in Second /\ plan = 0 /\ checkAge = 0 /\ requests = <<>>
      /\ sentAge = 0 /\ assigned = FALSE /\ toServer = NoDatagram
  BY DEF GenInit
<1>2. Len(ActionPlan) \in Nat /\ timeGapBetweenActivePlanChecking \in Nat
  BY PlanAssumption, GeneratorTimingAssumption
<1>3. <<>> \in Seq(CoordinatedPhase) /\ 0 \in 0 .. SRMTimedOutTime
  BY TimeOutType
<1>4. GenTypeOK
  <2>1. requests \in Seq(CoordinatedPhase) /\ sentAge \in 0 .. SRMTimedOutTime
    BY <1>1, <1>3
  <2>2. /\ plan \in 0 .. Len(ActionPlan)
        /\ checkAge \in 0 .. timeGapBetweenActivePlanChecking
    BY <1>1, <1>2
  <2>3. assigned \in BOOLEAN
    BY <1>1
  <2>4. QED
    BY <1>1, <2>1, <2>2, <2>3, ConstantDatagrams DEF GenTypeOK
<1>5. SentInTime /\ ServerHasTheList
  BY <1>1 DEF SentInTime, ServerHasTheList
<1>6. QED
  BY <1>4, <1>5 DEF GenInv

LEMMA GenInvNext ==
  ASSUME GenInv, [GenNext]_genVars
  PROVE  GenInv' /\ (ServerHasTheList => ServerHasTheList')
<1>1. CASE Iteration
  BY <1>1, IterationStep DEF GenInv, GenTypeOK, Outcome
<1>2. CASE GenRestart
  <2>1. timeGapBetweenActivePlanChecking \in Nat
    BY GeneratorTimingAssumption
  <2>2. QED
    BY <1>2, <2>1, RestartStep DEF GenInv, GenTypeOK, Outcome
<1>3. CASE UNCHANGED genVars
  BY <1>3 DEF genVars, GenInv, GenTypeOK, SentInTime, ServerHasTheList
<1>4. QED
  BY <1>1, <1>2, <1>3 DEF GenNext

LEMMA GenInvariant == GenSpec => []GenInv
<1>1. GenInit => GenInv
  BY GenInvInit
<1>2. GenInv /\ [GenNext]_genVars => GenInv'
  BY GenInvNext
<1>3. QED
  BY <1>1, <1>2, PTL DEF GenSpec

-----------------------------------------------------------------------------
(* Theorems *)

\* The clock, the plan, the list and the datagram stay well formed.
THEOREM GeneratorTypeCorrect == GenSpec => []GenTypeOK
<1>1. GenInv => GenTypeOK
  BY DEF GenInv
<1>2. QED
  BY <1>1, GenInvariant, PTL

\* As long as there are requests, the server has been sent exactly them.
THEOREM ServerHasTheListAlways == GenSpec => []ServerHasTheList
<1>1. GenInit => ServerHasTheList
  BY GenInvInit
<1>2. GenInv /\ ServerHasTheList /\ [GenNext]_genVars => ServerHasTheList'
  BY GenInvNext
<1>3. QED
  BY <1>1, <1>2, GenInvariant, PTL DEF GenSpec

\* Between two sendings of a list the server's time-out never passes.
THEOREM FreshForServerAlways == GenSpec => FreshForServer
<1> DEFINE Fresh == requests # <<>> => sentAge + Elapsed(now, now') < SRMTimedOutTime
<1>1. ASSUME GenInv, [GenNext]_genVars
      PROVE  Fresh
  <2>1. Elapsed(now, now') \in 0 .. MaxIterationTime
    <3>1. CASE Iteration
      <4>1. MaxIterationTime \in Nat
        BY PlanAssumption, GeneratorTimingAssumption
      <4>2. QED
        BY <1>1, <3>1, <4>1, IterationStep DEF GenInv
    <3>2. CASE now' = now
      <4>1. now \in Int /\ MaxIterationTime \in Nat
        BY <1>1, PlanAssumption, GeneratorTimingAssumption
           DEF GenInv, GenTypeOK, Second
      <4>2. QED
        BY <3>2, <4>1 DEF Elapsed
    <3>3. QED
      BY <1>1, <3>1, <3>2, RestartStep DEF GenNext, GenInv, genVars
  <2>2. sentAge \in 0 .. SRMTimedOutTime
    BY <1>1 DEF GenInv, GenTypeOK
  <2>3. MaxIterationTime \in Nat
    BY PlanAssumption, GeneratorTimingAssumption
  <2>4. requests # <<>> => sentAge < requestTimedOutValue
    BY <1>1 DEF GenInv, SentInTime
  <2>5. QED
    <3> DEFINE e == Elapsed(now, now')
    <3>1. e \in 0 .. MaxIterationTime
      BY <2>1
    <3> HIDE DEF e
    <3>2. sentAge < requestTimedOutValue => sentAge + e < SRMTimedOutTime
      BY <2>2, <2>3, <3>1, TimeOutType
    <3>3. QED
      BY <2>4, <3>2 DEF e
<1>2. GenInv /\ [GenNext]_genVars => [Fresh]_genVars
  BY <1>1
<1>3. QED
  BY <1>2, GenInvariant, PTL DEF GenSpec, FreshForServer

-----------------------------------------------------------------------------
(* The two requests of a cycle *)

OfFirst(r) == r.vehicleID \in {1, 2}
SamePair(r, q) == OfFirst(r) <=> OfFirst(q)

\* The requests of a cycle are alike, those of the second cycle a cycle later: with c the
\* length of a cycle and s the split that a request has while it is not due.  A request
\* uses up its split by all that elapses from the iteration on in which it falls due.
InStep(list, c, s) ==
  \A i, j \in DOMAIN list :
    /\ list[i].ETA > 0 => list[i].CoordinationSplit = s
    /\ SamePair(list[i], list[j]) =>
         list[i].ETA = list[j].ETA /\ list[i].CoordinationSplit = list[j].CoordinationSplit
    /\ OfFirst(list[i]) /\ ~OfFirst(list[j]) =>
         /\ list[i].ETA > 0 => list[j].ETA = list[i].ETA + c
         /\ list[i].ETA = 0 /\ list[j].ETA > 0 =>
              list[j].ETA + s >= c + list[i].CoordinationSplit
         /\ list[i].ETA = 0 /\ list[j].ETA = 0 =>
              list[i].CoordinationSplit + c <= list[j].CoordinationSplit + MaxIterationTime

\* What has lost its partner has just lost it, and has no split left.
Alone(list, i) == ~ \E j \in DOMAIN list : /\ SamePair(list[i], list[j])
                                           /\ list[j].vehicleID # list[i].vehicleID

PairInv ==
  /\ requests # <<>> => \E p \in DOMAIN ActionPlan :
       InStep(requests, ActionPlan[p].cycleLength, ActionPlan[p].coordinationSplit)
  /\ \A i \in DOMAIN requests : Alone(requests, i) =>
       sentAge = 0 /\ requests[i].ETA = 0 /\ requests[i].CoordinationSplit = 0

LEMMA WholeIsNotAlone ==
  ASSUME NEW list \in Seq(CoordinatedPhase)
  PROVE  WholePairs(list) <=> \A i \in DOMAIN list : ~Alone(list, i)
<1>1. \A i \in DOMAIN list : list[i].vehicleID \in 1 .. 4
  <2>1. \A i \in DOMAIN list : list[i] \in CoordinatedPhase
    OBVIOUS
  <2>2. QED
    BY <2>1 DEF CoordinatedPhase
<1>2. \A i \in DOMAIN list : list[i].vehicleID \in {1, 2, 3, 4}
  BY <1>1
<1>3. ASSUME WholePairs(list), NEW i \in DOMAIN list
      PROVE  ~Alone(list, i)
  <2>1. /\ (\E k \in DOMAIN list : list[k].vehicleID = 1) <=> (\E k \in DOMAIN list : list[k].vehicleID = 2)
        /\ (\E k \in DOMAIN list : list[k].vehicleID = 3) <=> (\E k \in DOMAIN list : list[k].vehicleID = 4)
    BY <1>3 DEF WholePairs
  <2>2. QED
    BY <1>2, <2>1 DEF Alone, SamePair, OfFirst
<1>4. ASSUME \A i \in DOMAIN list : ~Alone(list, i)
      PROVE  WholePairs(list)
  <2>1. ASSUME NEW i \in DOMAIN list
        PROVE  /\ list[i].vehicleID = 1 => \E k \in DOMAIN list : list[k].vehicleID = 2
               /\ list[i].vehicleID = 2 => \E k \in DOMAIN list : list[k].vehicleID = 1
               /\ list[i].vehicleID = 3 => \E k \in DOMAIN list : list[k].vehicleID = 4
               /\ list[i].vehicleID = 4 => \E k \in DOMAIN list : list[k].vehicleID = 3
    <3>1. PICK j \in DOMAIN list : /\ SamePair(list[i], list[j])
                                   /\ list[j].vehicleID # list[i].vehicleID
      BY <1>4 DEF Alone
    <3>2. QED
      BY <1>2, <3>1 DEF SamePair, OfFirst
  <2>2. \A odd \in {1, 3} : odd + 1 = IF odd = 1 THEN 2 ELSE 4
    OBVIOUS
  <2>3. QED
    BY <2>1, <2>2 DEF WholePairs
<1>5. QED
  BY <1>3, <1>4

\* What an iteration does to a request.
LEMMA AgedValues ==
  ASSUME requests \in Seq(CoordinatedPhase), NEW elapsed \in 1 .. MaxIterationTime,
         NEW i \in DOMAIN requests
  PROVE  LET f == updateETAInCoordinationRequestTable(elapsed)
         IN  /\ elapsed \in Nat /\ 1 <= elapsed /\ elapsed <= MaxIterationTime
             /\ MaxIterationTime \in Nat
             /\ requests[i].ETA \in Nat /\ requests[i].CoordinationSplit \in Int
             /\ requests[i].ETA > elapsed =>
                  /\ f[i].ETA = requests[i].ETA - elapsed
                  /\ f[i].CoordinationSplit = requests[i].CoordinationSplit
             /\ ~(requests[i].ETA > elapsed) =>
                  /\ f[i].ETA = 0
                  /\ f[i].CoordinationSplit = requests[i].CoordinationSplit - elapsed
<1> DEFINE f == updateETAInCoordinationRequestTable(elapsed)
<1>1. /\ elapsed \in Nat /\ 1 <= elapsed /\ elapsed <= MaxIterationTime
      /\ MaxIterationTime \in Nat
  BY GeneratorTimingAssumption, PlanAssumption
<1>2. requests[i] \in CoordinatedPhase
  OBVIOUS
<1>3. /\ requests[i] = [vehicleID |-> requests[i].vehicleID, ETA |-> requests[i].ETA,
               CoordinationSplit |-> requests[i].CoordinationSplit]
      /\ requests[i].ETA \in Nat /\ requests[i].CoordinationSplit \in Int
  BY <1>2 DEF CoordinatedPhase
<1>4. f[i] = IF requests[i].ETA > elapsed
               THEN [requests[i] EXCEPT !.ETA = @ - elapsed]
               ELSE [requests[i] EXCEPT !.ETA = 0, !.CoordinationSplit = @ - elapsed]
  BY DEF updateETAInCoordinationRequestTable
<1>5. QED
  BY <1>1, <1>3, <1>4

\* Ageing leaves the requests in step.
LEMMA AgedInStep ==
  ASSUME IterationsAreShort, requests \in Seq(CoordinatedPhase),
         NEW elapsed \in 1 .. MaxIterationTime, NEW c \in Nat, NEW s \in Nat,
         c > 2 * MaxIterationTime, InStep(requests, c, s)
  PROVE  InStep(updateETAInCoordinationRequestTable(elapsed), c, s)
<1> DEFINE f == updateETAInCoordinationRequestTable(elapsed)
<1>1. MaxIterationTime \in Nat /\ elapsed \in Nat /\ 1 <= elapsed /\ elapsed <= MaxIterationTime
  BY GeneratorTimingAssumption, PlanAssumption
<1>2. DOMAIN f = DOMAIN requests /\ \A i \in DOMAIN requests : f[i].vehicleID = requests[i].vehicleID
  BY UpdatedListType
<1>3. ASSUME NEW i \in DOMAIN requests
      PROVE  /\ requests[i].ETA \in Nat /\ requests[i].CoordinationSplit \in Int
             /\ requests[i].ETA > elapsed =>
                  /\ f[i].ETA = requests[i].ETA - elapsed
                  /\ f[i].CoordinationSplit = requests[i].CoordinationSplit
             /\ ~(requests[i].ETA > elapsed) =>
                  /\ f[i].ETA = 0
                  /\ f[i].CoordinationSplit = requests[i].CoordinationSplit - elapsed
  BY AgedValues
<1> HIDE DEF f
<1>4. ASSUME NEW i \in DOMAIN requests, NEW j \in DOMAIN requests
      PROVE  /\ f[i].ETA > 0 => f[i].CoordinationSplit = s
             /\ SamePair(f[i], f[j]) =>
                  f[i].ETA = f[j].ETA /\ f[i].CoordinationSplit = f[j].CoordinationSplit
             /\ OfFirst(f[i]) /\ ~OfFirst(f[j]) =>
                  /\ f[i].ETA > 0 => f[j].ETA = f[i].ETA + c
                  /\ f[i].ETA = 0 /\ f[j].ETA > 0 =>
                       f[j].ETA + s >= c + f[i].CoordinationSplit
                  /\ f[i].ETA = 0 /\ f[j].ETA = 0 =>
                       f[i].CoordinationSplit + c <= f[j].CoordinationSplit + MaxIterationTime
  <2> DEFINE a == requests[i].ETA
             b == requests[j].ETA
             x == requests[i].CoordinationSplit
             y == requests[j].CoordinationSplit
             A == f[i].ETA
             B == f[j].ETA
             X == f[i].CoordinationSplit
             Y == f[j].CoordinationSplit
  <2>1. a \in Nat /\ b \in Nat /\ x \in Int /\ y \in Int
    BY <1>3
  <2>2. /\ a > elapsed => A = a - elapsed /\ X = x
        /\ ~(a > elapsed) => A = 0 /\ X = x - elapsed
        /\ b > elapsed => B = b - elapsed /\ Y = y
        /\ ~(b > elapsed) => B = 0 /\ Y = y - elapsed
    BY <1>3
  <2>3. /\ a > 0 => x = s
        /\ b > 0 => y = s
    BY DEF InStep
  <2>4. SamePair(f[i], f[j]) => a = b /\ x = y
    BY <1>2 DEF InStep, SamePair, OfFirst
  <2>5. OfFirst(f[i]) /\ ~OfFirst(f[j]) =>
          /\ a > 0 => b = a + c
          /\ a = 0 /\ b > 0 => b + s >= c + x
          /\ a = 0 /\ b = 0 => x + c <= y + MaxIterationTime
    BY <1>2 DEF InStep, OfFirst
  <2> HIDE DEF a, b, x, y, A, B, X, Y
  <2>6. A > 0 => X = s
    BY <1>1, <2>1, <2>2, <2>3
  <2>7. SamePair(f[i], f[j]) => A = B /\ X = Y
    BY <2>1, <2>2, <2>4
  <2>8. ASSUME OfFirst(f[i]), ~OfFirst(f[j])
        PROVE  /\ A > 0 => B = A + c
               /\ A = 0 /\ B > 0 => B + s >= c + X
               /\ A = 0 /\ B = 0 => X + c <= Y + MaxIterationTime
    <3>0. /\ a > 0 => b = a + c
          /\ a = 0 /\ b > 0 => b + s >= c + x
          /\ a = 0 /\ b = 0 => x + c <= y + MaxIterationTime
      BY <2>5, <2>8
    <3>1. CASE a > elapsed
      <4>1. a > 0 /\ b = a + c /\ b > elapsed
        BY <1>1, <2>1, <3>0, <3>1
      <4>2. A = a - elapsed /\ B = b - elapsed
        BY <2>2, <3>1, <4>1
      <4>3. A > 0
        BY <1>1, <2>1, <3>1, <4>2
      <4>4. B = A + c
        BY <1>1, <2>1, <4>1, <4>2
      <4>5. QED
        BY <4>3, <4>4
    <3>2. CASE a > 0 /\ ~(a > elapsed)
      <4>1. b > elapsed /\ b = a + c /\ x = s
        BY <1>1, <2>1, <2>3, <3>0, <3>2
      <4>2. A = 0 /\ X = x - elapsed /\ B = b - elapsed
        BY <2>2, <3>2, <4>1
      <4>3. B > 0 /\ B + s >= c + X
        BY <1>1, <2>1, <3>2, <4>1, <4>2
      <4>4. QED
        BY <4>2, <4>3
    <3>3. CASE a = 0 /\ b > elapsed
      <4>1. A = 0 /\ X = x - elapsed /\ B = b - elapsed /\ b > 0
        BY <1>1, <2>1, <2>2, <3>3
      <4>2. B > 0 /\ B + s >= c + X
        BY <1>1, <2>1, <3>0, <3>3, <4>1
      <4>3. QED
        BY <4>1, <4>2
    <3>4. CASE a = 0 /\ b > 0 /\ ~(b > elapsed)
      <4>1. A = 0 /\ X = x - elapsed /\ B = 0 /\ Y = y - elapsed /\ y = s
        BY <1>1, <2>1, <2>2, <2>3, <3>4
      <4>2. X + c <= Y + MaxIterationTime
        BY <1>1, <2>1, <3>0, <3>4, <4>1
      <4>3. QED
        BY <4>1, <4>2
    <3>5. CASE a = 0 /\ b = 0
      <4>1. A = 0 /\ X = x - elapsed /\ B = 0 /\ Y = y - elapsed
        BY <1>1, <2>1, <2>2, <3>5
      <4>2. X + c <= Y + MaxIterationTime
        BY <1>1, <2>1, <3>0, <3>5, <4>1
      <4>3. QED
        BY <4>1, <4>2
    <3>6. QED
      BY <2>1, <3>1, <3>2, <3>3, <3>4, <3>5
  <2> USE DEF A, B, X, Y
  <2>9. QED
    BY <2>6, <2>7, <2>8
<1>5. QED
  BY <1>2, <1>4 DEF InStep, f

\* A new list is in step, and each request in it has its partner.
LEMMA GeneratedInStep ==
  ASSUME NEW active \in 0 .. Len(ActionPlan), NEW t \in Second,
         checkCoordinationRequestSendingRequirement(active, t)
  PROVE  LET list == generateVirtualCoordinationPriorityRequest(ActionPlan[active], t)
         IN  /\ active \in DOMAIN ActionPlan
             /\ InStep(list, ActionPlan[active].cycleLength, ActionPlan[active].coordinationSplit)
             /\ WholePairs(list)
<1> DEFINE p == ActionPlan[active]
           first == ETAOfFirstCycleCoordinatedPhase(p, t)
           c == p.cycleLength
           s == p.coordinationSplit
           list == generateVirtualCoordinationPriorityRequest(p, t)
<1>1. active \in DOMAIN ActionPlan /\ active \in 1 .. Len(ActionPlan) /\ first \in Nat
  BY FirstETAType, PlanAssumption
<1>2. c \in Nat \ {0} /\ s \in Nat \ {0}
  BY <1>1, PlanType
<1>3. /\ DOMAIN list = 1 .. 4
      /\ \A i \in 1 .. 4 :
           /\ list[i].vehicleID = i
           /\ list[i].ETA = IF i <= 2 THEN first ELSE first + c
           /\ list[i].CoordinationSplit = s
  BY DEF generateVirtualCoordinationPriorityRequest
<1> HIDE DEF list, first, c, s
<1>4. \A i \in 1 .. 4 : OfFirst(list[i]) <=> i <= 2
  BY <1>3 DEF OfFirst
<1>5. InStep(list, c, s)
  <2>1. ASSUME NEW i \in 1 .. 4, NEW j \in 1 .. 4
        PROVE  /\ list[i].ETA > 0 => list[i].CoordinationSplit = s
               /\ SamePair(list[i], list[j]) =>
                    list[i].ETA = list[j].ETA /\ list[i].CoordinationSplit = list[j].CoordinationSplit
               /\ OfFirst(list[i]) /\ ~OfFirst(list[j]) =>
                    /\ list[i].ETA > 0 => list[j].ETA = list[i].ETA + c
                    /\ list[i].ETA = 0 /\ list[j].ETA > 0 =>
                         list[j].ETA + s >= c + list[i].CoordinationSplit
                    /\ list[i].ETA = 0 /\ list[j].ETA = 0 =>
                         list[i].CoordinationSplit + c <= list[j].CoordinationSplit + MaxIterationTime
    <3>1. SamePair(list[i], list[j]) <=> (i <= 2 <=> j <= 2)
      BY <1>4 DEF SamePair
    <3>2. /\ list[i].ETA = IF i <= 2 THEN first ELSE first + c
          /\ list[j].ETA = IF j <= 2 THEN first ELSE first + c
          /\ list[i].CoordinationSplit = s /\ list[j].CoordinationSplit = s
      BY <1>3
    <3>3. OfFirst(list[i]) /\ ~OfFirst(list[j]) =>
            /\ list[i].ETA = first /\ list[j].ETA = first + c
            /\ list[j].ETA > 0
            /\ list[i].ETA = 0 => list[j].ETA + s >= c + s
      BY <1>1, <1>2, <1>4, <3>2
    <3>4. SamePair(list[i], list[j]) => list[i].ETA = list[j].ETA
      BY <3>1, <3>2
    <3>5. list[i].ETA = 0 => ~(list[i].ETA > 0)
      BY <1>1
    <3>6. list[j].ETA > 0 => list[j].ETA # 0
      BY <1>1
    <3>7. QED
      BY <3>2, <3>3, <3>4, <3>5, <3>6
  <2>2. QED
    BY <1>3, <2>1 DEF InStep
<1>6. WholePairs(list)
  <2>1. \A k \in 1 .. 4 : k \in DOMAIN list /\ list[k].vehicleID = k
    BY <1>3
  <2>2. \A odd \in {1, 3} : odd \in 1 .. 4 /\ odd + 1 \in 1 .. 4
    OBVIOUS
  <2>3. QED
    BY <2>1, <2>2 DEF WholePairs
<1>7. QED
  BY <1>1, <1>5, <1>6 DEF list, c, s

\* What is kept of a list in step is in step.
LEMMA KeptInStep ==
  ASSUME NEW list \in Seq(CoordinatedPhase), NEW K \in SUBSET (DOMAIN list),
         NEW c, NEW s, InStep(list, c, s)
  PROVE  InStep(Keep(list, K), c, s)
<1>1. \A n \in DOMAIN Keep(list, K) :
        Nth(K, n) \in DOMAIN list /\ Keep(list, K)[n] = list[Nth(K, n)]
  BY KeepType
<1>2. QED
  BY <1>1 DEF InStep

\* Ageing and sending leave the partners where they are.
LEMMA AgedAlone ==
  ASSUME requests \in Seq(CoordinatedPhase), NEW elapsed \in 1 .. MaxIterationTime,
         NEW i \in DOMAIN requests
  PROVE  Alone(updateETAInCoordinationRequestTable(elapsed), i) <=> Alone(requests, i)
<1> DEFINE f == updateETAInCoordinationRequestTable(elapsed)
<1>1. DOMAIN f = DOMAIN requests /\ \A j \in DOMAIN requests : f[j].vehicleID = requests[j].vehicleID
  BY UpdatedListType
<1> HIDE DEF f
<1>2. Alone(f, i) <=> Alone(requests, i)
  BY <1>1 DEF Alone, SamePair, OfFirst
<1>3. QED
  BY <1>2 DEF f

\* Who is kept has split left, or has just used it up.
LEMMA SplitLeftValues ==
  ASSUME NEW list \in Seq(CoordinatedPhase), NEW K \in SplitLeft(list)
  PROVE  /\ K \in SUBSET (DOMAIN list)
         /\ \A i \in K : list[i].CoordinationSplit >= 0
         /\ \A i \in DOMAIN list : list[i].CoordinationSplit > 0 => i \in K
<1>1. \A i \in DOMAIN list : list[i].CoordinationSplit \in Int
  <2>1. \A i \in DOMAIN list : list[i] \in CoordinatedPhase
    OBVIOUS
  <2>2. QED
    BY <2>1 DEF CoordinatedPhase
<1>2. QED
  BY <1>1 DEF SplitLeft

\* An iteration that only lets the list age.
LEMMA MaintainPairs ==
  ASSUME IterationsAreShort, GenTypeOK, PairInv,
         NEW active, NEW t, NEW age, NEW elapsed \in 1 .. MaxIterationTime,
         Maintain(active, t, elapsed, age)
  PROVE  PairInv' /\ (~WholePairs(requests) => WholePairs(requests'))
<1> DEFINE aged == updateETAInCoordinationRequestTable(elapsed)
<1>1. PICK K \in SplitLeft(aged) :
        /\ requests' = Keep(aged, K)
        /\ SendAfterDeletion(requests', K # DOMAIN aged, age)
  BY DEF Maintain
<1>2. requests \in Seq(CoordinatedPhase)
  BY DEF GenTypeOK
<1>3. /\ aged \in Seq(CoordinatedPhase) /\ DOMAIN aged = DOMAIN requests
      /\ \A i \in DOMAIN requests : aged[i].vehicleID = requests[i].vehicleID
  BY <1>2, UpdatedListType
<1>4. \A i \in DOMAIN requests :
        /\ elapsed \in Nat /\ 1 <= elapsed /\ elapsed <= MaxIterationTime
        /\ MaxIterationTime \in Nat
        /\ requests[i].ETA \in Nat /\ requests[i].CoordinationSplit \in Int
        /\ requests[i].ETA > elapsed =>
             /\ aged[i].ETA = requests[i].ETA - elapsed
             /\ aged[i].CoordinationSplit = requests[i].CoordinationSplit
        /\ ~(requests[i].ETA > elapsed) =>
             /\ aged[i].ETA = 0
             /\ aged[i].CoordinationSplit = requests[i].CoordinationSplit - elapsed
  BY <1>2, AgedValues
<1>5. \A i \in DOMAIN aged : aged[i].ETA \in Nat /\ aged[i].CoordinationSplit \in Int
  <2> HIDE DEF aged
  <2>1. \A i \in DOMAIN aged : aged[i] \in CoordinatedPhase
    BY <1>3
  <2>2. QED
    BY <2>1 DEF CoordinatedPhase
<1>6. /\ K \in SUBSET (DOMAIN aged)
      /\ \A i \in K : aged[i].CoordinationSplit >= 0
      /\ \A i \in DOMAIN aged : aged[i].CoordinationSplit > 0 => i \in K
  BY <1>3, SplitLeftValues
<1>7. /\ requests' \in Seq(CoordinatedPhase) /\ Len(requests') <= Len(aged)
      /\ \A n \in DOMAIN requests' : Nth(K, n) \in K /\ requests'[n] = aged[Nth(K, n)]
      /\ \A i \in K : \E n \in DOMAIN requests' : requests'[n] = aged[i]
  <2> HIDE DEF aged
  <2>1. QED
    BY <1>1, <1>3, <1>6, KeepType, KeepOnto
<1>8. CASE requests = <<>>
  <2>1. DOMAIN aged = {}
    BY <1>3, <1>8
  <2> HIDE DEF aged
  <2>2. DOMAIN requests' = {} /\ requests' = <<>>
    BY <1>3, <1>7, <2>1
  <2>3. WholePairs(requests')
    BY <2>2 DEF WholePairs
  <2>4. QED
    BY <2>2, <2>3 DEF PairInv
<1>9. CASE requests # <<>>
  <2>1. PICK p \in DOMAIN ActionPlan :
          InStep(requests, ActionPlan[p].cycleLength, ActionPlan[p].coordinationSplit)
    BY <1>9 DEF PairInv
  <2> DEFINE c == ActionPlan[p].cycleLength
             s == ActionPlan[p].coordinationSplit
  <2>2. c \in Nat /\ s \in Nat /\ s > 0 /\ c > 2 * MaxIterationTime
    <3>1. p \in 1 .. Len(ActionPlan)
      BY PlanAssumption
    <3>2. c \in Nat \ {0} /\ s \in Nat \ {0}
      BY <3>1, PlanType
    <3>3. QED
      BY <3>2 DEF IterationsAreShort
  <2>3. InStep(requests, c, s)
    BY <2>1
  <2> HIDE DEF c, s
  <2>4. InStep(aged, c, s)
    BY <1>2, <2>2, <2>3, AgedInStep
  <2> HIDE DEF aged
  <2>5. InStep(requests', c, s)
    BY <1>1, <1>3, <1>6, <2>4, KeptInStep
  \* A request that is left alone has just lost its partner.
  <2>6. ASSUME NEW n \in DOMAIN requests', Alone(requests', n)
        PROVE  \E i, j \in DOMAIN aged :
                 /\ requests'[n] = aged[i]
                 /\ SamePair(aged[i], aged[j]) /\ aged[j].vehicleID # aged[i].vehicleID
                 /\ aged[i].ETA = 0 /\ aged[i].CoordinationSplit = 0
                 /\ sentAge' = 0
    <3> DEFINE i == Nth(K, n)
    <3>1. i \in K /\ i \in DOMAIN aged /\ requests'[n] = aged[i]
      BY <1>6, <1>7
    <3> HIDE DEF i
    <3>2. ~Alone(requests, i)
      <4>1. ASSUME Alone(requests, i)
            PROVE  FALSE
        <5>1. requests[i].ETA = 0 /\ requests[i].CoordinationSplit = 0
          BY <1>3, <3>1, <4>1 DEF PairInv
        <5>2. aged[i].CoordinationSplit = 0 - elapsed
          BY <1>3, <1>4, <3>1, <5>1
        <5>3. 0 - elapsed < 0
          BY <1>3, <1>4, <3>1
        <5>4. QED
          BY <1>3, <1>4, <1>6, <3>1, <5>2, <5>3
      <4>2. QED
        BY <4>1
    <3>3. PICK j \in DOMAIN aged : /\ SamePair(aged[i], aged[j])
                                   /\ aged[j].vehicleID # aged[i].vehicleID
      BY <1>3, <3>1, <3>2 DEF Alone, SamePair, OfFirst
    <3>4. j \notin K
      <4>1. ASSUME j \in K
            PROVE  FALSE
        <5>1. PICK m \in DOMAIN requests' : requests'[m] = aged[j]
          BY <1>7, <4>1
        <5>2. QED
          BY <2>6, <3>1, <3>3, <5>1 DEF Alone
      <4>2. QED
        BY <4>1
    <3>5. aged[i].CoordinationSplit = aged[j].CoordinationSplit
      BY <2>4, <3>1, <3>3 DEF InStep
    <3>6. aged[i].CoordinationSplit = 0
      BY <1>5, <1>6, <3>1, <3>4, <3>5
    <3>7. aged[i].ETA = 0
      <4>1. aged[i].ETA > 0 => aged[i].CoordinationSplit = s
        BY <2>4, <3>1 DEF InStep
      <4>2. QED
        BY <1>5, <2>2, <3>1, <3>6, <4>1
    <3>8. K # DOMAIN aged /\ requests' # <<>>
      BY <1>7, <2>6, <3>4
    <3>9. sentAge' = 0
      BY <1>1, <3>8 DEF SendAfterDeletion
    <3>10. QED
      BY <3>1, <3>3, <3>6, <3>7, <3>9
  <2>7. PairInv'
    <3>1. \A n \in DOMAIN requests' : Alone(requests', n) =>
            sentAge' = 0 /\ requests'[n].ETA = 0 /\ requests'[n].CoordinationSplit = 0
      BY <2>6
    <3>2. QED
      BY <2>5, <3>1 DEF PairInv, c, s
  \* Two cycles never lose a request each in iterations that follow each other.
  <2>8. ASSUME NEW n \in DOMAIN requests', Alone(requests', n),
               NEW k \in DOMAIN requests, Alone(requests, k)
        PROVE  FALSE
    <3>1. PICK i, j \in DOMAIN aged :
                 /\ SamePair(aged[i], aged[j]) /\ aged[j].vehicleID # aged[i].vehicleID
                 /\ aged[i].ETA = 0 /\ aged[i].CoordinationSplit = 0
      BY <2>6, <2>8
    <3>2. ~SamePair(requests[k], requests[i])
      BY <1>3, <2>8, <3>1 DEF Alone, SamePair, OfFirst
    <3>3. requests[k].ETA = 0 /\ requests[k].CoordinationSplit = 0
      BY <2>8 DEF PairInv
    <3>4. /\ aged[k].ETA = 0 /\ aged[k].CoordinationSplit = 0 - elapsed
          /\ elapsed \in Nat /\ elapsed <= MaxIterationTime /\ MaxIterationTime \in Nat
      BY <1>4, <3>3
    <3>5. CASE OfFirst(requests[k])
      <4>1. OfFirst(aged[k]) /\ ~OfFirst(aged[i])
        BY <1>3, <3>1, <3>2, <3>5 DEF SamePair, OfFirst
      <4>2. aged[k].CoordinationSplit + c <= aged[i].CoordinationSplit + MaxIterationTime
        BY <1>3, <2>4, <3>1, <3>4, <4>1 DEF InStep
      <4>3. (0 - elapsed) + c <= 0 + MaxIterationTime
        BY <3>1, <3>4, <4>2
      <4>4. QED
        BY <2>2, <3>4, <4>3
    <3>6. CASE ~OfFirst(requests[k])
      <4>1. OfFirst(requests[i])
        BY <3>2, <3>6 DEF SamePair
      <4> DEFINE a == requests[i].ETA
                 x == requests[i].CoordinationSplit
      <4>2. /\ a > 0 => requests[k].ETA = a + c
            /\ a = 0 /\ requests[k].ETA = 0 =>
                 x + c <= requests[k].CoordinationSplit + MaxIterationTime
        BY <1>3, <2>3, <3>1, <3>6, <4>1 DEF InStep
      <4>3. a \in Nat /\ x \in Int /\ (~(a > elapsed) => aged[i].CoordinationSplit = x - elapsed)
        BY <1>3, <1>4, <3>1
      <4> HIDE DEF a, x
      <4>4. a > 0 => 0 = a + c
        BY <3>3, <4>2
      <4>5. a = 0
        BY <2>2, <4>3, <4>4
      <4>6. x + c <= MaxIterationTime
        BY <3>3, <3>4, <4>2, <4>5
      <4>7. 0 = x - elapsed
        BY <3>1, <3>4, <4>3, <4>5
      <4>8. QED
        BY <2>2, <3>4, <4>3, <4>6, <4>7
    <3>7. QED
      BY <3>5, <3>6
  <2>9. ASSUME ~WholePairs(requests)
        PROVE  WholePairs(requests')
    <3>1. PICK k \in DOMAIN requests : Alone(requests, k)
      BY <1>2, <2>9, WholeIsNotAlone
    <3>2. \A n \in DOMAIN requests' : ~Alone(requests', n)
      BY <2>8, <3>1
    <3>3. QED
      BY <1>7, <3>2, WholeIsNotAlone
  <2>10. QED
    BY <2>7, <2>9
<1>10. QED
  BY <1>8, <1>9

\* Sending the list again comes too late for a request that has lost its partner.
LEMMA UpdatePairs ==
  ASSUME IterationsAreShort, GenTypeOK, PairInv,
         NEW active, NEW t, NEW elapsed \in 1 .. MaxIterationTime,
         Update(active, t, elapsed, Aging(sentAge, elapsed, SRMTimedOutTime))
  PROVE  PairInv' /\ WholePairs(requests)
<1> DEFINE aged == updateETAInCoordinationRequestTable(elapsed)
           age == Aging(sentAge, elapsed, SRMTimedOutTime)
<1>1. /\ requests' = aged /\ requests # <<>> /\ age >= requestTimedOutValue
      /\ requests \in Seq(CoordinatedPhase)
  BY DEF Update, checkUpdateRequestSendingRequirement, GenTypeOK
<1>2. /\ aged \in Seq(CoordinatedPhase) /\ DOMAIN aged = DOMAIN requests
  BY <1>1, UpdatedListType
<1>3. sentAge # 0
  <2>1. elapsed \in Nat /\ elapsed <= MaxIterationTime /\ MaxIterationTime \in Nat
    BY GeneratorTimingAssumption, PlanAssumption
  <2>2. MaxIterationTime < requestTimedOutValue /\ requestTimedOutValue + MaxIterationTime <= SRMTimedOutTime
    BY TimeOutType DEF IterationsAreShort
  <2>3. Aging(0, elapsed, SRMTimedOutTime) = elapsed
    BY <2>1, <2>2, TimeOutType DEF Aging
  <2>4. QED
    BY <1>1, <2>1, <2>2, <2>3, TimeOutType
<1>4. \A i \in DOMAIN requests : ~Alone(requests, i)
  BY <1>3 DEF PairInv
<1>5. \A i \in DOMAIN aged : ~Alone(aged, i)
  BY <1>1, <1>2, <1>4, AgedAlone
<1>6. PICK p \in DOMAIN ActionPlan :
        InStep(requests, ActionPlan[p].cycleLength, ActionPlan[p].coordinationSplit)
  BY <1>1 DEF PairInv
<1> DEFINE c == ActionPlan[p].cycleLength
           s == ActionPlan[p].coordinationSplit
<1>7. c \in Nat /\ s \in Nat /\ c > 2 * MaxIterationTime
  <2>1. p \in 1 .. Len(ActionPlan)
    BY PlanAssumption
  <2>2. c \in Nat \ {0} /\ s \in Nat \ {0}
    BY <2>1, PlanType
  <2>3. QED
    BY <2>2 DEF IterationsAreShort
<1>8. InStep(aged, c, s)
  <2> HIDE DEF c, s
  <2>1. InStep(requests, c, s)
    BY <1>6 DEF c, s
  <2>2. QED
    BY <1>1, <1>7, <2>1, AgedInStep
<1>9. WholePairs(requests)
  BY <1>1, <1>4, WholeIsNotAlone
<1> HIDE DEF aged
<1>10. QED
  BY <1>1, <1>5, <1>8, <1>9 DEF PairInv

\* A new list, or none, has no request without its partner.
LEMMA WholePairsStep ==
  ASSUME requests' \in Seq(CoordinatedPhase), WholePairs(requests'),
         requests' # <<>> => \E p \in DOMAIN ActionPlan :
           InStep(requests', ActionPlan[p].cycleLength, ActionPlan[p].coordinationSplit)
  PROVE  PairInv'
<1>1. \A n \in DOMAIN requests' : ~Alone(requests', n)
  BY WholeIsNotAlone
<1>2. QED
  BY <1>1 DEF PairInv

LEMMA ClearedPairs ==
  ASSUME requests' = <<>>
  PROVE  PairInv' /\ WholePairs(requests')
<1>1. DOMAIN requests' = {}
  OBVIOUS
<1>2. QED
  BY <1>1 DEF PairInv, WholePairs

LEMMA PairInvNext ==
  ASSUME IterationsAreShort, GenInv, PairInv, [GenNext]_genVars
  PROVE  PairInv' /\ (~WholePairs(requests) => WholePairs(requests') \/ UNCHANGED genVars)
<1>1. GenTypeOK
  BY DEF GenInv
<1>2. CASE Iteration
  <2> DEFINE age(elapsed) == Aging(sentAge, elapsed, SRMTimedOutTime)
  <2>1. PICK elapsed \in 1 .. MaxIterationTime, active \in 0 .. Len(ActionPlan) :
          /\ now' \in Second
          /\ \/ FailAfterClear(active, now')
             \/ Generate(active, now')
             \/ Update(active, now', elapsed, age(elapsed))
             \/ Maintain(active, now', elapsed, age(elapsed))
             \/ EndPlan(active, now', elapsed, age(elapsed))
    BY <1>1, <1>2, IterationBranches
  <2>3. CASE Generate(active, now')
    <3>1. /\ checkCoordinationRequestSendingRequirement(active, now')
          /\ requests' = generateVirtualCoordinationPriorityRequest(ActionPlan[active], now')
      BY <2>3 DEF Generate
    <3>2. /\ active \in DOMAIN ActionPlan /\ WholePairs(requests')
          /\ InStep(requests', ActionPlan[active].cycleLength, ActionPlan[active].coordinationSplit)
          /\ requests' \in Seq(CoordinatedPhase)
      BY <2>1, <3>1, GeneratedInStep, GeneratedListType
    <3>3. QED
      BY <3>2, WholePairsStep
  <2>4. CASE Update(active, now', elapsed, age(elapsed))
    BY <1>1, <2>4, UpdatePairs
  <2>5. CASE Maintain(active, now', elapsed, age(elapsed))
    BY <1>1, <2>5, MaintainPairs
  <2>6. CASE EndPlan(active, now', elapsed, age(elapsed)) \/ FailAfterClear(active, now')
    <3>1. requests' = <<>>
      BY <2>6 DEF EndPlan, FailAfterClear, Forgotten
    <3>2. QED
      BY <3>1, ClearedPairs
  <2>7. QED
    BY <2>1, <2>3, <2>4, <2>5, <2>6
<1>3. CASE GenRestart
  BY <1>3, ClearedPairs DEF GenRestart, Forgotten
<1>4. CASE UNCHANGED genVars
  BY <1>4 DEF genVars, PairInv, Alone
<1>5. QED
  BY <1>2, <1>3, <1>4 DEF GenNext

\* With iterations shorter than half a cycle and than the time after which a list is
\* sent again, the two requests of a cycle part for one iteration at most.
THEOREM PairsRejoinAlways == IterationsAreShort => (GenSpec => PairsRejoin)
<1>1. ASSUME IterationsAreShort
      PROVE  GenSpec => PairsRejoin
  <2>1. GenInit => PairInv
    <3>1. ASSUME GenInit
          PROVE  PairInv
      <4>1. requests = <<>> /\ DOMAIN requests = {}
        BY <3>1 DEF GenInit
      <4>2. QED
        BY <4>1 DEF PairInv
    <3>2. QED
      BY <3>1
  <2>2. GenInv /\ PairInv /\ [GenNext]_genVars => PairInv'
    BY <1>1, PairInvNext
  <2>3. GenInv /\ PairInv /\ [GenNext]_genVars
          => [~WholePairs(requests) => WholePairs(requests')]_genVars
    BY <1>1, PairInvNext
  <2>4. QED
    BY <2>1, <2>2, <2>3, GenInvariant, PTL DEF GenSpec, PairsRejoin
<1>2. QED
  BY <1>1

-----------------------------------------------------------------------------
(* Every cycle is served *)

\* At the start of a cycle the list is new.
NewAtCycleStart ==
  plan # 0 /\ AtCycleStart(ActionPlan[plan], now) =>
    /\ Len(requests) = 4
    /\ \A i \in DOMAIN requests :
         requests[i].CoordinationSplit = ActionPlan[plan].coordinationSplit

LEMMA Remainder ==
  ASSUME NEW x \in Int, NEW c \in Nat \ {0}
  PROVE  x % c \in 0 .. c - 1 /\ x \div c \in Int /\ x = c * (x \div c) + (x % c)
OBVIOUS

LEMMA RemainderUnique ==
  ASSUME NEW x \in Int, NEW c \in Nat \ {0}, NEW q \in Int, NEW r \in 0 .. c - 1,
         x = c * q + r
  PROVE  x % c = r
OBVIOUS

\* A second before the offset, unless that is zero, the cycle is the same.
LEMMA SecondBefore ==
  ASSUME NEW x \in Int, NEW c \in Nat \ {0}, (x + 1) % c >= 1
  PROVE  x % c = ((x + 1) % c) - 1
<1> DEFINE q == (x + 1) \div c
           r == (x + 1) % c
<1>1. r \in 1 .. c - 1 /\ q \in Int /\ x + 1 = c * q + r
  BY Remainder
<1> HIDE DEF q, r
<1>2. c * q \in Int
  BY <1>1
<1>3. r - 1 \in 0 .. c - 1 /\ x = c * q + (r - 1)
  BY <1>1, <1>2
<1>4. x % c = r - 1
  BY <1>1, <1>3, RemainderUnique
<1>5. QED
  BY <1>4 DEF r

\* A branch that starts no list leaves no plan at the start of a cycle.
LEMMA NotGenerated ==
  ASSUME NEW active, NEW t, NEW age, NEW elapsed,
         \/ Update(active, t, elapsed, age) \/ Maintain(active, t, elapsed, age)
         \/ EndPlan(active, t, elapsed, age) \/ FailAfterClear(active, t)
  PROVE  plan' \in {0, active} /\ (active # 0 => ~AtCycleStart(ActionPlan[active], t))
BY DEF Update, Maintain, EndPlan, FailAfterClear, Forgotten,
       checkCoordinationRequestSendingRequirement

LEMMA GeneratedList ==
  ASSUME NEW active \in 0 .. Len(ActionPlan), NEW t \in Second, Generate(active, t)
  PROVE  /\ plan' = active /\ Len(requests') = 4
         /\ \A i \in DOMAIN requests' :
              requests'[i].CoordinationSplit = ActionPlan[active].coordinationSplit
<1>1. /\ checkCoordinationRequestSendingRequirement(active, t) /\ plan' = active
      /\ requests' = generateVirtualCoordinationPriorityRequest(ActionPlan[active], t)
  BY DEF Generate
<1>2. Len(requests') = 4
  BY <1>1, GeneratedListType
<1>3. \A i \in DOMAIN requests' :
        requests'[i].CoordinationSplit = ActionPlan[active].coordinationSplit
  BY <1>1 DEF generateVirtualCoordinationPriorityRequest
<1>4. QED
  BY <1>1, <1>2, <1>3

LEMMA NewAtCycleStartNext ==
  ASSUME GenTypeOK, NewAtCycleStart, [GenNext]_genVars
  PROVE  NewAtCycleStart'
<1>1. CASE Iteration
  <2>1. PICK elapsed \in 1 .. MaxIterationTime, active \in 0 .. Len(ActionPlan) :
          /\ now' \in Second
          /\ \/ FailAfterClear(active, now')
             \/ Generate(active, now')
             \/ Update(active, now', elapsed, Aging(sentAge, elapsed, SRMTimedOutTime))
             \/ Maintain(active, now', elapsed, Aging(sentAge, elapsed, SRMTimedOutTime))
             \/ EndPlan(active, now', elapsed, Aging(sentAge, elapsed, SRMTimedOutTime))
    BY <1>1, IterationBranches
  <2>2. CASE Generate(active, now')
    BY <2>1, <2>2, GeneratedList DEF NewAtCycleStart
  <2>3. CASE ~Generate(active, now')
    <3>1. plan' \in {0, active} /\ (active # 0 => ~AtCycleStart(ActionPlan[active], now'))
      BY <2>1, <2>3, NotGenerated
    <3>2. QED
      BY <3>1 DEF NewAtCycleStart, AtCycleStart, UntilOffset
  <2>4. QED
    BY <2>2, <2>3
<1>2. CASE GenRestart
  BY <1>2 DEF GenRestart, Forgotten, NewAtCycleStart
<1>3. CASE UNCHANGED genVars
  BY <1>3 DEF genVars, NewAtCycleStart, AtCycleStart, UntilOffset
<1>4. QED
  BY <1>1, <1>2, <1>3 DEF GenNext

\* A new list is still whole an iteration later.
LEMMA NewListLasts ==
  ASSUME GenTypeOK, NEW elapsed \in 1 .. MaxIterationTime, NEW active, NEW t, NEW age,
         Len(requests) = 4,
         \A i \in DOMAIN requests : requests[i].CoordinationSplit > MaxIterationTime,
         Update(active, t, elapsed, age) \/ Maintain(active, t, elapsed, age)
  PROVE  Len(requests') = 4
<1> DEFINE aged == updateETAInCoordinationRequestTable(elapsed)
<1>1. requests \in Seq(CoordinatedPhase)
  BY DEF GenTypeOK
<1>2. aged \in Seq(CoordinatedPhase) /\ DOMAIN aged = DOMAIN requests
  BY <1>1, UpdatedListType
<1>3. \A i \in DOMAIN requests : aged[i].CoordinationSplit > 0
  <2>1. ASSUME NEW i \in DOMAIN requests
        PROVE  aged[i].CoordinationSplit > 0
    <3> DEFINE x == requests[i].CoordinationSplit
    <3>1. /\ elapsed \in Nat /\ elapsed <= MaxIterationTime /\ MaxIterationTime \in Nat
          /\ x \in Int
          /\ aged[i].CoordinationSplit = x \/ aged[i].CoordinationSplit = x - elapsed
      BY <1>1, AgedValues
    <3>2. x > MaxIterationTime
      OBVIOUS
    <3> HIDE DEF x, aged
    <3>3. x > 0 /\ x - elapsed > 0
      BY <3>1, <3>2
    <3>4. QED
      BY <3>1, <3>3
  <2>2. QED
    BY <2>1
<1> HIDE DEF aged
<1>4. Len(aged) = 4
  BY <1>1, <1>2
<1>5. CASE Update(active, t, elapsed, age)
  BY <1>4, <1>5 DEF Update, aged
<1>6. CASE Maintain(active, t, elapsed, age)
  <2>1. PICK K \in SplitLeft(aged) : requests' = Keep(aged, K)
    BY <1>6 DEF Maintain, aged
  <2>2. K = DOMAIN aged
    BY <1>2, <1>3, <2>1, SplitLeftValues
  <2>3. requests' = aged
    BY <1>2, <2>1, <2>2, KeepAll
  <2>4. QED
    BY <1>4, <2>3
<1>7. QED
  BY <1>5, <1>6

\* An iteration that passes the start of a cycle ends at it or has begun a second before.
LEMMA PassedStart ==
  ASSUME WindowIsMet, NEW p \in DOMAIN ActionPlan, NEW s \in Second, NEW t \in Second,
         NEW elapsed \in 1 .. MaxIterationTime, t = Later(s, elapsed),
         PassesCycleStart(ActionPlan[p], s, t)
  PROVE  AtCycleStart(ActionPlan[p], s) \/ AtCycleStart(ActionPlan[p], t)
<1> DEFINE start == ActionPlan[p].start
           offset == ActionPlan[p].offset
           c == ActionPlan[p].cycleLength
<1>1. /\ start \in Int /\ offset \in Nat /\ offset > 0 /\ c \in Nat \ {0}
  <2>1. p \in 1 .. Len(ActionPlan)
    BY PlanAssumption
  <2>2. QED
    BY <2>1, PlanType DEF WindowIsMet
<1>2. /\ MaxIterationTime \in Nat /\ MaxIterationTime <= 2 /\ elapsed \in Nat /\ elapsed <= MaxIterationTime
      /\ DayLength \in Nat /\ s \in Nat /\ t \in Nat /\ MaxIterationTime < DayLength
  BY GeneratorTimingAssumption, PlanAssumption DEF WindowIsMet, Second
<1>3. PICK d \in 1 .. MaxIterationTime :
        s + d <= t /\ s + d > start + offset /\ (s + d - start) % c = offset
  BY DEF PassesCycleStart
<1> HIDE DEF start, offset, c
<1>4. t = s + elapsed
  <2>1. t = s + elapsed \/ t = s + elapsed - DayLength
    BY DEF Later
  <2>2. s < t
    BY <1>2, <1>3
  <2>3. QED
    BY <1>2, <2>1, <2>2
<1>5. d \in Nat /\ d >= 1 /\ d <= elapsed
  BY <1>2, <1>3, <1>4
<1>6. CASE d = elapsed
  <2>1. t > start /\ (t - start) % c = offset
    BY <1>1, <1>2, <1>3, <1>4, <1>6
  <2>2. offset - offset = 0
    BY <1>1
  <2>3. UntilOffset(ActionPlan[p], t) = 0
    BY <2>1, <2>2 DEF UntilOffset, start, offset, c
  <2>4. QED
    BY <2>1, <2>3 DEF AtCycleStart, start
<1>7. CASE d # elapsed
  <2>1. d = 1 /\ s > start
    BY <1>1, <1>2, <1>3, <1>5, <1>7
  <2>2. s - start \in Int /\ (s - start) + 1 = s + d - start
    BY <1>1, <1>2, <2>1
  <2>3. ((s - start) + 1) % c = offset
    BY <1>3, <2>2
  <2>4. (s - start) % c = offset - 1
    BY <1>1, <2>2, <2>3, SecondBefore
  <2>5. offset - ((s - start) % c) = 1
    BY <1>1, <2>4
  <2>6. UntilOffset(ActionPlan[p], s) = 1
    BY <2>5 DEF UntilOffset, start, offset, c
  <2>7. QED
    BY <2>1, <2>6 DEF AtCycleStart, start
<1>8. QED
  BY <1>6, <1>7

LEMMA CycleServed ==
  ASSUME WindowIsMet, GenTypeOK, NewAtCycleStart, [GenNext]_genVars,
         plan # 0, plan' = plan, PassesCycleStart(ActionPlan[plan], now, now')
  PROVE  Len(requests') = 4
<1>1. plan \in DOMAIN ActionPlan /\ plan \in 1 .. Len(ActionPlan)
  BY PlanAssumption DEF GenTypeOK
<1>2. now' # now
  <2>1. now \in Nat /\ MaxIterationTime \in Nat
    BY PlanAssumption, GeneratorTimingAssumption DEF GenTypeOK, Second
  <2>2. PICK d \in 1 .. MaxIterationTime : now + d <= now'
    BY DEF PassesCycleStart
  <2>3. QED
    BY <2>1, <2>2
<1>3. Iteration
  BY <1>2 DEF GenNext, GenRestart, genVars
<1>4. PICK elapsed \in 1 .. MaxIterationTime, active \in 0 .. Len(ActionPlan) :
          /\ now' = Later(now, elapsed) /\ now' \in Second
          /\ \/ FailAfterClear(active, now')
             \/ Generate(active, now')
             \/ Update(active, now', elapsed, Aging(sentAge, elapsed, SRMTimedOutTime))
             \/ Maintain(active, now', elapsed, Aging(sentAge, elapsed, SRMTimedOutTime))
             \/ EndPlan(active, now', elapsed, Aging(sentAge, elapsed, SRMTimedOutTime))
  BY <1>3, IterationBranches
<1> DEFINE age == Aging(sentAge, elapsed, SRMTimedOutTime)
<1> HIDE DEF age
<1>5. CASE Generate(active, now')
  BY <1>4, <1>5, GeneratedList
<1>6. CASE Update(active, now', elapsed, age) \/ Maintain(active, now', elapsed, age)
  <2>1. ~AtCycleStart(ActionPlan[plan], now')
    BY <1>6, NotGenerated
  <2>2. AtCycleStart(ActionPlan[plan], now)
    BY <1>1, <1>4, <2>1, PassedStart DEF GenTypeOK
  <2>3. /\ Len(requests) = 4
        /\ \A i \in DOMAIN requests :
             requests[i].CoordinationSplit > MaxIterationTime
    BY <1>1, <2>2 DEF NewAtCycleStart, WindowIsMet
  <2>4. QED
    BY <1>6, <2>3, NewListLasts
<1>7. CASE EndPlan(active, now', elapsed, age) \/ FailAfterClear(active, now')
  BY <1>7 DEF EndPlan, FailAfterClear, Forgotten
<1>8. QED
  BY <1>4, <1>5, <1>6, <1>7 DEF age

\* An iteration that passes the start of a cycle leaves a list for two cycles, as long as
\* iterations take two seconds at most and no cycle's offset is zero.
THEOREM EveryCycleIsServedAlways == WindowIsMet => (GenSpec => EveryCycleIsServed)
<1>1. ASSUME WindowIsMet
      PROVE  GenSpec => EveryCycleIsServed
  <2>1. GenInit => NewAtCycleStart
    BY DEF GenInit, NewAtCycleStart
  <2>2. GenInv /\ NewAtCycleStart /\ [GenNext]_genVars => NewAtCycleStart'
    BY NewAtCycleStartNext DEF GenInv
  <2>3. GenInv /\ NewAtCycleStart /\ [GenNext]_genVars
          => [ plan # 0 /\ plan' = plan /\ PassesCycleStart(ActionPlan[plan], now, now')
               => Len(requests') = 4 ]_genVars
    BY <1>1, CycleServed DEF GenInv
  <2>4. QED
    BY <2>1, <2>2, <2>3, GenInvariant, PTL DEF GenSpec, EveryCycleIsServed
<1>2. QED
  BY <1>1

-----------------------------------------------------------------------------
(* Requests around the hours of a plan *)

\* The last time at which the coordinated phases of a plan are due in this cycle.
LastPoint(p) == p.end + 2 * MaxIterationTime + 1

\* A plan that has ended is still kept because the list has just been sent, again or, in
\* a window that the plan's end did not close, for two more cycles.
AfterEnd(p) ==
  /\ sentAge = 0
  /\ \/ now <= p.end + MaxIterationTime
     \/ AtCycleStart(p, now) /\ now + UntilOffset(p, now) <= LastPoint(p)

PlanKept ==
  plan # 0 =>
    /\ ActionPlan[plan].start - ActionPlan[plan].cycleLength <= now
    /\ now <= ActionPlan[plan].end \/ AfterEnd(ActionPlan[plan])

\* When a request will have used up its split: the iteration in which it falls due costs
\* it at least a second.
LastUse(r) == now + r.CoordinationSplit + (IF r.ETA > 0 THEN r.ETA - 1 ELSE 0)

\* The list began with plan p, and will end soon after it.
BeganWith(p) ==
  /\ p.start - p.cycleLength <= now
  /\ \A i \in DOMAIN requests :
       /\ LastUse(requests[i]) < LastPoint(p) + p.cycleLength + p.coordinationSplit
       /\ \/ requests[i].CoordinationSplit >= 0
          \/ sentAge = 0 /\ requests[i].CoordinationSplit >= 0 - MaxIterationTime

ListKept == requests # <<>> => \E i \in DOMAIN ActionPlan : BeganWith(ActionPlan[i])

\* The numbers of a plan.
LEMMA PlanNumbers ==
  ASSUME PlansEndInTime, NEW i \in DOMAIN ActionPlan
  PROVE  LET p == ActionPlan[i]
         IN  /\ p.start \in Int /\ p.end \in Int /\ p.offset \in Nat
             /\ p.cycleLength \in Nat /\ p.cycleLength > MaxIterationTime + 1
             /\ p.coordinationSplit \in Nat /\ p.coordinationSplit > 0
             /\ p.start + p.cycleLength <= p.end
             /\ Leftover(p) = p.cycleLength + p.coordinationSplit + 3 * MaxIterationTime
             /\ p.end + Leftover(p) + MaxIterationTime < DayLength
             /\ LastPoint(p) = p.end + 2 * MaxIterationTime + 1
<1>1. i \in 1 .. Len(ActionPlan)
  BY PlanAssumption
<1> DEFINE p == ActionPlan[i]
<1>2. /\ p.start \in Int /\ p.end \in Int /\ p.offset \in Nat
      /\ p.cycleLength \in Nat \ {0} /\ p.coordinationSplit \in Nat \ {0}
  BY <1>1, PlanType
<1>3. /\ p.cycleLength > MaxIterationTime + 1 /\ p.start + p.cycleLength <= p.end
      /\ p.end + Leftover(p) + MaxIterationTime < DayLength
  BY DEF PlansEndInTime
<1>4. QED
  BY <1>2, <1>3 DEF Leftover, LastPoint

LEMMA TimeNumbers ==
  ASSUME NEW elapsed \in 1 .. MaxIterationTime
  PROVE  /\ MaxIterationTime \in Nat /\ elapsed \in Nat /\ 1 <= elapsed
         /\ elapsed <= MaxIterationTime /\ DayLength \in Nat /\ Second \subseteq Nat
BY GeneratorTimingAssumption, PlanAssumption DEF Second

LEMMA WindowNumbers ==
  ASSUME PlansEndInTime, NEW i \in DOMAIN ActionPlan, NEW t \in Int
  PROVE  LET p == ActionPlan[i]
         IN  /\ UntilOffset(p, t) \in Int
             /\ AtCycleStart(p, t) <=> t > p.start /\ UntilOffset(p, t) \in {0, 1}
<1> DEFINE p == ActionPlan[i]
<1>1. /\ p.start \in Int /\ p.offset \in Nat /\ p.cycleLength \in Nat
      /\ p.cycleLength > MaxIterationTime + 1 /\ MaxIterationTime \in Nat
  BY PlanNumbers, GeneratorTimingAssumption, PlanAssumption
<1>2. UntilOffset(p, t) \in Int
  BY <1>1 DEF UntilOffset
<1>3. QED
  BY <1>2 DEF AtCycleStart

\* No iteration leads from the start of one cycle to that of the next.
LEMMA SameStart ==
  ASSUME PlansEndInTime, NEW i \in DOMAIN ActionPlan, NEW t \in Int,
         NEW elapsed \in 1 .. MaxIterationTime,
         AtCycleStart(ActionPlan[i], t), AtCycleStart(ActionPlan[i], t + elapsed)
  PROVE  t + elapsed + UntilOffset(ActionPlan[i], t + elapsed)
           = t + UntilOffset(ActionPlan[i], t)
<1> DEFINE p == ActionPlan[i]
           c == p.cycleLength
           x == t - p.start
           y == (t + elapsed) - p.start
           q == x \div c
           k == y \div c
           u == UntilOffset(p, t)
           v == UntilOffset(p, t + elapsed)
<1>1. /\ p.start \in Int /\ p.offset \in Nat /\ c \in Nat /\ c > MaxIterationTime + 1
      /\ MaxIterationTime \in Nat /\ elapsed \in Nat /\ 1 <= elapsed /\ elapsed <= MaxIterationTime
  BY PlanNumbers, TimeNumbers
<1>2. u \in {0, 1} /\ v \in {0, 1}
  <2>1. t + elapsed \in Int
    BY <1>1
  <2>2. QED
    BY <2>1, WindowNumbers
<1>3. x \in Int /\ y \in Int /\ y = x + elapsed /\ c \in Nat \ {0}
  BY <1>1
<1>4. u = p.offset - (x % c) /\ v = p.offset - (y % c)
  BY DEF UntilOffset
<1> HIDE DEF c, x, y, u, v, p
<1>5. /\ q \in Int /\ x = c * q + (x % c) /\ x % c \in Int
      /\ k \in Int /\ y = c * k + (y % c) /\ y % c \in Int
  <2>1. q \in Int /\ x = c * q + (x % c) /\ x % c \in 0 .. c - 1
    BY <1>3, Remainder
  <2>2. k \in Int /\ y = c * k + (y % c) /\ y % c \in 0 .. c - 1
    BY <1>3, Remainder
  <2> HIDE DEF q, k
  <2>3. QED
    BY <2>1, <2>2
<1> HIDE DEF q, k
<1>6. c * k - c * q = elapsed - u + v
  <2>1. c * q \in Int /\ c * k \in Int
    BY <1>3, <1>5
  <2>2. QED
    BY <1>1, <1>2, <1>3, <1>4, <1>5, <2>1
<1>7. c * (k - q) = elapsed - u + v
  BY <1>3, <1>5, <1>6
<1>8. k = q
  <2>1. ASSUME k - q >= 1
        PROVE  FALSE
    <3>1. c * (k - q) >= c
      BY <1>3, <1>5, <2>1
    <3>2. QED
      BY <1>1, <1>2, <1>7, <3>1
  <2>2. ASSUME k - q <= -1
        PROVE  FALSE
    <3>1. c * (k - q) <= -c
      BY <1>3, <1>5, <2>2
    <3>2. QED
      BY <1>1, <1>2, <1>7, <3>1
  <2>3. QED
    BY <1>5, <2>1, <2>2
<1>9. elapsed + v = u
  BY <1>1, <1>2, <1>3, <1>5, <1>7, <1>8
<1>10. (t + elapsed) + v = t + u
  BY <1>1, <1>2, <1>9
<1>11. QED
  BY <1>10 DEF u, v, p

\* The plan check adopts a plan only in its hours, or less than a cycle before them.
LEMMA AdoptedInHours ==
  ASSUME PlansEndInTime, NEW t \in Second, getActiveCoordinationPlan(t) # 0
  PROVE  LET p == ActionPlan[getActiveCoordinationPlan(t)]
         IN  /\ getActiveCoordinationPlan(t) \in DOMAIN ActionPlan
             /\ p.start - p.cycleLength <= t /\ t <= p.end
<1> DEFINE active == {i \in DOMAIN ActionPlan : IsActive(ActionPlan[i], t)}
           a == getActiveCoordinationPlan(t)
<1>1. Len(ActionPlan) \in Nat /\ DOMAIN ActionPlan = 1 .. Len(ActionPlan)
  BY PlanAssumption
<1>2. active # {} /\ a = Nth(active, 1)
  BY DEF getActiveCoordinationPlan
<1>3. a \in active
  BY <1>1, <1>2, NthFirst
<1> HIDE DEF a
<1>4. a \in DOMAIN ActionPlan /\ IsActive(ActionPlan[a], t)
  BY <1>3
<1> DEFINE p == ActionPlan[a]
<1>5. /\ p.start \in Int /\ p.end \in Int /\ p.cycleLength \in Nat
      /\ p.start + p.cycleLength <= p.end /\ t \in Int
  BY <1>4, PlanNumbers, PlanAssumption DEF Second
<1>6. (p.start <= t /\ t <= p.end) \/ Distance(p.start, t) <= p.cycleLength
  BY <1>4 DEF IsActive
<1>7. p.start - p.cycleLength <= t /\ t <= p.end
  BY <1>5, <1>6 DEF Distance
<1>8. QED
  BY <1>4, <1>7 DEF a

\* While a plan is kept or a list is left, the day does not end, and the list is not
\* outside the plan's hours.
LEMMA NoMidnight ==
  ASSUME PlansEndInTime, GenTypeOK, PlanKept, ListKept,
         NEW elapsed \in 1 .. MaxIterationTime, plan # 0 \/ requests # <<>>
  PROVE  Later(now, elapsed) = now + elapsed
<1>1. /\ MaxIterationTime \in Nat /\ elapsed \in Nat /\ elapsed <= MaxIterationTime
      /\ DayLength \in Nat /\ now \in Nat
  BY TimeNumbers DEF GenTypeOK
<1>2. CASE plan # 0
  <2> DEFINE p == ActionPlan[plan]
  <2>1. plan \in DOMAIN ActionPlan
    BY <1>2, PlanAssumption DEF GenTypeOK
  <2>2. /\ p.end \in Int /\ p.cycleLength \in Nat /\ p.cycleLength > MaxIterationTime + 1
        /\ p.coordinationSplit \in Nat
        /\ Leftover(p) = p.cycleLength + p.coordinationSplit + 3 * MaxIterationTime
        /\ p.end + Leftover(p) + MaxIterationTime < DayLength
        /\ LastPoint(p) = p.end + 2 * MaxIterationTime + 1
    BY <2>1, PlanNumbers
  <2>3. AtCycleStart(p, now) => UntilOffset(p, now) \in {0, 1}
    BY <1>1, <2>1, WindowNumbers
  <2>4. now <= LastPoint(p)
    BY <1>1, <1>2, <2>2, <2>3 DEF PlanKept, AfterEnd
  <2> HIDE DEF p
  <2>5. now + elapsed < DayLength
    BY <1>1, <2>2, <2>4
  <2>6. QED
    BY <2>5 DEF Later
<1>3. CASE requests # <<>>
  <2>1. PICK i \in DOMAIN ActionPlan : BeganWith(ActionPlan[i])
    BY <1>3 DEF ListKept
  <2> DEFINE p == ActionPlan[i]
             r == requests[1]
  <2>2. requests \in Seq(CoordinatedPhase)
    BY DEF GenTypeOK
  <2>3. 1 \in DOMAIN requests
    BY <1>3, <2>2
  <2>4. r \in CoordinatedPhase
    BY <2>2, <2>3
  <2>5. r.ETA \in Nat /\ r.CoordinationSplit \in Int
    BY <2>4 DEF CoordinatedPhase
  <2>6. /\ LastUse(r) < LastPoint(p) + p.cycleLength + p.coordinationSplit
        /\ r.CoordinationSplit >= 0 \/ r.CoordinationSplit >= 0 - MaxIterationTime
    BY <2>1, <2>3 DEF BeganWith
  <2>7. now + r.CoordinationSplit <= LastUse(r) /\ LastUse(r) \in Int
    BY <1>1, <2>5 DEF LastUse
  <2>8. /\ p.end \in Int /\ p.cycleLength \in Nat /\ p.coordinationSplit \in Nat
        /\ Leftover(p) = p.cycleLength + p.coordinationSplit + 3 * MaxIterationTime
        /\ p.end + Leftover(p) + MaxIterationTime < DayLength
        /\ LastPoint(p) = p.end + 2 * MaxIterationTime + 1
    BY PlanNumbers
  <2> HIDE DEF p, r
  <2> DEFINE u == LastUse(r)
             x == r.CoordinationSplit
             c == p.cycleLength
             s == p.coordinationSplit
             end == p.end
  <2> HIDE DEF u, x, c, s, end
  <2>8a. /\ end \in Int /\ c \in Nat /\ s \in Nat /\ x \in Int /\ u \in Int
         /\ x >= 0 - MaxIterationTime /\ now + x <= u
         /\ u < (end + 2 * MaxIterationTime + 1) + c + s
    <3>1. end \in Int /\ c \in Nat /\ s \in Nat
      BY <2>8 DEF c, s, end
    <3>2. x \in Int /\ u \in Int /\ now + x <= u
      BY <2>5, <2>7 DEF u, x
    <3>3. x >= 0 \/ x >= 0 - MaxIterationTime
      BY <2>6 DEF x
    <3>4. u < LastPoint(p) + c + s
      BY <2>6 DEF u, c, s
    <3>5. LastPoint(p) = end + 2 * MaxIterationTime + 1
      BY <2>8 DEF end
    <3>6. x >= 0 - MaxIterationTime
      BY <3>2, <3>3, <1>1
    <3>7. u < (end + 2 * MaxIterationTime + 1) + c + s
      BY <3>4, <3>5
    <3>8. QED
      BY <3>1, <3>2, <3>6, <3>7
  <2>8b. end + (c + s + 3 * MaxIterationTime) + MaxIterationTime < DayLength
    BY <2>8 DEF c, s, end
  <2>9. now + elapsed < DayLength
    BY <1>1, <2>8a, <2>8b
  <2>10. QED
    BY <2>9 DEF Later
<1>4. QED
  BY <1>2, <1>3

\* The same numbers say how long a list can last.
LEMMA ListInHours ==
  ASSUME PlansEndInTime, GenTypeOK, ListKept
  PROVE  NoRequestWithoutPlan
<1>1. ASSUME requests # <<>>
      PROVE  \E i \in DOMAIN ActionPlan :
               /\ ActionPlan[i].start - ActionPlan[i].cycleLength <= now
               /\ now <= ActionPlan[i].end + Leftover(ActionPlan[i])
  <2>1. PICK i \in DOMAIN ActionPlan : BeganWith(ActionPlan[i])
    BY <1>1 DEF ListKept
  <2> DEFINE p == ActionPlan[i]
             r == requests[1]
  <2>2. requests \in Seq(CoordinatedPhase) /\ now \in Nat /\ MaxIterationTime \in Nat
    BY PlanAssumption, GeneratorTimingAssumption DEF GenTypeOK, Second
  <2>3. 1 \in DOMAIN requests
    BY <1>1, <2>2
  <2>4. r \in CoordinatedPhase
    BY <2>2, <2>3
  <2>5. r.ETA \in Nat /\ r.CoordinationSplit \in Int
    BY <2>4 DEF CoordinatedPhase
  <2>6. /\ LastUse(r) < LastPoint(p) + p.cycleLength + p.coordinationSplit
        /\ r.CoordinationSplit >= 0 \/ r.CoordinationSplit >= 0 - MaxIterationTime
        /\ p.start - p.cycleLength <= now
    BY <2>1, <2>3 DEF BeganWith
  <2>7. now + r.CoordinationSplit <= LastUse(r) /\ LastUse(r) \in Int
    BY <2>2, <2>5 DEF LastUse
  <2>8. /\ p.end \in Int /\ p.cycleLength \in Nat /\ p.coordinationSplit \in Nat
        /\ Leftover(p) = p.cycleLength + p.coordinationSplit + 3 * MaxIterationTime
        /\ LastPoint(p) = p.end + 2 * MaxIterationTime + 1
    BY PlanNumbers
  <2>9. now <= p.end + Leftover(p)
    <3> HIDE DEF p, r
    <3> DEFINE u == LastUse(r)
               x == r.CoordinationSplit
               c == p.cycleLength
               s == p.coordinationSplit
               end == p.end
    <3> HIDE DEF u, x, c, s, end
    <3>1. /\ end \in Int /\ c \in Nat /\ s \in Nat /\ x \in Int /\ u \in Int
           /\ x >= 0 - MaxIterationTime /\ now + x <= u
           /\ u < (end + 2 * MaxIterationTime + 1) + c + s
      BY <2>5, <2>6, <2>7, <2>8, <2>2 DEF u, x, c, s, end
    <3>2. now <= end + (c + s + 3 * MaxIterationTime)
      BY <2>2, <3>1
    <3>3. QED
      BY <2>8, <3>2 DEF c, s, end
  <2>10. QED
    BY <2>6, <2>9
<1>2. QED
  BY <1>1 DEF NoRequestWithoutPlan

\* An iteration's plan is in its hours, or was already the plan before.
LEMMA ActiveInHours ==
  ASSUME PlansEndInTime, GenTypeOK, PlanKept, ListKept,
         NEW elapsed \in 1 .. MaxIterationTime, NEW t \in Second, t = Later(now, elapsed),
         NEW active \in 0 .. Len(ActionPlan), active # 0,
         active = getActiveCoordinationPlan(t) \/ (active = plan /\ plan # 0)
  PROVE  /\ active \in DOMAIN ActionPlan
         /\ ActionPlan[active].start - ActionPlan[active].cycleLength <= t
         /\ \/ t <= ActionPlan[active].end
            \/ active = plan /\ t = now + elapsed
<1>1. CASE active = getActiveCoordinationPlan(t)
  BY <1>1, AdoptedInHours
<1>2. CASE active = plan /\ plan # 0
  <2>1. active \in DOMAIN ActionPlan
    BY PlanAssumption
  <2>2. t = now + elapsed
    BY <1>2, NoMidnight
  <2> DEFINE p == ActionPlan[active]
  <2>3. p.start - p.cycleLength <= now
    BY <1>2 DEF PlanKept
  <2>4. p.start \in Int /\ p.cycleLength \in Nat /\ now \in Int /\ elapsed \in Nat
    BY <2>1, PlanNumbers, TimeNumbers DEF GenTypeOK
  <2> HIDE DEF p
  <2>5. p.start - p.cycleLength <= t
    BY <2>2, <2>3, <2>4
  <2>6. QED
    BY <1>2, <2>1, <2>2, <2>5 DEF p
<1>3. QED
  BY <1>1, <1>2

\* Ageing does not put off the time at which a request's split is used up.
LEMMA AgedLastUse ==
  ASSUME requests \in Seq(CoordinatedPhase), now \in Nat, now' \in Int,
         NEW elapsed \in 1 .. MaxIterationTime, now' = now + elapsed,
         NEW i \in DOMAIN requests
  PROVE  LET a == updateETAInCoordinationRequestTable(elapsed)[i]
         IN  /\ a.ETA \in Nat /\ a.CoordinationSplit \in Int
             /\ now' + a.CoordinationSplit + (IF a.ETA > 0 THEN a.ETA - 1 ELSE 0)
                  <= LastUse(requests[i])
             /\ LastUse(requests[i]) \in Int
             /\ requests[i].CoordinationSplit >= 0 =>
                  a.CoordinationSplit >= 0 - MaxIterationTime
<1> DEFINE f == updateETAInCoordinationRequestTable(elapsed)
           e == requests[i].ETA
           s == requests[i].CoordinationSplit
           E == f[i].ETA
           S == f[i].CoordinationSplit
           u == LastUse(requests[i])
<1>1. /\ elapsed \in Nat /\ 1 <= elapsed /\ elapsed <= MaxIterationTime
      /\ MaxIterationTime \in Nat /\ e \in Nat /\ s \in Int
      /\ e > elapsed => E = e - elapsed /\ S = s
      /\ ~(e > elapsed) => E = 0 /\ S = s - elapsed
  BY AgedValues
<1>2. u = now + s + (IF e > 0 THEN e - 1 ELSE 0)
  BY DEF LastUse
<1> HIDE DEF e, s, E, S, u, f
<1>3. u \in Int
  BY <1>1, <1>2
<1>4. CASE e > elapsed
  <2>1. E = e - elapsed /\ S = s /\ E > 0 /\ E \in Nat
    BY <1>1, <1>4
  <2>2. u = now + s + (e - 1)
    BY <1>1, <1>2, <1>4
  <2>3. now' + S + (E - 1) <= u
    BY <1>1, <2>1, <2>2
  <2>4. S >= 0 \/ ~(s >= 0)
    BY <1>1, <2>1
  <2>5. QED
    BY <1>1, <1>3, <2>1, <2>3, <2>4 DEF e, s, E, S, u, f
<1>5. CASE ~(e > elapsed)
  <2>1. E = 0 /\ S = s - elapsed /\ S \in Int
    BY <1>1, <1>5
  <2>2. now + s <= u
    BY <1>1, <1>2
  <2>3. now' + S + 0 <= u
    BY <1>1, <2>1, <2>2
  <2>4. s >= 0 => S >= 0 - MaxIterationTime
    BY <1>1, <2>1
  <2>5. QED
    BY <1>1, <1>3, <2>1, <2>3, <2>4 DEF e, s, E, S, u, f
<1>6. QED
  BY <1>4, <1>5

\* The coordinated phases of a new list are due by the plan's last point.
LEMMA GeneratedDue ==
  ASSUME PlansEndInTime, GenTypeOK, PlanKept, ListKept,
         NEW elapsed \in 1 .. MaxIterationTime, NEW t \in Second, t = Later(now, elapsed),
         NEW active \in 0 .. Len(ActionPlan),
         active = getActiveCoordinationPlan(t) \/ (active = plan /\ plan # 0),
         checkCoordinationRequestSendingRequirement(active, t)
  PROVE  LET p == ActionPlan[active]
             first == ETAOfFirstCycleCoordinatedPhase(p, t)
         IN  /\ active # 0 /\ active \in DOMAIN ActionPlan
             /\ p.start - p.cycleLength <= t
             /\ first \in Nat /\ t + first <= p.end + 2 * MaxIterationTime + 1
             /\ t <= p.end \/ (AtCycleStart(p, t) /\ first = UntilOffset(p, t))
<1> DEFINE p == ActionPlan[active]
           first == ETAOfFirstCycleCoordinatedPhase(p, t)
           u == UntilOffset(p, t)
           c == p.cycleLength
           start == p.start
           end == p.end
           M == MaxIterationTime
<1>1. active # 0
  BY DEF checkCoordinationRequestSendingRequirement
<1>2. /\ active \in DOMAIN ActionPlan
      /\ start - c <= t
      /\ t <= end \/ (active = plan /\ t = now + elapsed)
  BY <1>1, ActiveInHours
<1>3. /\ M \in Nat /\ elapsed \in Nat /\ elapsed <= M /\ t \in Nat /\ now \in Nat
      /\ t \in Int /\ now \in Int
  BY TimeNumbers DEF GenTypeOK
<1>4. /\ start \in Int /\ end \in Int /\ p.offset \in Nat
      /\ c \in Nat /\ c > M + 1 /\ start + c <= end
      /\ LastPoint(p) = end + 2 * M + 1
  BY <1>2, PlanNumbers
<1>5. u \in Int /\ (AtCycleStart(p, t) <=> t > start /\ u \in {0, 1})
  BY <1>2, <1>3, WindowNumbers
<1>6. BeforeFirstCycle(p, t) \/ AtCycleStart(p, t)
  BY DEF checkCoordinationRequestSendingRequirement
<1>7. CASE BeforeFirstCycle(p, t)
  <2>1. first = start - t /\ 0 <= start - t
    BY <1>7 DEF ETAOfFirstCycleCoordinatedPhase, BeforeFirstCycle
  <2>2. t <= end /\ t + first <= end + 2 * M + 1 /\ first \in Nat
    <3> HIDE DEF first, c, start, end, M
    <3>1. QED
      BY <1>3, <1>4, <2>1
  <2>3. QED
    BY <1>1, <1>2, <2>2
<1>8. CASE ~BeforeFirstCycle(p, t)
  <2>1. first = u /\ u \in {0, 1} /\ AtCycleStart(p, t)
    BY <1>5, <1>6, <1>8 DEF ETAOfFirstCycleCoordinatedPhase
  <2>2. first \in Nat
    BY <2>1
  <2>3. t + first <= end + 2 * M + 1
    <3>1. CASE t <= end
      <4> HIDE DEF first, u, c, start, end, M
      <4>1. QED
        BY <1>3, <1>4, <2>1, <3>1
    <3>2. CASE ~(t <= end)
      <4>1. active = plan /\ t = now + elapsed /\ plan # 0
        BY <1>1, <1>2, <3>2
      <4>2. \/ now <= end \/ now <= end + M
            \/ AtCycleStart(p, now) /\ now + UntilOffset(p, now) <= end + 2 * M + 1
        BY <1>4, <4>1 DEF PlanKept, AfterEnd
      <4>3. CASE now <= end \/ now <= end + M
        <5> HIDE DEF first, u, c, start, end, M
        <5>1. QED
          BY <1>3, <1>4, <2>1, <4>1, <4>3
      <4>4. CASE AtCycleStart(p, now) /\ now + UntilOffset(p, now) <= end + 2 * M + 1
        <5>1. now + elapsed + UntilOffset(p, now + elapsed) = now + UntilOffset(p, now)
          BY <1>2, <1>3, <2>1, <4>1, <4>4, SameStart
        <5>2. t + u = now + UntilOffset(p, now)
          <6>1. now + elapsed = t
            BY <4>1
          <6>2. t + UntilOffset(p, t) = now + UntilOffset(p, now)
            BY <1>2, <1>3, <2>1, <4>4, <6>1, SameStart
          <6>3. QED
            BY <6>2
        <5> HIDE DEF u, first, p, end, M
        <5>3. QED
          BY <2>1, <4>4, <5>2
      <4>5. QED
        BY <4>2, <4>3, <4>4
    <3>3. QED
      BY <3>1, <3>2
  <2>4. QED
    BY <1>1, <1>2, <2>1, <2>2, <2>3
<1>9. QED
  BY <1>7, <1>8

LEMMA GenerateKept ==
  ASSUME PlansEndInTime, GenTypeOK, PlanKept, ListKept,
         NEW elapsed \in 1 .. MaxIterationTime, now' \in Second, now' = Later(now, elapsed),
         NEW active \in 0 .. Len(ActionPlan),
         active = getActiveCoordinationPlan(now') \/ (active = plan /\ plan # 0),
         Generate(active, now')
  PROVE  PlanKept' /\ ListKept'
<1> DEFINE p == ActionPlan[active]
           first == ETAOfFirstCycleCoordinatedPhase(p, now')
           c == p.cycleLength
           s == p.coordinationSplit
           end == p.end
<1>1. /\ checkCoordinationRequestSendingRequirement(active, now')
      /\ plan' = active /\ sentAge' = 0
      /\ requests' = generateVirtualCoordinationPriorityRequest(p, now')
  BY DEF Generate
<1>2. /\ active # 0 /\ active \in DOMAIN ActionPlan
      /\ p.start - c <= now'
      /\ first \in Nat /\ now' + first <= end + 2 * MaxIterationTime + 1
      /\ now' <= end \/ (AtCycleStart(p, now') /\ first = UntilOffset(p, now'))
  BY <1>1, GeneratedDue
<1>3. MaxIterationTime \in Nat /\ now' \in Nat
  BY TimeNumbers
<1>4. /\ end \in Int /\ c \in Nat /\ s \in Nat /\ s > 0 /\ c > MaxIterationTime + 1
      /\ LastPoint(p) = end + 2 * MaxIterationTime + 1
  BY <1>2, PlanNumbers
<1>5. PlanKept'
  <2>1. CASE now' <= end
    BY <1>1, <1>2, <2>1 DEF PlanKept
  <2>2. CASE AtCycleStart(p, now') /\ first = UntilOffset(p, now')
    <3>1. now' + UntilOffset(p, now') <= LastPoint(p)
      BY <1>2, <1>4, <2>2
    <3>2. AfterEnd(ActionPlan[plan])'
      BY <1>1, <2>2, <3>1 DEF AfterEnd, AtCycleStart, UntilOffset, LastPoint
    <3>3. QED
      BY <1>1, <1>2, <3>2 DEF PlanKept
  <2>3. QED
    BY <1>2, <2>1, <2>2
<1>6. ASSUME NEW i \in DOMAIN requests'
      PROVE  /\ LastUse(requests[i])' < LastPoint(p) + c + s
             /\ requests'[i].CoordinationSplit >= 0
  <2> DEFINE e == requests'[i].ETA
             x == requests'[i].CoordinationSplit
             u == LastUse(requests[i])'
  <2>1. /\ e = first \/ e = first + c
        /\ x = s
    BY <1>1 DEF generateVirtualCoordinationPriorityRequest
  <2>2. u = now' + x + (IF e > 0 THEN e - 1 ELSE 0)
    BY DEF LastUse
  <2> HIDE DEF e, x, u, first, c, s, end
  <2>3. e \in Nat
    BY <1>2, <1>4, <2>1
  <2>4. now' + e <= (end + 2 * MaxIterationTime + 1) + c
    BY <1>2, <1>3, <1>4, <2>1
  <2>5. u < (end + 2 * MaxIterationTime + 1) + c + s
    <3>1. CASE e > 0
      BY <1>3, <1>4, <2>1, <2>2, <2>3, <2>4, <3>1
    <3>2. CASE e = 0
      <4>1. first = 0
        BY <1>2, <1>4, <2>1, <3>2
      <4>2. now' <= end + 2 * MaxIterationTime + 1
        BY <1>2, <1>3, <4>1
      <4>3. u = now' + s
        BY <1>3, <1>4, <2>1, <2>2, <3>2
      <4>4. QED
        BY <1>3, <1>4, <4>2, <4>3
    <3>3. QED
      BY <2>3, <3>1, <3>2
  <2>6. QED
    BY <1>4, <2>1, <2>5 DEF u, x
<1>7. BeganWith(ActionPlan[active])'
  BY <1>2, <1>6 DEF BeganWith, LastPoint, LastUse
<1>8. QED
  BY <1>2, <1>5, <1>7 DEF ListKept

\* The list that an iteration ages stays within the hours of its plan.
LEMMA AgedBegan ==
  ASSUME PlansEndInTime, GenTypeOK, NEW i \in DOMAIN ActionPlan, BeganWith(ActionPlan[i]),
         NEW elapsed \in 1 .. MaxIterationTime, now' = now + elapsed
  PROVE  LET f == updateETAInCoordinationRequestTable(elapsed)
             p == ActionPlan[i]
         IN  /\ p.start - p.cycleLength <= now'
             /\ \A j \in DOMAIN f :
                  /\ now' + f[j].CoordinationSplit + (IF f[j].ETA > 0 THEN f[j].ETA - 1 ELSE 0)
                       < LastPoint(p) + p.cycleLength + p.coordinationSplit
                  /\ sentAge # 0 => f[j].CoordinationSplit >= 0 - MaxIterationTime
<1> DEFINE f == updateETAInCoordinationRequestTable(elapsed)
           p == ActionPlan[i]
<1>1. requests \in Seq(CoordinatedPhase) /\ DOMAIN f = DOMAIN requests
  BY UpdatedListType DEF GenTypeOK
<1>2. /\ now \in Nat /\ elapsed \in Nat /\ now' \in Int
  BY TimeNumbers DEF GenTypeOK
<1>3. /\ p.start \in Int /\ p.end \in Int /\ p.cycleLength \in Nat /\ p.coordinationSplit \in Nat
      /\ LastPoint(p) = p.end + 2 * MaxIterationTime + 1 /\ MaxIterationTime \in Nat
  BY PlanNumbers, TimeNumbers
<1>4. p.start - p.cycleLength <= now'
  <2>1. p.start - p.cycleLength <= now
    BY DEF BeganWith
  <2> HIDE DEF p
  <2>2. QED
    BY <1>2, <1>3, <2>1
<1>5. ASSUME NEW j \in DOMAIN requests
      PROVE  /\ now' + f[j].CoordinationSplit + (IF f[j].ETA > 0 THEN f[j].ETA - 1 ELSE 0)
                  < LastPoint(p) + p.cycleLength + p.coordinationSplit
             /\ sentAge # 0 => f[j].CoordinationSplit >= 0 - MaxIterationTime
  <2> DEFINE u == LastUse(requests[j])
             v == now' + f[j].CoordinationSplit + (IF f[j].ETA > 0 THEN f[j].ETA - 1 ELSE 0)
             b == LastPoint(p) + p.cycleLength + p.coordinationSplit
  <2>1. /\ f[j].ETA \in Nat /\ f[j].CoordinationSplit \in Int
        /\ v <= u /\ u \in Int
        /\ requests[j].CoordinationSplit >= 0 =>
             f[j].CoordinationSplit >= 0 - MaxIterationTime
    BY <1>1, <1>2, AgedLastUse
  <2>2. v \in Int /\ b \in Int
    <3> HIDE DEF f, p
    <3>1. QED
      BY <1>2, <1>3, <2>1
  <2>3. u < b /\ (sentAge # 0 => requests[j].CoordinationSplit >= 0)
    BY DEF BeganWith
  <2> HIDE DEF u, v, b
  <2>4. v < b
    BY <2>1, <2>2, <2>3
  <2>5. QED
    BY <2>1, <2>3, <2>4 DEF v, b
<1>6. QED
  BY <1>1, <1>4, <1>5

\* A list is sent again only when it is old, and then its splits were not yet overdrawn.
LEMMA UpdateKept ==
  ASSUME PlansEndInTime, GenTypeOK, PlanKept, ListKept,
         NEW elapsed \in 1 .. MaxIterationTime, now' \in Second, now' = Later(now, elapsed),
         NEW active \in 0 .. Len(ActionPlan),
         active = getActiveCoordinationPlan(now') \/ (active = plan /\ plan # 0),
         Update(active, now', elapsed, Aging(sentAge, elapsed, SRMTimedOutTime))
  PROVE  PlanKept' /\ ListKept'
<1> DEFINE aged == updateETAInCoordinationRequestTable(elapsed)
           age == Aging(sentAge, elapsed, SRMTimedOutTime)
<1>1. /\ requests' = aged /\ requests # <<>> /\ age >= requestTimedOutValue
      /\ plan' = active /\ sentAge' = 0
  BY DEF Update, checkUpdateRequestSendingRequirement
<1>2. /\ MaxIterationTime \in Nat /\ elapsed \in Nat /\ 1 <= elapsed /\ elapsed <= MaxIterationTime
      /\ now \in Nat /\ now' \in Nat
  BY TimeNumbers DEF GenTypeOK
<1>3. sentAge # 0
  <2>1. /\ MaxIterationTime < requestTimedOutValue
        /\ requestTimedOutValue + MaxIterationTime <= SRMTimedOutTime
    BY TimeOutType DEF PlansEndInTime
  <2>2. Aging(0, elapsed, SRMTimedOutTime) = elapsed
    BY <1>2, <2>1, TimeOutType DEF Aging
  <2>3. QED
    BY <1>1, <1>2, <2>1, <2>2, TimeOutType
<1>4. now' = now + elapsed
  BY <1>1, NoMidnight
<1>5. PICK i \in DOMAIN ActionPlan : BeganWith(ActionPlan[i])
  BY <1>1 DEF ListKept
<1> DEFINE q == ActionPlan[i]
<1>6. /\ q.start - q.cycleLength <= now'
      /\ \A j \in DOMAIN aged :
           /\ now' + aged[j].CoordinationSplit + (IF aged[j].ETA > 0 THEN aged[j].ETA - 1 ELSE 0)
                < LastPoint(q) + q.cycleLength + q.coordinationSplit
           /\ aged[j].CoordinationSplit >= 0 - MaxIterationTime
  BY <1>3, <1>4, <1>5, AgedBegan
<1> HIDE DEF aged
<1>7. BeganWith(ActionPlan[i])'
  BY <1>1, <1>6 DEF BeganWith, LastUse, LastPoint
<1>8. ListKept'
  BY <1>7 DEF ListKept
<1>9. PlanKept'
  <2>1. ASSUME active # 0
        PROVE  /\ ActionPlan[active].start - ActionPlan[active].cycleLength <= now'
               /\ \/ now' <= ActionPlan[active].end
                  \/ now' <= ActionPlan[active].end + MaxIterationTime
    <3> DEFINE p == ActionPlan[active]
    <3>1. /\ active \in DOMAIN ActionPlan
          /\ p.start - p.cycleLength <= now'
          /\ now' <= p.end \/ active = plan
      BY <2>1, ActiveInHours
    <3>2. p.end \in Int
      BY <3>1, PlanNumbers
    <3>3. active = plan => now <= p.end
      BY <1>3, <2>1 DEF PlanKept, AfterEnd
    <3> HIDE DEF p
    <3>4. active = plan => now' <= p.end + MaxIterationTime
      BY <1>2, <1>4, <3>2, <3>3
    <3>5. QED
      BY <3>1, <3>4 DEF p
  <2>2. QED
    BY <1>1, <2>1 DEF PlanKept, AfterEnd
<1>10. QED
  BY <1>8, <1>9

LEMMA MaintainKept ==
  ASSUME PlansEndInTime, GenTypeOK, PlanKept, ListKept, NEW age,
         NEW elapsed \in 1 .. MaxIterationTime, now' \in Second, now' = Later(now, elapsed),
         NEW active \in 0 .. Len(ActionPlan),
         active = getActiveCoordinationPlan(now') \/ (active = plan /\ plan # 0),
         Maintain(active, now', elapsed, age)
  PROVE  PlanKept' /\ ListKept'
<1> DEFINE aged == updateETAInCoordinationRequestTable(elapsed)
<1>1. /\ plan' = active
      /\ ~checkTimedOutCoordinationPlanClearingRequirement(active, now')
  BY DEF Maintain
<1>2. PICK K \in SplitLeft(aged) : requests' = Keep(aged, K)
  BY DEF Maintain
<1>3. /\ requests \in Seq(CoordinatedPhase) /\ now' \in Int
      /\ aged \in Seq(CoordinatedPhase) /\ DOMAIN aged = DOMAIN requests
  BY UpdatedListType, TimeNumbers DEF GenTypeOK
<1>4. K \in SUBSET (DOMAIN aged) /\ \A j \in K : aged[j].CoordinationSplit >= 0
  BY <1>3, SplitLeftValues
<1>5. /\ Len(requests') <= Len(aged) /\ requests' \in Seq(CoordinatedPhase)
      /\ \A n \in DOMAIN requests' : Nth(K, n) \in K /\ requests'[n] = aged[Nth(K, n)]
  <2> HIDE DEF aged
  <2>1. QED
    BY <1>2, <1>3, <1>4, KeepType
<1>6. ListKept'
  <2>1. ASSUME requests' # <<>>
        PROVE  \E i \in DOMAIN ActionPlan : BeganWith(ActionPlan[i])'
    <3>1. requests # <<>>
      <4> HIDE DEF aged
      <4>1. Len(requests') # 0 /\ Len(aged) = Len(requests)
        BY <1>3, <1>5, <2>1
      <4>2. QED
        BY <1>3, <1>5, <4>1
    <3>2. now' = now + elapsed
      BY <3>1, NoMidnight
    <3>3. PICK i \in DOMAIN ActionPlan : BeganWith(ActionPlan[i])
      BY <3>1 DEF ListKept
    <3> DEFINE q == ActionPlan[i]
    <3>4. /\ q.start - q.cycleLength <= now'
          /\ \A j \in DOMAIN aged :
               now' + aged[j].CoordinationSplit + (IF aged[j].ETA > 0 THEN aged[j].ETA - 1 ELSE 0)
                 < LastPoint(q) + q.cycleLength + q.coordinationSplit
      BY <3>2, <3>3, AgedBegan
    <3> HIDE DEF aged
    <3>5. BeganWith(ActionPlan[i])'
      BY <1>4, <1>5, <3>4 DEF BeganWith, LastUse, LastPoint
    <3>6. QED
      BY <3>5
  <2>2. QED
    BY <2>1 DEF ListKept
<1>7. PlanKept'
  <2>1. ASSUME active # 0
        PROVE  /\ ActionPlan[active].start - ActionPlan[active].cycleLength <= now'
               /\ now' <= ActionPlan[active].end
    <3>1. /\ active \in DOMAIN ActionPlan
          /\ ActionPlan[active].start - ActionPlan[active].cycleLength <= now'
      BY <2>1, ActiveInHours
    <3>2. ActionPlan[active].end \in Int
      BY <3>1, PlanNumbers
    <3>3. QED
      BY <1>1, <1>3, <2>1, <3>1, <3>2
         DEF checkTimedOutCoordinationPlanClearingRequirement
  <2>2. QED
    BY <1>1, <2>1 DEF PlanKept
<1>8. QED
  BY <1>6, <1>7

LEMMA KeptNext ==
  ASSUME PlansEndInTime, GenTypeOK, PlanKept, ListKept, [GenNext]_genVars
  PROVE  PlanKept' /\ ListKept'
<1>1. CASE Iteration
  <2>1. PICK elapsed \in 1 .. MaxIterationTime, active \in 0 .. Len(ActionPlan) :
          /\ now' = Later(now, elapsed) /\ now' \in Second
          /\ \/ active = getActiveCoordinationPlan(now')
             \/ active = plan /\ plan # 0
          /\ \/ FailAfterClear(active, now')
             \/ Generate(active, now')
             \/ Update(active, now', elapsed, Aging(sentAge, elapsed, SRMTimedOutTime))
             \/ Maintain(active, now', elapsed, Aging(sentAge, elapsed, SRMTimedOutTime))
             \/ EndPlan(active, now', elapsed, Aging(sentAge, elapsed, SRMTimedOutTime))
    BY <1>1, IterationBranches
  <2>2. CASE Generate(active, now')
    BY <2>1, <2>2, GenerateKept
  <2>3. CASE Update(active, now', elapsed, Aging(sentAge, elapsed, SRMTimedOutTime))
    BY <2>1, <2>3, UpdateKept
  <2>4. CASE Maintain(active, now', elapsed, Aging(sentAge, elapsed, SRMTimedOutTime))
    BY <2>1, <2>4, MaintainKept
  <2>5. CASE \/ FailAfterClear(active, now')
             \/ EndPlan(active, now', elapsed, Aging(sentAge, elapsed, SRMTimedOutTime))
    BY <2>5 DEF FailAfterClear, EndPlan, Forgotten, PlanKept, ListKept
  <2>6. QED
    BY <2>1, <2>2, <2>3, <2>4, <2>5
<1>2. CASE GenRestart
  BY <1>2 DEF GenRestart, Forgotten, PlanKept, ListKept
<1>3. CASE UNCHANGED genVars
  BY <1>3 DEF genVars, PlanKept, ListKept, AfterEnd, BeganWith, LastUse, LastPoint,
              AtCycleStart, UntilOffset
<1>4. QED
  BY <1>1, <1>2, <1>3 DEF GenNext

\* There are virtual requests only around the hours of a plan, if plans last a cycle and
\* what they leave behind is over before midnight.
THEOREM NoRequestWithoutPlanAlways == PlansEndInTime => (GenSpec => []NoRequestWithoutPlan)
<1>1. ASSUME PlansEndInTime
      PROVE  GenSpec => []NoRequestWithoutPlan
  <2>1. GenInit => PlanKept /\ ListKept
    BY DEF GenInit, PlanKept, ListKept
  <2>2. GenInv /\ PlanKept /\ ListKept /\ [GenNext]_genVars => PlanKept' /\ ListKept'
    BY <1>1, KeptNext DEF GenInv
  <2>3. GenInv /\ ListKept => NoRequestWithoutPlan
    BY <1>1, ListInHours DEF GenInv
  <2>4. QED
    BY <2>1, <2>2, <2>3, GenInvariant, PTL DEF GenSpec
<1>2. QED
  BY <1>1
=============================================================================
