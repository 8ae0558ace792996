------------------ MODULE SignalCoordinationRequestGenerator ------------------
(***************************************************************************)
(* The Signal Coordination Request Generator of one intersection: it finds *)
(* the coordination plan of the hour and keeps the Priority Request Server *)
(* supplied with virtual requests, two for each of the next two cycles.    *)
(*                                                                         *)
(* One action is one iteration of the main loop.  An iteration ends with   *)
(* sleep(1); how many seconds the wall clock really advances, one or more, *)
(* is open.  Times are whole seconds of the day; what lies below a second  *)
(* only shows where a coordination split runs out.  Answering the solver's *)
(* inquiry for the active plan leaves this state alone and is left out.    *)
(***************************************************************************)
EXTENDS VectorOps

CONSTANTS
  ActionPlan,       \* the plans of the day, in the order of the config file
  DayLength,        \* seconds of a day
  MaxIterationTime, \* the longest an iteration takes, its sleep included
  timeGapBetweenActivePlanChecking, SRMTimedOutTime, SRM_GAPOUT_TIME

Second == 0 .. DayLength - 1

ASSUME PlanAssumption ==
  /\ DayLength \in Nat \ {0}
  /\ ActionPlan \in Seq([ start : Second, end : Second, cycleLength : Nat \ {0},
                          offset : Nat, coordinationSplit : Nat \ {0} ])

ASSUME GeneratorTimingAssumption ==
  /\ MaxIterationTime \in 1 .. DayLength - 1
  /\ timeGapBetweenActivePlanChecking \in Nat \ {0}
  /\ SRMTimedOutTime \in Nat /\ SRM_GAPOUT_TIME \in Nat
  /\ SRM_GAPOUT_TIME < SRMTimedOutTime

\* SRM_GAPOUT_TIME is the time left for one iteration before the server's
\* time-out.
ASSUME IterationWithinGapOut == MaxIterationTime <= SRM_GAPOUT_TIME

VARIABLES
  now,        \* getCurrentTime(), which counts whole seconds
  plan,       \* coordinationParametersDictionary: a plan's number, 0 if empty
  checkAge,   \* time since activePlanCheckingTime
  requests,   \* coordinationPriorityRequestDictionary
  sentAge,    \* time since requestSentTime
  assigned,   \* whether coordinationPriorityRequestJsonString has a value
  toServer    \* the last datagram to the Priority Request Server

genVars == <<now, plan, checkAge, requests, sentAge, assigned, toServer>>

requestTimedOutValue == SRMTimedOutTime - SRM_GAPOUT_TIME

CoordinatedPhase == [vehicleID : 1 .. 4, ETA : Nat, CoordinationSplit : Int]

\* The server reads the message type and the requests.
Datagrams == [ MsgType : {"none", "CoordinationRequest", ""},
               vehicleIDs : Seq(1 .. 4) ]

NoDatagram == [MsgType |-> "none", vehicleIDs |-> <<>>]
CoordinationClearRequest == [MsgType |-> "CoordinationRequest", vehicleIDs |-> <<>>]
EmptyObject == [MsgType |-> "", vehicleIDs |-> <<>>]   \* the JSON string "{}"

IDs(list) == [i \in DOMAIN list |-> list[i].vehicleID]
RequestList(list) == [MsgType |-> "CoordinationRequest", vehicleIDs |-> IDs(list)]

GenInit ==
  /\ now \in Second
  /\ plan = 0 /\ checkAge = 0
  /\ requests = <<>> /\ sentAge = 0 /\ assigned = FALSE
  /\ toServer = NoDatagram

-----------------------------------------------------------------------------
(* The time of day starts again at midnight. *)

Later(t, elapsed) ==
  IF t + elapsed < DayLength THEN t + elapsed ELSE t + elapsed - DayLength

Elapsed(s, t) == IF s <= t THEN t - s ELSE t + DayLength - s

-----------------------------------------------------------------------------
(* CoordinationPlanManager *)

Distance(s, t) == IF s < t THEN t - s ELSE s - t

\* Within a plan's hours, or less than a cycle away from its start.
IsActive(p, t) ==
  \/ p.start <= t /\ t <= p.end
  \/ Distance(p.start, t) <= p.cycleLength

\* The first plan that is active.
getActiveCoordinationPlan(t) ==
  LET active == {i \in DOMAIN ActionPlan : IsActive(ActionPlan[i], t)}
  IN  IF active = {} THEN 0 ELSE Nth(active, 1)

checkActiveCoordinationPlan(age) ==
  plan = 0 \/ age >= timeGapBetweenActivePlanChecking

checkTimedOutCoordinationPlanClearingRequirement(active, t) ==
  active # 0 /\ t > ActionPlan[active].end

-----------------------------------------------------------------------------
(* CoordinationRequestManager *)

\* How long until the cycle's coordinated phases are due.
UntilOffset(p, t) == p.offset - ((t - p.start) % p.cycleLength)

BeforeFirstCycle(p, t) ==
  /\ requests = <<>>
  /\ 0 <= p.start - t /\ p.start - t <= p.cycleLength - p.offset

\* Mutant: the window of a cycle is one second wide.
AtCycleStartExactly(p, t) == t > p.start /\ UntilOffset(p, t) = 0

AtCycleStart(p, t) ==
  t > p.start /\ 0 <= UntilOffset(p, t) /\ UntilOffset(p, t) <= 1

checkCoordinationRequestSendingRequirement(active, t) ==
  /\ active # 0
  /\ BeforeFirstCycle(ActionPlan[active], t) \/ AtCycleStart(ActionPlan[active], t)

ETAOfFirstCycleCoordinatedPhase(p, t) ==
  IF BeforeFirstCycle(p, t) THEN p.start - t ELSE UntilOffset(p, t)

\* Two requests for this cycle and two for the next one.
generateVirtualCoordinationPriorityRequest(p, t) ==
  LET first == ETAOfFirstCycleCoordinatedPhase(p, t)
  IN  [i \in 1 .. 4 |->
         [ vehicleID |-> i,
           ETA |-> IF i <= 2 THEN first ELSE first + p.cycleLength,
           CoordinationSplit |-> p.coordinationSplit ]]

\* Mutant: the margin to the server's time-out is forgotten.
UpdateAtTimeOut(age) == requests # <<>> /\ age >= SRMTimedOutTime

checkUpdateRequestSendingRequirement(age) ==
  requests # <<>> /\ age >= requestTimedOutValue

\* Mutant: the ETA runs below Minimum_ETA.
NegativeETA(elapsed) ==
  [i \in DOMAIN requests |-> [requests[i] EXCEPT !.ETA = @ - elapsed]]

\* Mutant: a request that is due keeps its split.
SplitKept(elapsed) ==
  [i \in DOMAIN requests |->
     [requests[i] EXCEPT !.ETA = IF @ > elapsed THEN @ - elapsed ELSE 0]]

\* A request that is due uses up its split, by everything that has elapsed.
updateETAInCoordinationRequestTable(elapsed) ==
  [i \in DOMAIN requests |->
     IF requests[i].ETA > elapsed
       THEN [requests[i] EXCEPT !.ETA = @ - elapsed]
       ELSE [requests[i] EXCEPT !.ETA = 0, !.CoordinationSplit = @ - elapsed]]

\* The requests with split left.  Where a split has just run out, the fraction
\* of a second decides; the first request of a pair never has more of it left.
SplitLeft(list) ==
  LET atZero == {i \in DOMAIN list : list[i].CoordinationSplit = 0}
  IN  { {i \in DOMAIN list : list[i].CoordinationSplit > 0} \cup late :
          late \in {L \in SUBSET atZero :
                      \A i \in L, j \in atZero :
                        list[j].vehicleID = list[i].vehicleID + 1
                        /\ list[i].vehicleID \in {1, 3} => j \in L} }

-----------------------------------------------------------------------------
(* The main loop *)

Aging(age, elapsed, limit) ==
  IF age + elapsed < limit THEN age + elapsed ELSE limit

\* supervisord starts the program again; only the clock goes on.
Forgotten ==
  /\ plan' = 0 /\ checkAge' = 0
  /\ requests' = <<>> /\ sentAge' = 0 /\ assigned' = FALSE

GenRestart == Forgotten /\ UNCHANGED <<now, toServer>>

\* A new list at the start of a cycle.
Generate(active, t) ==
  /\ checkCoordinationRequestSendingRequirement(active, t)
  /\ requests' = generateVirtualCoordinationPriorityRequest(ActionPlan[active], t)
  /\ toServer' = RequestList(requests')
  /\ sentAge' = 0 /\ assigned' = TRUE
  /\ plan' = active

\* The list is repeated, with new ETAs, before the server forgets it.  Requests
\* whose split has run out stay in it: the call that would delete them lacks
\* its parentheses.
Update(active, t, elapsed, age) ==
  /\ ~checkCoordinationRequestSendingRequirement(active, t)
  /\ checkUpdateRequestSendingRequirement(age)
  /\ requests' = updateETAInCoordinationRequestTable(elapsed)
  /\ toServer' = RequestList(requests')
  /\ sentAge' = 0 /\ assigned' = TRUE
  /\ plan' = active

\* Mutant: a deletion is not announced.
SilentDeletion(list, deleted, age) ==
  UNCHANGED <<toServer, assigned>> /\ sentAge' = age

\* Mutant: the list that is left is sent without noting the time.
SendWithoutTime(list, deleted, age) ==
  IF deleted
    THEN /\ toServer' = IF list = <<>> THEN EmptyObject ELSE RequestList(list)
         /\ sentAge' = age
         /\ assigned' = TRUE
    ELSE UNCHANGED <<toServer, assigned>> /\ sentAge' = age

\* What is sent after requests were deleted: the list that is left, or "{}".
SendAfterDeletion(list, deleted, age) ==
  IF deleted
    THEN /\ toServer' = IF list = <<>> THEN EmptyObject ELSE RequestList(list)
         /\ sentAge' = IF list = <<>> THEN age ELSE 0
         /\ assigned' = TRUE
    ELSE UNCHANGED <<toServer, assigned>> /\ sentAge' = age

\* Otherwise the list ages.
Maintain(active, t, elapsed, age) ==
  LET aged == updateETAInCoordinationRequestTable(elapsed)
  IN  /\ ~checkCoordinationRequestSendingRequirement(active, t)
      /\ ~checkUpdateRequestSendingRequirement(age)
      /\ ~checkTimedOutCoordinationPlanClearingRequirement(active, t)
      /\ \E K \in SplitLeft(aged) :
           /\ requests' = Keep(aged, K)
           /\ SendAfterDeletion(requests', K # DOMAIN aged, age)
      /\ plan' = active

\* A plan that has come to its end is cleared, after the same ageing and
\* deletion: what that sends, the clear request revokes at once.
EndPlan(active, t, elapsed, age) ==
  LET aged == updateETAInCoordinationRequestTable(elapsed)
  IN  /\ assigned
      /\ ~checkCoordinationRequestSendingRequirement(active, t)
      /\ ~checkUpdateRequestSendingRequirement(age)
      /\ checkTimedOutCoordinationPlanClearingRequirement(active, t)
      /\ \E K \in SplitLeft(aged) :
           sentAge' = IF K \in {{}, DOMAIN aged} THEN age ELSE 0
      /\ requests' = <<>> /\ plan' = 0
      /\ toServer' = CoordinationClearRequest
      /\ UNCHANGED assigned

\* Unless a list was sent before, the print statement that follows the clear
\* request reads a variable without a value, and the process dies.
FailAfterClear(active, t) ==
  /\ ~assigned
  /\ ~checkCoordinationRequestSendingRequirement(active, t)
  /\ checkTimedOutCoordinationPlanClearingRequirement(active, t)
  /\ toServer' = CoordinationClearRequest
  /\ Forgotten

Iteration ==
  \E elapsed \in 1 .. MaxIterationTime :
    LET t == Later(now, elapsed)
        checkedAgo ==
          Aging(checkAge, elapsed, timeGapBetweenActivePlanChecking)
        check == checkActiveCoordinationPlan(checkedAgo)
        active == IF check THEN getActiveCoordinationPlan(t) ELSE plan
        age == Aging(sentAge, elapsed, SRMTimedOutTime)
    IN  /\ now' = t
        /\ \/ FailAfterClear(active, t)
           \/ /\ checkAge' = IF check THEN 0 ELSE checkedAgo
              /\ \/ Generate(active, t)
                 \/ Update(active, t, elapsed, age)
                 \/ Maintain(active, t, elapsed, age)
                 \/ EndPlan(active, t, elapsed, age)

GenNext == Iteration \/ GenRestart

GenSpec == GenInit /\ [][GenNext]_genVars

\* The loop goes on: nothing in it waits for an event.
GenFairSpec == GenSpec /\ WF_genVars(Iteration)

-----------------------------------------------------------------------------
(* Properties *)

\* Values stay in their ranges: the list is made of virtual requests, each of
\* them the next cycle's or this one's.
GenTypeOK ==
  /\ now \in Second
  /\ plan \in 0 .. Len(ActionPlan)
  /\ checkAge \in 0 .. timeGapBetweenActivePlanChecking
  /\ requests \in Seq(CoordinatedPhase)
  /\ sentAge \in 0 .. SRMTimedOutTime
  /\ assigned \in BOOLEAN
  /\ toServer \in Datagrams

\* The server has been sent exactly the identities that are in the list, as
\* long as there are any: every deletion and every new cycle is announced.
ServerHasTheList == requests # <<>> => toServer = RequestList(requests)

\* No list ever gets so old that the server drops its requests: what follows
\* is sent within SRMTimedOutTime, whatever the iterations in between did.
FreshForServer ==
  [][ requests # <<>> => sentAge + Elapsed(now, now') < SRMTimedOutTime ]_genVars

WholePairs(list) ==
  \A odd \in {1, 3} :
    (\E i \in DOMAIN list : list[i].vehicleID = odd)
      <=> (\E i \in DOMAIN list : list[i].vehicleID = odd + 1)

\* The two requests of a cycle do not part for longer than one iteration, even
\* though rounding can use up one split a second before the other.
PairsRejoin == [][~WholePairs(requests) => WholePairs(requests')]_genVars

\* How long after a plan's end its requests can last: an iteration that overshoots
\* the end repeats the list, the next one still begins a list of two cycles, and
\* the last split is overdrawn by an iteration that repeats the list once more.
Leftover(p) == p.cycleLength + p.coordinationSplit + 3 * MaxIterationTime

\* Virtual requests exist only around the hours of some plan, even when the
\* end of the plan is missed: nothing refreshes a request for ever.
NoRequestWithoutPlan ==
  requests # <<>> =>
    \E i \in DOMAIN ActionPlan :
      /\ ActionPlan[i].start - ActionPlan[i].cycleLength <= now
      /\ now <= ActionPlan[i].end + Leftover(ActionPlan[i])

\* The list is empty again and again: each day's coordination ends.
CoordinationEnds == []<>(requests = <<>>)

\* Whether the time from s to t has passed the start of a cycle of plan p.
PassesCycleStart(p, s, t) ==
  \E d \in 1 .. MaxIterationTime :
    /\ s + d <= t /\ s + d > p.start + p.offset /\ t <= p.end
    /\ (s + d - p.start) % p.cycleLength = p.offset

\* "generated in the beginning of each cycle for two cycles" (README.md:2): an
\* iteration that passes the start of a cycle leaves a list for two cycles.
EveryCycleIsServed ==
  [][ plan # 0 /\ plan' = plan /\ PassesCycleStart(ActionPlan[plan], now, now')
      => Len(requests') = 4 ]_genVars

-----------------------------------------------------------------------------
(* What some of these properties need of the plans and of the clock *)

\* For PairsRejoin: a cycle is longer than two iterations, and an iteration shorter than
\* the time after which a list is sent again.
IterationsAreShort ==
  /\ \A p \in DOMAIN ActionPlan : ActionPlan[p].cycleLength > 2 * MaxIterationTime
  /\ MaxIterationTime < requestTimedOutValue

\* For EveryCycleIsServed: the window in which a cycle starts is two seconds wide, so an
\* iteration takes no longer, the second before the start lies in the same cycle, and a
\* split outlasts an iteration.
WindowIsMet ==
  /\ MaxIterationTime <= 2
  /\ \A p \in DOMAIN ActionPlan : /\ ActionPlan[p].offset > 0
                                  /\ ActionPlan[p].coordinationSplit > MaxIterationTime

\* For NoRequestWithoutPlan: a list is sent again only after more than an iteration, no
\* iteration leads from the start of one cycle to the next, a plan lasts a cycle, and what
\* a plan leaves behind is over before midnight.
PlansEndInTime ==
  /\ MaxIterationTime < requestTimedOutValue
  /\ \A i \in DOMAIN ActionPlan :
       LET p == ActionPlan[i]
       IN  /\ p.cycleLength > MaxIterationTime + 1
           /\ p.start + p.cycleLength <= p.end
           /\ p.end + Leftover(p) + MaxIterationTime < DayLength

==============================================================================
