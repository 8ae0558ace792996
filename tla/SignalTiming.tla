----------------------------- MODULE SignalTiming -----------------------------
(***************************************************************************)
(* The times of a schedule of the Priority Request Solver: from the signal *)
(* status the TCI reports, over the data and the constraints handed to     *)
(* GLPK, to the commands for the TCI.  Which phases an emergency plan has  *)
(* is the subject of EmergencySignalPlan; here it is given.                *)
(*                                                                         *)
(* GLPK is the set of the solutions that satisfy the constraints, of which *)
(* the objective picks one.  The two critical points, left for the holds   *)
(* and right for the force-offs, have the same constraints and are looked  *)
(* at one at a time.  Times are in half seconds.                           *)
(***************************************************************************)
EXTENDS FiniteSetsExt, VectorOps

CONSTANTS
  Plans,            \* timing plans
  Reports,          \* what may be reported about a ring
  CallSettings,     \* vehicle and pedestrian calls
  PriorityLists,    \* lists without an emergency vehicle
  EmergencyLists,   \* lists of emergency vehicles, with the phases planned for them
  CoordinationLists, \* lists with nothing but coordination requests
  Cycles,           \* the length of a coordination cycle and the time elapsed in it
  Extension         \* what a requested phase's greatest green grows by

Phase == 1 .. 8
Ring(r) == IF r = 1 THEN 1 .. 4 ELSE 5 .. 8
Barrier(b) == IF b = 1 THEN {1, 2, 5, 6} ELSE {3, 4, 7, 8}
Side(p) == IF p \in Barrier(1) THEN 1 ELSE 2
Second == 2

Coordination == "coordination"
NoReport == [state |-> "none"]
NoPhases == <<0, 0>>
NoCycle == [length |-> 0]
Larger(a, b) == IF a > b THEN a ELSE b

\* A phase that is not in use has no times, unless it is a through phase, which then
\* takes over those of the one opposite (setCurrentSignalTimingPlan, modifySignalTimingPlan).
IsTimingPlan(times) ==
  /\ times.active \subseteq Phase
  /\ \A p \in Phase :
       /\ {times.minGreen[p], times.maxGreen[p], times.splitGreen[p], times.yellowChange[p],
           times.redClear[p], times.pedService[p]} \subseteq Nat
       /\ times.minGreen[p] <= times.maxGreen[p] /\ times.minGreen[p] <= times.splitGreen[p]
       /\ \/ times.minGreen[p] > 2 * Second /\ times.yellowChange[p] + times.redClear[p] > 0
          \/ /\ p \notin times.active /\ p % 2 = 1
             /\ times.maxGreen[p] = 0 /\ times.splitGreen[p] = 0
             /\ times.yellowChange[p] = 0 /\ times.redClear[p] = 0
  /\ \/ times.coordinated = NoPhases
     \/ times.coordinated \in (Ring(1) \cap times.active) \X (Ring(2) \cap times.active)

ASSUME TimingAssumption ==
  /\ \A times \in Plans : IsTimingPlan(times)
  /\ \A ring \in Reports \ {NoReport} :
       /\ ring.state \in {"green", "yellow", "red"} /\ ring.elapsed \in Nat
       /\ ring.state = "green" =>
            ring.inGmax \in Nat /\ ring.inGmax <= ring.elapsed /\ ring.walking \in BOOLEAN
  /\ \A cycle \in Cycles :
       cycle.elapsed \in Int /\ cycle.length \in Nat /\ cycle.elapsed < cycle.length
  /\ \A list \in EmergencyLists :
       /\ list.phases \subseteq Phase
       /\ \A r, b \in {1, 2} : list.phases \cap Ring(r) \cap Barrier(b) # {}
  /\ \A list \in PriorityLists \cup CoordinationLists \cup {x.requests : x \in EmergencyLists} :
       \A q \in list : q.eta \in Nat /\ q.duration \in Nat
  /\ \A list \in PriorityLists \cup {x.requests : x \in EmergencyLists} :
       \E q \in list : q.type # Coordination
  /\ Extension \in Nat

VARIABLES
  stage,
  plan,                    \* trafficSignalPlan, or trafficSignalPlan_EV
  emergencyVehicleStatus,
  priorityRequestList,
  requestedSignalGroup,
  report,                  \* what was reported of the two rings
  pedCalls,
  status,                  \* trafficControllerStatus, and the conflicting pedestrian calls
  signalPlan,              \* the phases of the model with their least and greatest green
  point,                   \* the critical point looked at
  schedule                 \* the holds, or the force-offs, of the two rings

vars == <<stage, plan, emergencyVehicleStatus, priorityRequestList, requestedSignalGroup,
          report, pedCalls, status, signalPlan, point, schedule>>

NoStatus == [start |-> <<0, 0>>]
NoPlan == [phases |-> {}]
NoSchedule == << <<>>, <<>> >>

Init ==
  /\ stage = "list" /\ plan \in Plans
  /\ emergencyVehicleStatus = FALSE /\ priorityRequestList = {} /\ requestedSignalGroup = {}
  /\ report = <<NoReport, NoReport>> /\ pedCalls = {}
  /\ status = NoStatus /\ signalPlan = NoPlan
  /\ point = "left" /\ schedule = NoSchedule

clearance(p) == plan.yellowChange[p] + plan.redClear[p]

-----------------------------------------------------------------------------
(* The signal status *)

\* The starting phase of a ring, and the time until it starts.
startOf(ring) == IF ring.state = "green" THEN ring.current ELSE ring.next
initOf(ring) ==
  CASE ring.state = "green" -> 0
    [] ring.state = "yellow" -> Larger(0, clearance(ring.current) - ring.elapsed)
    [] ring.state = "red" -> IF plan.redClear[ring.current] < ring.elapsed
                             THEN 1 ELSE plan.redClear[ring.current] - ring.elapsed

\* What a controller reports: green and clearing phases in use, one ring's at least,
\* both on one side of the barrier, which they cross together.
PhasesOf(ring) == IF ring.state = "green" THEN {ring.current} ELSE {ring.current, ring.next}
Possible(reports) ==
  /\ reports # <<NoReport, NoReport>>
  /\ \A r \in {1, 2} :
       \/ /\ reports[r] = NoReport
          /\ plan.active \cap Ring(r) \cap Barrier(Side(startOf(reports[3 - r]))) = {}
       \/ /\ reports[r] # NoReport
          /\ PhasesOf(reports[r]) \subseteq plan.active \cap Ring(r)
  /\ NoReport \notin {reports[1], reports[2]} =>
       /\ Side(startOf(reports[1])) = Side(startOf(reports[2]))
       /\ Side(reports[1].current) = Side(reports[2].current)

Serving(ring) == ring # NoReport /\ ring.state = "green"
Walking(ring) == Serving(ring) /\ ring.walking

\* validateTrafficControllerStatus: a ring without a report goes with the other one.
Opposite(p) == IF p < 5 THEN p + 4 ELSE p - 4
startingPhase(reports, r) ==
  IF reports[r] # NoReport THEN startOf(reports[r]) ELSE Opposite(startOf(reports[3 - r]))
initPhase(reports, r) ==
  initOf(IF reports[r] # NoReport THEN reports[r] ELSE reports[3 - r])
reportedGreen(reports, r) ==
  LET ring == IF reports[r] # NoReport THEN reports[r] ELSE reports[3 - r]
  IN  IF Serving(ring) THEN ring.elapsed ELSE 0
greenInGmax(reports, r) == IF Serving(reports[r]) THEN reports[r].inGmax ELSE 0

\* modifyTrafficControllerStatus: a green that rests counts as just past its least
\* length, one that is being timed out by how long that has lasted.
elapsedGreen(reports, r, conflictingPhaseCallStatus) ==
  LET elapsed == reportedGreen(reports, r)
      least == plan.minGreen[startingPhase(reports, r)]
  IN  IF elapsed <= least THEN elapsed
      ELSE IF conflictingPhaseCallStatus /\ greenInGmax(reports, r) > 0
      THEN Larger(least, greenInGmax(reports, r)) ELSE least

\* When only coordination requests are served, the green of a coordinated phase is measured
\* by the cycle.  A conflicting call counts while the phases called can still be served
\* before the next cycle begins, in the ring that needs longer (sums are truncated).
WholeSeconds(t) == t - (t % Second)
permissivePeriod(calls) ==
  LET called(r) == (calls.vehicle \cup calls.pedestrian) \cap (Ring(r) \ {plan.coordinated[r]})
      time(p) == WholeSeconds(plan.minGreen[p]) + WholeSeconds(plan.yellowChange[p])
                   + WholeSeconds(plan.redClear[p])
  IN  Larger(MapThenSumSet(time, called(1)), MapThenSumSet(time, called(2)))

\* How long before its cycle a coordinated phase came back; before the plan's start the
\* time elapsed in the cycle is negative (fmod).
PRS_Timed_Out_Value == 10 * Second
earlyReturn(elapsed, cycle, permissive) ==
  LET toNextCycle == cycle.length - cycle.elapsed
      early == IF toNextCycle <= Larger(permissive, PRS_Timed_Out_Value) /\ elapsed < cycle.elapsed
               THEN elapsed + toNextCycle ELSE elapsed - cycle.elapsed
  IN  IF 2 * early >= cycle.length THEN 0 ELSE early

upperLimitOfGreenTimeForCoordinatedPhase ==
  LET limits == {plan.splitGreen[plan.coordinated[r]] : r \in {1, 2}}
  IN  CHOOSE limit \in limits : \A other \in limits : limit <= other

\* What a coordinated phase is taken to have had, and its early return: after its least
\* green the early return is not counted, a green that rests counts as just past its least
\* length, and one that is being timed out ends with the time it has in the cycle.
coordinatedGreen(r, elapsed, inGmax, cycle, permissive, called) ==
  LET least == plan.minGreen[plan.coordinated[r]]
      greatest == plan.splitGreen[plan.coordinated[r]]
      early == earlyReturn(elapsed, cycle, permissive)
      limit == upperLimitOfGreenTimeForCoordinatedPhase
      conflict == called /\ cycle.length - cycle.elapsed >= permissive
      timedOut == IF cycle.elapsed < limit
                  THEN IF inGmax >= least THEN greatest - (limit - cycle.elapsed) ELSE elapsed
                  ELSE IF early >= 0 \/ inGmax >= greatest THEN greatest ELSE inGmax
  IN  IF elapsed < least THEN <<elapsed, early>>
      ELSE IF early > 0 /\ elapsed - early < least
      THEN <<IF elapsed < early THEN least ELSE elapsed - early, early>>
      ELSE IF ~conflict THEN <<least, early>>
      ELSE IF inGmax = 0 THEN <<elapsed, early>>
      ELSE <<timedOut, IF early >= 0 /\ cycle.elapsed <= limit THEN 0 ELSE early>>

\* The other phases are compared with the coordinated one.
coordinationStatus(reports, starts, cycle, calls, called) ==
  [r \in {1, 2} |->
     LET elapsed == reportedGreen(reports, r)
         greatest == plan.splitGreen[plan.coordinated[r]]
     IN  IF initPhase(reports, r) # 0 THEN <<elapsed, 0>>
         ELSE IF starts[r] # plan.coordinated[r]
         THEN <<IF elapsed >= greatest THEN greatest ELSE elapsed, 0>>
         ELSE coordinatedGreen(r, elapsed, greenInGmax(reports, r), cycle,
                               permissivePeriod(calls), called)]

\* A green that was measured as less than nothing is that of the other ring, or nothing;
\* a starting phase that is not in use follows the other ring.
validateElapsedGreenTime(starts, elapsed) ==
  LET green == [r \in {1, 2} |-> IF elapsed[r] < 0 THEN Larger(0, elapsed[3 - r]) ELSE elapsed[r]]
  IN  [r \in {1, 2} |-> IF starts[r] \notin plan.active THEN green[3 - r] ELSE green[r]]

\* Pedestrians are counted only if one of them waits on the other side of the barrier.
conflictingPedCallList(starts, calls) ==
  IF calls \cap Barrier(3 - Side(starts[1])) # {} THEN calls \ {starts[1], starts[2]} ELSE {}

\* A phase whose times a phase of an emergency plan takes that has none of its own.
Associated(p) == IF p % 2 = 0 THEN Opposite(p) ELSE IF p < 5 THEN p + 5 ELSE p - 3

\* For an emergency vehicle the left turn of its approach is requested, in use or not.
ReceiveList ==
  /\ stage = "list"
  /\ stage' = "status"
  /\ \/ /\ emergencyVehicleStatus' = FALSE /\ requestedSignalGroup' = {}
        /\ \/ priorityRequestList' \in PriorityLists
           \/ plan.coordinated # NoPhases /\ priorityRequestList' \in CoordinationLists
     \/ /\ emergencyVehicleStatus' = TRUE
        /\ \E list \in EmergencyLists : /\ priorityRequestList' = list.requests
                                        /\ requestedSignalGroup' = list.phases
  /\ \A q \in priorityRequestList' : q.requestedPhase \in plan.active \cup requestedSignalGroup'
  /\ \A p \in requestedSignalGroup' : plan.minGreen[p] > 0 \/ Associated(p) \in requestedSignalGroup'
  /\ UNCHANGED <<plan, report, pedCalls, status, signalPlan, point, schedule>>

\* A list without a vehicle is timed by the split data, any other by the timing plan.
signalCoordination == \A q \in priorityRequestList : q.type = Coordination

trafficControllerStatus(reports, calls, cycle) ==
  LET starts == <<startingPhase(reports, 1), startingPhase(reports, 2)>>
      called == (calls.vehicle \cup calls.pedestrian) \ {starts[1], starts[2]} # {}
      passed == IF signalCoordination
                THEN coordinationStatus(reports, starts, cycle, calls, called)
                ELSE [r \in {1, 2} |-> <<elapsedGreen(reports, r, called), 0>>]
  IN  [ start |-> starts,
        init |-> [r \in {1, 2} |-> initPhase(reports, r)],
        elapsed |-> validateElapsedGreenTime(starts, [r \in {1, 2} |-> passed[r][1]]),
        earlyReturn |-> [r \in {1, 2} |-> Larger(0, passed[r][2])],
        ped |-> conflictingPedCallList(starts, calls.pedestrian) ]

getCurrentSignalStatus ==
  /\ stage = "status"
  /\ stage' = IF emergencyVehicleStatus THEN "emergency" ELSE "input"
  /\ \E reports \in Reports \X Reports, calls \in CallSettings,
        cycle \in IF signalCoordination THEN Cycles ELSE {NoCycle} :
       /\ Possible(reports)
       /\ calls.vehicle \cup calls.pedestrian \subseteq plan.active
       /\ report' = reports /\ pedCalls' = calls.pedestrian
       /\ status' = trafficControllerStatus(reports, calls, cycle)
  /\ UNCHANGED <<plan, emergencyVehicleStatus, priorityRequestList, requestedSignalGroup,
                 signalPlan, point, schedule>>

-----------------------------------------------------------------------------
(* The data for GLPK *)

startingPhases == {status.start[1], status.start[2]}

\* The phases of the model: all eight, or those that getEVPhases has planned.
phasesOfModel == IF emergencyVehicleStatus THEN requestedSignalGroup \cup startingPhases ELSE Phase

\* The plan for an emergency vehicle: a phase in it without times takes those of the phase
\* that goes with it (validateEVTrafficSignalPlan); splits are not looked at.
getEVTrafficSignalPlan ==
  /\ stage = "emergency"
  /\ stage' = "input"
  /\ LET source(p) == IF p \in phasesOfModel /\ plan.minGreen[p] = 0 /\ Associated(p) \in phasesOfModel
                      THEN Associated(p) ELSE p
         taken(times) == [p \in Phase |-> times[source(p)]]
     IN  plan' = [ active |-> plan.active, coordinated |-> plan.coordinated,
                   minGreen |-> taken(plan.minGreen), maxGreen |-> taken(plan.maxGreen),
                   splitGreen |-> taken(plan.splitGreen), pedService |-> taken(plan.pedService),
                   yellowChange |-> taken(plan.yellowChange), redClear |-> taken(plan.redClear) ]
  /\ UNCHANGED <<emergencyVehicleStatus, priorityRequestList, requestedSignalGroup,
                 report, pedCalls, status, signalPlan, point, schedule>>

\* The phases whose greatest green is stretched (addAssociatedSignalGroup).
stretchedPhases ==
  LET requested == {q.requestedPhase : q \in {x \in priorityRequestList : x.type # Coordination}}
  IN  IF emergencyVehicleStatus THEN requestedSignalGroup
      ELSE requested \cup {Opposite(p) : p \in requested}

modifyGreenMax(gmax) ==
  [p \in Phase |-> IF p \in stretchedPhases /\ gmax[p] > 0 THEN gmax[p] + Extension ELSE gmax[p]]

\* Phases whose green must be long enough for pedestrians: those that cross now and those
\* that were counted as waiting.
servedPedestrians ==
  status.ped \cup {status.start[r] : r \in {x \in {1, 2} : Walking(report[x])}}

modifyGreenTimeForPedCalls(green) ==
  [p \in Phase |-> IF p \in servedPedestrians THEN Larger(green[p], plan.pedService[p]) ELSE green[p]]

\* The phases of a ring on one side of the barrier, and the sum of their greatest greens,
\* each truncated.
Group(r, b) == phasesOfModel \cap Ring(r) \cap Barrier(b)
LastOf(group) == CHOOSE p \in group : \A q \in group : q <= p
calulateGmax(gmax, r, b) ==
  LET left == 4 * (r - 1) + 2 * (b - 1) + 1
      green(p) == IF p \in phasesOfModel THEN WholeSeconds(gmax[p]) ELSE 0
  IN  green(left) + green(left + 1)

\* For an emergency vehicle all phases on one side of the barrier get the greatest.
validateGmaxForEVSignalTimingPlan(gmax) ==
  IF ~emergencyVehicleStatus THEN gmax
  ELSE [p \in Phase |->
          IF p \notin phasesOfModel \/ plan.minGreen[p] = 0 THEN gmax[p]
          ELSE LET side == phasesOfModel \cap Barrier(Side(p))
               IN  gmax[CHOOSE q \in side : \A x \in side : gmax[x] <= gmax[q]]]

\* With pedestrians the ring whose phases are shorter in sum gets the difference, at the
\* last of them.
Slack(gmax, r, b) == calulateGmax(gmax, 3 - r, b) - calulateGmax(gmax, r, b)

adjustGreenTimeForPedCall(gmax) ==
  IF servedPedestrians = {} THEN gmax
  ELSE [p \in Phase |->
          LET r == IF p < 5 THEN 1 ELSE 2
              group == Group(r, Side(p))
          IN  IF p \in group /\ p = LastOf(group)
              THEN gmax[p] + Larger(0, Slack(gmax, r, Side(p))) ELSE gmax[p]]

maxGreen == IF signalCoordination THEN plan.splitGreen ELSE plan.maxGreen

greatestGreen ==
  adjustGreenTimeForPedCall(
    validateGmaxForEVSignalTimingPlan(
      modifyGreenTimeForPedCalls(modifyGreenMax(maxGreen))))

\* modifyCurrentSignalStatus: when both starting phases are the last of their groups,
\* the one with less of its green left gets as much as the other.  No green is negative.
AreLast == \A r \in {1, 2} : status.start[r] = LastOf(Group(r, Side(status.start[r])))

\* Mutant: what is left of the other's green is adjusted to the lesser of the two.
LeastRemaining(gmax) ==
  LET greatest(r) == gmax[status.start[r]]
      capped(r) == IF status.elapsed[r] > greatest(r) THEN greatest(r) ELSE status.elapsed[r]
      left(r) == greatest(r) - capped(r)
  IN  [r \in {1, 2} |-> Larger(0, IF AreLast /\ left(r) > left(3 - r)
                                  THEN greatest(r) - left(3 - r) ELSE capped(r))]

modifyCurrentSignalStatus(gmax) ==
  LET greatest(r) == gmax[status.start[r]]
      capped(r) == IF status.elapsed[r] > greatest(r) THEN greatest(r) ELSE status.elapsed[r]
      remaining == Larger(greatest(1) - capped(1), greatest(2) - capped(2))
  IN  [r \in {1, 2} |-> Larger(0, IF AreLast THEN greatest(r) - remaining ELSE capped(r))]

setOptimizationInput ==
  /\ stage = "input"
  /\ stage' = "model"
  /\ signalPlan' = [ phases |-> phasesOfModel,
                     gmin |-> modifyGreenTimeForPedCalls(plan.minGreen),
                     gmax |-> greatestGreen ]
  /\ status' = [status EXCEPT !.elapsed = modifyCurrentSignalStatus(greatestGreen)]
  /\ UNCHANGED <<plan, emergencyVehicleStatus, priorityRequestList, requestedSignalGroup,
                 report, pedCalls, point, schedule>>

-----------------------------------------------------------------------------
(* The constraints of the model, and GLPK *)

\* The greens of three cycles that are counted (coef): what is left of the first, the
\* second, and of the third as much as was left out of the first.  A turn is one of these
\* eight, its cycle and its phase; 4 * r is the last phase of a ring.
Turns(r) ==
  [i \in 1 .. 8 |->
     LET from == status.start[r] + i - 1
         cycle == IF from <= 4 * r THEN 1 ELSE IF from <= 4 * r + 4 THEN 2 ELSE 3
     IN  <<cycle, from - 4 * (cycle - 1)>>]

PassedGrn(r, turn) == IF turn = <<1, status.start[r]>> THEN status.elapsed[r] ELSE 0
GrnMin(r, turn) == Larger(0, signalPlan.gmin[turn[2]] - PassedGrn(r, turn))
gmaxPerRng(r, turn) ==
  signalPlan.gmax[turn[2]]
    + (IF turn = <<1, plan.coordinated[r]>> THEN status.earlyReturn[r] ELSE 0)
GrnMax(r, turn) == gmaxPerRng(r, turn) - PassedGrn(r, turn)

\* A phase that is not in the model is written as zero.
InModel(turn) == turn[2] \in signalPlan.phases
Greens(r, turn) == IF InModel(turn) THEN GrnMin(r, turn) .. GrnMax(r, turn) ELSE {0}
PhaseDuration(turn, green) == IF InModel(turn) THEN green + clearance(turn[2]) ELSE 0

Cumulative(from, durations) ==
  LET time[i \in 0 .. Len(durations)] ==
        IF i = 0 THEN from ELSE time[i - 1] + durations[i]
  IN  time

\* The courses a ring can take: its greens, how long its turns last with the clearance, and
\* the times between them: turn i begins at time[i - 1] and is over at time[i].
Course(r, green) ==
  LET turns == Turns(r)
      duration == [i \in 1 .. 8 |-> PhaseDuration(turns[i], green[i])]
  IN  [ green |-> green, duration |-> duration,
        time |-> Cumulative(status.init[r], duration) ]

Courses(r) ==
  LET turns == Turns(r)
      greens(i) == Greens(r, turns[i])
  IN  {Course(r, green) : green \in greens(1) \X greens(2) \X greens(3) \X greens(4)
                                      \X greens(5) \X greens(6) \X greens(7) \X greens(8)}

\* The precedence constraints from one ring to the other: after a cycle's phases of one
\* side the barrier is crossed together, in the third if a phase is still to come behind it.
Crossings ==
  { <<1, 2>>, <<2, 1>>, <<2, 2>> }
    \cup (IF Side(status.start[1]) = 1 THEN { <<1, 1>> } ELSE {})
    \cup (IF \E r \in {1, 2} : \E p \in Group(r, 2) : p < status.start[r] THEN { <<3, 1>> } ELSE {})

\* How many turns a ring has before a crossing.
TurnsBefore(r, crossing) ==
  4 * (crossing[1] - 1) + 2 * crossing[2] + 4 * (r - 1) + 1 - status.start[r]

CrossingTimes(r, course) == [x \in Crossings |-> course.time[TurnsBefore(r, x)]]

\* generateDatFile: from when to when a request wants to be served.
ETA_Range == 4 * Second
Rl(q) == IF q.type = Coordination THEN q.eta
         ELSE IF q.eta <= ETA_Range + Second THEN Second ELSE q.eta - ETA_Range
Ru(q) == q.eta + q.duration

\* The first or the second green of its phase serves a request (the constraints with
\* theta); a request whose time begins at zero is not active.
Serves(turns, course, q) ==
  \/ Rl(q) = 0
  \/ \E i \in {j \in 1 .. 8 : InModel(turns[j]) /\ turns[j][2] = q.requestedPhase} :
       /\ course.time[i - 1] + course.green[i] >= Ru(q)
       /\ course.green[i] >= Ru(q) - Rl(q)

ServingCourses(r) ==
  LET turns == Turns(r)
      requests == {q \in priorityRequestList : q.requestedPhase \in Ring(r)}
  IN  {c \in Courses(r) : \A q \in requests : Serves(turns, c, q)}

\* Mutant: the rings need not wait for each other.
UncoordinatedSolutions == ServingCourses(1) \X ServingCourses(2)

Solutions ==
  LET timed(r) == {<<c, CrossingTimes(r, c)>> : c \in ServingCourses(r)}
      ring1 == timed(1)
      ring2 == timed(2)
      common == {x[2] : x \in ring1} \cap {x[2] : x \in ring2}
      at(ring, times) == {x[1] : x \in {y \in ring : y[2] = times}}
  IN  UNION {at(ring1, times) \X at(ring2, times) : times \in common}

-----------------------------------------------------------------------------
(* The schedule *)

\* ScheduleManager takes the phases from the timing plan and the times from the results:
\* the starting phase, the phases in use behind it, all phases in use, and those before it.
inUse(r) == {p \in signalPlan.phases \cap Ring(r) : plan.minGreen[p] > 0}

TurnsInUse(r) == LET turns == Turns(r) IN {1} \cup {i \in 2 .. 8 : turns[i][2] \in inUse(r)}

obtainRequiredSignalGroup(r) ==
  LET turns == Turns(r) IN Keep([i \in 1 .. 8 |-> turns[i][2]], TurnsInUse(r))

NotZero(s) == Keep(s, {i \in DOMAIN s : s[i] # 0})

\* Mutant: a missing green is made up for at the end.
GreensPaddedBehind(phases, course) ==
  LET greens == NotZero(course.green)
  IN  IF Len(greens) # Len(phases) THEN Append(greens, 0) ELSE greens

\* readOptimalSignalPlan: zeros are phases that are not in use, but for a starting phase
\* that is to end at once.
greenTimes(phases, course) ==
  LET greens == NotZero(course.green)
  IN  IF Len(greens) # Len(phases) THEN <<0>> \o greens ELSE greens

phaseDurations(course) == NotZero(course.duration)

createEventList(r, phases, course) ==
  LET greens == greenTimes(phases, course)
      ends == Cumulative(status.init[r], phaseDurations(course))
      hold(i) == [commandPhase |-> phases[i], commandStartTime |-> ends[i - 1],
                  commandEndTime |-> ends[i - 1] + greens[i]]
      forceoff(i) == [commandPhase |-> phases[i], commandStartTime |-> ends[i - 1] + greens[i],
                      commandEndTime |-> ends[i - 1] + greens[i] + 3 * Second]
  IN  [i \in DOMAIN phases |-> IF point = "left" THEN hold(i) ELSE forceoff(i)]

\* A schedule is sent if GLPK found a solution; a green of more than two seconds in ring 1
\* is taken for a sign of that.
validateOptimalSolution(course) ==
  \E i \in DOMAIN course.green : course.green[i] > 2 * Second

getScheduleforTCI ==
  /\ stage = "model"
  /\ stage' = "schedule"
  /\ LET valid == {s \in Solutions : validateOptimalSolution(s[1])}
         ring1 == obtainRequiredSignalGroup(1)
         ring2 == obtainRequiredSignalGroup(2)
     IN  \/ valid = {} /\ schedule' = NoSchedule
         \/ \E s \in valid : schedule' = << createEventList(1, ring1, s[1]),
                                          createEventList(2, ring2, s[2]) >>
  /\ UNCHANGED <<plan, emergencyVehicleStatus, priorityRequestList, requestedSignalGroup,
                 report, pedCalls, status, signalPlan, point>>

\* The list is forgotten with everything that was found out for it; for the next one there
\* may be another timing plan of the same phases.
FinishList ==
  /\ stage = "schedule"
  /\ stage' = "list"
  /\ emergencyVehicleStatus' = FALSE /\ priorityRequestList' = {} /\ requestedSignalGroup' = {}
  /\ report' = <<NoReport, NoReport>> /\ pedCalls' = {}
  /\ status' = NoStatus /\ signalPlan' = NoPlan /\ schedule' = NoSchedule
  /\ point' \in {"left", "right"}
  /\ plan' \in {times \in Plans : times.active = plan.active}

Next ==
  \/ ReceiveList
  \/ getCurrentSignalStatus
  \/ getEVTrafficSignalPlan
  \/ setOptimizationInput
  \/ getScheduleforTCI
  \/ FinishList

Spec == Init /\ [][Next]_vars

-----------------------------------------------------------------------------
(* Properties *)

\* When a phase of the schedule is green: while it is held, or from the end of the one
\* before it, forced off and cleared, until it is forced off.
GreenFrom(r, i) ==
  IF point = "left" THEN schedule[r][i].commandStartTime
  ELSE IF i = 1 THEN status.init[r]
  ELSE schedule[r][i - 1].commandStartTime + clearance(schedule[r][i - 1].commandPhase)
GreenTo(r, i) ==
  IF point = "left" THEN schedule[r][i].commandEndTime ELSE schedule[r][i].commandStartTime
ClearAt(r, i) == GreenTo(r, i) + clearance(schedule[r][i].commandPhase)

\* The two rings are never sent to different sides of the barrier at the same time, and no
\* ring into a phase before the one before it has cleared, although the schedule of each
\* ring is put together on its own (readOptimalSignalPlan, createEventList).
BarrierIsRespected ==
  /\ \A i \in DOMAIN schedule[1], j \in DOMAIN schedule[2] :
       Side(schedule[1][i].commandPhase) # Side(schedule[2][j].commandPhase) =>
         ClearAt(1, i) <= GreenFrom(2, j) \/ ClearAt(2, j) <= GreenFrom(1, i)
  /\ \A r \in {1, 2} : \A i \in 2 .. Len(schedule[r]) : ClearAt(r, i - 1) <= GreenFrom(r, i)

\* Every phase gets its least green, the starting phase together with what it has had, and
\* long enough for the pedestrians who cross or were counted as waiting, whatever was made
\* of a resting green before (modifyTrafficControllerStatus, modifyCurrentSignalStatus).
\* Where coordination alone is served this does not hold of pedestrians: the phase may be
\* taken to have had more green than it has, the time elapsed in the cycle.
HasHad(r, i) == IF i = 1 /\ Serving(report[r]) THEN report[r].elapsed ELSE 0

GreenTimesAreKept ==
  \A r \in {1, 2} : \A i \in DOMAIN schedule[r] :
    LET p == schedule[r][i].commandPhase
        green == HasHad(r, i) + GreenTo(r, i) - GreenFrom(r, i)
    IN  p \in plan.active =>
          /\ green >= plan.minGreen[p]
          /\ ~signalCoordination /\ (p \in status.ped \/ (i = 1 /\ Walking(report[r]))) =>
               green >= plan.pedService[p]

\* A caller who arrives in more than a second finds a green of his phase that lasts beyond
\* the end of his arrival, and as long as it takes (generateDatFile, the constraints with
\* theta, createEventList).
EveryCallerGetsAGreen ==
  stage = "schedule" /\ schedule # NoSchedule =>
    \A q \in priorityRequestList :
      q.eta >= Second =>
        \E r \in {1, 2} : \E i \in DOMAIN schedule[r] :
          /\ schedule[r][i].commandPhase = q.requestedPhase
          /\ GreenTo(r, i) >= q.eta + q.duration
          /\ GreenTo(r, i) - GreenFrom(r, i) >= q.duration

\* Comment: "If starting phases (for example, phase 4 and 8) are the last phase of their
\* respective ring barrier group and remaining green time are different, solver may get
\* infeasible solution"; "The following method will find the maximum remaining green time
\* and adjust the elapsed green time based on that".
LastPhasesCanEndTogether ==
  /\ stage = "model" /\ AreLast
  /\ \A r \in {1, 2} : Serving(report[r])
  /\ clearance(status.start[1]) = clearance(status.start[2])
  => LET least(r) == GrnMin(r, <<1, status.start[r]>>)
         greatest(r) == GrnMax(r, <<1, status.start[r]>>)
     IN  \E green \in least(1) .. greatest(1) : green \in least(2) .. greatest(2)
==============================================================================
