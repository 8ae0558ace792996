# Verification of the MMITSS priority chain

MMITSS gives emergency vehicles, buses and trucks priority at signalised
intersections.  This directory holds TLA+ models of its core programs, the TLC
runs that check them on small instances, and proofs that TLAPS checks for every
instance.  `src/` below is the repository root; the program's own code is in
`src/src/`.

## 1. The system

Every box is an operating-system process; arrows are UDP datagrams with JSON.

    vehicle                          road side
    Priority Request   --SRM-->   Priority Request Server  --list/Clear-->  Priority Request
    Generator          <--SSM--   (Active Request Table)                    Solver
                                        ^                                     |   ^
                              lists     |                          schedule   |   | timing plan,
                    Signal Coordination |                                     v   | current phases
                    Request Generator --+                          Traffic Controller Interface
                                                                              |
                                                                     SNMP engine -> controller

| component | state | operations | correct when |
|---|---|---|---|
| Priority Request Server, `mrp/priority-request-server` | Active Request Table, the flags `sendSSM`, `sentClearRequest`, ETA refresh time | SRM (add, update, update of an emergency vehicle, cancel, repeat, reject), coordination list (replace, clear), socket timeout (time-out of one vehicle, pending clear, ETA refresh), restart | emergency vehicles pre-empt all others; an emergency vehicle's two phases come and go together; the solver works on the table; silence drains the table |
| Signal Coordination Request Generator, `mrp/signal-coordination-request-generator` | active plan, list of up to four virtual requests, send times | plan check, start of a cycle, refresh, ageing and deletion, end of plan | requests come in pairs, are refreshed before the server's time-out, are withdrawn at the end of the plan |
| Priority Request Solver, `mrp/priority-request-solver` | request list, timing plan, current phases | request list, clear, split data, current phases; solve; send schedule | the TCI works on the server's newest message that was not lost; a plan for emergency vehicles serves all of them; a schedule keeps the barrier, the least greens and the callers' times |
| Traffic Controller Interface, `mrp/traffic-controller-interface` | job list, status words for hold, omit, call, force-off | schedule, clear, timing plan request, background jobs | omits and holds are lifted; a cleared schedule's jobs have no late effect |
| Priority Request Generator, `vsp/priority-request-generator` | vehicle status, active map, own view of the server's table | BSM, SSM, MAP, light and siren status, SRM sending | a vehicle that has asked and leaves cancels |
| Priority Request Generator Server, `server/priority-request-generator-server` | one generator per simulated vehicle | as above, and deletion of silent vehicles | as above; simulation only, not modelled |
| SNMP engine, MAP-SPaT broadcaster, transceiver, distributors, collectors, HMI, simulation bridges, tools | little or none | conversion and forwarding | outside the models, see section 8 |

What is hard here: the programs exchange datagrams that can be lost and that
arrive in any order relative to time-outs; each of them is restarted by
`supervisord` with its memory gone; the server recomputes statuses in some of its
handlers only; emergency vehicles own two table entries, coordination cycles two
requests, and several erasures assume that without looking; the server serves its
time-outs only when its socket is idle.  `PROJECT.json` lists these hazards at the
lines where they bite, with the properties aimed at them.

## 2. The plan

Done, in this order:

1. `PriorityRequestServer`, its abstract specification `PriorityService`, the
   refinement, proofs.
2. `SignalCoordinationRequestGenerator`, proofs.
3. `PhaseControlScheduler`: the interface's schedules, background jobs and shared
   status words as interleaved threads; proofs.
4. `PriorityRequestGenerator`: the vehicle; `PriorityRequestExchange`: vehicles and
   server over a lossy link; proofs about both.
5. `PriorityRequestSolver`: the message loop with its blocking waits, between server,
   interface and coordination generator; proofs.
6. The solver's plans: `EmergencySignalPlan` (which phases an emergency plan has, and
   in which order; proofs) and `SignalTiming` (from the reported signal status over the
   constraints handed to GLPK to holds and force-offs; proofs).
7. Theorems on every safety property that a passing run checks, and that every step of the
   server is a step of the service.

Left:

8. the server-side generator of the simulation, which creates and deletes vehicles'
   generators over shared map files;
9. the interface's special functions, and the phase status it computes for the solver;
10. the objective: which of its solutions GLPK picks.

Modules that theorems are about use no recursive operators: erasing from a vector is
described by the set of positions that stay (`VectorOps`), sums and walks by recursive
functions.  `SignalTiming` alone folds a set, for the permissive period of coordination, which
may be any number as far as its theorems go.

    VectorOps <- PriorityRequestServer <- PriorityServerRefinement -> PriorityService
                   |                        ^ PriorityRequestServerProofs
                   v
      PriorityRequestExchange -> PriorityRequestGenerator
          ^ PriorityRequestGeneratorProofs
    SignalCoordinationRequestGenerator <- ...Proofs
    PhaseControlScheduler              <- ...Proofs
    PriorityRequestSolver              <- ...Proofs
    EmergencySignalPlan                <- ...Proofs
    SignalTiming                       <- ...Proofs

The modules `MC...` give the constants their values for TLC.

## 3. The modules

### 3.1 The Priority Request Server

`PriorityRequestServer.tla` has one action per path through one iteration of the
main loop (`priority-request-server-main.cpp:64-141`).

| module | code |
|---|---|
| `ART`, a sequence of `Entry` | `ActiveRequestTable`, `ActiveRequest.h` |
| `sendSSM`, `sentClearRequest` | the members of these names |
| `etaAge`, `receivedAge`, `forwardAge` | time since `etaUpdateTime`, `msgReceivedTime`, `artForwardTime` |
| `idle` | how long `recvfrom` has been blocked, up to the socket timeout of one second |
| `ssm`, `solver` | the last datagrams to the vehicles and to the solver |
| `AddRequest`, `UpdateRequest`, `UpdateEmergencyRequest`, `DeleteRequest`, `KeepRequest`, `RejectRequest` | the branches of `manageSignalRequestTable` with the send step that follows |
| `ReplaceCoordination`, `ClearCoordination` | `manageCoordinationRequest` |
| `ReceiveUnknown` | a datagram of another type |
| `DeleteTimedOut`, `NoTimedOut` | the branch taken after a socket timeout |
| `Tick` | one unit of time while the loop waits |
| `Restart` | `supervisord` starts the process again |

Each action is the whole iteration: table change, statuses, SSM, message to the
solver and reset of the flags.  `sendPriorityRequestList` and
`sentClearRequestForEV` are set and used up within one iteration, so they are
parameters (`needList`, `clearForEV`) and not variables.

*Abstractions.*  ETAs, speeds and positions only matter through the tests of
`updateActiveRequestTable`; an SRM says whether it `deviates` from the stored
entry.  Ages stop at the threshold they are compared with.  A vehicle's role is
fixed (`RoleOf`): a role is configuration.  `acceptSignalRequest` reads the
intersection of the SRM as a free Boolean.  Message headers, sequence numbers,
counters and the performance log are left out.

*Undefined behaviour.*  Lines 446-453, 606 and 638 erase what `find_if` returned
without comparing it with `end()`.  Erasing `end()` is undefined; with the usual
library it either moves a negative number of elements (the process dies:
`Restart`) or just shortens the vector by one (`DropLast`).  `EraseTwice` and
`UndefinedErase` give both outcomes.  In the second one the entry that goes is the last of
the table, whoever's it is.

*Environment.*  Any vehicle may send any SRM at any time, so lost, repeated and
reordered SRMs are included: the server cannot tell them from a vehicle that did
not send, sent twice or sent in another order.  The generator may send any list
of `CoordinationList`.

`PriorityService.tla` is what the server promises: the set of those being served,
who is granted, and for whom the solver was last asked to plan.  The server does not keep
the promise that one would like: where half of a pair is missing, `LoseInstead` takes a
request of somebody else (`ServeInstead` when an emergency vehicle renews its request,
`ExpireInstead` at a time-out), and `halved` are the emergency vehicles that lost one of two
requests in this way.  `PriorityServerRefinement.tla` maps the table to it.

### 3.2 The Signal Coordination Request Generator

`SignalCoordinationRequestGenerator.tla` has one action, `Iteration`, for a turn of
the loop that did not receive an inquiry (`signal-coordination-request-generator.py:103-146`),
and `GenRestart`.  An iteration advances the time of day by what the turn took,
checks the plan when that is due, and then takes one of the code's branches:

| module | code |
|---|---|
| `now` | `getCurrentTime()`, whole seconds of the day |
| `plan`, `checkAge` | `coordinationParametersDictionary` (the position of the plan in the file, 0 if empty), time since `activePlanCheckingTime` |
| `requests` | the `requestorInfo` list: identity, ETA, split |
| `sentAge` | time since `requestSentTime` |
| `assigned` | whether `coordinationPriorityRequestJsonString` has a value, which line 145 needs |
| `toServer` | the last datagram to the server: its type and its identities |
| `Generate` | line 115: a list of four at the start of a cycle |
| `Update` | line 122: the list again with new ETAs, nothing deleted |
| `Maintain`, `SendAfterDeletion` | lines 131-139: ageing, deletion, the list that is left |
| `EndPlan`, `FailAfterClear` | lines 140-145: the clear request, and the `NameError` after it |

*Abstractions.*  Seconds instead of milliseconds: where a split is used up in the
very second, `SplitLeft` leaves open which of a pair is rounded to zero; the second
request of a pair, updated later, never goes first.  The split is taken by the whole
time since the last update when the ETA falls due, as in the code.  The plan file
has one day plan, the same every day, and does not change.  Message counts, phases
and absolute ETAs are left out.  An inquiry of the solver changes nothing here.

### 3.3 The Traffic Controller Interface

`PhaseControlScheduler.tla` models `PhaseControlScheduler.py` with the main loop, the
SNMP calls and the timing-plan update that surround it.  There are three kinds of
threads, stopped before each access to what they share: the main loop, one thread per
job instance, and the update of the timing plan, which reads over the main loop's socket.

| module | code |
|---|---|
| `status`, `word` | `phaseControls[...]["status"]`; the controller's word as it was last set |
| `jobs`, `pool` | the job store of the background scheduler; the instances its threads run |
| `main` | where the main loop is, with the local variables of the functions it is in |
| `replies` | replies waiting at the SNMP socket |
| `plan`, `update` | `currentTimingPlanJson`, and the thread that renews it |
| `scheduleDataStructure`, `NextPlace`, `IsWalk`, `Heads`, `GroupOf`, `Activation`, `Deactivation`, `JobsFor` | sorting, and the walks that form start groups and end groups |
| `ReceiveSchedule`, `RemoveAllJobs`, `MainAsks`, `MainTakesReply`, `ChooseClears`, `AssignZeros`, `ReadValue`, `SendValue`, `AddJobs` | `processReceivedSchedule`, in its steps |
| `ReceiveClear`, `FinishClear` | the clear branch |
| `ReceiveCurrNextPhaseRequest`, `ReceiveCurrPhases`, `SendCurrNextPhases` | `sendCurrentAndNextPhasesDict` |
| `SubmitJob`, `WriteBit`, `ReadBits`, `SendBits` | a background job: `setPhaseControl` writes its bits one by one, reads the word, sends it |
| `StartUpdate`, `UpdateAsks`, `UpdateTakesReply`, `FinishUpdate` | `updateAndSendActiveTimingPlan` |
| `BackupExpires`, `Tick`, `Restart` | the controller's backup time, the clock, the end of the process |

*Abstractions.*  A status word is the set of the phases whose bit is set; the tick is
the tenth of a second to which the code rounds.  The SNMP engine serves its socket in
order, and a SET succeeds.  The threads keep up with the clock (`Tick` waits for due
jobs); only a wait for a reply takes time.  A restart drops the replies under way.

### 3.4 The vehicle

`PriorityRequestGenerator.tla` has one action per datagram of the generator's main
loop, `ReceiveBSM` being the whole of `getVehicleInformationFromMAP`,
`checkRequestSendingRequirement` and `createSRMJsonString`.

| module | code |
|---|---|
| `available`, `activeMap`, `counter_VehicleInMap` | `availableMapList`, `activeMapList`, the counter of the periodic check |
| `ART`, `intersectionID`, `signalGroup`, `temporaryVehicleID`, ... | the members of these names |
| `srmAge` | time since `srmSendingTime` |
| `air` | SRMs on their way |
| `Located`, `OnTheMap`, `OffTheMap`, `createActiveMapList` | where the vehicle is |
| `Cancels`, `Asks`, `SomethingNew` | the cancellation tests, the eligibility by role, the reasons to repeat |
| `ReceiveSSM`, `ReceiveMAP`, `ReceiveLightSirenStatus`, `RestartGenerator` | the other datagrams; `supervisord` |

*Abstractions.*  The MAP engine is outside: where it places a vehicle is an input,
like whether speed or ETA have moved by their thresholds.  `Cancels` compares with
`insideIntersectionBox` alone, because the code compares with the disjunction of three
enumerators, which is 1.

### 3.5 Vehicles and server

`PriorityRequestExchange.tla` composes the vehicles (EXTENDS) with the server
(INSTANCE) over the radio link.  `ServeSRM`, `ServeCoordination`, `ServeTimeout` and
`RestartServer` are the server's actions, `VehicleBSM`, `VehicleSSM`, `VehicleOther`
and `RestartVehicle` the vehicles'; `LoseSRM` and `LoseSSM` are the link's.  The unit of
time is the period of the BSMs; what is on the air arrives or is lost within it, in any
order.  Both sides take their time-outs from `SRMTimedOutTime`, as the configuration
does.  `msgCount` is the column of the server's table that the server's module leaves
out.  `asking`, `excused`, `undelivered`, `silence` and `counted` are history: `counted` is
how many SRMs a vehicle has sent since nothing showed a message count of its any more
(`Shown`, `OnAir`).

### 3.6 The solver's loop

`PriorityRequestSolver.tla` models `priority-request-solver-main.cpp` and the calls it
makes, with the processes it talks to.  The loop blocks in three places (`pc`): at its
main socket, again at that socket for split data, and at a second one for the current
phases.

| module | code |
|---|---|
| `trafficSignalPlan`, `trafficSignalPlan_SignalCoordination` | the version of each plan in use, 0 for none |
| `inbox`, `answers` | the queues of the two sockets |
| `priorityRequestList`, `weightless`, `noOfEVInList` | the members of these names, a request being the type of its vehicle |
| `setCurrentSignalTimingPlan`, `setSignalCoordinationTimingPlan`, `DropList`, `createPriorityRequestList`, `SendClearSchedule` | the branches of the main loop |
| `TakeSplitData` | the wait for the split data, which the next datagram ends, whatever it is |
| `getScheduleforTCI`, `getCurrentSignalStatusFails`, `setOptimizationInputFails` | the rest of an iteration, and the two ways the process dies in it |
| `TciAnswersPlan`, `TciAnswersPhases`, `GeneratorAnswers`, `GeneratorIgnores`, ... | the other processes |
| `SolverKilled`, `SolverStartsAgain`, `TciRestarts` | faults and `supervisord` |

`fate`, `planLost`, `mistaken`, `restarted` and `unanswered` are history: what became
of each message of the server, and why.  Undefined behaviour (an element taken of an
empty vector) is modelled as the death of the process.  Whether the optimal solution is
valid is left open here; `SignalTiming` looks into that.

### 3.7 The solver's plan for emergency vehicles

`EmergencySignalPlan.tla` has one action per function called for a list with an
emergency vehicle: `setDilemmaZoneRequesStatus`, `modifyPriorityRequestList`,
`managePriorityRequestListForEV` (its case distinction is `Management`), `getEVPhases`,
and `createEventList` with `obtainRequiredSignalGroup` and `getOmitPhases`.  Of the
timing plan it keeps which phases have a green time; of the optimal solution nothing,
since that gives the durations and not the order.  `SolverDataUndefined` is the plan
with one side of the barrier only (section 6).  The two requests of an emergency
vehicle come together: `EmergencyPairs` of the server.

### 3.8 The times of a schedule

`SignalTiming.tla` follows a list from the signal status to the commands.

| module | code |
|---|---|
| `Possible`, `startingPhase`, `initPhase`, `elapsedGreen` | `TrafficConrtollerStatusManager`: what was reported, validated and modified |
| `permissivePeriod`, `earlyReturn`, `coordinatedGreen`, `coordinationStatus` | the same for a list with nothing but coordination requests |
| `conflictingPedCallList`, `servedPedestrians`, `modifyGreenTimeForPedCalls` | pedestrians who wait and who cross |
| `modifyGreenMax`, `validateGmaxForEVSignalTimingPlan`, `adjustGreenTimeForPedCall`, `modifyCurrentSignalStatus` | `SolverDataManager`: greatest greens, and the elapsed greens adapted to them |
| `Turns`, `GrnMin`, `GrnMax`, `Course`, `Courses`, `Crossings`, `Serves`, `Solutions` | the model file and its data: three cycles, precedence across the barrier, requests |
| `Associated`, `getEVTrafficSignalPlan` | `getEVTrafficSignalPlan`, `validateEVTrafficSignalPlan` of the solver: a planned phase without times takes those of the phase that goes with it |
| `obtainRequiredSignalGroup`, `greenTimes`, `phaseDurations`, `Cumulative`, `createEventList`, `validateOptimalSolution` | `ScheduleManager`: from the results back to phases and times |

GLPK is the set of the solutions that satisfy the constraints; the objective picks one
of them, so what holds of all holds of that one.  The two critical points of a plan,
left for the holds and right for the force-offs, have the same constraints and are
looked at one at a time (`point`).  Times are in half seconds.

## 4. Properties

**Server.**  `TypeOK`; `EmergencyPairs` (two entries per emergency vehicle, each the
other's split phase, and no other double entry); `EmergencyExclusive` (an emergency
vehicle in the table is granted and nobody else is); `ClearIsOnTheWire` (the flag that
suppresses a second ClearRequest tells the truth); `SolverInStep` (the solver's list is
the table, up to withdrawn coordination requests); `EmergencyIsPlanned` (no ClearRequest
takes a present emergency vehicle away from the solver); `TableBounded` (the overflow is
one split-phase entry and no coordination identity twice).  `LeavesForCause`: a vehicle
disappears only by its own cancellation, its own time-out, a crash, or as the last entry of
the table when somebody else, of whose pair one is missing, is erased as one of a pair
(`TakenInstead`, `ErasedInPair`; section 6).  `SilenceDrains`:
unless datagrams or restarts go on for ever, the table ends up empty and the solver
cleared.  `ImplementsService`: every step is a step of `PriorityService`, that flaw included,
which costs one request and no more.  The last three are checked with coordination lists of
one request, too.

**Coordination generator.**  `GenTypeOK`; `ServerHasTheList` (every deletion and every
new cycle is announced); `FreshForServer` (nothing in the list outlives the server's
time-out before the next sending); `PairsRejoin` (the two requests of a cycle part for
one iteration at most); `EveryCycleIsServed` (the window of each cycle is hit);
`NoRequestWithoutPlan` (requests last at most a cycle, a split and three iterations beyond
their plan, even when its end is missed); `CoordinationEnds` (liveness).

**Interface.**  `NoReplyLeftOver` (two threads that share a socket may swap replies, but
each gets one and none is left for a later request); `ClearIsFinal` (after a clear
request nothing is on and nothing comes on, unless a job ran while the jobs were
removed); `NoForeignBits` (the old schedule's bits are gone before a new job reads the
words); `CommandInForce` (from its start to the first end of its group a command is in
force: activated, refreshed before the backup time runs out, not taken back by another
job); `NothingElseInForce` (and nothing else is, when the commands of each control end in
the order in which they start); `EmptiedForCause` (a word is emptied only by the backup
time, a restart, a clear request, a command of its control that ends at that very time, or
while a schedule is taken over, and then not a hold or an omit with which that schedule
begins; calls and force-offs never outlast the old schedule, even if the new one begins with
them).  `CommandInForce` and `NothingElseInForce`
speak of controls whose own jobs do not fall due together (`Tame`).

**Vehicle, and vehicles with server.**  `OffMapForgets` (nothing of one approach is
carried into the next); `HeardInTime` (who wants priority and lost nothing is heard of
before the server's time-out); `AcknowledgedHasArrived` (the message count in an SSM never
acknowledges an SRM that did not arrive, unless the counts have come round, or a restarted
vehicle counts anew, while a trace of an SRM with that count is left); `RequestIsKept` and
`NobodyIsForgottenInTheTable` (liveness: who goes on wanting gets in and stays in, who
stops wanting is dropped, whatever was lost).

**Solver's loop.**  `TciFollowsServer` (the interface works on the newest message that
reached it); `PlanIsCurrent` (the newest timing plan is in use, unless the wait for split
data swallowed it); `AnswersMatchQuestions` (the answer read is that to one's own
question, until a restart shifts them); `DiesOnlyAfterMiss`; `LoopReturns` (liveness).

**Solver's plans.**  `EveryGroupHasAPhase` (no set of the model is missing, over any
sequence of lists); `EveryEmergencyIsServed` (the through phase of every emergency
vehicle's approach is planned, called and not omitted); `NoCallIsOmitted`; `TwoCycles`
(phases follow one another as in the cycle, each planned one exactly twice).
`BarrierIsRespected` (the rings' schedules, put together separately, never send the two
rings to different sides of the barrier at once); `GreenTimesAreKept` (every phase gets
its least green and the pedestrians' time, whatever was made of a resting green);
`EveryCallerGetsAGreen` (the schedule has a green that outlasts every caller's arrival).

## 5. Runs

| run | instance | shows |
|---|---|---|
| `PRS_core` | 2 emergency vehicles, 1 transit, phases 2 and 5 (each other's split phase), lists of two requests or none, capacity 3 | the server's safety, as long as coordination requests come and go in pairs |
| `PRS_undefined` | 2 emergency vehicles, 1 transit, phase 2, lists of none, one or two requests, capacity 3, fair | through both outcomes of an undefined erasure: who may be evicted and when, every step a step of the service, silence drains |
| `SCRG_core` | a day of 72 s with a plan from 12 to 23 (cycle 7, offset 2, split 3) and one from 46 to 51 (cycle 5, offset 4, split 3); iterations of 1 or 2 s; plan check every 10 s; time-out 5 s, refresh after 3 s; fair | all properties of the coordination generator |
| `TCI_core` | 2 phases, 3 schedules, backup time 3, refresh 2, 2 messages, 1 timing-plan update, 5 ticks | the interface's properties over all interleavings |
| `TCI_end_groups` | 1 schedule of nested holds | finding 1 |
| `EXC_core` | 1 fire vehicle with its siren going on and off, 2 intersections, 1 lost message, 1 restart | the exchange's safety |
| `EXC_live` | 1 truck, 1 intersection, coordination lists, 1 lost message, fair | the exchange's liveness |
| `EXC_leaving` | 1 transit vehicle | finding 2 |
| `SOL_core` | 4 kinds of lists, 2 weight settings, 2 messages, 2 timing plans, 1 change of coordination, 1 fault, fair | all properties of the solver's loop |
| `EVP_core` | intersections with phases 1 to 8, with {1, 2, 4, 6} and with {2, 5, 6, 8}; any approaches, any status, changing weights | the properties of emergency plans |
| `TIM_core` | a crossroads and a T-junction; greens begun, resting, being timed out; clearing in yellow and red; calls; truck, transit with coordination, coordination alone, before its first cycle too, emergency, also where the left turn of the approach is not in use | the properties of schedules |
| `TIM_last` | a main road wider than its greatest green | finding 3 |

*Bounds.*  **Server:** capacity 3 instead of 15 lets the overflow (an emergency vehicle
added at size 2, coordination requests on a full table) happen with three vehicles.
Two emergency vehicles are needed for everything that asks whether another one is there;
a third adds nothing the code looks at.  In `PRS_core` the time-out is 4 ticks, the socket timeout 2,
the repeat gap 3, the ETA refresh 2: the order of the thresholds is what the branches
distinguish.  `PRS_undefined` has 2, 1, 1 and 1, because its table takes more forms; two
emergency vehicles and a lone coordination request are enough there for an eviction that
leaves an emergency vehicle with one request, and for the evictions that follow from that.  Ages saturate, so nothing else has to be bounded.

**Coordination generator:** the day is short, but its order of durations is the deployed
one: an iteration is shorter than the gap of 2 s between refresh and time-out, a split is
shorter than a cycle, a plan lasts several cycles.  Restarts at any time let the plan
check fall into every place of a cycle and on both sides of a plan's end.  Each plan ends
soon after its last cycle has begun: the requests of the cycle after it are left over, and
a restart between the two lets the crash of line 145 happen.  After either plan the day
leaves the time for the requests to run out (`PlansEndInTime`), and `NoRequestWithoutPlan`
is violated with a bound one second smaller.  An iteration of 2 s stands for the second that a loop of slightly
more than 1 s skips now and then.

**Interface:** two messages are the least at which a schedule meets the jobs of another
and a clear request those of a schedule; the time of 5 ticks covers the longest command
(5, with one refresh before the backup time of 3 runs out, a refresh that coincides with
an end, and a late job after the second message).  One update suffices for a swapped
reply; a second one follows only after the first is over.

**Exchange:** the server's time-out of 3 is the vehicle's own (2) plus the gap (1), as
configured (10 s, 8 s and 2 s); messages are counted to 3, or to 2, so that the count comes
round (in the code they are counted to 127); one loss and one restart may fall anywhere.  The vehicles' generators do not talk
to each other, and what they do to one another in the table is the subject of `PRS_core`,
so that one vehicle is enough here.

**Solver's loop:** the queue holds the messages of the server, plans and split data that
two messages, two plan versions and one change of the coordination plan bring about:
enough for any of them to end the wait for split data, and for one more to come behind it.

**Emergency plans:** complete: every set of approaches with a vehicle, every pair of
starting phases, any sequence of lists.

**Schedules:** greens vary within one or two half seconds between least and greatest;
what matters is that sums of greens in the two rings can be made equal in several ways
and that clearances differ between the phases.  Only one list is looked at from the
start to the end, because everything is forgotten between lists.

*Deadlock.*  It is checked in every run but `TCI_core`, `TCI_end_groups` and `SOL_core`, which
stop at their bounds, and `EVP_core`, where the program may die (`SolverDataUndefined`).

*Fairness.*  `FairSpec` assumes that time passes while the loop is blocked (`WF(Tick)`) and
that an expired socket timeout is served (`WF(SocketTimeout)`): the kernel returns from
`recvfrom` and the loop has no other wait.  Nothing is assumed about vehicles, the
generator or restarts.

`GenFairSpec` assumes that the generator's loop goes on: its socket does not block and its
only wait is `sleep(1)`.

`ExchangeFairness` assumes that BSMs come (ten a second, from the vehicle's own unit), that
what is on the air arrives or is lost, that the server serves an expired timeout, and that
time passes however often other steps are taken in between (`SF(Tick)`: time is not a step
that somebody may keep disabling).  Losses and restarts are not fair, and vehicles need
not move, ask or stop asking.  `NobodyIsForgottenInTheTable` also supposes that the
coordination generator falls silent: a socket that is never idle for a second is never
served a timeout (section 6).

`Fairness` of the solver assumes that the loop goes on when it has something to read,
that `supervisord` starts it again, and that the others answer while they run; a question
lost in a restart stays unanswered, and `LoopReturns` excepts it.

## 6. Where the code does not do what is said of it

Three disagreements have a run that shows them:

1. `TCI_end_groups`: the walk that forms the end groups (`PhaseControlScheduler.py:264`)
   advances by the number of commands that end together, wherever they stand in the list,
   and so passes by commands that end at another time, of another control too.  They are never deactivated,
   although line 79 speaks of "Ending the scheudled commands after their EndTime is
   reached".  The schedule of the run has holds of phase 2 from 0 to 5, of phase 1 from 1 to 2
   and of phase 3 from 4 to 5, in this order once sorted.  Places 1 and 3 end together, so that
   the walk goes from place 1 to place 3 and passes by the end of phase 1.  It takes commands
   that end together with another one, of an earlier end, between them in the list.
2. `EXC_leaving`: a vehicle that leaves the approach other than through the intersection
   box sends no cancellation (`PriorityRequestGenerator.cpp:222`, against lines 79 and 80
   of its `README.md`).  The server finds out by its time-out.
3. `TIM_last`: the adjustment of elapsed greens (`SolverDataManager.cpp:699`) clamps at
   zero, so that starting phases with very different greens, for pedestrians, are left with
   no common end, the model has no solution and the list is not scheduled; the comment at
   line 653 says that this is what the adjustment avoids.

The models contain the following behaviour as well, or it was met while they were
written; where a property has to make an exception for it, the property says so.

*Server* (`mrp/priority-request-server/`)
- `Readme.md:135` says the clear request is sent when the table is empty.  It is also
  sent while requests remain, when the last emergency vehicle leaves
  (`PriorityRequestServer.cpp:556`, `614`, `686`); they are not planned for until the next
  change.
- `PriorityRequestServer.cpp:864` says transit and truck requests are granted when no
  emergency vehicle is in the list.  After an emergency vehicle has timed out (line 645)
  they stay rejected until the next accepted SRM or coordination list, and the SSM sent in
  the same iteration repeats the rejection.
- `PriorityRequestServer.cpp:635-638` erases a timed-out coordination request and then, without
  looking whether it found one, that of its partner (so do lines 446-453 for an emergency
  vehicle that renews its request, and 606 for one that cancels).  The generator sends a
  list with half of a pair for an iteration, when rounding uses up one split before the
  other (`PairsRejoin`).  If the lone request is the one that times out, and the process
  survives, the last entry of the table goes instead, a vehicle's that may have been heard of
  a moment before.  An emergency vehicle can lose one of its two entries in this way; it is
  then the incomplete pair, and its own next change or time-out takes somebody else's entry.
  `LeavesForCause` and `ImplementsService` say how much is lost and when; `EmergencyPairs` and
  `TableBounded` do not hold with such lists.
- `Readme.md:5` says requests are deleted when no SRM came for the time-out.  They are
  looked at only after a second without any datagram.
- A repeated request that is no significant change does not refresh its entry (lines
  160-165; the comment at line 207 says otherwise); the vehicle's own time-out makes up
  for that.

*Coordination generator* (`mrp/signal-coordination-request-generator/`)
- `CoordinationRequestManager.py:297` says a clear request is made when the list is
  empty.  A list that is emptied by deletion is announced by `{}` instead (line 281), which
  the server ignores.  If the periodic plan check falls into the first iteration after the
  end of a plan (`CoordinationPlanManager.py:91`), none is sent either.
- `CoordinationRequestManager.py:79` says the first list is sent a cycle length before the
  plan's start (`README.md:2`: cycle length plus offset); line 93 sends it cycle length minus
  offset before.  With offset 0
  (`src/config/speedway-sample/simulation/speedway-campbell/nojournal/bin/mmitss-coordination-plan.json:8`
  and `27`) the window of line 97 is one second wide, and an iteration of two seconds across
  the start of a cycle misses the cycle; `WindowIsMet` asks for an offset for that reason.
- A plan check that falls into the last cycle drops the plan with two cycles of requests in
  the list; nothing withdraws them before their splits are used up (`Leftover`).
- The least ETA of a virtual request is 0 (line 69), which the solver takes for a request
  that is not active.

*Interface* (`mrp/traffic-controller-interface/`)
- `PhaseControlScheduler.py:146`: a group is refreshed only until the first of its ends.
  Line 80 announces additional commands for those that end later; there are only their
  deactivations, so that they stay in force as long as the controller's backup time lets
  them.  `CommandInForce` promises no more.
- The interface's `README.md:157` says that a `commandType` which the old and the new schedule
  have for the same phase is maintained.  That is so for holds and omits.  Calls and
  force-offs are cleared whatever the new schedule has (`PhaseControlScheduler.py:139-144`, as
  the docstring at line 100 says), and come on again with its first jobs.  `EmptiedForCause`
  says what the code does.
- `Snmp.py:57` and `72-75`: `getValue` takes the next reply, whatever it asked for.  Two
  threads may get each other's values (`NoReplyLeftOver` says that this is all that happens).
- The engine's reply of -1 for a failed GET is taken for a value.

*Solver* (`mrp/priority-request-solver/`)
- `priority-request-solver-main.cpp:84`: what arrives while it waits for split data is
  read and thrown away, a clear request included (the comment at line 93 expects split
  data).
- A coordination-only list for which no coordination plan is there kills the process; an
  emergency vehicle without weight does before any request of an emergency list was
  counted (`SolverDataManager.cpp:553-554`, the plan has one side of the barrier only,
  against the comment at `PriorityRequestSolver.cpp:686`), and silences all other requests
  later.
- `dilemmaZoneRequestList` is never filled (`PriorityRequestSolver.cpp:157`); the code of lines
  254-306 that reads it has no effect.  `dummyPhasesList` is never cleared (line 1152), so that a phase
  taken into use later goes on being left out; `SignalTiming` keeps the phases in use the same
  (`FinishList`).  When GLPK
  fails, the result file of an earlier list is still there (line 643).  A new timing plan
  does not change the coordination plan made from an older one (line 1119).
- The model also has no solution when one ring's starting phase is the last of its group
  and at its greatest green and the other's is not, or when both are but clear in different
  times.  Then nothing is sent.
- Pedestrians who wait on the side of the starting phases count only if somebody waits
  on the other side
  (`TrafficConrtollerStatusManager.cpp:578-611`, `675-688`).
- With coordination alone, a phase is taken to have had the green that its cycle gives it
  (lines 350-352, 375), which may be more than it had; the rest left for pedestrians who
  cross is then shorter than they take.  `GreenTimesAreKept` excepts this case.  A starting phase
  that is not coordinated is compared with the coordinated phase's greatest green (lines
  388, 468), which the cap in `modifyCurrentSignalStatus` makes up for.
- Sums of greens are truncated to whole seconds after each green (`accumulate` with an `int`,
  `SolverDataManager.cpp:647`; `calulateGmax` of the model does so, too).  The last
  force-off of a plan may come before the end of the hold of its phase.
- The server adds the left turn of an emergency vehicle's approach whether the intersection
  has it or not.  The solver plans for it with the times of the phase that goes with it
  (`PriorityRequestSolver.cpp:852-890`), so that the schedule has commands for a phase that
  does not exist.
- At an intersection with a left turn whose opposite ring has no phase on that side,
  durations and phases of a ring no longer correspond: the starting phase that is made up for
  the silent ring has no times, so that its duration of zero is erased from the results but
  its command is not, and every time moves by one phase.  For a T-junction with the phases
  1, 2, 4 and 8 TLC finds schedules that break `BarrierIsRespected`.  The instances have no such
  intersection, and the theorems exclude it by name (`LeftTurnsAreOpposed`, section 7.7).

*Vehicle* (`vsp/priority-request-generator/`)
- The main loop hands its MapManager over by value (main:78), so that only MAP messages
  change it.  A temporary ID that changes under way (`PriorityRequestGenerator.cpp:668`) leaves
  the old ID's entry to the server's time-out.

*Server-side generator* (`server/priority-request-generator-server/`, not modelled)
- One vehicle's generator deletes the map file shared with the others after 300 s
  (`MapManager.cpp:246-255`); silent vehicles are deleted one at a time, after a BSM or an
  idle second (main:62-96).

## 7. Proofs

Theorems hold for every value of the constants that the named assumptions of the
modules allow.  The assumptions are about configuration (identities, periods, time-outs);
where a theorem needs more, the more is a named hypothesis in its statement.  All proofs
are by an inductive invariant that implies the property, or, for a property of steps,
implies it of every step that starts in it.  TLC checked the invariants on the runs'
instances before they were proved.

| component | theorem | property |
|---|---|---|
| server | `TypeCorrect`, `EmergencyVehicleAlone`, `EmergencyVehiclePlanned`, `ClearRequestOnTheWire`, `TheSolverIsInStep` | `TypeOK`, `EmergencyExclusive`, `EmergencyIsPlanned`, `ClearIsOnTheWire`, `SolverInStep` |
| | `VehiclesLeaveForCause`, `ServerImplementsService`, under `CoordinationOnce` | `LeavesForCause`, `ImplementsService` |
| | `EmergencyVehiclesInPairs`, `TheTableIsBounded`, under `CoordinationInPairs` | `EmergencyPairs`, `TableBounded` |
| coordination generator | `GeneratorTypeCorrect`, `ServerHasTheListAlways`, `FreshForServerAlways` | `GenTypeOK`, `ServerHasTheList`, `FreshForServer` |
| | `PairsRejoinAlways` under `IterationsAreShort`, `EveryCycleIsServedAlways` under `WindowIsMet`, `NoRequestWithoutPlanAlways` under `PlansEndInTime` | `PairsRejoin`, `EveryCycleIsServed`, `NoRequestWithoutPlan` |
| interface | `TheSocketStaysInStep`, `OnlyBitsOfTheSchedule`, `AClearIsFinal`, `CommandsAreInForce`, `NothingElseIsInForce`, `WordsAreEmptiedForCause` | `NoReplyLeftOver`, `NoForeignBits`, `ClearIsFinal`, `CommandInForce`, `NothingElseInForce`, `EmptiedForCause` |
| vehicle | `OffTheMapForgets` | `OffMapForgets` |
| vehicles and server | `WhoAsksIsHeardInTime`, `AcknowledgedRequestsHaveArrived`, `ExchangeRunsBoth` | `HeardInTime`, `AcknowledgedHasArrived`, the steps of both sides |
| solver's loop | `SolverTypeCorrect`, `TheTciFollowsTheServer`, `TheSolverDiesOnlyAfterAMiss`, `TheTimingPlanIsCurrent`, `AnswersAreToItsOwnQuestions` | the types, `TciFollowsServer`, `DiesOnlyAfterMiss`, `PlanIsCurrent`, `AnswersMatchQuestions` |
| emergency plans | `PlansHaveNoGap`, `EmergenciesAreServed`, `CallsAreKept`, `RingsGoRoundTwice` | `EveryGroupHasAPhase`, `EveryEmergencyIsServed`, `NoCallIsOmitted`, `TwoCycles` |
| times of a schedule | `BarrierIsAlwaysRespected`, `GreenTimesAreAlwaysKept`, `EveryCallerAlwaysGetsAGreen`, under `LeftTurnsAreOpposed` | `BarrierIsRespected`, `GreenTimesAreKept`, `EveryCallerGetsAGreen` |

### 7.1 Server

`PriorityRequestServerProofs`, with `VectorOpsProofs` on what erasing returns.  Assumed:
vehicles do not use the coordination identities 1 to 4 and have a role; lists name these
identities; time-outs are natural numbers.  The argument goes through one formula,
`StepOutcome`, of what every step guarantees of the next state: the types hold; either all
statuses have just been assigned from the table or every entry carries its old role and
status; and the solver was either cleared with no emergency vehicle left, or sent the whole
table, or sent nothing while no request was added.  There is one lemma per action; a carried
status was right before, an assigned one is right by `StatusFor`.  These theorems hold
through both outcomes of the undefined erasures.

The second half of the module is about who stands in the table.  `Orderly` is the
inductive invariant for all lists of coordination requests that name nobody twice
(`CoordinationOnce`, which each of the generator's lists satisfies): roles follow from
identities, and only an emergency vehicle has two entries, which were received together and
are each other's split phase.  Nothing is said of those who have but one, so that it survives
the erasures by position that hit somebody else.

Given the invariant every step of the server is one of a few kinds (`StepKinds`: added,
moved, updated, renewed, cancelled, expired, coordinated, withdrawn, kept, forgotten,
cleared, and `RenewedInstead`, `ExpiredInstead` where half of a pair is missing), told by the
entries that stay and what is new, without vectors; the other theorems about the table, the
refinement among them, take the kinds one by one.  `VehiclesLeaveForCause` finds in the last
two kinds the entry that was erased as one of a pair.  `ServerImplementsService` maps each
kind to an action of `PriorityService` or to a stutter, those two to `ServeInstead` and
`ExpireInstead`; `Halved` tells from the table who lost one of two requests.

That an emergency vehicle keeps both entries and that the table is bounded takes more:
`Paired` adds to `Orderly` that no emergency vehicle has one entry only and of a coordination
pair neither is alone.  `EmergencyPairs` by itself is not inductive, because of the erasure by
position.  Hence the hypothesis `CoordinationInPairs` of these two theorems: every list names a
requester once, and its partner.  The generator keeps to that but for an iteration between two
sendings (`PairsRejoin`), and after such an iteration both properties may fail (section 6).
`TheSolverIsInStep` does without either hypothesis: `InStep` compares the solver's
list with the table entry by entry, also after an entry was lost.

### 7.2 Coordination generator

`SignalCoordinationRequestGeneratorProofs`.  Assumed: plans have a positive cycle length and
split, an iteration is shorter than a day and not longer than `SRM_GAPOUT_TIME`; only
`FreshForServerAlways` needs that last part.  `GenInv` adds to the types that a list which
is not empty was sent less than `requestTimedOutValue` ago: `FreshForServer` speaks of a
step, and this is what every branch must leave to the next one.

Three theorems have hypotheses on plans and iterations.  `IterationsAreShort`: a cycle is
longer than two iterations, an iteration shorter than the refresh time.  `WindowIsMet`: an
iteration takes two seconds at most, the width of the window of line 97, offsets are not
zero, and splits are longer than an iteration.  `PlansEndInTime`: a plan lasts a cycle and
ends so long before midnight that its requests run out before.  The configured cycles are of
68 s and 100 s, and an iteration takes its sleep of a second and the work done.  Two
hypotheses are not met by every configuration in the repository: offsets of zero (section
6), and a plan that ends at 23:59, whose requests last past midnight; the model's clock
starts again there, and that is one of the hazards listed in `PROJECT.json`.  The ASSUME
`DayMeetsConditions` shows that the day of `SCRG_core` satisfies all three together.

- *`PairsRejoin`.*  `PairInv`: the list is `InStep` with some plan's cycle and split, that is,
  the two requests of a cycle are alike and those of the second cycle lag by a cycle; who
  has no partner lost it in the last iteration and has no split left.  The lag is what
  makes sure that the second pair is not reached by rounding while the first still is there.
- *`EveryCycleIsServed`.*  `NewAtCycleStart`: inside the window the list is new.  The rest is
  arithmetic of remainders: the second before a cycle's start lies in the same cycle
  (`SameStart`), so that an iteration that passes the start ends in the window or comes
  from it.
- *`NoRequestWithoutPlan`.*  `PlanKept`: a plan that has ended is kept only while its list has
  just been sent.  `ListKept`: the list began with some plan, and `LastUse`, the time at which
  a request will have used up its split, never grows, except by a new list.  The first
  attempt at this proof failed at the bound that the property then had (one second and two
  iterations beyond a cycle and a split); TLC found the behaviour on a longer day: the list
  is sent again by an iteration that overshoots the plan's end, a new list for two cycles
  follows in the window that is still open, a plan check drops the plan, and the
  last request's split is overdrawn by an iteration that sends the list once more.  The
  property now says three iterations, and the day of `SCRG_core` reaches that bound.

### 7.3 Interface

`PhaseControlSchedulerProofs`: for any schedules, numbers of messages, updates, threads and
interleavings.  The first three theorems are from
`SchedulerInv == Shape /\ ReplyInv /\ BitsInv /\ ClearInv`: `Shape` has the fields of the records, of
which the others speak; `ReplyInv` ties a waiting thread to the place where it asked;
`BitsInv` says of every job and every running instance that its phases are those of the list
being worked on, unless a job ran too late; `ClearInv` says, at each place of the clear
branch, which controls are still to be cleared.

The last three are about commands in time and need a longer way:

- *Sorted lists and walks.*  In the sorted list the commands that start together stand
  together (`Contiguous`), so that the walk over the start groups stops at the first of each
  group and at no other; for end groups this is so when ends are in order.  The smallest
  set closed under `NextPlace` is computed without recursion.
- *Preparation.*  `KeepInv`, `PrepareInv` and `AskInv` follow a schedule through
  `clearOldSchedule`: no job runs, the bits are reset, and every word that is on is kept or
  still to be cleared; unless a reply was crossed, none is cleared that the
  schedule may keep, a hold or an omit with which it begins, and when the jobs are added
  nothing else is on.
- *In force.*  `InForce` says what a settled schedule keeps true, for its list and base
  time.  `JobsFit` and `PoolFits`: every job and every instance is one of the list's, due at
  one of its times.  `StartsKnown`, `EndsKnown`: for every command that is to come or goes on
  there is the job that will turn it on, repeat it, or turn it off.  `BitsOn`, `ValuesOn`,
  `WordOn`: of a tame control, a current command's bit is in the status, in every value
  read for sending, and in the word with a refresh to come before the backup time, or
  the instance that will see to it is running.  `BitsOff`, `ValuesOff`, `WordOff`: the same
  for what is not current, when ends are in order.  One lemma per kind of step (a job
  becomes an instance, a bit is written, the word is read, it is sent, time passes,
  the backup time expires) says what becomes of each part.

The properties of the last two theorems were corrected when their proofs failed, with
counterexamples that TLC found on schedules made for them.  `NothingElseInForce` asked that
the commands of the control in question end in order.  That is not enough: the walk goes
through the whole list, and a force-off nested in others makes it pass by the end of a hold.
It asks now for ends in order in every control.  `EmptiedForCause` allowed a word to be
emptied while an instance that turns something off is running.  With three instances at
one time, an activation may send the empty value it had read when the deactivation is
already over; it allows now the time at which a command of the control ends.  It also spoke of
a schedule that begins with the control without saying that this protects holds and omits
only; it now says that calls and force-offs are always emptied.

### 7.4 Vehicles, and vehicles with server

`PriorityRequestGeneratorProofs`: `OffMapForgets` and the types, from `GeneratorInv`, which says
both of every generator.  The lemmas follow the record through the functions of an action:
located, informed, sent; each keeps what `Forgets` says of one generator.

The same module is about the exchange.  `VehiclesStep` and `ServerStep`: each step of the
exchange is one of the vehicles or leaves them alone, and one of the server or leaves it
alone, so that `GeneratorInv` holds in the exchange too, and `ExchangeRunsBoth` that both
sides behave as their modules say.  Assumed: an ID is one vehicle's, and the gap between two
SRMs is not zero.

- *`HeardInTime`.*  `HeardInv`: the ID of a vehicle that is not excused is `InTouch`: an SRM of
  its has just arrived; or the last one arrived no longer ago than it was sent, and if the
  vehicle has had its BSM of this unit of time, that is less than its own time-out; or an
  SRM to here is on the air.  At the end of a unit nothing is on the air, so that one of the
  first two holds, and the next BSM comes before the gap is used up (`AsksInTime`).
- *`AcknowledgedHasArrived`.*  `CountInv`: each count that the table, an SSM to come, the
  vehicle's own table or an SRM shows is that of one of the SRMs counted since nothing was
  shown (`Since`), and the count of an SRM that has not arrived is shown nowhere.  While fewer
  SRMs are counted than there are counts, the next count is a fresh one (`OneMoreSince`).

Both properties were corrected on the way.  `HeardInTime` excused a vehicle until any SRM of
its arrived, an SRM under an ID that it had given up included; it is now excused until one
under its current ID does.  `AcknowledgedHasArrived` was stated for all runs without a restart.
It is false of them: a server that coordination lists never leave idle for a second serves
no time-out, so that an entry may stay until the vehicle's count has come round to it, and
the entry then acknowledges an SRM that was lost.  With 127 counts that takes a vehicle which
sends so many SRMs while none is entered; the property says so by `counted`.

### 7.5 Solver's loop

`PriorityRequestSolverProofs`, for queues of any length.
`SolverInv == TypeOK /\ ListInv /\ PlanInv /\ AnswerInv /\ NumberInv`: `ListInv` says why a wait
ended when there is no coordination plan for the list; `PlanInv` that the last timing plan
in the queue is the newest; `AnswerInv` counts questions and answers; `NumberInv` orders the
numbers of the messages, in the queue ascending and all above the one worked on, which is
above what the TCI has.  The lemmas on queues say what a tail and an appended message do to
that.

### 7.6 Emergency plans

`EmergencySignalPlanProofs`, for all intersections, other requests, weights, and sequences of
lists.  `PlanInv == StartInv /\ EmergencyInv /\ OtherInv /\ PlannedInv /\ GroupInv` says from one
function to the next what is left of the emergency vehicles' requests and where the others
can be; the core is `ManagementCovers`: whatever is spared and whichever dummies are added,
with the starting phases there is a phase left in each ring on each side of the barrier.
For `CallsAreKept`, `ScheduleInv` says what a finished schedule calls and omits, and that
every request that is kept is for a phase of the plan: a starting phase, a through phase, or one of an approach whose through phases are
planned.  For `RingsGoRoundTwice`, the order of a ring is put together of pieces in which
each phase is followed by the next planned one (`Chain`) and comes up once.

### 7.7 The times of a schedule

`SignalTimingProofs`, for all timing plans, reports, calls, lists and cycles that
`TimingAssumption` allows: times are natural numbers; a phase has a least green above two
seconds and a clearance, or else is a left turn that is not in use and has no times at all;
the coordinated phases are in use; a green has not been timed out for longer than it has
lasted; the phases of an emergency plan have times of their own or are left turns without
times beside a planned phase that has them; an emergency plan has a phase in each ring on each side of the barrier
(`EveryGroupHasAPhase` of `EmergencySignalPlan`).  One hypothesis is named in the theorems:
`LeftTurnsAreOpposed`, beside a left turn the other ring has a phase on that side.  Without it
they are false (section 6).

`IInv` says at each stage what is known: of the list its times and phases; of the status that
both starting phases have times, are on one side, are in use if their ring reports, and that
what a ring is taken to have had of its green it has had, or else, where the cycle counts, the
least green (`ElapsedWasGreen`); of the data that a phase without a least green has no greatest;
of a schedule that it was made from one of the `Solutions`.  None of the three properties is
inductive by itself: they speak of schedules only, which are gone with the next list.
TLC checked the invariant in all states of `TIM_core`, but for the last part, which is how the
action makes a schedule and which TLC would have to compute anew in every state.

From the invariant to the properties there are three steps.

- *A course of a ring* (`CoursesFit`): every green is at least the rest of its least one, and
  the phases whose green and duration are zero are those not in use, but for a starting phase
  that is to end at once, whose green may be zero.
- *From the results to the schedule* (`CommandsOfTurns`): the phases come from the timing plan,
  the times from the results without their zeros.  By the first step both leave out the same of
  the eight turns, so that the n-th command is about the n-th turn in use (`Nth`), and the
  running totals of the durations that are left are those of all of them (`TimesKept`); the
  zero put in front of the greens is the starting phase's.  `RingIsSent` says so of the
  schedule.
- *The barrier* (`CrossedBetween`): between two turns on different sides of the barrier there is
  a crossing, at which the two courses of a solution have the same time, and time does not run
  back (`TimeRuns`).

Callers are served by the constraints on the greens, which the second step carries into the
schedule.  Least greens and pedestrians follow from `LeastGreens` and `ElapsedWasGreen`: the
status manager counts at most what was reported (`ElapsedGreens`, `CoordinatedGreens`), and the
solver's adjustment takes away from that, whatever becomes of the greatest greens
(`PassedGreens`).  A ring has eight turns, and so induction over them is eight applications of
a step (`UpToEight`), which takes the place of the induction over data that the provers lack.

For this the greens of a ring are a function on its eight turns in the model, and not a fold
over a sequence.

### 7.8 Model-checked only

Everything live (`SilenceDrains`, `CoordinationEnds`, `RequestIsKept`,
`NobodyIsForgottenInTheTable`, `LoopReturns`), since the prover does not handle liveness
under fairness.  That there is a solution at all is not claimed: `TIM_last` and section 6 say
when there is none.

## 8. Not modelled

- *Arithmetic of positions and times:* ETAs, speeds, distances, and the wrap of the minute
  and of the ETA in the server (`PriorityRequestServer.cpp:800`): they decide when something
  happens, and the models leave that open.
- *GLPK's objective:* which of the feasible schedules is the best one.  The properties hold
  of every feasible schedule.
- *The interface's special functions and the phase status it reports:* bits set once on
  request, and a conversion of SPaT data; `SignalTiming` takes the status as an input with
  the constraints a controller keeps (`Possible`).
- *The server-side generator:* the vehicle's generator once more, for simulated vehicles;
  what it adds is the life of map files (section 6).
- *SNMP engine, MAP-SPaT broadcaster, message transceiver and distributors, HMI controller,
  light-siren status manager, system interface, time-phase diagram, data collector, transfer
  and compressor, simulation bridges, Trajectory-aware, tools:* they convert, forward, store
  or display data datagram by datagram, and what one datagram does does not depend on those
  before it, but for counters and open files.
- *Vendored and library code:* JSON (`jsoncpp`, several copies), the MAP engine and its test
  (`locAware`), ASN.1 encoders, GLPK.  It is the larger part of the C++ and header lines;
  the models use it by what it returns.
- Logging, the performance counters, the wording of messages.
